SPECIFICATION InjectedSpec
CONSTANTS
    Home <- HomeModule
    Registrations <- MCRegistrations
INVARIANTS PathsPreserved PolicyExact AdviceHelps

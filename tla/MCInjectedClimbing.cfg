SPECIFICATION InjectedSpec
CONSTANTS
    Home <- HomeModule
    Registrations <- ClimbingRegistrations
INVARIANT PathsPreserved

SPECIFICATION InjectedSpec
CONSTANTS
    Home <- HomeModule
    Registrations <- ShiftedRegistrations
INVARIANT PathsPreserved

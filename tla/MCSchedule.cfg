SPECIFICATION Spec
CONSTANT N = 4
INVARIANTS DependencyFirst CompleteOrder CycleIsReal WalkNeverStuck FrozenLayers TransitiveIsReachability
PROPERTY Terminates

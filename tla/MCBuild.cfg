SPECIFICATION Spec
CONSTANTS
    N = 3
    Child = {v}
INVARIANTS UnwrapsSucceed DroppedOnce NothingLeftBehind ReverseDiscard

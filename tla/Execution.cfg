\* Ten operations, lists of up to two elements, two events.
CONSTANTS
    Operations <- MCOperations
    MaxLen = 2
    MaxEvents = 2
    None = None
SPECIFICATION Spec
INVARIANTS
    ExecTypeOK
    NullsFollowTheRule
    NullsExplained
    MutationsInOrder
PROPERTIES
    EventuallyAnswered
CHECK_DEADLOCK FALSE

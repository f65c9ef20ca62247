CONSTANTS
    Names = {"f1"}
    Keys = {"a", "b"}
    KeyType <- MCKeyType
    MaxDepth = 1
    MaxTraces = 3
    TimeBits = 2
    TimeLimit = 2
    Hashes = {0, 1, 2, 3}
    KeyHashOf <- MCCollidingHash
    NoValue = NoValue
SPECIFICATION Spec
INVARIANT DumpFaithful
CHECK_DEADLOCK FALSE

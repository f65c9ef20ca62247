CONSTANTS
    Names = {"f1"}
    Keys = {"a", "b"}
    KeyType <- MCKeyType
    MaxDepth = 1
    MaxTraces = 1
    TimeBits = 2
    TimeLimit = 3
    Hashes = {0, 1, 2, 3}
    KeyHashOf <- MCKeyHash
    NoValue = NoValue
SPECIFICATION Spec
PROPERTIES DumpTerminates
CHECK_DEADLOCK FALSE

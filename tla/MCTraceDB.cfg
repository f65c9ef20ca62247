CONSTANTS
    Names = {"f1"}
    Keys = {"a", "b"}
    KeyType <- MCKeyType
    MaxDepth = 1
    MaxTraces = 2
    TimeBits = 2
    TimeLimit = 2
    Hashes = {0, 1, 2, 3}
    KeyHashOf <- MCKeyHash
    NoValue = NoValue
SPECIFICATION Spec
INVARIANTS TypeOK DumpFaithful TimestampsIncrease
PROPERTIES DumpTerminates
CHECK_DEADLOCK FALSE

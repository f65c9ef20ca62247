CONSTANTS
    Nodes <- MCBBNodes
    Inputs <- MCBBInputs
    BBLayouts <- MCBBLayouts
    NoNode = NoNode
    OutPort = OutPort
    Undef = Undef
    OutputChoices <- MCBBOutputs
    KindMenu <- MCBBMenu
    AllowMissing = TRUE
SPECIFICATION Spec
INVARIANTS DefBeforeUse NoMalformedEmission BlackBoxWiring
CHECK_DEADLOCK FALSE

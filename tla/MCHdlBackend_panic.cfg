CONSTANTS
    Nodes <- MCNodes
    Inputs <- MCInputs
    BBLayouts <- MCNoBlackBoxes
    NoNode = NoNode
    OutPort = OutPort
    Undef = Undef
    OutputChoices <- MCOutputs
    KindMenu <- MCBitSelectMenu
    AllowMissing = TRUE
SPECIFICATION Spec
INVARIANT NeverPanics
CHECK_DEADLOCK FALSE

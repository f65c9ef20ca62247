CONSTANTS
    Nodes <- MCNodes
    Inputs <- MCInputs
    BBLayouts <- MCNoBlackBoxes
    NoNode = NoNode
    OutPort = OutPort
    Undef = Undef
    OutputChoices <- MCDirectOutputs
    KindMenu <- MCConstantMenu
    AllowMissing = FALSE
SPECIFICATION Spec
INVARIANT ReactiveWhenInputsMatter
CHECK_DEADLOCK FALSE

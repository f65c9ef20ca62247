CONSTANTS
    Nodes <- MCNodes
    Inputs <- MCInputs
    BBLayouts <- MCNoBlackBoxes
    NoNode = NoNode
    OutPort = OutPort
    Undef = Undef
    OutputChoices <- MCDirectOutputs
    KindMenu <- MCZeroWidthMenu
    AllowMissing = FALSE
SPECIFICATION Spec
INVARIANT AssignedIsDeclared
CHECK_DEADLOCK FALSE

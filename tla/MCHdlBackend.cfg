CONSTANTS
    Nodes <- MCNodes
    Inputs <- MCInputs
    BBLayouts <- MCNoBlackBoxes
    OutputChoices <- MCOutputs
    KindMenu <- MCCodegenMenu
    AllowMissing = FALSE
    NoNode = NoNode
    OutPort = OutPort
    Undef = Undef
SPECIFICATION Spec
INVARIANTS TypeOK DefBeforeUse BodyComputesGraph
CHECK_DEADLOCK FALSE

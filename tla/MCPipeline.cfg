CONSTANTS
    Nodes <- MCNodes
    Inputs <- MCInputs
    OutputChoices <- MCOutputs
    KindMenu <- MCKindMenu
    NoNode = NoNode
    OutPort = OutPort
    Undef = Undef
    MaxRuns = 2
SPECIFICATION Spec
INVARIANTS TypeOK GraphInvariantsKept NodeValuesPreserved 
PROPERTIES SecondRunIsNoop
CHECK_DEADLOCK FALSE

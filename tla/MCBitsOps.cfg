CONSTANTS
    N = 4
    W = 6
    U128Rhs <- MCU128InRange
    I128Rhs <- MCI128InRange
SPECIFICATION Spec
INVARIANT ResultMatchesReference

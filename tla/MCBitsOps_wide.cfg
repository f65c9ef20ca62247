CONSTANTS
    N = 4
    W = 6
    U128Rhs <- MCU128Any
    I128Rhs <- MCI128Any
SPECIFICATION Spec
INVARIANT BitsInRange
\* A rejected conversion panics, which ends the program.
CHECK_DEADLOCK FALSE

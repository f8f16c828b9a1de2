SPECIFICATION Spec
CONSTANTS
    Digit = {0, 1, 9}
    MaxWhole = 2
    MaxDigits = 3
    MaxScale = 3
    RowScale = 2
INVARIANT RateKeepsSign
CHECK_DEADLOCK FALSE

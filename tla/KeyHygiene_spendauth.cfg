CONSTANTS
    MaxSpends = 1
    Fallible = TRUE
SPECIFICATION Spec
INVARIANT
    SpendAuthorityZeroed

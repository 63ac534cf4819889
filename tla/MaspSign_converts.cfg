\* Three converts: the unreset offset of tx_converts_ctx.
CONSTANTS
    Vals = {1}
    Rands = {1, 2}
    MaxSpends = 0
    MaxOutputs = 0
    MaxConverts = 3
    Caps <- MC_ConvertCaps
    MaxSigs = 0
    Fallible = FALSE
SPECIFICATION Spec
INVARIANT
    ConvertsVerified

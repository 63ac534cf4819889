\* One spend, one signature slot, a failing signature_hash.
CONSTANTS
    Vals = {1}
    Rands = {1}
    MaxSpends = 1
    MaxOutputs = 0
    MaxConverts = 0
    Caps <- MC_SpendCaps
    MaxSigs = 1
    Fallible = TRUE
SPECIFICATION Spec
INVARIANT
    SpendsSignSighash

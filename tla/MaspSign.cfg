\* Up to two spends, two spend randomness items, two signature slots,
\* failing key derivation and signing.
CONSTANTS
    Vals = {1}
    Rands = {1, 2}
    MaxSpends = 2
    MaxOutputs = 0
    MaxConverts = 0
    Caps <- MC_SpendCaps
    MaxSigs = 2
    Fallible = TRUE
SPECIFICATION Spec
INVARIANTS
    TypeOK
    SpendsBound
    SpendSignaturesMatch
    AppendedSignaturesInSpendOrder

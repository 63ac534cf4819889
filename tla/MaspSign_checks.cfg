\* One output and two converts, metadata indices 0..1, two randomness
\* values: the output and convert checks on a successful sign.  The second
\* convert is read at offset 1, the first value of the accumulated offset
\* that is not zero.
CONSTANTS
    Vals = {1}
    Rands = {1, 2}
    MaxSpends = 0
    MaxOutputs = 1
    MaxConverts = 2
    Caps <- MC_CheckCaps
    MaxSigs = 0
    Fallible = FALSE
SPECIFICATION Spec
INVARIANTS
    OutputsMatchIndexedSlots
    FirstTwoConverts

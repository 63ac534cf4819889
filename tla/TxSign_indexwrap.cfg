\* A transaction of 255 sections without prior signature sections, signed
\* into a buffer of APDU size with primitives that do not fail.
CONSTANTS
    MaxPriorSigs = 0
    SectionLens = {255}
    SecIdx <- MC_SecIdx
    SigSecIdx <- MC_SigSecIdx
    HashLists <- MC_KnownHashLists
    OutputLens = {257}
    Fallible = FALSE
SPECIFICATION Spec
CHECK_DEADLOCK FALSE
INVARIANT
    WrapperIndicesDistinct

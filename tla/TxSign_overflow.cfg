\* Four recognised prior signature sections: the hash buffer of 10 slots.
CONSTANTS
    MaxPriorSigs = 4
    SectionLens = {4}
    SecIdx <- MC_SecIdx
    SigSecIdx <- MC_SigSecIdx
    HashLists <- MC_KnownHashLists
    OutputLens = {257}
    Fallible = FALSE
SPECIFICATION Spec
CHECK_DEADLOCK FALSE
INVARIANT
    NoHashOverflow

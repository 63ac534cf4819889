\* A prior signature section over the raw header and an unknown section.
CONSTANTS
    MaxPriorSigs = 1
    SectionLens = {4}
    SecIdx <- MC_SecIdx
    SigSecIdx <- MC_SigSecIdx
    HashLists <- MC_HashLists
    OutputLens = {257}
    Fallible = FALSE
SPECIFICATION Spec
CHECK_DEADLOCK FALSE
PROPERTY
    PriorSignatureOnlyIfRecognized

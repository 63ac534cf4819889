\* The smallest buffer crypto_sign accepts and one prior signature section.
CONSTANTS
    MaxPriorSigs = 1
    SectionLens = {4}
    SecIdx <- MC_SecIdx
    SigSecIdx <- MC_SigSecIdx
    HashLists <- MC_KnownHashLists
    OutputLens = {239}
    Fallible = FALSE
SPECIFICATION Spec
CHECK_DEADLOCK FALSE
INVARIANT
    IndicesFitBuffer

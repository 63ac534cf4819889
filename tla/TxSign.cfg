\* crypto_sign on every transaction shape with up to two prior signature
\* sections, buffers one byte short and of APDU size, failing primitives.
CONSTANTS
    MaxPriorSigs = 2
    SectionLens = {4, 255}
    SecIdx <- MC_SecIdx
    SigSecIdx <- MC_SigSecIdx
    HashLists <- MC_HashLists
    OutputLens = {238, 257}
    Fallible = TRUE
SPECIFICATION Spec
CHECK_DEADLOCK FALSE
INVARIANTS
    TypeOK
    WrapperCoversIndexedSections
    RawSignatureChained
PROPERTIES
    ImplementsSignatureChain

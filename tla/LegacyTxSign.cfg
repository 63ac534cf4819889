\* The older crypto_sign on every transaction type, a buffer one byte short
\* of its minimum and one of exactly the minimum, failing primitives.
CONSTANTS
    OutputLens = {226, 227}
    Fallible = TRUE
SPECIFICATION Spec
CHECK_DEADLOCK FALSE
INVARIANTS
    TypeOK
    NoHashOverflow
PROPERTIES
    ImplementsSignatureChain

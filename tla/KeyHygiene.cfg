\* Every command, up to two spends per crypto_sign_masp, failing calls.
CONSTANTS
    MaxSpends = 2
    Fallible = TRUE
SPECIFICATION Spec
INVARIANTS
    TypeOK
    Ed25519KeyZeroed
    SaplingSeedZeroed

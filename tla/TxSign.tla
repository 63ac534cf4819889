------------------------------- MODULE TxSign -------------------------------
(***************************************************************************)
(* crypto_sign (src/app/src/crypto.c, the current version, lines 622-787): *)
(* the device builds the list of section hashes of a parsed transaction,   *)
(* signs the unsigned "raw" signature section over the inner hashes, folds *)
(* the signed raw section into the list, adds code, data, memo and the     *)
(* recognised prior signature sections, replaces slot 0 by the fee header  *)
(* and signs the unsigned "wrapper" section over the whole list.  It then  *)
(* writes the two origin-index lists after the wrapper signature.          *)
(*                                                                         *)
(* Digests are symbolic: SHA-256 is taken to be collision free, so a       *)
(* digest is the tuple of what was hashed.  A leaf digest <<k>> is the hash *)
(* of one section of the transaction; a signature-section digest is        *)
(* <<"sigsec", prefixed, hashes, pubKeys, signatures>>, which is what       *)
(* crypto_hashSigSection feeds to SHA-256 (prefix 0x03, hash count and      *)
(* hashes, PubKeys discriminant, key count and keys, signature count and   *)
(* indexed signatures).  An ed25519 signature over m is <<"ed25519", m>>.   *)
(*                                                                         *)
(* Each call that can fail (CHECK_ZXERR / CHECK_CX_OK) is one step; its    *)
(* failure disjunct returns from crypto_sign with what was already written *)
(* to the output buffer left in place.                                     *)
(***************************************************************************)
EXTENDS Naturals, Sequences

CONSTANTS
    MaxPriorSigs,   \* bound on sections.signaturesLen of a parsed transaction
    SectionLens,    \* values of sections.sectionLen the parser can produce
    SecIdx,         \* section index of each hashed section (code->idx, ...)
    HashLists,      \* hash lists a prior signature section may sign over
    OutputLens,     \* sizes of the response buffer handed to crypto_sign
    Fallible,       \* whether the hash and signing primitives may fail
    SigSecIdx       \* prev_sig->idx: section index of the n-th signature section

ASSUME ConstantsAssumption ==
    /\ MaxPriorSigs \in Nat
    /\ SectionLens \subseteq 0..255
    /\ SecIdx \in [{"code", "data", "memo", "vp", "content", "propCode"} -> 0..255]
    /\ OutputLens \subseteq Nat
    /\ Fallible \in BOOLEAN
    /\ SigSecIdx \in [1..MaxPriorSigs -> 0..255]

(* Sizes from the code (coin.h): PK_LEN_25519_PLUS_TAG, SALT_LEN,         *)
(* SIG_LEN_25519_PLUS_TAG, and the hash buffer of crypto_sign.             *)
PK_LEN_25519_PLUS_TAG == 33
SALT_LEN == 32
SIG_LEN_25519_PLUS_TAG == 65
MAX_SIGNATURE_HASHES == 10

minimumBufferSize == PK_LEN_25519_PLUS_TAG + 2 * SALT_LEN + 2 * SIG_LEN_25519_PLUS_TAG + 2 + 10

(* Offset of the index lists: wrapper = raw + SALT_LEN + SIG_LEN_PLUS_TAG,  *)
(* indices = wrapper + SIG_LEN_PLUS_TAG, raw = output + 33 + SALT_LEN.      *)
IndicesOffset == PK_LEN_25519_PLUS_TAG + SALT_LEN + SALT_LEN + 2 * SIG_LEN_25519_PLUS_TAG

TxTypes == {"InitAccount", "UpdateVP", "InitProposal", "Transfer"}

LeafKinds == {"rawHeader", "feeHeader", "code", "data", "memo", "vp",
              "content", "propCode", "foreign"}

Leaf(k) == <<k>>
Leaves == {Leaf(k) : k \in LeafKinds}

(* A signature section of the transaction signs over section hashes.       *)
ASSUME HashListsAssumption == HashLists \subseteq Seq(Leaves)

(* The device public key written at output[0..32]: tag byte 0 (zeroed) and *)
(* the 32 key bytes.                                                        *)
PK == <<"devicePk">>

(* The zeroed output buffer region / an unwritten field.                   *)
Zero == <<>>

UnsignedDigest(hs) == <<"sigsec", FALSE, hs, <<>>, <<>>>>
Sign(m) == <<"ed25519", m>>

(* The signed raw section: pubKeysLen = 1 (the device key), one indexed    *)
(* signature whose 1-byte index is raw - 1, the last salt byte, which the  *)
(* MEMZERO of the output left at 0.                                         *)
SignedDigest(hs, sig) == <<"sigsec", TRUE, hs, <<PK>>, <<<<0, sig>>>>>>

(* A prior signature section of the transaction, hashed with prefix 0x03.  *)
(* Its signer and signatures are opaque: they are identified by position i. *)
PriorDigest(i, ps) == <<"sigsec", TRUE, ps.hashes, <<<<"pk", i>>>>, <<>>>>

Signatures == {"ed25519"} \X ({"sigsec"} \X {FALSE} \X Seq(Leaves) \X {<<>>} \X {<<>>})
SigSecDigests == {"sigsec"} \X BOOLEAN \X Seq(Leaves)
                   \X Seq({PK} \cup ({"pk"} \X Nat)) \X Seq(Nat \X Signatures)
Digest == Leaves \cup SigSecDigests
WrapperDigests == {"sigsec"} \X {FALSE} \X Seq(Digest) \X {<<>>} \X {<<>>}

PriorSig == [hashes : HashLists, tagsOk : BOOLEAN]

Tx == [type : TxTypes, wasm : BOOLEAN, memo : BOOLEAN, sectionLen : SectionLens,
       sigs : UNION {[1..n -> PriorSig] : n \in 0..MaxPriorSigs}]

VARIABLES
    tx,          \* the parsed transaction (read only)
    outputLen,   \* length of the response buffer
    pc,          \* the next call of crypto_sign to run
    hashes,      \* section_hashes.hashes, its first hashesLen slots
    indices,     \* section_hashes.indices, same length
    secLen,      \* signature_section.hashes.hashesLen (a copy made at 660)
    rawSigHash,  \* the slot raw_signature_hash points at
    wrapperHash, \* wrapper_sig_hash
    rawIndices,  \* raw_indices_buffer, captured at 678-680
    i,           \* loop counter over the prior signature sections (1-based)
    out          \* the response buffer, by region

vars == <<tx, outputLen, pc, hashes, indices, secLen, rawSigHash, wrapperHash,
          rawIndices, i, out>>

(* What each region of the response buffer may hold.                      *)
OutRegions == [pk : {Zero, PK}, raw : {Zero} \cup Signatures,
               wrapper : {Zero} \cup ({"ed25519"} \X WrapperDigests),
               rawIdx : Seq(0..255), finalIdx : Seq(0..255)]

ZeroOut == [pk |-> Zero, raw |-> Zero, wrapper |-> Zero,
            rawIdx |-> Zero, finalIdx |-> Zero]

Pcs == {"extractPk", "rawHeader", "hashRaw", "signRaw", "hashSignedRaw",
        "codeData", "memo", "priorSigs", "hashWrapper", "signWrapper",
        "done", "failed"}

(* Leave crypto_sign through an error return: nothing but pc changes.      *)
Abort ==
    /\ pc' = "failed"
    /\ UNCHANGED <<tx, outputLen, hashes, indices, secLen, rawSigHash,
                   wrapperHash, rawIndices, i, out>>

(* crypto_addTxnHashes: the extra hashes for the transaction type and the  *)
(* section indices written beside them.                                     *)
TxnHashes(t) ==
    CASE t.type \in {"InitAccount", "UpdateVP"} -> <<Leaf("vp")>>
      [] t.type = "InitProposal" /\ t.wasm -> <<Leaf("content"), Leaf("propCode")>>
      [] t.type = "InitProposal" /\ ~t.wasm -> <<Leaf("content")>>
      [] OTHER -> <<>>

TxnIndices(t) ==
    CASE t.type \in {"InitAccount", "UpdateVP"} -> <<SecIdx["vp"]>>
      [] t.type = "InitProposal" /\ t.wasm -> <<SecIdx["content"], SecIdx["propCode"]>>
      [] t.type = "InitProposal" /\ ~t.wasm -> <<SecIdx["content"]>>
      [] OTHER -> <<>>

(* The index given to the raw signature section: a uint8_t slot, so it     *)
(* wraps.                                                                   *)
(* Mutant: the index kept as a plain integer, as if the slot were wider.   *)
RawSigSectionIdxUnwrapped(t) == t.sectionLen + 1

RawSigSectionIdx(t) == (t.sectionLen + 1) % 256

(* The code's test for "every hash the prior section signs is one we know" *)
(* (lines 727-744).  The memcmp compares the first hash of the prior       *)
(* section with the first hash of the accumulator, whatever j and k are.   *)
Recognized(ps, known) ==
    \A j \in 1..Len(ps.hashes) : \E k \in 1..Len(known) : ps.hashes[1] = known[1]

-----------------------------------------------------------------------------

Init ==
    /\ tx \in Tx
    /\ outputLen \in OutputLens
    /\ pc = "extractPk"
    /\ hashes = <<>>
    /\ indices = <<>>
    /\ secLen = 0
    /\ rawSigHash = Zero
    /\ wrapperHash = Zero
    /\ rawIndices = <<>>
    /\ i = 1
    /\ out = ZeroOut

(* Lines 623-629: reject a short buffer, zero the output and write the     *)
(* device public key.                                                       *)
ExtractPublicKey ==
    /\ pc = "extractPk"
    /\ \/ /\ outputLen < minimumBufferSize
          /\ Abort
       \/ /\ outputLen >= minimumBufferSize
          /\ out' = [ZeroOut EXCEPT !.pk = PK]
          /\ pc' = "rawHeader"
          /\ UNCHANGED <<tx, outputLen, hashes, indices, secLen, rawSigHash,
                         wrapperHash, rawIndices, i>>
       \/ /\ outputLen >= minimumBufferSize
          /\ Fallible
          /\ out' = ZeroOut
          /\ pc' = "failed"
          /\ UNCHANGED <<tx, outputLen, hashes, indices, secLen, rawSigHash,
                         wrapperHash, rawIndices, i>>

(* Lines 643-653: the raw header hash in slot 0 with origin 255, then      *)
(* crypto_addTxnHashes.                                                     *)
HashRawHeader ==
    /\ pc = "rawHeader"
    /\ \/ /\ hashes' = <<Leaf("rawHeader")>> \o TxnHashes(tx)
          /\ indices' = <<255>> \o TxnIndices(tx)
          /\ pc' = "hashRaw"
          /\ UNCHANGED <<tx, outputLen, secLen, rawSigHash, wrapperHash,
                         rawIndices, i, out>>
       \/ Fallible /\ Abort

(* Lines 660-672: copy section_hashes into signature_section (hashesLen    *)
(* included), no keys and no signatures, and hash it without prefix into   *)
(* the next free slot.                                                      *)
HashUnsignedRawSection ==
    /\ pc = "hashRaw"
    /\ \/ /\ secLen' = Len(hashes)
          /\ rawSigHash' = UnsignedDigest(hashes)
          /\ pc' = "signRaw"
          /\ UNCHANGED <<tx, outputLen, hashes, indices, wrapperHash,
                         rawIndices, i, out>>
       \/ Fallible /\ Abort

(* Lines 675-680: sign that digest into the raw region and keep a copy of  *)
(* the indices signed so far.                                               *)
SignRaw ==
    /\ pc = "signRaw"
    /\ \/ /\ out' = [out EXCEPT !.raw = Sign(rawSigHash)]
          /\ rawIndices' = indices
          /\ pc' = "hashSignedRaw"
          /\ UNCHANGED <<tx, outputLen, hashes, indices, secLen, rawSigHash,
                         wrapperHash, i>>
       \/ Fallible /\ Abort

(* Mutant: signaturesLen left at 0, so the 0x03 digest omits the raw        *)
(* signature.                                                               *)
HashSignedRawSectionNoSig ==
    /\ pc = "hashSignedRaw"
    /\ \/ /\ LET d == <<"sigsec", TRUE, SubSeq(hashes, 1, secLen), <<PK>>, <<>>>>
             IN /\ rawSigHash' = d
                /\ hashes' = Append(hashes, d)
          /\ indices' = Append(indices, RawSigSectionIdx(tx))
          /\ secLen' = secLen + 1
          /\ pc' = "codeData"
          /\ UNCHANGED <<tx, outputLen, wrapperHash, rawIndices, i, out>>
       \/ Fallible /\ Abort

(* Lines 685-696: one key, one indexed signature, hash with prefix 0x03    *)
(* over the same slot and append it with the raw section's index.          *)
HashSignedRawSection ==
    /\ pc = "hashSignedRaw"
    /\ \/ /\ LET d == SignedDigest(SubSeq(hashes, 1, secLen), out.raw)
             IN /\ rawSigHash' = d
                /\ hashes' = Append(hashes, d)
          /\ indices' = Append(indices, RawSigSectionIdx(tx))
          /\ secLen' = secLen + 1
          /\ pc' = "codeData"
          /\ UNCHANGED <<tx, outputLen, wrapperHash, rawIndices, i, out>>
       \/ Fallible /\ Abort

(* Lines 699-709: the code and data section hashes.                         *)
HashCodeAndData ==
    /\ pc = "codeData"
    /\ \/ /\ hashes' = hashes \o <<Leaf("code"), Leaf("data")>>
          /\ indices' = indices \o <<SecIdx["code"], SecIdx["data"]>>
          /\ secLen' = secLen + 2
          /\ pc' = "memo"
          /\ UNCHANGED <<tx, outputLen, rawSigHash, wrapperHash, rawIndices, i, out>>
       \/ Fallible /\ Abort

(* Mutant: signature_section.hashes.hashesLen not incremented for the memo. *)
HashMemoNoSecLen ==
    /\ pc = "memo"
    /\ \/ /\ tx.memo
          /\ hashes' = Append(hashes, Leaf("memo"))
          /\ indices' = Append(indices, SecIdx["memo"])
          /\ pc' = "priorSigs"
          /\ UNCHANGED <<tx, outputLen, secLen, rawSigHash, wrapperHash, rawIndices, i, out>>
       \/ /\ ~tx.memo
          /\ pc' = "priorSigs"
          /\ UNCHANGED <<tx, outputLen, hashes, indices, secLen, rawSigHash,
                         wrapperHash, rawIndices, i, out>>
       \/ tx.memo /\ Fallible /\ Abort

(* Lines 712-719: the memo section hash, when the header names one.         *)
HashMemo ==
    /\ pc = "memo"
    /\ \/ /\ tx.memo
          /\ hashes' = Append(hashes, Leaf("memo"))
          /\ indices' = Append(indices, SecIdx["memo"])
          /\ secLen' = secLen + 1
          /\ pc' = "priorSigs"
          /\ UNCHANGED <<tx, outputLen, rawSigHash, wrapperHash, rawIndices, i, out>>
       \/ /\ ~tx.memo
          /\ pc' = "priorSigs"
          /\ UNCHANGED <<tx, outputLen, hashes, indices, secLen, rawSigHash,
                         wrapperHash, rawIndices, i, out>>
       \/ tx.memo /\ Fallible /\ Abort

(* Mutant: a skipped section does not advance the loop counter.           *)
HashPriorSignatureNoAdvance ==
    /\ pc = "priorSigs"
    /\ i <= Len(tx.sigs)
    /\ LET ps == tx.sigs[i] IN
       \/ /\ ~Recognized(ps, SubSeq(hashes, 1, secLen))
          /\ UNCHANGED vars
       \/ /\ Recognized(ps, SubSeq(hashes, 1, secLen))
          /\ ps.tagsOk
          /\ hashes' = Append(hashes, PriorDigest(i, ps))
          /\ indices' = Append(indices, SigSecIdx[i])
          /\ secLen' = secLen + 1
          /\ i' = i + 1
          /\ UNCHANGED <<tx, outputLen, pc, rawSigHash, wrapperHash, rawIndices, out>>
       \/ /\ Recognized(ps, SubSeq(hashes, 1, secLen))
          /\ (~ps.tagsOk \/ Fallible)
          /\ Abort

(* Lines 722-752, one iteration: a prior signature section is skipped      *)
(* unless the code's test recognises it; a recognised one is hashed with   *)
(* prefix 0x03 (which fails on a key or signature tag that is neither      *)
(* ed25519 nor secp256k1) and appended with its section index prev_sig->idx.*)
HashPriorSignature ==
    /\ pc = "priorSigs"
    /\ i <= Len(tx.sigs)
    /\ LET ps == tx.sigs[i] IN
       \/ /\ ~Recognized(ps, SubSeq(hashes, 1, secLen))
          /\ i' = i + 1
          /\ UNCHANGED <<tx, outputLen, pc, hashes, indices, secLen, rawSigHash,
                         wrapperHash, rawIndices, out>>
       \/ /\ Recognized(ps, SubSeq(hashes, 1, secLen))
          /\ ps.tagsOk
          /\ hashes' = Append(hashes, PriorDigest(i, ps))
          /\ indices' = Append(indices, SigSecIdx[i])
          /\ secLen' = secLen + 1
          /\ i' = i + 1
          /\ UNCHANGED <<tx, outputLen, pc, rawSigHash, wrapperHash, rawIndices, out>>
       \/ /\ Recognized(ps, SubSeq(hashes, 1, secLen))
          /\ (~ps.tagsOk \/ Fallible)
          /\ Abort

(* Lines 755-757: after the loop, the fee header hash overwrites slot 0    *)
(* and its origin becomes 0.                                                *)
HashFeeHeader ==
    /\ pc = "priorSigs"
    /\ i > Len(tx.sigs)
    /\ \/ /\ hashes' = [hashes EXCEPT ![1] = Leaf("feeHeader")]
          /\ indices' = [indices EXCEPT ![1] = 0]
          /\ pc' = "hashWrapper"
          /\ UNCHANGED <<tx, outputLen, secLen, rawSigHash, wrapperHash,
                         rawIndices, i, out>>
       \/ Fallible /\ Abort

(* Lines 759-763: no keys, no signatures, hash without prefix.             *)
HashWrapperSection ==
    /\ pc = "hashWrapper"
    /\ \/ /\ wrapperHash' = UnsignedDigest(SubSeq(hashes, 1, secLen))
          /\ pc' = "signWrapper"
          /\ UNCHANGED <<tx, outputLen, hashes, indices, secLen, rawSigHash,
                         rawIndices, i, out>>
       \/ Fallible /\ Abort

(* Lines 766-786: sign the wrapper digest, then write the raw index list   *)
(* and the final index list, each after its length byte.                   *)
SignWrapper ==
    /\ pc = "signWrapper"
    /\ \/ /\ out' = [out EXCEPT !.wrapper = Sign(wrapperHash),
                                !.rawIdx = rawIndices,
                                !.finalIdx = indices]
          /\ pc' = "done"
          /\ UNCHANGED <<tx, outputLen, hashes, indices, secLen, rawSigHash,
                         wrapperHash, rawIndices, i>>
       \/ Fallible /\ Abort

Next ==
    \/ ExtractPublicKey
    \/ HashRawHeader
    \/ HashUnsignedRawSection
    \/ SignRaw
    \/ HashSignedRawSection
    \/ HashCodeAndData
    \/ HashMemo
    \/ HashPriorSignature
    \/ HashFeeHeader
    \/ HashWrapperSection
    \/ SignWrapper

(* crypto_sign runs to its return without interruption: weak fairness on  *)
(* its steps.                                                               *)
Spec == Init /\ [][Next]_vars /\ WF_vars(Next)

-----------------------------------------------------------------------------
(***************************************************************************)
(* Properties                                                              *)
(***************************************************************************)

(* The type invariant.                                                      *)
TypeOK ==
    /\ tx \in Tx
    /\ outputLen \in OutputLens
    /\ pc \in Pcs
    /\ hashes \in Seq(Digest)
    /\ indices \in Seq(0..255)
    /\ secLen \in Nat
    /\ rawSigHash \in {Zero} \cup Digest
    /\ wrapperHash \in {Zero} \cup WrapperDigests
    /\ rawIndices \in Seq(0..255)
    /\ i \in 1..(Len(tx.sigs) + 1)
    /\ out \in OutRegions

(* The section index the host pairs with a hash: 255 for the raw header,   *)
(* 0 for the fee header, the section's own index otherwise.                *)
Origin(t, d) ==
    CASE d = Leaf("rawHeader") -> 255
      [] d = Leaf("feeHeader") -> 0
      [] d \in {Leaf(k) : k \in DOMAIN SecIdx} -> SecIdx[d[1]]
      [] d[1] = "sigsec" /\ d[4] = <<PK>> -> RawSigSectionIdx(t)
      [] OTHER -> SigSecIdx[CHOOSE n \in DOMAIN t.sigs : PriorDigest(n, t.sigs[n]) = d]

(* The hashes a signature signs over, read off the symbolic signature.     *)
SignedHashes(sig) == sig[2][3]

(* The host rebuilds the wrapper section from the final index list that    *)
(* crypto_sign writes after the wrapper signature (lines 783-784): the      *)
(* wrapper signature is over exactly as many hashes as that list has, and   *)
(* the k-th index names the section whose hash is k-th.                     *)
WrapperCoversIndexedSections ==
    pc = "done" =>
        LET W == SignedHashes(out.wrapper) IN
        /\ out.wrapper = Sign(UnsignedDigest(W))
        /\ Len(W) = Len(out.finalIdx)
        /\ \A k \in 1..Len(W) : Origin(tx, W[k]) = out.finalIdx[k]

(* The raw signature chains into the wrapper: it signs the raw header and  *)
(* the type's extra hashes, exactly the sections the raw index list names  *)
(* (lines 678-680, 780-781), and the wrapper list holds the 0x03-prefixed  *)
(* digest of the raw section carrying that very signature, under the raw   *)
(* section's index (lines 685-695).                                         *)
RawSignatureChained ==
    pc = "done" =>
        LET R == SignedHashes(out.raw)
            W == SignedHashes(out.wrapper)
        IN
        /\ out.raw = Sign(UnsignedDigest(R))
        /\ Len(R) = Len(out.rawIdx)
        /\ R # <<>> /\ R[1] = Leaf("rawHeader")
        /\ \A k \in 1..Len(R) : Origin(tx, R[k]) = out.rawIdx[k]
        /\ \E p \in 1..Len(W) :
              /\ W[p] = SignedDigest(R, out.raw)
              /\ out.finalIdx[p] = RawSigSectionIdx(tx)

(* The host maps each index of the final list back to one section, so two *)
(* hashes of the wrapper list never share an index: an index is a section  *)
(* index or one of the header sentinels 0 and 255 (spec section 3).  The   *)
(* raw signature section gets sectionLen + 1, stored in a uint8_t at line  *)
(* 694, beside the fee header's 0 written at line 755.                      *)
WrapperIndicesDistinct ==
    pc = "done" =>
        \A j, k \in 1..Len(out.finalIdx) : j # k => out.finalIdx[j] # out.finalIdx[k]

(* Every hash crypto_sign writes lands inside hashes_buffer, which holds   *)
(* MAX_SIGNATURE_HASHES hashes (line 633); nothing checks the bound.        *)
NoHashOverflow == Len(hashes) <= MAX_SIGNATURE_HASHES

(* The two index lists written at lines 780-784 end inside the buffer whose *)
(* length crypto_sign accepted at line 625.                                *)
IndicesFitBuffer ==
    pc = "done" =>
        IndicesOffset + 2 + Len(out.rawIdx) + Len(out.finalIdx) <= outputLen

(* Every hash in hs is one of the hashes in known.                          *)
AllKnown(hs, known) ==
    \A j \in 1..Len(hs) : \E k \in 1..Len(known) : hs[j] = known[k]

(* A prior signature section is folded into the wrapper list only if every *)
(* hash it signs over is already in the list (the intent stated at lines    *)
(* 726 and 746, spec section 4.3 step 9).                                   *)
PriorSignatureOnlyIfRecognized ==
    [][ (pc = "priorSigs" /\ pc' = "priorSigs" /\ Len(hashes') > Len(hashes))
          => AllKnown(tx.sigs[i].hashes, SubSeq(hashes, 1, secLen)) ]_vars

-----------------------------------------------------------------------------
(***************************************************************************)
(* Refinement: crypto_sign implements SignatureChain.  Until the call      *)
(* returns, the abstract call is busy and shows no signature; a successful *)
(* return shows the two signatures of the output buffer and the hash lists *)
(* they sign over.                                                          *)
(***************************************************************************)
ChainStatus == CASE pc = "done" -> "done" [] pc = "failed" -> "failed" [] OTHER -> "busy"
ChainRaw == IF pc = "done" THEN out.raw ELSE Zero
ChainWrapper == IF pc = "done" THEN out.wrapper ELSE Zero
ChainRawList == IF pc = "done" THEN SignedHashes(out.raw) ELSE <<>>
ChainWrapList == IF pc = "done" THEN SignedHashes(out.wrapper) ELSE <<>>

Chain == INSTANCE SignatureChain
           WITH NoSig <- Zero, Sig <- Sign, UnsignedSec <- UnsignedDigest,
                SignedSec <- SignedDigest, status <- ChainStatus,
                raw <- ChainRaw, wrapper <- ChainWrapper,
                rawList <- ChainRawList, wrapList <- ChainWrapList

(* Every behaviour of crypto_sign (lines 622-787) is one of SignatureChain: *)
(* a successful return hands out a wrapper signature whose hash list holds *)
(* the signed raw section carrying the returned raw signature, and every   *)
(* call returns.                                                            *)
ImplementsSignatureChain == Chain!SafeSpec /\ Chain!Returns

=============================================================================

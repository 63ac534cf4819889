---------------------------- MODULE LegacyTxSign ----------------------------
(***************************************************************************)
(* The older crypto_sign of src/app/src/crypto.c (lines 232-310), built    *)
(* with MAX_SIGNATURE_HASHES 6 (line 31): the code and data hashes, the    *)
(* type's extra hashes (crypto_addTxnHashes, 192-229), the raw signature   *)
(* over them, the signed raw section and the header hash appended, and     *)
(* the wrapper signature over the whole list.  There are no index lists    *)
(* and no prior signature sections.                                        *)
(*                                                                         *)
(* Digests are symbolic, as in TxSign.  This version's crypto_hashSigSection *)
(* (170-190) hashes the prefix, the salt, hashesLen and the hashes, the    *)
(* 33-byte public key and, when has_signature holds, the signature; so a   *)
(* section digest is <<"section", prefixed, hashes, key, signature>>.  The *)
(* salt is the zeroed region of the output (nothing writes it) and is left *)
(* out.                                                                     *)
(***************************************************************************)
EXTENDS Naturals, Sequences

CONSTANTS
    OutputLens,   \* sizes of the response buffer handed to crypto_sign
    Fallible      \* whether the section hashers and the signing may fail

ASSUME LegacyAssumption == OutputLens \subseteq Nat /\ Fallible \in BOOLEAN

PK_LEN_25519_PLUS_TAG == 33
SALT_LEN == 32
SIG_LEN_25519_PLUS_TAG == 65
MAX_SIGNATURE_HASHES == 6

minimumBufferSize == PK_LEN_25519_PLUS_TAG + 2 * SALT_LEN + 2 * SIG_LEN_25519_PLUS_TAG

TxTypes == {"InitAccount", "InitValidator", "UpdateVP", "InitProposal", "Transfer"}

Tx == [type : TxTypes, hasProposalCode : BOOLEAN]

Leaf(k) == <<k>>
Leaves == {Leaf(k) : k \in {"code", "data", "vp", "content", "propCode", "header"}}

(* The device key block output[0..32], tag byte 0 and the key.             *)
PK == <<"devicePk">>
Zero == <<>>

UnsignedDigest(hs) == <<"section", FALSE, hs, PK, Zero>>
SignedDigest(hs, sig) == <<"section", TRUE, hs, PK, sig>>
Sign(m) == <<"ed25519", m>>

RawSignatures == {"ed25519"} \X ({"section"} \X {FALSE} \X Seq(Leaves) \X {PK} \X {Zero})
SectionDigests == {"section"} \X BOOLEAN \X Seq(Leaves) \X {PK} \X ({Zero} \cup RawSignatures)
Digest == Leaves \cup SectionDigests
WrapperDigests == {"section"} \X {FALSE} \X Seq(Digest) \X {PK} \X {Zero}

VARIABLES
    tx,          \* the parsed transaction (read only)
    outputLen,   \* length of the response buffer
    pc,          \* the next block of crypto_sign to run
    hashes,      \* section_hashes: its first hashesLen slots
    secLen,      \* signature_section.hashes.hashesLen, a copy made at 267
    rawSigHash,  \* the slot raw_signature_hash points at (one past the list)
    wrapperHash, \* wrapper_sig_hash
    out          \* the response buffer by region: pk, raw, wrapper

vars == <<tx, outputLen, pc, hashes, secLen, rawSigHash, wrapperHash, out>>

ZeroOut == [pk |-> Zero, raw |-> Zero, wrapper |-> Zero]

Pcs == {"extractPk", "codeData", "hashRaw", "signRaw", "hashSignedRaw",
        "header", "hashWrapper", "signWrapper", "done", "failed"}

(* An error return: the output keeps what was written.                     *)
Abort ==
    /\ pc' = "failed"
    /\ UNCHANGED <<tx, outputLen, hashes, secLen, rawSigHash, wrapperHash, out>>

(* crypto_addTxnHashes (192-229): one vp hash for InitAccount,             *)
(* InitValidator and UpdateVP; the content hash and, if present, the       *)
(* proposal code hash for InitProposal.                                    *)
TxnHashes(t) ==
    CASE t.type \in {"InitAccount", "InitValidator", "UpdateVP"} -> <<Leaf("vp")>>
      [] t.type = "InitProposal" /\ t.hasProposalCode -> <<Leaf("content"), Leaf("propCode")>>
      [] t.type = "InitProposal" -> <<Leaf("content")>>
      [] OTHER -> <<>>

-----------------------------------------------------------------------------

Init ==
    /\ tx \in Tx
    /\ outputLen \in OutputLens
    /\ pc = "extractPk"
    /\ hashes = <<>>
    /\ secLen = 0
    /\ rawSigHash = Zero
    /\ wrapperHash = Zero
    /\ out = ZeroOut

(* Lines 233-239: reject a short buffer, zero the output, write the key;   *)
(* crypto_extractPublicKey_ed25519 zeroes the key region when it fails.    *)
ExtractPublicKey ==
    /\ pc = "extractPk"
    /\ \/ /\ outputLen < minimumBufferSize
          /\ Abort
       \/ /\ outputLen >= minimumBufferSize
          /\ out' = [ZeroOut EXCEPT !.pk = PK]
          /\ pc' = "codeData"
          /\ UNCHANGED <<tx, outputLen, hashes, secLen, rawSigHash, wrapperHash>>
       \/ /\ outputLen >= minimumBufferSize
          /\ Fallible
          /\ out' = ZeroOut
          /\ pc' = "failed"
          /\ UNCHANGED <<tx, outputLen, hashes, secLen, rawSigHash, wrapperHash>>

(* Lines 241-258: the code and data hashes in slots 0 and 1, hashesLen 2,  *)
(* then crypto_addTxnHashes, which cannot fail on a parsed transaction.    *)
HashCodeAndData ==
    /\ pc = "codeData"
    /\ \/ /\ hashes' = <<Leaf("code"), Leaf("data")>> \o TxnHashes(tx)
          /\ pc' = "hashRaw"
          /\ UNCHANGED <<tx, outputLen, secLen, rawSigHash, wrapperHash, out>>
       \/ Fallible /\ Abort

(* Mutant: section_hashes.hashesLen advanced past the unsigned digest (the *)
(* copy in signature_section is not), so the signed digest takes a new slot. *)
HashUnsignedRawSectionAppended ==
    /\ pc = "hashRaw"
    /\ secLen' = Len(hashes)
    /\ rawSigHash' = UnsignedDigest(hashes)
    /\ hashes' = Append(hashes, UnsignedDigest(hashes))
    /\ pc' = "signRaw"
    /\ UNCHANGED <<tx, outputLen, wrapperHash, out>>

(* Lines 260-275: copy section_hashes into signature_section (hashesLen    *)
(* included) with the device key and no signature, and hash it without     *)
(* prefix into the slot after the list.  The hasher cannot fail here.      *)
HashUnsignedRawSection ==
    /\ pc = "hashRaw"
    /\ secLen' = Len(hashes)
    /\ rawSigHash' = UnsignedDigest(hashes)
    /\ pc' = "signRaw"
    /\ UNCHANGED <<tx, outputLen, hashes, wrapperHash, out>>

(* Lines 277-279: sign that digest into raw + 1.                            *)
SignRaw ==
    /\ pc = "signRaw"
    /\ \/ /\ out' = [out EXCEPT !.raw = Sign(rawSigHash)]
          /\ pc' = "hashSignedRaw"
          /\ UNCHANGED <<tx, outputLen, hashes, secLen, rawSigHash, wrapperHash>>
       \/ Fallible /\ Abort

(* Mutant: has_signature left false, so the 0x03 digest omits the raw      *)
(* signature.                                                               *)
HashSignedRawSectionNoSig ==
    /\ pc = "hashSignedRaw"
    /\ LET d == <<"section", TRUE, SubSeq(hashes, 1, secLen), PK, Zero>>
       IN /\ rawSigHash' = d
          /\ hashes' = Append(hashes, d)
    /\ secLen' = secLen + 1
    /\ pc' = "header"
    /\ UNCHANGED <<tx, outputLen, wrapperHash, out>>

(* Lines 281-292: attach the raw signature, hash with prefix 0x03 over the *)
(* same slot, and advance both hashesLen.                                   *)
HashSignedRawSection ==
    /\ pc = "hashSignedRaw"
    /\ LET d == SignedDigest(SubSeq(hashes, 1, secLen), out.raw)
       IN /\ rawSigHash' = d
          /\ hashes' = Append(hashes, d)
    /\ secLen' = secLen + 1
    /\ pc' = "header"
    /\ UNCHANGED <<tx, outputLen, wrapperHash, out>>

(* Lines 294-298: the header hash (discriminant 0x07), appended.           *)
HashHeader ==
    /\ pc = "header"
    /\ hashes' = Append(hashes, Leaf("header"))
    /\ secLen' = secLen + 1
    /\ pc' = "hashWrapper"
    /\ UNCHANGED <<tx, outputLen, rawSigHash, wrapperHash, out>>

(* Lines 300-303: has_signature false again, hash without prefix.          *)
HashWrapperSection ==
    /\ pc = "hashWrapper"
    /\ wrapperHash' = UnsignedDigest(SubSeq(hashes, 1, secLen))
    /\ pc' = "signWrapper"
    /\ UNCHANGED <<tx, outputLen, hashes, secLen, rawSigHash, out>>

(* Mutant: the wrapper signed over the raw signature hash slot, as the     *)
(* comment of line 301 ("into raw_sig_hash") reads.                        *)
SignWrapperRawSlot ==
    /\ pc = "signWrapper"
    /\ \/ /\ out' = [out EXCEPT !.wrapper = Sign(rawSigHash)]
          /\ pc' = "done"
          /\ UNCHANGED <<tx, outputLen, hashes, secLen, rawSigHash, wrapperHash>>
       \/ Fallible /\ Abort

(* Lines 305-309: sign the wrapper digest into wrapper + 1.                 *)
SignWrapper ==
    /\ pc = "signWrapper"
    /\ \/ /\ out' = [out EXCEPT !.wrapper = Sign(wrapperHash)]
          /\ pc' = "done"
          /\ UNCHANGED <<tx, outputLen, hashes, secLen, rawSigHash, wrapperHash>>
       \/ Fallible /\ Abort

Next ==
    \/ ExtractPublicKey
    \/ HashCodeAndData
    \/ HashUnsignedRawSection
    \/ SignRaw
    \/ HashSignedRawSection
    \/ HashHeader
    \/ HashWrapperSection
    \/ SignWrapper

(* Straight-line code that runs to its return.                              *)
Spec == Init /\ [][Next]_vars /\ WF_vars(Next)

-----------------------------------------------------------------------------

(* The type invariant; a signature region holds a signature over an        *)
(* unsigned section digest only.                                            *)
TypeOK ==
    /\ tx \in Tx
    /\ outputLen \in OutputLens
    /\ pc \in Pcs
    /\ hashes \in Seq(Digest)
    /\ secLen \in Nat
    /\ rawSigHash \in {Zero} \cup SectionDigests
    /\ wrapperHash \in {Zero} \cup WrapperDigests
    /\ out \in [pk : {Zero, PK}, raw : {Zero} \cup RawSignatures,
               wrapper : {Zero} \cup ({"ed25519"} \X WrapperDigests)]

(* The hashes_buffer of line 242 holds MAX_SIGNATURE_HASHES hashes: the    *)
(* comment of line 241 counts code, data, at most two extra hashes, the raw *)
(* signature and the header.  No append is checked against it.            *)
NoHashOverflow == Len(hashes) <= MAX_SIGNATURE_HASHES

-----------------------------------------------------------------------------
(* Refinement: the older crypto_sign implements SignatureChain too.        *)
ChainStatus == CASE pc = "done" -> "done" [] pc = "failed" -> "failed" [] OTHER -> "busy"
ChainRaw == IF pc = "done" THEN out.raw ELSE Zero
ChainWrapper == IF pc = "done" THEN out.wrapper ELSE Zero
ChainRawList == IF pc = "done" THEN out.raw[2][3] ELSE <<>>
ChainWrapList == IF pc = "done" THEN out.wrapper[2][3] ELSE <<>>

Chain == INSTANCE SignatureChain
           WITH NoSig <- Zero, Sig <- Sign, UnsignedSec <- UnsignedDigest,
                SignedSec <- SignedDigest, status <- ChainStatus,
                raw <- ChainRaw, wrapper <- ChainWrapper,
                rawList <- ChainRawList, wrapList <- ChainWrapList

(* Every behaviour of the older crypto_sign (lines 232-310) is one of      *)
(* SignatureChain: its wrapper signature covers the signed raw section     *)
(* carrying its raw signature, and every call returns.                     *)
ImplementsSignatureChain == Chain!SafeSpec /\ Chain!Returns

=============================================================================

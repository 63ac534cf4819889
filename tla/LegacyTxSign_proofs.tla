------------------------- MODULE LegacyTxSign_proofs -------------------------
(***************************************************************************)
(* Proofs about the older crypto_sign (LegacyTxSign, lines 232-310) for    *)
(* every value of the constants.                                           *)
(*                                                                         *)
(* The older version is straight-line code without loops or overwrites,   *)
(* so the inductive invariant LInv can say exactly what section_hashes     *)
(* holds at each step: the code and data hashes with the type's extra     *)
(* hashes (Base), then the signed raw section (SignedRaw), then the header *)
(* hash.  The bound on the six-slot hashes_buffer, type correctness and   *)
(* the refinement of SignatureChain all follow from it.                   *)
(***************************************************************************)
EXTENDS LegacyTxSign, SequenceTheorems, TLAPS

(* The list hashed for the raw signature (lines 241-258).                  *)
Base(t) == <<Leaf("code"), Leaf("data")>> \o TxnHashes(t)

(* The raw signature over it (277-279) and the signed raw section (281-292). *)
RawSig(t) == Sign(UnsignedDigest(Base(t)))
SignedRaw(t) == SignedDigest(Base(t), RawSig(t))

(* The list after the signed raw section, and after the header (294-298).  *)
WithSigned(t) == Append(Base(t), SignedRaw(t))
Full(t) == Append(WithSigned(t), Leaf("header"))

LInv ==
    /\ TypeOK
    /\ pc \in {"extractPk", "codeData"} => hashes = <<>>
    /\ pc \in {"hashRaw", "signRaw", "hashSignedRaw"} => hashes = Base(tx)
    /\ pc \in {"signRaw", "hashSignedRaw"} =>
          secLen = Len(Base(tx)) /\ rawSigHash = UnsignedDigest(Base(tx))
    /\ pc = "hashSignedRaw" => out.raw = RawSig(tx)
    /\ pc = "header" =>
          hashes = WithSigned(tx) /\ secLen = Len(Base(tx)) + 1 /\ out.raw = RawSig(tx)
    /\ pc \in {"hashWrapper", "signWrapper", "done"} =>
          hashes = Full(tx) /\ secLen = Len(Base(tx)) + 2 /\ out.raw = RawSig(tx)
    /\ pc \in {"signWrapper", "done"} => wrapperHash = UnsignedDigest(Full(tx))
    /\ pc = "done" => out.wrapper = Sign(UnsignedDigest(Full(tx)))
    /\ pc = "failed" => Len(hashes) <= Len(Base(tx)) + 2

-----------------------------------------------------------------------------
(* crypto_addTxnHashes adds at most two leaf hashes.                        *)
LEMMA TxnHashesType ==
    ASSUME NEW t \in Tx
    PROVE  TxnHashes(t) \in Seq(Leaves) /\ Len(TxnHashes(t)) <= 2
  BY DEF TxnHashes, Tx, TxTypes, Leaves, Leaf

LEMMA LeavesInDigest == Seq(Leaves) \subseteq Seq(Digest)
<1>1. Leaves \subseteq Digest
  BY DEF Digest
<1>. QED
  BY <1>1

(* The raw signature's list holds two to four leaves.                       *)
LEMMA BaseType ==
    ASSUME NEW t \in Tx
    PROVE  /\ Base(t) \in Seq(Leaves)
           /\ Len(Base(t)) \in 2..4
<1>1. TxnHashes(t) \in Seq(Leaves) /\ Len(TxnHashes(t)) <= 2
  BY TxnHashesType
<1>2. <<Leaf("code"), Leaf("data")>> \in Seq(Leaves)
  BY DEF Leaves
<1>. QED
  BY <1>1, <1>2, ConcatProperties DEF Base

(* The digests and lists the code builds are of the types TypeOK names,    *)
(* and the signed raw section sits in the slot after Base.                  *)
LEMMA ChainTypes ==
    ASSUME NEW t \in Tx
    PROVE  /\ UnsignedDigest(Base(t)) \in SectionDigests
           /\ RawSig(t) \in RawSignatures
           /\ SignedRaw(t) \in SectionDigests
           /\ WithSigned(t) \in Seq(Digest)
           /\ Len(WithSigned(t)) = Len(Base(t)) + 1
           /\ Full(t) \in Seq(Digest)
           /\ Len(Full(t)) = Len(Base(t)) + 2
           /\ Full(t)[Len(Base(t)) + 1] = SignedRaw(t)
           /\ SubSeq(WithSigned(t), 1, Len(Base(t)) + 1) = WithSigned(t)
           /\ SubSeq(Full(t), 1, Len(Base(t)) + 2) = Full(t)
           /\ UnsignedDigest(Full(t)) \in WrapperDigests
<1>1. Base(t) \in Seq(Leaves) /\ Base(t) \in Seq(Digest) /\ Len(Base(t)) \in 2..4
  BY BaseType, LeavesInDigest
<1>2. UnsignedDigest(Base(t)) \in SectionDigests
  BY <1>1 DEF UnsignedDigest, SectionDigests
<1>3. RawSig(t) \in RawSignatures
  BY <1>1 DEF RawSig, Sign, UnsignedDigest, RawSignatures
<1>4. SignedRaw(t) \in SectionDigests /\ SignedRaw(t) \in Digest
  BY <1>1, <1>3 DEF SignedRaw, SignedDigest, SectionDigests, Digest
<1>5. /\ WithSigned(t) \in Seq(Digest) /\ Len(WithSigned(t)) = Len(Base(t)) + 1
      /\ WithSigned(t)[Len(Base(t)) + 1] = SignedRaw(t)
  BY <1>1, <1>4, AppendProperties DEF WithSigned
<1>6. Leaf("header") \in Digest
  BY DEF Leaves, Digest
<1>7. /\ Full(t) \in Seq(Digest) /\ Len(Full(t)) = Len(Base(t)) + 2
      /\ Full(t)[Len(Base(t)) + 1] = SignedRaw(t)
  BY <1>1, <1>5, <1>6, AppendProperties DEF Full
<1>8. /\ SubSeq(WithSigned(t), 1, Len(Base(t)) + 1) = WithSigned(t)
      /\ SubSeq(Full(t), 1, Len(Base(t)) + 2) = Full(t)
  BY <1>1, <1>5, <1>7, SubSeqFull
<1>9. UnsignedDigest(Full(t)) \in WrapperDigests
  BY <1>7 DEF UnsignedDigest, WrapperDigests
<1>. QED
  BY <1>2, <1>3, <1>4, <1>5, <1>7, <1>8, <1>9

-----------------------------------------------------------------------------
LEMMA InitLInv == Init => LInv
  BY DEF Init, LInv, TypeOK, Pcs, ZeroOut, Zero

(* An error return changes pc only; the list is never longer than Full.    *)
LEMMA AbortLInv ==
    ASSUME LInv, Abort, Len(hashes) <= Len(Base(tx)) + 2
    PROVE  LInv'
  BY DEF LInv, Abort, TypeOK, Pcs

LEMMA ExtractPublicKeyLInv == LInv /\ ExtractPublicKey => LInv'
<1> SUFFICES ASSUME LInv, ExtractPublicKey PROVE LInv'
  OBVIOUS
<1>1. hashes = <<>>
  BY DEF LInv, ExtractPublicKey
<1>2. CASE outputLen < minimumBufferSize /\ Abort
  BY <1>1, <1>2, AbortLInv
<1>3. CASE /\ out' \in {[ZeroOut EXCEPT !.pk = PK], ZeroOut}
           /\ pc' \in {"codeData", "failed"}
           /\ UNCHANGED <<tx, outputLen, hashes, secLen, rawSigHash, wrapperHash>>
  <2>1. [ZeroOut EXCEPT !.pk = PK] = [pk |-> PK, raw |-> Zero, wrapper |-> Zero]
    BY DEF ZeroOut
  <2>. QED
    BY <1>1, <1>3, <2>1 DEF LInv, TypeOK, Pcs, ZeroOut
<1>. QED
  BY <1>2, <1>3 DEF ExtractPublicKey

LEMMA HashCodeAndDataLInv == LInv /\ HashCodeAndData => LInv'
<1> SUFFICES ASSUME LInv, HashCodeAndData PROVE LInv'
  OBVIOUS
<1>0. tx \in Tx /\ hashes = <<>>
  BY DEF LInv, TypeOK, HashCodeAndData
<1>1. CASE Fallible /\ Abort
  BY <1>0, <1>1, AbortLInv
<1>2. CASE /\ hashes' = <<Leaf("code"), Leaf("data")>> \o TxnHashes(tx)
           /\ pc' = "hashRaw"
           /\ UNCHANGED <<tx, outputLen, secLen, rawSigHash, wrapperHash, out>>
  <2>1. hashes' = Base(tx) /\ Base(tx) \in Seq(Digest)
    BY <1>0, <1>2, BaseType, LeavesInDigest DEF Base
  <2>. QED
    BY <1>2, <2>1 DEF LInv, TypeOK, Pcs
<1>. QED
  BY <1>1, <1>2 DEF HashCodeAndData

LEMMA HashUnsignedRawSectionLInv == LInv /\ HashUnsignedRawSection => LInv'
<1> SUFFICES ASSUME LInv, HashUnsignedRawSection PROVE LInv'
  OBVIOUS
<1>1. tx \in Tx /\ hashes = Base(tx)
  BY DEF LInv, TypeOK, HashUnsignedRawSection
<1>2. UnsignedDigest(Base(tx)) \in SectionDigests /\ Len(Base(tx)) \in Nat
  BY <1>1, ChainTypes, BaseType
<1>. QED
  BY <1>1, <1>2 DEF LInv, TypeOK, Pcs, HashUnsignedRawSection

LEMMA SignRawLInv == LInv /\ SignRaw => LInv'
<1> SUFFICES ASSUME LInv, SignRaw PROVE LInv'
  OBVIOUS
<1>0. tx \in Tx /\ hashes = Base(tx) /\ Len(Base(tx)) \in 2..4
  BY BaseType DEF LInv, TypeOK, SignRaw
<1>1. CASE Fallible /\ Abort
  BY <1>0, <1>1, AbortLInv
<1>2. CASE /\ out' = [out EXCEPT !.raw = Sign(rawSigHash)]
           /\ pc' = "hashSignedRaw"
           /\ UNCHANGED <<tx, outputLen, hashes, secLen, rawSigHash, wrapperHash>>
  <2>1. rawSigHash = UnsignedDigest(Base(tx)) /\ RawSig(tx) \in RawSignatures
    BY <1>0, <1>2, ChainTypes DEF LInv, SignRaw
  <2>2. out'.raw = RawSig(tx) /\ out'.pk = out.pk /\ out'.wrapper = out.wrapper
    BY <1>2, <2>1 DEF LInv, TypeOK, RawSig
  <2>3. out' \in [pk : {Zero, PK}, raw : {Zero} \cup RawSignatures,
                  wrapper : {Zero} \cup ({"ed25519"} \X WrapperDigests)]
    BY <1>2, <2>1, <2>2 DEF LInv, TypeOK
  <2>4. TypeOK'
    BY <1>2, <2>3 DEF LInv, TypeOK, Pcs
  <2>5. secLen = Len(Base(tx)) /\ pc = "signRaw"
    BY DEF LInv, SignRaw
  <2>. QED
    BY <1>0, <1>2, <2>1, <2>2, <2>4, <2>5 DEF LInv
<1>. QED
  BY <1>1, <1>2 DEF SignRaw

LEMMA HashSignedRawSectionLInv == LInv /\ HashSignedRawSection => LInv'
<1> SUFFICES ASSUME LInv, HashSignedRawSection PROVE LInv'
  OBVIOUS
<1>1. /\ tx \in Tx /\ pc = "hashSignedRaw" /\ hashes = Base(tx)
      /\ secLen = Len(Base(tx)) /\ out.raw = RawSig(tx)
  BY DEF LInv, TypeOK, HashSignedRawSection
<1>2. Base(tx) \in Seq(Digest) /\ Len(Base(tx)) \in 2..4
  BY <1>1, BaseType, LeavesInDigest
<1>3. SubSeq(hashes, 1, secLen) = Base(tx)
  BY <1>1, <1>2, SubSeqFull
<1>4. rawSigHash' = SignedRaw(tx) /\ hashes' = WithSigned(tx)
  BY <1>1, <1>3 DEF HashSignedRawSection, SignedRaw, WithSigned
<1>5. SignedRaw(tx) \in SectionDigests /\ WithSigned(tx) \in Seq(Digest)
  BY <1>1, ChainTypes
<1>. QED
  BY <1>1, <1>2, <1>4, <1>5 DEF LInv, TypeOK, Pcs, HashSignedRawSection

LEMMA HashHeaderLInv == LInv /\ HashHeader => LInv'
<1> SUFFICES ASSUME LInv, HashHeader PROVE LInv'
  OBVIOUS
<1>1. /\ tx \in Tx /\ hashes = WithSigned(tx)
      /\ secLen = Len(Base(tx)) + 1 /\ out.raw = RawSig(tx)
  BY DEF LInv, TypeOK, HashHeader
<1>2. hashes' = Full(tx)
  BY <1>1 DEF HashHeader, Full
<1>3. Full(tx) \in Seq(Digest) /\ Len(Base(tx)) \in 2..4
  BY <1>1, ChainTypes, BaseType
<1>. QED
  BY <1>1, <1>2, <1>3 DEF LInv, TypeOK, Pcs, HashHeader

LEMMA HashWrapperSectionLInv == LInv /\ HashWrapperSection => LInv'
<1> SUFFICES ASSUME LInv, HashWrapperSection PROVE LInv'
  OBVIOUS
<1>1. /\ tx \in Tx /\ hashes = Full(tx) /\ secLen = Len(Base(tx)) + 2
  BY DEF LInv, TypeOK, HashWrapperSection
<1>2. /\ SubSeq(hashes, 1, secLen) = Full(tx)
      /\ UnsignedDigest(Full(tx)) \in WrapperDigests
  BY <1>1, ChainTypes
<1>3. wrapperHash' = UnsignedDigest(Full(tx))
  BY <1>2 DEF HashWrapperSection
<1>. QED
  BY <1>1, <1>2, <1>3 DEF LInv, TypeOK, Pcs, HashWrapperSection

LEMMA SignWrapperLInv == LInv /\ SignWrapper => LInv'
<1> SUFFICES ASSUME LInv, SignWrapper PROVE LInv'
  OBVIOUS
<1>0. /\ tx \in Tx /\ hashes = Full(tx) /\ wrapperHash = UnsignedDigest(Full(tx))
      /\ Len(Full(tx)) = Len(Base(tx)) + 2
      /\ UnsignedDigest(Full(tx)) \in WrapperDigests
  BY ChainTypes DEF LInv, TypeOK, SignWrapper
<1>1. CASE Fallible /\ Abort
  BY <1>0, <1>1, AbortLInv
<1>2. CASE /\ out' = [out EXCEPT !.wrapper = Sign(wrapperHash)]
           /\ pc' = "done"
           /\ UNCHANGED <<tx, outputLen, hashes, secLen, rawSigHash, wrapperHash>>
  <2>1. /\ out'.wrapper = Sign(UnsignedDigest(Full(tx)))
        /\ out'.raw = out.raw /\ out'.pk = out.pk
    BY <1>0, <1>2 DEF LInv, TypeOK
  <2>2. Sign(UnsignedDigest(Full(tx))) \in {"ed25519"} \X WrapperDigests
    BY <1>0 DEF Sign
  <2>3. out' \in [pk : {Zero, PK}, raw : {Zero} \cup RawSignatures,
                  wrapper : {Zero} \cup ({"ed25519"} \X WrapperDigests)]
    BY <1>2, <2>1, <2>2 DEF LInv, TypeOK
  <2>4. TypeOK'
    BY <1>2, <2>3 DEF LInv, TypeOK, Pcs
  <2>5. secLen = Len(Base(tx)) + 2 /\ out.raw = RawSig(tx) /\ pc = "signWrapper"
    BY DEF LInv, SignWrapper
  <2>. QED
    BY <1>0, <1>2, <2>1, <2>4, <2>5 DEF LInv
<1>. QED
  BY <1>1, <1>2 DEF SignWrapper

LEMMA NextLInv == LInv /\ [Next]_vars => LInv'
<1> SUFFICES ASSUME LInv, [Next]_vars PROVE LInv'
  OBVIOUS
<1>1. CASE UNCHANGED vars
  BY <1>1 DEF vars, LInv, TypeOK
<1>. QED
  BY <1>1, ExtractPublicKeyLInv, HashCodeAndDataLInv, HashUnsignedRawSectionLInv,
     SignRawLInv, HashSignedRawSectionLInv, HashHeaderLInv, HashWrapperSectionLInv,
     SignWrapperLInv DEF Next

(* LInv holds in every reachable state of the older crypto_sign.            *)
THEOREM LInvInvariant == Spec => []LInv
<1>1. Init => LInv
  BY InitLInv
<1>2. LInv /\ [Next]_vars => LInv'
  BY NextLInv
<1>. QED
  BY <1>1, <1>2, PTL DEF Spec

(* Type correctness of the older crypto_sign.                              *)
THEOREM LegacyTypeCorrect == Spec => []TypeOK
<1>1. LInv => TypeOK
  BY DEF LInv
<1>. QED
  BY <1>1, LInvInvariant, PTL

(* Two more hashes than a list of at most four are at most six.            *)
LEMMA SixSlots ==
    ASSUME NEW n \in 2..4, NEW m \in Nat, m <= n + 2
    PROVE  m <= 6
  OBVIOUS

(* hashes_buffer has room for every hash the older crypto_sign writes: the *)
(* code and data hashes, at most two from crypto_addTxnHashes, the signed   *)
(* raw section and the header make six, MAX_SIGNATURE_HASHES, whatever the *)
(* transaction type and wherever a primitive fails.                        *)
THEOREM LegacyNoOverflow == Spec => []NoHashOverflow
<1>1. LInv => NoHashOverflow
  <2> SUFFICES ASSUME LInv PROVE Len(hashes) <= MAX_SIGNATURE_HASHES
    BY DEF NoHashOverflow
  <2>1. tx \in Tx /\ pc \in Pcs /\ hashes \in Seq(Digest)
    BY DEF LInv, TypeOK
  <2>2. Len(Base(tx)) \in 2..4 /\ Len(WithSigned(tx)) = Len(Base(tx)) + 1
        /\ Len(Full(tx)) = Len(Base(tx)) + 2
    BY <2>1, BaseType, ChainTypes
  <2>3. Len(hashes) <= Len(Base(tx)) + 2
    <3>1. CASE pc \in {"extractPk", "codeData"}
      BY <2>2, <3>1 DEF LInv
    <3>2. CASE pc \in {"hashRaw", "signRaw", "hashSignedRaw"}
      BY <2>2, <3>2 DEF LInv
    <3>3. CASE pc = "header"
      BY <2>2, <3>3 DEF LInv
    <3>4. CASE pc \in {"hashWrapper", "signWrapper", "done", "failed"}
      BY <2>2, <3>4 DEF LInv
    <3>. QED
      BY <2>1, <3>1, <3>2, <3>3, <3>4 DEF Pcs
  <2>4. Len(hashes) \in Nat
    BY <2>1
  <2>5. Len(Base(tx)) \in 2..4
    BY <2>2
  <2>. QED
    BY <2>3, <2>4, <2>5, SixSlots DEF MAX_SIGNATURE_HASHES
<1>. QED
  BY <1>1, LInvInvariant, PTL

(* Every step starts before the return, and the step that returns success *)
(* is SignWrapper writing the wrapper signature.                           *)
LEMMA LegacyStepShape ==
    ASSUME Next
    PROVE  /\ pc \notin {"done", "failed"}
           /\ pc' = "done" =>
                 /\ pc = "signWrapper"
                 /\ out' = [out EXCEPT !.wrapper = Sign(wrapperHash)]
  BY DEF Next, ExtractPublicKey, HashCodeAndData, HashUnsignedRawSection, SignRaw,
         HashSignedRawSection, HashHeader, HashWrapperSection, SignWrapper, Abort

(* The older crypto_sign (lines 232-310) implements the signature chain:  *)
(* its wrapper signature is over a list whose slot after the raw list is  *)
(* the signed raw section carrying the raw signature it returns.          *)
THEOREM LegacyRefinement == Spec => Chain!SafeSpec
<1>1. Init => Chain!Init
  BY DEF Init, Chain!Init, ChainStatus, ChainRaw, ChainWrapper, ChainRawList, ChainWrapList
<1>2. LInv /\ [Next]_vars => [Chain!Next]_Chain!avars
  <2> SUFFICES ASSUME LInv, [Next]_vars PROVE [Chain!Next]_Chain!avars
    OBVIOUS
  <2>1. CASE UNCHANGED vars
    BY <2>1 DEF vars, Chain!avars, ChainStatus, ChainRaw, ChainWrapper, ChainRawList,
                ChainWrapList
  <2>2. CASE Next
    <3>1. pc \notin {"done", "failed"} /\ ChainStatus = "busy"
      BY <2>2, LegacyStepShape DEF ChainStatus
    <3>2. CASE pc' = "done"
      <4>1. pc = "signWrapper" /\ out' = [out EXCEPT !.wrapper = Sign(wrapperHash)]
        BY <2>2, <3>2, LegacyStepShape
      <4>2. /\ tx \in Tx /\ out.raw = RawSig(tx) /\ wrapperHash = UnsignedDigest(Full(tx))
            /\ out \in [pk : {Zero, PK}, raw : {Zero} \cup RawSignatures,
                        wrapper : {Zero} \cup ({"ed25519"} \X WrapperDigests)]
        BY <4>1 DEF LInv, TypeOK
      <4>3. out'.raw = RawSig(tx) /\ out'.wrapper = Sign(UnsignedDigest(Full(tx)))
        BY <4>1, <4>2
      <4>4. /\ Len(Base(tx)) \in 2..4 /\ Len(Full(tx)) = Len(Base(tx)) + 2
            /\ Full(tx)[Len(Base(tx)) + 1] = SignedRaw(tx)
        BY <4>2, BaseType, ChainTypes
      <4>5. /\ ChainStatus' = "done"
            /\ ChainRaw' = RawSig(tx) /\ ChainRawList' = Base(tx)
            /\ ChainWrapper' = Sign(UnsignedDigest(Full(tx))) /\ ChainWrapList' = Full(tx)
        BY <3>2, <4>3
           DEF ChainStatus, ChainRaw, ChainRawList, ChainWrapper, ChainWrapList,
               RawSig, Sign, UnsignedDigest
      <4>6. /\ Base(tx) # <<>>
            /\ \E p \in 1..Len(Full(tx)) : Full(tx)[p] = SignedDigest(Base(tx), RawSig(tx))
        <5>1. Base(tx) # <<>>
          BY <4>4
        <5>2. Len(Base(tx)) + 1 \in 1..Len(Full(tx))
          BY <4>4
        <5>3. Full(tx)[Len(Base(tx)) + 1] = SignedDigest(Base(tx), RawSig(tx))
          BY <4>4 DEF SignedRaw
        <5>. QED  BY <5>1, <5>2, <5>3
      <4>. QED
        BY <3>1, <4>5, <4>6 DEF Chain!Next, Chain!Complete, RawSig
    <3>3. CASE pc' = "failed"
      <4>1. /\ ChainStatus' = "failed"
            /\ UNCHANGED <<ChainRaw, ChainWrapper, ChainRawList, ChainWrapList>>
        BY <3>1, <3>3 DEF ChainStatus, ChainRaw, ChainWrapper, ChainRawList, ChainWrapList
      <4>. QED
        BY <3>1, <4>1 DEF Chain!Next, Chain!Fail
    <3>4. CASE pc' \notin {"done", "failed"}
      BY <3>1, <3>4 DEF Chain!avars, ChainStatus, ChainRaw, ChainWrapper, ChainRawList,
                        ChainWrapList
    <3>. QED
      BY <3>2, <3>3, <3>4
  <2>. QED
    BY <2>1, <2>2
<1>. QED
  BY <1>1, <1>2, LInvInvariant, PTL DEF Spec, Chain!SafeSpec

=============================================================================

---------------------------- MODULE TxSign_proofs ----------------------------
(***************************************************************************)
(* Proofs about crypto_sign (TxSign) for every value of the constants.     *)
(*                                                                         *)
(* The hash list of crypto_sign is built in slots that are later read by   *)
(* position: the wrapper digest covers the first signature_section         *)
(* .hashes.hashesLen slots, and the final index list is the indices array. *)
(* The inductive invariant IInv records what the code keeps in step at     *)
(* each point of the function: the two arrays have one length, each index *)
(* names the section whose hash sits in its slot, the copied hashesLen     *)
(* equals the accumulator length from the copy at line 660 on, and the     *)
(* digests hashed and signed so far are those of the current list.         *)
(***************************************************************************)
EXTENDS TxSign, SequenceTheorems, TLAPS

(* The steps after the copy into signature_section at line 660.             *)
AfterCopy == {"signRaw", "hashSignedRaw", "codeData", "memo", "priorSigs",
              "hashWrapper", "signWrapper", "done"}

(* The index list xs pairs each hash of hs with the section it came from. *)
Matches(t, hs, xs) ==
    /\ Len(hs) = Len(xs)
    /\ \A k \in 1..Len(hs) : Origin(t, hs[k]) = xs[k]

IInv ==
    /\ TypeOK
    /\ Matches(tx, hashes, indices)
    /\ pc \in AfterCopy \cup {"hashRaw"} => Len(hashes) >= 1
    /\ pc \in {"hashRaw", "signRaw", "hashSignedRaw"} => hashes \in Seq(Leaves)
    /\ pc \in {"signRaw", "hashSignedRaw"} => rawSigHash = UnsignedDigest(hashes)
    /\ pc = "hashSignedRaw" => out.raw = Sign(rawSigHash)
    /\ pc \in AfterCopy => secLen = Len(hashes)
    /\ pc \in {"signWrapper", "done"} => wrapperHash = UnsignedDigest(hashes)
    /\ pc = "done" => out.wrapper = Sign(wrapperHash) /\ out.finalIdx = indices

-----------------------------------------------------------------------------
(* The parts of ConstantsAssumption the proofs use, one at a time.          *)
LEMMA MaxPriorSigsNat == MaxPriorSigs \in Nat
  BY ConstantsAssumption

LEMMA SectionLensRange == SectionLens \subseteq 0..255
  BY ConstantsAssumption

LEMMA SecIdxRange ==
    SecIdx \in [{"code", "data", "memo", "vp", "content", "propCode"} -> 0..255]
  BY ConstantsAssumption

LEMMA SigSecIdxRange == SigSecIdx \in [1..MaxPriorSigs -> 0..255]
  BY ConstantsAssumption

(* The index written for the raw signature section fits its uint8_t slot.  *)
LEMMA RawSigSectionIdxType ==
    ASSUME NEW t \in Tx
    PROVE  RawSigSectionIdx(t) \in 0..255
<1>1. t.sectionLen \in SectionLens
  BY DEF Tx
<1>2. t.sectionLen \in 0..255
  BY <1>1, SectionLensRange, Zenon
<1>. QED
  BY <1>2 DEF RawSigSectionIdx

(* The prior signature sections of a parsed transaction form a sequence    *)
(* of at most MaxPriorSigs sections.                                        *)
LEMMA TxSigsSeq ==
    ASSUME NEW t \in Tx
    PROVE  /\ t.sigs \in Seq(PriorSig)
           /\ Len(t.sigs) \in 0..MaxPriorSigs
           /\ DOMAIN t.sigs = 1..Len(t.sigs)
<1>1. PICK n \in 0..MaxPriorSigs : t.sigs \in [1..n -> PriorSig]
  BY DEF Tx
<1>2. n \in Nat
  BY <1>1, ConstantsAssumption
<1>3. t.sigs \in Seq(PriorSig) /\ Len(t.sigs) = n
  BY <1>1, <1>2
<1>. QED
  BY <1>1, <1>3

(* The section index the host reads off a leaf hash (Origin).              *)
LEMMA OriginLeaf ==
    ASSUME NEW t
    PROVE  /\ Origin(t, Leaf("rawHeader")) = 255
           /\ Origin(t, Leaf("feeHeader")) = 0
           /\ \A k \in {"code", "data", "memo", "vp", "content", "propCode"} :
                 Origin(t, Leaf(k)) = SecIdx[k]
<1>1. Origin(t, Leaf("rawHeader")) = 255
  BY ConstantsAssumption DEF Origin, Leaf
<1>2. Origin(t, Leaf("feeHeader")) = 0
  BY ConstantsAssumption DEF Origin, Leaf
<1>3. ASSUME NEW k \in {"code", "data", "memo", "vp", "content", "propCode"}
      PROVE  Origin(t, Leaf(k)) = SecIdx[k]
  <2>1. DOMAIN SecIdx = {"code", "data", "memo", "vp", "content", "propCode"}
    BY ConstantsAssumption
  <2>2. Leaf(k) # Leaf("rawHeader") /\ Leaf(k) # Leaf("feeHeader")
    BY DEF Leaf
  <2>3. Leaf(k) \in {Leaf(x) : x \in DOMAIN SecIdx} /\ Leaf(k)[1] = k
    BY <2>1 DEF Leaf
  <2>. QED
    BY <2>2, <2>3 DEF Origin
<1>. QED
  BY <1>1, <1>2, <1>3

(* The signed raw section is read as the raw signature section's index.   *)
LEMMA OriginSigned ==
    ASSUME NEW t, NEW hs, NEW sig
    PROVE  Origin(t, SignedDigest(hs, sig)) = RawSigSectionIdx(t)
<1>1. SignedDigest(hs, sig) # Leaf("rawHeader") /\ SignedDigest(hs, sig) # Leaf("feeHeader")
  BY DEF SignedDigest, Leaf
<1>2. SignedDigest(hs, sig) \notin {Leaf(k) : k \in DOMAIN SecIdx}
  BY DEF SignedDigest, Leaf
<1>3. SignedDigest(hs, sig)[1] = "sigsec" /\ SignedDigest(hs, sig)[4] = <<PK>>
  BY DEF SignedDigest
<1>. QED
  BY <1>1, <1>2, <1>3 DEF Origin

(* The digest of the n-th prior signature section is read as its index.   *)
LEMMA OriginPrior ==
    ASSUME NEW t, NEW n \in DOMAIN t.sigs
    PROVE  Origin(t, PriorDigest(n, t.sigs[n])) = SigSecIdx[n]
<1> DEFINE d == PriorDigest(n, t.sigs[n])
<1>1. d # Leaf("rawHeader") /\ d # Leaf("feeHeader")
  BY DEF PriorDigest, Leaf
<1>2. d \notin {Leaf(k) : k \in DOMAIN SecIdx}
  BY DEF PriorDigest, Leaf
<1>3. d[4] # <<PK>>
  BY DEF PriorDigest, PK
<1>4. \A m \in DOMAIN t.sigs : PriorDigest(m, t.sigs[m]) = d => m = n
  BY DEF PriorDigest
<1>5. (CHOOSE m \in DOMAIN t.sigs : PriorDigest(m, t.sigs[m]) = d) = n
  BY <1>4
<1>. QED
  BY <1>1, <1>2, <1>3, <1>5 DEF Origin

(* crypto_addTxnHashes: leaf hashes with the matching section indices.     *)
LEMMA TxnHashesMatch ==
    ASSUME NEW t \in Tx
    PROVE  /\ TxnHashes(t) \in Seq(Leaves)
           /\ TxnIndices(t) \in Seq(0..255)
           /\ Matches(t, TxnHashes(t), TxnIndices(t))
<1>1. SecIdx \in [{"code", "data", "memo", "vp", "content", "propCode"} -> 0..255]
  BY ConstantsAssumption
<1>2. CASE t.type \in {"InitAccount", "UpdateVP"}
  <2>1. TxnHashes(t) = <<Leaf("vp")>> /\ TxnIndices(t) = <<SecIdx["vp"]>>
    BY <1>2 DEF TxnHashes, TxnIndices
  <2>. QED
    BY <2>1, <1>1, OriginLeaf DEF Leaves, LeafKinds, Matches
<1>3. CASE t.type = "InitProposal" /\ t.wasm
  <2>1. TxnHashes(t) = <<Leaf("content"), Leaf("propCode")>>
        /\ TxnIndices(t) = <<SecIdx["content"], SecIdx["propCode"]>>
    BY <1>3 DEF TxnHashes, TxnIndices
  <2>. QED
    BY <2>1, <1>1, OriginLeaf DEF Leaves, LeafKinds, Matches
<1>4. CASE t.type = "InitProposal" /\ ~t.wasm
  <2>1. TxnHashes(t) = <<Leaf("content")>> /\ TxnIndices(t) = <<SecIdx["content"]>>
    BY <1>4 DEF TxnHashes, TxnIndices
  <2>. QED
    BY <2>1, <1>1, OriginLeaf DEF Leaves, LeafKinds, Matches
<1>5. CASE t.type = "Transfer"
  <2>1. TxnHashes(t) = <<>> /\ TxnIndices(t) = <<>>
    BY <1>5 DEF TxnHashes, TxnIndices
  <2>. QED
    BY <2>1 DEF Matches
<1>. QED
  BY <1>2, <1>3, <1>4, <1>5 DEF Tx, TxTypes

(* Leaf hashes are digests.                                                 *)
LEMMA LeavesDigests == Seq(Leaves) \subseteq Seq(Digest)
<1>1. Leaves \subseteq Digest
  BY DEF Digest
<1>. QED
  BY <1>1

(* The raw signature signs an unsigned digest of leaf hashes.              *)
LEMMA SignUnsignedType ==
    ASSUME NEW hs \in Seq(Leaves)
    PROVE  Sign(UnsignedDigest(hs)) \in Signatures
  BY DEF Sign, UnsignedDigest, Signatures

(* The unsigned digest of a list of hashes is a signature-section digest.  *)
LEMMA UnsignedDigestType ==
    ASSUME NEW hs \in Seq(Digest)
    PROVE  /\ UnsignedDigest(hs) \in WrapperDigests
           /\ hs \in Seq(Leaves) => UnsignedDigest(hs) \in SigSecDigests
<1>1. <<>> \in Seq({PK} \cup ({"pk"} \X Nat)) /\ <<>> \in Seq(Nat \X Signatures)
  OBVIOUS
<1>. QED
  BY <1>1 DEF UnsignedDigest, SigSecDigests, WrapperDigests

(* Concatenating two matching lists gives a matching list.                 *)
LEMMA ConcatMatches ==
    ASSUME NEW t, NEW D, NEW h1 \in Seq(D), NEW h2 \in Seq(D),
           NEW x1 \in Seq(0..255), NEW x2 \in Seq(0..255),
           Matches(t, h1, x1), Matches(t, h2, x2)
    PROVE  /\ h1 \o h2 \in Seq(D)
           /\ x1 \o x2 \in Seq(0..255)
           /\ Len(h1 \o h2) = Len(h1) + Len(h2)
           /\ Matches(t, h1 \o h2, x1 \o x2)
<1>1. /\ h1 \o h2 \in Seq(D) /\ Len(h1 \o h2) = Len(h1) + Len(h2)
      /\ \A k \in 1..Len(h1) + Len(h2) :
            (h1 \o h2)[k] = IF k <= Len(h1) THEN h1[k] ELSE h2[k - Len(h1)]
  BY ConcatProperties
<1>2. /\ x1 \o x2 \in Seq(0..255) /\ Len(x1 \o x2) = Len(x1) + Len(x2)
      /\ \A k \in 1..Len(x1) + Len(x2) :
            (x1 \o x2)[k] = IF k <= Len(x1) THEN x1[k] ELSE x2[k - Len(x1)]
  BY ConcatProperties
<1>. QED
  BY <1>1, <1>2 DEF Matches

(* ConcatMatches for lists of leaf hashes.                                 *)
LEMMA ConcatLeavesMatches ==
    ASSUME NEW t, NEW h1 \in Seq(Leaves), NEW h2 \in Seq(Leaves),
           NEW x1 \in Seq(0..255), NEW x2 \in Seq(0..255),
           Matches(t, h1, x1), Matches(t, h2, x2)
    PROVE  /\ h1 \o h2 \in Seq(Leaves)
           /\ x1 \o x2 \in Seq(0..255)
           /\ Len(h1 \o h2) = Len(h1) + Len(h2)
           /\ Matches(t, h1 \o h2, x1 \o x2)
  BY ConcatMatches, Zenon

(* Appending a hash with its section index keeps the lists matching.       *)
LEMMA AppendMatches ==
    ASSUME NEW t, NEW hs \in Seq(Digest), NEW xs \in Seq(0..255),
           NEW d \in Digest, NEW x \in 0..255,
           Matches(t, hs, xs), Origin(t, d) = x
    PROVE  /\ Append(hs, d) \in Seq(Digest)
           /\ Append(xs, x) \in Seq(0..255)
           /\ Len(Append(hs, d)) = Len(hs) + 1
           /\ Matches(t, Append(hs, d), Append(xs, x))
<1>1. /\ Append(hs, d) \in Seq(Digest) /\ Len(Append(hs, d)) = Len(hs) + 1
      /\ \A k \in 1..Len(hs) : Append(hs, d)[k] = hs[k]
      /\ Append(hs, d)[Len(hs) + 1] = d
  BY AppendProperties
<1>2. /\ Append(xs, x) \in Seq(0..255) /\ Len(Append(xs, x)) = Len(xs) + 1
      /\ \A k \in 1..Len(xs) : Append(xs, x)[k] = xs[k]
      /\ Append(xs, x)[Len(xs) + 1] = x
  BY AppendProperties
<1>. QED
  BY <1>1, <1>2 DEF Matches

(* ConcatMatches for lists of digests.                   *)
LEMMA ConcatDigestMatches ==
    ASSUME NEW t, NEW h1 \in Seq(Digest), NEW h2 \in Seq(Digest),
           NEW x1 \in Seq(0..255), NEW x2 \in Seq(0..255),
           Matches(t, h1, x1), Matches(t, h2, x2)
    PROVE  /\ h1 \o h2 \in Seq(Digest)
           /\ x1 \o x2 \in Seq(0..255)
           /\ Len(h1 \o h2) = Len(h1) + Len(h2)
           /\ Matches(t, h1 \o h2, x1 \o x2)
  BY ConcatMatches, Zenon

(* The signed raw section and a prior signature section hash to digests.  *)
LEMMA SignedDigestType ==
    ASSUME NEW hs \in Seq(Leaves), NEW sig \in Signatures
    PROVE  SignedDigest(hs, sig) \in Digest
<1>1. <<PK>> \in Seq({PK} \cup ({"pk"} \X Nat)) /\ <<<<0, sig>>>> \in Seq(Nat \X Signatures)
  OBVIOUS
<1>. QED
  BY <1>1 DEF SignedDigest, Digest, SigSecDigests

LEMMA PriorDigestType ==
    ASSUME NEW n \in Nat, NEW ps \in PriorSig
    PROVE  PriorDigest(n, ps) \in Digest
<1>1. ps.hashes \in Seq(Leaves)
  BY HashListsAssumption DEF PriorSig
<1>2. <<<<"pk", n>>>> \in Seq({PK} \cup ({"pk"} \X Nat)) /\ <<>> \in Seq(Nat \X Signatures)
  OBVIOUS
<1>. QED
  BY <1>1, <1>2 DEF PriorDigest, Digest, SigSecDigests

(* Overwriting slot 1 with the fee header and its index 0 keeps them       *)
(* matching (lines 755-757).                                                *)
LEMMA FeeHeaderMatches ==
    ASSUME NEW t, NEW hs \in Seq(Digest), NEW xs \in Seq(0..255),
           Matches(t, hs, xs), Len(hs) >= 1
    PROVE  /\ [hs EXCEPT ![1] = Leaf("feeHeader")] \in Seq(Digest)
           /\ [xs EXCEPT ![1] = 0] \in Seq(0..255)
           /\ Len([hs EXCEPT ![1] = Leaf("feeHeader")]) = Len(hs)
           /\ Matches(t, [hs EXCEPT ![1] = Leaf("feeHeader")], [xs EXCEPT ![1] = 0])
<1>1. Leaf("feeHeader") \in Digest
  BY DEF Digest, Leaves, LeafKinds
<1>2. /\ [hs EXCEPT ![1] = Leaf("feeHeader")] \in Seq(Digest)
      /\ [xs EXCEPT ![1] = 0] \in Seq(0..255)
  BY <1>1, ExceptSeq DEF Matches
<1>3. Origin(t, Leaf("feeHeader")) = 0
  BY OriginLeaf
<1>. QED
  BY <1>2, <1>3 DEF Matches

(* The output buffer after the MEMZERO at line 628, and after the public   *)
(* key is written, is well typed.                                           *)
LEMMA ZeroOutType ==
    /\ ZeroOut \in OutRegions
    /\ [ZeroOut EXCEPT !.pk = PK] \in OutRegions
<1>1. [ZeroOut EXCEPT !.pk = PK] = [pk |-> PK, raw |-> Zero, wrapper |-> Zero,
                                   rawIdx |-> Zero, finalIdx |-> Zero]
  BY DEF ZeroOut
<1>2. ZeroOut \in OutRegions
  BY DEF ZeroOut, OutRegions, Zero
<1>3. [pk |-> PK, raw |-> Zero, wrapper |-> Zero, rawIdx |-> Zero, finalIdx |-> Zero]
        \in OutRegions
  BY DEF OutRegions, Zero
<1>. QED
  BY <1>1, <1>2, <1>3

-----------------------------------------------------------------------------
(* The inductive invariant holds when crypto_sign is entered.              *)
LEMMA InitIInv == Init => IInv
<1> SUFFICES ASSUME Init PROVE IInv
  OBVIOUS
<1>1. Len(tx.sigs) \in Nat
  BY TxSigsSeq, ConstantsAssumption DEF Init
<1>2. TypeOK
  BY <1>1, ZeroOutType DEF Init, TypeOK, Pcs, Zero
<1>. QED
  BY <1>2 DEF Init, IInv, Matches, AfterCopy

(* An error return keeps the invariant: only pc changes, to "failed".      *)
LEMMA AbortIInv == IInv /\ Abort => IInv'
<1> SUFFICES ASSUME IInv, Abort PROVE IInv'
  OBVIOUS
<1>1. TypeOK'
  BY DEF IInv, Abort, TypeOK, Pcs
<1>. QED
  BY <1>1 DEF IInv, Abort, Matches, AfterCopy

(* Lines 623-629 keep the invariant.                                        *)
LEMMA ExtractPublicKeyIInv == IInv /\ ExtractPublicKey => IInv'
<1> SUFFICES ASSUME IInv, ExtractPublicKey PROVE IInv'
  OBVIOUS
<1>1. CASE outputLen < minimumBufferSize /\ Abort
  BY <1>1, AbortIInv
<1>3. CASE /\ out' = [ZeroOut EXCEPT !.pk = PK]
           /\ pc' = "rawHeader"
           /\ UNCHANGED <<tx, outputLen, hashes, indices, secLen, rawSigHash,
                          wrapperHash, rawIndices, i>>
  <2>1. out' \in OutRegions
    BY <1>3, ZeroOutType
  <2>2. TypeOK'
    BY <1>3, <2>1 DEF IInv, TypeOK, Pcs
  <2>. QED
    BY <1>3, <2>2 DEF IInv, Matches, AfterCopy
<1>4. CASE /\ out' = ZeroOut
           /\ pc' = "failed"
           /\ UNCHANGED <<tx, outputLen, hashes, indices, secLen, rawSigHash,
                          wrapperHash, rawIndices, i>>
  <2>1. out' \in OutRegions
    BY <1>4, ZeroOutType
  <2>2. TypeOK'
    BY <1>4, <2>1 DEF IInv, TypeOK, Pcs
  <2>. QED
    BY <1>4, <2>2 DEF IInv, Matches, AfterCopy
<1>. QED
  BY <1>1, <1>3, <1>4 DEF ExtractPublicKey

(* Lines 643-653 keep the invariant.                                        *)
LEMMA HashRawHeaderIInv == IInv /\ HashRawHeader => IInv'
<1> SUFFICES ASSUME IInv, HashRawHeader PROVE IInv'
  OBVIOUS
<1>1. CASE Fallible /\ Abort
  BY <1>1, AbortIInv
<1>2. CASE /\ hashes' = <<Leaf("rawHeader")>> \o TxnHashes(tx)
           /\ indices' = <<255>> \o TxnIndices(tx)
           /\ pc' = "hashRaw"
           /\ UNCHANGED <<tx, outputLen, secLen, rawSigHash, wrapperHash,
                          rawIndices, i, out>>
  <2>1. tx \in Tx
    BY DEF IInv, TypeOK
  <2>2. /\ <<Leaf("rawHeader")>> \in Seq(Leaves) /\ <<255>> \in Seq(0..255)
        /\ Matches(tx, <<Leaf("rawHeader")>>, <<255>>)
    BY OriginLeaf DEF Leaves, LeafKinds, Matches
  <2>3. /\ TxnHashes(tx) \in Seq(Leaves) /\ TxnIndices(tx) \in Seq(0..255)
        /\ Matches(tx, TxnHashes(tx), TxnIndices(tx))
    BY <2>1, TxnHashesMatch
  <2>4. /\ <<Leaf("rawHeader")>> \o TxnHashes(tx) \in Seq(Leaves)
        /\ <<255>> \o TxnIndices(tx) \in Seq(0..255)
        /\ Len(<<Leaf("rawHeader")>> \o TxnHashes(tx))
             = Len(<<Leaf("rawHeader")>>) + Len(TxnHashes(tx))
        /\ Matches(tx, <<Leaf("rawHeader")>> \o TxnHashes(tx), <<255>> \o TxnIndices(tx))
    BY <2>2, <2>3, ConcatLeavesMatches
  <2>9. /\ hashes' \in Seq(Leaves) /\ indices' \in Seq(0..255)
        /\ Len(hashes') >= 1 /\ Matches(tx, hashes', indices')
    BY <1>2, <2>4
  <2>5. hashes' \in Seq(Digest)
    BY <2>9, LeavesDigests
  <2>6. TypeOK'
    BY <1>2, <2>9, <2>5 DEF IInv, TypeOK, Pcs
  <2>. QED
    BY <1>2, <2>9, <2>6 DEF IInv, AfterCopy
<1>. QED
  BY <1>1, <1>2 DEF HashRawHeader

(* Lines 660-672 keep the invariant.                                        *)
LEMMA HashUnsignedRawSectionIInv == IInv /\ HashUnsignedRawSection => IInv'
<1> SUFFICES ASSUME IInv, HashUnsignedRawSection PROVE IInv'
  OBVIOUS
<1>1. CASE Fallible /\ Abort
  BY <1>1, AbortIInv
<1>2. CASE /\ pc = "hashRaw"
           /\ secLen' = Len(hashes)
           /\ rawSigHash' = UnsignedDigest(hashes)
           /\ pc' = "signRaw"
           /\ UNCHANGED <<tx, outputLen, hashes, indices, wrapperHash,
                          rawIndices, i, out>>
  <2>1. hashes \in Seq(Leaves)
    BY <1>2 DEF IInv
  <2>2. UnsignedDigest(hashes) \in Digest
    BY <2>1, UnsignedDigestType DEF Digest
  <2>3. TypeOK'
    BY <1>2, <2>2 DEF IInv, TypeOK, Pcs
  <2>. QED
    BY <1>2, <2>1, <2>3 DEF IInv, AfterCopy
<1>. QED
  BY <1>1, <1>2 DEF HashUnsignedRawSection

(* Lines 675-680 keep the invariant.                                        *)
LEMMA SignRawIInv == IInv /\ SignRaw => IInv'
<1> SUFFICES ASSUME IInv, SignRaw PROVE IInv'
  OBVIOUS
<1>1. CASE Fallible /\ Abort
  BY <1>1, AbortIInv
<1>2. CASE /\ pc = "signRaw"
           /\ out' = [out EXCEPT !.raw = Sign(rawSigHash)]
           /\ rawIndices' = indices
           /\ pc' = "hashSignedRaw"
           /\ UNCHANGED <<tx, outputLen, hashes, indices, secLen, rawSigHash,
                          wrapperHash, i>>
  <2>1. hashes \in Seq(Leaves) /\ rawSigHash = UnsignedDigest(hashes)
    BY <1>2 DEF IInv
  <2>2. Sign(rawSigHash) \in Signatures
    BY <2>1 DEF Sign, UnsignedDigest, Signatures
  <2>3. out' \in OutRegions
    BY <1>2, <2>2 DEF IInv, TypeOK, OutRegions
  <2>4. TypeOK'
    BY <1>2, <2>3 DEF IInv, TypeOK, Pcs
  <2>. QED
    BY <1>2, <2>1, <2>4 DEF IInv, AfterCopy, TypeOK
<1>. QED
  BY <1>1, <1>2 DEF SignRaw

(* Lines 685-696 keep the invariant: the signed raw digest goes to the     *)
(* next slot with the raw signature section's index.                        *)
LEMMA HashSignedRawSectionIInv == IInv /\ HashSignedRawSection => IInv'
<1> SUFFICES ASSUME IInv, HashSignedRawSection PROVE IInv'
  OBVIOUS
<1>1. CASE Fallible /\ Abort
  BY <1>1, AbortIInv
<1> DEFINE d == SignedDigest(SubSeq(hashes, 1, secLen), out.raw)
<1>2. CASE /\ pc = "hashSignedRaw"
           /\ rawSigHash' = d
           /\ hashes' = Append(hashes, d)
           /\ indices' = Append(indices, RawSigSectionIdx(tx))
           /\ secLen' = secLen + 1
           /\ pc' = "codeData"
           /\ UNCHANGED <<tx, outputLen, wrapperHash, rawIndices, i, out>>
  <2>1. /\ hashes \in Seq(Leaves) /\ secLen = Len(hashes)
        /\ out.raw = Sign(UnsignedDigest(hashes))
        /\ TypeOK /\ Matches(tx, hashes, indices)
    BY <1>2 DEF IInv, AfterCopy
  <2>2. SubSeq(hashes, 1, secLen) = hashes
    BY <2>1, SubSeqFull
  <2>3. out.raw \in Signatures
    BY <2>1, SignUnsignedType
  <2>4. d \in Digest
    BY <2>1, <2>2, <2>3, SignedDigestType
  <2>5. RawSigSectionIdx(tx) \in 0..255 /\ Origin(tx, d) = RawSigSectionIdx(tx)
    BY <2>1, OriginSigned, RawSigSectionIdxType DEF TypeOK
  <2>8. hashes \in Seq(Digest) /\ indices \in Seq(0..255)
    BY <2>1 DEF TypeOK
  <2>9. /\ Append(hashes, d) \in Seq(Digest)
        /\ Append(indices, RawSigSectionIdx(tx)) \in Seq(0..255)
        /\ Len(Append(hashes, d)) = Len(hashes) + 1
        /\ Matches(tx, Append(hashes, d), Append(indices, RawSigSectionIdx(tx)))
    BY <2>1, <2>4, <2>5, <2>8, AppendMatches, Zenon
  <2>6. /\ hashes' \in Seq(Digest) /\ indices' \in Seq(0..255)
        /\ Len(hashes') = Len(hashes) + 1 /\ Matches(tx, hashes', indices')
    BY <1>2, <2>9
  <2>7. TypeOK'
    BY <1>2, <2>1, <2>4, <2>6 DEF TypeOK, Pcs
  <2>. QED
    BY <1>2, <2>1, <2>6, <2>7 DEF IInv, AfterCopy
<1>. QED
  BY <1>1, <1>2 DEF HashSignedRawSection

(* Lines 699-709 keep the invariant.                                        *)
LEMMA HashCodeAndDataIInv == IInv /\ HashCodeAndData => IInv'
<1> SUFFICES ASSUME IInv, HashCodeAndData PROVE IInv'
  OBVIOUS
<1>1. CASE Fallible /\ Abort
  BY <1>1, AbortIInv
<1>2. CASE /\ pc = "codeData"
           /\ hashes' = hashes \o <<Leaf("code"), Leaf("data")>>
           /\ indices' = indices \o <<SecIdx["code"], SecIdx["data"]>>
           /\ secLen' = secLen + 2
           /\ pc' = "memo"
           /\ UNCHANGED <<tx, outputLen, rawSigHash, wrapperHash, rawIndices, i, out>>
  <2>1. TypeOK /\ Matches(tx, hashes, indices) /\ secLen = Len(hashes)
    BY <1>2 DEF IInv, AfterCopy
  <2>2. /\ <<Leaf("code"), Leaf("data")>> \in Seq(Digest)
        /\ <<SecIdx["code"], SecIdx["data"]>> \in Seq(0..255)
        /\ Len(<<Leaf("code"), Leaf("data")>>) = 2
        /\ Matches(tx, <<Leaf("code"), Leaf("data")>>, <<SecIdx["code"], SecIdx["data"]>>)
    BY OriginLeaf, SecIdxRange DEF Digest, Leaves, LeafKinds, Matches
  <2>5. hashes \in Seq(Digest) /\ indices \in Seq(0..255)
    BY <2>1 DEF TypeOK
  <2>6. /\ hashes \o <<Leaf("code"), Leaf("data")>> \in Seq(Digest)
        /\ indices \o <<SecIdx["code"], SecIdx["data"]>> \in Seq(0..255)
        /\ Len(hashes \o <<Leaf("code"), Leaf("data")>>)
             = Len(hashes) + Len(<<Leaf("code"), Leaf("data")>>)
        /\ Matches(tx, hashes \o <<Leaf("code"), Leaf("data")>>,
                       indices \o <<SecIdx["code"], SecIdx["data"]>>)
    BY <2>1, <2>2, <2>5, ConcatDigestMatches, Zenon
  <2>3. /\ hashes' \in Seq(Digest) /\ indices' \in Seq(0..255)
        /\ Len(hashes') = Len(hashes) + 2 /\ Matches(tx, hashes', indices')
    BY <1>2, <2>2, <2>6
  <2>4. TypeOK'
    BY <1>2, <2>1, <2>3 DEF TypeOK, Pcs
  <2>7. secLen' = Len(hashes') /\ Len(hashes') >= 1
    BY <1>2, <2>1, <2>3
  <2>. QED
    BY <1>2, <2>3, <2>4, <2>7 DEF IInv, AfterCopy
<1>. QED
  BY <1>1, <1>2 DEF HashCodeAndData

(* Lines 712-719 keep the invariant.                                        *)
LEMMA HashMemoIInv == IInv /\ HashMemo => IInv'
<1> SUFFICES ASSUME IInv, HashMemo PROVE IInv'
  OBVIOUS
<1>1. CASE Fallible /\ Abort
  BY <1>1, AbortIInv
<1>2. CASE /\ pc = "memo"
           /\ hashes' = Append(hashes, Leaf("memo"))
           /\ indices' = Append(indices, SecIdx["memo"])
           /\ secLen' = secLen + 1
           /\ pc' = "priorSigs"
           /\ UNCHANGED <<tx, outputLen, rawSigHash, wrapperHash, rawIndices, i, out>>
  <2>1. TypeOK /\ Matches(tx, hashes, indices) /\ secLen = Len(hashes)
    BY <1>2 DEF IInv, AfterCopy
  <2>2. /\ Leaf("memo") \in Digest /\ SecIdx["memo"] \in 0..255
        /\ Origin(tx, Leaf("memo")) = SecIdx["memo"]
    BY OriginLeaf, SecIdxRange DEF Digest, Leaves, LeafKinds
  <2>5. hashes \in Seq(Digest) /\ indices \in Seq(0..255)
    BY <2>1 DEF TypeOK
  <2>6. /\ Append(hashes, Leaf("memo")) \in Seq(Digest)
        /\ Append(indices, SecIdx["memo"]) \in Seq(0..255)
        /\ Len(Append(hashes, Leaf("memo"))) = Len(hashes) + 1
        /\ Matches(tx, Append(hashes, Leaf("memo")), Append(indices, SecIdx["memo"]))
    BY <2>1, <2>2, <2>5, AppendMatches, Zenon
  <2>3. /\ hashes' \in Seq(Digest) /\ indices' \in Seq(0..255)
        /\ Len(hashes') = Len(hashes) + 1 /\ Matches(tx, hashes', indices')
    BY <1>2, <2>6
  <2>4. TypeOK'
    BY <1>2, <2>1, <2>3 DEF TypeOK, Pcs
  <2>. QED
    BY <1>2, <2>1, <2>3, <2>4 DEF IInv, AfterCopy
<1>3. CASE /\ pc = "memo"
           /\ pc' = "priorSigs"
           /\ UNCHANGED <<tx, outputLen, hashes, indices, secLen, rawSigHash,
                          wrapperHash, rawIndices, i, out>>
  <2>1. TypeOK'
    BY <1>3 DEF IInv, TypeOK, Pcs
  <2>. QED
    BY <1>3, <2>1 DEF IInv, AfterCopy, Matches
<1>. QED
  BY <1>1, <1>2, <1>3 DEF HashMemo

(* One iteration of lines 722-752 keeps the invariant: a skipped section   *)
(* only advances the loop, a recognised one is appended with its index.    *)
LEMMA HashPriorSignatureIInv == IInv /\ HashPriorSignature => IInv'
<1> SUFFICES ASSUME IInv, HashPriorSignature PROVE IInv'
  OBVIOUS
<1> DEFINE ps == tx.sigs[i]
<1>1. /\ TypeOK /\ Matches(tx, hashes, indices) /\ secLen = Len(hashes)
      /\ Len(hashes) >= 1 /\ pc = "priorSigs" /\ i <= Len(tx.sigs)
  BY DEF IInv, AfterCopy, HashPriorSignature
<1>2. /\ tx.sigs \in Seq(PriorSig) /\ Len(tx.sigs) \in 0..MaxPriorSigs
      /\ DOMAIN tx.sigs = 1..Len(tx.sigs) /\ i \in 1..Len(tx.sigs)
  BY <1>1, TxSigsSeq DEF TypeOK
<1>3. CASE Abort
  BY <1>3, AbortIInv
<1>4. CASE /\ i' = i + 1
           /\ UNCHANGED <<tx, outputLen, pc, hashes, indices, secLen, rawSigHash,
                          wrapperHash, rawIndices, out>>
  <2>1. TypeOK'
    BY <1>1, <1>2, <1>4 DEF TypeOK
  <2>. QED
    BY <1>1, <1>4, <2>1 DEF IInv, AfterCopy, Matches
<1>5. CASE /\ hashes' = Append(hashes, PriorDigest(i, ps))
           /\ indices' = Append(indices, SigSecIdx[i])
           /\ secLen' = secLen + 1
           /\ i' = i + 1
           /\ UNCHANGED <<tx, outputLen, pc, rawSigHash, wrapperHash, rawIndices, out>>
  <2>0. ps \in PriorSig
    BY <1>2, ElementOfSeq, Zenon
  <2>1. ps \in PriorSig /\ i \in Nat /\ i \in 1..MaxPriorSigs
    BY <1>2, <2>0, MaxPriorSigsNat
  <2>2. PriorDigest(i, ps) \in Digest
    BY <2>1, PriorDigestType
  <2>3. SigSecIdx[i] \in 0..255 /\ Origin(tx, PriorDigest(i, ps)) = SigSecIdx[i]
    BY <1>2, <2>1, SigSecIdxRange, OriginPrior
  <2>4. hashes \in Seq(Digest) /\ indices \in Seq(0..255)
    BY <1>1 DEF TypeOK
  <2>5. /\ Append(hashes, PriorDigest(i, ps)) \in Seq(Digest)
        /\ Append(indices, SigSecIdx[i]) \in Seq(0..255)
        /\ Len(Append(hashes, PriorDigest(i, ps))) = Len(hashes) + 1
        /\ Matches(tx, Append(hashes, PriorDigest(i, ps)), Append(indices, SigSecIdx[i]))
    BY <1>1, <2>2, <2>3, <2>4, AppendMatches, Zenon
  <2>6. TypeOK'
    BY <1>1, <1>2, <1>5, <2>5 DEF TypeOK
  <2>. QED
    BY <1>1, <1>5, <2>5, <2>6 DEF IInv, AfterCopy
<1>. QED
  BY <1>3, <1>4, <1>5 DEF HashPriorSignature

(* Lines 755-757 keep the invariant: slot 1 becomes the fee header, with   *)
(* index 0.                                                                  *)
LEMMA HashFeeHeaderIInv == IInv /\ HashFeeHeader => IInv'
<1> SUFFICES ASSUME IInv, HashFeeHeader PROVE IInv'
  OBVIOUS
<1>1. CASE Fallible /\ Abort
  BY <1>1, AbortIInv
<1>2. CASE /\ pc = "priorSigs"
           /\ hashes' = [hashes EXCEPT ![1] = Leaf("feeHeader")]
           /\ indices' = [indices EXCEPT ![1] = 0]
           /\ pc' = "hashWrapper"
           /\ UNCHANGED <<tx, outputLen, secLen, rawSigHash, wrapperHash,
                          rawIndices, i, out>>
  <2>1. /\ TypeOK /\ Matches(tx, hashes, indices) /\ secLen = Len(hashes)
        /\ Len(hashes) >= 1
    BY <1>2 DEF IInv, AfterCopy
  <2>2. hashes \in Seq(Digest) /\ indices \in Seq(0..255)
    BY <2>1 DEF TypeOK
  <2>3. /\ [hashes EXCEPT ![1] = Leaf("feeHeader")] \in Seq(Digest)
        /\ [indices EXCEPT ![1] = 0] \in Seq(0..255)
        /\ Len([hashes EXCEPT ![1] = Leaf("feeHeader")]) = Len(hashes)
        /\ Matches(tx, [hashes EXCEPT ![1] = Leaf("feeHeader")], [indices EXCEPT ![1] = 0])
    BY <2>1, <2>2, FeeHeaderMatches
  <2>4. TypeOK'
    BY <1>2, <2>1, <2>3 DEF TypeOK, Pcs
  <2>. QED
    BY <1>2, <2>1, <2>3, <2>4 DEF IInv, AfterCopy
<1>. QED
  BY <1>1, <1>2 DEF HashFeeHeader

(* Lines 759-763 keep the invariant: the wrapper digest is over the whole  *)
(* list.                                                                     *)
LEMMA HashWrapperSectionIInv == IInv /\ HashWrapperSection => IInv'
<1> SUFFICES ASSUME IInv, HashWrapperSection PROVE IInv'
  OBVIOUS
<1>1. CASE Fallible /\ Abort
  BY <1>1, AbortIInv
<1>2. CASE /\ pc = "hashWrapper"
           /\ wrapperHash' = UnsignedDigest(SubSeq(hashes, 1, secLen))
           /\ pc' = "signWrapper"
           /\ UNCHANGED <<tx, outputLen, hashes, indices, secLen, rawSigHash,
                          rawIndices, i, out>>
  <2>1. /\ TypeOK /\ Matches(tx, hashes, indices) /\ secLen = Len(hashes)
        /\ Len(hashes) >= 1 /\ hashes \in Seq(Digest)
    BY <1>2 DEF IInv, AfterCopy, TypeOK
  <2>2. SubSeq(hashes, 1, secLen) = hashes
    BY <2>1, SubSeqFull
  <2>3. wrapperHash' = UnsignedDigest(hashes) /\ UnsignedDigest(hashes) \in WrapperDigests
    BY <1>2, <2>1, <2>2, UnsignedDigestType
  <2>4. TypeOK'
    BY <1>2, <2>1, <2>3 DEF TypeOK, Pcs
  <2>. QED
    BY <1>2, <2>1, <2>3, <2>4 DEF IInv, AfterCopy, Matches
<1>. QED
  BY <1>1, <1>2 DEF HashWrapperSection

(* Lines 766-786 keep the invariant: the wrapper signature is over the     *)
(* wrapper digest and the final index list is the indices array.            *)
LEMMA SignWrapperIInv == IInv /\ SignWrapper => IInv'
<1> SUFFICES ASSUME IInv, SignWrapper PROVE IInv'
  OBVIOUS
<1>1. CASE Fallible /\ Abort
  BY <1>1, AbortIInv
<1>2. CASE /\ pc = "signWrapper"
           /\ out' = [out EXCEPT !.wrapper = Sign(wrapperHash),
                                 !.rawIdx = rawIndices,
                                 !.finalIdx = indices]
           /\ pc' = "done"
           /\ UNCHANGED <<tx, outputLen, hashes, indices, secLen, rawSigHash,
                          wrapperHash, rawIndices, i>>
  <2>1. /\ TypeOK /\ Matches(tx, hashes, indices) /\ secLen = Len(hashes)
        /\ Len(hashes) >= 1 /\ hashes \in Seq(Digest)
        /\ wrapperHash = UnsignedDigest(hashes)
    BY <1>2 DEF IInv, AfterCopy, TypeOK
  <2>2. Sign(wrapperHash) \in {"ed25519"} \X WrapperDigests
    BY <2>1, UnsignedDigestType DEF Sign
  <2>3. out' \in OutRegions
    BY <1>2, <2>1, <2>2 DEF TypeOK, OutRegions
  <2>4. TypeOK'
    BY <1>2, <2>1, <2>3 DEF TypeOK, Pcs
  <2>5. out'.wrapper = Sign(wrapperHash') /\ out'.finalIdx = indices'
    BY <1>2, <2>1 DEF TypeOK, OutRegions
  <2>. QED
    BY <1>2, <2>1, <2>4, <2>5 DEF IInv, AfterCopy
<1>. QED
  BY <1>1, <1>2 DEF SignWrapper

-----------------------------------------------------------------------------
(* Every step of crypto_sign, and a stuttering step, keeps the invariant.  *)
LEMMA NextIInv == IInv /\ [Next]_vars => IInv'
<1> SUFFICES ASSUME IInv, [Next]_vars PROVE IInv'
  OBVIOUS
<1>1. CASE UNCHANGED vars
  <2>1. TypeOK'
    BY <1>1 DEF IInv, TypeOK, vars
  <2>. QED
    BY <1>1, <2>1 DEF IInv, vars, Matches, AfterCopy
<1>. QED
  BY <1>1, ExtractPublicKeyIInv, HashRawHeaderIInv, HashUnsignedRawSectionIInv,
     SignRawIInv, HashSignedRawSectionIInv, HashCodeAndDataIInv, HashMemoIInv,
     HashPriorSignatureIInv, HashFeeHeaderIInv, HashWrapperSectionIInv,
     SignWrapperIInv DEF Next

(* IInv holds in every reachable state of crypto_sign.                      *)
THEOREM IInvInvariant == Spec => []IInv
<1>1. Init => IInv
  BY InitIInv
<1>2. IInv /\ [Next]_vars => IInv'
  BY NextIInv
<1>. QED
  BY <1>1, <1>2, PTL DEF Spec

(* Type correctness of crypto_sign: every hash slot holds a digest, every  *)
(* index fits its uint8_t slot, the loop counter stays within the sections *)
(* of the transaction, and each output region holds what it may.           *)
THEOREM TypeCorrect == Spec => []TypeOK
<1>1. IInv => TypeOK
  BY DEF IInv
<1>. QED
  BY <1>1, IInvInvariant, PTL

(* When crypto_sign returns successfully, the final index list it writes   *)
(* (lines 783-784) has one index per hash signed by the wrapper signature, *)
(* and each index names the section whose hash is in that position: the    *)
(* hashesLen copy and the indices array never fall out of step, through    *)
(* the appends of lines 693-750 and the overwrite of slot 0 at 755-757.    *)
THEOREM WrapperCovers == Spec => []WrapperCoversIndexedSections
<1>1. IInv => WrapperCoversIndexedSections
  <2> SUFFICES ASSUME IInv, pc = "done" PROVE WrapperCoversIndexedSections
    BY DEF WrapperCoversIndexedSections
  <2>1. out.wrapper = Sign(UnsignedDigest(hashes)) /\ out.finalIdx = indices
        /\ Matches(tx, hashes, indices)
    BY DEF IInv
  <2>2. SignedHashes(out.wrapper) = hashes
    BY <2>1 DEF SignedHashes, Sign, UnsignedDigest
  <2>. QED
    BY <2>1, <2>2 DEF WrapperCoversIndexedSections, Matches
<1>. QED
  BY <1>1, IInvInvariant, PTL


-----------------------------------------------------------------------------
(* The signature chain.  From the raw signature on, the raw signature is   *)
(* over an unsigned section whose list starts with the raw header and is   *)
(* matched by the raw index list, and once the signed raw section is        *)
(* hashed its digest stays in a slot past the first: the fee header        *)
(* overwrite of slot 1 (lines 755-757) and the appends after it leave that *)
(* slot alone.  This is what the wrapper signature's list contains at      *)
(* "done", so it is the step from IInv to RawSignatureChained and to the  *)
(* refinement of SignatureChain.                                            *)
RawList == SignedHashes(out.raw)

AfterSigned == {"codeData", "memo", "priorSigs", "hashWrapper", "signWrapper", "done"}

ChainHead == pc \in {"hashRaw", "signRaw", "hashSignedRaw"} => hashes[1] = Leaf("rawHeader")

RawSigned ==
    pc \in AfterSigned \cup {"hashSignedRaw"} =>
        /\ out.raw = Sign(UnsignedDigest(RawList))
        /\ Len(RawList) >= 1 /\ RawList[1] = Leaf("rawHeader")
        /\ RawList \in Seq(Leaves)
        /\ Matches(tx, RawList, rawIndices)

SignedSlot ==
    pc \in AfterSigned => \E p \in 2..Len(hashes) : hashes[p] = SignedDigest(RawList, out.raw)

RawIdxOut == pc = "done" => out.rawIdx = rawIndices

ChainInv == ChainHead /\ RawSigned /\ SignedSlot /\ RawIdxOut

(* The hash list that a signature over an unsigned section covers.         *)
LEMMA SignedHashesOfSign ==
    ASSUME NEW hs
    PROVE  SignedHashes(Sign(UnsignedDigest(hs))) = hs
  BY DEF SignedHashes, Sign, UnsignedDigest

(* Appending to, or concatenating onto, a list of digests keeps its slots. *)
LEMMA AppendSlots ==
    ASSUME NEW s \in Seq(Digest), NEW d \in Digest
    PROVE  /\ Append(s, d) \in Seq(Digest)
           /\ Len(Append(s, d)) = Len(s) + 1
           /\ Append(s, d)[Len(s) + 1] = d
           /\ \A k \in 1..Len(s) : Append(s, d)[k] = s[k]
  BY AppendProperties

LEMMA ConcatSlots ==
    ASSUME NEW s \in Seq(Digest), NEW t \in Seq(Digest)
    PROVE  /\ s \o t \in Seq(Digest)
           /\ Len(s \o t) = Len(s) + Len(t)
           /\ \A k \in 1..Len(s) : (s \o t)[k] = s[k]
  BY ConcatProperties

LEMMA InitChainInv == Init => ChainInv
  BY DEF Init, ChainInv, ChainHead, RawSigned, SignedSlot, RawIdxOut, AfterSigned

LEMMA AbortChainInv == Abort => ChainInv'
  BY DEF Abort, ChainInv, ChainHead, RawSigned, SignedSlot, RawIdxOut, AfterSigned

(* A step between the signed raw section and the wrapper signature that    *)
(* leaves the output and the raw index list alone and keeps every slot of  *)
(* the hash list past the first keeps the chain.                           *)
LEMMA SlotsKeptChainInv ==
    ASSUME ChainInv, pc \in AfterSigned, pc' \in AfterSigned \ {"done"},
           UNCHANGED <<tx, rawIndices, out>>,
           hashes \in Seq(Digest), hashes' \in Seq(Digest),
           Len(hashes') >= Len(hashes),
           \A k \in 2..Len(hashes) : hashes'[k] = hashes[k]
    PROVE  ChainInv'
<1>1. RawSigned'
  BY DEF ChainInv, RawSigned, RawList
<1>2. SignedSlot'
  <2>1. PICK p \in 2..Len(hashes) : hashes[p] = SignedDigest(RawList, out.raw)
    BY DEF ChainInv, SignedSlot
  <2>2. p \in 2..Len(hashes') /\ hashes'[p] = SignedDigest(RawList', out'.raw)
    BY <2>1 DEF RawList
  <2>. QED
    BY <2>2 DEF SignedSlot
<1>3. ChainHead' /\ RawIdxOut'
  BY DEF ChainHead, RawIdxOut, AfterSigned
<1>. QED
  BY <1>1, <1>2, <1>3 DEF ChainInv

LEMMA ExtractPublicKeyChainInv == ExtractPublicKey => ChainInv'
  BY AbortChainInv DEF ExtractPublicKey, ChainInv, ChainHead, RawSigned, SignedSlot,
                       RawIdxOut, AfterSigned

(* Lines 643-653 put the raw header in slot 1.                              *)
LEMMA HashRawHeaderChainInv == IInv /\ HashRawHeader => ChainInv'
<1> SUFFICES ASSUME IInv, HashRawHeader PROVE ChainInv'
  OBVIOUS
<1>1. CASE Fallible /\ Abort
  BY <1>1, AbortChainInv
<1>2. CASE hashes' = <<Leaf("rawHeader")>> \o TxnHashes(tx) /\ pc' = "hashRaw"
  <2>1. TxnHashes(tx) \in Seq(Leaves) /\ <<Leaf("rawHeader")>> \in Seq(Leaves)
    BY TxnHashesMatch DEF IInv, TypeOK, Leaves, LeafKinds
  <2>2. (<<Leaf("rawHeader")>> \o TxnHashes(tx))[1] = Leaf("rawHeader")
    BY <2>1, ConcatProperties
  <2>. QED
    BY <1>2, <2>2 DEF ChainInv, ChainHead, RawSigned, SignedSlot, RawIdxOut, AfterSigned
<1>. QED
  BY <1>1, <1>2 DEF HashRawHeader

LEMMA HashUnsignedRawSectionChainInv == ChainInv /\ HashUnsignedRawSection => ChainInv'
<1> SUFFICES ASSUME ChainInv, HashUnsignedRawSection PROVE ChainInv'
  OBVIOUS
<1>1. CASE Fallible /\ Abort
  BY <1>1, AbortChainInv
<1>2. CASE pc = "hashRaw" /\ pc' = "signRaw" /\ UNCHANGED hashes
  BY <1>2 DEF ChainInv, ChainHead, RawSigned, SignedSlot, RawIdxOut, AfterSigned
<1>. QED
  BY <1>1, <1>2 DEF HashUnsignedRawSection

(* Lines 675-680: the raw signature is over the list that starts with the  *)
(* raw header, and the raw index list is the indices array.                *)
LEMMA SignRawChainInv == IInv /\ ChainInv /\ SignRaw => ChainInv'
<1> SUFFICES ASSUME IInv, ChainInv, SignRaw PROVE ChainInv'
  OBVIOUS
<1>1. CASE Fallible /\ Abort
  BY <1>1, AbortChainInv
<1>2. CASE /\ pc = "signRaw"
           /\ out' = [out EXCEPT !.raw = Sign(rawSigHash)]
           /\ rawIndices' = indices
           /\ pc' = "hashSignedRaw"
           /\ UNCHANGED <<tx, hashes, indices>>
  <2>1. /\ hashes \in Seq(Leaves) /\ rawSigHash = UnsignedDigest(hashes)
        /\ Len(hashes) >= 1 /\ Matches(tx, hashes, indices) /\ out \in OutRegions
    BY <1>2 DEF IInv, AfterCopy, TypeOK
  <2>2. hashes[1] = Leaf("rawHeader")
    BY <1>2 DEF ChainInv, ChainHead
  <2>3. out'.raw = Sign(UnsignedDigest(hashes))
    BY <1>2, <2>1 DEF OutRegions
  <2>4. RawList' = hashes
    BY <2>3, SignedHashesOfSign DEF RawList
  <2>5. RawSigned'
    BY <1>2, <2>1, <2>2, <2>3, <2>4 DEF RawSigned
  <2>6. ChainHead' /\ SignedSlot' /\ RawIdxOut'
    BY <1>2, <2>2 DEF ChainHead, SignedSlot, RawIdxOut, AfterSigned
  <2>. QED
    BY <2>5, <2>6 DEF ChainInv
<1>. QED
  BY <1>1, <1>2 DEF SignRaw

(* Lines 685-696: the signed raw section, carrying the raw signature over  *)
(* the whole list, goes to a slot past the first.                           *)
LEMMA HashSignedRawSectionChainInv == IInv /\ ChainInv /\ HashSignedRawSection => ChainInv'
<1> SUFFICES ASSUME IInv, ChainInv, HashSignedRawSection PROVE ChainInv'
  OBVIOUS
<1>1. CASE Fallible /\ Abort
  BY <1>1, AbortChainInv
<1> DEFINE d == SignedDigest(SubSeq(hashes, 1, secLen), out.raw)
<1>2. CASE /\ pc = "hashSignedRaw"
           /\ hashes' = Append(hashes, d)
           /\ pc' = "codeData"
           /\ UNCHANGED <<tx, rawIndices, out>>
  <2>1. /\ hashes \in Seq(Leaves) /\ secLen = Len(hashes)
        /\ out.raw = Sign(UnsignedDigest(hashes)) /\ Len(hashes) >= 1
        /\ hashes \in Seq(Digest)
    BY <1>2 DEF IInv, AfterCopy, TypeOK
  <2>2. SubSeq(hashes, 1, secLen) = hashes
    BY <2>1, SubSeqFull
  <2>3. RawList = hashes
    BY <2>1, SignedHashesOfSign DEF RawList
  <2>4. d \in Digest
    BY <2>1, <2>2, SignUnsignedType, SignedDigestType
  <2>5. Len(hashes') = Len(hashes) + 1 /\ hashes'[Len(hashes) + 1] = d
    BY <1>2, <2>1, <2>4, AppendSlots
  <2>6. d = SignedDigest(RawList', out'.raw)
    BY <1>2, <2>2, <2>3 DEF RawList
  <2>7. SignedSlot'
    BY <1>2, <2>1, <2>5, <2>6 DEF SignedSlot, AfterSigned
  <2>8. RawSigned'
    BY <1>2 DEF ChainInv, RawSigned, RawList, AfterSigned
  <2>9. ChainHead' /\ RawIdxOut'
    BY <1>2 DEF ChainHead, RawIdxOut
  <2>. QED
    BY <2>7, <2>8, <2>9 DEF ChainInv
<1>. QED
  BY <1>1, <1>2 DEF HashSignedRawSection


(* Lines 699-709 append two leaves.                                        *)
LEMMA HashCodeAndDataChainInv == IInv /\ ChainInv /\ HashCodeAndData => ChainInv'
<1> SUFFICES ASSUME IInv, ChainInv, HashCodeAndData PROVE ChainInv'
  OBVIOUS
<1>1. CASE Fallible /\ Abort
  BY <1>1, AbortChainInv
<1>2. CASE /\ pc = "codeData"
           /\ hashes' = hashes \o <<Leaf("code"), Leaf("data")>>
           /\ pc' = "memo"
           /\ UNCHANGED <<tx, rawIndices, out>>
  <2>1. hashes \in Seq(Digest) /\ <<Leaf("code"), Leaf("data")>> \in Seq(Digest)
    BY DEF IInv, TypeOK, Digest, Leaves, LeafKinds
  <2>2. /\ hashes' \in Seq(Digest) /\ Len(hashes') >= Len(hashes)
        /\ \A k \in 2..Len(hashes) : hashes'[k] = hashes[k]
    BY <1>2, <2>1, ConcatSlots
  <2>. QED
    BY <1>2, <2>1, <2>2, SlotsKeptChainInv DEF AfterSigned
<1>. QED
  BY <1>1, <1>2 DEF HashCodeAndData

(* Lines 712-719 append the memo leaf, or nothing.                          *)
LEMMA HashMemoChainInv == IInv /\ ChainInv /\ HashMemo => ChainInv'
<1> SUFFICES ASSUME IInv, ChainInv, HashMemo PROVE ChainInv'
  OBVIOUS
<1>0. hashes \in Seq(Digest) /\ Leaf("memo") \in Digest
  BY DEF IInv, TypeOK, Digest, Leaves, LeafKinds
<1>1. CASE Fallible /\ Abort
  BY <1>1, AbortChainInv
<1>2. CASE /\ pc = "memo"
           /\ hashes' = Append(hashes, Leaf("memo"))
           /\ pc' = "priorSigs"
           /\ UNCHANGED <<tx, rawIndices, out>>
  <2>1. /\ hashes' \in Seq(Digest) /\ Len(hashes') >= Len(hashes)
        /\ \A k \in 2..Len(hashes) : hashes'[k] = hashes[k]
    BY <1>0, <1>2, AppendSlots
  <2>. QED
    BY <1>0, <1>2, <2>1, SlotsKeptChainInv DEF AfterSigned
<1>3. CASE pc = "memo" /\ pc' = "priorSigs" /\ UNCHANGED <<tx, hashes, rawIndices, out>>
  BY <1>0, <1>3, SlotsKeptChainInv DEF AfterSigned
<1>. QED
  BY <1>1, <1>2, <1>3 DEF HashMemo

(* One iteration of lines 722-752 appends a prior signature's digest, or   *)
(* nothing.                                                                  *)
LEMMA HashPriorSignatureChainInv == IInv /\ ChainInv /\ HashPriorSignature => ChainInv'
<1> SUFFICES ASSUME IInv, ChainInv, HashPriorSignature PROVE ChainInv'
  OBVIOUS
<1> DEFINE ps == tx.sigs[i]
<1>0. /\ hashes \in Seq(Digest) /\ pc = "priorSigs"
      /\ tx.sigs \in Seq(PriorSig) /\ DOMAIN tx.sigs = 1..Len(tx.sigs)
      /\ i \in 1..Len(tx.sigs) /\ Len(tx.sigs) \in 0..MaxPriorSigs
  BY TxSigsSeq DEF IInv, TypeOK, HashPriorSignature
<1>1. CASE Abort
  BY <1>1, AbortChainInv
<1>2. CASE UNCHANGED <<tx, pc, hashes, rawIndices, out>>
  BY <1>0, <1>2, SlotsKeptChainInv DEF AfterSigned
<1>3. CASE /\ hashes' = Append(hashes, PriorDigest(i, ps))
           /\ UNCHANGED <<tx, pc, rawIndices, out>>
  <2>1. ps \in PriorSig /\ i \in Nat
    BY <1>0, ElementOfSeq, MaxPriorSigsNat
  <2>2. PriorDigest(i, ps) \in Digest
    BY <2>1, PriorDigestType
  <2>3. /\ hashes' \in Seq(Digest) /\ Len(hashes') >= Len(hashes)
        /\ \A k \in 2..Len(hashes) : hashes'[k] = hashes[k]
    BY <1>0, <1>3, <2>2, AppendSlots
  <2>. QED
    BY <1>0, <1>3, <2>3, SlotsKeptChainInv DEF AfterSigned
<1>. QED
  BY <1>1, <1>2, <1>3 DEF HashPriorSignature

(* Lines 755-757 overwrite slot 1 only.                                     *)
LEMMA HashFeeHeaderChainInv == IInv /\ ChainInv /\ HashFeeHeader => ChainInv'
<1> SUFFICES ASSUME IInv, ChainInv, HashFeeHeader PROVE ChainInv'
  OBVIOUS
<1>1. CASE Fallible /\ Abort
  BY <1>1, AbortChainInv
<1>2. CASE /\ pc = "priorSigs"
           /\ hashes' = [hashes EXCEPT ![1] = Leaf("feeHeader")]
           /\ pc' = "hashWrapper"
           /\ UNCHANGED <<tx, rawIndices, out>>
  <2>1. hashes \in Seq(Digest) /\ Leaf("feeHeader") \in Digest /\ Len(hashes) >= 1
    BY <1>2 DEF IInv, TypeOK, AfterCopy, Digest, Leaves, LeafKinds
  <2>2. /\ hashes' \in Seq(Digest) /\ Len(hashes') >= Len(hashes)
        /\ \A k \in 2..Len(hashes) : hashes'[k] = hashes[k]
    BY <1>2, <2>1, ExceptSeq
  <2>. QED
    BY <1>2, <2>1, <2>2, SlotsKeptChainInv DEF AfterSigned
<1>. QED
  BY <1>1, <1>2 DEF HashFeeHeader

LEMMA HashWrapperSectionChainInv == IInv /\ ChainInv /\ HashWrapperSection => ChainInv'
<1> SUFFICES ASSUME IInv, ChainInv, HashWrapperSection PROVE ChainInv'
  OBVIOUS
<1>1. CASE Fallible /\ Abort
  BY <1>1, AbortChainInv
<1>2. CASE pc = "hashWrapper" /\ pc' = "signWrapper" /\ UNCHANGED <<tx, hashes, rawIndices, out>>
  <2>1. hashes \in Seq(Digest)
    BY DEF IInv, TypeOK
  <2>. QED
    BY <1>2, <2>1, SlotsKeptChainInv DEF AfterSigned
<1>. QED
  BY <1>1, <1>2 DEF HashWrapperSection

(* Lines 766-786 leave the raw signature in place and write the raw index  *)
(* list.                                                                     *)
LEMMA SignWrapperChainInv == IInv /\ ChainInv /\ SignWrapper => ChainInv'
<1> SUFFICES ASSUME IInv, ChainInv, SignWrapper PROVE ChainInv'
  OBVIOUS
<1>1. CASE Fallible /\ Abort
  BY <1>1, AbortChainInv
<1>2. CASE /\ pc = "signWrapper"
           /\ out' = [out EXCEPT !.wrapper = Sign(wrapperHash),
                                 !.rawIdx = rawIndices,
                                 !.finalIdx = indices]
           /\ pc' = "done"
           /\ UNCHANGED <<tx, hashes, rawIndices>>
  <2>1. out'.raw = out.raw /\ out'.rawIdx = rawIndices
    BY <1>2 DEF IInv, TypeOK, OutRegions
  <2>2. RawList' = RawList
    BY <2>1 DEF RawList
  <2>3. RawSigned' /\ SignedSlot'
    BY <1>2, <2>1, <2>2 DEF ChainInv, RawSigned, SignedSlot, AfterSigned
  <2>4. ChainHead' /\ RawIdxOut'
    BY <1>2, <2>1 DEF ChainHead, RawIdxOut
  <2>. QED
    BY <2>3, <2>4 DEF ChainInv
<1>. QED
  BY <1>1, <1>2 DEF SignWrapper

LEMMA NextChainInv == IInv /\ ChainInv /\ [Next]_vars => ChainInv'
<1> SUFFICES ASSUME IInv, ChainInv, [Next]_vars PROVE ChainInv'
  OBVIOUS
<1>1. CASE UNCHANGED vars
  BY <1>1 DEF vars, ChainInv, ChainHead, RawSigned, SignedSlot, RawIdxOut, RawList
<1>. QED
  BY <1>1, ExtractPublicKeyChainInv, HashRawHeaderChainInv, HashUnsignedRawSectionChainInv,
     SignRawChainInv, HashSignedRawSectionChainInv, HashCodeAndDataChainInv,
     HashMemoChainInv, HashPriorSignatureChainInv, HashFeeHeaderChainInv,
     HashWrapperSectionChainInv, SignWrapperChainInv DEF Next

(* IInv and ChainInv hold together in every reachable state.                *)
THEOREM ChainInvariant == Spec => [](IInv /\ ChainInv)
<1>1. Init => IInv /\ ChainInv
  BY InitIInv, InitChainInv
<1>2. IInv /\ ChainInv /\ [Next]_vars => IInv' /\ ChainInv'
  BY NextIInv, NextChainInv
<1>. QED
  BY <1>1, <1>2, PTL DEF Spec


(* When crypto_sign returns successfully, the raw signature (line 680) is  *)
(* over a list that starts with the raw header and is matched, slot by     *)
(* slot, by the raw index list written at line 779, and the wrapper        *)
(* signature's list holds the signed raw section, carrying that very       *)
(* signature, at a position whose final index is the raw signature         *)
(* section's: the host can rebuild the chain from the two index lists.     *)
THEOREM RawChained == Spec => []RawSignatureChained
<1>1. IInv /\ ChainInv => RawSignatureChained
  <2> SUFFICES ASSUME IInv, ChainInv, pc = "done" PROVE RawSignatureChained
    BY DEF RawSignatureChained
  <2>1. /\ out.raw = Sign(UnsignedDigest(RawList))
        /\ Len(RawList) >= 1 /\ RawList[1] = Leaf("rawHeader")
        /\ RawList \in Seq(Leaves)
        /\ Matches(tx, RawList, rawIndices) /\ out.rawIdx = rawIndices
    BY DEF ChainInv, RawSigned, RawIdxOut, AfterSigned
  <2>2. PICK p \in 2..Len(hashes) : hashes[p] = SignedDigest(RawList, out.raw)
    BY DEF ChainInv, SignedSlot, AfterSigned
  <2>3. /\ out.wrapper = Sign(UnsignedDigest(hashes)) /\ out.finalIdx = indices
        /\ Matches(tx, hashes, indices)
    BY DEF IInv
  <2>4. SignedHashes(out.wrapper) = hashes
    BY <2>3, SignedHashesOfSign
  <2>5. out.finalIdx[p] = RawSigSectionIdx(tx)
    BY <2>2, <2>3, OriginSigned DEF Matches
  <2>6. RawList # <<>>
    BY <2>1
  <2>. QED
    BY <2>1, <2>2, <2>4, <2>5, <2>6 DEF RawSignatureChained, RawList, Matches
<1>. QED
  BY <1>1, ChainInvariant, PTL

(* The only step that reaches "done" is the wrapper signature's success    *)
(* path, and no step leaves "done" or "failed".                             *)
LEMMA StepShape ==
    ASSUME Next
    PROVE  /\ pc \notin {"done", "failed"}
           /\ pc' = "done" =>
                 /\ pc = "signWrapper"
                 /\ out' = [out EXCEPT !.wrapper = Sign(wrapperHash),
                                       !.rawIdx = rawIndices,
                                       !.finalIdx = indices]
                 /\ UNCHANGED hashes
  BY DEF Next, ExtractPublicKey, HashRawHeader, HashUnsignedRawSection, SignRaw,
         HashSignedRawSection, HashCodeAndData, HashMemo, HashPriorSignature,
         HashFeeHeader, HashWrapperSection, SignWrapper, Abort

(* crypto_sign (lines 622-787) implements the signature chain: under the   *)
(* mapping that shows the response buffer's signatures once the function   *)
(* has returned successfully, each step either leaves the caller's view    *)
(* alone, completes with a raw signature whose signed section the wrapper  *)
(* signature covers, or fails with nothing returned.                       *)
THEOREM Refinement == Spec => Chain!SafeSpec
<1>1. Init => Chain!Init
  BY DEF Init, Chain!Init, ChainStatus, ChainRaw, ChainWrapper, ChainRawList, ChainWrapList
<1>2. IInv /\ ChainInv /\ [Next]_vars => [Chain!Next]_Chain!avars
  <2> SUFFICES ASSUME IInv, ChainInv, [Next]_vars PROVE [Chain!Next]_Chain!avars
    OBVIOUS
  <2>1. CASE UNCHANGED vars
    BY <2>1 DEF vars, Chain!avars, ChainStatus, ChainRaw, ChainWrapper, ChainRawList,
                ChainWrapList
  <2>2. CASE Next
    <3>1. pc \notin {"done", "failed"} /\ ChainStatus = "busy"
      BY <2>2, StepShape DEF ChainStatus
    <3>2. CASE pc' = "done"
      <4>1. /\ pc = "signWrapper" /\ UNCHANGED hashes
            /\ out' = [out EXCEPT !.wrapper = Sign(wrapperHash),
                                  !.rawIdx = rawIndices,
                                  !.finalIdx = indices]
        BY <2>2, <3>2, StepShape
      <4>2. /\ wrapperHash = UnsignedDigest(hashes) /\ out \in OutRegions
        BY <4>1 DEF IInv, TypeOK
      <4>3. out'.raw = out.raw /\ out'.wrapper = Sign(UnsignedDigest(hashes))
        BY <4>1, <4>2 DEF OutRegions
      <4>4. /\ out.raw = Sign(UnsignedDigest(RawList))
            /\ Len(RawList) >= 1 /\ RawList \in Seq(Leaves)
            /\ \E p \in 2..Len(hashes) : hashes[p] = SignedDigest(RawList, out.raw)
        BY <4>1 DEF ChainInv, RawSigned, SignedSlot, AfterSigned
      <4>5. /\ ChainStatus' = "done"
            /\ ChainRaw' = out.raw /\ ChainRawList' = RawList
            /\ ChainWrapper' = Sign(UnsignedDigest(hashes)) /\ ChainWrapList' = hashes
        BY <3>2, <4>3, SignedHashesOfSign
           DEF ChainStatus, ChainRaw, ChainRawList, ChainWrapper, ChainWrapList, RawList
      <4>6. RawList # <<>>
        BY <4>4
      <4>. QED
        BY <3>1, <4>4, <4>5, <4>6 DEF Chain!Next, Chain!Complete
    <3>3. CASE pc' = "failed"
      <4>1. /\ ChainStatus' = "failed"
            /\ UNCHANGED <<ChainRaw, ChainWrapper, ChainRawList, ChainWrapList>>
        BY <3>1, <3>3 DEF ChainStatus, ChainRaw, ChainWrapper, ChainRawList, ChainWrapList
      <4>. QED
        BY <3>1, <4>1 DEF Chain!Next, Chain!Fail
    <3>4. CASE pc' \notin {"done", "failed"}
      BY <3>1, <3>4 DEF Chain!avars, ChainStatus, ChainRaw, ChainWrapper, ChainRawList,
                        ChainWrapList
    <3>. QED
      BY <3>2, <3>3, <3>4
  <2>. QED
    BY <2>1, <2>2
<1>. QED
  BY <1>1, <1>2, ChainInvariant, PTL DEF Spec, Chain!SafeSpec


=============================================================================

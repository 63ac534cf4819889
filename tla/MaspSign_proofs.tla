--------------------------- MODULE MaspSign_proofs ---------------------------
(***************************************************************************)
(* Proofs about the MASP signing model: the type invariant, and that a     *)
(* successful crypto_sign_masp leaves spends, spend signatures and indexed *)
(* outputs bound to the randomness the device generated, for every value   *)
(* of the constants.                                                        *)
(***************************************************************************)
EXTENDS MaspSign, SequenceTheorems, TLAPS

(* The entries of the spend signature list.                                 *)
SigType == {"spendsig"} \X Rands \X {Sighash, ZeroDigest}

(* What checkConverts (1137-1158) establishes when it passes: each builder *)
(* convert was compared with the bundle convert at the offset               *)
(* tx_converts_ctx had accumulated, and, where that slot exists and the     *)
(* device generated randomness for the convert, the two agree.  It is an    *)
(* auxiliary conjunct: FirstTwoConverts follows from it and the offsets 0   *)
(* and 1.                                                                    *)
ConvertSlotsChecked ==
    lastResult = "ok" =>
        /\ Len(lastTx.converts) = Len(lastTx.bConverts)
        /\ \A k \in 1..Len(lastTx.bConverts) :
              LET s == ConvertOffset[k - 1] + 1 IN
              s \in 1..Len(lastTx.converts) /\ k <= Len(callItems.convert) =>
                 lastTx.converts[s] = CV(lastTx.bConverts[k], callItems.convert[k].rcv)

(* The inductive invariant: the type invariant, four properties of the    *)
(* last call and the auxiliary ConvertSlotsChecked, each of which is       *)
(* preserved on its own because every variable it reads is written         *)
(* together by crypto_sign_masp.                                            *)
MInv == /\ TypeOK
        /\ SpendsBound
        /\ SpendSignaturesMatch
        /\ OutputsMatchIndexedSlots
        /\ ConvertSlotsChecked
        /\ AppendedSignaturesInSpendOrder

-----------------------------------------------------------------------------
(* SeqUpTo(S, n) holds exactly the sequences over S of length at most n.   *)
LEMMA SeqUpToIff ==
    ASSUME NEW S, NEW n \in Nat, NEW s
    PROVE  s \in SeqUpTo(S, n) <=> s \in Seq(S) /\ Len(s) <= n
<1>1. ASSUME s \in SeqUpTo(S, n) PROVE s \in Seq(S) /\ Len(s) <= n
  <2>1. PICK k \in 0..n : s \in [1..k -> S]
    BY <1>1 DEF SeqUpTo
  <2>2. s \in Seq(S)
    <3>1. Seq(S) = UNION {[1..m -> S] : m \in Nat}
      BY SeqDef
    <3>2. k \in Nat
      OBVIOUS
    <3>. QED  BY <2>1, <3>1, <3>2, Zenon
  <2>3. Len(s) = k
    BY <2>1, <2>2, LenProperties
  <2>. QED  BY <2>2, <2>3
<1>2. ASSUME s \in Seq(S), Len(s) <= n PROVE s \in SeqUpTo(S, n)
  <2>1. s \in [1..Len(s) -> S] /\ Len(s) \in Nat
    BY <1>2, LenProperties
  <2>2. \E k \in 0..n : s \in [1..k -> S]
    <3>1. Len(s) \in 0..n
      BY <1>2, <2>1
    <3>. QED  BY <2>1, <3>1, Zenon
  <2>. QED  BY <2>2, Zenon DEF SeqUpTo
<1>. QED  BY <1>1, <1>2

(* Appending to a sequence below the bound stays within the bound.         *)
LEMMA AppendUpTo ==
    ASSUME NEW S, NEW n \in Nat, NEW s \in SeqUpTo(S, n), Len(s) < n,
           NEW e \in S
    PROVE  Append(s, e) \in SeqUpTo(S, n)
<1>1. s \in Seq(S)
  BY SeqUpToIff
<1>2. Append(s, e) \in Seq(S) /\ Len(Append(s, e)) = Len(s) + 1
  BY <1>1, AppendProperties
<1>3. Len(s) + 1 <= n
  BY <1>1, LenProperties
<1>. QED  BY <1>2, <1>3, SeqUpToIff

(* A loop of checkSpends that may pass has as many builder spends as       *)
(* bundle spends, and each of its iterations may pass.                      *)
LEMMA CheckSpendsTrue ==
    ASSUME NEW t, TRUE \in CheckSpends(t)
    PROVE  /\ Len(t.bSpends) = Len(t.spends)
           /\ \A k \in 1..Len(t.bSpends) : TRUE \in SpendOutcomes(t, k)
<1>1. Len(t.bSpends) = Len(t.spends)
  BY DEF CheckSpends
<1>2. TRUE \in LoopResults(Len(t.bSpends), LAMBDA k : SpendOutcomes(t, k))
  BY <1>1 DEF CheckSpends
<1>. QED  BY <1>1, <1>2 DEF LoopResults

(* Likewise for checkOutputs, over the metadata's output indices.           *)
LEMMA CheckOutputsTrue ==
    ASSUME NEW t, TRUE \in CheckOutputs(t)
    PROVE  \A k \in 1..Len(t.outIndices) : TRUE \in OutputOutcomes(t, k)
<1>1. Len(t.bOutputs) = Len(t.outIndices)
  BY DEF CheckOutputs
<1>2. TRUE \in LoopResults(Len(t.outIndices), LAMBDA k : OutputOutcomes(t, k))
  BY <1>1 DEF CheckOutputs
<1>. QED  BY <1>2 DEF LoopResults

(* Each of the three checks yields Booleans.                                *)
LEMMA ChecksBoolean ==
    ASSUME NEW t
    PROVE  /\ CheckSpends(t) \subseteq BOOLEAN
           /\ CheckOutputs(t) \subseteq BOOLEAN
           /\ CheckConverts(t) \subseteq BOOLEAN
<1>2. CheckSpends(t) \subseteq BOOLEAN
  BY DEF CheckSpends, LoopResults
<1>3. CheckOutputs(t) \subseteq BOOLEAN
  BY DEF CheckOutputs, LoopResults
<1>4. CheckConverts(t) \subseteq BOOLEAN
  BY DEF CheckConverts, LoopResults
<1>. QED  BY <1>2, <1>3, <1>4

(* crypto_check_masp may pass only when the spend and output checks may.   *)
LEMMA CheckMaspTrue ==
    ASSUME NEW t, TRUE \in CheckMasp(t)
    PROVE  /\ TRUE \in CheckSpends(t)
           /\ TRUE \in CheckOutputs(t)
           /\ TRUE \in CheckConverts(t)
<1>0. \E a \in CheckSpends(t) : \E b \in CheckOutputs(t) : \E c \in CheckConverts(t) :
          TRUE = (a /\ b /\ c)
  <2>1. ASSUME NEW x, x \in CheckMasp(t)
        PROVE  \E a \in CheckSpends(t) : \E b \in CheckOutputs(t) :
                  \E c \in CheckConverts(t) : x = (a /\ b /\ c)
    BY <2>1, SMT DEF CheckMasp
  <2>. QED  BY <2>1, Zenon
<1>1. PICK a \in CheckSpends(t), b \in CheckOutputs(t), c \in CheckConverts(t) :
          TRUE = (a /\ b /\ c)
  BY <1>0
<1>2. a \in BOOLEAN /\ b \in BOOLEAN /\ c \in BOOLEAN
  BY <1>1, ChecksBoolean
<1>3. a = TRUE /\ b = TRUE /\ c = TRUE
  BY <1>1, <1>2, Zenon
<1>. QED  BY <1>1, <1>3


(* An iteration of checkSpends over a stored randomness item may pass only *)
(* when the bundle spend is bound to that item's rcv and alpha.            *)
LEMMA SpendOutcomeTrue ==
    ASSUME NEW t, NEW k \in 1..Len(spendItems), TRUE \in SpendOutcomes(t, k)
    PROVE  /\ CV(t.bSpends[k], spendItems[k].rcv) = t.spends[k].cv
           /\ Rk(spendItems[k].alpha) = t.spends[k].rk
<1>1. ItemsAt(spendItems, k, SpendItem) = {spendItems[k]}
  BY DEF ItemsAt
<1>2. ASSUME NEW x, x \in SpendOutcomes(t, k)
      PROVE  x = (/\ CV(t.bSpends[k], spendItems[k].rcv) = t.spends[k].cv
                  /\ Rk(spendItems[k].alpha) = t.spends[k].rk)
  BY <1>1, <1>2, SMT DEF SpendOutcomes
<1>. QED  BY <1>2, Zenon

(* An iteration of checkOutputs whose index names a stored item and a      *)
(* bundle slot may pass only when that slot commits to the builder output  *)
(* under that item's rcv.                                                   *)
LEMMA OutputOutcomeTrue ==
    ASSUME NEW t, NEW k, t.outIndices[k] \in Nat,
           t.outIndices[k] + 1 \in 1..Len(t.outputs),
           t.outIndices[k] + 1 \in 1..Len(outputItems),
           TRUE \in OutputOutcomes(t, k)
    PROVE  t.outputs[t.outIndices[k] + 1]
              = CV(t.bOutputs[k], outputItems[t.outIndices[k] + 1].rcv)
<1> DEFINE s == t.outIndices[k] + 1
<1>1. ItemsAt(outputItems, s, OutputItem) = {outputItems[s]}
  BY DEF ItemsAt
<1>2. ReadsAt(t.outputs, s) = {t.outputs[s]}
  BY DEF ReadsAt
<1>3. ~(t.outIndices[k] > Len(t.outputs))
  OBVIOUS
<1>4. ASSUME NEW x, x \in OutputOutcomes(t, k)
      PROVE  x = (CV(t.bOutputs[k], outputItems[s].rcv) = t.outputs[s])
  BY <1>1, <1>2, <1>3, <1>4, SMT DEF OutputOutcomes
<1>. QED  BY <1>4, Zenon


(* The recursive function ConvertOffset satisfies its defining equation:  *)
(* the closed form n * (n + 1) \div 2 is a solution, so the CHOOSE of the *)
(* definition picks one.                                                    *)
LEMMA ConvertOffsetDef ==
    ConvertOffset = [n \in Nat |-> IF n = 0 THEN 0 ELSE ConvertOffset[n - 1] + n]
<1> DEFINE g == [n \in Nat |-> (n * (n + 1)) \div 2]
<1>1. \A n \in Nat \ {0} : g[n] = g[n - 1] + n
  <2> SUFFICES ASSUME NEW n \in Nat \ {0} PROVE g[n] = g[n - 1] + n
    OBVIOUS
  <2>1. n * (n + 1) = (n - 1) * n + 2 * n
    OBVIOUS
  <2>2. \A x \in Int : (x + 2 * n) \div 2 = x \div 2 + n
    OBVIOUS
  <2>3. (n - 1) * n \in Int
    OBVIOUS
  <2>4. ((n - 1) * n + 2 * n) \div 2 = ((n - 1) * n) \div 2 + n
    BY <2>2, <2>3
  <2>5. g[n] = (n * (n + 1)) \div 2 /\ g[n - 1] = ((n - 1) * n) \div 2
    OBVIOUS
  <2>. QED  BY <2>1, <2>4, <2>5
<1>2. g = [n \in Nat |-> IF n = 0 THEN 0 ELSE g[n - 1] + n]
  <2>1. g[0] = 0
    OBVIOUS
  <2>2. \A n \in Nat : g[n] = IF n = 0 THEN 0 ELSE g[n - 1] + n
    BY <1>1, <2>1
  <2>. QED  BY <2>2
<1>3. \E f : f = [n \in Nat |-> IF n = 0 THEN 0 ELSE f[n - 1] + n]
  BY <1>2
<1>. QED  BY <1>3 DEF ConvertOffset

(* The offsets of tx_converts_ctx at the first two iterations of           *)
(* checkConverts: 0 and 1 records, the positions of those converts.         *)
LEMMA ConvertOffsetValues ==
    ConvertOffset[0] = 0 /\ ConvertOffset[1] = 1
<1>1. ConvertOffset[0] = 0
  BY ConvertOffsetDef
<1>2. ConvertOffset[1] = ConvertOffset[0] + 1
  BY ConvertOffsetDef
<1>. QED  BY <1>1, <1>2

(* Likewise for checkConverts.                                              *)
LEMMA CheckConvertsTrue ==
    ASSUME NEW t, TRUE \in CheckConverts(t)
    PROVE  /\ Len(t.bConverts) = Len(t.converts)
           /\ \A k \in 1..Len(t.bConverts) : TRUE \in ConvertOutcomes(t, k)
<1>1. Len(t.bConverts) = Len(t.converts)
  BY DEF CheckConverts
<1>2. TRUE \in LoopResults(Len(t.bConverts), LAMBDA k : ConvertOutcomes(t, k))
  BY <1>1 DEF CheckConverts
<1>. QED  BY <1>1, <1>2 DEF LoopResults

(* An iteration of checkConverts whose offset names a bundle slot, over a  *)
(* stored item, may pass only when that slot commits to the builder        *)
(* convert under that item's rcv.                                           *)
LEMMA ConvertOutcomeTrue ==
    ASSUME NEW t, NEW k \in 1..Len(convertItems),
           ConvertOffset[k - 1] + 1 \in 1..Len(t.converts),
           TRUE \in ConvertOutcomes(t, k)
    PROVE  t.converts[ConvertOffset[k - 1] + 1]
              = CV(t.bConverts[k], convertItems[k].rcv)
<1> DEFINE off == ConvertOffset[k - 1]
<1>1. ~(off > Len(t.converts))
  <2>1. CASE off > Len(t.converts)
    <3>1. ConvertOutcomes(t, k) = {FALSE}
      BY <2>1 DEF ConvertOutcomes
    <3>. QED  BY <3>1
  <2>. QED  BY <2>1
<1>2. ItemsAt(convertItems, k, ConvertItem) = {convertItems[k]}
  BY DEF ItemsAt
<1>3. ReadsAt(t.converts, off + 1) = {t.converts[off + 1]}
  BY DEF ReadsAt
<1>4. ASSUME NEW x, x \in ConvertOutcomes(t, k)
      PROVE  x = (CV(t.bConverts[k], convertItems[k].rcv) = t.converts[off + 1])
  BY <1>1, <1>2, <1>3, <1>4, SMT DEF ConvertOutcomes
<1>. QED  BY <1>4, Zenon

(* The fields of a parsed transaction are sequences over their types.      *)
LEMMA TxFacts ==
    ASSUME NEW t \in Tx
    PROVE  /\ t.bSpends \in Seq(Vals)
           /\ t.spends \in Seq([cv : CvVals, rk : {Rk(a) : a \in Rands}])
           /\ t.outIndices \in Seq(0..MaxOutputs)
           /\ t.outputs \in Seq(CvVals)
<1>1. t.bSpends \in SeqUpTo(Vals, MaxSpends)
  BY DEF Tx
<1>2. t.spends \in SeqUpTo([cv : CvVals, rk : {Rk(a) : a \in Rands}], MaxSpends)
  BY DEF Tx
<1>3. t.outIndices \in SeqUpTo(0..MaxOutputs, MaxOutputs)
  BY DEF Tx
<1>4. t.outputs \in SeqUpTo(CvVals, MaxOutputs)
  BY DEF Tx
<1>5. MaxSpends \in Nat /\ MaxOutputs \in Nat
  BY MaspAssumption
<1>. QED  BY <1>1, <1>2, <1>3, <1>4, <1>5, SeqUpToIff, Zenon

-----------------------------------------------------------------------------
(* The initial state satisfies the invariant.                               *)
LEMMA InitMInv == Init => MInv
<1> SUFFICES ASSUME Init PROVE MInv
  OBVIOUS
<1>1. \A S : \A n \in Nat : << >> \in SeqUpTo(S, n)
  <2> SUFFICES ASSUME NEW S, NEW n \in Nat PROVE << >> \in SeqUpTo(S, n)
    OBVIOUS
  <2>1. << >> \in Seq(S) /\ Len(<< >>) = 0
    BY EmptySeq
  <2>2. Len(<< >>) <= n
    BY <2>1
  <2>. QED  BY <2>1, <2>2, SeqUpToIff
<1>2. Caps["spend"] \in Nat /\ Caps["output"] \in Nat /\ Caps["convert"] \in Nat
  BY MaspAssumption
<1>3. << >> \in Seq(SigType) /\ << >> \in Seq(SpendItem)
      /\ << >> \in Seq(OutputItem) /\ << >> \in Seq(ConvertItem)
  BY EmptySeq
<1>5. Len(<< >>) = 0 /\ MaxSigs \in Nat
  BY EmptySeq, MaspAssumption
<1>4. TypeOK
  <2>1. /\ spendItems \in SeqUpTo(SpendItem, Caps["spend"])
        /\ outputItems \in SeqUpTo(OutputItem, Caps["output"])
        /\ convertItems \in SeqUpTo(ConvertItem, Caps["convert"])
    <3>1. << >> \in SeqUpTo(SpendItem, Caps["spend"])
      BY <1>1, <1>2
    <3>2. << >> \in SeqUpTo(OutputItem, Caps["output"])
      BY <1>1, <1>2
    <3>3. << >> \in SeqUpTo(ConvertItem, Caps["convert"])
      BY <1>1, <1>2
    <3>. QED  BY <3>1, <3>2, <3>3 DEF Init
  <2>2. /\ sigStore \in Seq({"spendsig"} \X Rands \X {Sighash, ZeroDigest})
        /\ Len(sigStore) <= MaxSigs
        /\ extracted \in 0..Len(sigStore)
        /\ sigMark \in 0..Len(sigStore)
    BY <1>3, <1>5 DEF Init, SigType
  <2>3. callItems \in [spend : Seq(SpendItem), output : Seq(OutputItem),
                       convert : Seq(ConvertItem)]
    BY <1>3 DEF Init
  <2>4. lastResult \in {"none", "ok", "err"} /\ lastResult = "none"
    BY DEF Init
  <2>. QED  BY <2>1, <2>2, <2>3, <2>4 DEF TypeOK
<1>. QED  BY <1>4 DEF Init, MInv, SpendsBound, SpendSignaturesMatch,
                      OutputsMatchIndexedSlots, ConvertSlotsChecked,
                      AppendedSignaturesInSpendOrder

(* A step that leaves the last call's record and the signature list alone  *)
(* preserves the three properties of a successful call.                    *)
LEMMA CallRecordUnchanged ==
    ASSUME MInv, UNCHANGED <<sigStore, lastTx, lastResult, sigMark, callItems>>
    PROVE  (SpendsBound /\ SpendSignaturesMatch /\ OutputsMatchIndexedSlots
            /\ ConvertSlotsChecked /\ AppendedSignaturesInSpendOrder)'
BY DEF MInv, SpendsBound, SpendSignaturesMatch, OutputsMatchIndexedSlots,
       ConvertSlotsChecked, AppendedSignaturesInSpendOrder

(* crypto_computeRandomness preserves the invariant.                        *)
LEMMA ComputeRandomnessMInv ==
    ASSUME MInv, ComputeRandomness
    PROVE  MInv'
<1>1. Caps["spend"] \in Nat /\ Caps["output"] \in Nat /\ Caps["convert"] \in Nat
  BY MaspAssumption
<1>2. /\ spendItems \in SeqUpTo(SpendItem, Caps["spend"])
      /\ outputItems \in SeqUpTo(OutputItem, Caps["output"])
      /\ convertItems \in SeqUpTo(ConvertItem, Caps["convert"])
  BY DEF MInv, TypeOK
<1>7. /\ spendItems' \in SeqUpTo(SpendItem, Caps["spend"])
      /\ outputItems' \in SeqUpTo(OutputItem, Caps["output"])
      /\ convertItems' \in SeqUpTo(ConvertItem, Caps["convert"])
  <2>1. CASE /\ Len(spendItems) < Caps["spend"]
             /\ \E it \in SpendItem : spendItems' = Append(spendItems, it)
             /\ UNCHANGED <<outputItems, convertItems>>
    <3>1. PICK it \in SpendItem : spendItems' = Append(spendItems, it)
      BY <2>1
    <3>2. spendItems' \in SeqUpTo(SpendItem, Caps["spend"])
      BY <1>1, <1>2, <2>1, <3>1, AppendUpTo
    <3>. QED  BY <1>2, <2>1, <3>2
  <2>2. CASE /\ Len(outputItems) < Caps["output"]
             /\ \E it \in OutputItem : outputItems' = Append(outputItems, it)
             /\ UNCHANGED <<spendItems, convertItems>>
    <3>1. PICK it \in OutputItem : outputItems' = Append(outputItems, it)
      BY <2>2
    <3>2. outputItems' \in SeqUpTo(OutputItem, Caps["output"])
      BY <1>1, <1>2, <2>2, <3>1, AppendUpTo
    <3>. QED  BY <1>2, <2>2, <3>2
  <2>3. CASE /\ Len(convertItems) < Caps["convert"]
             /\ \E it \in ConvertItem : convertItems' = Append(convertItems, it)
             /\ UNCHANGED <<spendItems, outputItems>>
    <3>1. PICK it \in ConvertItem : convertItems' = Append(convertItems, it)
      BY <2>3
    <3>2. convertItems' \in SeqUpTo(ConvertItem, Caps["convert"])
      BY <1>1, <1>2, <2>3, <3>1, AppendUpTo
    <3>. QED  BY <1>2, <2>3, <3>2
  <2>. QED  BY <2>1, <2>2, <2>3 DEF ComputeRandomness
<1>5. TypeOK'
  BY <1>7 DEF MInv, TypeOK, ComputeRandomness
<1>. QED  BY <1>5, CallRecordUnchanged DEF MInv, ComputeRandomness

(* crypto_extract_spend_signature preserves the invariant.                  *)
LEMMA ExtractSpendSignatureMInv ==
    ASSUME MInv, ExtractSpendSignature
    PROVE  MInv'
<1>1. TypeOK'
  BY DEF MInv, TypeOK, ExtractSpendSignature
<1>. QED  BY <1>1, CallRecordUnchanged DEF MInv, ExtractSpendSignature


(* The record crypto_sign_masp keeps of a call is well typed: the         *)
(* transaction, the mark and the randomness lists it started from.         *)
LEMMA SignMaspRecordType ==
    ASSUME MInv, SignMasp
    PROVE  /\ lastTx' \in Tx
           /\ sigMark' = Len(sigStore)
           /\ callItems' \in [spend : Seq(SpendItem), output : Seq(OutputItem),
                              convert : Seq(ConvertItem)]
           /\ UNCHANGED <<spendItems, outputItems, convertItems, extracted>>
<1>1. Caps["spend"] \in Nat /\ Caps["output"] \in Nat /\ Caps["convert"] \in Nat
  BY MaspAssumption
<1>2. /\ spendItems \in Seq(SpendItem)
      /\ outputItems \in Seq(OutputItem)
      /\ convertItems \in Seq(ConvertItem)
  BY <1>1, SeqUpToIff DEF MInv, TypeOK
<1>. QED  BY <1>2 DEF SignMasp

(* A failing crypto_sign_masp, which leaves the signature list alone,     *)
(* preserves the invariant.                                                 *)
LEMMA SignMaspErrMInv ==
    ASSUME MInv, SignMasp, lastResult' = "err", UNCHANGED sigStore
    PROVE  MInv'
<1>1. /\ lastTx' \in Tx
      /\ sigMark' = Len(sigStore)
      /\ callItems' \in [spend : Seq(SpendItem), output : Seq(OutputItem),
                         convert : Seq(ConvertItem)]
      /\ UNCHANGED <<spendItems, outputItems, convertItems, extracted>>
  BY SignMaspRecordType
<1>2. Len(sigStore) \in Nat
  BY LenProperties DEF MInv, TypeOK
<1>3. TypeOK'
  BY <1>1, <1>2 DEF MInv, TypeOK
<1>4. AppendedSignaturesInSpendOrder'
  <2>1. Len(lastTx'.spends) \in Nat
    BY <1>1, TxFacts, LenProperties
  <2>2. Len(sigStore') - sigMark' = 0
    BY <1>1, <1>2
  <2>. QED  BY <2>1, <2>2 DEF AppendedSignaturesInSpendOrder
<1>. QED  BY <1>3, <1>4 DEF MInv, SpendsBound, SpendSignaturesMatch,
                      OutputsMatchIndexedSlots, ConvertSlotsChecked


(* A list of k signatures built by crypto_sign_spends_sapling is a         *)
(* sequence of k signature entries.                                          *)
LEMMA SigListType ==
    ASSUME NEW k \in Nat, NEW alphas \in [1..k -> Rands],
           NEW h \in SighashOutcomes
    PROVE  LET F == [j \in 1..k |-> SpendSig(alphas[j], h)]
           IN  F \in Seq(SigType) /\ Len(F) = k
<1> DEFINE F == [j \in 1..k |-> SpendSig(alphas[j], h)]
<1>1. h \in {Sighash, ZeroDigest}
  BY DEF SighashOutcomes
<1>2. F \in [1..k -> SigType]
  BY <1>1 DEF SpendSig, SigType
<1>3. F \in SeqUpTo(SigType, k)
  BY <1>2 DEF SeqUpTo
<1>4. F \in Seq(SigType) /\ Len(F) <= k
  BY <1>3, SeqUpToIff
<1>5. Len(F) = k
  BY <1>4, LenProperties
<1>. QED  BY <1>4, <1>5

(* A successful-path crypto_sign_masp (the checks may pass and            *)
(* crypto_sign_spends_sapling runs) preserves the invariant.               *)
LEMMA SignSpendsMInv ==
    ASSUME MInv, SignMasp, NEW t \in Tx, lastTx' = t,
           callItems' = [spend |-> spendItems, output |-> outputItems,
                         convert |-> convertItems],
           TRUE \in CheckMasp(t), SignSpends(t)
    PROVE  MInv'
<1>0. /\ lastTx' \in Tx
      /\ sigMark' = Len(sigStore)
      /\ callItems' \in [spend : Seq(SpendItem), output : Seq(OutputItem),
                         convert : Seq(ConvertItem)]
      /\ UNCHANGED <<spendItems, outputItems, convertItems, extracted>>
  BY SignMaspRecordType
<1> DEFINE n == IF Len(t.spends) = 0 THEN 0 ELSE Len(t.bSpends)
           room == MaxSigs - Len(sigStore)
           full == IF n <= room THEN n ELSE room
<1>1. /\ t.bSpends \in Seq(Vals)
      /\ t.spends \in Seq([cv : CvVals, rk : {Rk(a) : a \in Rands}])
      /\ t.outIndices \in Seq(0..MaxOutputs)
      /\ t.outputs \in Seq(CvVals)
  BY TxFacts
<1>2. /\ n \in Nat
      /\ Len(sigStore) \in Nat
      /\ MaxSigs \in Nat
      /\ Len(sigStore) <= MaxSigs
      /\ sigStore \in Seq(SigType)
  BY <1>1, LenProperties, MaspAssumption DEF MInv, TypeOK, SigType
<1>3. PICK k \in 0..full :
          /\ (k < n) => (Fallible \/ k = room)
          /\ \E alphas \in [1..k -> Rands], h \in SighashOutcomes :
                /\ \A j \in 1..k : alphas[j] \in {it.alpha : it \in ItemsAt(spendItems, j, SpendItem)}
                /\ sigStore' = sigStore \o [j \in 1..k |-> SpendSig(alphas[j], h)]
          /\ lastResult' = IF k = n THEN "ok" ELSE "err"
  BY DEF SignSpends
<1>4. k \in Nat /\ k <= n /\ Len(sigStore) + k <= MaxSigs
  BY <1>2, <1>3
<1>5. PICK alphas \in [1..k -> Rands], h \in SighashOutcomes :
          /\ \A j \in 1..k : alphas[j] \in {it.alpha : it \in ItemsAt(spendItems, j, SpendItem)}
          /\ sigStore' = sigStore \o [j \in 1..k |-> SpendSig(alphas[j], h)]
  BY <1>3
<1> DEFINE F == [j \in 1..k |-> SpendSig(alphas[j], h)]
<1>6. F \in Seq(SigType) /\ Len(F) = k
  BY <1>4, SigListType
<1>7. /\ sigStore' \in Seq(SigType)
      /\ Len(sigStore') = Len(sigStore) + k
      /\ \A j \in 1..k : sigStore'[Len(sigStore) + j] = F[j]
  <2>1. /\ sigStore \o F \in Seq(SigType)
        /\ Len(sigStore \o F) = Len(sigStore) + Len(F)
        /\ \A i \in 1 .. Len(sigStore) + Len(F) :
              (sigStore \o F)[i] = IF i <= Len(sigStore) THEN sigStore[i]
                                   ELSE F[i - Len(sigStore)]
    BY <1>2, <1>6, ConcatProperties
  <2>. QED  BY <1>2, <1>5, <1>6, <2>1
<1>8. TypeOK'
  BY <1>0, <1>2, <1>4, <1>7, <1>3 DEF MInv, TypeOK, SigType
<1>11. AppendedSignaturesInSpendOrder'
  <2>1. TRUE \in CheckSpends(t)
    BY CheckMaspTrue
  <2>2. Len(t.bSpends) = Len(t.spends)
    BY <2>1, CheckSpendsTrue
  <2>3. n = Len(t.spends) /\ Len(sigStore') - sigMark' = k
    BY <1>0, <1>2, <1>4, <1>7, <2>2
  <2>4. ASSUME NEW j \in 1..k, j <= Len(spendItems)
        PROVE  sigStore'[sigMark' + j]
                  \in {SpendSig(spendItems[j].alpha, g) : g \in SighashOutcomes}
    <3>1. ItemsAt(spendItems, j, SpendItem) = {spendItems[j]}
      BY <2>4 DEF ItemsAt
    <3>2. alphas[j] = spendItems[j].alpha
      BY <1>5, <2>4, <3>1
    <3>3. sigStore'[sigMark' + j] = SpendSig(alphas[j], h)
      BY <1>0, <1>7, <2>4
    <3>. QED  BY <3>2, <3>3
  <2>. QED  BY <1>0, <1>4, <2>3, <2>4 DEF AppendedSignaturesInSpendOrder
<1>9. CASE k # n
  <2>1. lastResult' = "err"
    BY <1>3, <1>9
  <2>. QED  BY <1>8, <1>11, <2>1 DEF MInv, SpendsBound, SpendSignaturesMatch,
                                    OutputsMatchIndexedSlots, ConvertSlotsChecked
<1>10. CASE k = n
  <2>1. lastResult' = "ok"
    BY <1>3, <1>10
  <2>2. TRUE \in CheckSpends(t) /\ TRUE \in CheckOutputs(t) /\ TRUE \in CheckConverts(t)
    BY CheckMaspTrue
  <2>3. /\ Len(t.bSpends) = Len(t.spends)
        /\ \A j \in 1..Len(t.bSpends) : TRUE \in SpendOutcomes(t, j)
    BY <2>2, CheckSpendsTrue
  <2>4. n = Len(t.spends)
    BY <2>3
  <2>5. SpendsBound'
    <3> SUFFICES ASSUME NEW j \in 1..Len(t.spends), j <= Len(spendItems)
                 PROVE  t.spends[j] = [cv |-> CV(t.bSpends[j], spendItems[j].rcv),
                                       rk |-> Rk(spendItems[j].alpha)]
      BY <1>0, <2>3 DEF SpendsBound
    <3>1. /\ CV(t.bSpends[j], spendItems[j].rcv) = t.spends[j].cv
          /\ Rk(spendItems[j].alpha) = t.spends[j].rk
      <4>1. TRUE \in SpendOutcomes(t, j)
        BY <2>3
      <4>2. j \in 1..Len(spendItems)
        OBVIOUS
      <4>. QED  BY <4>1, <4>2, SpendOutcomeTrue, Zenon
    <3>2. t.spends[j] \in [cv : CvVals, rk : {Rk(a) : a \in Rands}]
      BY <1>1, ElementOfSeq
    <3>. QED  BY <3>1, <3>2
  <2>6. SpendSignaturesMatch'
    <3>1. Len(sigStore') = sigMark' + Len(t.spends)
      BY <1>0, <1>7, <1>10, <2>4
    <3>2. ASSUME NEW j \in 1..Len(t.spends), j <= Len(spendItems)
          PROVE  sigStore'[sigMark' + j]
                    \in {SpendSig(spendItems[j].alpha, g) : g \in SighashOutcomes}
      <4>1. ItemsAt(spendItems, j, SpendItem) = {spendItems[j]}
        BY <3>2 DEF ItemsAt
      <4>2. alphas[j] = spendItems[j].alpha
        BY <1>5, <1>10, <2>4, <3>2, <4>1
      <4>3. sigStore'[sigMark' + j] = SpendSig(alphas[j], h)
        BY <1>0, <1>7, <1>10, <2>4, <3>2
      <4>. QED  BY <4>2, <4>3
    <3>. QED  BY <1>0, <3>1, <3>2 DEF SpendSignaturesMatch
  <2>7. OutputsMatchIndexedSlots'
    <3> SUFFICES ASSUME NEW j \in 1..Len(t.outIndices),
                        t.outIndices[j] + 1 <= Len(t.outputs),
                        t.outIndices[j] + 1 <= Len(outputItems)
                 PROVE  t.outputs[t.outIndices[j] + 1]
                           = CV(t.bOutputs[j], outputItems[t.outIndices[j] + 1].rcv)
      BY <1>0 DEF OutputsMatchIndexedSlots
    <3>1. t.outIndices[j] \in Nat
      <4>1. t.outIndices[j] \in 0..MaxOutputs
        BY <1>1, ElementOfSeq, Zenon
      <4>. QED  BY <4>1
    <3>2. TRUE \in OutputOutcomes(t, j)
      BY <2>2, CheckOutputsTrue
    <3>3. /\ t.outIndices[j] + 1 \in 1..Len(t.outputs)
          /\ t.outIndices[j] + 1 \in 1..Len(outputItems)
      BY <3>1
    <3>. QED  BY <3>1, <3>2, <3>3, OutputOutcomeTrue, Zenon
  <2>8. ConvertSlotsChecked'
    <3>1. /\ Len(t.bConverts) = Len(t.converts)
          /\ \A j \in 1..Len(t.bConverts) : TRUE \in ConvertOutcomes(t, j)
      BY <2>2, CheckConvertsTrue
    <3>2. ASSUME NEW j \in 1..Len(t.bConverts),
                 ConvertOffset[j - 1] + 1 \in 1..Len(t.converts),
                 j <= Len(convertItems)
          PROVE  t.converts[ConvertOffset[j - 1] + 1]
                    = CV(t.bConverts[j], convertItems[j].rcv)
      <4>1. TRUE \in ConvertOutcomes(t, j)
        BY <3>1
      <4>2. j \in 1..Len(convertItems)
        BY <3>2
      <4>. QED  BY <3>2, <4>1, <4>2, ConvertOutcomeTrue, Zenon
    <3>. QED  BY <1>0, <2>1, <3>1, <3>2 DEF ConvertSlotsChecked
  <2>. QED  BY <1>8, <1>11, <2>5, <2>6, <2>7, <2>8 DEF MInv
<1>. QED  BY <1>9, <1>10


(* crypto_sign_masp preserves the invariant, on each of its exits.          *)
LEMMA SignMaspMInv ==
    ASSUME MInv, SignMasp
    PROVE  MInv'
<1>1. PICK t \in Tx :
          /\ lastTx' = t
          /\ callItems' = [spend |-> spendItems, output |-> outputItems,
                           convert |-> convertItems]
          /\ \/ /\ Fallible
                /\ lastResult' = "err"
                /\ UNCHANGED sigStore
             \/ /\ FALSE \in CheckMasp(t)
                /\ lastResult' = "err"
                /\ UNCHANGED sigStore
             \/ /\ TRUE \in CheckMasp(t)
                /\ SignSpends(t)
  BY DEF SignMasp
<1>2. CASE lastResult' = "err" /\ UNCHANGED sigStore
  BY <1>2, SignMaspErrMInv
<1>3. CASE TRUE \in CheckMasp(t) /\ SignSpends(t)
  BY <1>1, <1>3, SignSpendsMInv
<1>. QED  BY <1>1, <1>2, <1>3

(* Every step of the model, and every stuttering step, preserves the       *)
(* invariant.                                                               *)
LEMMA NextMInv ==
    ASSUME MInv, [Next]_vars
    PROVE  MInv'
<1>1. CASE ComputeRandomness
  BY <1>1, ComputeRandomnessMInv
<1>2. CASE SignMasp
  BY <1>2, SignMaspMInv
<1>3. CASE ExtractSpendSignature
  BY <1>3, ExtractSpendSignatureMInv
<1>4. CASE UNCHANGED vars
  <2>1. TypeOK'
    BY <1>4 DEF vars, MInv, TypeOK
  <2>. QED  BY <1>4, <2>1, CallRecordUnchanged DEF vars, MInv
<1>. QED  BY <1>1, <1>2, <1>3, <1>4 DEF Next

-----------------------------------------------------------------------------
(* MInv holds in every reachable state of the MASP signing model.          *)
THEOREM MInvInvariant == Spec => []MInv
BY InitMInv, NextMInv, PTL DEF Spec

(* The randomness lists stay within their capacities, the signature list   *)
(* within MaxSigs, and the extraction cursor and the call's mark within    *)
(* the signature list, whatever the store's capacities.                    *)
THEOREM MaspSignTypeCorrect == Spec => []TypeOK
BY MInvInvariant, PTL DEF MInv

(* After any successful crypto_sign_masp, the bundle has the builder's     *)
(* spends, each bound by checkSpends to the rcv and alpha of its item.     *)
THEOREM SpendsBoundInvariant == Spec => []SpendsBound
BY MInvInvariant, PTL DEF MInv

(* After any successful crypto_sign_masp, crypto_sign_spends_sapling has   *)
(* appended exactly one signature per spend, in spend order, each under    *)
(* the alpha of that spend's randomness item.                               *)
THEOREM SpendSignaturesMatchInvariant == Spec => []SpendSignaturesMatch
BY MInvInvariant, PTL DEF MInv

(* After any successful crypto_sign_masp, each builder output whose        *)
(* metadata index names a bundle slot and a stored item is committed at    *)
(* that slot under that item's rcv (checkOutputs).                          *)
THEOREM OutputsMatchIndexedSlotsInvariant == Spec => []OutputsMatchIndexedSlots
BY MInvInvariant, PTL DEF MInv

(* After any crypto_sign_masp, successful or not, the signatures it left   *)
(* in the store are those of its first spends, in spend order, each under  *)
(* the alpha of that spend's item, and no more than the bundle has spends. *)
THEOREM AppendedSignaturesInSpendOrderInvariant == Spec => []AppendedSignaturesInSpendOrder
BY MInvInvariant, PTL DEF MInv

(* FirstTwoConverts follows from ConvertSlotsChecked and the offsets 0     *)
(* and 1.                                                                    *)
LEMMA ConvertSlots ==
    ASSUME MInv
    PROVE  FirstTwoConverts
<1>1. ConvertOffset[0] = 0 /\ ConvertOffset[1] = 1
  BY ConvertOffsetValues
<1>2. lastTx \in Tx => Len(lastTx.converts) \in Nat
  <2> SUFFICES ASSUME lastTx \in Tx PROVE Len(lastTx.converts) \in Nat
    OBVIOUS
  <2>1. lastTx.converts \in SeqUpTo(CvVals, MaxConverts)
    BY DEF Tx
  <2>2. lastTx.converts \in Seq(CvVals)
    BY <2>1, SeqUpToIff, MaspAssumption
  <2>. QED  BY <2>2, LenProperties
<1>3. ASSUME lastResult = "ok"
      PROVE  /\ lastTx \in Tx
             /\ Len(lastTx.converts) = Len(lastTx.bConverts)
             /\ \A k \in 1..Len(lastTx.bConverts) :
                   LET s == ConvertOffset[k - 1] + 1 IN
                   s \in 1..Len(lastTx.converts) /\ k <= Len(callItems.convert) =>
                      lastTx.converts[s] = CV(lastTx.bConverts[k], callItems.convert[k].rcv)
  BY <1>3 DEF MInv, TypeOK, ConvertSlotsChecked
<1>4. FirstTwoConverts
  <2> SUFFICES ASSUME lastResult = "ok", NEW k \in 1..2,
                      k <= Len(lastTx.converts), k <= Len(callItems.convert)
               PROVE  lastTx.converts[k] = CV(lastTx.bConverts[k], callItems.convert[k].rcv)
    BY DEF FirstTwoConverts
  <2>1. Len(lastTx.converts) \in Nat
    BY <1>2, <1>3
  <2>2. ConvertOffset[k - 1] + 1 = k
    BY <1>1
  <2>3. k \in 1..Len(lastTx.bConverts) /\ k \in 1..Len(lastTx.converts)
    BY <1>3, <2>1
  <2>. QED  BY <1>3, <2>2, <2>3
<1>. QED  BY <1>4

(* After any successful crypto_sign_masp, the first two bundle converts    *)
(* are the commitments to the first two builder converts under their       *)
(* items' rcv, for any number of converts and any capacities.              *)
THEOREM FirstTwoConvertsVerified == Spec => []FirstTwoConverts
BY MInvInvariant, ConvertSlots, PTL

====

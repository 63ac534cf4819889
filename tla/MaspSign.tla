------------------------------ MODULE MaspSign ------------------------------
(***************************************************************************)
(* The shielded (MASP) commands of src/app/src/crypto.c, as the device     *)
(* runs them one at a time:                                                 *)
(*   crypto_computeRandomness  (1257-1331) records rcv/alpha per item;     *)
(*   crypto_sign_masp          (1216-1243) derives the keys, runs          *)
(*       crypto_check_masp (checkSpends, checkOutputs, checkConverts)      *)
(*       and crypto_sign_spends_sapling, appending one signature per spend;*)
(*   crypto_extract_spend_signature (1035-1044) hands them out one by one. *)
(*                                                                         *)
(* The randomness lists and the signature list are the device's external   *)
(* store (nvdata, outside src/): append-only lists with a capacity,         *)
(* retrieved by index.                                                      *)
(*                                                                         *)
(* Commitments are symbolic: a value commitment is <<"cv", value, rcv>>    *)
(* (the asset identifier is folded into the value), a randomized key is    *)
(* <<"rk", alpha>> (the device's ask is fixed).  A bundle slot read past    *)
(* the end of its buffer (undefined in the code) yields any commitment.    *)
(***************************************************************************)
EXTENDS Naturals, Sequences

CONSTANTS
    Vals,         \* values a builder description may carry
    Rands,        \* field scalars the device's RNG may return
    MaxSpends,    \* bound on the spends of a transaction
    MaxOutputs,   \* bound on the outputs of a transaction
    MaxConverts,  \* bound on the converts of a transaction
    Caps,         \* capacity of each randomness list of the store
    MaxSigs,      \* capacity of the spend signature list of the store
    Fallible      \* whether key derivation and the RNG may fail

ASSUME MaspAssumption ==
    /\ MaxSpends \in Nat /\ MaxOutputs \in Nat /\ MaxConverts \in Nat
    /\ Caps \in [{"spend", "output", "convert"} -> Nat] /\ MaxSigs \in Nat
    /\ Fallible \in BOOLEAN

CV(v, rcv) == <<"cv", v, rcv>>
Rk(alpha) == <<"rk", alpha>>
CvVals == {CV(v, r) : v \in Vals, r \in Rands}

SpendItem == [rcv : Rands, alpha : Rands]
OutputItem == [rcv : Rands]
ConvertItem == [rcv : Rands]

SeqUpTo(S, n) == UNION {[1..k -> S] : k \in 0..n}

(* The parsed transaction: the builder (spend, output and convert          *)
(* descriptions, their values), the metadata's output index stream, and   *)
(* the bundle as it is on the wire (spend cv and rk, output cv, convert    *)
(* cv).                                                                     *)
Tx == [bSpends : SeqUpTo(Vals, MaxSpends),
       bOutputs : SeqUpTo(Vals, MaxOutputs),
       bConverts : SeqUpTo(Vals, MaxConverts),
       outIndices : SeqUpTo(0..MaxOutputs, MaxOutputs),
       spends : SeqUpTo([cv : CvVals, rk : {Rk(a) : a \in Rands}], MaxSpends),
       outputs : SeqUpTo(CvVals, MaxOutputs),
       converts : SeqUpTo(CvVals, MaxConverts)]

(* signature_hash (called at line 1012, defined outside this file) writes *)
(* the transaction's sighash into sign_hash, which is initialised to zero  *)
(* bytes at line 1011.  Its status is discarded, so when it fails the      *)
(* spends are signed over the zero bytes.                                   *)
Sighash == "sighash"
ZeroDigest == "zeroes"
SighashOutcomes == IF Fallible THEN {Sighash, ZeroDigest} ELSE {Sighash}

(* sign_sapling_spend: a RedJubjub signature under ask + alpha over       *)
(* rk || sign_hash.  sign_hash is computed once per call, so it is the     *)
(* same for every spend of a call; the nonce is fresh and not told apart.  *)
SpendSig(alpha, digest) == <<"spendsig", alpha, digest>>

VARIABLES
    spendItems,    \* spendlist: one item per crypto_computeRandomness(spend)
    outputItems,   \* outputlist
    convertItems,  \* convertlist
    sigStore,      \* spend signatures appended by crypto_sign_spends_sapling
    extracted,     \* signatures already handed out
    lastTx,        \* the transaction of the last crypto_sign_masp
    lastResult,    \* its result: "none", "ok" or "err"
    sigMark,       \* Len(sigStore) when that call started
    callItems      \* the three randomness lists when that call started

vars == <<spendItems, outputItems, convertItems, sigStore, extracted,
          lastTx, lastResult, sigMark, callItems>>

(* The item a *list_retrieve_rand_item(k) call may return: the stored one, *)
(* or, past the end of the list, whatever the flash slot holds.            *)
ItemsAt(list, k, All) == IF k \in 1..Len(list) THEN {list[k]} ELSE All

(* The commitment bytes at slot s of a bundle buffer of Len(seq) records:  *)
(* CTX_CHECK_AND_ADVANCE lets the offset reach the end of the buffer, and  *)
(* the memcmp then reads past it.                                           *)
ReadsAt(seq, s) == IF s \in 1..Len(seq) THEN {seq[s]} ELSE CvVals

(* The offset (in records) of tx_converts_ctx at iteration i (0-based):    *)
(* checkConverts advances it by i records and never resets it.             *)
ConvertOffset[n \in Nat] == IF n = 0 THEN 0 ELSE ConvertOffset[n - 1] + n

(* Mutant: the rk comparison compiled out, as in an APP_TESTING build.    *)
SpendOutcomesNoRk(t, k) ==
    { CV(t.bSpends[k], it.rcv) = t.spends[k].cv : it \in ItemsAt(spendItems, k, SpendItem) }

(* The possible outcomes (TRUE: the item passes) of iteration k (1-based)   *)
(* of the loop of checkSpends (1055-1086).                                  *)
SpendOutcomes(t, k) ==
    { /\ CV(t.bSpends[k], it.rcv) = t.spends[k].cv
      /\ Rk(it.alpha) = t.spends[k].rk
      : it \in ItemsAt(spendItems, k, SpendItem) }

(* Mutant: the randomness item one before the index (a 0-based index used  *)
(* as a 1-based position).                                                 *)
OutputOutcomesItemOffByOne(t, k) ==
    LET indice == t.outIndices[k] IN
    IF indice > Len(t.outputs)
    THEN {FALSE}
    ELSE { CV(t.bOutputs[k], it.rcv) = rd
           : it \in ItemsAt(outputItems, indice, OutputItem),
             rd \in ReadsAt(t.outputs, indice + 1) }

(* checkOutputs (1099-1125): builder output k is checked against bundle    *)
(* slot indice and randomness item indice, indice read from the metadata.   *)
OutputOutcomes(t, k) ==
    LET indice == t.outIndices[k] IN
    IF indice > Len(t.outputs)
    THEN {FALSE}
    ELSE { CV(t.bOutputs[k], it.rcv) = rd
           : it \in ItemsAt(outputItems, indice + 1, OutputItem),
             rd \in ReadsAt(t.outputs, indice + 1) }

(* Mutant: the context advanced before the commitment is read.            *)
ConvertOutcomesReadAfterAdvance(t, k) ==
    LET off == ConvertOffset[k - 1] IN
    IF off > Len(t.converts)
    THEN {FALSE}
    ELSE { CV(t.bConverts[k], it.rcv) = rd
           : it \in ItemsAt(convertItems, k, ConvertItem),
             rd \in ReadsAt(t.converts, off + 2) }

(* checkConverts (1137-1158): the bounds check is on the accumulated       *)
(* offset, and the commitment is read there.                                *)
ConvertOutcomes(t, k) ==
    LET off == ConvertOffset[k - 1] IN
    IF off > Len(t.converts)
    THEN {FALSE}
    ELSE { CV(t.bConverts[k], it.rcv) = rd
           : it \in ItemsAt(convertItems, k, ConvertItem),
             rd \in ReadsAt(t.converts, off + 1) }

(* A loop over 1..n whose iteration k has outcomes O(k) may pass when each *)
(* iteration may pass, and may fail when one may fail.                      *)
LoopResults(n, O(_)) ==
    { b \in BOOLEAN : /\ b => \A k \in 1..n : TRUE \in O(k)
                      /\ ~b => \E k \in 1..n : FALSE \in O(k) }

CheckSpends(t) ==
    IF Len(t.bSpends) # Len(t.spends) THEN {FALSE}
    ELSE LoopResults(Len(t.bSpends), LAMBDA k : SpendOutcomes(t, k))

CheckOutputs(t) ==
    IF Len(t.bOutputs) # Len(t.outIndices) THEN {FALSE}
    ELSE LoopResults(Len(t.outIndices), LAMBDA k : OutputOutcomes(t, k))

CheckConverts(t) ==
    IF Len(t.bConverts) # Len(t.converts) THEN {FALSE}
    ELSE LoopResults(Len(t.bConverts), LAMBDA k : ConvertOutcomes(t, k))

(* crypto_check_masp (1162-1205): spends, outputs, converts, each must pass. *)
CheckMasp(t) ==
    { a /\ b /\ c : a \in CheckSpends(t), b \in CheckOutputs(t), c \in CheckConverts(t) }

-----------------------------------------------------------------------------

Init ==
    /\ spendItems = <<>>
    /\ outputItems = <<>>
    /\ convertItems = <<>>
    /\ sigStore = <<>>
    /\ extracted = 0
    /\ lastTx = <<>>
    /\ lastResult = "none"
    /\ sigMark = 0
    /\ callItems = [spend |-> <<>>, output |-> <<>>, convert |-> <<>>]

(* crypto_computeRandomness (1257-1331): draw rcv (and alpha for a spend,  *)
(* rcm for an output, not modelled) and append the item; the append fails  *)
(* when the list is full, random_fr when from_bytes_wide fails.             *)
ComputeRandomness ==
    /\ \/ /\ Len(spendItems) < Caps["spend"]
          /\ \E it \in SpendItem : spendItems' = Append(spendItems, it)
          /\ UNCHANGED <<outputItems, convertItems>>
       \/ /\ Len(outputItems) < Caps["output"]
          /\ \E it \in OutputItem : outputItems' = Append(outputItems, it)
          /\ UNCHANGED <<spendItems, convertItems>>
       \/ /\ Len(convertItems) < Caps["convert"]
          /\ \E it \in ConvertItem : convertItems' = Append(convertItems, it)
          /\ UNCHANGED <<spendItems, outputItems>>
    /\ UNCHANGED <<sigStore, extracted, lastTx, lastResult, sigMark, callItems>>

(* Mutant: the store's capacity not checked on append.                    *)
SignSpendsNoRoom(t) ==
    LET n == IF Len(t.spends) = 0 THEN 0 ELSE Len(t.bSpends)
    IN \E k \in 0..n :
         /\ (k < n) => Fallible
         /\ \E alphas \in [1..k -> Rands], h \in SighashOutcomes :
              /\ \A j \in 1..k : alphas[j] \in {it.alpha : it \in ItemsAt(spendItems, j, SpendItem)}
              /\ sigStore' = sigStore \o [j \in 1..k |-> SpendSig(alphas[j], h)]
         /\ lastResult' = IF k = n THEN "ok" ELSE "err"

(* Mutant: spend j signed with the alpha of item j + 1.                    *)
SignSpendsShifted(t) ==
    LET n == IF Len(t.spends) = 0 THEN 0 ELSE Len(t.bSpends)
        room == MaxSigs - Len(sigStore)
        full == IF n <= room THEN n ELSE room
    IN \E k \in 0..full :
         /\ (k < n) => (Fallible \/ k = room)
         /\ \E alphas \in [1..k -> Rands], h \in SighashOutcomes :
              /\ \A j \in 1..k : alphas[j] \in {it.alpha : it \in ItemsAt(spendItems, j + 1, SpendItem)}
              /\ sigStore' = sigStore \o [j \in 1..k |-> SpendSig(alphas[j], h)]
         /\ lastResult' = IF k = n THEN "ok" ELSE "err"

(* Mutant: the signature buffer appended although sign_sapling_spend      *)
(* failed, so the failed spend gets the previous spend's signature.        *)
SignSpendsAppendOnFailure(t) ==
    LET n == IF Len(t.spends) = 0 THEN 0 ELSE Len(t.bSpends)
        room == MaxSigs - Len(sigStore)
        full == IF n <= room THEN n ELSE room
    IN \E k \in 0..full :
         /\ (k < n) => (Fallible \/ k = room)
         /\ \E alphas \in [1..k -> Rands], h \in SighashOutcomes :
              /\ \A j \in 1..k : alphas[j] \in {it.alpha : it \in ItemsAt(spendItems, j, SpendItem)}
              /\ sigStore' = sigStore \o [j \in 1..k |-> SpendSig(alphas[j], h)]
                                      \o (IF 0 < k /\ k < n /\ k < room
                                          THEN <<SpendSig(alphas[k], h)>> ELSE <<>>)
         /\ lastResult' = IF k = n THEN "ok" ELSE "err"

(* crypto_sign_spends_sapling (1004-1033): nothing when the bundle has no  *)
(* spends; otherwise sign spend k with the alpha of item k and append the  *)
(* signature, stopping at the first signing or append failure.  The store *)
(* receives the signatures made before the failure.                        *)
SignSpends(t) ==
    LET n == IF Len(t.spends) = 0 THEN 0 ELSE Len(t.bSpends)
        room == MaxSigs - Len(sigStore)
        full == IF n <= room THEN n ELSE room
    IN \E k \in 0..full :
         /\ (k < n) => (Fallible \/ k = room)
         /\ \E alphas \in [1..k -> Rands], h \in SighashOutcomes :
              /\ \A j \in 1..k : alphas[j] \in {it.alpha : it \in ItemsAt(spendItems, j, SpendItem)}
              /\ sigStore' = sigStore \o [j \in 1..k |-> SpendSig(alphas[j], h)]
         /\ lastResult' = IF k = n THEN "ok" ELSE "err"

(* crypto_sign_masp (1216-1243): key derivation, then the checks, then the *)
(* spend signatures; any failure returns an error.                          *)
SignMasp ==
    \E t \in Tx :
       /\ lastTx' = t
       /\ sigMark' = Len(sigStore)
       /\ callItems' = [spend |-> spendItems, output |-> outputItems,
                        convert |-> convertItems]
       /\ \/ /\ Fallible
             /\ lastResult' = "err"
             /\ UNCHANGED sigStore
          \/ /\ FALSE \in CheckMasp(t)
             /\ lastResult' = "err"
             /\ UNCHANGED sigStore
          \/ /\ TRUE \in CheckMasp(t)
             /\ SignSpends(t)
       /\ UNCHANGED <<spendItems, outputItems, convertItems, extracted>>

(* crypto_extract_spend_signature (1035-1044): the next stored signature,  *)
(* or an error when there is none left.                                     *)
ExtractSpendSignature ==
    /\ extracted < Len(sigStore)
    /\ extracted' = extracted + 1
    /\ UNCHANGED <<spendItems, outputItems, convertItems, sigStore,
                   lastTx, lastResult, sigMark, callItems>>

Next ==
    \/ ComputeRandomness
    \/ SignMasp
    \/ ExtractSpendSignature

Spec == Init /\ [][Next]_vars

-----------------------------------------------------------------------------
(***************************************************************************)
(* Properties                                                              *)
(***************************************************************************)

(* The type invariant.                                                      *)
TypeOK ==
    /\ spendItems \in SeqUpTo(SpendItem, Caps["spend"])
    /\ outputItems \in SeqUpTo(OutputItem, Caps["output"])
    /\ convertItems \in SeqUpTo(ConvertItem, Caps["convert"])
    /\ sigStore \in Seq({"spendsig"} \X Rands \X {Sighash, ZeroDigest})
    /\ Len(sigStore) <= MaxSigs
    /\ extracted \in 0..Len(sigStore)
    /\ lastResult \in {"none", "ok", "err"}
    /\ lastResult # "none" => lastTx \in Tx
    /\ sigMark \in 0..Len(sigStore)
    /\ callItems \in [spend : Seq(SpendItem), output : Seq(OutputItem),
                      convert : Seq(ConvertItem)]

(* After crypto_sign_masp succeeds, the bundle has exactly the builder's   *)
(* spends, and each spend whose randomness the device generated carries    *)
(* the commitment to the builder's value under that rcv and the key        *)
(* randomized by that alpha (checkSpends, 1051-1082).                       *)
SpendsBound ==
    lastResult = "ok" =>
        /\ Len(lastTx.spends) = Len(lastTx.bSpends)
        /\ \A k \in 1..Len(lastTx.spends) :
              k <= Len(callItems.spend) =>
                 lastTx.spends[k] = [cv |-> CV(lastTx.bSpends[k], callItems.spend[k].rcv),
                                     rk |-> Rk(callItems.spend[k].alpha)]

(* After crypto_sign_masp succeeds, the store gained one signature per     *)
(* spend, in spend order, each under the alpha of that spend's item        *)
(* (1018-1030).                                                             *)
SpendSignaturesMatch ==
    lastResult = "ok" =>
        /\ Len(sigStore) = sigMark + Len(lastTx.spends)
        /\ \A k \in 1..Len(lastTx.spends) :
              k <= Len(callItems.spend) =>
                 sigStore[sigMark + k]
                    \in {SpendSig(callItems.spend[k].alpha, h) : h \in SighashOutcomes}


(* Whether crypto_sign_masp succeeded or failed, the signatures it left in *)
(* the store are those of its first spends, in spend order, each under the *)
(* alpha of that spend's item: a failure of sign_sapling_spend or of the   *)
(* append (1021-1025) leaves a prefix behind, which                          *)
(* crypto_extract_spend_signature will hand out.                            *)
AppendedSignaturesInSpendOrder ==
    lastResult # "none" =>
        /\ Len(sigStore) - sigMark <= Len(lastTx.spends)
        /\ \A j \in 1..(Len(sigStore) - sigMark) :
              j <= Len(callItems.spend) =>
                 sigStore[sigMark + j]
                    \in {SpendSig(callItems.spend[j].alpha, h) : h \in SighashOutcomes}
(* After crypto_sign_masp succeeds, every spend signature it appended is   *)
(* over the transaction's sighash: a failure of signature_hash (line 1012) *)
(* must abort the call (spec section 7) rather than leave the spends      *)
(* signed over the zeroed sign_hash.                                        *)
SpendsSignSighash ==
    lastResult = "ok" =>
        \A k \in (sigMark + 1)..Len(sigStore) : sigStore[k][3] = Sighash

(* After crypto_sign_masp succeeds, each builder output whose metadata     *)
(* index names a bundle output, and whose randomness the device had        *)
(* generated, is committed at that index under that item's rcv             *)
(* (checkOutputs, 1099-1121).                                               *)
OutputsMatchIndexedSlots ==
    lastResult = "ok" =>
        \A k \in 1..Len(lastTx.outIndices) :
           LET s == lastTx.outIndices[k] + 1 IN
           s <= Len(lastTx.outputs) /\ s <= Len(callItems.output) =>
              lastTx.outputs[s] = CV(lastTx.bOutputs[k], callItems.output[s].rcv)

(* After crypto_sign_masp succeeds, convert k of the bundle is the         *)
(* commitment to builder convert k under the rcv of convert item k.        *)
ConvertsVerified ==
    lastResult = "ok" =>
        /\ Len(lastTx.converts) = Len(lastTx.bConverts)
        /\ \A k \in 1..Len(lastTx.converts) :
              k <= Len(callItems.convert) =>
                 lastTx.converts[k] = CV(lastTx.bConverts[k], callItems.convert[k].rcv)


(* After crypto_sign_masp succeeds, the first two bundle converts are the *)
(* commitments to the first two builder converts under the rcv of their    *)
(* items: checkConverts (1137-1158) reads convert k at the offset          *)
(* tx_converts_ctx has reached, which for the first two iterations must    *)
(* still be k - 1 records.                                                  *)
FirstTwoConverts ==
    lastResult = "ok" =>
        \A k \in 1..2 :
           k <= Len(lastTx.converts) /\ k <= Len(callItems.convert) =>
              lastTx.converts[k] = CV(lastTx.bConverts[k], callItems.convert[k].rcv)

=============================================================================

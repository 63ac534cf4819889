------------------------------ MODULE MC_TxSign ------------------------------
(* Small instances of TxSign for TLC.                                       *)
EXTENDS TxSign

(* Section indices: code 1, data 2, memo 3, the VP or proposal content 4,  *)
(* the proposal code 5, as the parser numbers a small transaction.          *)
MC_SecIdx == [code |-> 1, data |-> 2, memo |-> 3, vp |-> 4, content |-> 4, propCode |-> 5]

(* Signature sections follow the other sections: the n-th is section 5+n. *)
MC_SigSecIdx == [n \in 1..MaxPriorSigs |-> 5 + n]

(* A prior signature may sign the raw header, known sections, an unknown   *)
(* section, both, or nothing.                                               *)
MC_HashLists == {<<>>, <<Leaf("rawHeader")>>, <<Leaf("code"), Leaf("data")>>,
                 <<Leaf("rawHeader"), Leaf("foreign")>>, <<Leaf("foreign")>>}

(* Only prior sections whose hashes are all known, for the capacity run.   *)
MC_KnownHashLists == {<<Leaf("rawHeader")>>}
=============================================================================

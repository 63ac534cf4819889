----------------------------- MODULE MC_MaspSign -----------------------------
(* Small instances of MaspSign for TLC.                                     *)
EXTENDS MaspSign

(* Randomness for spends only.                                              *)
MC_SpendCaps == [spend |-> 2, output |-> 0, convert |-> 0]

(* Randomness for outputs and converts.                                    *)
MC_CheckCaps == [spend |-> 0, output |-> 1, convert |-> 2]

(* Randomness for outputs only.                                             *)
MC_OutputCaps == [spend |-> 0, output |-> 2, convert |-> 0]

(* Randomness for converts only.                                            *)
MC_ConvertCaps == [spend |-> 0, output |-> 0, convert |-> 3]

=============================================================================

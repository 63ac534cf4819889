--------------------------- MODULE SignatureChain ---------------------------
(***************************************************************************)
(* What a call of crypto_sign promises its caller, whichever version of    *)
(* the code runs it (src/app/src/crypto.c has two: lines 232-310 and       *)
(* 622-787).  The call either fails, or completes in one step with two     *)
(* ed25519 signatures in the response buffer:                               *)
(*   - the raw signature, over an unsigned signature section whose hash    *)
(*     list rawList is not empty;                                          *)
(*   - the wrapper signature, over an unsigned signature section whose     *)
(*     hash list wrapList holds the hash of the signed raw section, the    *)
(*     one carrying that very raw signature.                               *)
(* So whoever checks the wrapper signature has checked, through the signed *)
(* raw section, every hash the raw signature covers.                       *)
(*                                                                         *)
(* The digest formats differ between the versions of the code, so the      *)
(* constructors are parameters: Sig(m) is the device's signature over m,   *)
(* UnsignedSec(hs) the digest of an unsigned section over the hash list    *)
(* hs, SignedSec(hs, s) the digest of that section carrying signature s.   *)
(* NoSig is the zeroed signature region.                                   *)
(***************************************************************************)
EXTENDS Naturals, Sequences

CONSTANTS NoSig, Sig(_), UnsignedSec(_), SignedSec(_, _)

VARIABLES
    status,    \* "busy" while the call runs, then "done" or "failed"
    raw,       \* the raw signature returned on success
    wrapper,   \* the wrapper signature returned on success
    rawList,   \* the hashes the raw signature covers
    wrapList   \* the hashes the wrapper signature covers

avars == <<status, raw, wrapper, rawList, wrapList>>

Init ==
    /\ status = "busy"
    /\ raw = NoSig
    /\ wrapper = NoSig
    /\ rawList = <<>>
    /\ wrapList = <<>>

(* The call returns both signatures, the wrapper vouching for the raw one. *)
Complete ==
    /\ status = "busy"
    /\ status' = "done"
    /\ rawList' # <<>>
    /\ raw' = Sig(UnsignedSec(rawList'))
    /\ wrapper' = Sig(UnsignedSec(wrapList'))
    /\ \E p \in 1..Len(wrapList') : wrapList'[p] = SignedSec(rawList', raw')

(* The call returns an error, and no signature.                            *)
Fail ==
    /\ status = "busy"
    /\ status' = "failed"
    /\ UNCHANGED <<raw, wrapper, rawList, wrapList>>

Next == Complete \/ Fail

SafeSpec == Init /\ [][Next]_avars

(* The call returns: it is not left busy.                                  *)
Spec == SafeSpec /\ WF_avars(Next)

(* What the fairness of Spec yields, stated without ENABLED so that an     *)
(* implementation under a refinement mapping can be checked against it.    *)
Returns == <>(status \in {"done", "failed"})

=============================================================================

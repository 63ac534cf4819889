----------------------------- MODULE KeyHygiene -----------------------------
(***************************************************************************)
(* Secret key material on the stack of src/app/src/crypto.c.  The device   *)
(* runs one command at a time: crypto_sign, crypto_fillAddress_ed25519,     *)
(* crypto_fillMASP and crypto_sign_masp, and the functions they call.  A   *)
(* call pushes a frame, a return pops it and hands its error status to the *)
(* caller, whose CHECK_ZXERR returns at once on an error.                   *)
(*                                                                         *)
(* A buffer is named <<function, local>>: a local of that function's frame *)
(* (a caller's buffer that a callee fills keeps the caller's name).        *)
(* live is the set of buffers holding secret bytes: a derivation or a copy *)
(* adds one, a MEMZERO removes it.  A call that fails may have written its *)
(* output before failing: both outcomes are allowed.  The hashing between  *)
(* the signing calls of crypto_sign touches no secret and is left out,     *)
(* but a failure there still returns early.                                *)
(***************************************************************************)
EXTENDS Naturals, Sequences

CONSTANTS
    MaxSpends,   \* bound on the spends crypto_sign_spends_sapling signs
    Fallible     \* whether derivations, signing and stores may fail

ASSUME KeyHygieneAssumption == MaxSpends \in Nat /\ Fallible \in BOOLEAN

Commands == {"crypto_sign", "crypto_fillAddress_ed25519", "crypto_fillMASP",
             "crypto_sign_masp"}

Ed25519Fns == {"crypto_extractPublicKey_ed25519", "crypto_sign_ed25519"}

Functions == Commands \cup Ed25519Fns \cup
             {"crypto_generateSaplingKeys", "crypto_computeSaplingSeed",
              "sign_sapling_spend"}

(* The labels a frame resumes at, and the locals that can hold a secret.   *)
Labels == {"start", "derive", "initKey", "operate", "catch", "raw", "wrapper",
           "end", "encode", "seed", "master", "keys", "check", "spends",
           "append", "nonce", "sbar"}
Locals == {"privateKeyData", "cx_privateKey", "sk", "sapling_seed",
           "saplingKeys", "keys", "rsk", "rng", "r"}

(* The label a function starts at.                                          *)
Entry(f) ==
    CASE f \in Ed25519Fns -> "derive"
      [] f = "crypto_computeSaplingSeed" -> "derive"
      [] f = "sign_sapling_spend" -> "nonce"
      [] f \in {"crypto_generateSaplingKeys", "crypto_sign_masp"} -> "seed"
      [] OTHER -> "start"

VARIABLES
    stack,    \* the call stack: frames [fn, pc, err], the top frame last
    live,     \* buffers <<function, local>> holding secret bytes
    spends    \* spends left to sign in crypto_sign_spends_sapling

vars == <<stack, live, spends>>

Frame == [fn : Functions, pc : Labels, err : BOOLEAN]

Top == stack[Len(stack)]

(* Functions with a frame on the stack.                                     *)
Active == {stack[k].fn : k \in DOMAIN stack}

(* Outcomes of a step that may fail: FALSE (ok) or, if Fallible, TRUE.     *)
Outcomes == IF Fallible THEN BOOLEAN ELSE {FALSE}

(* Continue the top frame at label l with error status e.                  *)
Goto(l, e) == stack' = [stack EXCEPT ![Len(stack)].pc = l, ![Len(stack)].err = e]

(* Mutant: the callee's frame starts without an error status.             *)
CallNoStatus(f, l) ==
    stack' = Append([stack EXCEPT ![Len(stack)].pc = l], [fn |-> f, pc |-> Entry(f)])

(* Call f; the caller resumes at label l.                                   *)
Call(f, l) ==
    stack' = Append([stack EXCEPT ![Len(stack)].pc = l],
                    [fn |-> f, pc |-> Entry(f), err |-> FALSE])

(* Return with status e: the caller receives it in its err field.          *)
Return(e) ==
    LET rest == SubSeq(stack, 1, Len(stack) - 1) IN
    stack' = IF rest = <<>> THEN rest ELSE [rest EXCEPT ![Len(rest)].err = e]

(* What a call that fails after writing buf may leave: buf or nothing.      *)
MaybeWritten(buf) == {live, live \cup {buf}}

(* The buffers crypto_computeSaplingSeed fills and computeMasterFromSeed   *)
(* derives into, named after the caller that owns them.                    *)
SeedBuf(caller) ==
    IF caller = "crypto_generateSaplingKeys" THEN <<caller, "sk">> ELSE <<caller, "sapling_seed">>
KeysBuf(caller) ==
    IF caller = "crypto_generateSaplingKeys" THEN <<caller, "saplingKeys">> ELSE <<caller, "keys">>

Caller == stack[Len(stack) - 1].fn

-----------------------------------------------------------------------------

Init ==
    /\ stack = <<>>
    /\ live = {}
    /\ spends = 0

(* The host sends the next command once the previous one has returned.     *)
StartCommand ==
    /\ stack = <<>>
    /\ \E c \in Commands : stack' = <<[fn |-> c, pc |-> Entry(c), err |-> FALSE]>>
    /\ UNCHANGED <<live, spends>>

(* crypto_extractPublicKey_ed25519 (370-409), crypto_sign_ed25519          *)
(* (411-448): os_derive_bip32_with_seed_no_throw into privateKeyData; a    *)
(* failure jumps to catch_cx_error.                                         *)
EdDerive ==
    /\ stack # <<>> /\ Top.fn \in Ed25519Fns /\ Top.pc = "derive"
    /\ LET buf == <<Top.fn, "privateKeyData">> IN
       \/ live' = live \cup {buf} /\ Goto("initKey", FALSE)
       \/ Fallible /\ live' \in MaybeWritten(buf) /\ Goto("catch", TRUE)
    /\ UNCHANGED spends

(* cx_ecfp_init_private_key_no_throw into cx_privateKey.                    *)
EdInitKey ==
    /\ stack # <<>> /\ Top.fn \in Ed25519Fns /\ Top.pc = "initKey"
    /\ LET buf == <<Top.fn, "cx_privateKey">> IN
       \/ live' = live \cup {buf} /\ Goto("operate", FALSE)
       \/ Fallible /\ live' \in MaybeWritten(buf) /\ Goto("catch", TRUE)
    /\ UNCHANGED spends

(* cx_ecfp_generate_pair_no_throw and the key copy, or                     *)
(* cx_eddsa_sign_no_throw: success or failure, on to catch_cx_error.        *)
EdOperate ==
    /\ stack # <<>> /\ Top.fn \in Ed25519Fns /\ Top.pc = "operate"
    /\ \E e \in Outcomes : Goto("catch", e)
    /\ UNCHANGED <<live, spends>>

(* Mutant: catch_cx_error zeroes cx_privateKey but not privateKeyData.    *)
EdCatchKeyOnly ==
    /\ stack # <<>> /\ Top.fn \in Ed25519Fns /\ Top.pc = "catch"
    /\ live' = live \ {<<Top.fn, "cx_privateKey">>}
    /\ Return(Top.err)
    /\ UNCHANGED spends

(* catch_cx_error: MEMZERO cx_privateKey and privateKeyData, return.        *)
EdCatch ==
    /\ stack # <<>> /\ Top.fn \in Ed25519Fns /\ Top.pc = "catch"
    /\ live' = live \ {<<Top.fn, "cx_privateKey">>, <<Top.fn, "privateKeyData">>}
    /\ Return(Top.err)
    /\ UNCHANGED spends

(* crypto_sign (622-787): the public key (629), the raw signature (676),   *)
(* the wrapper signature (767); any hashing step between may fail.         *)
CryptoSign ==
    /\ stack # <<>> /\ Top.fn = "crypto_sign"
    /\ \/ Top.pc = "start" /\ Call("crypto_extractPublicKey_ed25519", "raw")
       \/ Top.pc \in {"raw", "wrapper", "end"} /\ Top.err /\ Return(TRUE)
       \/ Top.pc \in {"raw", "wrapper"} /\ ~Top.err /\ Fallible /\ Return(TRUE)
       \/ Top.pc = "raw" /\ ~Top.err /\ Call("crypto_sign_ed25519", "wrapper")
       \/ Top.pc = "wrapper" /\ ~Top.err /\ Call("crypto_sign_ed25519", "end")
       \/ Top.pc = "end" /\ ~Top.err /\ Return(FALSE)
    /\ UNCHANGED <<live, spends>>

(* crypto_fillAddress_ed25519 (450-476): the public key, then the two      *)
(* encodings, which may fail.                                               *)
FillAddress ==
    /\ stack # <<>> /\ Top.fn = "crypto_fillAddress_ed25519"
    /\ \/ Top.pc = "start" /\ Call("crypto_extractPublicKey_ed25519", "encode")
       \/ Top.pc = "encode" /\ \E e \in Outcomes : Return(Top.err \/ e)
    /\ UNCHANGED <<live, spends>>

(* crypto_computeSaplingSeed (854-877): derive into privateKeyData and     *)
(* copy the first 32 bytes to the caller's seed buffer; catch_cx_error     *)
(* zeroes privateKeyData, and the seed buffer too on an error.             *)
ComputeSaplingSeed ==
    /\ stack # <<>> /\ Top.fn = "crypto_computeSaplingSeed"
    /\ LET pkd == <<Top.fn, "privateKeyData">>
           seed == SeedBuf(Caller)
       IN \/ /\ Top.pc = "derive"
             /\ \/ live' = live \cup {pkd, seed} /\ Goto("catch", FALSE)
                \/ Fallible /\ live' \in MaybeWritten(pkd) /\ Goto("catch", TRUE)
          \/ /\ Top.pc = "catch"
             /\ live' = live \ ({pkd} \cup IF Top.err THEN {seed} ELSE {})
             /\ Return(Top.err)
    /\ UNCHANGED spends

(* Mutant: a failing computeMasterFromSeed path that zeroes the keys it    *)
(* may have written instead of the seed.                                    *)
MasterOrFailKeepSeed(next) ==
    LET keys == KeysBuf(Top.fn)
    IN \/ live' = live \cup {keys} /\ Goto(next, FALSE)
       \/ Fallible /\ live' = live \ {keys} /\ Return(TRUE)

(* computeMasterFromSeed (893, 1225), whose source is not in the           *)
(* repository: it derives the spending key into keys; when it fails it may *)
(* have written part of it.  The caller then zeroes the seed only.          *)
MasterOrFail(next) ==
    LET seed == SeedBuf(Top.fn)
        keys == KeysBuf(Top.fn)
    IN \/ live' = live \cup {keys} /\ Goto(next, FALSE)
       \/ /\ Fallible
          /\ live' \in {(live \ {seed}) \cup k : k \in {{}, {keys}}}
          /\ Return(TRUE)

(* crypto_fillMASP (910-935): crypto_generateSaplingKeys, then the reply   *)
(* length.                                                                  *)
FillMASP ==
    /\ stack # <<>> /\ Top.fn = "crypto_fillMASP"
    /\ \/ Top.pc = "start" /\ Call("crypto_generateSaplingKeys", "end")
       \/ Top.pc = "end" /\ Return(Top.err)
    /\ UNCHANGED <<live, spends>>

(* crypto_generateSaplingKeys (879-908): the seed into sk (an error        *)
(* returns, sk zeroed by the callee), the master key into saplingKeys,     *)
(* then computeKeys and copyKeys, after which sk and saplingKeys are       *)
(* zeroed whatever the result.                                              *)
GenerateSaplingKeys ==
    /\ stack # <<>> /\ Top.fn = "crypto_generateSaplingKeys"
    /\ \/ Top.pc = "seed" /\ Call("crypto_computeSaplingSeed", "master") /\ UNCHANGED live
       \/ Top.pc = "master" /\ Top.err /\ Return(TRUE) /\ UNCHANGED live
       \/ Top.pc = "master" /\ ~Top.err /\ MasterOrFail("keys")
       \/ /\ Top.pc = "keys"
          /\ live' = live \ {SeedBuf(Top.fn), KeysBuf(Top.fn)}
          /\ \E e \in Outcomes : Return(e)
    /\ UNCHANGED spends

(* crypto_sign_masp (1216-1243) with crypto_sign_spends_sapling            *)
(* (1004-1033) inlined: seed, master key, computeKeys and crypto_check_masp *)
(* (a failure zeroes seed and keys), one sign_sapling_spend and one        *)
(* spend_signatures_append per spend (a failure zeroes seed and keys), and *)
(* the message hash, after which seed and keys are zeroed.                 *)
SignMasp ==
    /\ stack # <<>> /\ Top.fn = "crypto_sign_masp"
    /\ LET clean == live \ {SeedBuf(Top.fn), KeysBuf(Top.fn)} IN
       \/ /\ Top.pc = "seed"
          /\ Call("crypto_computeSaplingSeed", "master") /\ UNCHANGED <<live, spends>>
       \/ Top.pc = "master" /\ Top.err /\ Return(TRUE) /\ UNCHANGED <<live, spends>>
       \/ Top.pc = "master" /\ ~Top.err /\ MasterOrFail("check") /\ UNCHANGED spends
       \/ /\ Top.pc = "check"
          /\ \/ spends' \in 0..MaxSpends /\ Goto("spends", FALSE) /\ UNCHANGED live
             \/ Fallible /\ live' = clean /\ Return(TRUE) /\ UNCHANGED spends
       \/ /\ Top.pc = "spends" /\ spends > 0
          /\ Call("sign_sapling_spend", "append") /\ UNCHANGED <<live, spends>>
       \/ /\ Top.pc = "append"
          /\ \/ ~Top.err /\ spends' = spends - 1 /\ Goto("spends", FALSE) /\ UNCHANGED live
             \/ (Top.err \/ Fallible) /\ live' = clean /\ Return(TRUE) /\ UNCHANGED spends
       \/ /\ Top.pc = "spends" /\ spends = 0
          /\ live' = clean /\ Return(FALSE) /\ UNCHANGED spends

(* sign_sapling_spend (963-1002): rsk from ask and alpha, the RNG bytes,   *)
(* the nonce r = h_star(rng, ...) and rbar = r.G, which may fail; then s   *)
(* and sbar = s + r.rsk, which may fail.  Nothing is zeroed on any path.    *)
SignSaplingSpend ==
    /\ stack # <<>> /\ Top.fn = "sign_sapling_spend"
    /\ \/ /\ Top.pc = "nonce"
          /\ live' = live \cup {<<Top.fn, b>> : b \in {"rsk", "rng", "r"}}
          /\ \/ Goto("sbar", FALSE)
             \/ Fallible /\ Return(TRUE)
       \/ /\ Top.pc = "sbar"
          /\ \E e \in Outcomes : Return(e)
          /\ UNCHANGED live
    /\ UNCHANGED spends

Next ==
    \/ StartCommand
    \/ EdDerive \/ EdInitKey \/ EdOperate \/ EdCatch
    \/ CryptoSign \/ FillAddress
    \/ ComputeSaplingSeed \/ FillMASP \/ GenerateSaplingKeys
    \/ SignMasp \/ SignSaplingSpend

Spec == Init /\ [][Next]_vars

-----------------------------------------------------------------------------

(* The type invariant.                                                      *)
TypeOK ==
    /\ stack \in Seq(Frame)
    /\ live \subseteq Functions \X Locals
    /\ spends \in 0..MaxSpends

(* The buffers named in names hold no secret once the function owning     *)
(* them has returned (spec section 3: secrets are zeroed on every exit     *)
(* path, success or failure).                                              *)
ZeroedOnReturn(names) == \A b \in live : b[2] \in names => b[1] \in Active

(* The ed25519 private key and its derivation buffer never outlive         *)
(* crypto_extractPublicKey_ed25519 or crypto_sign_ed25519, whichever step  *)
(* fails (catch_cx_error at 401-403, 439-441).                              *)
Ed25519KeyZeroed == ZeroedOnReturn({"privateKeyData", "cx_privateKey"})

(* The sapling seed never outlives the function that asked for it, on any  *)
(* of the early returns of crypto_generateSaplingKeys and crypto_sign_masp *)
(* (866-874, 889-906, 1222-1242).                                           *)
SaplingSeedZeroed == ZeroedOnReturn({"sk", "sapling_seed"})

(* No secret that authorizes a spend outlives its function: neither the    *)
(* spending key chain of crypto_generateSaplingKeys and crypto_sign_masp,  *)
(* including the computeMasterFromSeed failure path (893-895, 1225-1227),  *)
(* nor the randomized secret rsk and the nonce r of sign_sapling_spend     *)
(* (963-1001), either of which, with the public alpha or the signature,    *)
(* gives away the spend authorizing key.                                    *)
SpendAuthorityZeroed ==
    ZeroedOnReturn({"saplingKeys", "keys", "rsk", "rng", "r"})

=============================================================================

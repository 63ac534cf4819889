-------------------------- MODULE KeyHygiene_proofs --------------------------
(***************************************************************************)
(* Proofs about KeyHygiene for every value of the constants: the ed25519   *)
(* keys and the sapling seed never outlive the function that owns them.    *)
(*                                                                         *)
(* Neither property is inductive: each says only that an owner is on the  *)
(* stack.  The inductive invariant KInv adds where in its owner's run a    *)
(* live buffer can be:                                                      *)
(*   - an ed25519 key buffer belongs to the top frame, at a label from     *)
(*     which catch_cx_error is still ahead (EdKeysOfTop);                  *)
(*   - a seed belongs to crypto_generateSaplingKeys or crypto_sign_masp,   *)
(*     and is gone once its owner is back at "master" with an error, for   *)
(*     crypto_computeSaplingSeed zeroes it before failing (SeedsOfActive); *)
(*   - the stack has the shape the calls give it: a command at the bottom  *)
(*     only (CommandsAtBottom), crypto_computeSaplingSeed called only by   *)
(*     those two, from "master" (SeedCallers), and a spend pending while   *)
(*     crypto_sign_masp waits at "append" (SpendsLeft), which keeps the    *)
(*     counter in its range.                                               *)
(***************************************************************************)
EXTENDS KeyHygiene, SequenceTheorems, TLAPS

EdNames == {"privateKeyData", "cx_privateKey"}
SeedNames == {"sk", "sapling_seed"}
SeedOwners == {"crypto_generateSaplingKeys", "crypto_sign_masp"}

(* A command runs only at the bottom of the stack.                           *)
CommandsAtBottom == \A k \in DOMAIN stack : stack[k].fn \in Commands => k = 1

(* crypto_computeSaplingSeed is called by a seed owner waiting at "master", *)
(* and a frame waiting at "master" waits for nothing else.                 *)
SeedCallers ==
    \A k \in DOMAIN stack :
       /\ stack[k].fn = "crypto_computeSaplingSeed" => k > 1 /\ stack[k - 1].fn \in SeedOwners
       /\ k > 1 /\ stack[k - 1].pc = "master" => stack[k].fn = "crypto_computeSaplingSeed"

SpendsLeft ==
    \A k \in DOMAIN stack :
       stack[k].fn = "crypto_sign_masp" /\ stack[k].pc = "append" => spends >= 1

EdKeysOfTop ==
    \A b \in live :
       b[2] \in EdNames =>
          /\ stack # <<>>
          /\ b[1] = Top.fn
          /\ \/ b[1] \in Ed25519Fns /\ Top.pc \in {"initKey", "operate", "catch"}
             \/ b = <<"crypto_computeSaplingSeed", "privateKeyData">> /\ Top.pc = "catch"

SeedsOfActive ==
    \A b \in live :
       b[2] \in SeedNames =>
          /\ b \in {SeedBuf(g) : g \in SeedOwners}
          /\ b[1] \in Active
          /\ ~(stack # <<>> /\ Top.fn = b[1] /\ Top.pc = "master" /\ Top.err)

KInv == TypeOK /\ CommandsAtBottom /\ SeedCallers /\ SpendsLeft /\ EdKeysOfTop /\ SeedsOfActive


-----------------------------------------------------------------------------
(* What Goto, Call and Return do to a non-empty stack of frames.          *)

(* A frame updated with EXCEPT is the frame record with the new fields.   *)
LEMMA FrameExcept ==
  ASSUME NEW t \in Frame, NEW l, NEW e
  PROVE  /\ [t EXCEPT !.pc = l] = [fn |-> t.fn, pc |-> l, err |-> t.err]
         /\ [t EXCEPT !.err = e] = [fn |-> t.fn, pc |-> t.pc, err |-> e]
         /\ [[t EXCEPT !.pc = l] EXCEPT !.err = e] = [fn |-> t.fn, pc |-> l, err |-> e]
<1>. DEFINE a == t.fn  b == t.pc  c == t.err
<1>1. t = [fn |-> a, pc |-> b, err |-> c]
  BY DEF Frame
<1>2. /\ [[fn |-> a, pc |-> b, err |-> c] EXCEPT !.pc = l] = [fn |-> a, pc |-> l, err |-> c]
      /\ [[fn |-> a, pc |-> b, err |-> c] EXCEPT !.err = e] = [fn |-> a, pc |-> b, err |-> e]
      /\ [[fn |-> a, pc |-> l, err |-> c] EXCEPT !.err = e] = [fn |-> a, pc |-> l, err |-> e]
  OBVIOUS
<1>3. [t EXCEPT !.pc = l] = [fn |-> a, pc |-> l, err |-> c]
  BY <1>1, <1>2
<1>4. [t EXCEPT !.err = e] = [fn |-> a, pc |-> b, err |-> e]
  BY <1>1, <1>2
<1>5. [[t EXCEPT !.pc = l] EXCEPT !.err = e] = [fn |-> a, pc |-> l, err |-> e]
  BY <1>2, <1>3
<1>. QED  BY <1>3, <1>4, <1>5

(* A positive number is 1 or more than 1.                                  *)
LEMMA PositiveCases ==
  ASSUME NEW m \in Nat \ {0}
  PROVE  m = 1 \/ m > 1
OBVIOUS

(* The first n elements of a sequence.                                    *)
LEMMA SubSeqPrefix ==
  ASSUME NEW S, NEW s \in Seq(S), NEW n \in 0..Len(s)
  PROVE  /\ SubSeq(s, 1, n) \in Seq(S) /\ Len(SubSeq(s, 1, n)) = n
         /\ \A i \in 1..n : SubSeq(s, 1, n)[i] = s[i]
<1>1. \A i \in 1..n : s[i] \in S
  BY ElementOfSeq
<1>2. 1 \in Int /\ n \in Int
  OBVIOUS
<1>. QED  BY <1>1, <1>2, SubSeqProperties

(* Append on a stack of frames.                                           *)
LEMMA AppendFrame ==
  ASSUME NEW s \in Seq(Frame), NEW x \in Frame
  PROVE  /\ Append(s, x) \in Seq(Frame) /\ Len(Append(s, x)) = Len(s) + 1
         /\ \A i \in 1..Len(s) : Append(s, x)[i] = s[i]
         /\ Append(s, x)[Len(s) + 1] = x
BY AppendProperties

(* Replacing one frame of a stack of frames.                              *)
LEMMA ExceptFrame ==
  ASSUME NEW s \in Seq(Frame), NEW i \in 1..Len(s), NEW x \in Frame
  PROVE  /\ [s EXCEPT ![i] = x] \in Seq(Frame) /\ Len([s EXCEPT ![i] = x]) = Len(s)
         /\ \A j \in 1..Len(s) : [s EXCEPT ![i] = x][j] = IF j = i THEN x ELSE s[j]
BY ExceptSeq

LEMMA StackGoto ==
  ASSUME stack \in Seq(Frame), stack # <<>>, NEW l \in Labels, NEW e \in BOOLEAN,
         Goto(l, e)
  PROVE  /\ stack' \in Seq(Frame)
         /\ Len(stack') = Len(stack)
         /\ \A k \in 1..Len(stack) - 1 : stack'[k] = stack[k]
         /\ stack'[Len(stack)] = [fn |-> Top.fn, pc |-> l, err |-> e]
<1>. DEFINE n == Len(stack)
            top == [fn |-> Top.fn, pc |-> l, err |-> e]
            pcOnly == [fn |-> Top.fn, pc |-> l, err |-> Top.err]
            s1 == [stack EXCEPT ![n] = pcOnly]
<1>1. n \in 1..n /\ Top \in Frame
  BY EmptySeq, ElementOfSeq DEF Top
<1>2. pcOnly \in Frame /\ top \in Frame
  BY <1>1 DEF Frame
<1>3. [Top EXCEPT !.pc = l] = pcOnly /\ [pcOnly EXCEPT !.err = e] = top
  BY <1>1, <1>2, FrameExcept
<1>4. /\ s1 \in Seq(Frame) /\ Len(s1) = n
      /\ \A k \in 1..n : s1[k] = IF k = n THEN pcOnly ELSE stack[k]
  BY <1>1, <1>2, ExceptSeq
<1>5. stack' = [s1 EXCEPT ![n] = [s1[n] EXCEPT !.err = e]]
  BY <1>3 DEF Goto, Top
<1>6. stack' = [s1 EXCEPT ![n] = top]
  BY <1>1, <1>3, <1>4, <1>5
<1>. QED  BY <1>1, <1>2, <1>4, <1>6, ExceptSeq

LEMMA StackCall ==
  ASSUME stack \in Seq(Frame), stack # <<>>, NEW f \in Functions, NEW l \in Labels,
         Call(f, l)
  PROVE  /\ stack' \in Seq(Frame)
         /\ Len(stack') = Len(stack) + 1
         /\ \A k \in 1..Len(stack) - 1 : stack'[k] = stack[k]
         /\ stack'[Len(stack)] = [fn |-> Top.fn, pc |-> l, err |-> Top.err]
         /\ stack'[Len(stack) + 1] = [fn |-> f, pc |-> Entry(f), err |-> FALSE]
<1>. DEFINE n == Len(stack)
            top == [fn |-> Top.fn, pc |-> l, err |-> Top.err]
            callee == [fn |-> f, pc |-> Entry(f), err |-> FALSE]
<1>1. n \in 1..n /\ Top \in Frame
  BY EmptySeq, ElementOfSeq DEF Top
<1>2. top \in Frame /\ callee \in Frame
  <2>1. Entry(f) \in Labels
    BY DEF Entry, Labels
  <2>. QED  BY <1>1, <2>1 DEF Frame
<1>3. stack' = Append([stack EXCEPT ![n] = top], callee)
  <2>1. [Top EXCEPT !.pc = l] = top
    BY <1>1, FrameExcept
  <2>. QED  BY <2>1 DEF Call, Top
<1>. HIDE DEF top, callee
<1>. DEFINE s1 == [stack EXCEPT ![n] = top]
<1>4. /\ s1 \in Seq(Frame) /\ Len(s1) = n
      /\ \A k \in 1..n : s1[k] = IF k = n THEN top ELSE stack[k]
  BY <1>1, <1>2, ExceptFrame
<1>. HIDE DEF s1
<1>5. /\ Append(s1, callee) \in Seq(Frame) /\ Len(Append(s1, callee)) = n + 1
      /\ \A k \in 1..n : Append(s1, callee)[k] = s1[k]
      /\ Append(s1, callee)[n + 1] = callee
  BY <1>2, <1>4, AppendFrame
<1>6. /\ stack' \in Seq(Frame) /\ Len(stack') = n + 1
      /\ \A k \in 1..n - 1 : stack'[k] = stack[k]
      /\ stack'[n] = top /\ stack'[n + 1] = callee
  BY <1>1, <1>3, <1>4, <1>5
<1>. QED  BY <1>6, Zenon DEF top, callee

LEMMA StackReturn ==
  ASSUME stack \in Seq(Frame), stack # <<>>, NEW e \in BOOLEAN, Return(e)
  PROVE  /\ stack' \in Seq(Frame)
         /\ Len(stack') = Len(stack) - 1
         /\ \A k \in 1..Len(stack) - 2 : stack'[k] = stack[k]
         /\ Len(stack) > 1 =>
               stack'[Len(stack) - 1] = [fn |-> stack[Len(stack) - 1].fn,
                                         pc |-> stack[Len(stack) - 1].pc, err |-> e]
<1>. DEFINE n == Len(stack)
            rest == SubSeq(stack, 1, n - 1)
<1>1. n \in Nat \ {0} /\ \A k \in 1..n : stack[k] \in Frame
  BY EmptySeq, ElementOfSeq
<1>6. Len(<<>>) = 0
  BY EmptySeq, Zenon
<1>2. /\ rest \in Seq(Frame) /\ Len(rest) = n - 1
      /\ \A k \in 1..n - 1 : rest[k] = stack[k]
  <2>1. n - 1 \in 0..Len(stack)
    BY <1>1
  <2>. QED  BY <2>1, SubSeqPrefix, Zenon
<1>3. stack' = IF rest = <<>> THEN rest ELSE [rest EXCEPT ![Len(rest)].err = e]
  BY DEF Return
<1>4. CASE n = 1
  BY <1>2, <1>3, <1>4, <1>6
<1>5. CASE n > 1
  <2>. DEFINE low == [fn |-> stack[n - 1].fn, pc |-> stack[n - 1].pc, err |-> e]
  <2>1. rest # <<>> /\ n - 1 \in 1..Len(rest)
    <3>1. Len(rest) # 0 /\ n - 1 \in 1..Len(rest)
      BY <1>1, <1>2, <1>5
    <3>. QED  BY <3>1, <1>6, Zenon
  <2>2. low \in Frame
    BY <1>1, <1>5 DEF Frame
  <2>3. [rest[n - 1] EXCEPT !.err = e] = low
    <3>1. rest[n - 1] = stack[n - 1] /\ stack[n - 1] \in Frame
      BY <1>1, <1>2, <1>5
    <3>. QED  BY <3>1, FrameExcept
  <2>4. stack' = [rest EXCEPT ![n - 1] = low]
    BY <1>2, <1>3, <2>1, <2>3
  <2>. HIDE DEF rest, low
  <2>5. /\ [rest EXCEPT ![n - 1] = low] \in Seq(Frame)
        /\ Len([rest EXCEPT ![n - 1] = low]) = n - 1
        /\ \A j \in 1..n - 1 : [rest EXCEPT ![n - 1] = low][j] = IF j = n - 1 THEN low ELSE rest[j]
    BY <1>2, <2>1, <2>2, ExceptFrame
  <2>. QED  BY <1>1, <1>2, <2>4, <2>5 DEF low
<1>7. n = 1 \/ n > 1
  BY <1>1, PositiveCases
<1>. QED  BY <1>4, <1>5, <1>7, Zenon


-----------------------------------------------------------------------------
(* The invariant across a call: the callee starts at its entry label, the *)
(* caller's frame and the frames below keep their functions, and no buffer *)
(* changes.  The hypotheses are what each calling site guarantees.          *)
LEMMA CallKInv ==
  ASSUME KInv, stack # <<>>, NEW f \in Functions \ Commands, NEW l \in Labels,
         Call(f, l), UNCHANGED <<live, spends>>,
         Top.fn \notin Ed25519Fns \cup {"crypto_computeSaplingSeed"},
         f = "crypto_computeSaplingSeed" => Top.fn \in SeedOwners,
         l = "master" => f = "crypto_computeSaplingSeed",
         Top.fn = "crypto_sign_masp" /\ l = "append" => spends >= 1
  PROVE  KInv'
<1>. DEFINE n == Len(stack)
<1>1. /\ stack' \in Seq(Frame) /\ n \in Nat \ {0}
      /\ DOMAIN stack' = 1..n + 1 /\ DOMAIN stack = 1..n
      /\ \A k \in 1..n : stack'[k].fn = stack[k].fn
      /\ \A k \in 1..n - 1 : stack'[k].pc = stack[k].pc
      /\ stack'[n].pc = l
      /\ stack'[n + 1].fn = f /\ stack'[n + 1].pc = Entry(f)
      /\ Top = stack[n] /\ Top' = stack'[n + 1]
  <2>1. stack \in Seq(Frame)
    BY DEF KInv, TypeOK
  <2>2. n \in Nat \ {0} /\ DOMAIN stack = 1..n
    BY <2>1, EmptySeq, LenProperties
  <2>3. /\ stack' \in Seq(Frame) /\ Len(stack') = n + 1
        /\ \A k \in 1..n - 1 : stack'[k] = stack[k]
        /\ stack'[n] = [fn |-> Top.fn, pc |-> l, err |-> Top.err]
        /\ stack'[n + 1] = [fn |-> f, pc |-> Entry(f), err |-> FALSE]
    BY <2>1, StackCall
  <2>4. DOMAIN stack' = 1..n + 1
    BY <2>3, LenProperties
  <2>. QED  BY <2>2, <2>3, <2>4 DEF Top
<1>2. Entry(f) \notin {"master", "append"}
  BY DEF Entry
<1>3. TypeOK'
  BY <1>1 DEF KInv, TypeOK
<1>4. CommandsAtBottom'
  BY <1>1 DEF KInv, CommandsAtBottom
<1>5. SeedCallers'
  BY <1>1 DEF KInv, SeedCallers
<1>6. SpendsLeft'
  BY <1>1, <1>2 DEF KInv, SpendsLeft
<1>7. EdKeysOfTop'
  <2>1. \A b \in live : b[2] \notin EdNames
    BY DEF KInv, EdKeysOfTop
  <2>. QED  BY <2>1 DEF EdKeysOfTop
<1>8. SeedsOfActive'
  <2>1. Active \subseteq Active'
    BY <1>1 DEF Active
  <2>. QED  BY <1>1, <1>2, <2>1 DEF KInv, SeedsOfActive
<1>. QED  BY <1>3, <1>4, <1>5, <1>6, <1>7, <1>8 DEF KInv


(* The invariant across a return: the frames below keep their functions   *)
(* and labels, the caller receives the status.  The hypotheses say which   *)
(* buffers the returning path must have zeroed: every ed25519 key, every   *)
(* seed of the returning function, and the caller's seed on a failing      *)
(* return from crypto_computeSaplingSeed.                                   *)
LEMMA ReturnKInv ==
  ASSUME KInv, stack # <<>>, NEW e \in BOOLEAN, Return(e), UNCHANGED spends,
         live' \subseteq Functions \X Locals,
         \A b \in live' : b[2] \notin EdNames,
         \A b \in live' : b[2] \in SeedNames => b \in live /\ b[1] # Top.fn,
         Top.fn = "crypto_computeSaplingSeed" /\ e =>
            \A b \in live' : b[2] \in SeedNames => b[1] # Caller
  PROVE  KInv'
<1>. DEFINE n == Len(stack)
<1>1. /\ stack' \in Seq(Frame) /\ n \in Nat \ {0}
      /\ DOMAIN stack' = 1..n - 1 /\ DOMAIN stack = 1..n
      /\ \A k \in 1..n - 1 : stack'[k].fn = stack[k].fn /\ stack'[k].pc = stack[k].pc
      /\ stack' # <<>> => n > 1 /\ Top' = stack'[n - 1] /\ Top'.err = e
      /\ Top = stack[n] /\ Caller = stack[n - 1].fn
  <2>1. stack \in Seq(Frame)
    BY DEF KInv, TypeOK
  <2>2. n \in Nat \ {0} /\ DOMAIN stack = 1..n
    BY <2>1, EmptySeq, LenProperties
  <2>3. /\ stack' \in Seq(Frame) /\ Len(stack') = n - 1
        /\ \A k \in 1..n - 2 : stack'[k] = stack[k]
        /\ n > 1 => stack'[n - 1] = [fn |-> stack[n - 1].fn, pc |-> stack[n - 1].pc, err |-> e]
    BY <2>1, StackReturn
  <2>4. DOMAIN stack' = 1..n - 1 /\ Len(<<>>) = 0
    BY <2>3, LenProperties, EmptySeq
  <2>5. \A k \in 1..n - 1 : stack'[k].fn = stack[k].fn /\ stack'[k].pc = stack[k].pc
    BY <2>2, <2>3
  <2>6. stack' # <<>> => n > 1
    BY <2>2, <2>3, <2>4
  <2>. QED  BY <2>2, <2>3, <2>4, <2>5, <2>6 DEF Top, Caller
<1>2. TypeOK'
  BY <1>1 DEF KInv, TypeOK
<1>3. CommandsAtBottom'
  BY <1>1 DEF KInv, CommandsAtBottom
<1>4. SeedCallers'
  BY <1>1 DEF KInv, SeedCallers
<1>5. SpendsLeft'
  BY <1>1 DEF KInv, SpendsLeft
<1>6. EdKeysOfTop'
  BY DEF EdKeysOfTop
<1>7. SeedsOfActive'
  <2>1. SUFFICES ASSUME NEW b \in live', b[2] \in SeedNames
                 PROVE  /\ b \in {SeedBuf(g) : g \in SeedOwners}
                        /\ b[1] \in Active'
                        /\ ~(stack' # <<>> /\ Top'.fn = b[1] /\ Top'.pc = "master" /\ Top'.err)
    BY DEF SeedsOfActive
  <2>2. b \in live /\ b[1] # Top.fn
    BY <2>1
  <2>3. b \in {SeedBuf(g) : g \in SeedOwners} /\ b[1] \in Active
    BY <2>1, <2>2 DEF KInv, SeedsOfActive
  <2>4. b[1] \in Active'
    BY <1>1, <2>2, <2>3 DEF Active
  <2>5. ASSUME stack' # <<>>, Top'.pc = "master", Top'.err
        PROVE  Top'.fn # b[1]
    <3>1. n > 1 /\ stack[n - 1].pc = "master" /\ e
      <4>1. n > 1 /\ Top' = stack'[n - 1] /\ Top'.err = e
        BY <1>1, <2>5
      <4>2. n - 1 \in 1..n - 1
        BY <1>1, <4>1
      <4>3. stack[n - 1].pc = "master"
        BY <1>1, <2>5, <4>1, <4>2
      <4>4. e
        BY <2>5, <4>1, Zenon
      <4>. QED  BY <4>1, <4>3, <4>4
    <3>2. Top.fn = "crypto_computeSaplingSeed"
      BY <1>1, <3>1 DEF KInv, SeedCallers
    <3>3. Top'.fn = Caller
      BY <1>1, <2>5, <3>1
    <3>4. b[1] # Caller
      BY <2>1, <3>1, <3>2
    <3>. QED  BY <3>3, <3>4
  <2>. QED  BY <2>3, <2>4, <2>5
<1>. QED  BY <1>2, <1>3, <1>4, <1>5, <1>6, <1>7 DEF KInv


(* The invariant across a step within the top frame: the stack keeps its  *)
(* functions, the top frame moves to label l with status e.  The           *)
(* hypotheses are EdKeysOfTop and SeedsOfActive for the new label and      *)
(* buffers, and the counter kept in range by crypto_sign_masp alone.       *)
LEMMA GotoKInv ==
  ASSUME KInv, stack # <<>>, NEW l \in Labels, NEW e \in BOOLEAN, Goto(l, e),
         live' \subseteq Functions \X Locals,
         spends' \in 0..MaxSpends,
         spends' # spends => Top.fn = "crypto_sign_masp",
         Top.fn = "crypto_sign_masp" /\ l = "append" => spends' >= 1,
         \A b \in live' : b[2] \in EdNames =>
            /\ b[1] = Top.fn
            /\ \/ b[1] \in Ed25519Fns /\ l \in {"initKey", "operate", "catch"}
               \/ b = <<"crypto_computeSaplingSeed", "privateKeyData">> /\ l = "catch",
         \A b \in live' : b[2] \in SeedNames =>
            /\ b \in {SeedBuf(g) : g \in SeedOwners}
            /\ b[1] \in Active
            /\ ~(b[1] = Top.fn /\ l = "master" /\ e)
  PROVE  KInv'
<1>. DEFINE n == Len(stack)
<1>1. /\ stack' \in Seq(Frame) /\ n \in Nat \ {0}
      /\ DOMAIN stack' = 1..n /\ DOMAIN stack = 1..n
      /\ \A k \in 1..n - 1 : stack'[k] = stack[k]
      /\ stack'[n].fn = Top.fn /\ stack'[n].pc = l /\ stack'[n].err = e
      /\ Top = stack[n] /\ Top' = stack'[n] /\ stack' # <<>>
  <2>1. stack \in Seq(Frame)
    BY DEF KInv, TypeOK
  <2>2. n \in Nat \ {0} /\ DOMAIN stack = 1..n
    BY <2>1, EmptySeq, LenProperties
  <2>3. /\ stack' \in Seq(Frame) /\ Len(stack') = n
        /\ \A k \in 1..n - 1 : stack'[k] = stack[k]
        /\ stack'[n] = [fn |-> Top.fn, pc |-> l, err |-> e]
    BY <2>1, StackGoto
  <2>4. DOMAIN stack' = 1..n /\ Len(<<>>) = 0
    BY <2>3, LenProperties, EmptySeq
  <2>5. stack' # <<>>
    BY <2>2, <2>3, <2>4
  <2>. QED  BY <2>2, <2>3, <2>4, <2>5 DEF Top
<1>2. Active' = Active
  <2>1. \A k \in 1..n : stack'[k].fn = stack[k].fn
    BY <1>1
  <2>. QED  BY <1>1, <2>1 DEF Active
<1>3. TypeOK'
  BY <1>1 DEF TypeOK
<1>4. CommandsAtBottom'
  BY <1>1 DEF KInv, CommandsAtBottom
<1>5. SeedCallers'
  BY <1>1 DEF KInv, SeedCallers
<1>6. SpendsLeft'
  <2>1. spends' # spends => n = 1
    BY <1>1 DEF KInv, CommandsAtBottom, Commands
  <2>. QED  BY <1>1, <2>1 DEF KInv, SpendsLeft
<1>7. EdKeysOfTop'
  BY <1>1 DEF EdKeysOfTop
<1>8. SeedsOfActive'
  BY <1>1, <1>2 DEF SeedsOfActive
<1>. QED  BY <1>3, <1>4, <1>5, <1>6, <1>7, <1>8 DEF KInv


-----------------------------------------------------------------------------
(* Facts the action proofs share.                                          *)

LEMMA TopType ==
  ASSUME KInv, stack # <<>>
  PROVE  Top \in Frame /\ Top.fn \in Functions /\ Top.pc \in Labels /\ Top.err \in BOOLEAN
<1>1. Top \in Frame
  BY EmptySeq, ElementOfSeq DEF KInv, TypeOK, Top
<1>. QED  BY <1>1 DEF Frame

(* The seed and key buffers of the two seed owners.                       *)
LEMMA OwnerBufs ==
  ASSUME NEW g \in SeedOwners
  PROVE  /\ SeedBuf(g)[1] = g /\ SeedBuf(g)[2] \in SeedNames
         /\ SeedBuf(g) \in Functions \X Locals
         /\ KeysBuf(g)[2] \notin EdNames \cup SeedNames
         /\ KeysBuf(g) \in Functions \X Locals
BY DEF SeedOwners, SeedBuf, KeysBuf, SeedNames, EdNames, Functions, Commands, Locals

(* No ed25519 key is live while the top frame is not at a label of        *)
(* crypto_extractPublicKey_ed25519, crypto_sign_ed25519 or                  *)
(* crypto_computeSaplingSeed that comes before catch_cx_error.             *)
LEMMA NoEdKeys ==
  ASSUME KInv,
         \/ stack = <<>>
         \/ Top.fn \notin Ed25519Fns \cup {"crypto_computeSaplingSeed"}
         \/ Top.pc \notin {"initKey", "operate", "catch"}
  PROVE  \A b \in live : b[2] \notin EdNames
BY DEF KInv, EdKeysOfTop

(* A seed owned by the top frame's function is one of that function's.    *)
LEMMA SeedsOfTop ==
  ASSUME KInv, NEW b \in live, b[2] \in SeedNames
  PROVE  /\ \E g \in SeedOwners : b = SeedBuf(g)
         /\ b[1] \in SeedOwners
         /\ b[1] = Top.fn => b = SeedBuf(Top.fn)
<1>1. PICK g \in SeedOwners : b = SeedBuf(g)
  BY DEF KInv, SeedsOfActive
<1>. QED  BY <1>1, OwnerBufs

(* Every state the program starts in satisfies KInv.                      *)
LEMMA InitKInv == Init => KInv
BY KeyHygieneAssumption, EmptySeq
   DEF Init, KInv, TypeOK, CommandsAtBottom, SeedCallers, SpendsLeft, EdKeysOfTop,
       SeedsOfActive

LEMMA StartCommandKInv ==
  ASSUME KInv, StartCommand
  PROVE  KInv'
<1>1. PICK c \in Commands : stack' = <<[fn |-> c, pc |-> Entry(c), err |-> FALSE]>>
  BY DEF StartCommand
<1>2. Entry(c) \in Labels \ {"master", "append"}
  BY DEF Commands, Entry, Labels
<1>3. \A b \in live : b[2] \notin EdNames \cup SeedNames
  <2>1. stack = <<>> /\ DOMAIN stack = {}
    BY DEF StartCommand
  <2>2. \A b \in live : b[2] \notin EdNames
    BY <2>1, NoEdKeys
  <2>. QED  BY <2>1, <2>2 DEF KInv, SeedsOfActive, Active
<1>4. stack' \in Seq(Frame) /\ DOMAIN stack' = {1} /\ Len(stack') = 1
  BY <1>1, <1>2 DEF Frame, Commands, Functions
<1>5. \A k \in DOMAIN stack' : k = 1 /\ stack'[k].fn \in Commands /\ stack'[k].pc = Entry(c)
  BY <1>1, <1>4
<1>6. TypeOK'
  BY <1>4 DEF StartCommand, KInv, TypeOK
<1>7. CommandsAtBottom' /\ SpendsLeft'
  BY <1>2, <1>5 DEF CommandsAtBottom, SpendsLeft
<1>8. SeedCallers'
  BY <1>5 DEF SeedCallers, Commands
<1>9. EdKeysOfTop' /\ SeedsOfActive'
  BY <1>3 DEF StartCommand, EdKeysOfTop, SeedsOfActive
<1>. QED  BY <1>6, <1>7, <1>8, <1>9 DEF KInv


(* os_derive_bip32_with_seed_no_throw writes privateKeyData of the top    *)
(* frame, which is at "derive": no other ed25519 key is live.               *)
LEMMA EdDeriveKInv ==
  ASSUME KInv, EdDerive
  PROVE  KInv'
<1>. DEFINE buf == <<Top.fn, "privateKeyData">>
<1>1. stack # <<>> /\ Top.fn \in Ed25519Fns /\ Top.pc = "derive" /\ UNCHANGED spends
  BY DEF EdDerive
<1>2. \A b \in live : b[2] \notin EdNames
  BY <1>1, NoEdKeys
<1>3. /\ buf \in Functions \X Locals /\ buf[1] = Top.fn /\ buf[2] \in EdNames \ SeedNames
      /\ live \subseteq Functions \X Locals /\ spends \in 0..MaxSpends
  BY <1>1 DEF KInv, TypeOK, Functions, Locals, EdNames, SeedNames
<1>4. \A b \in live : b[2] \in SeedNames =>
         b \in {SeedBuf(g) : g \in SeedOwners} /\ b[1] \in Active
  BY DEF KInv, SeedsOfActive
<1>5. "initKey" \in Labels /\ "catch" \in Labels
  BY DEF Labels
<1>6. CASE live' = live \cup {buf} /\ Goto("initKey", FALSE)
  BY <1>1, <1>2, <1>3, <1>4, <1>5, <1>6, GotoKInv
<1>7. CASE Fallible /\ live' \in MaybeWritten(buf) /\ Goto("catch", TRUE)
  BY <1>1, <1>2, <1>3, <1>4, <1>5, <1>7, GotoKInv DEF MaybeWritten
<1>. QED  BY <1>6, <1>7 DEF EdDerive


(* cx_ecfp_init_private_key_no_throw writes cx_privateKey; the keys live *)
(* before are those of the top frame.                                      *)
LEMMA EdInitKeyKInv ==
  ASSUME KInv, EdInitKey
  PROVE  KInv'
<1>. DEFINE buf == <<Top.fn, "cx_privateKey">>
<1>1. stack # <<>> /\ Top.fn \in Ed25519Fns /\ Top.pc = "initKey" /\ UNCHANGED spends
  BY DEF EdInitKey
<1>2. \A b \in live : b[2] \in EdNames => b[1] = Top.fn
  BY <1>1 DEF KInv, EdKeysOfTop
<1>3. /\ buf \in Functions \X Locals /\ buf[1] = Top.fn /\ buf[2] \in EdNames \ SeedNames
      /\ live \subseteq Functions \X Locals /\ spends \in 0..MaxSpends
  BY <1>1 DEF KInv, TypeOK, Functions, Locals, EdNames, SeedNames
<1>4. \A b \in live : b[2] \in SeedNames =>
         b \in {SeedBuf(g) : g \in SeedOwners} /\ b[1] \in Active
  BY DEF KInv, SeedsOfActive
<1>5. "operate" \in Labels /\ "catch" \in Labels
  BY DEF Labels
<1>6. CASE live' = live \cup {buf} /\ Goto("operate", FALSE)
  BY <1>1, <1>2, <1>3, <1>4, <1>5, <1>6, GotoKInv
<1>7. CASE Fallible /\ live' \in MaybeWritten(buf) /\ Goto("catch", TRUE)
  BY <1>1, <1>2, <1>3, <1>4, <1>5, <1>7, GotoKInv DEF MaybeWritten
<1>. QED  BY <1>6, <1>7 DEF EdInitKey

(* The key generation or the signature leaves the buffers as they are.    *)
LEMMA EdOperateKInv ==
  ASSUME KInv, EdOperate
  PROVE  KInv'
<1>1. stack # <<>> /\ Top.fn \in Ed25519Fns /\ Top.pc = "operate" /\ UNCHANGED <<live, spends>>
  BY DEF EdOperate
<1>2. \A b \in live : b[2] \in EdNames => b[1] = Top.fn
  BY <1>1 DEF KInv, EdKeysOfTop
<1>3. live \subseteq Functions \X Locals /\ spends \in 0..MaxSpends
  BY DEF KInv, TypeOK
<1>4. \A b \in live : b[2] \in SeedNames =>
         b \in {SeedBuf(g) : g \in SeedOwners} /\ b[1] \in Active
  BY DEF KInv, SeedsOfActive
<1>5. PICK e \in Outcomes : Goto("catch", e)
  BY DEF EdOperate
<1>6. "catch" \in Labels /\ e \in BOOLEAN
  BY KeyHygieneAssumption DEF Labels, Outcomes
<1>. QED  BY <1>1, <1>2, <1>3, <1>4, <1>5, <1>6, GotoKInv

(* catch_cx_error zeroes both key buffers of the returning function.       *)
LEMMA EdCatchKInv ==
  ASSUME KInv, EdCatch
  PROVE  KInv'
<1>1. stack # <<>> /\ Top.fn \in Ed25519Fns /\ Top.pc = "catch" /\ UNCHANGED spends
      /\ live' = live \ {<<Top.fn, "cx_privateKey">>, <<Top.fn, "privateKeyData">>}
      /\ Return(Top.err)
  BY DEF EdCatch
<1>2. Top.err \in BOOLEAN
  BY <1>1, TopType
<1>3. live \subseteq Functions \X Locals
  BY DEF KInv, TypeOK
<1>4. \A b \in live' : b[2] \notin EdNames
  <2>1. \A b \in live : b[2] \in EdNames => b[1] = Top.fn
    BY <1>1 DEF KInv, EdKeysOfTop
  <2>. QED  BY <1>1, <1>3, <2>1 DEF EdNames
<1>5. \A b \in live' : b[2] \in SeedNames => b \in live /\ b[1] # Top.fn
  BY <1>1, SeedsOfTop DEF SeedOwners, Ed25519Fns
<1>6. Top.fn # "crypto_computeSaplingSeed" /\ live' \subseteq Functions \X Locals
  BY <1>1, <1>3 DEF Ed25519Fns
<1>. QED  BY <1>1, <1>2, <1>4, <1>5, <1>6, ReturnKInv


(* A return from a function that owns no ed25519 key and no seed, whose  *)
(* step adds no key and no seed.                                            *)
LEMMA PlainReturnKInv ==
  ASSUME KInv, stack # <<>>, NEW e \in BOOLEAN, Return(e), UNCHANGED spends,
         Top.fn \notin Ed25519Fns \cup {"crypto_computeSaplingSeed"} \cup SeedOwners,
         live' \subseteq Functions \X Locals,
         \A b \in live' : b \in live \/ b[2] \notin EdNames \cup SeedNames
  PROVE  KInv'
<1>1. \A b \in live : b[2] \notin EdNames
  BY NoEdKeys
<1>2. \A b \in live' : b[2] \in SeedNames => b \in live /\ b[1] # Top.fn
  BY SeedsOfTop
<1>. QED  BY <1>1, <1>2, ReturnKInv

(* crypto_sign: three calls, and returns on the errors between them.      *)
LEMMA CryptoSignKInv ==
  ASSUME KInv, CryptoSign
  PROVE  KInv'
<1>1. stack # <<>> /\ Top.fn = "crypto_sign" /\ UNCHANGED <<live, spends>>
  BY DEF CryptoSign
<1>2. /\ Top.fn \notin Ed25519Fns \cup {"crypto_computeSaplingSeed"} \cup SeedOwners
      /\ "crypto_extractPublicKey_ed25519" \in Functions \ Commands
      /\ "crypto_sign_ed25519" \in Functions \ Commands
      /\ {"raw", "wrapper", "end"} \subseteq Labels
      /\ live \subseteq Functions \X Locals
  BY <1>1 DEF Ed25519Fns, SeedOwners, Functions, Commands, Labels, KInv, TypeOK
<1>3. ASSUME NEW f \in Functions \ Commands, NEW l \in Labels, Call(f, l),
             f # "crypto_computeSaplingSeed", l \notin {"master", "append"}
      PROVE  KInv'
  BY <1>1, <1>2, <1>3, CallKInv
<1>4. ASSUME NEW e \in BOOLEAN, Return(e)
      PROVE  KInv'
  BY <1>1, <1>2, <1>4, PlainReturnKInv
<1>. QED  BY <1>2, <1>3, <1>4 DEF CryptoSign

(* crypto_fillAddress_ed25519: the public key, then the encodings.         *)
LEMMA FillAddressKInv ==
  ASSUME KInv, FillAddress
  PROVE  KInv'
<1>1. stack # <<>> /\ Top.fn = "crypto_fillAddress_ed25519" /\ UNCHANGED <<live, spends>>
  BY DEF FillAddress
<1>2. /\ Top.fn \notin Ed25519Fns \cup {"crypto_computeSaplingSeed"} \cup SeedOwners
      /\ "crypto_extractPublicKey_ed25519" \in Functions \ Commands
      /\ "encode" \in Labels /\ Top.err \in BOOLEAN
      /\ live \subseteq Functions \X Locals
  BY <1>1, TopType DEF Ed25519Fns, SeedOwners, Functions, Commands, Labels, KInv, TypeOK
<1>3. CASE Call("crypto_extractPublicKey_ed25519", "encode")
  BY <1>1, <1>2, <1>3, CallKInv
<1>4. ASSUME NEW e \in Outcomes, Return(Top.err \/ e)
      PROVE  KInv'
  <2>1. (Top.err \/ e) \in BOOLEAN
    BY KeyHygieneAssumption DEF Outcomes
  <2>. QED  BY <1>1, <1>2, <1>4, <2>1, PlainReturnKInv
<1>. QED  BY <1>3, <1>4 DEF FillAddress

(* crypto_fillMASP: crypto_generateSaplingKeys, then the reply length.    *)
LEMMA FillMASPKInv ==
  ASSUME KInv, FillMASP
  PROVE  KInv'
<1>1. stack # <<>> /\ Top.fn = "crypto_fillMASP" /\ UNCHANGED <<live, spends>>
  BY DEF FillMASP
<1>2. /\ Top.fn \notin Ed25519Fns \cup {"crypto_computeSaplingSeed"} \cup SeedOwners
      /\ "crypto_generateSaplingKeys" \in Functions \ Commands
      /\ "end" \in Labels /\ Top.err \in BOOLEAN
      /\ live \subseteq Functions \X Locals
  BY <1>1, TopType DEF Ed25519Fns, SeedOwners, Functions, Commands, Labels, KInv, TypeOK
<1>3. CASE Call("crypto_generateSaplingKeys", "end")
  BY <1>1, <1>2, <1>3, CallKInv
<1>4. CASE Return(Top.err)
  BY <1>1, <1>2, <1>4, PlainReturnKInv
<1>. QED  BY <1>3, <1>4 DEF FillMASP


(* crypto_computeSaplingSeed: the caller, one of the two seed owners, gets *)
(* its seed; catch_cx_error zeroes privateKeyData, and the seed on error.   *)
LEMMA ComputeSaplingSeedKInv ==
  ASSUME KInv, ComputeSaplingSeed
  PROVE  KInv'
<1>. DEFINE pkd == <<Top.fn, "privateKeyData">>
            seed == SeedBuf(Caller)
<1>1. stack # <<>> /\ Top.fn = "crypto_computeSaplingSeed" /\ UNCHANGED spends
  BY DEF ComputeSaplingSeed
<1>2. Caller \in SeedOwners /\ Caller \in Active
  <2>1. Len(stack) \in DOMAIN stack /\ Len(stack) - 1 \in DOMAIN stack
    <3>1. Len(stack) \in DOMAIN stack
      BY <1>1, EmptySeq, LenProperties DEF KInv, TypeOK
    <3>2. Len(stack) > 1
      BY <1>1, <3>1 DEF KInv, SeedCallers, Top
    <3>. QED  BY <1>1, <3>1, <3>2, LenProperties DEF KInv, TypeOK
  <2>. QED  BY <1>1, <2>1 DEF KInv, SeedCallers, Top, Caller, Active
<1>3. /\ seed[1] = Caller /\ seed[2] \in SeedNames /\ seed \in Functions \X Locals
      /\ seed \in {SeedBuf(g) : g \in SeedOwners}
      /\ pkd = <<"crypto_computeSaplingSeed", "privateKeyData">>
      /\ pkd \in Functions \X Locals /\ pkd[2] \in EdNames \ SeedNames
  BY <1>1, <1>2, OwnerBufs DEF Functions, Locals, EdNames, SeedNames
<1>4. live \subseteq Functions \X Locals /\ spends \in 0..MaxSpends
  BY DEF KInv, TypeOK
<1>5. \A b \in live : b[2] \in SeedNames =>
         b \in {SeedBuf(g) : g \in SeedOwners} /\ b[1] \in Active
  BY DEF KInv, SeedsOfActive
<1>6. "catch" \in Labels /\ "crypto_computeSaplingSeed" \notin Ed25519Fns
  BY DEF Labels, Ed25519Fns
<1>7. CASE Top.pc = "derive"
  <2>1. \A b \in live : b[2] \notin EdNames
    BY <1>7, NoEdKeys
  <2>2. ASSUME NEW e \in BOOLEAN, live' \subseteq live \cup {pkd, seed},
               Goto("catch", e)
        PROVE  KInv'
    <3>1. live' \subseteq Functions \X Locals
      BY <1>3, <1>4, <2>2
    <3>2. \A b \in live' : b[2] \in EdNames =>
             b[1] = Top.fn /\ b = <<"crypto_computeSaplingSeed", "privateKeyData">>
      BY <1>1, <1>3, <2>1, <2>2 DEF EdNames, SeedNames
    <3>3. \A b \in live' : b[2] \in SeedNames =>
             b \in {SeedBuf(g) : g \in SeedOwners} /\ b[1] \in Active
      BY <1>2, <1>3, <1>5, <2>2
    <3>. QED  BY <1>1, <1>4, <1>6, <2>2, <3>1, <3>2, <3>3, GotoKInv
  <2>3. CASE live' = live \cup {pkd, seed} /\ Goto("catch", FALSE)
    BY <2>2, <2>3
  <2>4. CASE Fallible /\ live' \in MaybeWritten(pkd) /\ Goto("catch", TRUE)
    BY <2>2, <2>4 DEF MaybeWritten
  <2>. QED  BY <1>7, <2>3, <2>4 DEF ComputeSaplingSeed
<1>8. CASE Top.pc = "catch"
  <2>1. /\ live' = live \ ({pkd} \cup IF Top.err THEN {seed} ELSE {})
        /\ Return(Top.err)
    BY <1>8 DEF ComputeSaplingSeed
  <2>2. Top.err \in BOOLEAN
    BY <1>1, TopType
  <2>3. \A b \in live' : b[2] \notin EdNames
    <3>1. \A b \in live : b[2] \in EdNames => b = pkd
      BY <1>1, <1>3, <1>6 DEF KInv, EdKeysOfTop
    <3>. QED  BY <2>1, <3>1
  <2>4. \A b \in live' : b[2] \in SeedNames => b \in live /\ b[1] # Top.fn
    BY <1>1, <2>1, SeedsOfTop DEF SeedOwners
  <2>5. Top.err => \A b \in live' : b[2] \in SeedNames => b[1] # Caller
    <3>1. SUFFICES ASSUME Top.err, NEW b \in live', b[2] \in SeedNames
                   PROVE  b[1] # Caller
      OBVIOUS
    <3>2. b \in live /\ b # seed
      BY <2>1, <3>1
    <3>3. PICK g \in SeedOwners : b = SeedBuf(g)
      BY <3>1, <3>2, SeedsOfTop
    <3>. QED  BY <3>2, <3>3, OwnerBufs
  <2>6. live' \subseteq Functions \X Locals
    BY <1>4, <2>1
  <2>. QED  BY <1>1, <2>1, <2>2, <2>3, <2>4, <2>5, <2>6, ReturnKInv
<1>. QED  BY <1>7, <1>8 DEF ComputeSaplingSeed


(* A return of a seed owner that has zeroed its seed, and perhaps its      *)
(* spending keys.                                                           *)
LEMMA OwnerReturnKInv ==
  ASSUME KInv, stack # <<>>, Top.fn \in SeedOwners, NEW e \in BOOLEAN, Return(e),
         UNCHANGED spends,
         live' \subseteq live \cup {KeysBuf(Top.fn)}, SeedBuf(Top.fn) \notin live'
  PROVE  KInv'
<1>1. /\ KeysBuf(Top.fn)[2] \notin EdNames \cup SeedNames
      /\ KeysBuf(Top.fn) \in Functions \X Locals
      /\ Top.fn \notin Ed25519Fns \cup {"crypto_computeSaplingSeed"}
  BY OwnerBufs DEF SeedOwners, Ed25519Fns
<1>2. \A b \in live' : b[2] \notin EdNames
  BY <1>1, NoEdKeys
<1>3. \A b \in live' : b[2] \in SeedNames => b \in live /\ b[1] # Top.fn
  <2>1. SUFFICES ASSUME NEW b \in live', b[2] \in SeedNames
                 PROVE  b \in live /\ b[1] # Top.fn
    OBVIOUS
  <2>2. b \in live /\ b # SeedBuf(Top.fn)
    BY <1>1, <2>1
  <2>3. PICK g \in SeedOwners : b = SeedBuf(g)
    BY <2>1, <2>2, SeedsOfTop
  <2>. QED  BY <2>2, <2>3, OwnerBufs
<1>4. live' \subseteq Functions \X Locals
  BY <1>1 DEF KInv, TypeOK
<1>. QED  BY <1>1, <1>2, <1>3, <1>4, ReturnKInv

(* computeMasterFromSeed, whose source is not in the repository: success  *)
(* goes on to next, failure returns with the seed zeroed.                  *)
LEMMA MasterOrFailKInv ==
  ASSUME KInv, stack # <<>>, Top.fn \in SeedOwners, Top.pc = "master",
         NEW next \in {"keys", "check"}, MasterOrFail(next), UNCHANGED spends
  PROVE  KInv'
<1>. DEFINE seed == SeedBuf(Top.fn)
            keys == KeysBuf(Top.fn)
<1>1. /\ keys[2] \notin EdNames \cup SeedNames /\ keys \in Functions \X Locals
      /\ Top.fn \notin Ed25519Fns \cup {"crypto_computeSaplingSeed"} \cup {"crypto_sign_masp"} \/ next # "append"
      /\ Top.fn \notin Ed25519Fns \cup {"crypto_computeSaplingSeed"}
      /\ next \in Labels /\ next # "master"
  BY OwnerBufs DEF SeedOwners, Ed25519Fns, Labels
<1>2. \A b \in live : b[2] \notin EdNames
  BY <1>1, NoEdKeys
<1>3. /\ live \subseteq Functions \X Locals /\ spends \in 0..MaxSpends
      /\ \A b \in live : b[2] \in SeedNames =>
            b \in {SeedBuf(g) : g \in SeedOwners} /\ b[1] \in Active
  BY DEF KInv, TypeOK, SeedsOfActive
<1>4. CASE live' = live \cup {keys} /\ Goto(next, FALSE)
  BY <1>1, <1>2, <1>3, <1>4, GotoKInv
<1>5. CASE live' \in {(live \ {seed}) \cup k : k \in {{}, {keys}}} /\ Return(TRUE)
  <2>1. seed # keys
    BY <1>1, OwnerBufs
  <2>2. live' \subseteq live \cup {keys} /\ seed \notin live'
    BY <1>5, <2>1
  <2>. QED  BY <1>5, <2>2, OwnerReturnKInv
<1>. QED  BY <1>4, <1>5 DEF MasterOrFail

(* crypto_generateSaplingKeys: the seed, the master key, and the zeroing   *)
(* of sk and saplingKeys after copyKeys.                                    *)
LEMMA GenerateSaplingKeysKInv ==
  ASSUME KInv, GenerateSaplingKeys
  PROVE  KInv'
<1>1. stack # <<>> /\ Top.fn = "crypto_generateSaplingKeys" /\ UNCHANGED spends
  BY DEF GenerateSaplingKeys
<1>2. /\ Top.fn \in SeedOwners
      /\ Top.fn \notin Ed25519Fns \cup {"crypto_computeSaplingSeed"}
      /\ "crypto_computeSaplingSeed" \in Functions \ Commands /\ "master" \in Labels
  BY <1>1 DEF SeedOwners, Ed25519Fns, Functions, Commands, Labels
<1>3. CASE Top.pc = "seed" /\ Call("crypto_computeSaplingSeed", "master") /\ UNCHANGED live
  BY <1>1, <1>2, <1>3, CallKInv
<1>4. CASE Top.pc = "master" /\ Top.err /\ Return(TRUE) /\ UNCHANGED live
  <2>1. SeedBuf(Top.fn) \notin live
    <3>1. SeedBuf(Top.fn)[1] = Top.fn /\ SeedBuf(Top.fn)[2] \in SeedNames
      BY <1>2, OwnerBufs
    <3>. QED  BY <1>1, <1>4, <3>1 DEF KInv, SeedsOfActive
  <2>. QED  BY <1>1, <1>2, <1>4, <2>1, OwnerReturnKInv
<1>5. CASE Top.pc = "master" /\ ~Top.err /\ MasterOrFail("keys")
  BY <1>1, <1>2, <1>5, MasterOrFailKInv
<1>6. ASSUME NEW e \in Outcomes, Top.pc = "keys",
             live' = live \ {SeedBuf(Top.fn), KeysBuf(Top.fn)}, Return(e)
      PROVE  KInv'
  <2>1. e \in BOOLEAN
    BY KeyHygieneAssumption DEF Outcomes
  <2>. QED  BY <1>1, <1>2, <1>6, <2>1, OwnerReturnKInv
<1>. QED  BY <1>3, <1>4, <1>5, <1>6 DEF GenerateSaplingKeys


(* crypto_sign_masp: the seed, the master key, the checks, one            *)
(* sign_sapling_spend per spend, and the zeroing of seed and keys on every *)
(* return once the master key is derived.                                   *)
LEMMA SignMaspKInv ==
  ASSUME KInv, SignMasp
  PROVE  KInv'
<1>. DEFINE clean == live \ {SeedBuf(Top.fn), KeysBuf(Top.fn)}
<1>1. stack # <<>> /\ Top.fn = "crypto_sign_masp"
  BY DEF SignMasp
<1>2. /\ Top.fn \in SeedOwners
      /\ Top.fn \notin Ed25519Fns \cup {"crypto_computeSaplingSeed"}
      /\ {"crypto_computeSaplingSeed", "sign_sapling_spend"} \subseteq Functions \ Commands
      /\ {"master", "spends", "append"} \subseteq Labels
      /\ live \subseteq Functions \X Locals /\ spends \in 0..MaxSpends
  BY <1>1 DEF SeedOwners, Ed25519Fns, Functions, Commands, Labels, KInv, TypeOK
<1>3. ASSUME NEW e \in BOOLEAN, live' = clean, Return(e), UNCHANGED spends
      PROVE  KInv'
  BY <1>1, <1>2, <1>3, OwnerReturnKInv
<1>4. ASSUME spends' \in 0..MaxSpends, Goto("spends", FALSE), UNCHANGED live
      PROVE  KInv'
  <2>1. \A b \in live : b[2] \notin EdNames
    BY <1>2, NoEdKeys
  <2>2. \A b \in live : b[2] \in SeedNames =>
           b \in {SeedBuf(g) : g \in SeedOwners} /\ b[1] \in Active
    BY DEF KInv, SeedsOfActive
  <2>. QED  BY <1>1, <1>2, <1>4, <2>1, <2>2, GotoKInv
<1>5. CASE Top.pc = "seed" /\ Call("crypto_computeSaplingSeed", "master")
           /\ UNCHANGED <<live, spends>>
  BY <1>1, <1>2, <1>5, CallKInv
<1>6. CASE Top.pc = "master" /\ Top.err /\ Return(TRUE) /\ UNCHANGED <<live, spends>>
  <2>1. SeedBuf(Top.fn) \notin live
    <3>1. SeedBuf(Top.fn)[1] = Top.fn /\ SeedBuf(Top.fn)[2] \in SeedNames
      BY <1>2, OwnerBufs
    <3>. QED  BY <1>1, <1>6, <3>1 DEF KInv, SeedsOfActive
  <2>. QED  BY <1>1, <1>2, <1>6, <2>1, OwnerReturnKInv
<1>7. CASE Top.pc = "master" /\ ~Top.err /\ MasterOrFail("check") /\ UNCHANGED spends
  BY <1>1, <1>2, <1>7, MasterOrFailKInv
<1>8. CASE Top.pc = "spends" /\ spends > 0 /\ Call("sign_sapling_spend", "append")
           /\ UNCHANGED <<live, spends>>
  BY <1>1, <1>2, <1>8, CallKInv
<1>9. CASE Top.pc = "append" /\ ~Top.err /\ spends' = spends - 1 /\ Goto("spends", FALSE)
           /\ UNCHANGED live
  <2>1. spends >= 1
    <3>1. Len(stack) \in DOMAIN stack
      BY <1>1, EmptySeq, LenProperties DEF KInv, TypeOK
    <3>. QED  BY <1>1, <1>9, <3>1 DEF KInv, SpendsLeft, Top
  <2>2. spends' \in 0..MaxSpends
    <3>1. spends' = spends - 1
      BY <1>9
    <3>2. spends - 1 \in 0..MaxSpends
      BY <1>2, <2>1, KeyHygieneAssumption
    <3>. QED  BY <3>1, <3>2
  <2>. QED  BY <1>4, <1>9, <2>2
<1>. QED  BY <1>3, <1>4, <1>5, <1>6, <1>7, <1>8, <1>9 DEF SignMasp

(* sign_sapling_spend: rsk, the RNG bytes and the nonce stay live on      *)
(* every path; none of them is an ed25519 key or a seed.                    *)
LEMMA SignSaplingSpendKInv ==
  ASSUME KInv, SignSaplingSpend
  PROVE  KInv'
<1>. DEFINE new == {<<Top.fn, b>> : b \in {"rsk", "rng", "r"}}
<1>1. stack # <<>> /\ Top.fn = "sign_sapling_spend" /\ UNCHANGED spends
  BY DEF SignSaplingSpend
<1>2. /\ Top.fn \notin Ed25519Fns \cup {"crypto_computeSaplingSeed"} \cup SeedOwners
      /\ Top.fn # "crypto_sign_masp" /\ "sbar" \in Labels
      /\ live \subseteq Functions \X Locals /\ spends \in 0..MaxSpends
      /\ new \subseteq Functions \X Locals
      /\ \A b \in new : b[2] \notin EdNames \cup SeedNames
  BY <1>1 DEF Ed25519Fns, SeedOwners, Functions, Commands, Labels, Locals, EdNames,
              SeedNames, KInv, TypeOK
<1>3. \A b \in live : b[2] \notin EdNames
  BY <1>2, NoEdKeys
<1>4. \A b \in live : b[2] \in SeedNames =>
         b \in {SeedBuf(g) : g \in SeedOwners} /\ b[1] \in Active
  BY DEF KInv, SeedsOfActive
<1>5. CASE Top.pc = "nonce" /\ live' = live \cup new /\ Goto("sbar", FALSE)
  BY <1>1, <1>2, <1>3, <1>4, <1>5, GotoKInv
<1>6. CASE Top.pc = "nonce" /\ live' = live \cup new /\ Return(TRUE)
  BY <1>1, <1>2, <1>6, PlainReturnKInv
<1>7. ASSUME NEW e \in Outcomes, Top.pc = "sbar", Return(e), UNCHANGED live
      PROVE  KInv'
  <2>1. e \in BOOLEAN
    BY KeyHygieneAssumption DEF Outcomes
  <2>. QED  BY <1>1, <1>2, <1>7, <2>1, PlainReturnKInv
<1>. QED  BY <1>5, <1>6, <1>7 DEF SignSaplingSpend


-----------------------------------------------------------------------------
(* KInv is inductive: every step of Next, and a stutter, keeps it.         *)
LEMMA NextKInv ==
  ASSUME KInv, [Next]_vars
  PROVE  KInv'
<1>1. CASE UNCHANGED vars
  BY <1>1 DEF vars, KInv, TypeOK, CommandsAtBottom, SeedCallers, SpendsLeft,
              EdKeysOfTop, SeedsOfActive, Top, Active
<1>. QED
  BY <1>1, StartCommandKInv, EdDeriveKInv, EdInitKeyKInv, EdOperateKInv, EdCatchKInv,
     CryptoSignKInv, FillAddressKInv, ComputeSaplingSeedKInv, FillMASPKInv,
     GenerateSaplingKeysKInv, SignMaspKInv, SignSaplingSpendKInv
  DEF Next

(* KInv holds in every reachable state, for every bound on the spends and *)
(* whether or not the derivations and signing calls may fail.             *)
THEOREM KInvInvariant == Spec => []KInv
BY InitKInv, NextKInv, PTL DEF Spec

(* The stack, the live buffers and the spend counter keep their types:    *)
(* in particular crypto_sign_spends_sapling never decrements the counter  *)
(* below zero, because it only does so after a spend it has counted.       *)
THEOREM KeyHygieneTypeCorrect == Spec => []TypeOK
<1>1. KInv => TypeOK
  BY DEF KInv
<1>. QED  BY <1>1, KInvInvariant, PTL

(* Ed25519KeyZeroed: privateKeyData and cx_privateKey of                   *)
(* crypto_extractPublicKey_ed25519, crypto_sign_ed25519 and                 *)
(* crypto_computeSaplingSeed are zeroed before the function returns, on    *)
(* every path: they belong to the top frame until catch_cx_error.          *)
THEOREM Ed25519KeyZeroedInvariant == Spec => []Ed25519KeyZeroed
<1>1. KInv => Ed25519KeyZeroed
  <2>1. SUFFICES ASSUME KInv, NEW b \in live, b[2] \in EdNames
                 PROVE  b[1] \in Active
    BY DEF Ed25519KeyZeroed, ZeroedOnReturn, EdNames
  <2>2. stack # <<>> /\ b[1] = stack[Len(stack)].fn
    BY <2>1 DEF KInv, EdKeysOfTop, Top
  <2>3. Len(stack) \in DOMAIN stack
    BY <2>1, <2>2, EmptySeq, LenProperties DEF KInv, TypeOK
  <2>. QED  BY <2>2, <2>3 DEF Active
<1>. QED  BY <1>1, KInvInvariant, PTL

(* SaplingSeedZeroed: the seed of crypto_generateSaplingKeys and           *)
(* crypto_sign_masp is zeroed before its owner returns, on every early     *)
(* return, including a failure inside crypto_computeSaplingSeed.           *)
THEOREM SaplingSeedZeroedInvariant == Spec => []SaplingSeedZeroed
<1>1. KInv => SaplingSeedZeroed
  BY DEF KInv, SeedsOfActive, SaplingSeedZeroed, ZeroedOnReturn, SeedNames
<1>. QED  BY <1>1, KInvInvariant, PTL

=============================================================================

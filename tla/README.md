# TLA+ models of the Namada Ledger app's signing code

This directory models `src/app/src/crypto.c` of the Namada Ledger application. Its header is `crypto.h`. The models cover:

- both versions of the transparent transaction signature (`crypto_sign`), and the abstract promise they share;
- the shielded (MASP) commands: randomness generation, the MASP checks, spend signing and signature extraction;
- the handling of secret key material on the stack across the key derivation functions. Every definition is translated from the C source. `PROJECT.json` maps each one to the lines it models.

## The system

The device runs one APDU command at a time and is single-threaded. A command reads a transaction that the parser has already decoded (`parser_tx_t`). It computes hashes and signatures and writes a response buffer. Between commands, state lives only in the app's non-volatile store (`nvdata`, outside `src/`), which holds these append-only lists:

- spend randomness, output randomness and convert randomness;
- spend signatures.

Here is how the parts interact:

* **`crypto_sign` (622-787)** builds a list of up to `MAX_SIGNATURE_HASHES` (10) section hashes.
  1. It starts with the raw header, then adds the type-specific hashes from `crypto_addTxnHashes`.
  2. It signs the unsigned "raw" signature section over that list.
  3. It appends the 0x03-prefixed hash of the signed raw section, then the code, data and memo hashes.
  4. It appends the hash of each prior signature section whose hashes it recognises.
  5. It overwrites slot 0 with the fee header hash.
  6. It signs the unsigned "wrapper" section over the whole list.
  7. Finally it writes two lists of section indices (raw and final) after the signatures. The host uses these lists to rebuild the sections.
* **MASP commands:**
  * `crypto_computeRandomness` appends one item per spend, output or convert.
  * `crypto_sign_masp` derives the spending key. It runs `crypto_check_masp`, which is `checkSpends`, `checkOutputs` and `checkConverts`. These recompute each value commitment, and each spend's randomized key, from the stored randomness. They compare the result with the bundle the host sent. If the checks pass, `crypto_sign_spends_sapling` appends one signature per spend.
  * `crypto_extract_spend_signature` returns the stored signatures one by one.
* A second, older `crypto_sign` (lines 232-310, `MAX_SIGNATURE_HASHES` 6) is also in the file. It hashes code and data, the type's hashes and the raw section, signs it, appends the signed raw section and the header hash, and signs the wrapper.
* **Key derivation.** Every command derives keys into stack buffers through nested calls (`crypto_extractPublicKey_ed25519`, `crypto_sign_ed25519`, `crypto_computeSaplingSeed`, `crypto_generateSaplingKeys`, `sign_sapling_spend`). Each buffer must be zeroed on every return path, including the `CHECK_ZXERR` early returns and the `catch_cx_error` labels.

## Modules

| Module | Models |
|---|---|
| `TxSign` | `crypto_sign` with the section hashers it calls |
| `MC_TxSign` | constants for TLC: section numbering and prior-signature hash lists |
| `TxSign_proofs` | TLAPS proofs about `TxSign`, its refinement of `SignatureChain` included |
| `SignatureChain` | the abstract promise of `crypto_sign`, shared by both versions |
| `LegacyTxSign` | the older `crypto_sign` (232-310) |
| `LegacyTxSign_proofs` | TLAPS proofs about `LegacyTxSign` |
| `KeyHygiene` | secret stack buffers across the key derivation and signing functions |
| `KeyHygiene_proofs` | TLAPS proofs about `KeyHygiene` |
| `MaspSign` | the MASP commands and the store lists |
| `MC_MaspSign` | capacities of the store for TLC |
| `MaspSign_proofs` | TLAPS proofs about `MaspSign` |

### `TxSign`

**Digests.** SHA-256 is taken to be collision free, so a digest is the tuple of what was hashed:

- `<<k>>` is the hash of section `k`;
- `<<"sigsec", prefixed, hashes, pubKeys, sigs>>` is what `crypto_hashSigSection` feeds to SHA-256;
- `<<"ed25519", m>>` is a signature over `m`.

**State:**

- `pc`: the step reached;
- `hashes`, `indices`: `hashes_buffer` and `indices_buffer`;
- `secLen`: the `hashesLen` copy held in `signature_section`;
- `rawSigHash`, `wrapperHash`, `rawIndices`: the digests and the raw index list;
- `i`: the prior-signature loop counter;
- `out`: the response buffer, kept as its regions (public key, raw signature, wrapper signature, the two index lists);
- `tx`, `outputLen`: chosen in `Init` from the transaction shapes the parser produces and the buffer sizes.

**Actions.** There is one action per block of the function:

- `ExtractPublicKey`
- `HashRawHeader`
- `HashUnsignedRawSection`
- `SignRaw`
- `HashSignedRawSection`
- `HashCodeAndData`
- `HashMemo`
- `HashPriorSignature` (one loop iteration, with the `Recognized` filter exactly as the code tests it)
- `HashFeeHeader`
- `HashWrapperSection`
- `SignWrapper`

**Failures.** Each `CHECK_ZXERR`/`CHECK_CX_OK` call may fail when `Fallible` holds. A failure is the `Abort` disjunct: it returns and leaves the output as it was.

**Section indices.** `SecIdx` and `SigSecIdx` are constants. They stand for the parser's section numbering (`code->idx`, ..., `prev_sig->idx`).

### `SignatureChain` and the refinement mappings

`SignatureChain` states what a call of `crypto_sign` promises, whichever version runs it. The call either fails with nothing returned, or completes in one step (`Complete`) with:

- a raw signature over an unsigned section whose hash list `rawList` is not empty;
- a wrapper signature over a list `wrapList` that holds the signed raw section carrying that raw signature.

The digest constructors (`Sig`, `UnsignedSec`, `SignedSec`) are constants, because the two versions encode sections differently. Both `TxSign` and `LegacyTxSign` instantiate it (`Chain == INSTANCE SignatureChain WITH ...`). The mapping shows the caller nothing until `pc` is `done` or `failed`. Then the signatures are the response buffer's, and the hash lists are read from inside them.

`ImplementsSignatureChain` is `Chain!SafeSpec /\ Chain!Returns`. TLC cannot evaluate the weak fairness of `Chain!Spec` through the mapping: it would have to evaluate `ENABLED` on substituted expressions. So `Returns` states the eventual return that fairness yields.

### `LegacyTxSign`

This module has the same digest scheme as `TxSign`, with the older section format `<<"section", prefixed, hashes, pubKey, sig>>`. There is one action per block of lines 232-310. Each `CHECK_ZXERR` may fail with `Fallible`.

### `KeyHygiene`

`stack` is the call stack of frames (function, label, error status). `live` is the set of buffers `<<function, local>>` that hold secret bytes:

- a derivation or copy adds to `live`;
- `MEMZERO` removes from it;
- a failing call may have written its output before failing, so both outcomes are allowed.

There is one action per function, and each advances the top frame by one label. Commands start only on an empty stack. A frame's label is one of `Labels` and a buffer's local one of `Locals`, the finite sets the code uses, so that `TypeOK` says more than "a string".

### `MaspSign`

Each device command is one atomic action:

- `ComputeRandomness`
- `SignMasp`
- `ExtractSpendSignature`

**Checks.** `CheckSpends`, `CheckOutputs` and `CheckConverts` are the three loops. Each iteration has a set of possible outcomes (`SpendOutcomes`, `OutputOutcomes`, `ConvertOutcomes`):

- A read of a randomness item that does not exist (`ItemsAt`) is undefined behaviour, so it may yield any item.
- So may a bundle read past the buffer end (`ReadsAt`).
- `ConvertOffset` reproduces the accumulating `tx_converts_ctx` offset of line 1157.

**Sighash.** `signature_hash` (1012) may fail when `Fallible` holds; its result is ignored and `sign_hash` stays zeroed, so a spend signature is over `Sighash` or `ZeroDigest`.

**Signing.** `SignSpends` appends signatures one by one. If the store fills up, or signing fails, the command stops and leaves the earlier appends in place. `AppendedSignaturesInSpendOrder` states what such a failure leaves behind: a prefix of the call's own spend signatures, in order, under their alphas.

**Converts.** `ConvertsVerified` is the check the spec expects: convert k against bundle convert k. The code compares convert k with the bundle slot at the accumulated offset `ConvertOffset[k - 1]`, which is k - 1 only for the first two converts. `FirstTwoConverts` states the spec's check for those two; the third is read one record too far.

## Runs

| Run | cfg | Expect | Shows |
|---|---|---|---|
| txsign_main | `TxSign.cfg` | pass | `TypeOK`; `WrapperCoversIndexedSections` (the final index list matches the wrapper's hashes position by position); `RawSignatureChained` (the raw signature covers the sections of the raw index list and its signed section is in the wrapper list); `ImplementsSignatureChain` |
| txsign_overflow | `TxSign_overflow.cfg` | violation | `NoHashOverflow`: an 11th hash is written into the 10-slot buffer |
| txsign_buffer | `TxSign_buffer.cfg` | violation | `IndicesFitBuffer`: the accepted minimum buffer is too small for the index lists |
| txsign_subset | `TxSign_subset.cfg` | violation | `PriorSignatureOnlyIfRecognized`: the recognition test compares only first hashes |
| txsign_index_wrap | `TxSign_indexwrap.cfg` | violation | `WrapperIndicesDistinct`: with 255 sections the raw signature section's index wraps to 0, the fee header's index |
| legacy_sign | `LegacyTxSign.cfg` | pass | `TypeOK`, `NoHashOverflow` (the six-slot buffer suffices for every type), `ImplementsSignatureChain` |
| keyhygiene | `KeyHygiene.cfg` | pass | `TypeOK`, `Ed25519KeyZeroed`, `SaplingSeedZeroed`: the ed25519 keys and the sapling seed never outlive their function, whatever fails |
| keyhygiene_spendauth | `KeyHygiene_spendauth.cfg` | violation | `SpendAuthorityZeroed`: a `computeMasterFromSeed` failure returns without zeroing the spending keys. TLC's trace goes through `crypto_fillMASP` and `crypto_generateSaplingKeys` (893-895); `crypto_sign_masp` fails the same way at 1225-1227, and `sign_sapling_spend` leaves `rsk` and the nonce on its stack |
| masp_spends | `MaspSign.cfg` | pass | `TypeOK`, `SpendsBound`, `SpendSignaturesMatch`: a successful sign binds each spend to its stored randomness and appends exactly its signatures. `AppendedSignaturesInSpendOrder`: a failed sign leaves only a prefix of its own signatures |
| masp_checks | `MaspSign_checks.cfg` | pass | `OutputsMatchIndexedSlots` (each builder output committed at the slot its metadata index names), and `FirstTwoConverts` with two converts (offsets 0 and 1) |
| masp_converts_offset | `MaspSign_converts.cfg` | violation | `ConvertsVerified` fails with three converts (offset never reset) |
| masp_sighash | `MaspSign_sighash.cfg` | violation | `SpendsSignSighash`: a failed `signature_hash` leaves the spend signed over zero bytes and the command succeeds |

The violations are listed as findings in `PROJECT.json`.

**Mutants.** Each property of a passing run has a mutant. The mutant is a plausible bug in a mapped definition, and TLC finds it under that run's cfg. Examples:

- an unwrapped `uint8` index;
- a memo step that does not bump `hashesLen`;
- a loop that does not advance;
- a store append without a capacity check.

### Bounds

`txsign_main` covers:

- every transaction type: plain, VP-bearing, and proposal with or without wasm;
- with or without memo;
- `sectionLen` 4 and 255, the second so that the `uint8` wrap of the raw section's index at line 694 happens;
- up to two prior signature sections, each over one of five hash lists: empty, raw header only, known sections, raw header with an unknown section, and unknown only;
- buffers of 238 bytes (one byte short) and 257 bytes;
- failing primitives.

This is 77040 states. `WrapperCoversIndexedSections` still holds at 255 sections, because `Origin` gives the raw section the same wrapped index. The collision with the fee header's 0 has its own violation run (`txsign_index_wrap`): 255 sections and no prior signature. With `sectionLen` 7 the same cfg passes (176 states), so the violation is the wrap and nothing else. How many sections the parser admits is decided outside `src/`; `sections.sectionLen` is a count the code adds 1 to without a check.

Two prior sections are enough to show recognised and unrecognised sections together. The capacity overflow needs four prior sections, and has its own violation run.

`legacy_sign` covers every transaction type and buffers of 226 bytes (one short of the minimum) and 227, with failing primitives: 150 states, every path of the function. `keyhygiene` runs any sequence of commands, with up to two spends and every call able to fail: 936 states. One spend suffices for its violation run.

The MASP runs are split by kind, because the three loops are independent:

- spends: up to two spends, randomness values `{1,2}`, and a store of two signatures, so that the store fills in the middle of a transaction (244293 states);
- outputs and converts (`masp_checks`): one output and two converts, metadata indices 0..1 (so an index past the bundle is tried), and randomness values `{1,2}` (so a wrong item is told apart): 34854 states. Two converts reach the first non-zero offset. Three converts with an output exceed the time budget; the third convert's misread has its own violation run;
- converts: three in the violation run. Three is the least number at which the unreset offset reads the wrong record.

### Fairness

`TxSign` and `LegacyTxSign` assume weak fairness of `Next`. `crypto_sign` is straight-line code that runs to a return once it is called. Nothing else runs on the device in between, so a step that stays enabled is taken. The `Returns` half of `ImplementsSignatureChain` relies on exactly that. `KeyHygiene` and the MASP model have no liveness property: whether the host sends the next command is not the device's to guarantee.

## Proofs

### `TxSign_proofs`

TLAPS proves these theorems for every value of the constants that satisfies `ConstantsAssumption` and `HashListsAssumption`:

* `IInvInvariant`: `Spec => []IInv`.
* `TypeCorrect`: `Spec => []TypeOK`.
* `WrapperCovers`: `Spec => []WrapperCoversIndexedSections`.
* `ChainInvariant`: `Spec => [](IInv /\ ChainInv)`.
* `RawChained`: `Spec => []RawSignatureChained`.
* `Refinement`: `Spec => Chain!SafeSpec`.

`IInv` strengthens `TypeOK` with these facts:

- `Matches(tx, hashes, indices)`: the hash and index buffers have the same length, and each index is the `Origin` of the hash in its slot;
- the `hashesLen` copy equals `Len(hashes)` once the raw section is built;
- the hashes are leaves while the raw signature is made;
- `rawSigHash` and `wrapperHash` are the unsigned digests of the current list;
- at `done`, the wrapper signature signs `wrapperHash` and the final index list is `indices`.

`WrapperCoversIndexedSections` alone is not inductive, because it talks only about the final state. The steps that append a hash must keep `Matches`. The fee header overwrite of slot 0 must keep it too: it replaces the raw header (index 255) by the fee header (index 0). The wrapper signature must then be over the very list whose indices are written. Each action gets one lemma (`...IInv`), and `NextIInv` combines them.

`ChainInv` adds what the raw signature needs, again because the property speaks only of the final state:

- while the raw section is built, slot 1 is the raw header;
- from the signed raw section on, `out.raw` signs the unsigned digest of its own list, which starts with the raw header and matches the raw index list;
- a slot past the first holds the signed raw section. The fee header overwrite touches only slot 1, and the later steps only append, so the slot survives (`SlotsKeptChainInv`).

The refinement proof maps each step: `SignWrapper`'s success is `Complete`, an `Abort` is `Fail`, every other step is an abstract stutter (`StepShape`).

The lemmas about tuple concatenation (`ConcatMatches`, `AppendMatches`) rest on `SequenceTheorems`.

### `LegacyTxSign_proofs`

The older code has no loop and no overwrite, so the inductive invariant `LInv` gives the exact hash list at every label:

- `Base(tx)`: the code and data hashes, then the type's hashes;
- `WithSigned(tx)`: then the signed raw section;
- `Full(tx)`: then the header.

`LInv` also fixes `hashesLen`, the digests and the signatures in step with the list. From it:

* `LegacyTypeCorrect`: `Spec => []TypeOK`.
* `LegacyNoOverflow`: `Spec => []NoHashOverflow`. `Base` holds two to four hashes, so at most six are written, for every output size and every failure.
* `LegacyRefinement`: `Spec => Chain!SafeSpec`. The signed raw section is slot `Len(Base(tx)) + 1` of the wrapper list.

### `KeyHygiene_proofs`

TLAPS proves these theorems for every `MaxSpends` in `Nat` and both values of `Fallible` (`KeyHygieneAssumption`):

* `KInvInvariant`: `Spec => []KInv`.
* `KeyHygieneTypeCorrect`: `Spec => []TypeOK`.
* `Ed25519KeyZeroedInvariant`: `Spec => []Ed25519KeyZeroed`.
* `SaplingSeedZeroedInvariant`: `Spec => []SaplingSeedZeroed`.

Neither zeroing property is inductive. Each says only that the owner of a live buffer is somewhere on the stack. A step that returns from the owner would have to know that the buffer is zeroed on that path. `KInv` says where in its owner's run a buffer can be live:

- `EdKeysOfTop`: an ed25519 key buffer belongs to the top frame, at a label from which `catch_cx_error` is still ahead. For `crypto_computeSaplingSeed`, that label is `catch` only.
- `SeedsOfActive`: a seed belongs to `crypto_generateSaplingKeys` or `crypto_sign_masp`, its owner is on the stack, and it is gone once the owner is back at `master` with an error. This is because `crypto_computeSaplingSeed` zeroes it before failing (866-874).
- `SeedCallers`: `crypto_computeSaplingSeed` is called only by a seed owner, from `master`, and a frame at `master` waits for nothing else. Without it, a failing return into `master` could find a seed the invariant does not account for.
- `CommandsAtBottom` and `SpendsLeft`: a command frame is only at the bottom, and a spend is counted while `crypto_sign_masp` waits at `append`. Together they keep the decrement of `spends` in range.

The proof has one lemma per action (`...KInv`), and `NextKInv` combines them. Three lemmas carry the stack reasoning:

- `CallKInv`, `ReturnKInv` and `GotoKInv` state what a call, a return and a step within a frame preserve.
- Their hypotheses are exactly what each calling site must guarantee. For example, a return must have zeroed every ed25519 key and every seed of the returning function.
- They rest on `StackCall`, `StackReturn` and `StackGoto`, which describe `Append`, `SubSeq` and `EXCEPT` on a stack of frames via `SequenceTheorems`.

`SpendAuthorityZeroed` is not proved: TLC finds it violated (`keyhygiene_spendauth`).

### `MaspSign_proofs`

TLAPS proves these theorems for every value of the constants allowed by `MaspAssumption`: any sets `Vals` and `Rands`, bounds and store capacities in `Nat`, and both values of `Fallible`.

* `MInvInvariant`: `Spec => []MInv`.
* `MaspSignTypeCorrect`: `Spec => []TypeOK`.
* `SpendsBoundInvariant`: `Spec => []SpendsBound`.
* `SpendSignaturesMatchInvariant`: `Spec => []SpendSignaturesMatch`.
* `OutputsMatchIndexedSlotsInvariant`: `Spec => []OutputsMatchIndexedSlots`.
* `AppendedSignaturesInSpendOrderInvariant`: `Spec => []AppendedSignaturesInSpendOrder`. A failed call included.
* `FirstTwoConvertsVerified`: `Spec => []FirstTwoConverts`, for any number of converts.

`MInv` is the conjunction of `TypeOK`, four properties of the last call and the auxiliary `ConvertSlotsChecked`. `ConvertSlotsChecked` says that each builder convert agrees with the bundle slot at `ConvertOffset[k - 1]`. It is what `checkConverts` establishes, stated only as a step towards `FirstTwoConverts`: it names the slot the code reads, so it would hold for any offset. It needs no further strengthening: each property reads only `lastTx`, `lastResult`, `sigMark`, `callItems` and `sigStore`. `crypto_sign_masp` writes all of them in one step, and the other two commands leave them alone. TLC checked the first four conjuncts together before the proof, with one spend, one output and `Fallible = TRUE` (82,681 states). It checked `AppendedSignaturesInSpendOrder` on `masp_spends` and `FirstTwoConverts` on `masp_checks`.

The argument for a successful call runs as follows:

- `CheckMaspTrue`: when `crypto_check_masp` may pass, `checkSpends` and `checkOutputs` may both pass.
- `CheckSpendsTrue` and `CheckOutputsTrue`: then every iteration of each loop may pass, and the spend counts agree.
- `SpendOutcomeTrue` and `OutputOutcomeTrue`: an iteration over a stored item passes only if the bundle commits to that item's randomness.
- `SigListType`: the signature list appended by `crypto_sign_spends_sapling` has one entry per spend.
- `ConcatProperties` from `SequenceTheorems` then places those entries at `sigMark + 1 ..`.
- `CheckConvertsTrue` and `ConvertOutcomeTrue` do the same for converts, at slot `ConvertOffset[k - 1] + 1`. The offset stays opaque there, because `ConvertSlotsChecked` names the same slot.
- `AppendedSignaturesInSpendOrder` holds for every number `k` of signatures appended, not only `k = n`. The same `ConcatProperties` argument covers a failure.
- `ConvertOffsetDef` shows that the recursive function satisfies its defining equation. The closed form `n * (n + 1) \div 2` is a solution, so the `CHOOSE` behind the definition picks one. No induction is needed. `ConvertOffsetValues` then evaluates the offsets 0 and 1 at the first two iterations. Together with `ConvertSlotsChecked` they give `FirstTwoConverts`.
- `SeqUpToIff` and `AppendUpTo` relate the bounded sequences `SeqUpTo(S, n)` to `Seq(S)`. They carry the capacities of the store through `TypeOK`.

**Left to TLC:**

- `Chain!Returns`: liveness, which TLAPS cannot prove.
- `ConvertsVerified` is false, so it has no theorem. It holds only while the accumulated offset `ConvertOffset[k - 1]` equals `k - 1`, that is, for the first two converts (`FirstTwoConvertsVerified`). TLC finds it violated with three (`masp_converts_offset`).
- A closed form of `ConvertOffset` for every `n`. It needs induction over `Nat`, which the installed provers cannot instantiate. Only its first values are proved. So is a consequence of it: no bundle with four or more converts can pass `checkConverts`, because the last iteration's offset n(n-1)/2 exceeds n. Neither TLAPS (no induction) nor TLC (four converts are beyond the time budget) checks this.

## Not modelled

* **Key derivation arithmetic.** BIP32, the Jubjub arithmetic of `computeKeys` and `h_star` are not modelled; `KeyHygiene` models only which buffers they write. `computeMasterFromSeed`, `computeKeys` and `copyKeys` are defined outside `src/`, so whether they write before failing is left open.
* **Primitives, parsing and formatting.** SHA-256, ed25519, RedJubjub, the TRNG, bech32 and the parser are taken as ideal functions.
* **The uint64 offset wrap at 1105.** `SHIELDED_OUTPUTS_LEN * indice` is a 64-bit product of an untrusted index, and a huge index could wrap to a small offset that passes the bounds check. Both the constant and the `CTX_CHECK_AND_ADVANCE` check come from the parser library, which is not in the repository. The model reads indices as record slots, so the wrap is below its abstraction; the hazard is listed in `PROJECT.json` without a property.
* **The bounds check itself at 1105.** Whether an offset equal to the buffer length is accepted is decided by the same macro. `MaspSign` lets such an index through and reads an arbitrary commitment past the end (`ReadsAt`). The output properties are checked on that outcome, but no property is stated about the macro.
* **What a failed call leaves behind (629, 1026).** `TxSign` keeps the output regions written before an early return, and `MaspSign` keeps the signatures appended before a failure in the store, as the code does. `AppendedSignaturesInSpendOrder` says which signatures those are. No run states the spec's all-or-nothing rule for them. The spec gives the zeroing of a partial output to the caller of `sign`, which is not under `src/`, and the store's behaviour after a failed sign belongs to the external store.

## Plan for later work

1. An action property of the MASP store relating an extracted signature to the call that appended it. The store is never reset, so after a failed call `crypto_extract_spend_signature` can hand out the signatures of an earlier call.

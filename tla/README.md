# Verification of the discreet-log swap contracts and the offline signer

This directory holds TLA+ models of the programs in `src/`, the TLC
configurations that check them on small instances, and proofs, checked by
TLAPS, that hold for every value of the constants.

* `src/dlc_builder` builds the Taproot contract of one leg of a cross-chain swap
  and has the adaptor signatures that tie two legs together.
* `src/lending_dlc_builder` builds the three-leaf collateral contract of a loan.
* `src/Signer/signer.py` is an offline, interactive signer: it signs PSBTs, and
  from a *recovery kit* (a JSON snapshot of a swap) it builds, signs and
  broadcasts a refund or a claim.
* The relay ("backend", "monitor"), the chains and the wallets are **not** in the
  repository. `src/README.md` describes them; the models take from it only what
  the programs in `src/` assume, and mark it external.

The Python code is sequential and persists nothing. What is concurrent, and
hard, is the system these programs run in: two parties who each run the signer
when they like, on snapshots of different age, against two chains with their own
heights.

## Inventory

| Component | State it keeps | Operations | Interacts through | What makes it correct |
|---|---|---|---|---|
| Swap contract builder (`dlc_builder/builder.py`, `script.py`) | none; a descriptor is returned | `build_dlc`, `generate_adaptor_secret` | its two leaves, on chain | the claim belongs to the receiver, the refund to the sender from `timeout` on |
| Adaptor signatures (`dlc_builder/adaptor_sig.py`, copied in `signer.py` 430-563) | none | `adaptor_presign`, `adaptor_verify`, `adaptor_complete`, `adaptor_extract`, `schnorr_verify` | presignature by relay, signature by chain | what presign makes, verify accepts; completion with *t* is valid; an accepted completion reveals *t*; nothing less than *t* completes |
| Swap protocol (`README.md`, `example_swap.py`, both of the above, the signer) | per leg: funding, spend; per party: kit, signed transactions | fund, publish, claim, refund | two chains, the relay | atomicity, one-way flow of *t*, confirmation gate, everybody gets out |
| PSBT signing (`sign_and_finalize`, `finalize_presigned_v2_psbt`, `verify_leaf`, `analyze_script`) | witnesses of the call | one loop over inputs, one over leaves | called by every mode | a witness is one the output accepts, if what came with the PSBT is right; no input is forgotten |
| Sign-PSBT mode `[1]` | one session | review, key prompts, broadcast | user | a well-formed PSBT gets to its signature |
| Recovery-kit mode `[2]` | the kit | `[R]`, `[C]`, `[SR]`, `[SC]`, fee fallback, P2SH refund | relay (kit), chains | what the menu offers can be built; the snapshot may be stale |
| Broadcast (`_broadcast_one`, `broadcast`, `_do_broadcast`) | list of errors | failover over endpoints | HTTP endpoints | a report of success or failure matches what the network did, as far as replies tell |
| Lending contract builder | none; a descriptor | `build_collateral_dlc` with oracle, hashlock and fixed-term modes | its three leaves | borrower and lender windows do not overlap before the safety gap |
| Taproot helpers (`taproot.py`) | none | tree, proof, control block | builders | every leaf's proof leads to the root |
| Script encoding (`script.py`, `script_builder.py`, `_read_script_push`, `analyze_script`) | none | push, encode, parse | builders write, signer reads | what is written is read back |
| PSBT parser and writer (`build_psbt_bytes`, `parse_psbt` and its two parsers) | none | write the entries of a PSBT, read them with one parser or the other | other wallets' files, the signer | which parser runs makes no difference to what is signed |
| Key derivation, addresses, BIP-322 | none | byte-level conversions | - | not modelled, see below |

Hard behaviour, with its lines, is listed under `hazards` in `PROJECT.json`;
every hazard names the properties that would catch it, or says why none does.

## Plan

In the order of importance; what is done is in this directory.

| Module | Status | Subject |
|---|---|---|
| `AtomicExchange`, `AtomicSwap`, `SafeSwap`, `SwapProofs` | done | the swap: two parties, two chains, snapshots; atomicity, refinement, proofs |
| `AdaptorSig` | done | adaptor signatures over a small group |
| `PsbtSigner` | done | the two finalizers |
| `RecoveryKit`, `RecoveryKitProofs` | done | one sitting of mode `[2]`: menu, fees, keys |
| `Broadcast`, `BroadcastProofs` | done | endpoint failover and what is reported |
| `CollateralDlc`, `CollateralProofs` | done | the collateral's terms and its three leaves |
| `TapTree`, `TapTreeProofs` | done | the Taproot tree, the proof of each leaf, and the signer's check of both |
| `ScriptCodec`, `LeafSpend`, `LeafSpendProofs` | done | every leaf from its script through a PSBT and the two parsers to the chain |
| `PsbtSignerProofs`, `AdaptorSigProofs` | done | the signer's loops for every PSBT, the adaptor signatures for every group |
| `SignPsbtMode` | partly | mode `[1]` up to the key; to do: the key prompts and the broadcast |
| `HybridSwap` | to do | a swap of which one leg is a P2SH HTLC |

Every invariant and action property of the passing runs is a theorem now. To come:
the composition of `RecoveryKit` with `Broadcast` below one party of `AtomicSwap`.

## The modules and the code

**`AtomicSwap`.** A *role* is a party: the *holder* knows *t*, the *follower*
learns it. A leg is named after the role that funds it and has a chain with its own
`height`. `Timeout` is what `build_dlc` was given. `SignClaim` is `[C]`
(`build_v2_claim_psbt`: presign one's own transaction, complete it), `SignRefund` is
`[R]`; both look at nothing but `kit`, the snapshot `SaveKit` made, as
`mode_recovery_kit` does. `BroadcastClaim` and `BroadcastRefund` may come any time
later. Since the nonce of `adaptor_presign` is a hash of key, sighash and *T*, two
presignatures are equal exactly when their transactions are; here a claim is known by
its fee rate, the one thing the user chooses. The claim leaf is `<receiver>
OP_CHECKSIG`: nothing on chain asks for *t*, so that the link between the legs is a
property of programs which complete presignatures, and that is what is modelled.
`Fund`, `ConfirmFunding`, `ReplaceFunding`, `Mine`, `Tick`, the relay's `SaveKit`,
`PublishPoint`, `PublishPresignature` and `ExtractSecret` are the outside.
`Replaceable` is the sequence number: `0xFFFFFFFE` does not signal replacement.

**`SafeSwap`** adds the conditions under which all this is safe, as the assumption
`SafeSetup`: the holder funds the leg that unlocks later, by more than twice the
follower's delay plus the drift of the chains; the holder claims with the transaction
it presigned; the kit shows *t* only once the swap is eligible. No program in `src/`
checks these three.

**`AtomicExchange`** is what the swap promises: lock, withdraw, a commit point and a
completion that must follow. `AtomicSwap!ExchangeLeg` is the refinement mapping.

**`AdaptorSig`** walks one claim through `adaptor_presign`, a relay that may hand on
any other presignature, `adaptor_verify`, `adaptor_complete`, `schnorr_verify` on
chain and `adaptor_extract`. Points are discrete logarithms modulo a prime `N`; hashes
are random oracles; `Even` says which points have an even Y.

**`PsbtSigner`** is `sign_and_finalize`, one action per branch of its two nested
loops, and, evaluated on the same PSBT, `finalize_presigned_v2_psbt`. A leaf is what
`analyze_script` and `verify_leaf` say of it. A signature has the key it is *by* and
the outputs it is *over* (`SignOver`, `AsPsbt`, `AsChain`): an input's output may be in
the PSBT as it is, wrong, or missing, in which case the code signs over a zero amount and
an empty script. A stored signature may be right, wrong or absent, and the preimage any;
the code verifies neither. `SatisfiesOutput` is the chain's view of a witness, and
`GivenRight` the parts the signer takes as given; `WitnessesAreValid` says that these,
and nothing the signer does, decide whether the chain accepts.

**`RecoveryKit`** is one sitting of `mode_recovery_kit`: summary, menu, prompts,
`build_refund_psbt`, `build_claim_psbt`, `build_v2_claim_psbt`,
`build_p2sh_htlc_refund_unsigned`, signing. A kit may lack any of the fields a leg has
(`Field`), and its three marks (version, protocol, mark of the descriptor) need not
agree. The menu's guards (`CanRefund`, `CanClaim`) look at a transaction id and a
descriptor, or at a secret; the four builders (`RefundKit`, `P2shRefundKit`, `ClaimKit`,
`V2ClaimKit`) look again, each at its own list: timeout, value, script tree, address,
receiver key, version. `Choose` and `Build` fail with the reason *kit* where they do.
`Documented` is what the signer's manual says of every kit, and `KitIsEnough` compares
the three: an offer is refused for want of something only if the kit lacks what the manual
says it has, and no builder would take what the menu does not offer.

**`Broadcast`** is `_do_broadcast`, `broadcast` and `_broadcast_one` against endpoints
with a mempool each, on either of two networks. `Answer` is an endpoint handling a
request, and its reply may be lost; `LoseRequest` is a request that never arrives. A reply
with status 200 and no id may come from any endpoint, whatever it did with the
transaction (an error in JSON, an empty body, a web page); `Returns` reads it as the code
does: an error at Blockchair, a success elsewhere. `Bare` is that case.

**`CollateralDlc`**: `Accepts` is the list of checks of `build_collateral_dlc`,
`Lock`, `KeyOf` and `Gate` say what each leaf asks for. A lender *acts* if it has its
claim in a block within `Delay` blocks of the end of its term; a borrower that has
*t* and its key uses the repay leaf within `Delay` blocks.

**`SignPsbtMode`** follows mode `[1]` from the parsed PSBT to the key prompt.

**`TapTree`** is `taproot.py` and the other end of it, `verify_leaf`. `HashLeaves` and
`Reduce` are the loop of `taproot_tree_helper`, `Prove` and `Climb` that of
`compute_merkle_proof`, which rebuilds the levels by itself (`NextLevel` beside
`Parents`, as the code has them twice), `Fold` and `Decide` are the signer's. Hashes
are terms; keys are the group of `AdaptorSig`, so that every parity of NUMS + *r*G and
of the output key occurs. `target`'s place is that of the *first* leaf with its hash,
as `list.index` finds it. `tree` and `trail` are history: the code keeps only the last level,
and no trail. `Showable` is what a PSBT may present: the leaf as it was made, or with
one part of it changed.

**`ScriptCodec`** has no state: `PushInt`, the pushes and the leaf scripts of both
builders, `AnalyzeScript` and the push readers, byte by byte, and the number the chain
finds (`StackNumber`). Here the bytes are the subject, so they are modelled.

**`LeafSpend`** takes one leaf from its script to the chain. `BuildRefundPsbt` and
`BuildClaimPsbt` are the signer's own PSBTs, `ForeignPsbt` another wallet's: either
version, whole or cut short, four ways of writing the leaf, outputs given, wrong or
missing, stored signatures for this transaction or another, with or without a second
input. The preimage typed is right, wrong (of the right length) or none. `ParsePsbt` chooses the parser as
`parse_psbt` does; `Review`, `Sign` and `Sighash` are `sign_and_finalize` for input 1,
where `PsbtSigner` has its loops over many. `Broadcast` is the chain's rules. A timeout
is *hidden* (`Hidden`) if its own bytes begin the pattern by which `analyze_script`
finds a timelocked leaf and the key goes on with it; the signer then names another key.

## The runs

| Run | Shows |
|---|---|
| `safe_swap` | Under `SafeSetup`: `Atomicity` (nobody ends with both legs), `HolderClaimsFirst`, `ClaimRevealsSecret`, `ConfirmationGate`, `SpendsAreFinal`, the inductive invariant `IInv`; `FollowerSettles`, `HolderSettles`; the swap implements `AtomicExchange` (`ImplementsExchangeSafe`, and with its fairness `ImplementsExchange`) |
| `adaptor_sig` | `PresignVerifies`, `VerifiedCompletes`, `AcceptedReveals`, `WrongSecretIsUseless` for every key, secret, nonce and challenge |
| `psbt_signer` | `WitnessesAreValid` (the chain refuses a witness only for an output, a stored signature or a preimage that came in wrong), `NoLeafPassedOver`, `FinalizersAgree` |
| `broadcast` | `SuccessIsTrue` (a success is one, unless it rests on a reply without an id), `FailureIsTrue`, `FailureIsExhaustive`, `HintIsFollowed` (the user's endpoint is asked first, and on Dogecoin not at all), `DeliversEventually` (up to the same reply) |
| `recovery_kit` | `KitIsEnough` (menu, builders and manual agree on what a kit must have), `SpendIsSound`, `OnlyDustIsStranded` |
| `collateral` | `LenderBeforeSafety`, `RepaidInTime`, `NothingIsStranded`, the inductive invariant `IInv` |
| `tap_tree` | `EveryLeafOpens` (the signer accepts what the builder wrote, for any number of leaves, odd levels and duplicates), `OnlyTheContractOpens`, the inductive invariant `IInv` |
| `leaf_spend` | `OpensOnTime` (nothing spends a timelocked leaf early, and the signer's own refund does from its timeout on, at every size of a timeout), `LeafIsReadBack`, `ParsersAgree`, `SignatureCounts` |
| `swap_roles` | violated: `Atomicity`, with the roles of `example_swap.py` |
| `swap_fee_rate` | violated: `ClaimRevealsSecret`, when the holder types another fee rate than the relay's |
| `sign_psbt_review` | violated: `ReviewCompletes`, the review of mode `[1]` reads an attribute outputs lack |
| `kit_summary` | violated: `SummaryCompletes`, a missing timeout is formatted as a number |

The four violations are disagreements between the code and its documents, or plain
errors; `findings` in `PROJECT.json` quotes the lines.

Every property of a passing run has a mutant: a definition changed the way a bug would
change it (the mutated operator stands before the definition, with a comment), under
which the same run reports that property violated.

### Bounds

* `safe_swap`: the follower's timeout is 2, its delay 2, the drift 1, and the holder's
  timeout the smallest `SafeSetup` allows; with one block less `Atomicity` fails, so
  the bound is tight. `MaxHeight` 9 is past both timeouts with both delays. Two fee
  rates are two different claims; a third would behave as the second.
* `adaptor_sig`: order 5 is the smallest with two points of each parity up to sign and
  with products that wrap; two tries stand for 256, so that running out is reached.
* `psbt_signer`: one input with up to two leaves of every kind, or two inputs with up
  to one leaf; the loops carry nothing from one iteration to the next but the index
  and the witnesses. Two keys: the right one and another. Outputs right, wrong or
  missing, of this input and of the other, whose amount and script a signature covers too;
  stored signatures right, wrong or absent; a hashlock's preimage and another.
* `broadcast`: Bitcoin Cash, whose two endpoints have different interfaces and whose
  variable is read, and Dogecoin, which has Blockchair alone and whose variable is not
  read; one endpoint of the user's; any subset of the configured ones refuses the
  transaction by policy.
* `recovery_kit`: sizes, dust limits, rates and values are small numbers on both sides
  of each limit, for both rates and the default. Complete kits of either version at every
  stage of a swap; and funded kits of one value with any marks and any timeout (in
  the kit, in the descriptor, zero, none) that lack up to two fields of one leg, which is
  enough since each builder's checks are a conjunction over fields.
* `collateral`: gap 2 for 144, every pair of heights from 0 to 7, hence terms that
  are short of the gap, leave exactly the gap, one block more, and more; the delay of
  the lender is the largest the gap serves, three blocks.

* `tap_tree`: up to six leaves of three scripts. A hash is carried through one level with
  three leaves, through two with five, and on the second level with six; the contracts
  of this code have two or three. Order 5, as in `adaptor_sig`; which scripts
  are the same matters and not which they are, so they are interchangeable.
* `leaf_spend`: timeouts on both sides of each boundary of the encoding (opcodes for 0
  to 16, the sign byte at one, two and three bytes), of the lock time threshold, and up
  to 31 bits; the height 2127281, whose bytes begin CLTV DROP <32 bytes>, with a key
  that goes on with the pattern and one that does not. The chain is asked one block
  (or second) before the timeout, at it and after it. Keys have their 32 bytes; the
  keys given are both of the leaves' and the one the signer reads where the timeout
  hides its own.

Where deadlock is switched off the system may stop: the swap is settled, the claim
done, the transaction built or delivered, the collateral spent.

### Fairness

* Swap: blocks are found, the network confirms or replaces what it has accepted, the
  relay extracts *t* when it can, and the follower saves its kit, signs and broadcasts.
  Within `Delay` blocks it does so in time (`RefundOverdue`, `ClaimOverdue` hold the
  clock: a follower that is later than that is outside the model). Nothing is assumed
  of the holder, except in `HolderSettles`, under `HolderRefunds`.
* `Broadcast`: the code of a call runs; the user tries again after a failure; nLockTime
  is reached; a request to a node that would take the transaction is not lost for ever.
* `CollateralDlc`: blocks are found and take the pending spend; the borrower uses the
  leaf it can; only a lender that `lenderActs` claims. Server and oracle may do nothing.

## What is proved

For every value of the constants, under the named assumptions `ConstantsAssumption`,
`SafeSetup`, `NetAssumption`, `KitAssumption`, `CollateralAssumption`, `TreeAssumption`, `PsbtAssumption`,
`GroupAssumption` and `LeafAssumption`:

* `SwapProofs`. `SwapTypeOK` and `SwapInvariant`, that `IInv == TypeOK /\ Core` holds;
  from it `SwapAtomicity`, `SwapHolderClaimsFirst`, `SwapClaimRevealsSecret`,
  `SwapConfirmationGate`, `SwapSpendsAreFinal` and `SwapImplementsExchange`, the safety
  part of the refinement. `Atomicity` is not inductive by itself. Two arguments
  carry it. One follows *t*: a claim of the holder's leg needs a follower's kit with
  *t*, which needs `revealed`, which needs the holder's claim with the presigned
  transaction (`FollowerSecretIsExtracted`, `ClaimIsExtractable`,
  `HolderSecretIsGated`). The other follows time: the follower's leg is open at most
  `Delay` blocks past its timeout (`FollowerIsInTime`), the other chain is at most
  `MaxDrift` ahead (`HeightsAreClose`), so the holder's claim is seen early enough for
  the follower to claim before the holder's timeout (`HolderTimeoutIsAhead`).
* `BroadcastProofs`. `TypeTheorem`, `SuccessTheorem`, `FailureTheorem`,
  `ExhaustiveTheorem` and `HintTheorem`. The invariant `ReportInv` says of a reply what
  the report will say of the network, as soon as the reply is there. `VisitInv` says
  that what a call has asked and what it has still to ask (`Visit`) is always the list
  it began with: the environment may change after a failure, so that it cannot be
  compared with `Urls` later on. `SuccessTheorem` makes no assumption on what endpoints reply, and
  therefore excepts `Bare`; `HintTheorem` is about every network: where the code reads no
  variable, it says that the configured list is asked as it stands.
* `RecoveryKitProofs`. `KitTypeOK`, `MenuAgreesWithBuilders`, `SpendTheorem`,
  `StrandedTheorem`, for every kit in which a leg without a descriptor lacks what is read
  of one (`Coherent`). The argument: a documented kit that the menu offers has
  all a builder asks for (`OfferedSuffices`), and what a builder takes the menu offers
  (`SufficientIsOffered`), since its own list covers the menu's; `KitInv` carries the chosen
  offer over the prompts to the builder, and two lemmas are about the fee computations.
* `CollateralProofs`. `CollateralInvariant`, `LenderTheorem`, `RepaidTheorem`. The
  invariant `Deadlines` relates the tip, while the collateral is there, to the
  deadline of each party that acts, and each spend to its lock. `Delay <= MinGap + 1`
  is where the strict comparison in the builder is needed: with `>=` the property
  fails at exactly that delay.

* `TapTreeProofs`. `TapTreeInvariant`, `LeavesOpen`, `NothingElseOpens`, for any
  number of leaves and any group. `Levels` says that each level is made of the one
  below, `Trail` that the proof so far joins the hashes from the target to the place it
  has reached in a level of the tree: this ties the prover's loop, which carries
  an odd hash without a proof element, to the builder's. `Checked` follows the signer
  along the same trail: with the builder's path it is on it exactly if it started
  at the target. No induction over the tree is needed, since every step climbs one level.
* `PsbtSignerProofs`. `SignerTypeOK`, `WitnessTheorem`, `NoLeafTheorem`,
  `FinalizersTheorem`, for every set of PSBTs and keys. The invariant `PsbtInv` says of the inner loop that every leaf
  before the current one was not signable, and of each witness which leaf it is from,
  which preimage it has and by whom and over which outputs its signatures are, from which
  `WitnessTheorem` compares them with the outputs the chain has; `V2Inv`, for PSBTs of version 2 claims, that the
  inputs done have the witnesses of the other finalizer and that only a missing signature
  ends the call.
* `AdaptorSigProofs`. `AdaptorTypeOK`, `PresignTheorem`, `CompletionTheorem`,
  `RevealTheorem`, `UselessTheorem`, for every group in which no product of units is 0
  (`GroupAssumption`) and every choice of the parities. The prover has no modular
  arithmetic, so the first half of the module proves the laws it needs (reduction under sums and
  products, negation, cancellation). `AdaptorInv` then carries three equations:
  `Vouched` for a verified presignature, `Completed` for the completed signature,
  `Checked` for what the chain has computed; the properties compare them. `UselessTheorem`
  is where the group must have prime order.
* `LeafSpendProofs`. `TimeTheorem`, `ReadingTheorem`, `ParserTheorem` and
  `SignatureTheorem`, for every leaf of 32-byte keys and a timeout up to 2^31 - 1
  (`LeafAssumption`), every PSBT of another wallet, every key and every moment.
  - The first half is about bytes. `LittleEndianValue` and `NumberInBytes` take a number
    of at most four bytes apart and together again, which gives `ScriptNumValue`: a
    timeout is written with a last byte below 128 and read back. The layout lemmas
    (`PushIntLayout`, `TimelockLayout`, `KeyPush`, `WidePush`) say which byte of a script
    stands where; from them come the analyses of each kind of leaf, joined in
    `ScriptReading`. A timelocked leaf is the hard one, as its pattern is searched at
    every byte. `PatternPlaces`: it stands where it was written and nowhere behind.
    `HiddenKey`: where it stands earlier, which can only be three or four bytes earlier,
    the key read there is never the leaf's: the key would have to repeat at that distance,
    from the OP_CHECKSIG of the wrong place back to a byte that is none. So `Hidden` is
    exactly the case in which the signer is wrong.
  - The second half is about the run. `LeafInv` says for each value of `pc` what the PSBT
    (`FileInv`), the parsed inputs (`Parsed`), the analysis (`Analyzed`, `Approved`), the
    witness (`Signed`) and the answer (`Sent`) have to do with one another. None of the
    four properties is inductive: `OpensOnTime`, say, speaks of the end of a run and
    needs the lock time from its first step and the message from its third.

Only model-checked:

* all liveness properties and the liveness part of `ImplementsExchange`: fairness and
  ENABLED are out of the prover's reach;
* the four violations, which are counterexamples;
* what TLC adds to a theorem: that its cases occur (a timeout that hides its key, a
  reply that is lost, an odd level of a tree), and that a bug in the code breaks it.

## What is not modelled

* The relay, the lending server, the oracle, wallets and chains are outside the
  repository and modelled only as what the code relies on. Nodes that replace
  transactions which do not signal replacement are not considered.
* Fixed conversions without state or interaction: key derivation, address encodings
  (bech32m, CashAddr, base58), BIP-322, the framing and the lengths of a PSBT (one flag:
  whole or cut short), loading of the kit file, the display of heights, the legacy
  sighash of the P2SH refund.
* P2SH HTLC legs in `AtomicSwap`; their refund is in `RecoveryKit`.
* The key-path message with replay protection of Bitcoin Cash and eCash (`signer.py`
  1886-1890), and the heights that are requested and shown in the summary
  (`signer.py` 2853-2859).
* A kit whose *t* does not belong to its *T*: `AdaptorSig` has what a wrong scalar does.
* Mode `[1]` after its review, which the code does not reach (`sign_psbt_review`).
* Numbers of 2^31 and more in a script, which TLC's integers do not hold; nLockTime
  of that size would not be reached by height, nor before 2038 by time.

Disagreements seen while modelling for which there is no run, since a property could
only restate the branch (where a model has it, it has it as the code does):

* a kit saved with *t* before the confirmations lets `[C]` claim early
  (`src/README.md` 348 and 607; the constant `KitGated`);
* `sign_and_finalize` reports success as soon as one input is signed (`signer.py` 2021),
  where its docstring promises a result or an error (1784);
* a pre-built version 2 claim that nobody has completed is never signed by `[SC]`
  (`signer.py` 1944, `NeedsCompletion`), where `src/Signer/README.md` 74 says it is;
* the failure message of a Dogecoin broadcast names a variable that is not read
  (`signer.py` 2468 and 2372-2385, `Overridable` and `HintIsFollowed`);
* a reply with status 200 from which no id can be read is reported as a broadcast
  unless it is Blockchair's (`signer.py` 2353-2363), where the docstring promises a
  transaction id (2335); no other endpoint is asked (`Bare`);
* the preimage of a hashlock is checked for its length only (`signer.py` 1988), and
  stored signatures go into the witness unchecked (1933, 1951), so that a
  transaction reported as signed may be refused (`GivenRight`, `SignatureCounts`);
* menu and builder read different marks: a kit whose protocol says 2 and whose
  descriptor does not is offered a claim as version 2 (`signer.py` 2189-2194), which the
  builder refuses (2239, `KitIsEnough`);
* `sighash_script_path` signs with empty outputs for inputs whose output is missing
  (`signer.py` 1588, `Sighash`), and the previous transaction, from which embit would
  take it, is not read unless the minimal parser fails (1303, `MinimalReads`);
* the version of a leaf is the header's for one parser and the value's last byte for the
  other (`signer.py` 1233 and 1287, `MinimalLeaf` and `EmbitLeaf`);
* heights 1 to 16 are shown as 0 (`signer.py` 1550, `LocktimeShown`);
* a refund leaf with height 2127281 and a key whose 30th byte is 0xAC is read with
  another key, as the pattern of a timelocked leaf already stands in the push of the height
  (`signer.py` 1544, `Hidden`);
* `build_dlc` accepts timeout 0, for which `build_refund_psbt` builds nothing
  (`signer.py` 2055, `BuildRefundPsbt`);
* a timeout of 500000000 or more is a time on chain, while `build_collateral_dlc` compares
  it with a height (`lending_dlc_builder/builder.py` 121; `OpensOnTime` has both cases);
* the repay leaf needs only its key, so that the safety height is no on-chain lock for the
  borrower (`lending_scripts.py` 138-140);
* a gap of exactly 144 blocks is refused where the package README says it is enough
  (`builder.py` 155).

# Satsu: a verification project

Satsu is a shielded pool for sBTC on Stacks. A depositor gives the pool one
denomination together with a commitment, the commitment becomes a leaf of a
Merkle tree, and whoever can prove knowledge of a leaf's secret may later take
the denomination out to any address by revealing a nullifier, directly or through
an optimistic escrow in which watchers may challenge the withdrawal. Around the
contracts stand a TypeScript SDK, a relay daemon, a scanner, a web application and
a Rust prover.

This directory holds TLA+ modules translated from the sources, TLC configurations
that check them on small instances, and TLAPS proofs of the properties that matter
most. Paths below are relative to `src/`.

* [1. Inventory](#1-inventory)
* [2. Plan](#2-plan)
* [3. Modules and code](#3-modules-and-code)
* [4. Runs](#4-runs)
* [5. Bounds, abstractions and fairness](#5-bounds-abstractions-and-fairness)
* [6. Proofs](#6-proofs)
* [7. Where code and documentation part](#7-where-code-and-documentation-part)
* [8. Not modelled](#8-not-modelled)

## 1. Inventory

### Contracts (`contracts/*.clar`)

| Component | State | Operations | Calls |
|---|---|---|---|
| `pool-v1` (and `pool-v1-testnet`, the same over another token) | `deposit-commitments` | `deposit`, `withdraw`, `withdraw-optimistic` | token `transfer`, tree `append-leaf`, `is-known-root`, registry `is-nullifier-used`, `mark-used`, verifier `verify-proof`, escrow `submit-withdrawal` |
| `merkle-tree` | `current-root`, `next-leaf-index`, `tree-frontier`, `known-roots`, `authorized-callers` | `append-leaf`, `set-authorized-caller` | none |
| `nullifier-registry` | `used-nullifiers`, `authorized-contract` | `mark-used`, `set-authorized-contract` | none |
| `withdrawal-escrow` | `next-withdrawal-id`, `pending-withdrawals`, `reserved-nullifiers`, `challenges` | `submit-withdrawal`, `finalize-withdrawal`, `challenge-withdrawal`, `resolve-challenge` | token `transfer`, tree `is-known-root`, registry `is-nullifier-used`, `mark-used` |
| `sbtc-token` (mock) | balances, allowances | `transfer`, `approve`, `mint` | none |
| `proof-verifier` | none | `verify-proof` | none |
| `stealth-v1` | meta-addresses, name links, verifier attestations | `register`, `update`, `verify-bns-name`, `link-btc-name`, `unlink-btc-name`, configuration | none |

Every contract is shared state: anyone may call any public function at any time, in
any order, and the deployer may re-point the registry and the tree in between. A
transaction is atomic; what is hard is the order of transactions and the relations
they must keep between five contracts.

Correct means, for the pool as a whole: a nullifier is paid once over both
withdrawal paths; the pool always holds what it owes its depositors; the escrow
holds what its open withdrawals claim; a challenged withdrawal is paid only after
the challenge was resolved and a new period has passed; reservations, withdrawals
and challenge records never disagree; and every withdrawal is settled in the end.
For the stealth registry: a name resolves, and to keys its owner chose. For the relay
daemon: an accepted transaction is broadcast once, in turn, and its status told
truly, unless the process ended or the disk failed at a bad moment, and then only
what that explains. For the scanner: no payment is passed over.

For the tree: every root is new, is the one any client computes from the same
leaves, and commits to the leaves.

### SDK (`packages/sdk/src`)

| Component | State | Hard behaviour | Correct means |
|---|---|---|---|
| `pool/merkle.ts`, `IncrementalMerkleTree` | frontier, leaves, root, index | must reproduce the contract's roots from its events, late or from the start again | roots agree; proofs lead to the root |
| `pool/deposit.ts`, `pool/withdraw.ts` | the account's nonces, at the node | two transactions for a deposit, either of which may be lost, dropped or repeated | approval before deposit, one payment for one commitment, no nonce left out |
| `pool/timing.ts`, `privacy/*` | none; requests under way | counts read at different blocks; waits in blocks, milliseconds and jitter | a wait that was told suffices and ends; what is told of the pool was true of it |
| `notes/*` | notes with a spent mark; times of backups | save, mark, list, export, import overlap at every `await`; backups are damaged | no note made up, lost from a listing, or brought back after it was spent; silence about backups is justified |
| `relayer/*` | registered relayers with what they answered | concurrent probes that write back after an `await`; a lost answer makes the client submit elsewhere | only relayers asked for are asked, once each, and a submission ends |
| `proof/*` | the cached WASM module | overlapping loads and resets; byte layouts on three sides | one load for a reset; a proof is bound to its inputs |
| `wallet/*` | none | a hash that reduces to 0; three copies of the same derivation | the owner and the scanner find what was sent, and can spend it |

### Services (`packages/relay/src`, `packages/scanner/src`)

| Component | State | Hard behaviour |
|---|---|---|
| relay `queue.ts` | items in memory and a file | crash between broadcast and `markSubmitted`; a write that fails and is swallowed; a torn file that restores as empty |
| relay `index.ts`, `submitter.ts` | one `processing` flag, a timer | shutdown against a tick that awaits; any error is final; no confirmation is ever recorded |
| relay `routes.ts`, `fee-manager.ts`, `health.ts` | fee cache | requests between ticks |
| scanner `index.ts`, `chainhook.ts`, `stealth-detector.ts`, polling | block cursor | overlapping polls, a cursor read before an `await` and moved after it, a page of 50, a chain that drops blocks |
| scanner in chainhook mode | the server, the list of the in-memory notifier | a payload posted again until it is answered, stop or crash while one is handled |
| scanner `notification.ts` | none, or the list of the in-memory notifier | a retry of what was delivered; a notification dropped; one payment that holds back the next |

### Application, prover, deployment

`packages/app` is a React client of the SDK. Its state is in three hooks: `useWallet`
(each component that calls it has its own, beside the browser storage all share),
`useRelayer` (a poll with a timeout) and `useSatsu` (the notes of one form). The wallets
hang, refuse or answer late, and forms unmount while they wait.
`prover/` and `circuits/` are finite-field arithmetic. `scripts/deploy-testnet.sh`,
`Clarinet.toml` and `deployments/` deploy the contracts and make the two configuration
calls (`set-authorized-caller`, `set-authorized-contract`).

### How they interact

The SDK builds transactions for the contracts, reads their counts, follows their tree by
events and hands operations to relay daemons over HTTP; the daemon hands transactions to
the node; the scanner reads the pool's events, polled or posted by Chainhook, and calls
handlers; the application calls the SDK's wallet and the relay's status. Contracts share
the chain's state. All others share nothing: between them there are only requests that
may fail or be lost.

`PROJECT.json` lists every component with its status, and every hazard with its line
and the properties that watch it.

## 2. Plan

The order follows what the system may lose: first money, then messages, then
convenience.

1. **Contracts, together** (done): `StacksChain`, `ClarityMap`, `SbtcToken`,
   `NullifierRegistry`, `MerkleTree`, `WithdrawalEscrow`, `PoolV1`, composed by
   `PoolSystem`; proofs of type correctness and of every safety property the runs check.
2. **The SDK's tree beside the contract's** (done): `SdkMerkleTree`, with a proof that the
   roots agree and tell the number of leaves.
3. **Abstract pool** (done): `ShieldedPool`, three sets (deposited, open claims, paid),
   with `PoolSystem` shown to implement it by a refinement mapping, as a run and as a
   theorem.
4. **Relay daemon** (done): `RelayQueue`, `RelayDaemon`, with crash, restart, shutdown, and
   proofs of all its safety properties from one invariant over queue, file and history.
5. **Stealth registry** (done): `StealthV1`, with an inductive proof of its properties.
6. **Scanner** (done): `Scanner` for polling, with a proof about its cursor, and
   `ChainhookScanner` for chainhook mode, with a proof that no payment is lost.
7. **The SDK** (done): `NoteStore`, `Relayers`, `AccountTransactions`, `PrivacyAdvice`,
   `SdkBytes` and `Prover` (with the first checks of the verifier contract),
   `StealthAddress`; proofs of all their safety properties, the byte formats' included.
8. **The application** (done for the hooks): `WalletHook`, `Dashboard`, with proofs of the
   safety cores of their liveness.
9. Next, if the project goes on: the failover client composed with the relay queues and
   the contracts' refusal of a spent nullifier.

## 3. Modules and code

```
StacksChain ── SbtcToken ───────────┐
     │  └───── NullifierRegistry ───┤                           ShieldedPool
ClarityMap                          ├── WithdrawalEscrow ── PoolV1 ── PoolSystem ── MCPoolSystem
     │ └────── MerkleTree ──────────┤                                     │
     │              └── SdkMerkleTree                             PoolSystem_proofs
     │                                                       PoolSafety_proofs ── PoolFunds_proofs
     └── StealthV1 ── MCStealthV1
              └────── StealthV1_proofs

Iteration_proofs: induction and sums, used by the proofs below and by PoolFunds_proofs

RelayQueue ── RelayDaemon ───┐
  Scanner, ChainhookScanner ─┴── Daemons_proofs
Relayers, AccountTransactions, SdkMerkleTree, PrivacyAdvice ── SdkClients_proofs
NoteStore, StealthAddress, Prover, WalletHook, Dashboard ── SdkSecrets_proofs

MCDaemons   = RelayDaemon, Scanner
MCUserSide  = SdkMerkleTree, AccountTransactions, PrivacyAdvice, Relayers,
              ChainhookScanner, WalletHook, Dashboard
MCSecrets   = MCStealthV1, StealthAddress, NoteStore, SdkBytes ── Prover ── MCProver
```

The contracts of the pool share state and are composed in `PoolSystem`. `StealthV1` has no
call to or from them. The services touch the contracts only through transactions and
events: the relay daemon hands over transactions it does not look into, and whether the
contracts accept them is the node's answer; the scanner reads the events of the pool.
Each is therefore a specification of its own, with the other side as a choice; so are the
parts of the SDK and of the application, whose other sides are a node, a relayer, a
wallet or the platform's crypto.

Components that share no state are put side by side in one MC module (`MCDaemons`,
`MCUserSide`, `MCSecrets`): a variable `moving`, chosen at the start, says which of them
takes steps, and the others stay as they begin. Since no step or property of one reads a
variable of another, this shows of each what a run of its own would, and no more;
nothing is claimed of their product. The fairness of each component is restated there
under `moving = "..."`.

| Module | Code | State and actions |
|---|---|---|
| `ClarityMap` | Clarity's `define-map` | `MapSet`, `MapDelete`, `EmptyMap`: partial functions |
| `StacksChain` | what contracts read from the chain | principals, `stacksBlockHeight` |
| `SbtcToken` | `sbtc-token.clar` | `balances`; `CanTransfer`/`AfterTransfer` are the guard and the effect of one `transfer`, so that a handler that transfers three times chains three of them |
| `NullifierRegistry` | `nullifier-registry.clar` | `usedNullifiers`, `authorizedContract`; `MarkUsed`, `SetAuthorizedContract` with the `contract-caller` as parameter |
| `MerkleTree` | `merkle-tree.clar` | the five pieces of state; `AppendLeaf` with both folds; `SetAuthorizedCaller`. `HashAtStoredLevel` is the fold of `process-level`, `StoredLevel` that of `find-stored-level`, `RootAbove` that of `compute-root-level` |
| `WithdrawalEscrow` | `withdrawal-escrow.clar` | the four maps and variables; `SubmitWithdrawal`, `FinalizeWithdrawal`, `ChallengeWithdrawal`, and `resolve-challenge` as `UpholdChallenge` and `RejectChallenge` |
| `PoolV1` | `pool-v1.clar` | `depositCommitments`; `Deposit`, `Withdraw`, `WithdrawOptimistic` |
| `PoolSystem` | all of the above, as deployed | one action per transaction (`DepositTx` and so on), blocks, three history variables, the properties |
| `ShieldedPool` | what the pool contracts promise | `deposited`, `claims`, `paid`; `PayIn`, `PayAtOnce`, `MakeClaim`, `PayClaim`, `ReleaseClaim`. `PoolSystem` maps `depositCommitments`, the nullifiers of open withdrawals and the nullifiers paid on either path to them |
| `StealthV1` | `stealth-v1.clar` | its four maps and one flag; one action per public function, with the sender; `excused` is history |
| `RelayQueue` | `packages/relay/src/queue.ts` | `items` and `file`; `Enqueue`, `Mark`, `PeekNext`, `Persist` with its failures, `Restored` |
| `RelayDaemon` | `packages/relay/src/index.ts`, `routes.ts`, `submitter.ts`, `fee-manager.ts` | requests (`PostDeposit`, `PostWithdrawal`, `TellFee`); `Tick`, then `NodeTakes`, then `Submitted` or `SubmissionFails`, so that everything else may happen between peek, broadcast and mark; `Shutdown`, `Exit`, `Crash`, `Start`, `Clock` |
| `Scanner` | `packages/scanner/src/index.ts`, `chainhook.ts`, `notification.ts` | the chain's events, the cursor, and polls that are `asked` (the `fetch` is awaited) or `notifying` (a webhook is awaited); the history `highestSeen`, `offPage`, `reused` |
| `ChainhookScanner` | the same files, chainhook mode | what Chainhook still has to post, requests under way with the payments left in each, the in-memory notifier; `Posted`, `PaymentHandled`, `PayloadAnswered`, `GivenUp`, `Stop`, `CrashEnds`, `StartAgain` |
| `AccountTransactions` | `packages/sdk/src/pool/deposit.ts`, `withdraw.ts`, and the pool's answer | one account at a node: the next nonce, the transactions waiting by nonce, the calls of the SDK with the transaction each is at; a request fails before or after the node took its transaction |
| `PrivacyAdvice` | `pool/timing.ts`, `privacy/score.ts`, `privacy/pool-stats.ts` | a chain that moves on while counts are read one by one; the advice as operators |
| `NoteStore` | `notes/store.ts`, `backup.ts`, `encryption.ts` | stores in memory, calls under way cut at each `await`, one backup on a medium that may damage it; history of what was saved, marked and copied |
| `Relayers` | `relayer/discovery.ts`, `failover-client.ts`, `client.ts`, and the answers of `packages/relay/src/routes.ts` | the registry, calls that probe, refresh, or walk down a ranking; what each relayer accepted and which answers were lost |
| `SdkBytes`, `Prover` | `utils/crypto.ts`, `pool/commitment.ts`, `proof/*`, the checks of `proof-verifier.clar` up to the queries | bytes as terms, both proof formats written and read, and the loader with overlapping calls |
| `StealthAddress` | `wallet/*`, and the detector of `packages/scanner/src/stealth-detector.ts` | a group of `Order` elements, a hash function chosen at the start, payments sent by `PayTo` and `PaySelf`; finding and spending as operators |
| `WalletHook` | `packages/app/src/hooks/useWallet.ts` | per component the hook's state and its calls of `connect`, with the wallet each waits for; the shared storage |
| `Dashboard` | `useSatsu.ts`, `useRelayer.ts`, `DepositForm.tsx`, `WithdrawForm.tsx`, `DashboardContent.tsx` | tabs that mount and unmount forms with the notes of their hooks; the status poll |
| `SdkMerkleTree` | `packages/sdk/src/pool/merkle.ts` | the contract tree, its `leaf-appended` events, and a client tree that follows them in its own time and may start again |

A public function that answers `(err ...)` undoes everything the transaction wrote, so
only successful transactions are steps, and each step is the conjunction of every
`asserts!` and `unwrap!` of the function and of the functions it calls. A call between
contracts is an operator of the callee's module; `withdraw-optimistic` passes the
balances it leaves behind to `SubmitWithdrawal`, which goes on from there. Inputs are
quantified in `PoolSystem`'s actions over constant sets.

`directSpends`, `poolFunded` and `rejections` are history variables: the contracts do
not keep them, and no guard reads them except the bound on `rejections`.

Some modules hold, beside a definition, a second one that a plausible slip would have
produced (`CanOverdraw` beside `CanTransfer`, `PendingOnly` beside `PendingAgain`, and so
on). They are used by no specification; substituting one for the definition it stands
beside shows that a property notices the slip. `PROJECT.json` pairs each with the
property.

## 4. Runs

| Run | Module and configuration | Checks | Shows |
|---|---|---|---|
| `core` | `MCPoolSystem`, `MCPoolSystem.cfg` | `TypeOK`, `ReservationsMatch`, `NullifierPaidOnce`, `ChallengeRecordsMatch`, `PoolSolvent`, `EscrowAccounted`, `StatusOrder`, `PayoutWaitsOutChallenges`, `ImplementsShieldedPool` | both withdrawal paths, repeated challenges and reconfiguration by the deployer, interleaved |
| `settlement` | `MCPoolSystem`, `MCPoolLiveness.cfg` | `WithdrawalsSettle` | every withdrawal is settled, outside the circumstances `MayBeStuck` names, also with what can be done past the pool: nullifiers and leaves entered by the deployer, tokens sent by hand, an unfunded withdrawal |
| `daemons` | `MCDaemons` | relay: `FileKeepsUp`, `RebroadcastsExplained`, `StatusTruthful`, `QuoteHolds`, `SentInTurn`, `ItemsSettle`; scanner: `CursorPlaced`, `PaymentsArrive` | two items and up to three ends of the process, with failed and torn writes and lost answers; two overlapping polls over a page of two, failed requests and webhooks, a restart, a fork |
| `user_side` | `MCUserSide` | tree: `RootsAgree`, `PowersOfTwoProve`; account: `PaidOnce`, `OrderedByNonces`; advice: `WaitsEnd`, `SetSizeExplained`, `WaitingHelps`; relayers: `AskedAreCurrent`, `SubmissionsEnd`; chainhook: `PaymentsTold`; wallet: `ButtonComesBack`; dashboard: `OfflineHandled` | seven components around one user |
| `secrets` | `MCSecrets` | registry: `NamesResolve`, `LinksAttested`, `OnlyOwnersRedirect`; payments: `PaymentsFound`; notes: `SilenceJustified`, `NotesAuthentic`, `ListingComplete`, `MarksKept`; prover: `ReadOnce`, `BoundToInputs` | what keeps and publishes keys and notes |
| `escrow_backing`, `paths_apart`, `registry_for_pool`, `sdk_proofs`, `scanner_cursor`, `proof_format`, `failover` | | one property each | statements of the repository that the code does not keep: [section 7](#7-where-code-and-documentation-part) |

What the properties say:

* `ReservationsMatch`: reservations and unslashed withdrawals correspond one to one, so
  two withdrawals of one nullifier are never open at once.
* `NullifierPaidOnce`: no nullifier is paid twice, on one path or over both. The two
  paths check different maps and are tied together by `mark-used` alone. In `core` no
  nullifier is marked without a withdrawal: with the deployer's marks (`DirectMarks`) the
  instance grows past two million states. The theorem `NullifierNeverPaidTwice` covers
  them for every set of marks, and `settlement` takes them.
* `ChallengeRecordsMatch`: after any number of challenges of one withdrawal, its status
  and its challenge record agree, and the block heights in them are in order.
* `PayoutWaitsOutChallenges`: a withdrawal once challenged is paid only when that challenge
  is resolved and more than a period has gone by since it was made.
* `PoolSolvent`: the pool's balance covers every deposit not paid out.
* `EscrowAccounted`: the escrow's balance accounts for the denominations it was sent and
  the bonds it holds, *less the bonds repaid on rejected challenges*. That last term is
  the subject of the first divergence below; the property says that nothing else is
  missing.
* `StatusOrder`: a withdrawal's status moves along four edges and the rest of its record
  stays.
* `WithdrawalsSettle`: see fairness below. `MayBeStuck` is the list of circumstances in
  which a withdrawal can wait forever, and the run shows the list to be complete.
* `ImplementsShieldedPool`: every transaction is a step of the abstract pool or changes
  nothing it can see, so that claims are exclusive and end once, in payment or release.
* `NamesResolve`, `OnlyOwnersRedirect`, `LinksAttested`: a link, once found, leads to keys
  its owner chose, whatever the other principals and the verifiers do; and the two ways in
  which a link may differ from the attestation are the only ones.
* `FileKeepsUp`: after a write that succeeded, the file holds the queue and every item a
  client was told of, except those an earlier failure had already lost.
* `RebroadcastsExplained`: the node is given an item a second time only after the process
  ended while that item was awaited or while the file was behind. The code has no other
  protection, and none against these.
* `StatusTruthful`: `submitted` is never said of what the node did not take, and `pending`
  of what it took only while in flight or after such an end. `failed` promises nothing,
  since a lost answer is an error like any other.
* `QuoteHolds`: a fee a client was told is refused only when the queue has grown.
* `SentInTurn`: items leave in the order they were accepted, and broadcasts keep the delay
  of `config.ts:43` while the process lives.
* `ItemsSettle`: every accepted item gets its outcome, or a bad write made the process
  forget it.
* `CursorPlaced`, `PaymentsArrive`: overlapping polls that end in any order keep the cursor
  at or above what has been seen; the cursor passes no payment that was not handed to the
  handlers, where passing means that the payment lies below the cursor, and each payment
  gets there. Excused are only payments that were not on the
  page of a poll that should have processed them, and blocks that replace dropped ones at
  heights already passed, which the cursor does not know of.
* `RootsAgree`, `PowersOfTwoProve`: the client's root is the contract's; a root never
  recurs, even when leaves do (`RootsTellApart`); and for a number of leaves that is a
  power of two, exactly the leaf at an index is proved by that index's proof.
* `PaymentsTold`: what Chainhook was answered for has been told (`AnsweredTold`); a payment
  of the chain that was not told is in a payload that will be posted (`NothingLost`); and
  every payment of a block that stays is told in the end, over crashes, stops and requests
  given up.
* `PaidOnce`, `OrderedByNonces`: a deposit submitted again after a lost answer is paid
  once, because the contract refuses a commitment it has; a deposit given a nonce is mined
  after its approval, unless something took the approval's place; and no transaction waits
  for a nonce nobody uses, unless the node dropped one.
* `WaitsEnd`: who waits as long as `calculateDepositDelay` or the estimate of
  `shouldDeposit` said, with enough transfers, is then told to deposit; and everybody is
  in the end, by blocks alone.
* `SetSizeExplained`: the anonymity set made of two counts that were read at different
  blocks lies between what the pool had when the reading began and has when it ends.
* `WaitingHelps`: over every bracket border, bonus and cap, a larger set, more blocks or
  more transfers never lower the score or take back a recommendation to go ahead.
* `AskedAreCurrent`, `SubmissionsEnd`: a submission asks relayers that were found healthy
  since it began, by itself or by a call that overlapped it, and none that was neither
  registered nor being probed at its start, unless such a call wrote it; each once; and it
  ends whatever relayers do.
* `ButtonComesBack`, `OfflineHandled`: no overlap of clicks, remounts, disconnects and
  hanging wallets leaves a component connecting; when the relayer stays away the dashboard
  stops showing it online and leaves no note of an open form pending.
* `SilenceJustified`: when `getBackupWarning` says nothing, each unspent note was in some
  backup, or was saved in the moments between an export's copy and its end. The second
  case is real: see section 7.
* `NotesAuthentic`, `MarksKept`, `ListingComplete`: no damage to a backup and no overlap of
  calls makes up, repeats or alters a note, brings a spent one back, or hides one from a
  listing under way.
* `PaymentsFound`: for every function that SHA-256 of a point may be, including one whose
  value reduces to 0, SDK and scanner find a payment to their keys, and whoever finds one
  has the key to its address.
* `ReadOnce`, `BoundToInputs`: the WASM file is read once for each reset; a hash-based proof
  verifies locally with its own public inputs alone, and reads back as its path. The
  recipient and the fee are hashed one after the other without a length: the run has one
  address that is a prefix of another, and fees of one byte and of two.

## 5. Bounds, abstractions and fairness

| Bound | In | Value | Why enough |
|---|---|---|---|
| `MaxHeight` | `NewBlock` | 2 to 4, 3 in `settlement` | with a period of one block, room for a period, a rejection, and a second period (`core`), or for a period begun anew (`settlement`) |
| `ChallengePeriod` | constant, 144 in the code | 1 | there is a block inside the period, its last block, and the first after it; the proofs are for any period |
| `MaxWithdrawals` | `SubmitWithdrawal` | 2, 1 in `settlement` | two competing withdrawals of one nullifier, or of two; identifiers are never reused |
| `MaxRejections` | `RejectTx` | 2 or 4 | rejections repeat without limit within one block, so the count must be cut off; after two the escrow's debt has exceeded a denomination |
| `PoolDenomination`, `MinBond`, fees, bonds | constants | 2, 1, {0} or {1}, {1} | the least values that tell denomination, fee and bond apart; balances let the user pay two deposits and three bonds |
| `TreeDepth`, `MaxLeaves` | `AppendLeaf`, `Insert` | 1 and 2 in the pool, 3 and 8 for the SDK | the pool needs roots only to be new; eight leaves fill a tree of depth three, the last of them the leaf whose index has no 0 bit |
| `Users`, `Nullifiers`, `Commitments` | constants | 1, 1 or 2, 1 or 2 | the user and the deployer are two signers, each of whom may be relayer and challenger |
| `MaxItems`, `MaxEnds` | `Enqueue`, `Ends` | 2, 3 | one item in flight and one behind it; a process end for each item and one more while the file is behind |
| `BatchDelay`, fees | constants | 2; base 10, percentage 5, maximum 11, offers 10 and 12 | a timer half-way when something happens; `SurchargeDepth` 0 (5 in the code) lets a queue of two reach the surcharge and the cap |
| `Names`, `Principals` | constants of `StealthV1` | 2, 3 | the deployer and two others, each of whom may own, verify and attest |
| `PageSize`, `Polls` | constants of `Scanner` | 2 (50 in the code), 2 | blocks of one event or two payments overfill a page; polls overlap |
| `MaxHeight`, `MaxForks`, `MaxStarts` | `BlockMined`, `BlocksDropped`, `Restart` | 2, 1, 2 | a block behind the cursor, one at it, and one that replaces a dropped one; one restart |
| `Requests`, `MaxBlocks`, `MaxGivenUp`, `MaxExits` | `ChainhookScanner` | 2, 2, 1, 1 | two payloads, one of them posted again while its first request is still handled, and a stop or crash |
| `Submissions`, `NoteCommitments`, `Funds`, `MaxDrops` | `AccountTransactions` | 2, 1, 2, 1 | the same deposit twice with money for both, or two withdrawals, one with a fee the contract refuses; four nonces |
| `Counts`, `Heights`, `TransferCounts` | `PrivacyAdvice` | {0, 9, 1000, 60000}, {0, 2, 3, 144, 720}, {0, 50} | both sides of bracket borders, of sparse use (5 % of `MAX_LEAVES`), of the least delay, of a day and of the cap of the waiting bonus; delays are scaled so that the least is no whole number of blocks |
| `Urls`, `InitialUrls`, `Callers`, `MaxRemovals` | `Relayers` | 2, 1, 2, 1 | one relayer known and one that a probe adds; two calls that overlap; one removal between |
| `Views`, `Providers`, `Clicks` | `WalletHook` | 2, 2, 2 | header and page, two wallets beside the picker, two clicks in one view |
| `MaxDeposits` | `Dashboard` | 2 | a note in a form that is gone and one in a form that is open |
| `Stores`, `MaxNotes`, `MaxCalls`, `MaxTime`, `MaxExports`, `MaxReloads`, `Staleness` | `NoteStore` | 1, 2, 2, 2, 1, 1, 1 | a note before and a note after the backup, any two calls overlapping, a backup too old, a memory lost and restored |
| `HashLength`, `FeeLength`, `Radix`, `PathLength`, `ByteBits` | `SdkBytes`, `Prover` | 2, 2, 256, 3, 2 (32, 16, 256, 19, 8) | a fee of more than one byte; directions that leave the last byte part empty, as 19 bits leave the third |
| `Recipients`, `Fees`, `Secrets` | `Prover` | 2, {1, 257}, 2 | one address a prefix of the other; fees with and without a leading zero byte; another's note. A note's leaf index is 0, the tree's last (`MaxLeaves - 1`), or one past it |
| `Order`, `Hashes` | `StealthAddress` | 5, {0, 7} | a hash that reduces to 0 and one beyond the order; every pair of keys |

`NewBlock` fires only while some pending withdrawal's period runs: the contracts compare
the height with ends of periods and with nothing else, so further blocks change no
answer. `core` is reduced by the symmetry of nullifiers and of commitments;
`settlement` is not, since symmetry is unsound for liveness. Deadlock is not checked in `core`,
`settlement`, `user_side` and `secrets`: once deposits, nullifiers, heights, calls or
resets are used up, nothing is left to do, as in the bounded system itself. `secrets` uses
the symmetry of the stealth registry's users and names, with safety properties alone.

Abstractions. A hash is a free term (a pair), so two hashes are equal exactly when their
inputs are; zero hashes are the code's constants by the relation its comment gives them.
`verify-proof` is a constant operator: the pool does not look inside a proof, and the
theorems hold whatever it answers. In the runs it accepts every nullifier against every
root but the empty one, which is the weakest verifier that still needs a deposit.
Clarity integers have 128 bits and abort on overflow; token amounts are bounded by the
supply, and `fee < denomination` is asserted before the only subtraction. Events,
ephemeral keys, proof hashes and the heights stored only for lookups are left out.

SHA-256 in `SdkBytes` is a free function too, a byte of a hash being what was hashed and
its place, so that a recipient, a fee or a secret cannot collide by accident and can only
be confused where the code puts bytes of one next to bytes of another. The curve of
`StealthAddress` is a group of `Order` elements in which a point is its logarithm; that
secrets are hard to find is not a claim of the model. A damaged backup is one whose bytes
are not those that were sealed: its tag or its checksum tells, as the code's checks do.
Of relayers, fees and latencies only order the ranking, so any ranking of the healthy ones
may come out.

Fairness (`FairSpec`, used by `settlement` and `registry_for_pool`): weak fairness of
blocks, since the chain goes on; of `finalize-withdrawal` for each withdrawal, since
anyone may call it and the relayer's bond depends on it; and of the contract owner
resolving a challenge one way or the other, since the code gives that to the owner and
to nobody else. Nothing is assumed of depositors, relayers, challengers or the deployer's
configuration. Fairness of resolution is an assumption on a person, not on the code:
without it a challenged withdrawal waits forever.

Of the relay daemon, `FairSpec` assumes that timers fire and the clock runs, that an
awaited submission is answered or fails, that a process told to stop exits
(`index.ts:156` forces it after ten seconds), and that something starts the process
again: the last is an assumption on the deployment. `ends` is bounded, so crashes cease.
Nothing is assumed of requests, of the node's answer being good, or of writes. A restart
broadcasts without the delay, since `index.ts:127` starts the first timer at 0;
`SentInTurn` excuses the first broadcast of a process for that.

Of the scanner, `FairSpec` assumes that the interval timer starts polls, that handlers
end (`fetch` fails or answers; the second try is the last), and, strongly, that the API
answers a poll again and again if it is asked again and again. Blocks, forks and
restarts are bounded and owe nothing. `BlockMined` gives a block one event of the pool
or two payments; an event is a payment to the scanner's owner, another withdrawal or
something else, which is all the scanner finds out about it. The events of
`withdraw-optimistic` are not `withdrawal` events and count among the last. Deadlock is
checked for both daemons, which never stop.

Of the scanner in chainhook mode, fairness is assumed of Chainhook posting what was not
answered, of handlers ending, and of a stopped or crashed process being started again;
crashes and answers not waited for are bounded. Of the relayer client: probes and requests
are answered or end at their timeouts, and a call goes on when they have. Of `useWallet`:
each request to a wallet ends at its own timeout; nothing of the wallets. Of the
dashboard: the status poll fires and ends, and the request of a deposit ends. Of the
account: what is next at the node is mined. Of the advice: blocks pass.

## 6. Proofs

The theorems on the pool hold for every value of the constants that satisfies the assumptions
`PrincipalsAssumption`, `MaxHeightAssumption`, `InitialBalancesAssumption`,
`TreeAssumption`, `EscrowAssumption` and `InputsAssumption`: the four kinds of principals
are distinct, balances and amounts are natural numbers, denomination and least bond are
not zero, an index has no more bits than the tree levels (the code has a depth of 20 and
2^20 leaves), and inputs come from the sets they are said to come from. In particular the
number of principals, nullifiers, withdrawals, blocks and rejections, the challenge period
and the verifier are arbitrary. Sets of inputs are not assumed finite.

| Module | Theorem | Argument |
|---|---|---|
| `PoolSystem_proofs` | `TypeCorrect`: `Spec => []TypeOK` | `TypeOK` is inductive. It is not only about types: a balance stays a natural number because each transfer of a chain is guarded on the balance the one before leaves, and the keys of each map stay inside the identifiers handed out |
| `PoolSafety_proofs` | `ReservationsAlwaysMatch` | `ReservationsMatch` is inductive given `TypeOK`: a submission reserves a free nullifier under a new identifier, upholding a challenge removes the reservation of the withdrawal it slashes, nothing else touches either |
| | `NullifierNeverPaidTwice` | `NullifierPaidOnce` is not inductive: nothing in it stops the next `mark-used`. `PayoutInv` adds `PayoutsMarked`, that whatever was paid is in `usedNullifiers`; then the guard of `mark-used` refuses a second payment on either path, whichever contract the registry names at the time |
| | `ChallengeRecordsAlwaysMatch` | `ChallengeInv` adds `BlocksPast`: no recorded height is ahead of the chain, which is what orders a new submit block after the challenge it follows |
| | `PayoutsWait` | an action property: `ChallengeInv` places the last challenge before the running period, and finalization waits out the period |
| | `StatusesInOrder` | by cases on the kind of step; needs `TypeOK` for the shape of the record |
| | `PoolImplementsShieldedPool` | the mapping is evaluated step by step: initial states map to `PoolInit`, and each kind of step to an abstract action or a stutter. `TypeOK`, `ReservationsMatch` and `PayoutInv` are used: without `PayoutsMarked` a payment could repeat, without `ReservationsMatch` a claim could be made twice |
| `PoolFunds_proofs` | `PoolAlwaysSolvent` | `SolvencyInv`: the pool's balance and the sizes of `directSpends`, `poolFunded` and `depositCommitments`, with their finiteness, and with the payments marked, so that a payment makes `directSpends` one larger; deposits add a denomination, payments take exactly one, no other transaction has the pool as sender |
| | `EscrowAlwaysAccounted` | `Accounted`: some function sums what each withdrawal's record still owes (`IsSum`), and the escrow's balance covers its last value. A submission appends a term, and every other transaction changes one term by no more than it changes the balance (`SumOfOneMore`, `SumOfOneChanged`); that the recursion of `EscrowAccounted` is such a function, and the only one, is `RecursiveSum` and `SumUnique` |
| | `SettlementNeverRefused` | `SettlementsAccepted` lists, for each way to settle, the guards of the whole transaction with its transfers; the lemmas `AcceptedPayoutIsStep` to `AcceptedRejectionIsStep` show that these lists are all that stands between a state and the step. `RecordsPayable` says of each record that its shares and parties are ones the token pays; outside `MayBeStuck` the withdrawal still owns its nullifier and its records, and the escrow covers its share because a sum over withdrawals covers each term (`SumCovers` of `Iteration_proofs`, `Accounted`) |
| `StealthV1_proofs` | `StealthTyped`, `LinkedNamesResolve`, `LinksStayAttested` | `StealthInv`, the conjunction of the three, is inductive: no function deletes a meta-address, and each that touches a link or an attestation brings `excused` up to date. The constants are arbitrary but for `StealthAssumption` |
| | `OwnersAloneRedirect` | an action property: from `StealthInv`, by cases on the function called |
| `Daemons_proofs` | `FileIsKeptUp`, `RebroadcastsHaveExcuses`, `StatusIsTruthful` | none of the three is inductive. `RelayInv` holds, for each item in memory, what its status says of its broadcasts (`SentAsSaid`), the same for each item of the file unless a running process knows better than its last, failed write (`FileAsSaid`), and that the item in flight is the only one awaited and is still the first pending one (`AwaitsAlone`, `InTurn`): a restart reads the file, so what is true of the file must imply what will be claimed of memory |
| | `ItemsAreSentInTurn` | an action property: `InTurn` makes the item in flight the first pending one, `DelayRuns` relates the timer to the time since the last broadcast |
| | `WorkStaysScheduled` | `NextIsSet`, inductive with `RelayInv`: what fires or ends sets the next timer or an item in flight, which is no item's absence (`ItemsAreSome`); only a shutdown sets none. `AwaitsAlone` excludes both at once, `Remembered` says what is in the queue |
| | `QuotesHold` | `QuoteInv`: a quote is the fee at the depth it was made at; the fee is monotone in the depth, and capped last |
| | `CursorStaysPlaced` | `ScannerInv`: whatever lies below the cursor is notified or excused, and for each poll that is notifying, whatever lies below where it will move the cursor is notified, excused or still in its list (`PollPlaced`). A poll that ends moves the cursor there; another that moved it further in the meantime settled more. `FilteredMembers` says what the parsing of a page keeps |
| | `PaymentsNeverLost` | neither half is inductive. `HookInv`: what a request has not told of its payload it has still to do (`PayloadKept`), and one request at most is awaited, for the payload its answer removes (`AwaitsFirst`); so what is removed was told. An order of a payload's payments names each of them, by counting (`OrdersNameAll`) |
| `SdkClients_proofs` | `AskedAlwaysCurrent` | `RelayersInv`: `CallsKnow` says of a call that still probes that each healthy entry of the registry was written since it began, or its own probes are still to write over it; that makes the ranking it takes afterwards current |
| | `RelayersReachedOnce` | `ReachInv` counts: what a relayer took of an operation, and the calls that may still ask it, are no more than the submissions (`Counted`). A submission adds one call, a relayer that takes turns one call of the count into one taken, and a call that has a list asks each relayer at its place only, because lists name none twice (`ListsOnce`) |
| | `DepositsPaidOnce` | `AccountInv`: a call, and a transaction at the node, has at most one commitment, so that a deposit mined adds one or is refused; the set of deposits stays finite |
| | `ApprovalsComeFirst` | `OrderInv`: a deposit that waits has its approval mined, displaced or waiting at a lower nonce (`DepositOrdered`), and a call between its two transactions knows where the first is (`CallOrdered`); the next to be mined has nothing below it. `FreeNonceExists` counts: among as many nonces as wait, and one more, one is free |
| | `ClientMirrorsContract` | two invariants. `TreeInv`: there is a history of the contract's frontiers, one for each event, and the client has the hash of each level of the one after as many leaves; from equal frontiers its walk up and the contract's folds make one hash and one root (`SameHash`, `SameRoot`); only the last leaf the tree has room for, whose index has no 0 bit, stores nothing, and no client needs the frontier after it (`LastLeafFills`). `ApartInv`: no frontier holds a zero hash of its level or of one above, and each announced root was made out of such a frontier. Two equal roots are then taken apart from the top: each level tells the bit of the index (`SameWithZero`), down to the lower of the levels at which the two were stored, where the hash of one would be a zero hash, or a leaf a hash (`ApartBelowTop`, `ApartFromLast`) |
| | `PowersOfTwoAreProved` | `ProofInv`: at each level at which the number of leaves has a 1 bit the frontier holds the last node of the level that has all its leaves (`Completes`), and the root was hashed up from the node made last. A new leaf walks up through just those nodes (`WalkCompletes`, `InsertCompletes`), and nodes that have all their leaves stay as they are (`CompleteNodesStay`). For any number of leaves a proof leads from its leaf alone to the top node above it (`ProofLeads`); for a power of two that node is the root, because every level above the one complete node has one node, whose other child is a zero hash in layers and frontier alike (`PowerRoot`) |
| | `FetchedSetExplained` | an action property. `AdviceInv`: each count read lies between its value when the reading began and now |
| | `WaitingAlwaysHelps` | an action property, by cases on the advice's brackets: each is monotone in what it measures (`BracketScores`, `BaseScoreGrows`, `ScoreGrows`), and caps come last |
| | `WaitAlwaysSuffices` | `ToldLongEnough`: blocks told, in milliseconds, are no fewer than the delay left, rounding up, and the time passed since counts towards it |
| `SdkSecrets_proofs` | `NotesStayAuthentic`, `ListingsComplete`, `SilenceIsJustified` | `NotesInv`, about stores, calls under way and the backup together: notes everywhere are as they were saved (`AllGenuine`), no identifier recurs (`IdsFresh`), a listing has found what it went past (`ListingComplete`), and every copy, finished or under way, holds what the history of backups says it does (`BackupsHold`) |
| | `MarksAreKept` | an action property, by cases on calls; `ImportedNotes` says that import keeps the notes held, in their places, and adds only notes of the backup |
| | `PaymentsAreFound` | `PaymentsInv`: an address was derived from an ephemeral key and a meta-address that decodes; the rest is arithmetic of the group, the two sides of a Diffie-Hellman exchange meeting in one product modulo `Order` |
| | `FileReadOnce` | `ReadsInv`: one read more than there are resets only while an attempt is marked |
| | `ProofsStayBound` | `ProofsMade`: each proof was serialized from a witness, by one of the two backends. `ProofLayout` says what lies where in the bytes (`Holds`), `PackedBit` and `PackedPlace` that a direction comes back from its byte and its place in it, `ChallengeTellsPublic` that the fixed lengths around it leave no other split of the challenge's input into a recipient and a fee (`FourParts`), and `BytesTellUint` that the bytes of a fee are no other fee's |
| | `ButtonNeverStuck` | `ConnectingWaits` is inductive with the types: a call that ends takes its view out of connecting, and one that goes on keeps waiting |
| | `PendingNotesAwaited` | `FormInv` adds `NotesDrawn`, that no note has the number 0, which stands for no request |

The theorems on the daemons and the SDK hold for every value of the constants that satisfies
the assumptions of their modules. Besides types these are that what an unreadable file
restores to is not a queue (`UnreadableAssumption`), that there are finitely many relayers
and that a refresh of the registry is not an operation (`RelayersAssumption`), that pages,
delays, capacities and the group are not empty, and that leaves are atoms, no zero hash and
no hash of others (`LeavesAssumption`): the free-term abstraction of section 5, said of the
leaves the proof meets; and that recipients are strings of plain bytes and fees fit a uint
(`ProverAssumption`), as `TextEncoder` and `bigintToUint128BE` see to; and that the payments of
a chain are finitely many (`ChainhookAssumption`). In particular the numbers of items, ends of
the process, polls, requests, pages, relayers, retries, callers, submissions, notes, views,
wallets, calls and leaves, and the depth of the tree, are arbitrary.

Induction over numbers is needed below heights, sums, sequences and levels of the tree, and
the library's theorems on it take predicates as parameters, which the provers cannot
instantiate. `Iteration_proofs` therefore does it with sets: `IntervalInduction` is about a
set of numbers that has 0 and the successor of each member up to a bound, and follows from
the least counterexample; a proof defines the set of the numbers its claim holds for.
`IterationExists` shows in the same way that a recursive function exists, which unfolds it.

The proofs on the pool share lemmas on what kinds of steps do (`QuietEffect`, `SubmitEffect`,
`EscrowEffect`), so that each invariant is shown against three kinds of step and not
fifteen actions.

Only model-checked:

* the liveness properties (`WithdrawalsSettle`, `ItemsSettle`, `PaymentsArrive`,
  `ButtonComesBack`, `OfflineHandled`, and the second halves of `PaymentsTold`,
  `SubmissionsEnd`, `OrderedByNonces` and `WaitsEnd`), because the prover does not handle
  liveness under fairness. What of them is safety is proved: for the four the first halves
  (`PaymentsNeverLost`, `RelayersReachedOnce`, `ApprovalsComeFirst`, `WaitAlwaysSuffices`),
  and for the others that the system never comes to rest where they would fail: every
  withdrawal that may be settled can be (`SettlementNeverRefused`), the relay always has
  its next step set (`WorkStaysScheduled`), the cursor passes no payment that is not
  notified or excused (`CursorStaysPlaced`), and a view that is connecting, or a note that
  is pending, has a call under way (`ButtonNeverStuck`, `PendingNotesAwaited`);
* the properties of the seven runs that expect a violation, which are false.

## 7. Where code and documentation part

* **A bond is repaid more than once** (`escrow_backing`, `OpenWithdrawalsBacked`).
  `contracts/withdrawal-escrow.clar:509` returns the relayer's bond when a challenge is
  rejected and leaves the withdrawal pending with its bond on record; finalizing it, or a
  second resolution, pays the bond again. The second payment comes out of the
  denominations of open withdrawals, which `contracts/pool-v1.clar:275` says the escrow
  holds "until finalization or slashing".
* **The two paths do not see each other's claims** (`paths_apart`, `NoConcurrentClaims`).
  `contracts/pool-v1.clar:186` asks the registry and never `reserved-nullifiers`, whose
  purpose is "to prevent concurrent claims on the same nullifier"
  (`contracts/withdrawal-escrow.clar:77`). Nothing is paid twice, but the open withdrawal
  can no longer be finalized and its denomination stays in the escrow.
* **The registry names one contract** (`registry_for_pool`, `UnchallengedExecutes`).
  `contracts/nullifier-registry.clar:33` asks for `authorized-contract` to be set to the
  pool; then `mark-used` refuses the escrow and no optimistic withdrawal is executed,
  against `contracts/withdrawal-escrow.clar:14`.
* **Roots commit to the last block of leaves** (`sdk_proofs`, `EveryLeafProvable`).
  `contracts/merkle-tree.clar:207` hashes zero hashes where the frontier's left siblings
  belong, and the SDK reproduces the same roots (`RootsAgree` holds). After three leaves no
  proof of `generateProof` leads to the root. The repository's tests of `generateProof`
  use power-of-two counts, for which `PowersOfTwoProve` shows it to work and
  `PowersOfTwoAreProved` proves it: `ProofLeads`, which holds for every count, leads to the
  top node of the layers, and for other counts that is not the root.
* **The cursor may rest on a block** (`scanner_cursor`, `CursorPastSeen`).
  `packages/scanner/src/index.ts:264` moves the cursor only when the highest block
  exceeds it. The cursor stands one past the highest block seen, so when just that next
  block has a withdrawal the cursor stays, against the comment two lines above ("past the
  highest block we've seen"), and every poll notifies the block's payments again until a
  later block has a withdrawal. `PaymentsArrive` and `CursorPlaced` hold all the same.
* **No proof of the SDK reaches the verifier's queries** (`proof_format`,
  `ProofsReachQueries`). `serializeProof` and `serializeForClarity` write their version as
  one byte; `check-version` (`contracts/proof-verifier.clar:370`) compares the first four
  bytes with `0x00000001`. `packages/sdk/src/proof/prover.ts:97` calls the bytes "ready for
  on-chain" submission.
* **A relayer's success counts as a failure** (`failover`, `StopsAtSuccess`). The client's
  schemas (`packages/sdk/src/relayer/client.ts:21`) want `txId`, the relay answers with `id`
  (`packages/relay/src/routes.ts:77`, `:122`), so the client goes on to the next relayer
  with an operation the first has queued, against
  `packages/sdk/src/relayer/failover-client.ts:6`. `SubmissionsEnd` bounds what comes of
  it, one copy for each relayer; the contracts refuse all but the first.

Met while modelling, and without a run of their own:

* A note belongs to the `useSatsu` of one form. It ends with the form when another tab is
  opened, although `packages/app/src/components/DepositForm.tsx:45` has just said "Note
  saved locally", and the withdrawal form, with a `useSatsu` of its own, never holds a
  note to withdraw (`Dashboard`: `SwitchTab`, `Withdraw`). `packages/app/src/hooks/useSatsu.ts:138`
  is therefore not reached. `NotesList` and `BackupModal` are shown by no page.
* `getBackupWarning` is silent about a note saved while an export awaits its encryption:
  `packages/sdk/src/notes/store.ts:430` sets the time of the backup after the copy was
  made. `SilenceJustified` excuses exactly these moments; `store.ts:504` lists "New notes
  have been added since the last backup" among the cases of a warning.
* `fetchPoolStats` calls read-only functions that `pool-v1.clar` does not define, so
  against these contracts it throws; `PrivacyAdvice` models it against a contract that
  has them. What it returns comes from six requests and belongs to no one block.
* `packages/sdk/src/pool/withdraw.ts:122` lets a fee equal to the denomination through,
  which the contract refuses; `BuildsWithdrawal` keeps that, and the account's run has
  such a fee.
* The last bracket of `privacy/score.ts` has no end, so its base score stays at 80; and a
  large set that is small beside the tree's capacity is told both that conditions are
  favorable and that the pool is sparsely used.
* The scanner reads `withdraw` events of the pool alone, so payouts of the escrow are never
  notified; in chainhook mode, payments of rolled-back blocks are never taken back, and a
  payload posted again stores its payments again as not acknowledged.

## 8. Not modelled

* `sbtc-token` `approve`, spending by allowance and `mint`: no contract uses them; the real
  token is another contract.
* `proof-verifier`: its version check and what comes before the queries are operators of
  `Prover`; the hash chains of the queries are not modelled, and its answer is a constant of
  `PoolV1`.
* `verifyStarkProof`, the STARK and the circuit: they are the WASM module's and `prover/`'s,
  arithmetic over finite fields beyond model checking. Likewise elliptic curves and AES
  themselves.
* The relay's rate limiting and payload validation, and `markConfirmed`, which has no
  caller: submitted items are never confirmed, so there is no behaviour to state.
* Rolled-back blocks of a Chainhook payload: the parser reads only what was applied.
* `NoteStore.load`, a pure read; the balance, last blocks and average age that
  `pool-stats.ts` passes on.
* Pages of the application without state, `RegisterContent`, whose transactions are a mock,
  `NotesList` and `BackupModal`.
* Deployment scripts; their effect is in `PoolSystem`'s configuration actions.

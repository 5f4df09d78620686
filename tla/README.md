# Foundry Pay: TLA+ models, checks and proofs

Foundry Pay pays an *obligation* through an external executor. Its central promise is that an
obligation has at most one economic effect, whatever is retried, lost, delayed, repeated or
restarted on the way. The Channels part of the repository adds a Solana vault in which a sender
reserves money for a recipient, with the corresponding promise that an activated right is never
taken back. This directory models the parts of the code that carry those promises, checks them with
TLC on small instances and proves them with TLAPS for every size.

1. [Inventory](#1-inventory)
2. [Modules and their code](#2-modules-and-their-code)
3. [Runs](#3-runs)
4. [Proofs](#4-proofs)
5. [Disagreements between code and documents](#5-disagreements-between-code-and-documents)
6. [Not modelled](#6-not-modelled)
7. [Plan](#7-plan)

Paths are relative to the repository root. `PROJECT.json` lists, for every definition that models
code, the lines it stands for, and for every hazard the line where it bites.

## 1. Inventory

### Components, their state and operations

| Component | Code | State it keeps | Operations |
|---|---|---|---|
| Authorization authority | `services/authorization/authority.py` | table `execution_authorizations` (SQLite) | `issue`, `consume`, `state` |
| Exact-message signer | `services/signer/boundary.py` | table `signer_operations` (SQLite) | `sign` = claim, provider call, complete or mark for recovery |
| Durable execution journal | `services/failure_lab/lab.py` | tables `executions`, `events` (hash chain); the simulated chain's effects | `register`, `persist_signature`, `execute`, `recover`, `evidence` |
| Fake external executor | `packages/external-execution-protocol/python/.../fake_executor.py` | tables `executions`, `authorization_consumptions`, `effects` | `prepare`, `authorize_and_execute`, `status`, `recover`, `receipt`; a stateless HMAC authority |
| Vault transition model | `programs/foundry-channel-vault/transition-model` | one `ModelState`: lifecycle, four totals, binding, claim deadline | `apply` of eight instructions |
| Vault instruction contract | `programs/foundry-channel-vault/instruction-contract` | none; layouts, authorities, phase table | lifecycle derivation, claim-window check, authority and Ed25519 checks |
| Vault governance | `programs/foundry-channel-vault/governance-model` | none; change, policy, manifest and rights records | classify a change, validate policy, manifest and migration, what is allowed while paused |
| Channel concurrency harness | `services/failure_lab/channel-concurrency` | versioned state, accepted ids, history | `prepare`, `commit`, `verify_serial_witness` |
| Reconciliation | `services/reconciliation` | source registry; observations held by the caller | `observe` through an RPC reader, `aggregate_reconciliation` into a verdict, backfill of evidence |
| Chaos proxy | `services/chaos_proxy` | tables of rules, attempts and hash-chained events | `configure`, `receive`, `transition`; forwarding with injected loss, delay and duplication |
| Channel object | `packages/channel-protocol/python/.../channel.py` | none; snapshots of a channel account | `validate_channel`, `validate_funding_transition` |
| Voucher ledger | `.../voucher.py` | table `voucher_submissions` | `verify_voucher`, `record_issued`, `verify_issued`, `request_activation` |
| Binding ledger | `.../recipient_binding.py` | table `recipient_bindings` | `verify_recipient_binding`, `verify_and_record` |
| Settlement runtime | `.../settlement.py` | tables of settlements, submit intents and journal | `register_request`, `commit_execution`, `record_authorization`, `submit`, `recover`, `record_provider_divergence`, `reconcile` |
| Closure runtime | `.../closure.py` | table of refunds; requests and freezes held by the caller | `request_close`, `freeze_closure`, `make_refund_request`, `project_refund`, `register_refund` to `reconcile`, `validate_finalization`, `epoch_transition_eligibility` |
| Canonicalization | both packages, in Python, TypeScript and Rust | none | canonical JSON, digests |

### How they interact

Foundry forms a plan and a request. The executor *prepares* it: a message, a simulation and an
expiry, bound by a commitment hash. The authority checks the prepared execution against Foundry's own
expectation and *issues* a short-lived grant, one at a time per request and per obligation. The
signer takes a grant and the prepared execution, once more from its caller, claims the grant durably,
and asks an external provider to sign exactly those bytes. The journal persists the signature, writes an
intent before it broadcasts, and recovers by observation only. The conformance executor rolls
preparation, consumption and effect into three tables under one lock. The services share no memory:
they meet in signed grants and in SQLite transactions, and time reaches each call as an argument.

On the Channels side anyone may submit an instruction to a vault; the program decides from the
account state and the clock alone. Clients decide from snapshots that may be stale, and the harness
under `services/failure_lab/channel-concurrency` states how a commit must treat them.

Off the chain, the sender signs *vouchers* of growing cumulative totals. The voucher ledger verifies
a submission against a context its caller read from the account and lets its activation be requested;
anyone holding the voucher may have the vault activate it. A recipient binds a wallet with a binding
that claim key and wallet signed, consumed once in the binding ledger. Activated rights are paid out by
the settlement runtime through an executor port, and what is unallocated after the claim window goes
back through the closure runtime. Both runtimes see the channel only in snapshots that callers
hand them, reserve amounts in their own tables, and believe an effect only when observed totals match.

### What is hard

* **Stale time.** A timestamp is read before validation, a provider call and the wait for a lock.
* **Two statements, one decision.** `AuthorizationJournal.state` reads and writes outside a
  transaction; `recover` observes the chain between two transactions.
* **Crashes** between a durable claim or intent and the record of its outcome.
* **Unknown outcomes.** A lost answer must never count as a refusal.
* **Competition.** Two requests, grants or workers for one obligation.
* **Boundaries.** The second of expiry, the claim deadline, `u64` and `i64` limits.
* **Stale snapshots.** A commit based on a version another client has replaced; a settlement, refund or
  voucher checked against a channel that has moved on.
* **Reservations.** Amounts promised to operations whose outcome may never be known.
* **Calls between two transactions.** `submit` and `recover` of the settlement runtime leave the
  database to talk to the executor.
* **Traps.** An ambiguous state from which no operation leads on.
* **Common faults.** Several sources behind one provider, trust domain or endpoint that is wrong.

The entries under `hazards` in `PROJECT.json` name these at their lines with the properties that
would catch them. One has no property, with its reason.

### What makes each component correct

* *Authority*: at most one live grant per request or obligation; grants follow one another in time.
* *Signer*: one provider call per grant, only of the bytes the authority saw; a truthful status.
* *Journal*: one provider call per execution; a message that was refused or has expired is dead before
  another is made; the log explains the row; one effect per obligation.
* *Executor*: consumption, confirmation, receipt and effect are one fact; `recover` is truthful.
* *Vault*: totals in range, conservation by the handlers' own guards, the phase table exact at the
  deadline, rights never reduced except by settlement, no stranded money.
* *Concurrency harness*: it implements the sequential vault; commits do what clients projected.
* *Ledgers*: live vouchers form one history, what may be activated is what the vault accepts, a claim
  is bound once.
* *Settlement*: no unit of the activated right is promised twice, receipts state what happened, a
  reservation given back is never paid, an exact transfer is completed in the end.
* *Closure*: refunds leave the activated right covered, up to what their freezes overlooked; receipts are
  exact, final states stay, the next epoch starts with nothing in flight that a faithful freeze allowed.
* *Reconciliation*: what is independently verified took place, one honest source stops a lie.

## 2. Modules and their code

| Module | Stands for | Role |
|---|---|---|
| `AuthorizationJournal` | `authority.py` | component |
| `SignerBoundary` | `boundary.py` | component, composed with `AuthorizationJournal` by EXTENDS |
| `EconomicEffect` | the promise itself | abstract specification |
| `FailureLab` | `lab.py` | component, implements `EconomicEffect` |
| `FakeExecutor` | `fake_executor.py` | component, implements `EconomicEffect` |
| `VaultTransitions` | `transition-model/src/lib.rs`, `lifecycle.rs`, `contract.rs` | the pure transition function |
| `ChannelVault` | one channel and the clock | component over `VaultTransitions`; the sequential specification |
| `ChannelConcurrency` | `channel-concurrency/src/lib.rs` | component over `ChannelVault`, whose specification it implements |
| `ChannelState` | `channel.py` | the channel object and its validators, shared by the next five |
| `SettlementRuntime` | `settlement.py`, the executor, the account | component over `ChannelState` |
| `ClosureRuntime` | `closure.py`, the executor, the account | component over `ChannelState` |
| `VoucherLedger`, `BindingLedger` | `voucher.py`, `recipient_binding.py` | components |
| `ClaimFlow` | both ledgers, `runtime_v2.rs`, `runtime_v2_authority.rs` and the vault | composition of `VoucherLedger`, `BindingLedger` and `VaultTransitions` |
| `Reconciliation` | `reconciliation/protocol.py`, `sources.py`, `solana_rpc.py` | component |
| `MCSigner`, `MCFailureLab`, `MCFakeExecutor`, `MCVault`, `MCConcurrency`, `MCSettlement`, `MCClosure`, `MCVouchers`, `MCReconciliation` | | instances for TLC |
| `SignerProofs`, `FailureLabProofs`, `FakeExecutorProofs`, `VaultProofs` (the vault, the harness and the claim flow), `ChannelLemmas` (channel records and sums of amounts), `SettlementProofs`, `ClosureProofs`, `ReconciliationProofs` | | proofs |

Conventions. Each immediate SQLite transaction is one action. A call that raises inside its
transaction is rolled back and has no action; a call that commits first and raises then has one. Hashes
and signatures are injective labels (tuples of what they digest). `MutX`, defined directly before
`X`, is a faulty version of `X`: the properties are shown to notice it.

### AuthorizationJournal and SignerBoundary

`journal` is the table of grants. `now` is the clock; every call carries a timestamp from `Recent`,
at most `Lag` seconds old when its transaction commits. Nothing shared is read between taking the
timestamp and the transaction, so one action with a stale timestamp is the whole call. `issue` is
`IssueNew` (the insert, after the sweep `Swept` of overdue rows and the conflict query `ActiveRows`)
and `IssueAgain` (the same id with the same fingerprint). `consume` of an overdue row raises, which undoes
the `expired` it has just written, so that case is no step. `state` is two steps, `StateRead` and
`StateWrite`, because it opens no transaction around its two statements.

The signer's `op` is its table, `call` the volatile call, and `signatures` and `asked` what the
external provider did. `Claim` holds every check of `sign` (`Bound`) and the durable claim;
`ProviderSigns` and `ProviderFails` are the call, the latter with or without a signature made;
`Complete`, `MarkNeedsRecovery` and `Crash` end it. The prepared execution presented to `sign` is any
element of `Prepared`, not the one the authority saw.

### FailureLab

`row`, `events`, `effects` are the tables and the simulated chain; `worker` holds each worker's volatile call;
`fresh` says whose blockhash has not expired. `execute` is an intent, a provider call
(`BroadcastEffect` / `BroadcastNoEffect`) and an outcome; `recover` an attempt, an observation and a
verdict. `Transition` is `_transition`, which does nothing unless the row is in the expected state.
`MayRematerialize` is the flag of that name in `evidence`. `Crash` may come between any two steps. The hash chain is abstracted to the order of event types.

### FakeExecutor

`executions`, `consumed`, `effects` are the three tables. `grants` are the authorizations the
stateless authority has signed, for any id, request and window. `Prepare` and `AuthorizeAndExecute`
are the two writers; the transient state `authorized` begins and ends inside one transaction.
`RecoveryOutcome` is the answer of `recover`, which writes nothing. The authority signs only the
commitments that are stored, so the comparisons that bind a grant to its execution always succeed; what a
forged or altered grant would meet is the signature check.

### EconomicEffect

One instrument may take effect for an obligation that has none, never again, and an instrument is
reported only after its effect. In `FailureLab` the instrument is the signature, in `FakeExecutor`
the request; `OneEconomicEffect` of each is `INSTANCE EconomicEffect WITH ...`.

### VaultTransitions, ChannelVault, ChannelConcurrency

`Permitted` is what the handlers of `apply` require, `Result` the state they build, `Success` the
check of `success()`, and `Accepts` all of it. `LifecycleAdmits` is the phase tests in the transition
model; `LifecyclePhase` and `AllowedPhases` are the independent table of the instruction contract.
`MaxU64` and `MaxI64` are the widths; `MinWindow` and `MaxWindow` the claim window of 900 and
2 592 000 seconds. Mint, vault and PDA always change together and are one field, `accounts`.

In `ChannelVault` anyone submits anything at any time. In `ChannelConcurrency` a client prepares at
its own idea of the time, `observed`, and commits at the authoritative `now`; candidates are values
and may be committed in any order, again or never. It extends `ChannelVault`, and has its `channel` and
`now`; `Linearizable` is the sequential specification itself, of those two variables.

### ChannelState

The channel object without the fields its identity fixes, the three derived totals, and the two
validators as predicates. A sum of amounts over rows (the `SUM` of the runtimes' queries) is `AmountOf`: the
number of base units of those rows, each unit a pair of a row and an index. Its last section says what the account's instructions do to those
fields; the instructions are external to this package and, for the vault, the subject of
`VaultTransitions`.

### SettlementRuntime

`row` is the table of settlements, `request` the snapshot each was built from, `calling` the settlements
whose `submit` waits for the executor, and `recovery` a `recover` or divergence call between its read
and its write. `exec` and `effect` are the executor and what its transfer found on the chain.
`submit` is `SubmitIntent` and `SubmitReturn` with `SubmitCrash` in between, `recover` is
`RecoverAsk` and `RecoverWrite`, the second of which, as in the code, looks at neither state nor time
again. `Register` reserves from a snapshot of any age; the account may have been settled and
activated since. The answers the executor may give (`SubmitOutcomes`, `RecoveryTargets`) include
none, a wrong one and a late one. One `recover` is under way at a time. Observations may be of any settlement and any earlier time. Assumed of the
outside: a confirmed receipt or status is of a transfer that took effect, and an executor that answers
`failed_before_broadcast` stands by it. The account is *not* relied upon to refuse a transfer.

### ClosureRuntime

The functions of `closure.py` never read the account: a caller hands them a channel snapshot, and none
compares the snapshot's `updated_at` with the time of the call. `shown` is every snapshot the account has
ever shown, and each function takes any of them. `closure` holds the close requests, of any number of
closures of the one channel; a freeze is the value `Freeze(s)` for a snapshot with `Freezable`, made together
with the refund request that uses it (`MakeRefundRequest`), since a freeze kept for later could as well
be made then from the same snapshot; `row` is the table of refunds. `freeze_closure` tests the deadline when the freeze is
made; `project_refund` tests it once more, so the first test refuses nothing that the second would let
through. `ValidateFinalization` records in `cleared` that some caller's finalization was found valid;
the account closes in a later step (`Finalize`), for which nothing is checked again.

`Settle` moves the settlement of the outstanding right on, so that a freeze, a refund and a finalization can meet
it in each state; the operation states a caller lists are assumed current and complete. `Land` transfers
without asking the account. `release_before_submission` has three target states that differ in name
only and are one here. `Overlooked(r)` is what the freeze of a refund did not see: rights activated since
its snapshot, and what refunds of other closures have taken.

### VoucherLedger, BindingLedger and ClaimFlow

Each method of the voucher ledger is one transaction; `Verdict` has the three outcomes of a
verification, the third being a signature verifier that itself failed. `verify_and_record` verifies
before its transaction and is two steps, `VerifyBinding` and `RecordBinding`. `ClaimFlow` puts both
next to the vault: a call carries any context the vault has ever shown (`past`) and any time up to
`clock`; a voucher reaches the vault with or without the ledger; a binding, only once it is recorded.
`VoucherAuthority` and `BindingAuthority` are the authority checks of the program's runtime, behind the
signature precompile; `Accepts` is the transition function. `Snapshot` is the vault as the channel
object, which lets `StepsStayValid` hold the program to the off-chain validators.

### Reconciliation

`tx` is the transaction on the chain, `held` the observation of each source that the caller has, `result`
the last verdict. A source is read at any moment by `Observe`, which is the reader, the adapter and the
normalization; `Aggregate` is called with any of the observations held. `fault` is a provider,
trust domain or endpoint all of whose sources answer as they like. `Adapter` differs from `Registry` where
an adapter was configured wrongly, and `Required` refuses its observations. The reader's two RPC calls are one step:
what is confirmed is assumed to stay confirmed, so they cannot contradict each other. `Matches` leaves out the
comparisons that the Solana reader makes true of everything it returns.

## 3. Runs

Runs say `CHECK_DEADLOCK FALSE` where the system may stop: clocks have a last second, and a closed
channel, a confirmed payment or an exhausted set of ids is a proper end. Only `settlement` assumes
fairness.

| Run | Instance | Distinct states | What it shows |
|---|---|---|---|
| `signer` | 2 ids, 2 requests for 1 obligation, 3 prepared executions (one with other bytes under a known hash), Lag 1, Horizon 3 | 307 178 | `AtMostOneActive`, `WindowsDisjoint`, `ExactMessageSigned`, `ProviderAskedOnce`, `SignerStatusTruthful` |
| `failure_lab` | 2 requests, 2 obligations, 2 signatures, 2 workers, 2 recoveries | 118 289 | `ProviderCalledOnce`, `RematerializationIsSafe`, `JournalExplainsState`, `OneEconomicEffect` |
| `fake_executor` | 2 requests, keys, obligations and ids, 3 grants, Horizon 2 | 55 290 | `ConsumptionMatchesEffect`, `RecoveryTruthful`, `OneEconomicEffect` |
| `vault` | amounts 0..3, times 0..4, window 1..2, 2 keys, every instruction | 5 794 | `GuardsSuffice`, `PhaseTableAgrees`, `RightsPreserved`, `NeverStranded` |
| `concurrency` | 3 start states, 7 instructions, 4 operation ids, 2 held candidates, times 0..3 | 350 072 | `Linearizable`, `CommitsAsProjected`, `SerialWitness`, `ClaimWindowKept` |
| `settlement` | 2 settlements of 1 and 2 units, 3 funded, 2 activated and perhaps 3, Horizon 1 | 212 650 | `ReservationsCovered`, `ReceiptsExact`, `ReleasedNeverLands`; under fairness `ExactTransferCompletes` |
| `closure` | 2 closures of one channel, 2 refunds, 3 funded, 1 activated and perhaps 2, Horizon 2 | 316 730 | `RightsStayCovered`, `CompletedRefundsExact`, `EpochStartsClean`, `FinalRefundsStay` |
| `vouchers` | 4 submissions of 3 vouchers, 2 bindings of one claim, funding of 2 units, Horizon 1 | 258 906 | `LiveVouchersOrdered`, `RequestedStillActivates`, `BindingUsedOnce`, `StepsStayValid` |
| `reconciliation` | 6 sources, 5 outcomes of the transaction, 3 faults or none | 273 828 | `VerifiedTookPlace`, `OneWitnessIsEnough`, `HonestVerdictsAccurate` |
| `signer_consumed`, `vault_frozen`, `closure_stale_freeze` | as above | | three statements of the documents that the code does not meet, section 5 |

Why the bounds are enough:

* *signer*. Two ids for one obligation let a grant be issued, expire or be consumed and be replaced;
  Lag 1 with ttl up to 2 lets a late transaction cross an expiry in both directions; the third
  prepared execution carries bytes the authority never saw.
* *failure_lab*. Two workers let two calls of `execute`, two of `recover`, or one of each overlap;
  two recoveries let a slow one finish after a fast one; two requests compete for an obligation.
* *fake_executor*. Three grants over two ids allow an id signed twice and a competing grant at once.
* *vault*. Amounts up to 3 overflow a sum, split a funded total into settled, refunded and outstanding
  parts, and times up to 4 hold a whole claim window with seconds on either side, and its overflow.
* *concurrency*. A candidate can be made stale by one commit and by two; four operations
  reach from activation through close and settlement to finalization; a client's clock may be off by the
  whole range, so the claim window is crossed while a candidate is held.
* *settlement*. The first right covers either settlement and not both, the second activation covers
  both: reservations conflict, follow one another and overlap. One tick separates a call from
  a row written later, and puts the expiry of commitment and request within reach. A recovery in flight
  may meet every step of both settlements.
* *closure*. Before the late activation two units are unallocated and both refunds fit, afterwards only one
  does; so a stale freeze overstates the excess, and two closures promise the same unit. Each refund may belong to
  either closure and finds other totals after the other; one alone empties the vault only when the right was
  raised and settled. The shortest grace is 2, so every request is made at 0 for the deadline 2 and the
  claim window has two moments at which rights are activated and snapshots taken. A closure with another deadline than the
  account's cannot be frozen, and an expiry only refuses steps; the instance has neither, the theorems
  have both.
* *vouchers*. Two vouchers extend the same predecessor, one exceeds the policy, one is submitted
  twice, and totals exceed what is funded until the top-up; the widths hold every sum. Grace and shortest
  claim window are equal here, so that a channel that closes is valid and the transitions out of it count; the
  theorem is for any grace.
* *reconciliation*. Two L1 sources; an L2 that shares its domain with one and an L2 that shares its
  provider with the other; a diverse L3; an adapter with a wrong class. Faults reach two sources of different classes or
  one. The outcomes are the expected one, another amount, an error, one whose balances do not
  agree and one that creates its destination account.

Fairness of `settlement`. The runtime has no scheduler: its caller asks. `FairSpec` states what a
caller that does not give up provides: a recovery that was asked is written (weak fairness), a status
query that would be answered with a confirmation is made some time if it is possible again and again,
and so is an observation that matches (strong fairness, because reports of divergence and inconclusive
answers may disable either for a while). The executor, the chain, crashes and everyone else get none.
`ExactTransferCompletes` then says that none of the four ambiguous states is a trap for a transfer that
took effect as requested. With weak fairness
in its place an endless sequence of inconclusive answers refutes it, as it should.

Symmetry is used on sets of interchangeable ids only; the temporal properties checked with it are of
the form `[][A]_v` or a refinement without fairness, for which it is sound.

## 4. Proofs

Every theorem holds for all values of the constants that satisfy the named assumptions, which TLC
evaluates on every run:

* `TimeAssumption`, `InputAssumption`, `NoneAssumption`: times are natural numbers and SQL NULL is not one;
* `LabAssumption`, `ExecutorAssumption`, `HarnessAssumption`, `ReconciliationAssumption`: an absent
  value is no request, signature, id or answer, the models' bounds are natural numbers, and
  descriptors are such as the constructor accepts;
* `WidthAssumption`, `KeyAssumption`: the widths are natural numbers, the claim window is not
  empty, the zero key and `Option::None` are no key and no timestamp;
* `InstructionAssumption`, `StartAssumption`: instructions are well formed, a start state is coherent
  (`Uninitialized` is);
* `PolicyAssumption`, `SettlementAssumption`, `ClosureAssumption`: a valid channel to begin with (active,
  in the last), positive amounts, finitely many settlements and refunds;
* `VoucherAssumption`, `BindingAssumption`, `FlowAssumption`: sequences and totals of vouchers fit 64 bits and
  their expiries the chain's timestamps, as `voucher.py` and `canonical.py` enforce.

What is proved, and along which argument:

* **SignerProofs**. `AtMostOneActive` and `WindowsDisjoint` are not inductive by themselves: a row
  stops excluding others by being expired or consumed, and only a record of why relates that to
  the time of the next grant. `IInv` adds `GrantInv` (a released grant is the stored one),
  `HistoryInv` (an expired or consumed row has its reason in the past, also when `state` writes late),
  `CallInv` (before the provider was asked a call is only claimed) and `MessageInv` (a claimed message
  hashes to what the grant commits to). Exactness of the signed message then follows because
  the digest is injective.
* **FailureLabProofs**. The invariant ties each volatile call to its row: a worker that is calling
  holds the one intent of an execution in flight, and an answered or observed success has its effect.
  From it follow `ProviderCalledOnce` and the refinement: only `BroadcastEffect`
  changes the effects, and a row is confirmed only from a success. `RematerializationIsSafe` is an action
  property: refused and expired executions are final, and the only call that can be accepted is of another
  request, hence for another obligation. `JournalExplainsState` is
  inductive once it is said of the log's positions: the greatest one that holds a state-changing event names the
  row's state, and the positions of intents are as many as the row counts; appending an event moves
  the first or adds one position to the second.
* **FakeExecutorProofs**. `PreparedInv`, `ConfirmedInv`, `EffectInv` and `ConsumedInv` say that the
  tables point at one another; `TypeOK`, `ConsumptionMatchesEffect`, `RecoveryTruthful` and the refinement follow.
* **VaultProofs, the vault**. `HandlerIsSafe` shows, handler by handler, that from a coherent state
  the guards alone lead to a well-formed, coherent state that `success()` accepts; `settle`,
  `activate` and `refund` stay within `u64` only because the totals are ordered, which is why `TypeOK`
  needs `Coherent` to be inductive. `GuardsSuffice`, `PhaseTableAgrees`, `NeverStranded` and the action property
  `RightsPreserved` follow.
* **VaultProofs, the harness**. `Fresh` (a candidate is never ahead of the version, and projects the current
  result when it is at it) gives `CommitsAsProjected`; `CloseRecorded` (a close in the history is what
  the channel records) gives `ClaimWindowKept`; and each commit is one `Submit` of `ChannelVault`, the
  refinement. `SerialWitness` replays the history with a recursive function. No induction over the
  history is needed: `ReplayInv` says that some function replays it and that each one that does ends in the
  channel's state, and is kept by a commit, which extends the function by one value.
* **VaultProofs, the claim flow**. `FlowInv` relates the vault to every context it has ever shown:
  `Reflects` says that a context has no more funding than the vault has now, and that its sequence and total are those
  of the voucher it names. `RequestsVerified` keeps, with a requested activation, the context it was
  verified against. If that context names the vault's latest voucher, its sequence and total are the vault's
  own, so the vault accepts (`RequestedStillActivates`), and it was within the policy, so the channel
  stays valid (`StepsStayValid`). `LiveVouchersOrdered` needs that the query for the latest live submission
  finds one: `HasHighest`, of every set of live submissions, is kept when one is added or removed.
* **SettlementProofs**. `StateInv` ties a row to what the executor did: nothing is sent before the
  submit intent, only what can no longer take effect is rejected or failed, and a recovery
  that was asked and not yet written still says something true, however stale
  (`ReleasedNeverLands`). `EffectInv` gives each transfer its own stretch of the settled total, and `CountInv` says
  that a snapshot's total counts exactly the transfers before it; so what a registration sees of the
  past through its old snapshot, and what it sees of the others in the table, add up to what is
  promised or spent (`ReservationsCovered`). `ReceiptsExact` follows from the stretches.
* **ClosureProofs**. `SnapshotInv` relates every snapshot and freeze to the account as it is now: funding
  is the same, activation and refunds have only grown, and each freeze (`PastWindow`) is past its window and states the refunded
  total of the start, because `freeze_closure` requires that of the close request. `PoolInv` says that all
  refunds of a closure that were not given back, completed ones too, fit into the capacity one of their freezes
  states: the high-water check of `register_refund` lets none register after another has completed, so
  until then the reservations count them all. `EffectInv` is the account of stretches of the refunded total.
  Together they give `RightsStayCovered`, for any number of closures and snapshots of any age.
  `ClearedInv` keeps what `validate_finalization` saw: the completed refunds have used up what is not activated, so a
  refund that registers later, or was under way, has a freeze that overlooked something; this gives
  `EpochStartsClean` although clearance, closing and the next epoch are three moments. `CompletedRefundsExact`
  follows from the stretches; `FinalRefundsStay` is an action property.
* **ReconciliationProofs**. The properties speak of the last verdict, made from observations that
  may be old; `HeldTrue` (what an honest source observed is still true of the chain) connects the two and is
  inductive because what is confirmed stays. `HonestMatch` turns one honest match into the transfer,
  and `DiverseNotBothCompromised` shows that provider, domain and endpoint must all be compared: one
  fault reaches at most one of two diverse sources. For every registry and any number of sources.

Sums need no induction over sets: `AmountOf` is the cardinality of a set of units, so that one row more or less,
and two disjoint sets of rows, are facts about unions of finite sets (`ChannelLemmas`).

The type invariants of the signer, the journal and the concurrency harness are proved and not
part of a run.

Model-checked only: `ExactTransferCompletes`, which is liveness under fairness and out of the provers'
reach. All other properties of the passing runs are theorems.

## 5. Disagreements between code and documents

Each is a run whose one property restates a document and which TLC refutes.

* `signer_consumed`: `state()` overwrites a `consumed` row with `expired` when a `consume()` commits
  between its two statements (`docs/EXTERNAL_EXECUTION_PROTOCOL.md:97-98`). The grant is still never
  issued or signed again.
* `vault_frozen`: a right activated for a channel whose recipient was not bound before the claim
  deadline can never be settled, refunded or finalized
  (`docs/channels/solana/invariants/FC-SOL-004-CONTRACT.md:81-83`). `NeverStranded` is the
  statement that holds, with the bound recipient as its premise.
* `closure_stale_freeze`: `freeze_closure` (`closure.py:633`) compares the time of the call with the claim deadline, not
  that of the snapshot it is given. A snapshot from the claim window, before a late activation, passes once the
  deadline is over and overstates the refundable excess;
  `docs/channels/ADR/FC-ADR-006-activated-right-expiry-v1.md:71-79` demands a new snapshot with the final
  activated total. `RightsStayCovered` and `EpochStartsClean` say what holds all the same.

Met while modelling, and told here because no document decides them, or because a finding of the same
kind is already checked:

* `services/failure_lab/lab.py:423-428`: `evidence` reports `may_rematerialize` in the state `signed`, where
  `docs/FAILURE_RECOVERY.md:33` says that a new preparation is "forbidden for another message". The persisted message can still
  be broadcast from that state, so a caller that trusted the flag and had another message paid elsewhere
  could pay twice; inside the journal `register` refuses a second row for the obligation.
  `RematerializationIsSafe` therefore promises that the old message is dead only for `broadcast_failed_known` and
  `expired_requires_new_prepare`, where the document permits or requires a new preparation.
* `services/failure_lab/lab.py:345`: a worker that stops after committing its intent leaves
  `broadcast_in_flight`, also when it never called the provider (register, sign, intent, crash), and `recover` refuses to start from that
  state. `docs/FAILURE_RECOVERY.md:34` lists it as one that exists after a restart, with broadcast and new preparation
  forbidden, and says nothing of a way out; `docs/EXTERNAL_EXECUTION_PROTOCOL.md:124-125` says that the state is `needs_recovery`
  while the outcome cannot be proven. The injected faults call `_mark_needs_recovery` before they raise.
* `services/signer/boundary.py:410`: a signer that stops after its claim leaves the row `signing` for
  ever; only an exception writes `needs_recovery` (`docs/EXTERNAL_EXECUTION_PROTOCOL.md:116-117`).
* `settlement.py`, `recover`: a slow call overwrites the row a faster `reconcile` has completed. The
  reservation comes back, the receipt stays; `ReservationsCovered` and `ReceiptsExact` hold all the same.
* `settlement.py`, `submit`: after a crash between intent and answer the row stays `submitted`, which neither
  `submit` nor `recover` accepts; the reservation is held for ever. That is safe, and stuck.
* `settlement.py`, `reconcile`: two settlements registered from one snapshot cannot both match it. The
  second to take effect stays in `needs_review`; `ExactTransferCompletes` is about the exact ones.
* `closure.py`, `register_refund`: reservations are pooled by `closure_id`. Two closure ids for one
  channel, both requested while it was active, have separate pools and can promise the same unit;
  nothing in the package keeps a caller from using two. `RightsStayCovered` bounds what is lost by what the other closures
  took.
* `closure.py:646`: every freeze of a closure must state the refunded total of its close request, so once a refund of it
  is complete, the high-water check admits no other; what is left cannot be
  refunded under that closure.
* `voucher.py`, `verify_issued`: a live voucher of a higher sequence keeps lower ones out even if the
  vault will never accept it.
* The vault's runtime enforces neither the policy limit nor the channel expiry that the off-chain
  verifier does, nor `allow_top_up`; `StepsStayValid` therefore speaks of vouchers the ledger let through,
  before expiry, and of fundings the policy allows.
* `recipient_binding.py` accepts any positive nonce, the program only the initial one: a binding with
  another nonce uses the claim up off the chain and is refused on it.
* `reconciliation/protocol.py:250`: `execution_status` is `finalized` if any one matching source says so,
  a compromised one too; only honest sources make it accurate.
* `reconciliation/protocol.py:273`: independent sources must be diverse from *every* matching L1, so one
  more honest L1 can turn `l2_verified` back into `pending`.
* `reconciliation/solana_rpc.py:100`: a transfer that creates its destination account has no balance
  before, the reader raises, and the verdict stays `pending`.

## 6. Not modelled

* JSON-RPC parsing, HTTP and the backfill of one stored proof (`services/reconciliation`): I/O.
* Several channels, epochs and policies at once: every table is keyed by channel and epoch, and the
  operations of one never read another's rows.
* Journals, event hashes and error codes of the ledgers and runtimes: functions of the transitions modelled.
* The channel adapter of the executor and the capability negotiation
  (`services/fake-executor/channel_adapter.py`, `capabilities.py`): planned, section 7.
* Canonical encodings and account layouts: byte formats, covered by the repository's vectors.
* Claim links, redaction, conformance runners, evidence generators, repository linters and the
  scripted scenario matrices: no protocol state of their own.
* Version overflow of the concurrency harness (2^64 commits) and the hash chain's digests.
* Liveness of the journal, the signer and the closure runtime. They contain no scheduler, timer or
  worker that would retry, so the code justifies no fairness; the states from which progress is
  impossible are the subject of section 5.

The `components` of `PROJECT.json` give the status of every part.

## 7. Plan

Done, in the order of importance: authority and signer; durable journal; executor; vault transition
function; concurrent clients; settlement; closure; vouchers and bindings composed with the vault;
reconciliation.

Next:

1. More proofs: what `channel.py` accepts of the account while the runtimes move it.
2. `ChannelAdapter`: `channel_adapter.py` and `capabilities.py`, as an implementation of the executor
   that `SettlementRuntime` and `ClosureRuntime` assume.
3. `VaultGovernance`: the pause and migration rules that must preserve activated rights.
4. `ChaosProxy` with its emulated upstream: the attempt store and a proxy that crashes around
   forwarding. `transition` does not test the state it leaves: which sequences of states can occur?

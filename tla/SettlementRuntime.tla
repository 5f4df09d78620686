--------------------------- MODULE SettlementRuntime ---------------------------
(***************************************************************************)
(* The settlement runtime of the Channel Protocol (settlement.py): the     *)
(* durable rows of the settlements of one channel and epoch, the callers   *)
(* that drive them, the technical executor behind ExecutorPort and the     *)
(* channel account on which a settlement takes effect.                     *)
(*                                                                         *)
(* Each database transaction is one step.  submit() and recover() leave    *)
(* the database between two transactions to talk to the executor, so each  *)
(* is two steps with a call in flight; the process may stop in between.    *)
(* A call that raises writes nothing and has no action; the journal rows   *)
(* and hashes are functions of the transitions and are left out.           *)
(***************************************************************************)
EXTENDS ChannelState

CONSTANTS
  Settlements,   \* settlement_id, each with its own execution_request_id
  Amount,        \* requested_base_units of each settlement
  Obligation,    \* obligation_id of each settlement
  Expiry,        \* when the prepared execution and its authorization expire
  Activations,   \* the cumulative totals the sender may activate
  Start,         \* the channel when the runtime starts
  Horizon        \* the clock stops here

ASSUME SettlementAssumption ==
  /\ IsFiniteSet(Settlements)
  /\ Amount \in [Settlements -> Nat \ {0}] /\ Expiry \in [Settlements -> Nat]
  /\ Start \in Channels /\ ValidChannel(Start)
  /\ Horizon \in Nat /\ Activations \subseteq Nat

VARIABLES
  now,       \* the clock every caller passes
  channel,   \* the channel account
  request,   \* the snapshot a settlement's request was built from
  row,       \* table settlements, with submit_intents
  calling,   \* settlements whose submit() waits for the executor
  recovery,  \* a recover() or divergence call between its read and its write
  exec,      \* what the executor did with the request of each settlement
  effect     \* the totals the transfer of a settlement found on chain

vars == <<now, channel, request, row, calling, recovery, exec, effect>>

NoRow == [state |-> "absent", signature |-> FALSE, receipt |-> FALSE, updated |-> 0]

Init ==
  /\ now = 0
  /\ channel = Start
  /\ request = [s \in Settlements |-> None]
  /\ row = [s \in Settlements |-> NoRow]
  /\ calling = {}
  /\ recovery = None
  /\ exec = [s \in Settlements |-> "idle"]
  /\ effect = [s \in Settlements |-> None]

Tick ==
  /\ now < Horizon
  /\ now' = now + 1
  /\ UNCHANGED <<channel, request, row, calling, recovery, exec, effect>>

-----------------------------------------------------------------------------
(* The channel account and the executor (external).                        *)

Activate(total) ==
  /\ channel.status = "active" /\ total > channel.activated
  /\ channel' = ActivatedBy(channel, channel.sequence + 1, total, channel.sequence + 1)
  /\ AccountingValid(channel')
  /\ UNCHANGED <<now, request, row, calling, recovery, exec, effect>>

Sent(s) == row[s].state \notin {"absent", "validated", "execution_committed", "authorized"}

\* The request reaches the executor, perhaps after its caller gave up.
Deliver(s) ==
  /\ Sent(s)
  /\ exec[s] = "idle"
  /\ \E verdict \in {"accepted", "refused"} : exec' = [exec EXCEPT ![s] = verdict]
  /\ UNCHANGED <<now, channel, request, row, calling, recovery, effect>>

\* The transfer is broadcast and takes effect; the account is not relied upon
\* to refuse it.
Land(s) ==
  /\ exec[s] = "accepted"
  /\ exec' = [exec EXCEPT ![s] = "landed"]
  /\ effect' = [effect EXCEPT ![s] =
       [settled |-> channel.settled, vault |-> VaultBalance(channel)]]
  /\ channel' = Settled(channel, Amount[s])
  /\ UNCHANGED <<now, request, row, calling, recovery>>

\* The request is lost on its way, or its transfer can no longer take effect.
Drop(s) ==
  /\ Sent(s)
  /\ exec[s] \in {"idle", "accepted"}
  /\ exec' = [exec EXCEPT ![s] = "dropped"]
  /\ UNCHANGED <<now, channel, request, row, calling, recovery, effect>>

-----------------------------------------------------------------------------
(* register_request.                                                       *)

\* A caller reads the channel and builds a request from it, valid until the
\* channel expires.  Until the request is registered it may be built again.
BuildRequest(s) ==
  /\ row[s].state = "absent"
  /\ request[s] # channel
  /\ request' = [request EXCEPT ![s] = channel]
  /\ UNCHANGED <<now, channel, row, calling, recovery, exec, effect>>

\* validate_settlement_request.
ValidSettlementRequest(s, snapshot) ==
  /\ ValidChannel(snapshot)
  /\ now < snapshot.expires
  /\ snapshot.wallet
  /\ Amount[s] <= OutstandingRight(snapshot)
  /\ Amount[s] <= VaultBalance(snapshot)
  /\ snapshot.status \in {"active", "settling"}

ReleasingStates == {"absent", "rejected", "failed_before_submission", "completed"}

Reserved == AmountOf({s \in Settlements : row[s].state \notin ReleasingStates}, Amount)

SettledAfter(s) == request[s].settled + Amount[s]

\* Mutant: the snapshot is not compared with completed settlements.
MutFreshSnapshot(snapshot) == TRUE

\* No completed settlement is newer than the snapshot.
FreshSnapshot(snapshot) ==
  \A s \in Settlements : row[s].state = "completed" => snapshot.settled >= SettledAfter(s)

\* An obligation has one settlement for ever, whatever became of it.
ObligationFree(s) ==
  \A r \in Settlements : Obligation[r] = Obligation[s] => row[r].state = "absent"

Register(s) ==
  LET snapshot == request[s]
  IN  /\ snapshot # None
      /\ ValidSettlementRequest(s, snapshot)
      /\ ObligationFree(s)
      /\ FreshSnapshot(snapshot)
      /\ snapshot.settled + Reserved + Amount[s] <= snapshot.activated
      /\ Reserved + Amount[s] <= VaultBalance(snapshot)
      /\ row' = [row EXCEPT ![s].state = "validated", ![s].updated = now]
      /\ UNCHANGED <<now, channel, request, calling, recovery, exec, effect>>

-----------------------------------------------------------------------------
(* commit_execution, record_authorization and submit.                      *)

\* _ensure_time_not_regressed.
TimeNotRegressed(s) == now >= row[s].updated

\* _set_state, and the same update where it is written out.
SetState(s, state) == row' = [row EXCEPT ![s].state = state, ![s].updated = now]

\* _execution_commitment: what the executor prepared is the exact transfer
\* asked for (its plan, message, simulation and commitment hash together) and
\* has an expiry of its own, which the authorization must not outlive; both
\* last as long as they may.
CommitmentValid(s) == now < Expiry[s]

CommitExecution(s) ==
  /\ row[s].state = "validated"
  /\ TimeNotRegressed(s)
  /\ CommitmentValid(s)
  /\ SetState(s, "execution_committed")
  /\ UNCHANGED <<now, channel, request, calling, recovery, exec, effect>>

RecordAuthorization(s) ==
  /\ row[s].state = "execution_committed"
  /\ TimeNotRegressed(s)
  /\ now < Expiry[s]
  /\ SetState(s, "authorized")
  /\ UNCHANGED <<now, channel, request, calling, recovery, exec, effect>>

\* The submit intent is durable before the executor is called.
SubmitIntent(s) ==
  /\ row[s].state = "authorized"
  /\ TimeNotRegressed(s)
  /\ now < Expiry[s]
  /\ SetState(s, "submitted")
  /\ calling' = calling \cup {s}
  /\ UNCHANGED <<now, channel, request, recovery, exec, effect>>

\* _validate_executor_receipt: a well-formed receipt for the committed execution,
\* which the executor only has of a transfer that took effect.
ReceiptConfirms(s) == exec[s] = "landed"

\* Mutant: a call that raises is taken for a rejection.
MutSubmitOutcomes(s) ==
  {"rejected"} \cup
  (IF exec[s] \in {"accepted", "landed"} THEN {"needs_review"} ELSE {}) \cup
  (IF ReceiptConfirms(s) THEN {"reconciling"} ELSE {})

\* The state the executor's answer leads to: no answer at all, or an exception,
\* is an unknown outcome; a refusal is definitive only when the executor says
\* so; a receipt that fails _validate_executor_receipt is for review; a
\* confirmed receipt still has to be reconciled.
SubmitOutcomes(s) ==
  {"needs_recovery"} \cup
  (IF exec[s] = "refused" THEN {"rejected"} ELSE {}) \cup
  (IF exec[s] \in {"accepted", "landed"} THEN {"needs_review"} ELSE {}) \cup
  (IF ReceiptConfirms(s) THEN {"reconciling"} ELSE {})

\* _persist_technical, with the time at which submit() was called; nothing
\* else moves a submitted row, so that time is the row's own.
SubmitReturn(s) ==
  /\ s \in calling
  /\ row[s].state = "submitted"
  /\ calling' = calling \ {s}
  /\ \E outcome \in SubmitOutcomes(s) :
       row' = [row EXCEPT ![s].state = outcome, ![s].signature = (outcome = "reconciling")]
  /\ UNCHANGED <<now, channel, request, recovery, exec, effect>>

\* The process stops while submit() waits; the row stays submitted.
SubmitCrash(s) ==
  /\ s \in calling
  /\ calling' = calling \ {s}
  /\ UNCHANGED <<now, channel, request, row, recovery, exec, effect>>

-----------------------------------------------------------------------------
(* recover and record_provider_divergence: a read, and a write that trusts *)
(* it.  Neither ever submits again.                                        *)

\* Mutant: recover() is also allowed while submit() waits for the executor.
MutRecoverSubmitted == {"submitted", "needs_recovery", "reconciling", "needs_review", "disputed"}

\* Mutant: what is for review is not asked about again.
MutRecoverableStates == {"needs_recovery", "reconciling", "disputed"}

RecoverableStates == {"needs_recovery", "reconciling", "needs_review", "disputed"}

\* The state each answer of the executor's status query leads to: unavailable
\* or unknown, an answer _normalize_recovery_result refuses, confirmed with a
\* signature, failed before broadcast.
RecoveryTargets(s) ==
  {"needs_recovery", "needs_review"} \cup
  (IF exec[s] = "landed" THEN {"reconciling"} ELSE {}) \cup
  (IF exec[s] \in {"idle", "refused", "dropped"} THEN {"failed_before_submission"} ELSE {})

\* An executor that answers failed_before_broadcast stands by it: a request it
\* has not received yet is not accepted afterwards (external).
RecoverAsk(s, target) ==
  /\ recovery = None
  /\ row[s].state \in RecoverableStates
  /\ target \in RecoveryTargets(s)
  /\ recovery' = [settlement |-> s, target |-> target, at |-> now]
  /\ exec' = [exec EXCEPT ![s] = IF target = "failed_before_submission" /\ @ = "idle"
                                   THEN "dropped" ELSE @]
  /\ UNCHANGED <<now, channel, request, row, calling, effect>>

DivergenceReported(s) ==
  /\ recovery = None
  /\ row[s].state \in RecoverableStates
  /\ recovery' = [settlement |-> s, target |-> "disputed", at |-> now]
  /\ UNCHANGED <<now, channel, request, row, calling, exec, effect>>

\* _record_recovery: neither the state nor the time of the row is read again.
RecoverWrite(s, target) ==
  /\ recovery # None
  /\ recovery.settlement = s /\ recovery.target = target
  /\ row' = [row EXCEPT ![s].state = target,
                        ![s].signature = @ \/ target = "reconciling",
                        ![s].updated = recovery.at]
  /\ recovery' = None
  /\ UNCHANGED <<now, channel, request, calling, exec, effect>>

-----------------------------------------------------------------------------
(* reconcile.                                                              *)

ReconcilableStates == {"reconciling", "needs_review", "disputed"}

\* _normalize_observation, and the sources' verification of what they report:
\* an observation is of a transfer that took effect.
Observable(q) == effect[q] # None

\* Mutant: the observed totals are not compared with the request.
MutObservationMatches(s, q, at) ==
  /\ row[s].signature /\ q = s
  /\ at >= row[s].updated

\* An observation, made at the time at, of the transfer of settlement q proves
\* that the request of s took effect exactly as it was asked for.
ObservationMatches(s, q, at) ==
  /\ row[s].signature /\ q = s
  /\ effect[q].settled = request[s].settled
  /\ effect[q].vault = VaultBalance(request[s])
  /\ at >= row[s].updated

ReconcileMatch(s) ==
  /\ row[s].state \in ReconcilableStates
  /\ TimeNotRegressed(s)
  /\ \E q \in Settlements :
       /\ Observable(q)
       /\ \E at \in 0..now : ObservationMatches(s, q, at)
  /\ row' = [row EXCEPT ![s].state = "completed", ![s].receipt = TRUE, ![s].updated = now]
  /\ UNCHANGED <<now, channel, request, calling, recovery, exec, effect>>

ReconcileMismatch(s) ==
  /\ row[s].state \in ReconcilableStates
  /\ TimeNotRegressed(s)
  /\ \E q \in Settlements :
       /\ Observable(q)
       /\ \E at \in 0..now : ~ObservationMatches(s, q, at)
  /\ SetState(s, "needs_review")
  /\ UNCHANGED <<now, channel, request, calling, recovery, exec, effect>>

\* Two sources, each verified, that do not agree.
ReconcileDivergent(s) ==
  /\ row[s].state \in ReconcilableStates
  /\ TimeNotRegressed(s)
  /\ SetState(s, "disputed")
  /\ UNCHANGED <<now, channel, request, calling, recovery, exec, effect>>

-----------------------------------------------------------------------------
States == {"absent", "validated", "execution_committed", "authorized", "submitted",
           "reconciling", "completed", "rejected", "failed_before_submission",
           "needs_recovery", "needs_review", "disputed"}

Next ==
  \/ Tick
  \/ \E total \in Activations : Activate(total)
  \/ \E s \in Settlements :
       \/ Deliver(s) \/ Land(s) \/ Drop(s)
       \/ BuildRequest(s) \/ Register(s)
       \/ CommitExecution(s) \/ RecordAuthorization(s)
       \/ SubmitIntent(s) \/ SubmitReturn(s) \/ SubmitCrash(s)
       \/ \E target \in States : RecoverAsk(s, target) \/ RecoverWrite(s, target)
       \/ DivergenceReported(s)
       \/ ReconcileMatch(s) \/ ReconcileMismatch(s) \/ ReconcileDivergent(s)

Spec == Init /\ [][Next]_vars

RecoverReturn == \E s \in Settlements, target \in States : RecoverWrite(s, target)

\* Whoever drives a settlement asks again and again: a status query that would
\* be confirmed is answered and written some time, and so is an observation
\* that matches.  Nothing else is owed a step: the executor and the chain may
\* stay silent, and divergences and inconclusive answers may keep coming.
Fairness ==
  /\ WF_vars(RecoverReturn)
  /\ \A s \in Settlements :
       /\ SF_vars(RecoverAsk(s, "reconciling"))
       /\ SF_vars(ReconcileMatch(s))

FairSpec == Spec /\ Fairness

-----------------------------------------------------------------------------
Rows == [state : States, signature : BOOLEAN, receipt : BOOLEAN, updated : Nat]

\* The rows, requests and calls have the shapes the runtime gives them, and a
\* settlement waits for the executor only in the state submitted.
TypeOK ==
  /\ now \in 0..Horizon
  /\ channel \in Channels
  /\ request \in [Settlements -> Channels \cup {None}]
  /\ row \in [Settlements -> Rows]
  /\ calling \subseteq {s \in Settlements : row[s].state = "submitted"}
  /\ recovery \in [settlement : Settlements, target : States, at : Nat] \cup {None}
  /\ exec \in [Settlements -> {"idle", "accepted", "landed", "refused", "dropped"}]
  /\ effect \in [Settlements -> [settled : Nat, vault : Int] \cup {None}]

\* Everything that was transferred, or may still be transferred on account of a
\* registered settlement, is covered by the activated right: reservations made
\* from snapshots of any age, at any moment, never promise a unit twice.
ReservationsCovered ==
  channel.settled
    + AmountOf({s \in Settlements : row[s].state # "absent" /\ exec[s] \in {"idle", "accepted"}},
               Amount)
    <= channel.activated

\* Settlements with a reconciled receipt took effect, from the very totals the
\* receipt states, and no two receipts count the same stretch of the settled
\* total.
ReceiptsExact ==
  /\ \A s \in Settlements :
       row[s].receipt =>
         /\ exec[s] = "landed"
         /\ effect[s].settled = request[s].settled
         /\ effect[s].vault = VaultBalance(request[s])
  /\ \A s, r \in Settlements :
       row[s].receipt /\ row[r].receipt /\ s # r =>
         SettledAfter(s) <= request[r].settled \/ SettledAfter(r) <= request[s].settled

\* A settlement that gave its reservation back without completing never takes
\* effect: not then, and not when a delayed request reaches the executor.
ReleasedNeverLands ==
  \A s \in Settlements :
    row[s].state \in {"rejected", "failed_before_submission"} =>
      exec[s] \notin {"idle", "accepted", "landed"}

\* A transfer that took effect exactly as requested is completed in the end,
\* from whichever ambiguous state its settlement is in: none of them is a trap.
ExactTransferCompletes ==
  \A s \in Settlements :
    (/\ row[s].state \in {"needs_recovery", "reconciling", "needs_review", "disputed"}
     /\ effect[s] # None
     /\ effect[s].settled = request[s].settled
     /\ effect[s].vault = VaultBalance(request[s]))
    ~> (row[s].state = "completed")

=============================================================================

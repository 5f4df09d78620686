---------------------------- MODULE ClosureRuntime ----------------------------
(***************************************************************************)
(* Closing a channel (closure.py): the close request and the freeze, which *)
(* are artifacts computed from channel snapshots and held by the caller;   *)
(* the durable refunds of a closure with their reservations; finalization  *)
(* and the eligibility of the next epoch.                                  *)
(*                                                                         *)
(* Around the code stand the channel account, the executor that carries a  *)
(* refund out, and one settlement of the outstanding right, all external.  *)
(* Each method of the runtime is one database transaction and one step.    *)
(* The hashes that link the artifacts are left out: an artifact carries    *)
(* what it is linked to.                                                   *)
(*                                                                         *)
(* The functions of this package never read the account.  They are given a *)
(* channel snapshot, and none compares its updated_at with the time of the *)
(* call: any snapshot the account has ever shown will do.                  *)
(***************************************************************************)
EXTENDS ChannelState

CONSTANTS
  Closures,   \* closure_id
  Refunds,    \* refund_id, each with its own idempotency_key
  Amount,     \* requested_base_units of each refund
  Expiry,     \* when refund requests and their execution commitments expire
  Start,      \* the channel at the beginning
  Total,      \* the cumulative total the sender may still activate
  Horizon     \* the clock stops here

ASSUME ClosureAssumption ==
  /\ IsFiniteSet(Refunds) /\ Amount \in [Refunds -> Nat \ {0}]
  /\ Start \in Channels /\ ValidChannel(Start) /\ Start.status = "active"
  /\ None \notin Channels
  /\ Horizon \in Nat /\ Expiry \in Nat /\ Total \in Nat

VARIABLES
  now,         \* the clock every caller passes
  channel,     \* the channel account
  shown,       \* every snapshot of it that a caller may hold
  settlement,  \* how far the settlement of the outstanding right is
  closure,     \* each closure's request and its snapshot at request
  cleared,     \* whether some caller's finalization was found valid
  request,     \* each refund's request, with the freeze it was made from
  row,         \* table refunds
  exec,        \* what the executor did with each refund
  effect       \* the channel a refund found, and when it took effect

vars == <<now, channel, shown, settlement, closure, cleared, request, row, exec, effect>>

Init ==
  /\ now = 0
  /\ channel = Start
  /\ shown = {Start}
  /\ settlement = "none"
  /\ closure = [c \in Closures |-> None]
  /\ cleared = FALSE
  /\ request = [r \in Refunds |-> None]
  /\ row = [r \in Refunds |-> [state |-> "absent", signature |-> FALSE]]
  /\ exec = [r \in Refunds |-> "idle"]
  /\ effect = [r \in Refunds |-> None]

Tick ==
  /\ now < Horizon
  /\ now' = now + 1
  /\ UNCHANGED <<channel, shown, settlement, closure, cleared, request, row, exec, effect>>

-----------------------------------------------------------------------------
(* The channel account, the settlement and the executor (external).        *)

\* The account moves, and shows what it has become.
Moves(c) == channel' = c /\ shown' = shown \cup {c}

\* activation_is_eligible: the deadline is exclusive.
ActivationIsEligible == channel.deadline # None => now < channel.deadline

Activate ==
  /\ channel.status \in {"active", "closing"} /\ Total > channel.activated
  /\ ActivationIsEligible
  /\ Moves(Touched(ActivatedBy(channel, channel.sequence + 1, Total, channel.sequence + 1), now))
  /\ AccountingValid(channel')
  /\ UNCHANGED <<now, settlement, closure, cleared, request, row, exec, effect>>

Settle ==
  /\ \/ /\ settlement = "none" /\ OutstandingRight(channel) > 0
        /\ settlement' = "submitted" /\ UNCHANGED <<channel, shown>>
     \/ /\ settlement = "submitted"
        /\ settlement' = "reconciling"
        /\ Moves(Touched(Settled(channel, OutstandingRight(channel)), now))
     \/ /\ settlement = "reconciling"
        /\ settlement' = "completed" /\ UNCHANGED <<channel, shown>>
  /\ UNCHANGED <<now, closure, cleared, request, row, exec, effect>>

\* The account takes up the deadline of a close request.
CloseOnChain(c) ==
  /\ closure[c] # None /\ channel.status = "active"
  /\ now < closure[c].deadline
  /\ Moves(Closing(channel, closure[c].deadline, now))
  /\ UNCHANGED <<now, settlement, closure, cleared, request, row, exec, effect>>

\* The account closes for a caller whose finalization was found valid, which
\* is not decided in the same step.
Finalize ==
  /\ cleared /\ channel.status = "closing"
  /\ Moves(Closed(channel, now))
  /\ UNCHANGED <<now, settlement, closure, cleared, request, row, exec, effect>>

Deliver(r) ==
  /\ row[r].state \notin {"absent", "validated", "execution_committed", "released"}
  /\ exec[r] = "idle"
  /\ \E verdict \in {"accepted", "refused"} : exec' = [exec EXCEPT ![r] = verdict]
  /\ UNCHANGED <<now, channel, shown, settlement, closure, cleared, request, row, effect>>

\* The account is not relied upon to refuse the transfer.
Land(r) ==
  /\ exec[r] = "accepted"
  /\ exec' = [exec EXCEPT ![r] = "landed"]
  /\ effect' = [effect EXCEPT ![r] = Touched(channel, now)]
  /\ Moves(Touched(Refunded(channel, Amount[r]), now))
  /\ UNCHANGED <<now, settlement, closure, cleared, request, row>>

-----------------------------------------------------------------------------
(* request_close, freeze_closure, make_refund_request: pure functions of   *)
(* a channel snapshot s; the caller keeps what they return.                *)

\* request_close and its snapshot, in which nothing is refundable yet.
RequestClose(c, s, deadline) ==
  /\ closure[c] = None
  /\ ValidChannel(s) /\ s.status = "active"
  /\ deadline > now /\ deadline - now >= MinGrace
  /\ closure' = [closure EXCEPT ![c] = [channel |-> s, deadline |-> deadline]]
  /\ UNCHANGED <<now, channel, shown, settlement, cleared, request, row, exec, effect>>

\* What both snapshot validators ask of the totals.
RightsBounded(c) ==
  0 <= c.settled /\ c.settled <= c.activated /\ c.activated <= c.funded - c.refunded

\* _validate_request_snapshot.  The times in both kinds of snapshot are those
\* RequestClose and Freezable compared when the snapshot was made.
RequestSnapshotValid(cl) ==
  RightsBounded(cl.channel) /\ (cl.channel.sequence = 0) = (cl.channel.activated = 0)

\* _validate_freeze_snapshot.
FreezeSnapshotValid(freeze) ==
  RightsBounded(freeze.channel) /\ freeze.channel.status = "closing"

AmbiguousStates == {"submitted", "reconciling", "needs_recovery", "needs_review", "disputed"}

ReleasingStates == {"released", "completed"}

\* freeze_closure's conditions on the snapshot at freeze; those on the voucher
\* activated last compare the two snapshots.  Only the call has to come after
\* the deadline: a snapshot from the claim window may miss an activation.
Freezable(cl, s) ==
  LET old == cl.channel
  IN  /\ RequestSnapshotValid(cl)
      /\ now >= cl.deadline
      /\ ValidChannel(s) /\ s.status = "closing"
      /\ s.deadline = cl.deadline
      /\ s.funded = old.funded /\ s.refunded = old.refunded
      /\ s.settled >= old.settled /\ s.activated >= old.activated
      /\ s.sequence >= old.sequence
      /\ s.activated > old.activated => s.sequence > old.sequence
      /\ (s.sequence > old.sequence) = (s.voucher # old.voucher)

\* The snapshot at freeze that freeze_closure makes.  The operation states the
\* caller supplies are those of the settlement.
Freeze(s) == [channel |-> s, unresolved |-> settlement \in AmbiguousStates]

Reasons == {"post_claim_window_unallocated", "final_close"}

\* freeze_closure and make_refund_request.  A freeze is a value: a caller that
\* keeps one for later could as well make the request at once, and a request
\* that is not registered has no effect, so each id is used for the one its
\* caller goes on with.
MakeRefundRequest(r, c, s, reason) ==
  /\ request[r] = None
  /\ closure[c] # None /\ Freezable(closure[c], s)
  /\ FreezeSnapshotValid(Freeze(s))
  /\ now < Expiry
  /\ request' = [request EXCEPT ![r] = [closure |-> c, freeze |-> Freeze(s), reason |-> reason]]
  /\ UNCHANGED <<now, channel, shown, settlement, closure, cleared, row, exec, effect>>

-----------------------------------------------------------------------------
(* project_refund and register_refund.                                     *)

\* project_refund: nothing is refunded while an operation is unresolved, nor
\* what the outstanding right needs.
Projectable(r) ==
  LET freeze == request[r].freeze
      c == freeze.channel
  IN  /\ FreezeSnapshotValid(freeze)
      /\ now >= c.deadline /\ now < Expiry
      /\ ~freeze.unresolved /\ settlement \notin AmbiguousStates
      /\ Amount[r] <= UnallocatedCapacity(c) /\ Amount[r] <= VaultBalance(c)
      /\ request[r].reason = "final_close" =>
           OutstandingRight(c) = 0 /\ Amount[r] = VaultBalance(c)

OfClosure(c) == {r \in Refunds : row[r].state # "absent" /\ request[r].closure = c}

RefundedAfter(r) == request[r].freeze.channel.refunded + Amount[r]

Reserved(c) == AmountOf({r \in OfClosure(c) : row[r].state \notin ReleasingStates}, Amount)

\* Mutant: the freeze is compared with the total a refund found, not with the
\* one it left.
MutAboveHighWater(freeze, c, except) ==
  \A r \in OfClosure(c) \ except :
    row[r].state = "completed" => freeze.channel.refunded >= request[r].freeze.channel.refunded

\* No completed refund of the closure, other than those excepted, is newer
\* than the freeze.
AboveHighWater(freeze, c, except) ==
  \A r \in OfClosure(c) \ except :
    row[r].state = "completed" => freeze.channel.refunded >= RefundedAfter(r)

Register(r) ==
  /\ row[r].state = "absent" /\ request[r] # None
  /\ LET freeze == request[r].freeze
         c == request[r].closure
     IN  /\ Projectable(r)
         /\ AboveHighWater(freeze, c, {})
         /\ Reserved(c) + Amount[r] <= UnallocatedCapacity(freeze.channel)
  /\ row' = [row EXCEPT ![r].state = "validated"]
  /\ UNCHANGED <<now, channel, shown, settlement, closure, cleared, request, exec, effect>>

-----------------------------------------------------------------------------
(* The life of a registered refund.                                        *)

CommitExecution(r) ==
  /\ row[r].state = "validated"
  /\ now < Expiry
  /\ row' = [row EXCEPT ![r].state = "execution_committed"]
  /\ UNCHANGED <<now, channel, shown, settlement, closure, cleared, request, exec, effect>>

\* The commitment's expiry is not looked at again.
RecordSubmitIntent(r) ==
  /\ row[r].state = "execution_committed"
  /\ row' = [row EXCEPT ![r].state = "submitted"]
  /\ UNCHANGED <<now, channel, shown, settlement, closure, cleared, request, exec, effect>>

\* Mutant: a rejection gets a state of its own that nothing else knows.
MutRecordTechnicalReceipt(r) ==
  /\ row[r].state = "submitted"
  /\ \/ /\ exec[r] \in {"accepted", "landed"}
        /\ row' = [row EXCEPT ![r] = [state |-> "reconciling", signature |-> TRUE]]
     \/ exec[r] = "refused" /\ row' = [row EXCEPT ![r].state = "rejected"]
  /\ UNCHANGED <<now, channel, shown, settlement, closure, cleared, request, exec, effect>>

\* The executor reports what it knows: an accepted transfer has a signature,
\* an unknown outcome may have one; a rejection is for review.
RecordTechnicalReceipt(r) ==
  /\ row[r].state = "submitted"
  /\ \/ /\ exec[r] \in {"accepted", "landed"}
        /\ \E state \in {"reconciling", "needs_recovery"} :
             row' = [row EXCEPT ![r] = [state |-> state, signature |-> TRUE]]
     \/ row' = [row EXCEPT ![r].state = "needs_recovery"]
     \/ exec[r] = "refused" /\ row' = [row EXCEPT ![r].state = "needs_review"]
  /\ UNCHANGED <<now, channel, shown, settlement, closure, cleared, request, exec, effect>>

RecordRecoveredSignature(r) ==
  /\ row[r].state = "needs_recovery"
  /\ exec[r] \in {"accepted", "landed"}
  /\ row' = [row EXCEPT ![r] = [state |-> "reconciling", signature |-> TRUE]]
  /\ UNCHANGED <<now, channel, shown, settlement, closure, cleared, request, exec, effect>>

\* Mutant: a completed refund may still be reported as divergent.
MutRecordProviderDivergence(r) ==
  /\ row[r].state \in {"needs_recovery", "reconciling", "needs_review", "completed"}
  /\ row' = [row EXCEPT ![r].state = "disputed"]
  /\ UNCHANGED <<now, channel, shown, settlement, closure, cleared, request, exec, effect>>

RecordProviderDivergence(r) ==
  /\ row[r].state \in {"needs_recovery", "reconciling", "needs_review"}
  /\ row' = [row EXCEPT ![r].state = "disputed"]
  /\ UNCHANGED <<now, channel, shown, settlement, closure, cleared, request, exec, effect>>

\* release_before_submission; the three releasing states are one here.
ReleaseBeforeSubmission(r) ==
  /\ row[r].state = "validated"
  /\ row' = [row EXCEPT ![r].state = "released"]
  /\ UNCHANGED <<now, channel, shown, settlement, closure, cleared, request, exec, effect>>

\* Mutant: the vault and the settled total are not compared.
MutObservationMatches(r, q) ==
  q = r /\ effect[q].refunded = request[r].freeze.channel.refunded

\* The observed transfer is that of r and found the totals of its projection.
ObservationMatches(r, q) ==
  /\ q = r
  /\ \A f \in {"funded", "activated", "settled", "refunded"} :
       effect[q][f] = request[r].freeze.channel[f]

\* Reconciliation puts an overlap with a completed refund, and a mismatch, up
\* for review; a signature that is missing or differs changes nothing.
Reconcile(r, q) ==
  LET fits == /\ AboveHighWater(request[r].freeze, request[r].closure, {r})
              /\ ObservationMatches(r, q)
  IN  /\ row[r].state \in {"reconciling", "needs_recovery"}
      /\ effect[q] # None
      /\ \/ ~fits /\ row' = [row EXCEPT ![r].state = "needs_review"]
         \/ fits /\ row[r].signature /\ row' = [row EXCEPT ![r].state = "completed"]
      /\ UNCHANGED <<now, channel, shown, settlement, closure, cleared, request, exec, effect>>

-----------------------------------------------------------------------------
(* validate_finalization and epoch_transition_eligibility.                 *)

\* The states of the settlement and of every refund, as the caller lists them.
OperationStates == {settlement} \cup {row[r].state : r \in Refunds}

\* Mutant: the caller's operation states are not consulted.
MutFinalizable(freeze, s) ==
  /\ FreezeSnapshotValid(freeze)
  /\ ValidChannel(s) /\ s.status = "closing" /\ now >= s.deadline
  /\ OutstandingRight(s) = 0 /\ VaultBalance(s) = 0
  /\ ~freeze.unresolved

\* A state that is neither ambiguous nor releasing is refused as well.
Finalizable(freeze, s) ==
  /\ FreezeSnapshotValid(freeze)
  /\ ValidChannel(s) /\ s.status = "closing" /\ now >= s.deadline
  /\ OutstandingRight(s) = 0 /\ VaultBalance(s) = 0
  /\ ~freeze.unresolved
  /\ OperationStates \subseteq ReleasingStates \cup {"none", "absent"}

\* The freeze handed over is of any snapshot too; whether it was made now or
\* earlier makes no difference to one who lists the operations as they are now.
ValidateFinalization(c, f, s) ==
  /\ ~cleared
  /\ closure[c] # None /\ Freezable(closure[c], f)
  /\ Finalizable(Freeze(f), s)
  /\ cleared' = TRUE
  /\ UNCHANGED <<now, channel, shown, settlement, closure, request, row, exec, effect>>

\* epoch_transition_eligibility, for a caller that reports no unresolved
\* operation.
EpochTransitionEligible(s) ==
  /\ ValidChannel(s) /\ s.status = "closed"
  /\ VaultBalance(s) = 0 /\ OutstandingRight(s) = 0

Next ==
  \/ Tick \/ Activate \/ Settle \/ Finalize
  \/ \E c \in Closures :
       \/ CloseOnChain(c)
       \/ \E s \in shown, deadline \in 1..Horizon : RequestClose(c, s, deadline)
       \/ \E f, s \in shown : ValidateFinalization(c, f, s)
  \/ \E r \in Refunds :
       \/ \E c \in Closures, s \in shown, reason \in Reasons : MakeRefundRequest(r, c, s, reason)
       \/ Register(r) \/ CommitExecution(r) \/ RecordSubmitIntent(r)
       \/ Deliver(r) \/ Land(r)
       \/ RecordTechnicalReceipt(r) \/ RecordRecoveredSignature(r)
       \/ RecordProviderDivergence(r) \/ ReleaseBeforeSubmission(r)
       \/ \E q \in Refunds : Reconcile(r, q)

Spec == Init /\ [][Next]_vars

-----------------------------------------------------------------------------
States == {"absent", "validated", "execution_committed", "submitted", "reconciling",
           "needs_recovery", "needs_review", "disputed", "released", "completed"}

Freezes == [channel : Channels, unresolved : BOOLEAN]

\* The artifacts and rows have the shapes the code gives them, and a row that
\* exists knows its request.
TypeOK ==
  /\ now \in 0..Horizon
  /\ channel \in Channels /\ shown \in SUBSET Channels
  /\ cleared \in BOOLEAN
  /\ settlement \in {"none", "submitted", "reconciling", "completed"}
  /\ closure \in [Closures -> [channel : Channels, deadline : Nat] \cup {None}]
  /\ request \in [Refunds -> [closure : Closures, freeze : Freezes, reason : Reasons] \cup {None}]
  /\ row \in [Refunds -> [state : States, signature : BOOLEAN]]
  /\ exec \in [Refunds -> {"idle", "accepted", "landed", "refused"}]
  /\ effect \in [Refunds -> Channels \cup {None}]
  /\ \A r \in Refunds : row[r].state # "absent" => request[r] # None

MayStillLand(r) ==
  /\ row[r].state \notin {"absent", "released"}
  /\ exec[r] \in {"idle", "accepted"}

\* What the refunds of other closures have taken.
TakenByOthers(c) ==
  AmountOf({q \in Refunds : effect[q] # None /\ request[q].closure # c}, Amount)

\* What the freeze of r did not see of the account: rights activated since, and
\* refunds that other closures, which reserve on their own, have carried out.
Overlooked(r) ==
  channel.activated - request[r].freeze.channel.activated + TakenByOthers(request[r].closure)

\* What the registered refunds of a closure may still take reaches into the
\* activated right by no more than the stalest of their freezes overlooked;
\* when the freezes state the final activation and one closure is refunded, not
\* at all.  However freezes, activations, settlements and refunds interleave.
RightsStayCovered ==
  \A c \in Closures :
    OfClosure(c) # {} =>
      \E r \in OfClosure(c) :
        AmountOf({q \in OfClosure(c) : MayStillLand(q)}, Amount)
          <= UnallocatedCapacity(channel) + Overlooked(r)

\* A completed refund was carried out, once the claim window was over, and
\* found exactly the totals its receipt states; so at most one refund of a
\* closure completes from any one freeze.
CompletedRefundsExact ==
  /\ \A r \in Refunds :
       row[r].state = "completed" =>
         /\ exec[r] = "landed"
         /\ effect[r].updated >= effect[r].deadline
         /\ VaultBalance(effect[r]) = VaultBalance(request[r].freeze.channel)
         /\ OutstandingRight(effect[r]) = OutstandingRight(request[r].freeze.channel)
  /\ \A r, q \in Refunds :
       row[r].state = "completed" /\ row[q].state = "completed" /\ r # q =>
         request[r].freeze.channel.refunded # request[q].freeze.channel.refunded

\* When the next epoch may start, every refund whose freeze overlooked nothing
\* is settled: if it took effect it is completed, and if not it never will.
EpochStartsClean ==
  (\E s \in shown : EpochTransitionEligible(s)) =>
    \A r \in Refunds :
      row[r].state # "absent" /\ Overlooked(r) = 0 =>
        (effect[r] # None <=> row[r].state = "completed") /\ ~MayStillLand(r)

Final == {"completed", "released", "disputed"}

\* A refund that completed, was released or is disputed stays so, whichever
\* late receipt, observation or report arrives.
FinalRefundsStay ==
  [][\A r \in Refunds : row[r].state \in Final => row'[r].state = row[r].state]_vars

\* What docs/channels/ADR/FC-ADR-006-activated-right-expiry-v1.md says of the
\* freeze: a refund is reckoned from the final activated total.  The code does
\* not ensure it.
RefundsUseFinalActivation ==
  \A r \in Refunds :
    row[r].state # "absent" => request[r].freeze.channel.activated = channel.activated

=============================================================================

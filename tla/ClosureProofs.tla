----------------------------- MODULE ClosureProofs -----------------------------
(***************************************************************************)
(* Proofs about the closure runtime, for any number of refunds and         *)
(* closures, any amounts, expiry and start of the channel.                 *)
(***************************************************************************)
EXTENDS ClosureRuntime, ChannelLemmas

Unsent == {"absent", "validated", "execution_committed", "released"}

Totals == {"funded", "activated", "settled", "refunded"}

\* What a row tells about the executor and the account: nothing is sent before
\* the submit intent, a signature is of a transfer the executor took up, and a
\* completed refund found the totals of its freeze.
RowInv(r) ==
  /\ row[r].state \in Unsent => exec[r] = "idle"
  /\ row[r].signature => exec[r] \in {"accepted", "landed"}
  /\ exec[r] # "landed" => effect[r] = None
  /\ exec[r] = "landed" => effect[r] \in Channels
  /\ row[r].state = "completed" =>
       /\ exec[r] = "landed"
       /\ \A f \in Totals : effect[r][f] = request[r].freeze.channel[f]

StateInv == TypeOK /\ \A r \in Refunds : RowInv(r)

Landed == {r \in Refunds : exec[r] = "landed"}

\* Snapshots are of the past of the account: it has been funded as much since, and
\* activated and refunded no less; it leaves the active state before the first
\* refund, keeps the deadline it has once taken up, and closes when cleared.
ShownInv(s) ==
  /\ s.funded = channel.funded /\ s.activated <= channel.activated
  /\ s.refunded <= channel.refunded
  /\ s.status = "active" => s.refunded = Start.refunded
  /\ s.status = "closing" => channel.status # "active" /\ channel.deadline = s.deadline
  /\ s.status = "closed" => cleared

\* The account is past the claim window of the freeze f, which saw no refund.
PastWindow(f) ==
  /\ channel.status # "active" /\ channel.deadline = f.deadline
  /\ f.deadline \in Nat /\ now >= f.deadline
  /\ f.refunded = Start.refunded /\ f.funded = channel.funded
  /\ f.activated <= channel.activated

SnapshotInv ==
  /\ channel \in shown /\ \A s \in shown : ShownInv(s)
  /\ \A c \in Closures : closure[c] # None => closure[c].channel.refunded = Start.refunded
  /\ \A r \in Refunds : request[r] # None => PastWindow(request[r].freeze.channel)

\* A refund that took effect did so after the claim window and left its place
\* in the refunded total, which no other refund shares and which counts them all.
EffectInv ==
  /\ channel.refunded = Start.refunded + AmountOf(Landed, Amount)
  /\ \A r \in Landed :
       /\ effect[r].deadline \in Nat /\ effect[r].updated >= effect[r].deadline
       /\ effect[r].refunded + Amount[r] <= channel.refunded
  /\ \A r, q \in Landed :
       r # q => \/ effect[r].refunded + Amount[r] <= effect[q].refunded
                \/ effect[q].refunded + Amount[q] <= effect[r].refunded

\* The refunds of a closure that were not given back.
Open(c) == {r \in OfClosure(c) : row[r].state # "released"}

\* All refunds of a closure together stay within the capacity that one of their
\* freezes states, also those that are completed and no longer reserved.
PoolInv ==
  \A c \in Closures :
    OfClosure(c) # {} =>
      \E r \in OfClosure(c) :
        AmountOf(Open(c), Amount) <= UnallocatedCapacity(request[r].freeze.channel)

Completed == {r \in Refunds : row[r].state = "completed"}

\* Once finalization is cleared, the completed refunds have used up what was not
\* activated, and a refund that is under way was made from a stale freeze or
\* beside another closure's.
ClearedInv ==
  cleared =>
    /\ channel.funded - channel.activated <= Start.refunded + AmountOf(Completed, Amount)
    /\ \A r \in Refunds :
         row[r].state \in {"absent", "released", "completed"} \/ Overlooked(r) # 0

IInv == StateInv /\ SnapshotInv /\ EffectInv /\ PoolInv /\ ClearedInv

-----------------------------------------------------------------------------
(* The constants and types.                                                *)

\* What the proofs below need of the constants.
LEMMA ConstantTypes ==
  /\ \A r \in Refunds : Amount[r] \in Nat /\ Amount[r] > 0
  /\ Start \in Channels /\ Start.status = "active" /\ Horizon \in Nat /\ Total \in Nat
  /\ IsFiniteSet(Refunds) /\ None \notin Channels /\ None \notin Int
BY ClosureAssumption, PolicyAssumption

Rows == [state : States, signature : BOOLEAN]

\* The row of r gets the given state and signature flag.
RowWritten(r, st, sig) ==
  /\ row' \in [Refunds -> Rows]
  /\ row'[r].state = st /\ row'[r].signature = sig
  /\ \A q \in Refunds : q # r => row'[q] = row[q]

\* The two shapes of the runtime's updates.
LEMMA RowUpdates ==
  ASSUME row \in [Refunds -> Rows], NEW r \in Refunds, NEW st \in States
  PROVE  /\ row' = [row EXCEPT ![r].state = st] => RowWritten(r, st, row[r].signature)
         /\ row' = [row EXCEPT ![r] = [state |-> st, signature |-> TRUE]] => RowWritten(r, st, TRUE)
<1>1. ASSUME row' = [row EXCEPT ![r].state = st] PROVE RowWritten(r, st, row[r].signature)
  BY <1>1 DEF Rows, RowWritten
<1>2. ASSUME row' = [row EXCEPT ![r] = [state |-> st, signature |-> TRUE]]
      PROVE  RowWritten(r, st, TRUE)
  BY <1>2 DEF Rows, RowWritten
<1> QED
  BY <1>1, <1>2, Zenon

\* A step that writes the row of one refund and nothing else preserves the
\* invariant if the new row does.
LEMMA RowStep ==
  ASSUME StateInv, NEW r \in Refunds, NEW st, NEW sig, RowWritten(r, st, sig),
         UNCHANGED <<now, channel, shown, settlement, closure, cleared, request, exec, effect>>,
         request[r] # None,
         st \in Unsent => exec[r] = "idle",
         sig => exec[r] \in {"accepted", "landed"},
         st = "completed" =>
           /\ exec[r] = "landed"
           /\ \A f \in Totals : effect[r][f] = request[r].freeze.channel[f]
  PROVE  StateInv'
<1>1. /\ row' \in [Refunds -> Rows] /\ row'[r].state = st /\ row'[r].signature = sig
      /\ \A q \in Refunds : q # r => row'[q] = row[q]
  BY DEF RowWritten
<1>2. TypeOK'
  BY <1>1 DEF StateInv, TypeOK, Rows
<1>3. ASSUME NEW q \in Refunds PROVE RowInv(q)'
  <2>1. CASE q = r
    BY <1>1, <2>1 DEF StateInv, RowInv
  <2>2. CASE q # r
    BY <1>1, <2>2 DEF StateInv, RowInv
  <2> QED
    BY <2>1, <2>2
<1> QED
  BY <1>2, <1>3 DEF StateInv

\* The first state has the invariant.
LEMMA StateInit == Init => StateInv
<1> SUFFICES ASSUME Init PROVE StateInv
  OBVIOUS
<1>1. TypeOK
  <2>1. now \in 0..Horizon /\ channel \in Channels /\ shown \in SUBSET Channels
    BY ConstantTypes DEF Init
  <2> QED
    BY <2>1, ConstantTypes DEF Init, TypeOK, States
<1>2. ASSUME NEW r \in Refunds PROVE RowInv(r)
  BY DEF Init, RowInv, Unsent
<1> QED
  BY <1>1, <1>2 DEF StateInv

\* What the steps of the account change in it.
LEMMA ChannelSteps ==
  ASSUME StateInv
  PROVE  /\ Activate \/ Settle \/ Finalize \/ (\E c \in Closures : CloseOnChain(c))
              \/ (\E r \in Refunds : Land(r)) =>
                channel' \in Channels /\ shown' \in SUBSET Channels
         /\ Settle => \A f \in {"status", "deadline", "funded", "activated", "refunded"} :
                        channel'[f] = channel[f]
         /\ Activate => /\ channel'.activated = Total
                        /\ \A f \in {"status", "deadline", "funded", "refunded"} :
                             channel'[f] = channel[f]
         /\ \A c \in Closures : CloseOnChain(c) =>
              /\ channel'.status = "closing"
              /\ \A f \in Totals : channel'[f] = channel[f]
         /\ Finalize =>
              /\ channel'.status = "closed"
              /\ \A f \in {"deadline", "funded", "activated", "settled", "refunded"} :
                   channel'[f] = channel[f]
         /\ \A r \in Refunds : Land(r) =>
              /\ channel'.refunded = channel.refunded + Amount[r]
              /\ \A f \in {"status", "deadline", "funded", "activated", "settled"} :
                   channel'[f] = channel[f]
<1>0. channel \in Channels /\ now \in Nat /\ channel.sequence + 1 \in Nat /\ Total \in Nat
  BY ConstantTypes, ChannelTypes DEF StateInv, TypeOK
<1>a. ASSUME NEW x \in Channels, Moves(x)
      PROVE  channel' = x /\ shown' \in SUBSET Channels
  BY <1>a DEF Moves, StateInv, TypeOK
<1>1. ASSUME Activate
      PROVE  /\ channel' \in Channels /\ shown' \in SUBSET Channels
             /\ channel'.activated = Total
             /\ \A f \in {"status", "deadline", "funded", "refunded"} : channel'[f] = channel[f]
  <2> DEFINE d == ActivatedBy(channel, channel.sequence + 1, Total, channel.sequence + 1)
  <2>1. /\ d \in Channels /\ d.refunded = channel.refunded /\ d.status = channel.status
        /\ d.deadline = channel.deadline /\ d.funded = channel.funded /\ d.activated = Total
    BY <1>0, ActivatedByFields
  <2> HIDE DEF d
  <2>2. /\ Touched(d, now) \in Channels /\ Touched(d, now).refunded = d.refunded
        /\ Touched(d, now).status = d.status /\ Touched(d, now).deadline = d.deadline
        /\ Touched(d, now).funded = d.funded /\ Touched(d, now).activated = d.activated
    BY <1>0, <2>1, TouchedFields
  <2>3. channel' = Touched(d, now) /\ shown' \in SUBSET Channels
    BY <1>1, <1>a, <2>2 DEF Activate, d
  <2> QED
    BY <2>1, <2>2, <2>3
<1>2. ASSUME Settle
      PROVE  /\ channel' \in Channels /\ shown' \in SUBSET Channels
             /\ \A f \in {"status", "deadline", "funded", "activated", "refunded"} :
                  channel'[f] = channel[f]
  <2>1. CASE UNCHANGED <<channel, shown>>
    BY <1>0, <2>1 DEF StateInv, TypeOK
  <2>2. CASE Moves(Touched(Settled(channel, OutstandingRight(channel)), now))
    <3> DEFINE d == Settled(channel, OutstandingRight(channel))
    <3>1. OutstandingRight(channel) \in Int /\ channel.settled + OutstandingRight(channel) \in Nat
      BY <1>0, ChannelTypes DEF OutstandingRight
    <3>2. /\ d \in Channels
          /\ d.status = channel.status /\ d.deadline = channel.deadline
          /\ d.funded = channel.funded /\ d.activated = channel.activated
          /\ d.refunded = channel.refunded
      BY <1>0, <3>1, SettledFields
    <3> HIDE DEF d
    <3>3. /\ Touched(d, now) \in Channels
          /\ Touched(d, now).status = d.status /\ Touched(d, now).deadline = d.deadline
          /\ Touched(d, now).funded = d.funded /\ Touched(d, now).activated = d.activated
          /\ Touched(d, now).refunded = d.refunded
      BY <1>0, <3>2, TouchedFields
    <3>4. channel' = Touched(d, now) /\ shown' \in SUBSET Channels
      BY <1>a, <2>2, <3>3 DEF d
    <3> QED
      BY <3>2, <3>3, <3>4
  <2> QED
    BY <1>2, <2>1, <2>2 DEF Settle
<1>3. ASSUME NEW c \in Closures, CloseOnChain(c)
      PROVE  /\ channel' \in Channels /\ shown' \in SUBSET Channels /\ channel'.status = "closing"
             /\ \A f \in Totals : channel'[f] = channel[f]
  <2>1. closure[c].deadline \in Nat /\ Moves(Closing(channel, closure[c].deadline, now))
    BY <1>3 DEF CloseOnChain, StateInv, TypeOK
  <2> DEFINE d == Closing(channel, closure[c].deadline, now)
  <2>2. /\ d \in Channels /\ d.status = "closing"
        /\ d.funded = channel.funded /\ d.activated = channel.activated
        /\ d.settled = channel.settled /\ d.refunded = channel.refunded
    BY <1>0, <2>1, ClosingFields
  <2> HIDE DEF d
  <2>3. channel' = d /\ shown' \in SUBSET Channels
    BY <1>a, <2>1, <2>2 DEF d
  <2> QED
    BY <2>2, <2>3 DEF Totals
<1>4. ASSUME Finalize
      PROVE  /\ channel' \in Channels /\ shown' \in SUBSET Channels /\ channel'.status = "closed"
             /\ \A f \in {"deadline", "funded", "activated", "settled", "refunded"} :
                  channel'[f] = channel[f]
  <2>1. Moves(Closed(channel, now))
    BY <1>4 DEF Finalize
  <2> DEFINE d == Closed(channel, now)
  <2>2. /\ d \in Channels /\ d.status = "closed" /\ d.deadline = channel.deadline
        /\ d.funded = channel.funded /\ d.activated = channel.activated
        /\ d.settled = channel.settled /\ d.refunded = channel.refunded
    BY <1>0, ClosedFields
  <2> HIDE DEF d
  <2>3. channel' = d /\ shown' \in SUBSET Channels
    BY <1>a, <2>1, <2>2 DEF d
  <2> QED
    BY <2>2, <2>3
<1>5. ASSUME NEW r \in Refunds, Land(r)
      PROVE  /\ channel' \in Channels /\ shown' \in SUBSET Channels
             /\ channel'.refunded = channel.refunded + Amount[r]
             /\ \A f \in {"status", "deadline", "funded", "activated", "settled"} :
                  channel'[f] = channel[f]
  <2> DEFINE d == Refunded(channel, Amount[r])
  <2>1. /\ d \in Channels /\ d.refunded = channel.refunded + Amount[r]
        /\ d.status = channel.status /\ d.deadline = channel.deadline
        /\ d.funded = channel.funded /\ d.activated = channel.activated
        /\ d.settled = channel.settled
    BY <1>0, ConstantTypes, RefundedFields
  <2> HIDE DEF d
  <2>2. /\ Touched(d, now) \in Channels
        /\ Touched(d, now).status = d.status /\ Touched(d, now).deadline = d.deadline
        /\ Touched(d, now).funded = d.funded /\ Touched(d, now).activated = d.activated
        /\ Touched(d, now).settled = d.settled /\ Touched(d, now).refunded = d.refunded
    BY <1>0, <2>1, TouchedFields
  <2>3. channel' = Touched(d, now) /\ shown' \in SUBSET Channels
    BY <1>5, <1>a, <2>2 DEF Land, d
  <2> QED
    BY <2>1, <2>2, <2>3
<1> QED
  BY <1>1, <1>2, <1>3, <1>4, <1>5

\* Every step keeps it.
LEMMA StateStep == StateInv /\ [Next]_vars => StateInv'
<1> SUFFICES ASSUME StateInv, [Next]_vars PROVE StateInv'
  OBVIOUS
<1>0. now \in Nat /\ channel \in Channels
  BY ConstantTypes DEF StateInv, TypeOK
<1>1. CASE UNCHANGED vars
  BY <1>1 DEF vars, StateInv, TypeOK, RowInv
<1>2. CASE Tick
  <2>1. TypeOK'
    BY <1>2, ConstantTypes DEF Tick, StateInv, TypeOK
  <2> QED
    BY <1>2, <2>1 DEF Tick, StateInv, RowInv
<1>3. ASSUME Activate PROVE StateInv'
  <2>1. TypeOK'
    BY <1>3, ChannelSteps DEF Activate, StateInv, TypeOK
  <2> QED
    BY <1>3, <2>1 DEF Activate, StateInv, RowInv
<1>4. ASSUME Settle PROVE StateInv'
  <2>1. TypeOK'
    BY <1>4, ChannelSteps DEF Settle, StateInv, TypeOK
  <2> QED
    BY <1>4, <2>1 DEF Settle, StateInv, RowInv
<1>5. ASSUME NEW c \in Closures, CloseOnChain(c) PROVE StateInv'
  <2>1. TypeOK'
    BY <1>5, ChannelSteps DEF CloseOnChain, StateInv, TypeOK
  <2> QED
    BY <1>5, <2>1 DEF CloseOnChain, StateInv, RowInv
<1>6. ASSUME Finalize PROVE StateInv'
  <2>1. TypeOK'
    BY <1>6, ChannelSteps DEF Finalize, StateInv, TypeOK
  <2> QED
    BY <1>6, <2>1 DEF Finalize, StateInv, RowInv
<1>7. ASSUME NEW c \in Closures, NEW x \in shown, NEW deadline \in 1..Horizon,
             RequestClose(c, x, deadline)
      PROVE  StateInv'
  <2>1. [channel |-> x, deadline |-> deadline] \in [channel : Channels, deadline : Nat]
    BY ConstantTypes DEF StateInv, TypeOK
  <2>2. TypeOK'
    BY <1>7, <2>1 DEF RequestClose, StateInv, TypeOK
  <2> QED
    BY <1>7, <2>2 DEF RequestClose, StateInv, RowInv
<1>8. ASSUME NEW c \in Closures, NEW f \in shown, NEW x \in shown, ValidateFinalization(c, f, x)
      PROVE  StateInv'
  <2>1. TypeOK'
    BY <1>8 DEF ValidateFinalization, StateInv, TypeOK
  <2> QED
    BY <1>8, <2>1 DEF ValidateFinalization, StateInv, RowInv
<1>9. ASSUME NEW r \in Refunds, NEW c \in Closures, NEW x \in shown, NEW reason \in Reasons,
             MakeRefundRequest(r, c, x, reason)
      PROVE  StateInv'
  <2>1. Freeze(x) \in Freezes
    BY DEF Freeze, Freezes, StateInv, TypeOK
  <2>2. [closure |-> c, freeze |-> Freeze(x), reason |-> reason]
          \in [closure : Closures, freeze : Freezes, reason : Reasons]
    BY <2>1
  <2>3. /\ request' = [request EXCEPT ![r] =
                       [closure |-> c, freeze |-> Freeze(x), reason |-> reason]]
        /\ request[r] = None
        /\ UNCHANGED <<now, channel, shown, settlement, closure, cleared, row, exec, effect>>
    BY <1>9 DEF MakeRefundRequest
  <2>4. TypeOK'
    BY <2>2, <2>3 DEF StateInv, TypeOK
  <2>5. ASSUME NEW q \in Refunds PROVE RowInv(q)'
    <3>1. q # r => request'[q] = request[q]
      BY <2>3 DEF StateInv, TypeOK
    <3>2. row[q].state = "completed" => request[q] # None
      BY DEF StateInv, TypeOK
    <3> QED
      BY <2>3, <3>1, <3>2 DEF StateInv, RowInv
  <2> QED
    BY <2>4, <2>5 DEF StateInv
<1>10. ASSUME NEW r \in Refunds, Register(r) PROVE StateInv'
  <2>1. row \in [Refunds -> Rows] /\ RowInv(r) /\ request[r] # None
    BY <1>10 DEF Register, StateInv, TypeOK, Rows
  <2>2. RowWritten(r, "validated", row[r].signature)
    BY <1>10, <2>1, RowUpdates DEF Register, States
  <2>3. UNCHANGED <<now, channel, shown, settlement, closure, cleared, request, exec, effect>>
    BY <1>10 DEF Register
  <2>4. exec[r] = "idle" /\ (row[r].signature => exec[r] \in {"accepted", "landed"})
    BY <1>10, <2>1 DEF Register, RowInv, Unsent
  <2> QED
    BY <2>1, <2>2, <2>3, <2>4, RowStep
<1>11. ASSUME NEW r \in Refunds, CommitExecution(r) PROVE StateInv'
  <2>1. row \in [Refunds -> Rows] /\ RowInv(r) /\ request[r] # None
    BY <1>11 DEF CommitExecution, StateInv, TypeOK, Rows
  <2>2. RowWritten(r, "execution_committed", row[r].signature)
    BY <1>11, <2>1, RowUpdates DEF CommitExecution, States
  <2>3. UNCHANGED <<now, channel, shown, settlement, closure, cleared, request, exec, effect>>
    BY <1>11 DEF CommitExecution
  <2>4. exec[r] = "idle" /\ (row[r].signature => exec[r] \in {"accepted", "landed"})
    BY <1>11, <2>1 DEF CommitExecution, RowInv, Unsent
  <2> QED
    BY <2>1, <2>2, <2>3, <2>4, RowStep
<1>12. ASSUME NEW r \in Refunds, RecordSubmitIntent(r) PROVE StateInv'
  <2>1. row \in [Refunds -> Rows] /\ RowInv(r) /\ request[r] # None
    BY <1>12 DEF RecordSubmitIntent, StateInv, TypeOK, Rows
  <2>2. RowWritten(r, "submitted", row[r].signature)
    BY <1>12, <2>1, RowUpdates DEF RecordSubmitIntent, States
  <2>3. UNCHANGED <<now, channel, shown, settlement, closure, cleared, request, exec, effect>>
    BY <1>12 DEF RecordSubmitIntent
  <2>4. row[r].signature => exec[r] \in {"accepted", "landed"}
    BY <1>12, <2>1 DEF RecordSubmitIntent, RowInv
  <2> QED
    BY <2>1, <2>2, <2>3, <2>4, RowStep DEF Unsent
<1>13. ASSUME NEW r \in Refunds, Deliver(r) PROVE StateInv'
  <2>1. PICK verdict \in {"accepted", "refused"} : exec' = [exec EXCEPT ![r] = verdict]
    BY <1>13 DEF Deliver
  <2>2. TypeOK'
    BY <1>13, <2>1 DEF Deliver, StateInv, TypeOK
  <2>3. ASSUME NEW q \in Refunds PROVE RowInv(q)'
    <3>1. CASE q = r
      BY <1>13, <2>1, <3>1 DEF Deliver, StateInv, TypeOK, RowInv, Unsent
    <3>2. CASE q # r
      BY <1>13, <2>1, <3>2 DEF Deliver, StateInv, TypeOK, RowInv
    <3> QED
      BY <3>1, <3>2
  <2> QED
    BY <2>2, <2>3 DEF StateInv
<1>14. ASSUME NEW r \in Refunds, Land(r) PROVE StateInv'
  <2>1. Touched(channel, now) \in Channels
    BY <1>0, TouchedFields
  <2>2. /\ exec[r] = "accepted" /\ exec'[r] = "landed" /\ effect'[r] \in Channels
        /\ \A q \in Refunds : q # r => exec'[q] = exec[q] /\ effect'[q] = effect[q]
    BY <1>14, <2>1 DEF Land, StateInv, TypeOK
  <2>3. TypeOK'
    BY <1>14, <2>1, ChannelSteps DEF Land, StateInv, TypeOK
  <2>4. ASSUME NEW q \in Refunds PROVE RowInv(q)'
    <3>1. CASE q = r
      BY <1>14, <2>2, <3>1 DEF Land, StateInv, RowInv
    <3>2. CASE q # r
      BY <1>14, <2>2, <3>2 DEF Land, StateInv, RowInv
    <3> QED
      BY <3>1, <3>2
  <2> QED
    BY <2>3, <2>4 DEF StateInv
<1>15. ASSUME NEW r \in Refunds, RecordTechnicalReceipt(r) PROVE StateInv'
  <2>1. row \in [Refunds -> Rows] /\ RowInv(r) /\ request[r] # None
    BY <1>15 DEF RecordTechnicalReceipt, StateInv, TypeOK, Rows
  <2>2. UNCHANGED <<now, channel, shown, settlement, closure, cleared, request, exec, effect>>
    BY <1>15 DEF RecordTechnicalReceipt
  <2>3. ASSUME NEW st \in {"reconciling", "needs_recovery"}, exec[r] \in {"accepted", "landed"},
               row' = [row EXCEPT ![r] = [state |-> st, signature |-> TRUE]]
        PROVE  StateInv'
    <3>1. RowWritten(r, st, TRUE)
      BY <2>1, <2>3, RowUpdates DEF States
    <3> QED
      BY <2>1, <2>2, <2>3, <3>1, RowStep DEF Unsent
  <2>4. ASSUME NEW st \in {"needs_recovery", "needs_review"}, row' = [row EXCEPT ![r].state = st]
        PROVE  StateInv'
    <3>1. RowWritten(r, st, row[r].signature)
      BY <2>1, <2>4, RowUpdates DEF States
    <3>2. row[r].signature => exec[r] \in {"accepted", "landed"}
      BY <2>1 DEF RowInv
    <3> QED
      BY <2>1, <2>2, <2>4, <3>1, <3>2, RowStep DEF Unsent
  <2> QED
    BY <1>15, <2>3, <2>4 DEF RecordTechnicalReceipt
<1>16. ASSUME NEW r \in Refunds, RecordRecoveredSignature(r) PROVE StateInv'
  <2>1. row \in [Refunds -> Rows] /\ RowInv(r) /\ request[r] # None
    BY <1>16 DEF RecordRecoveredSignature, StateInv, TypeOK, Rows
  <2>2. RowWritten(r, "reconciling", TRUE)
    BY <1>16, <2>1, RowUpdates DEF RecordRecoveredSignature, States
  <2>3. UNCHANGED <<now, channel, shown, settlement, closure, cleared, request, exec, effect>>
    BY <1>16 DEF RecordRecoveredSignature
  <2>4. TRUE => exec[r] \in {"accepted", "landed"}
    BY <1>16, <2>1 DEF RecordRecoveredSignature, RowInv
  <2> QED
    BY <2>1, <2>2, <2>3, <2>4, RowStep DEF Unsent
<1>17. ASSUME NEW r \in Refunds, RecordProviderDivergence(r) PROVE StateInv'
  <2>1. row \in [Refunds -> Rows] /\ RowInv(r) /\ request[r] # None
    BY <1>17 DEF RecordProviderDivergence, StateInv, TypeOK, Rows
  <2>2. RowWritten(r, "disputed", row[r].signature)
    BY <1>17, <2>1, RowUpdates DEF RecordProviderDivergence, States
  <2>3. UNCHANGED <<now, channel, shown, settlement, closure, cleared, request, exec, effect>>
    BY <1>17 DEF RecordProviderDivergence
  <2>4. row[r].signature => exec[r] \in {"accepted", "landed"}
    BY <1>17, <2>1 DEF RecordProviderDivergence, RowInv
  <2> QED
    BY <2>1, <2>2, <2>3, <2>4, RowStep DEF Unsent
<1>18. ASSUME NEW r \in Refunds, ReleaseBeforeSubmission(r) PROVE StateInv'
  <2>1. row \in [Refunds -> Rows] /\ RowInv(r) /\ request[r] # None
    BY <1>18 DEF ReleaseBeforeSubmission, StateInv, TypeOK, Rows
  <2>2. RowWritten(r, "released", row[r].signature)
    BY <1>18, <2>1, RowUpdates DEF ReleaseBeforeSubmission, States
  <2>3. UNCHANGED <<now, channel, shown, settlement, closure, cleared, request, exec, effect>>
    BY <1>18 DEF ReleaseBeforeSubmission
  <2>4. exec[r] = "idle" /\ (row[r].signature => exec[r] \in {"accepted", "landed"})
    BY <1>18, <2>1 DEF ReleaseBeforeSubmission, RowInv, Unsent
  <2> QED
    BY <2>1, <2>2, <2>3, <2>4, RowStep
<1>19. ASSUME NEW r \in Refunds, NEW q \in Refunds, Reconcile(r, q) PROVE StateInv'
  <2>1. row \in [Refunds -> Rows] /\ RowInv(r) /\ request[r] # None
    BY <1>19 DEF Reconcile, StateInv, TypeOK, Rows
  <2>2. UNCHANGED <<now, channel, shown, settlement, closure, cleared, request, exec, effect>>
    BY <1>19 DEF Reconcile
  <2>3. row[r].signature => exec[r] \in {"accepted", "landed"}
    BY <2>1 DEF RowInv
  <2>4. CASE row' = [row EXCEPT ![r].state = "needs_review"]
    <3>1. RowWritten(r, "needs_review", row[r].signature)
      BY <2>1, <2>4, RowUpdates DEF States
    <3> QED
      BY <2>1, <2>2, <2>3, <3>1, RowStep DEF Unsent
  <2>5. CASE /\ ObservationMatches(r, q) /\ effect[q] # None
             /\ row' = [row EXCEPT ![r].state = "completed"]
    <3>1. RowWritten(r, "completed", row[r].signature)
      BY <2>1, <2>5, RowUpdates DEF States
    <3>2. exec[r] = "landed" /\ \A f \in Totals : effect[r][f] = request[r].freeze.channel[f]
      BY <2>1, <2>5 DEF ObservationMatches, RowInv, Totals
    <3> QED
      BY <2>1, <2>2, <2>3, <3>1, <3>2, RowStep DEF Unsent
  <2> QED
    BY <1>19, <2>4, <2>5 DEF Reconcile
<1> QED
  BY <1>1, <1>2, <1>3, <1>4, <1>5, <1>6, <1>7, <1>8, <1>9, <1>10, <1>11, <1>12, <1>13, <1>14, <1>15, <1>16, <1>17, <1>18, <1>19 DEF Next

\* The closure runtime's type invariant: every call, executor answer, account
\* step and observation leaves artifacts, rows and the channel in shape, and a
\* row that exists knows its request.
THEOREM ClosureTypes == Spec => []TypeOK
<1>1. StateInv => TypeOK
  BY DEF StateInv
<1> QED
  BY <1>1, StateInit, StateStep, PTL DEF Spec

-----------------------------------------------------------------------------
(* What moves the account.                                                 *)

\* A step that moves no account, and carries no refund out.
Quiet ==
  /\ UNCHANGED <<channel, shown, effect>> /\ Landed' = Landed /\ now' >= now
  /\ cleared => cleared'

\* All steps are quiet but those of the account.
LEMMA QuietSteps ==
  ASSUME StateInv, [Next]_vars
  PROVE  \/ Quiet \/ Activate \/ Settle \/ Finalize
         \/ \E c \in Closures : CloseOnChain(c)
         \/ \E r \in Refunds : Land(r)
<1>0. now \in Nat /\ now >= now
  BY ConstantTypes DEF StateInv, TypeOK
<1>1. ASSUME UNCHANGED <<now, channel, shown, exec, effect>>, cleared => cleared' PROVE Quiet
  BY <1>0, <1>1 DEF Quiet, Landed
<1>2. CASE Tick
  BY <1>0, <1>2 DEF Tick, Quiet, Landed
<1>3. ASSUME NEW r \in Refunds, Deliver(r) PROVE Quiet
  <2>1. PICK verdict \in {"accepted", "refused"} : exec' = [exec EXCEPT ![r] = verdict]
    BY <1>3 DEF Deliver
  <2>2. Landed' = Landed
    BY <1>3, <2>1 DEF Deliver, Landed, StateInv, TypeOK
  <2> QED
    BY <1>0, <1>3, <2>2 DEF Deliver, Quiet
<1>4. ASSUME NEW c \in Closures,
             \/ \E s \in shown, deadline \in 1..Horizon : RequestClose(c, s, deadline)
             \/ \E f, s \in shown : ValidateFinalization(c, f, s)
      PROVE  Quiet
  BY <1>1, <1>4 DEF RequestClose, ValidateFinalization
<1>5. ASSUME NEW r \in Refunds,
             \/ \E c \in Closures, s \in shown, reason \in Reasons : MakeRefundRequest(r, c, s, reason)
             \/ Register(r) \/ CommitExecution(r) \/ RecordSubmitIntent(r)
             \/ RecordTechnicalReceipt(r) \/ RecordRecoveredSignature(r)
             \/ RecordProviderDivergence(r) \/ ReleaseBeforeSubmission(r)
             \/ \E q \in Refunds : Reconcile(r, q)
      PROVE  Quiet
  BY <1>1, <1>5 DEF MakeRefundRequest, Register, CommitExecution, RecordSubmitIntent,
     RecordTechnicalReceipt, RecordRecoveredSignature, RecordProviderDivergence,
     ReleaseBeforeSubmission, Reconcile
<1>6. CASE UNCHANGED vars
  BY <1>1, <1>6 DEF vars
<1> QED
  BY <1>2, <1>3, <1>4, <1>5, <1>6 DEF Next

\* The account keeps its status and its deadline, or takes up a deadline, or is
\* finalized.
StatusStep ==
  \/ channel'.status = channel.status /\ channel'.deadline = channel.deadline
  \/ channel.status = "active" /\ channel'.status = "closing"
  \/ cleared /\ channel.status = "closing" /\ channel'.status = "closed"
       /\ channel'.deadline = channel.deadline

\* Time, the totals and clearance only go forward, and what the account has become
\* is shown.
Forward ==
  /\ shown' = shown \cup {channel'} /\ now' >= now /\ (cleared => cleared')
  /\ channel'.funded = channel.funded /\ channel'.activated >= channel.activated
  /\ channel'.refunded >= channel.refunded
  /\ channel'.refunded = channel.refunded \/ \E r \in Refunds : Land(r)

\* That is all a step can do to the account.
LEMMA AccountSteps ==
  ASSUME StateInv, channel \in shown, [Next]_vars
  PROVE  Forward /\ StatusStep
<1>0. /\ now \in Nat /\ now >= now
      /\ channel.activated \in Nat /\ channel.refunded \in Nat /\ Total \in Nat
  BY ConstantTypes, ChannelTypes DEF StateInv, TypeOK
<1>1. CASE Quiet
  BY <1>0, <1>1 DEF Quiet, Forward, StatusStep
<1>2. CASE Activate
  <2>1. channel'.activated = Total /\ channel'.status = channel.status
        /\ channel'.deadline = channel.deadline
        /\ channel'.funded = channel.funded /\ channel'.refunded = channel.refunded
    BY <1>2, ChannelSteps
  <2>2. shown' = shown \cup {channel'} /\ now' = now /\ cleared' = cleared /\ Total > channel.activated
    BY <1>2 DEF Activate, Moves
  <2> QED
    BY <1>0, <2>1, <2>2 DEF Forward, StatusStep
<1>3. CASE Settle
  <2>1. /\ channel'.status = channel.status /\ channel'.deadline = channel.deadline
        /\ channel'.funded = channel.funded /\ channel'.refunded = channel.refunded
        /\ channel'.activated = channel.activated
    BY <1>3, ChannelSteps
  <2>2. shown' = shown \cup {channel'} /\ now' = now /\ cleared' = cleared
    BY <1>3 DEF Settle, Moves
  <2> QED
    BY <1>0, <2>1, <2>2 DEF Forward, StatusStep
<1>4. CASE Finalize
  <2>1. /\ channel'.status = "closed" /\ channel'.deadline = channel.deadline
        /\ channel'.funded = channel.funded /\ channel'.refunded = channel.refunded
        /\ channel'.activated = channel.activated
    BY <1>4, ChannelSteps
  <2>2. /\ shown' = shown \cup {channel'} /\ now' = now /\ cleared' = cleared
        /\ cleared /\ channel.status = "closing"
    BY <1>4 DEF Finalize, Moves
  <2> QED
    BY <1>0, <2>1, <2>2 DEF Forward, StatusStep
<1>5. ASSUME NEW c \in Closures, CloseOnChain(c) PROVE Forward /\ StatusStep
  <2>1. /\ channel'.status = "closing"
        /\ channel'.funded = channel.funded /\ channel'.refunded = channel.refunded
        /\ channel'.activated = channel.activated
    BY <1>5, ChannelSteps DEF Totals
  <2>2. /\ shown' = shown \cup {channel'} /\ now' = now /\ cleared' = cleared
        /\ channel.status = "active"
    BY <1>5 DEF CloseOnChain, Moves
  <2> QED
    BY <1>0, <2>1, <2>2 DEF Forward, StatusStep
<1>6. ASSUME NEW r \in Refunds, Land(r) PROVE Forward /\ StatusStep
  <2>1. /\ channel'.status = channel.status /\ channel'.deadline = channel.deadline
        /\ channel'.funded = channel.funded /\ channel'.activated = channel.activated
        /\ channel'.refunded = channel.refunded + Amount[r] /\ Amount[r] \in Nat
    BY <1>6, ChannelSteps, ConstantTypes
  <2>2. shown' = shown \cup {channel'} /\ now' = now /\ cleared' = cleared
    BY <1>6 DEF Land, Moves
  <2> QED
    BY <1>0, <1>6, <2>1, <2>2 DEF Forward, StatusStep
<1> QED
  BY <1>1, <1>2, <1>3, <1>4, <1>5, <1>6, QuietSteps

\* Sets of refunds are finite and amount to natural numbers.
LEMMA RefundSets ==
  ASSUME NEW S \in SUBSET Refunds
  PROVE  /\ IsFiniteSet(S) /\ AmountOf(S, Amount) \in Nat
         /\ \A r \in S : Amount[r] \in Nat
<1>1. IsFiniteSet(S)
  BY ConstantTypes, FS_Subset
<1>2. \A r \in S : Amount[r] \in Nat
  BY ConstantTypes
<1> QED
  BY <1>1, <1>2, AmountType

\* What a refund that takes effect changes.
LEMMA LandFacts ==
  ASSUME StateInv, SnapshotInv, NEW r \in Refunds, Land(r)
  PROVE  /\ r \in Refunds \ Landed /\ Landed' = Landed \cup {r}
         /\ exec[r] = "accepted" /\ row[r].state \notin Unsent
         /\ effect'[r].refunded = channel.refunded
         /\ effect'[r].deadline \in Nat /\ effect'[r].updated >= effect'[r].deadline
         /\ \A q \in Refunds : q # r => effect'[q] = effect[q] /\ exec'[q] = exec[q]
         /\ channel.refunded \in Nat /\ channel'.refunded = channel.refunded + Amount[r]
         /\ Amount[r] \in Nat /\ Amount[r] > 0
<1>0. channel \in Channels /\ now \in Nat /\ Amount[r] \in Nat /\ Amount[r] > 0
  BY ConstantTypes DEF StateInv, TypeOK
<1>1. /\ exec[r] = "accepted" /\ exec'[r] = "landed"
      /\ \A q \in Refunds : q # r => exec'[q] = exec[q] /\ effect'[q] = effect[q]
      /\ effect'[r] = Touched(channel, now)
  BY DEF Land, StateInv, TypeOK
<1>2. r \in Refunds \ Landed /\ Landed' = Landed \cup {r}
  BY <1>1 DEF Landed
<1>3. row[r].state \notin Unsent
  BY <1>1 DEF StateInv, RowInv
<1>4. channel.deadline \in Nat /\ now >= channel.deadline
  <2>1. request[r] # None
    BY <1>3 DEF StateInv, TypeOK, Unsent
  <2> QED
    BY <2>1 DEF SnapshotInv, PastWindow
<1>5. /\ effect'[r].refunded = channel.refunded /\ effect'[r].deadline = channel.deadline
      /\ effect'[r].updated = now
  BY <1>0, <1>1, TouchedFields
<1>6. /\ channel'.refunded = channel.refunded + Amount[r]
      /\ \A f \in {"status", "deadline", "funded", "activated", "settled"} : channel'[f] = channel[f]
  BY ChannelSteps
<1>7. channel.refunded \in Nat
  BY <1>0, ChannelTypes
<1> QED
  BY <1>0, <1>1, <1>2, <1>3, <1>4, <1>5, <1>6, <1>7 DEF Land

-----------------------------------------------------------------------------
(* Refunds are counted once.                                               *)

\* Every refund that took effect has a place of its own in the refunded total.
LEMMA EffectStep ==
  ASSUME StateInv, SnapshotInv, EffectInv, [Next]_vars
  PROVE  EffectInv'
<1>0. /\ channel.refunded \in Nat /\ Start.refunded \in Nat
      /\ \A r \in Landed : effect[r] \in Channels /\ effect[r].refunded \in Nat
                          /\ Amount[r] \in Nat /\ r \in Refunds
  BY ConstantTypes, ChannelTypes DEF StateInv, TypeOK, RowInv, Landed
<1>1. ASSUME NEW r \in Refunds, Land(r) PROVE EffectInv'
  <2>1. AmountOf(Landed', Amount) = AmountOf(Landed, Amount) + Amount[r]
    <3>1. IsFiniteSet(Landed) /\ r \notin Landed /\ \A q \in Landed \cup {r} : Amount[q] \in Nat
      BY <1>1, LandFacts, RefundSets DEF Landed
    <3>2. Landed' = Landed \cup {r}
      BY <1>1, LandFacts
    <3> QED
      BY <3>1, <3>2, AmountAdd
  <2>2. AmountOf(Landed, Amount) \in Nat
    BY RefundSets DEF Landed
  <2>3. channel'.refunded = Start.refunded + AmountOf(Landed', Amount)
    BY <1>0, <1>1, <2>1, <2>2, LandFacts DEF EffectInv
  <2>4. ASSUME NEW q \in Landed'
        PROVE  /\ effect'[q].deadline \in Nat /\ effect'[q].updated >= effect'[q].deadline
               /\ effect'[q].refunded + Amount[q] <= channel'.refunded
    <3>1. CASE q = r
      BY <1>1, <3>1, LandFacts
    <3>2. CASE q # r
      <4>1. q \in Landed /\ effect'[q] = effect[q]
        BY <1>1, <2>4, <3>2, LandFacts DEF Landed
      <4> QED
        BY <1>0, <1>1, <4>1, LandFacts DEF EffectInv
    <3> QED
      BY <3>1, <3>2
  <2>5. ASSUME NEW p \in Landed', NEW q \in Landed', p # q
        PROVE  \/ effect'[p].refunded + Amount[p] <= effect'[q].refunded
               \/ effect'[q].refunded + Amount[q] <= effect'[p].refunded
    <3>0. ASSUME NEW x \in Landed', x # r PROVE x \in Landed /\ effect'[x] = effect[x]
      BY <1>1, <3>0, LandFacts DEF Landed
    <3>1. CASE p = r
      BY <1>1, <2>5, <3>0, <3>1, LandFacts DEF EffectInv
    <3>2. CASE q = r
      BY <1>1, <2>5, <3>0, <3>2, LandFacts DEF EffectInv
    <3>3. CASE p # r /\ q # r
      BY <2>5, <3>0, <3>3 DEF EffectInv
    <3> QED
      BY <3>1, <3>2, <3>3
  <2> QED
    BY <2>3, <2>4, <2>5 DEF EffectInv
<1>2. ASSUME Landed' = Landed, effect' = effect, channel'.refunded = channel.refunded
      PROVE  EffectInv'
  BY <1>2 DEF EffectInv
<1>3. CASE Quiet
  BY <1>2, <1>3 DEF Quiet
<1>4. CASE Activate \/ Settle \/ Finalize
  <2>1. channel'.refunded = channel.refunded
    BY <1>4, ChannelSteps
  <2> QED
    BY <1>2, <1>4, <2>1 DEF Activate, Settle, Finalize, Landed
<1>5. ASSUME NEW c \in Closures, CloseOnChain(c) PROVE EffectInv'
  <2>1. channel'.refunded = channel.refunded
    BY <1>5, ChannelSteps DEF Totals
  <2> QED
    BY <1>2, <1>5, <2>1 DEF CloseOnChain, Landed
<1> QED
  BY <1>1, <1>3, <1>4, <1>5, QuietSteps

-----------------------------------------------------------------------------
(* Snapshots, requests and freezes.                                        *)

\* Every snapshot stays one of the past, and every freeze past its window.
LEMMA SnapshotStep ==
  ASSUME StateInv, SnapshotInv, [Next]_vars
  PROVE  SnapshotInv'
<1>1. Forward /\ StatusStep /\ channel \in shown /\ ShownInv(channel)
  BY AccountSteps DEF SnapshotInv
<1>2. /\ channel \in Channels /\ channel' \in Channels /\ now \in Nat /\ now' \in Nat
      /\ \A s \in shown : s \in Channels
  BY StateStep, ConstantTypes DEF StateInv, TypeOK
<1>3. /\ channel.activated \in Nat /\ channel.refunded \in Nat
      /\ channel'.activated \in Nat /\ channel'.refunded \in Nat
      /\ \A s \in shown : s.activated \in Nat /\ s.refunded \in Nat
  BY <1>2, ChannelTypes
<1>4. channel' \in shown'
  BY <1>1 DEF Forward
<1>5. channel.status = "active" => channel'.refunded = channel.refunded
  <2>1. ASSUME NEW r \in Refunds, Land(r) PROVE channel.status # "active"
    <3>1. row[r].state \notin Unsent
      BY <2>1 DEF Land, StateInv, RowInv
    <3>2. request[r] # None
      BY <3>1 DEF StateInv, TypeOK, Unsent
    <3> QED
      BY <3>2 DEF SnapshotInv, PastWindow
  <2> QED
    BY <1>1, <2>1 DEF Forward
<1>6. ASSUME NEW s \in shown' PROVE ShownInv(s)'
  <2>1. CASE s \in shown
    <3>1. ShownInv(s)
      BY <2>1 DEF SnapshotInv
    <3>2. /\ s.funded = channel'.funded /\ s.activated <= channel'.activated
          /\ s.refunded <= channel'.refunded
      BY <1>1, <1>3, <2>1, <3>1 DEF Forward, ShownInv
    <3>3. s.status = "closing" => channel'.status # "active" /\ channel'.deadline = s.deadline
      BY <1>1, <3>1 DEF StatusStep, ShownInv
    <3>4. s.status = "closed" => cleared'
      BY <1>1, <3>1 DEF Forward, ShownInv
    <3> QED
      BY <3>1, <3>2, <3>3, <3>4 DEF ShownInv
  <2>2. CASE s = channel'
    <3>1. s.status = "active" => s.refunded = Start.refunded
      BY <1>1, <1>5, <2>2 DEF StatusStep, ShownInv
    <3>2. s.status = "closed" => cleared'
      BY <1>1, <2>2 DEF StatusStep, Forward, ShownInv
    <3>3. /\ s.funded = channel'.funded /\ s.activated <= channel'.activated
          /\ s.refunded <= channel'.refunded /\ channel'.deadline = s.deadline
          /\ s.status = "closing" => channel'.status # "active"
      BY <1>3, <2>2
    <3> QED
      BY <3>1, <3>2, <3>3 DEF ShownInv
  <2> QED
    BY <1>1, <2>1, <2>2 DEF Forward
<1>7. ASSUME NEW c \in Closures, closure'[c] # None
      PROVE  closure'[c].channel.refunded = Start.refunded
  <2>1. CASE closure'[c] = closure[c]
    BY <1>7, <2>1 DEF SnapshotInv
  <2>2. ASSUME NEW d \in Closures, NEW s \in shown, NEW deadline \in 1..Horizon,
               RequestClose(d, s, deadline), closure'[c] # closure[c]
        PROVE  closure'[c].channel.refunded = Start.refunded
    <3>1. closure'[c].channel = s /\ s.status = "active"
      BY <2>2 DEF RequestClose, StateInv, TypeOK
    <3> QED
      BY <3>1 DEF SnapshotInv, ShownInv
  <2>3. \/ closure' = closure
        \/ \E d \in Closures, s \in shown, deadline \in 1..Horizon : RequestClose(d, s, deadline)
    BY DEF Next, vars, Tick, Activate, Settle, CloseOnChain, Finalize, ValidateFinalization,
       MakeRefundRequest, Register, CommitExecution, RecordSubmitIntent, Deliver, Land,
       RecordTechnicalReceipt, RecordRecoveredSignature, RecordProviderDivergence,
       ReleaseBeforeSubmission, Reconcile
  <2> QED
    BY <2>1, <2>2, <2>3
<1>8. ASSUME NEW f \in Channels, PastWindow(f)
      PROVE  /\ channel'.status # "active" /\ channel'.deadline = f.deadline
             /\ f.deadline \in Nat /\ now' >= f.deadline
             /\ f.refunded = Start.refunded /\ f.funded = channel'.funded
             /\ f.activated <= channel'.activated
  <2>1. f.activated \in Nat
    BY ChannelTypes
  <2>2. channel'.status # "active" /\ channel'.deadline = f.deadline
    BY <1>1, <1>8 DEF StatusStep, PastWindow
  <2>3. f.deadline \in Nat /\ now' >= f.deadline
    BY <1>1, <1>2, <1>8 DEF Forward, PastWindow
  <2>4. f.activated <= channel'.activated
    BY <1>1, <1>3, <1>8, <2>1 DEF Forward, PastWindow
  <2> QED
    BY <1>1, <1>8, <2>2, <2>3, <2>4 DEF Forward, PastWindow
<1>9. ASSUME NEW r \in Refunds, request'[r] # None
      PROVE  PastWindow(request[r].freeze.channel)'
  <2>1. request'[r].freeze.channel \in Channels /\ PastWindow(request'[r].freeze.channel)
    <3>1. CASE request'[r] = request[r]
      BY <1>9, <3>1 DEF SnapshotInv, StateInv, TypeOK, Freezes
    <3>2. ASSUME NEW q \in Refunds, NEW c \in Closures, NEW s \in shown, NEW reason \in Reasons,
                 MakeRefundRequest(q, c, s, reason), request'[r] # request[r]
          PROVE  request'[r].freeze.channel = s /\ PastWindow(s)
      <4>1. request'[r].freeze.channel = s
        BY <3>2 DEF MakeRefundRequest, Freeze, StateInv, TypeOK
      <4>2. /\ closure[c] # None /\ s.status = "closing" /\ s.deadline = closure[c].deadline
            /\ now >= closure[c].deadline /\ s.refunded = closure[c].channel.refunded
        BY <3>2 DEF MakeRefundRequest, Freezable
      <4>3. closure[c].deadline \in Nat /\ closure[c].channel.refunded = Start.refunded
        BY <4>2 DEF SnapshotInv, StateInv, TypeOK
      <4>4. ShownInv(s)
        BY DEF SnapshotInv
      <4> QED
        BY <4>1, <4>2, <4>3, <4>4 DEF ShownInv, PastWindow
    <3>3. \/ request' = request
          \/ \E q \in Refunds, c \in Closures, s \in shown, reason \in Reasons :
               MakeRefundRequest(q, c, s, reason)
      BY DEF Next, vars, Tick, Activate, Settle, CloseOnChain, RequestClose, Finalize,
         ValidateFinalization, Register, CommitExecution, RecordSubmitIntent, Deliver, Land,
         RecordTechnicalReceipt, RecordRecoveredSignature, RecordProviderDivergence,
         ReleaseBeforeSubmission, Reconcile
    <3> QED
      BY <1>2, <3>1, <3>2, <3>3
  <2> QED
    BY <1>8, <2>1 DEF PastWindow
<1> QED
  BY <1>4, <1>6, <1>7, <1>9 DEF SnapshotInv

-----------------------------------------------------------------------------
(* Rows.                                                                   *)

\* What a step may not do to the row of r: forget it, change its request, or
\* leave a final state.
RowKept(r) ==
  /\ row[r].state # "absent" => row'[r].state # "absent" /\ request'[r] = request[r]
  /\ row[r].state = "absent" => row'[r].state = "absent" \/ Register(r)
  /\ row[r].state \in Final => row'[r].state = row[r].state

\* No step does.
LEMMA RowSteps ==
  ASSUME StateInv, [Next]_vars, NEW r \in Refunds
  PROVE  RowKept(r)
<1>0. /\ row \in [Refunds -> [state : States, signature : BOOLEAN]]
      /\ request \in [Refunds -> [closure : Closures, freeze : Freezes, reason : Reasons] \cup {None}]
  BY DEF StateInv, TypeOK
<1>1. ASSUME UNCHANGED <<row, request>> PROVE RowKept(r)
  BY <1>1 DEF RowKept
<1>2. ASSUME NEW q \in Refunds, Register(q) PROVE RowKept(r)
  <2>1. row[q].state = "absent" /\ request' = request
    BY <1>2 DEF Register
  <2>2. r # q => row'[r] = row[r]
    BY <1>0, <1>2 DEF Register
  <2> QED
    BY <1>2, <2>1, <2>2 DEF RowKept, Final
<1>3. ASSUME NEW q \in Refunds, NEW c \in Closures, NEW s \in shown, NEW reason \in Reasons,
             MakeRefundRequest(q, c, s, reason)
      PROVE  RowKept(r)
  <2>1. row' = row /\ request[q] = None /\ (r # q => request'[r] = request[r])
    BY <1>3, <1>0 DEF MakeRefundRequest
  <2>2. row[r].state # "absent" => request[r] # None
    BY DEF StateInv, TypeOK
  <2> QED
    BY <2>1, <2>2 DEF RowKept
<1>4. ASSUME NEW q \in Refunds, CommitExecution(q) PROVE RowKept(r)
  BY <1>4, <1>0 DEF CommitExecution, RowKept, Final
<1>5. ASSUME NEW q \in Refunds, RecordSubmitIntent(q) PROVE RowKept(r)
  BY <1>5, <1>0 DEF RecordSubmitIntent, RowKept, Final
<1>6. ASSUME NEW q \in Refunds, RecordTechnicalReceipt(q) PROVE RowKept(r)
  BY <1>6, <1>0 DEF RecordTechnicalReceipt, RowKept, Final
<1>7. ASSUME NEW q \in Refunds, RecordRecoveredSignature(q) PROVE RowKept(r)
  BY <1>7, <1>0 DEF RecordRecoveredSignature, RowKept, Final
<1>8. ASSUME NEW q \in Refunds, RecordProviderDivergence(q) PROVE RowKept(r)
  BY <1>8, <1>0 DEF RecordProviderDivergence, RowKept, Final
<1>9. ASSUME NEW q \in Refunds, ReleaseBeforeSubmission(q) PROVE RowKept(r)
  BY <1>9, <1>0 DEF ReleaseBeforeSubmission, RowKept, Final
<1>10. ASSUME NEW q \in Refunds, NEW p \in Refunds, Reconcile(q, p) PROVE RowKept(r)
  BY <1>10, <1>0 DEF Reconcile, RowKept, Final
<1>11. CASE Tick \/ Activate \/ Settle \/ Finalize \/ UNCHANGED vars
  BY <1>1, <1>11 DEF Tick, Activate, Settle, Finalize, vars
<1>12. ASSUME NEW c \in Closures,
              \/ CloseOnChain(c)
              \/ \E s \in shown, deadline \in 1..Horizon : RequestClose(c, s, deadline)
              \/ \E f, s \in shown : ValidateFinalization(c, f, s)
       PROVE  RowKept(r)
  BY <1>1, <1>12 DEF RequestClose, CloseOnChain, ValidateFinalization
<1>13. ASSUME NEW q \in Refunds, Deliver(q) \/ Land(q) PROVE RowKept(r)
  BY <1>1, <1>13 DEF Deliver, Land
<1> QED
  BY <1>2, <1>3, <1>4, <1>5, <1>6, <1>7, <1>8, <1>9, <1>10, <1>11, <1>12, <1>13 DEF Next

\* A refund that completed, was released or is disputed stays so, whichever
\* receipt, recovered signature, observation or divergence report comes late.
THEOREM FinalRefundsDoStay == Spec => FinalRefundsStay
<1>1. StateInv /\ [Next]_vars => [\A r \in Refunds :
        row[r].state \in Final => row'[r].state = row[r].state]_vars
  BY RowSteps DEF RowKept
<1> QED
  BY <1>1, StateInit, StateStep, PTL DEF Spec, FinalRefundsStay

-----------------------------------------------------------------------------
(* What a closure's refunds may take together.                             *)

\* The high-water check lets no refund register after another of its closure
\* has completed: every freeze of a closure states the same refunded total.
LEMMA NoneCompleted ==
  ASSUME StateInv, SnapshotInv, NEW r \in Refunds, Register(r)
  PROVE  \A q \in OfClosure(request[r].closure) : row[q].state # "completed"
<1> SUFFICES ASSUME NEW q \in OfClosure(request[r].closure), row[q].state = "completed"
             PROVE  FALSE
  OBVIOUS
<1>1. q \in Refunds /\ row[q].state # "absent" /\ request[q] # None /\ request[r] # None
  BY DEF OfClosure, Register, StateInv, TypeOK
<1>2. /\ request[r].freeze.channel.refunded = Start.refunded
      /\ request[q].freeze.channel.refunded = Start.refunded
  BY <1>1 DEF SnapshotInv, PastWindow
<1>3. request[r].freeze.channel.refunded >= request[q].freeze.channel.refunded + Amount[q]
  BY DEF Register, AboveHighWater, RefundedAfter
<1>4. Start.refunded \in Nat /\ Amount[q] \in Nat /\ Amount[q] > 0
  BY <1>1, ConstantTypes, ChannelTypes
<1> QED
  BY <1>2, <1>3, <1>4

\* What is registered, added to all that its closure has not given back, fits
\* into the capacity its freeze states.
LEMMA RegisterFits ==
  ASSUME StateInv, SnapshotInv, NEW r \in Refunds, Register(r)
  PROVE  LET c == request[r].closure
         IN  /\ r \notin Open(c) /\ c \in Closures
             /\ AmountOf(Open(c) \cup {r}, Amount) = AmountOf(Open(c), Amount) + Amount[r]
             /\ AmountOf(Open(c), Amount) + Amount[r]
                  <= UnallocatedCapacity(request[r].freeze.channel)
<1> DEFINE c == request[r].closure
<1>1. Open(c) = {q \in OfClosure(c) : row[q].state \notin ReleasingStates}
  BY NoneCompleted DEF Open, ReleasingStates
<1>2. AmountOf(Open(c), Amount) = Reserved(c)
  BY <1>1 DEF Reserved
<1>3. r \notin Open(c) /\ c \in Closures
  BY DEF Register, Open, OfClosure, StateInv, TypeOK
<1>4. Open(c) \in SUBSET Refunds
  BY DEF Open, OfClosure
<1>5. AmountOf(Open(c) \cup {r}, Amount) = AmountOf(Open(c), Amount) + Amount[r]
  <2>1. IsFiniteSet(Open(c)) /\ \A q \in Open(c) \cup {r} : Amount[q] \in Nat
    BY <1>4, RefundSets, ConstantTypes
  <2> QED
    BY <1>3, <2>1, AmountAdd
<1>6. Reserved(c) + Amount[r] <= UnallocatedCapacity(request[r].freeze.channel)
  BY DEF Register
<1> QED
  BY <1>2, <1>3, <1>5, <1>6

\* The pool of every closure stays within what one of its freezes states.
LEMMA PoolStep ==
  ASSUME StateInv, SnapshotInv, PoolInv, [Next]_vars
  PROVE  PoolInv'
<1> SUFFICES ASSUME NEW c \in Closures, OfClosure(c)' # {}
             PROVE  \E r \in OfClosure(c)' :
                      AmountOf(Open(c)', Amount) <= UnallocatedCapacity(request'[r].freeze.channel)
  BY DEF PoolInv
<1>0. \A q \in Refunds : RowKept(q)
  BY RowSteps
<1>1. ASSUME NEW r \in Refunds, Register(r), request[r].closure = c
      PROVE  \E q \in OfClosure(c)' :
               AmountOf(Open(c)', Amount) <= UnallocatedCapacity(request'[q].freeze.channel)
  <2>1. /\ request' = request /\ row[r].state = "absent" /\ row'[r].state = "validated"
        /\ \A q \in Refunds : q # r => row'[q] = row[q]
    BY <1>1 DEF Register, StateInv, TypeOK
  <2>2. r \in OfClosure(c)' /\ Open(c)' = Open(c) \cup {r}
    BY <1>1, <2>1 DEF Open, OfClosure
  <2>3. AmountOf(Open(c) \cup {r}, Amount) <= UnallocatedCapacity(request[r].freeze.channel)
    BY <1>1, RegisterFits
  <2>4. AmountOf(Open(c)', Amount) <= UnallocatedCapacity(request'[r].freeze.channel)
    BY <2>1, <2>2, <2>3
  <2> QED
    BY <2>2, <2>4
<1>2. ASSUME \A r \in Refunds : Register(r) => request[r].closure # c
      PROVE  \E q \in OfClosure(c)' :
               AmountOf(Open(c)', Amount) <= UnallocatedCapacity(request'[q].freeze.channel)
  <2>1. OfClosure(c)' = OfClosure(c) /\ \A q \in OfClosure(c) : request'[q] = request[q]
    <3>1. ASSUME NEW q \in Refunds PROVE q \in OfClosure(c)' <=> q \in OfClosure(c)
      <4>1. CASE row[q].state = "absent" /\ Register(q)
        <5>1. request' = request /\ request[q].closure # c
          BY <1>2, <4>1 DEF Register
        <5> QED
          BY <4>1, <5>1 DEF OfClosure
      <4>2. CASE row[q].state = "absent" /\ row'[q].state = "absent"
        BY <4>2 DEF OfClosure
      <4>3. CASE row[q].state # "absent"
        BY <1>0, <4>3 DEF RowKept, OfClosure
      <4> QED
        BY <1>0, <4>1, <4>2, <4>3 DEF RowKept
    <3>2. \A q \in OfClosure(c) : request'[q] = request[q]
      BY <1>0 DEF RowKept, OfClosure
    <3> QED
      BY <3>1, <3>2 DEF OfClosure
  <2>2. Open(c)' \in SUBSET Open(c)
    <3>1. ASSUME NEW q \in Open(c)' PROVE q \in Open(c)
      <4>1. q \in OfClosure(c) /\ q \in Refunds /\ row'[q].state # "released"
        BY <2>1, <3>1 DEF Open, OfClosure
      <4> QED
        BY <1>0, <4>1 DEF RowKept, Final, Open
    <3> QED
      BY <3>1
  <2>3. PICK r \in OfClosure(c) :
          AmountOf(Open(c), Amount) <= UnallocatedCapacity(request[r].freeze.channel)
    BY <2>1 DEF PoolInv
  <2>4. /\ AmountOf(Open(c)', Amount) \in Nat /\ AmountOf(Open(c), Amount) \in Nat
        /\ AmountOf(Open(c)', Amount) <= AmountOf(Open(c), Amount)
    <3>1. Open(c) \in SUBSET Refunds /\ Open(c)' \in SUBSET Refunds
      BY <2>2 DEF Open, OfClosure
    <3> QED
      BY <2>2, <3>1, RefundSets, AmountMonotone
  <2>5. UnallocatedCapacity(request[r].freeze.channel) \in Int
    <3>1. request[r] # None /\ r \in Refunds
      BY <2>3 DEF OfClosure, StateInv, TypeOK
    <3>2. request[r].freeze.channel \in Channels
      BY <3>1 DEF StateInv, TypeOK, Freezes
    <3> QED
      BY <3>2, ChannelTypes DEF UnallocatedCapacity
  <2>6. AmountOf(Open(c)', Amount) <= UnallocatedCapacity(request[r].freeze.channel)
    BY <2>3, <2>4, <2>5
  <2> QED
    BY <2>1, <2>3, <2>6
<1> QED
  BY <1>1, <1>2

-----------------------------------------------------------------------------
(* Clearance.                                                              *)

Taking(c) == {q \in Refunds : effect[q] # None /\ request[q].closure # c}

\* What a freeze overlooked is a natural number, and so are its parts.
LEMMA OverlookedTypes ==
  ASSUME StateInv, SnapshotInv, NEW r \in Refunds, request[r] # None
  PROVE  /\ channel.activated \in Nat /\ request[r].freeze.channel.activated \in Nat
         /\ request[r].freeze.channel.activated <= channel.activated
         /\ TakenByOthers(request[r].closure) \in Nat
         /\ TakenByOthers(request[r].closure) = AmountOf(Taking(request[r].closure), Amount)
<1>1. PastWindow(request[r].freeze.channel)
  BY DEF SnapshotInv
<1>2. channel \in Channels /\ request[r].freeze.channel \in Channels
  BY DEF StateInv, TypeOK, Freezes
<1>3. Taking(request[r].closure) \in SUBSET Refunds
  BY DEF Taking
<1>4. TakenByOthers(request[r].closure) = AmountOf(Taking(request[r].closure), Amount)
  BY DEF TakenByOthers, Taking
<1> QED
  BY <1>1, <1>2, <1>3, <1>4, ChannelTypes, RefundSets DEF PastWindow

\* It never shrinks.
LEMMA OverlookedGrows ==
  ASSUME StateInv, SnapshotInv, [Next]_vars, NEW r \in Refunds,
         row[r].state # "absent", Overlooked(r) # 0
  PROVE  Overlooked(r)' # 0
<1>1. request[r] # None /\ request'[r] = request[r]
  BY RowSteps DEF StateInv, TypeOK, RowKept
<1> DEFINE c == request[r].closure
           f == request[r].freeze.channel
<1>2. Taking(c) \in SUBSET {q \in Refunds : effect'[q] # None /\ request'[q].closure # c}
  <2>1. ASSUME NEW q \in Refunds, effect[q] # None
        PROVE  effect'[q] # None /\ request'[q] = request[q]
    <3>1. RowInv(q)
      BY DEF StateInv
    <3>2. row[q].state # "absent" /\ request'[q] = request[q]
      BY <2>1, <3>1, RowSteps DEF RowInv, Unsent, RowKept
    <3>3. ASSUME NEW p \in Refunds, Land(p) PROVE effect'[q] # None
      <4>1. q # p => effect'[q] = effect[q]
        BY <3>3 DEF Land, StateInv, TypeOK
      <4>2. effect[p] = None
        BY <3>3 DEF Land, StateInv, RowInv
      <4> QED
        BY <2>1, <4>1, <4>2
    <3>4. effect' = effect \/ \E p \in Refunds : Land(p)
      BY QuietSteps DEF Quiet, Activate, Settle, Finalize, CloseOnChain
    <3> QED
      BY <2>1, <3>2, <3>3, <3>4
  <2> QED
    BY <2>1 DEF Taking
<1>3. /\ channel'.activated \in Nat /\ channel'.activated >= channel.activated
      /\ channel.activated \in Nat /\ f.activated \in Nat /\ f.activated <= channel.activated
  <2>1. channel' \in Channels /\ Forward
    BY StateStep, AccountSteps DEF StateInv, TypeOK, SnapshotInv
  <2> QED
    BY <1>1, <2>1, OverlookedTypes, ChannelTypes DEF Forward
<1> DEFINE T == {q \in Refunds : effect'[q] # None /\ request'[q].closure # c}
<1>4. Overlooked(r) = channel.activated - f.activated + AmountOf(Taking(c), Amount)
  BY <1>1, OverlookedTypes DEF Overlooked
<1>5. Overlooked(r)' = channel'.activated - f.activated + AmountOf(T, Amount)
  BY <1>1 DEF Overlooked, TakenByOthers
<1>6. /\ AmountOf(Taking(c), Amount) \in Nat /\ AmountOf(T, Amount) \in Nat
      /\ AmountOf(Taking(c), Amount) <= AmountOf(T, Amount)
  <2>1. T \in SUBSET Refunds /\ Taking(c) \in SUBSET Refunds
    BY DEF Taking
  <2> QED
    BY <1>2, <2>1, RefundSets, AmountMonotone
<1> HIDE DEF T, f, c
<1> QED
  BY <1>3, <1>4, <1>5, <1>6

\* A refund that registers when the completed ones have used up all that was
\* not activated was made from a freeze that overlooked something.
LEMMA LateRegister ==
  ASSUME StateInv, SnapshotInv, NEW r \in Refunds, Register(r),
         channel.funded - channel.activated <= Start.refunded + AmountOf(Completed, Amount)
  PROVE  Overlooked(r) # 0
<1> DEFINE c == request[r].closure
           f == request[r].freeze.channel
<1>1. request[r] # None /\ Amount[r] <= UnallocatedCapacity(f)
  BY DEF Register, Projectable
<1>2. /\ f.refunded = Start.refunded /\ f.funded = channel.funded /\ f \in Channels
      /\ channel \in Channels
  BY <1>1 DEF SnapshotInv, PastWindow, StateInv, TypeOK, Freezes
<1>3. /\ channel.activated \in Nat /\ f.activated \in Nat /\ f.activated <= channel.activated
      /\ TakenByOthers(c) \in Nat /\ TakenByOthers(c) = AmountOf(Taking(c), Amount)
  BY <1>1, OverlookedTypes
<1>4. /\ Amount[r] \in Nat /\ Amount[r] > 0 /\ Start.refunded \in Nat
      /\ channel.funded \in Nat
  BY <1>2, ConstantTypes, ChannelTypes
<1>5. Overlooked(r) = channel.activated - f.activated + TakenByOthers(c)
  BY DEF Overlooked
<1>6. ASSUME NEW q \in Completed PROVE TakenByOthers(c) # 0
  <2>1. /\ q \in Refunds /\ row[q].state = "completed" /\ Amount[q] \in Nat /\ Amount[q] > 0
    BY ConstantTypes DEF Completed
  <2>2. effect[q] # None
    BY <2>1, ConstantTypes DEF StateInv, RowInv
  <2>3. request[q].closure # c
    BY <2>1, NoneCompleted DEF OfClosure
  <2>4. q \in Taking(c) /\ Taking(c) \in SUBSET Refunds
    BY <2>1, <2>2, <2>3 DEF Taking
  <2>5. /\ AmountOf(Taking(c) \ {q}, Amount) = AmountOf(Taking(c), Amount) - Amount[q]
        /\ AmountOf(Taking(c) \ {q}, Amount) \in Nat
    <3>1. Taking(c) \ {q} \in SUBSET Refunds
      BY <2>4
    <3> QED
      BY <2>4, <3>1, RefundSets, AmountRemove
  <2> QED
    BY <1>3, <2>1, <2>5
<1>7. Completed = {} => AmountOf(Completed, Amount) = 0
  BY AmountEmpty
<1>8. UnallocatedCapacity(f) = channel.funded - Start.refunded - f.activated
  BY <1>2 DEF UnallocatedCapacity
<1> HIDE DEF c, f
<1>9. CASE Completed = {}
  <2>1. channel.funded - channel.activated <= Start.refunded
    BY <1>4, <1>7, <1>9
  <2>2. Amount[r] <= channel.funded - Start.refunded - f.activated
    BY <1>1, <1>8
  <2> QED
    BY <1>3, <1>4, <1>5, <2>1, <2>2
<1>10. CASE Completed # {}
  BY <1>3, <1>5, <1>6, <1>10
<1> QED
  BY <1>9, <1>10

\* What validate_finalization finds: the completed refunds are all that took
\* effect, and the snapshot it was given shows that they used up the vault.
LEMMA ClearsClean ==
  ASSUME StateInv, SnapshotInv, EffectInv, NEW c \in Closures, NEW f \in shown, NEW s \in shown,
         ValidateFinalization(c, f, s)
  PROVE  /\ channel.funded - channel.activated <= Start.refunded + AmountOf(Completed, Amount)
         /\ \A r \in Refunds : row[r].state \in {"absent", "released", "completed"}
<1>1. ASSUME NEW r \in Refunds PROVE row[r].state \in {"absent", "released", "completed"}
  <2>1. row[r].state \in ReleasingStates \cup {"none", "absent"}
    BY DEF ValidateFinalization, Finalizable, OperationStates
  <2>2. row[r].state \in States
    BY DEF StateInv, TypeOK
  <2> QED
    BY <2>1, <2>2 DEF ReleasingStates, States
<1>2. Completed = Landed
  BY <1>1 DEF Completed, Landed, StateInv, RowInv, Unsent
<1>3. channel.refunded = Start.refunded + AmountOf(Completed, Amount)
  BY <1>2 DEF EffectInv
<1>4. ShownInv(s) /\ s \in Channels /\ channel \in Channels
  BY DEF SnapshotInv, StateInv, TypeOK
<1>5. /\ s.activated - s.settled = 0 /\ s.funded - s.settled - s.refunded = 0
  BY DEF ValidateFinalization, Finalizable, OutstandingRight, VaultBalance
<1>6. /\ s.funded = channel.funded /\ s.activated <= channel.activated
      /\ s.refunded <= channel.refunded
  BY <1>4 DEF ShownInv
<1>7. /\ s.activated \in Nat /\ s.settled \in Nat /\ s.funded \in Nat /\ s.refunded \in Nat
      /\ channel.activated \in Nat /\ channel.refunded \in Nat
  BY <1>4, ChannelTypes
<1>8. channel.funded - channel.activated <= channel.refunded
  BY <1>5, <1>6, <1>7
<1> QED
  BY <1>1, <1>3, <1>8

\* Once cleared, the books stay settled but for what freezes overlooked.
LEMMA ClearedStep ==
  ASSUME IInv, [Next]_vars
  PROVE  ClearedInv'
<1> USE DEF IInv
<1>0. SUFFICES ASSUME cleared'
      PROVE  /\ channel'.funded - channel'.activated <= Start.refunded + AmountOf(Completed', Amount)
             /\ \A r \in Refunds :
                  \/ row'[r].state \in {"absent", "released", "completed"}
                  \/ Overlooked(r)' # 0
  BY DEF ClearedInv
<1>1. CASE cleared
  <2>1. /\ channel.funded - channel.activated <= Start.refunded + AmountOf(Completed, Amount)
        /\ \A r \in Refunds :
             row[r].state \in {"absent", "released", "completed"} \/ Overlooked(r) # 0
    BY <1>1 DEF ClearedInv
  <2>2. Completed \in SUBSET Completed' /\ Completed' \in SUBSET Refunds
    BY RowSteps DEF Completed, RowKept, Final
  <2>3. /\ AmountOf(Completed, Amount) \in Nat /\ AmountOf(Completed', Amount) \in Nat
        /\ AmountOf(Completed, Amount) <= AmountOf(Completed', Amount)
    <3>1. Completed \in SUBSET Refunds
      BY DEF Completed
    <3> QED
      BY <2>2, <3>1, RefundSets, AmountMonotone
  <2>4. channel'.funded = channel.funded /\ channel'.activated >= channel.activated
    BY AccountSteps DEF Forward, SnapshotInv
  <2>5. /\ channel.funded \in Nat /\ channel.activated \in Nat /\ channel'.activated \in Nat
        /\ Start.refunded \in Nat
    BY StateStep, ConstantTypes, ChannelTypes DEF StateInv, TypeOK
  <2>6. channel'.funded - channel'.activated <= Start.refunded + AmountOf(Completed', Amount)
    BY <2>1, <2>3, <2>4, <2>5
  <2>7. ASSUME NEW r \in Refunds, row'[r].state \notin {"absent", "released", "completed"}
        PROVE  Overlooked(r)' # 0
    <3>1. RowKept(r)
      BY RowSteps
    <3>2. CASE row[r].state = "absent"
      <4>1. Register(r)
        BY <2>7, <3>1, <3>2 DEF RowKept
      <4>2. Overlooked(r) # 0
        BY <2>1, <4>1, LateRegister
      <4>3. Overlooked(r)' = Overlooked(r)
        BY <4>1 DEF Register, Overlooked, TakenByOthers
      <4> QED
        BY <4>2, <4>3
    <3>3. CASE row[r].state # "absent"
      <4>1. row[r].state \notin {"released", "completed"}
        BY <2>7, <3>1 DEF RowKept, Final
      <4>2. Overlooked(r) # 0
        BY <2>1, <3>3, <4>1
      <4> QED
        BY <3>3, <4>2, OverlookedGrows
    <3> QED
      BY <3>2, <3>3
  <2> QED
    BY <2>6, <2>7
<1>2. CASE ~cleared
  <2>1. PICK c \in Closures, f \in shown, s \in shown : ValidateFinalization(c, f, s)
    BY <1>0, <1>2 DEF Next, vars, Tick, Activate, Settle, CloseOnChain, RequestClose, Finalize,
       MakeRefundRequest, Register, CommitExecution, RecordSubmitIntent, Deliver, Land,
       RecordTechnicalReceipt, RecordRecoveredSignature, RecordProviderDivergence,
       ReleaseBeforeSubmission, Reconcile
  <2>2. channel' = channel /\ row' = row
    BY <2>1 DEF ValidateFinalization
  <2>3. Completed' = Completed
    BY <2>2 DEF Completed
  <2>4. /\ channel.funded - channel.activated <= Start.refunded + AmountOf(Completed, Amount)
        /\ \A r \in Refunds : row[r].state \in {"absent", "released", "completed"}
    BY <2>1, ClearsClean
  <2> QED
    BY <2>2, <2>3, <2>4
<1> QED
  BY <1>1, <1>2

-----------------------------------------------------------------------------
(* The inductive invariant and what follows from it.                       *)

\* A channel without closures and refunds has the invariant.
LEMMA InductiveInit == Init => IInv
<1> SUFFICES ASSUME Init PROVE IInv
  OBVIOUS
<1>1. StateInv
  BY StateInit
<1>2. channel = Start /\ Start \in Channels /\ Start.status = "active"
  BY ConstantTypes DEF Init
<1>3. Start.activated \in Nat /\ Start.refunded \in Nat
  BY <1>2, ChannelTypes
<1>4. SnapshotInv
  BY <1>2, <1>3 DEF Init, SnapshotInv, ShownInv
<1>5. Landed = {}
  BY DEF Init, Landed
<1>6. EffectInv
  <2>1. AmountOf(Landed, Amount) = 0
    BY <1>5, AmountEmpty
  <2> QED
    BY <1>2, <1>3, <1>5, <2>1 DEF EffectInv
<1>7. PoolInv
  BY DEF Init, PoolInv, OfClosure
<1>8. ClearedInv
  BY DEF Init, ClearedInv
<1> QED
  BY <1>1, <1>4, <1>6, <1>7, <1>8 DEF IInv

\* Every step of the runtime, of its callers and of the account keeps it.
LEMMA InductiveStep == IInv /\ [Next]_vars => IInv'
<1> SUFFICES ASSUME IInv, [Next]_vars PROVE IInv'
  OBVIOUS
<1>1. StateInv' /\ SnapshotInv' /\ EffectInv' /\ PoolInv'
  BY StateStep, SnapshotStep, EffectStep, PoolStep DEF IInv
<1>2. ClearedInv'
  BY ClearedStep
<1> QED
  BY <1>1, <1>2 DEF IInv

\* However old the snapshots are that freeze_closure was given, and however many
\* closures the channel has, the reservations and the high-water check of
\* register_refund keep what a closure's refunds may still take out of the
\* activated right, but for what the freeze of one of them overlooked.
THEOREM RightsDoStayCovered == Spec => []RightsStayCovered
<1>1. ASSUME IInv, NEW c \in Closures, OfClosure(c) # {}
      PROVE  \E r \in OfClosure(c) :
               AmountOf({q \in OfClosure(c) : MayStillLand(q)}, Amount)
                 <= UnallocatedCapacity(channel) + Overlooked(r)
  <2> USE DEF IInv
  <2> DEFINE P == {q \in OfClosure(c) : MayStillLand(q)}
             L == {q \in OfClosure(c) : exec[q] = "landed"}
  <2>1. PICK r \in OfClosure(c) :
          AmountOf(Open(c), Amount) <= UnallocatedCapacity(request[r].freeze.channel)
    BY <1>1 DEF PoolInv
  <2>2. r \in Refunds /\ request[r] # None /\ request[r].closure = c
    BY <1>1 DEF OfClosure, StateInv, TypeOK
  <2>3. /\ P \in SUBSET Refunds /\ L \in SUBSET Refunds /\ Open(c) \in SUBSET Refunds
        /\ Taking(c) \in SUBSET Refunds /\ P \cap L = {}
    BY DEF OfClosure, MayStillLand, Open, Taking
  <2>4. P \cup L \in SUBSET Open(c)
    BY <1>1 DEF Open, OfClosure, MayStillLand, StateInv, RowInv, Unsent
  <2>5. Landed = L \cup Taking(c) /\ L \cap Taking(c) = {}
    <3>1. ASSUME NEW q \in Refunds
          PROVE  /\ effect[q] # None <=> exec[q] = "landed"
                 /\ exec[q] = "landed" => row[q].state # "absent"
      BY <1>1, ConstantTypes DEF StateInv, RowInv, Unsent
    <3> QED
      BY <3>1 DEF Landed, Taking, OfClosure
  <2>6. AmountOf(P \cup L, Amount) = AmountOf(P, Amount) + AmountOf(L, Amount)
    <3>1. IsFiniteSet(P) /\ IsFiniteSet(L) /\ \A q \in P \cup L : Amount[q] \in Nat
      BY <2>3, RefundSets
    <3> HIDE DEF P, L
    <3> QED
      BY <2>3, <3>1, AmountDisjoint
  <2>7. AmountOf(Landed, Amount) = AmountOf(L, Amount) + AmountOf(Taking(c), Amount)
    <3>1. IsFiniteSet(Taking(c)) /\ IsFiniteSet(L) /\ \A q \in L \cup Taking(c) : Amount[q] \in Nat
      BY <2>3, RefundSets
    <3> HIDE DEF L
    <3> QED
      BY <2>5, <3>1, AmountDisjoint
  <2>8. AmountOf(P \cup L, Amount) <= AmountOf(Open(c), Amount)
    <3> HIDE DEF P, L
    <3> QED
      BY <2>3, <2>4, RefundSets, AmountMonotone
  <2>9. /\ AmountOf(P, Amount) \in Nat /\ AmountOf(L, Amount) \in Nat
        /\ AmountOf(Open(c), Amount) \in Nat /\ AmountOf(Taking(c), Amount) \in Nat
    BY <2>3, RefundSets
  <2> DEFINE f == request[r].freeze.channel
  <2>10. /\ f.refunded = Start.refunded /\ f.funded = channel.funded
         /\ channel.refunded = Start.refunded + AmountOf(Landed, Amount)
    BY <1>1, <2>2 DEF SnapshotInv, PastWindow, EffectInv
  <2>11. /\ channel.activated \in Nat /\ f.activated \in Nat
         /\ Overlooked(r) = channel.activated - f.activated + AmountOf(Taking(c), Amount)
    BY <1>1, <2>2, OverlookedTypes DEF Overlooked
  <2>12. channel.funded \in Nat /\ Start.refunded \in Nat /\ channel.refunded \in Nat
    BY <1>1, ConstantTypes, ChannelTypes DEF StateInv, TypeOK
  <2>13. /\ UnallocatedCapacity(f) = channel.funded - Start.refunded - f.activated
         /\ UnallocatedCapacity(channel) = channel.funded - channel.refunded - channel.activated
    BY <2>10 DEF UnallocatedCapacity
  <2>14. AmountOf(Open(c), Amount) <= UnallocatedCapacity(f)
    BY <2>1
  <2> HIDE DEF P, L, f
  <2>15. AmountOf(P, Amount) <= UnallocatedCapacity(channel) + Overlooked(r)
    BY <2>6, <2>7, <2>8, <2>9, <2>10, <2>11, <2>12, <2>13, <2>14
  <2> QED
    BY <2>1, <2>15 DEF P
<1>2. IInv => RightsStayCovered
  BY <1>1 DEF RightsStayCovered
<1> QED
  BY <1>2, InductiveInit, InductiveStep, PTL DEF Spec

\* validate_finalization lets a channel close only when each refund whose freeze
\* overlooked nothing is settled, and none such can be registered or take effect
\* later, though the account closes and the next epoch starts some time after
\* and whatever snapshots the callers used.
THEOREM EpochsStartClean == Spec => []EpochStartsClean
<1>1. ASSUME IInv, NEW s \in shown, EpochTransitionEligible(s), NEW r \in Refunds,
             row[r].state # "absent", Overlooked(r) = 0
      PROVE  (effect[r] # None <=> row[r].state = "completed") /\ ~MayStillLand(r)
  <2>1. cleared
    BY <1>1 DEF IInv, SnapshotInv, ShownInv, EpochTransitionEligible
  <2>2. row[r].state \in {"released", "completed"} /\ RowInv(r)
    BY <1>1, <2>1 DEF IInv, ClearedInv, StateInv
  <2>3. effect[r] # None <=> exec[r] = "landed"
    BY <2>2, ConstantTypes DEF RowInv
  <2>4. exec[r] = "landed" <=> row[r].state = "completed"
    BY <2>2 DEF RowInv, Unsent
  <2> QED
    BY <2>2, <2>3, <2>4 DEF MayStillLand
<1>2. IInv => EpochStartsClean
  BY <1>1 DEF EpochStartsClean
<1> QED
  BY <1>2, InductiveInit, InductiveStep, PTL DEF Spec

\* A refund is completed by reconcile_refund only if it was carried out, after
\* the claim window, on exactly the totals of its freeze; and two completed
\* refunds never come from the same refunded total.
THEOREM CompletedRefundsAreExact == Spec => []CompletedRefundsExact
<1>1. ASSUME IInv, NEW r \in Refunds, row[r].state = "completed"
      PROVE  /\ r \in Landed /\ exec[r] = "landed"
             /\ effect[r].updated >= effect[r].deadline
             /\ VaultBalance(effect[r]) = VaultBalance(request[r].freeze.channel)
             /\ OutstandingRight(effect[r]) = OutstandingRight(request[r].freeze.channel)
             /\ effect[r].refunded = request[r].freeze.channel.refunded
             /\ effect[r].refunded \in Nat
  <2>1. RowInv(r)
    BY <1>1 DEF IInv, StateInv
  <2>2. exec[r] = "landed" /\ r \in Landed /\ effect[r] \in Channels
    BY <1>1, <2>1 DEF RowInv, Landed
  <2>3. /\ effect[r].funded = request[r].freeze.channel.funded
        /\ effect[r].activated = request[r].freeze.channel.activated
        /\ effect[r].settled = request[r].freeze.channel.settled
        /\ effect[r].refunded = request[r].freeze.channel.refunded
    BY <1>1, <2>1 DEF RowInv, Totals
  <2>4. effect[r].updated >= effect[r].deadline
    BY <1>1, <2>2 DEF IInv, EffectInv
  <2>5. /\ VaultBalance(effect[r]) = VaultBalance(request[r].freeze.channel)
        /\ OutstandingRight(effect[r]) = OutstandingRight(request[r].freeze.channel)
    BY <2>3 DEF VaultBalance, OutstandingRight
  <2> QED
    BY <2>2, <2>3, <2>4, <2>5, ChannelTypes
<1>2. ASSUME IInv, NEW r \in Refunds, NEW q \in Refunds, r # q,
             row[r].state = "completed", row[q].state = "completed"
      PROVE  request[r].freeze.channel.refunded # request[q].freeze.channel.refunded
  <2>1. /\ r \in Landed /\ q \in Landed
        /\ effect[r].refunded = request[r].freeze.channel.refunded
        /\ effect[q].refunded = request[q].freeze.channel.refunded
        /\ effect[r].refunded \in Nat /\ effect[q].refunded \in Nat
    BY <1>1, <1>2
  <2>2. \/ effect[r].refunded + Amount[r] <= effect[q].refunded
        \/ effect[q].refunded + Amount[q] <= effect[r].refunded
    BY <1>2, <2>1 DEF IInv, EffectInv
  <2>3. Amount[r] \in Nat /\ Amount[r] > 0 /\ Amount[q] \in Nat /\ Amount[q] > 0
    BY ConstantTypes
  <2>4. effect[r].refunded # effect[q].refunded
    BY <2>1, <2>2, <2>3
  <2> QED
    BY <2>1, <2>4
<1>3. IInv => CompletedRefundsExact
  BY <1>1, <1>2 DEF CompletedRefundsExact
<1> QED
  BY <1>3, InductiveInit, InductiveStep, PTL DEF Spec

=============================================================================

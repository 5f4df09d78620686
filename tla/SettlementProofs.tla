--------------------------- MODULE SettlementProofs ---------------------------
(***************************************************************************)
(* Proofs about the settlement runtime, for any number of settlements and  *)
(* any amounts, expiries, activations and start of the channel.            *)
(***************************************************************************)
EXTENDS SettlementRuntime, ChannelLemmas

Unsent == {"absent", "validated", "execution_committed", "authorized"}

\* What a row tells about the executor: nothing is sent before the submit
\* intent, a signature is that of a transfer that took effect, and only what
\* can no longer take effect is rejected or failed.
RowInv(s) ==
  /\ row[s].state \in Unsent => exec[s] = "idle"
  /\ row[s].state = "absent" => ~row[s].signature /\ ~row[s].receipt
  /\ row[s].state # "absent" => request[s] # None
  /\ row[s].signature => exec[s] = "landed"
  /\ row[s].state \in {"rejected", "failed_before_submission"} =>
       exec[s] \in {"refused", "dropped"}
  /\ row[s].state = "completed" => row[s].receipt

\* What a recovery that is about to be written still says of its settlement,
\* however stale it is.
RecoveryInv ==
  recovery # None =>
    /\ recovery.target \in {"needs_recovery", "needs_review", "reconciling",
                            "failed_before_submission", "disputed"}
    /\ row[recovery.settlement].state \notin Unsent \cup {"submitted"}
    /\ recovery.target = "reconciling" => exec[recovery.settlement] = "landed"
    /\ recovery.target = "failed_before_submission" =>
         exec[recovery.settlement] \in {"refused", "dropped"}

StateInv == TypeOK /\ RecoveryInv /\ \A s \in Settlements : RowInv(s)

Landed == {s \in Settlements : exec[s] = "landed"}

\* The settlements that may still take effect.
Pending == {s \in Settlements : row[s].state # "absent" /\ exec[s] \in {"idle", "accepted"}}

\* The transfers that took effect before the settled total reached v.
LandedBelow(v) == {s \in Landed : effect[s].settled < v}

\* A transfer that took effect left its place in the settled total, and no
\* other transfer shares it.
EffectInv ==
  /\ \A s \in Settlements :
       /\ exec[s] # "landed" => effect[s] = None
       /\ exec[s] = "landed" =>
            /\ effect[s] \in [settled : Nat, vault : Int]
            /\ effect[s].settled + Amount[s] <= channel.settled
  /\ \A s, r \in Landed :
       s # r => \/ effect[s].settled + Amount[s] <= effect[r].settled
                \/ effect[r].settled + Amount[r] <= effect[s].settled

\* A snapshot's total is that of the account when it was taken, which only
\* grew since.
SnapshotCounted(snapshot) ==
  /\ snapshot.settled <= channel.settled
  /\ snapshot.activated <= channel.activated
  /\ snapshot.settled = Start.settled + AmountOf(LandedBelow(snapshot.settled), Amount)

\* The settled total of the account counts the transfers that took effect, and
\* that of a snapshot those which had by then.
CountInv ==
  /\ channel.settled = Start.settled + AmountOf(Landed, Amount)
  /\ \A s \in Settlements : request[s] # None => SnapshotCounted(request[s])

ReceiptInv ==
  \A s \in Settlements :
    row[s].receipt =>
      /\ exec[s] = "landed"
      /\ effect[s].settled = request[s].settled
      /\ effect[s].vault = VaultBalance(request[s])

IInv == StateInv /\ EffectInv /\ CountInv /\ ReceiptInv /\ ReservationsCovered

-----------------------------------------------------------------------------
(* The constants, the first state and types.                               *)

\* What the actions below need of the constants.
LEMMA ConstantTypes ==
  /\ \A s \in Settlements : Amount[s] \in Nat /\ Amount[s] > 0
  /\ Start \in Channels /\ Horizon \in Nat /\ Activations \subseteq Nat
  /\ IsFiniteSet(Settlements)
BY SettlementAssumption

\* Before any call the rows, the executor and the recovery agree.
LEMMA StateInit == Init => StateInv
<1> SUFFICES ASSUME Init PROVE StateInv
  OBVIOUS
<1>1. NoRow \in Rows
  BY DEF NoRow, Rows, States
<1>2. TypeOK
  BY <1>1, ConstantTypes DEF Init, TypeOK
<1>3. RecoveryInv
  BY DEF Init, RecoveryInv
<1>4. ASSUME NEW s \in Settlements PROVE RowInv(s)
  BY DEF Init, RowInv, NoRow, Unsent
<1> QED
  BY <1>2, <1>3, <1>4 DEF StateInv

\* The row of s gets the given state, signature and receipt flags.
RowWritten(s, st, sig, rcpt) ==
  /\ row' \in [Settlements -> Rows]
  /\ row'[s].state = st /\ row'[s].signature = sig /\ row'[s].receipt = rcpt
  /\ \A r \in Settlements : r # s => row'[r] = row[r]

\* The shapes of the runtime's updates.
LEMMA RowUpdates ==
  ASSUME row \in [Settlements -> Rows], NEW s \in Settlements,
         NEW st \in States, NEW b \in BOOLEAN, NEW t \in Nat
  PROVE  /\ row' = [row EXCEPT ![s].state = st, ![s].updated = t] =>
              RowWritten(s, st, row[s].signature, row[s].receipt)
         /\ row' = [row EXCEPT ![s].state = st, ![s].signature = b] =>
              RowWritten(s, st, b, row[s].receipt)
         /\ row' = [row EXCEPT ![s].state = st, ![s].signature = b, ![s].updated = t] =>
              RowWritten(s, st, b, row[s].receipt)
         /\ row' = [row EXCEPT ![s].state = st, ![s].receipt = b, ![s].updated = t] =>
              RowWritten(s, st, row[s].signature, b)
<1>1. ASSUME row' = [row EXCEPT ![s].state = st, ![s].updated = t]
      PROVE  RowWritten(s, st, row[s].signature, row[s].receipt)
  BY <1>1 DEF Rows, RowWritten
<1>2. ASSUME row' = [row EXCEPT ![s].state = st, ![s].signature = b]
      PROVE  RowWritten(s, st, b, row[s].receipt)
  BY <1>2 DEF Rows, RowWritten
<1>3. ASSUME row' = [row EXCEPT ![s].state = st, ![s].signature = b, ![s].updated = t]
      PROVE  RowWritten(s, st, b, row[s].receipt)
  BY <1>3 DEF Rows, RowWritten
<1>4. ASSUME row' = [row EXCEPT ![s].state = st, ![s].receipt = b, ![s].updated = t]
      PROVE  RowWritten(s, st, row[s].signature, b)
  BY <1>4 DEF Rows, RowWritten
<1> QED
  BY <1>1, <1>2, <1>3, <1>4, Zenon

\* A step that writes the row of one settlement, and nothing the executor or
\* the channel keeps, preserves the invariant if the new row does.
LEMMA RowStep ==
  ASSUME StateInv, NEW s \in Settlements,
         NEW st, st # "absent", NEW sig, NEW rcpt, RowWritten(s, st, sig, rcpt),
         UNCHANGED <<now, channel, request, exec, effect>>,
         recovery' \in {recovery, None},
         calling' \subseteq calling \cup {s}, s \in calling' => st = "submitted",
         recovery' # None /\ recovery.settlement = s => st \notin Unsent \cup {"submitted"},
         request[s] # None,
         st \in Unsent => exec[s] = "idle",
         sig => exec[s] = "landed",
         st \in {"rejected", "failed_before_submission"} => exec[s] \in {"refused", "dropped"},
         st = "completed" => rcpt
  PROVE  StateInv'
<1> USE DEF StateInv
<1>1. /\ row' \in [Settlements -> Rows]
      /\ row'[s].state = st /\ row'[s].signature = sig /\ row'[s].receipt = rcpt
      /\ \A r \in Settlements : r # s => row'[r] = row[r]
  BY DEF RowWritten
<1>2. TypeOK'
  BY <1>1 DEF TypeOK
<1>3. RecoveryInv'
  <2> SUFFICES ASSUME recovery' # None
               PROVE  RecoveryInv'
    BY DEF RecoveryInv
  <2>1. recovery' = recovery /\ recovery # None /\ recovery.settlement \in Settlements
    BY DEF TypeOK
  <2>2. row'[recovery.settlement].state \notin Unsent \cup {"submitted"}
    BY <1>1, <2>1 DEF RecoveryInv
  <2> QED
    BY <2>1, <2>2 DEF RecoveryInv
<1>4. ASSUME NEW r \in Settlements PROVE RowInv(r)'
  <2>1. CASE r = s
    BY <1>1, <2>1 DEF RowInv
  <2>2. CASE r # s
    BY <1>1, <2>2 DEF RowInv
  <2> QED
    BY <2>1, <2>2
<1> QED
  BY <1>2, <1>3, <1>4

\* A step of the executor preserves the invariant if it never takes back what
\* is definitive and concerns only what was sent.
LEMMA ExecStep ==
  ASSUME StateInv, NEW s \in Settlements,
         NEW e \in {"idle", "accepted", "landed", "refused", "dropped"},
         exec' = [exec EXCEPT ![s] = e],
         exec[s] \in {"idle", "accepted"} \/ e = exec[s],
         row[s].state \in Unsent => e = "idle",
         row[s].state \in {"rejected", "failed_before_submission"} => e \in {"refused", "dropped"},
         UNCHANGED <<now, row, calling, recovery, request>>
  PROVE  /\ exec' \in [Settlements -> {"idle", "accepted", "landed", "refused", "dropped"}]
         /\ RecoveryInv'
         /\ \A r \in Settlements : RowInv(r)'
<1>1. /\ exec' \in [Settlements -> {"idle", "accepted", "landed", "refused", "dropped"}]
      /\ exec'[s] = e /\ \A r \in Settlements : r # s => exec'[r] = exec[r]
  BY DEF StateInv, TypeOK
<1>2. RecoveryInv'
  <2> SUFFICES ASSUME recovery # None PROVE RecoveryInv'
    BY DEF RecoveryInv
  <2>1. recovery.settlement \in Settlements
    BY DEF StateInv, TypeOK
  <2> QED
    BY <1>1, <2>1 DEF StateInv, RecoveryInv
<1>3. ASSUME NEW r \in Settlements PROVE RowInv(r)'
  BY <1>1 DEF StateInv, RowInv
<1> QED
  BY <1>1, <1>2, <1>3

\* Every step, of any call at any of its transactions, keeps what a row says of
\* its settlement true.
LEMMA StateStep == StateInv /\ [Next]_vars => StateInv'
<1> SUFFICES ASSUME StateInv, [Next]_vars PROVE StateInv'
  OBVIOUS
<1>1. CASE UNCHANGED vars
  BY <1>1 DEF vars, StateInv, TypeOK, RecoveryInv, RowInv
<1>2. CASE Tick
  <2>1. TypeOK'
    BY <1>2, ConstantTypes DEF Tick, StateInv, TypeOK
  <2> QED
    BY <1>2, <2>1 DEF Tick, StateInv, RecoveryInv, RowInv
<1>3. ASSUME NEW total \in Activations, Activate(total) PROVE StateInv'
  <2>1. channel' \in Channels
    <3>1. channel \in Channels /\ channel.sequence + 1 \in Nat /\ total \in Nat
      BY ConstantTypes, ChannelTypes DEF StateInv, TypeOK
    <3>2. channel' = ActivatedBy(channel, channel.sequence + 1, total, channel.sequence + 1)
      BY <1>3 DEF Activate
    <3> QED
      BY <3>1, <3>2, ActivatedByFields
  <2>2. TypeOK'
    BY <1>3, <2>1 DEF Activate, StateInv, TypeOK
  <2> QED
    BY <1>3, <2>2 DEF Activate, StateInv, RecoveryInv, RowInv
<1>4. ASSUME NEW s \in Settlements, Deliver(s) PROVE StateInv'
  <2>1. PICK verdict \in {"accepted", "refused"} : exec' = [exec EXCEPT ![s] = verdict]
    BY <1>4 DEF Deliver
  <2>2. row[s].state \notin Unsent /\ row[s].state \notin {"rejected", "failed_before_submission"}
    BY <1>4 DEF Deliver, Sent, Unsent, StateInv, RowInv
  <2>3. /\ exec' \in [Settlements -> {"idle", "accepted", "landed", "refused", "dropped"}]
        /\ RecoveryInv' /\ \A r \in Settlements : RowInv(r)'
    BY <1>4, <2>1, <2>2, ExecStep DEF Deliver
  <2>4. TypeOK'
    BY <1>4, <2>3 DEF Deliver, StateInv, TypeOK
  <2> QED
    BY <2>3, <2>4 DEF StateInv
<1>5. ASSUME NEW s \in Settlements, Land(s) PROVE StateInv'
  <2>1. row[s].state \notin Unsent /\ row[s].state \notin {"rejected", "failed_before_submission"}
    BY <1>5 DEF Land, StateInv, RowInv
  <2>2. /\ exec' \in [Settlements -> {"idle", "accepted", "landed", "refused", "dropped"}]
        /\ RecoveryInv' /\ \A r \in Settlements : RowInv(r)'
    BY <1>5, <2>1, ExecStep DEF Land
  <2>4. channel \in Channels /\ channel.settled \in Nat /\ VaultBalance(channel) \in Int
    BY ChannelTypes DEF StateInv, TypeOK
  <2>3. channel' \in Channels
    <3>1. Amount[s] \in Int /\ channel.settled + Amount[s] \in Nat
      BY <2>4, ConstantTypes
    <3> QED
      BY <1>5, <2>4, <3>1, SettledFields DEF Land
  <2>5. effect' \in [Settlements -> [settled : Nat, vault : Int] \cup {None}]
    BY <1>5, <2>4 DEF Land, StateInv, TypeOK
  <2>6. TypeOK'
    BY <1>5, <2>2, <2>3, <2>5 DEF Land, StateInv, TypeOK
  <2> QED
    BY <2>2, <2>6 DEF StateInv
<1>6. ASSUME NEW s \in Settlements, Drop(s) PROVE StateInv'
  <2>1. row[s].state \notin Unsent
    BY <1>6 DEF Drop, Sent, Unsent
  <2>2. /\ exec' \in [Settlements -> {"idle", "accepted", "landed", "refused", "dropped"}]
        /\ RecoveryInv' /\ \A r \in Settlements : RowInv(r)'
    BY <1>6, <2>1, ExecStep DEF Drop
  <2>3. TypeOK'
    BY <1>6, <2>2 DEF Drop, StateInv, TypeOK
  <2> QED
    BY <2>2, <2>3 DEF StateInv
<1>7. ASSUME NEW s \in Settlements, BuildRequest(s) PROVE StateInv'
  <2>1. TypeOK'
    BY <1>7 DEF BuildRequest, StateInv, TypeOK
  <2>2. ASSUME NEW r \in Settlements PROVE RowInv(r)'
    BY <1>7 DEF BuildRequest, StateInv, TypeOK, RowInv
  <2> QED
    BY <1>7, <2>1, <2>2 DEF BuildRequest, StateInv, RecoveryInv
<1>8. ASSUME NEW s \in Settlements, Register(s) PROVE StateInv'
  <2>1. row \in [Settlements -> Rows] /\ now \in Nat /\ RowInv(s) /\ request[s] # None
    BY <1>8, ConstantTypes DEF StateInv, TypeOK, RowInv, Register, ObligationFree
  <2>2. RowWritten(s, "validated", row[s].signature, row[s].receipt)
    BY <1>8, <2>1, RowUpdates DEF Register, ObligationFree, States
  <2>3. recovery # None => recovery.settlement # s
    BY <1>8 DEF Register, ObligationFree, StateInv, RecoveryInv, Unsent
  <2>4. exec[s] = "idle" /\ (row[s].signature => exec[s] = "landed") /\ s \notin calling
    BY <1>8, <2>1 DEF Register, ObligationFree, StateInv, TypeOK, RowInv, Unsent
  <2>5. UNCHANGED <<now, channel, request, calling, recovery, exec, effect>>
    BY <1>8 DEF Register
  <2> QED
    BY <2>1, <2>2, <2>3, <2>4, <2>5, RowStep DEF Unsent
<1>9. ASSUME NEW s \in Settlements, CommitExecution(s) PROVE StateInv'
  <2>1. row \in [Settlements -> Rows] /\ now \in Nat /\ RowInv(s) /\ request[s] # None
    BY <1>9, ConstantTypes DEF StateInv, TypeOK, RowInv, CommitExecution
  <2>2. RowWritten(s, "execution_committed", row[s].signature, row[s].receipt)
    BY <1>9, <2>1, RowUpdates DEF CommitExecution, SetState, States
  <2>3. recovery # None => recovery.settlement # s
    BY <1>9 DEF CommitExecution, StateInv, RecoveryInv, Unsent
  <2>4. exec[s] = "idle" /\ (row[s].signature => exec[s] = "landed") /\ s \notin calling
    BY <1>9, <2>1 DEF CommitExecution, StateInv, TypeOK, RowInv, Unsent
  <2>5. UNCHANGED <<now, channel, request, calling, recovery, exec, effect>>
    BY <1>9 DEF CommitExecution
  <2> QED
    BY <2>1, <2>2, <2>3, <2>4, <2>5, RowStep DEF Unsent
<1>10. ASSUME NEW s \in Settlements, RecordAuthorization(s) PROVE StateInv'
  <2>1. row \in [Settlements -> Rows] /\ now \in Nat /\ RowInv(s) /\ request[s] # None
    BY <1>10, ConstantTypes DEF StateInv, TypeOK, RowInv, RecordAuthorization
  <2>2. RowWritten(s, "authorized", row[s].signature, row[s].receipt)
    BY <1>10, <2>1, RowUpdates DEF RecordAuthorization, SetState, States
  <2>3. recovery # None => recovery.settlement # s
    BY <1>10 DEF RecordAuthorization, StateInv, RecoveryInv, Unsent
  <2>4. exec[s] = "idle" /\ (row[s].signature => exec[s] = "landed") /\ s \notin calling
    BY <1>10, <2>1 DEF RecordAuthorization, StateInv, TypeOK, RowInv, Unsent
  <2>5. UNCHANGED <<now, channel, request, calling, recovery, exec, effect>>
    BY <1>10 DEF RecordAuthorization
  <2> QED
    BY <2>1, <2>2, <2>3, <2>4, <2>5, RowStep DEF Unsent
<1>11. ASSUME NEW s \in Settlements, SubmitIntent(s) PROVE StateInv'
  <2>1. row \in [Settlements -> Rows] /\ now \in Nat /\ RowInv(s) /\ request[s] # None
    BY <1>11, ConstantTypes DEF StateInv, TypeOK, RowInv, SubmitIntent
  <2>2. RowWritten(s, "submitted", row[s].signature, row[s].receipt)
    BY <1>11, <2>1, RowUpdates DEF SubmitIntent, SetState, States
  <2>3. recovery # None => recovery.settlement # s
    BY <1>11 DEF SubmitIntent, StateInv, RecoveryInv, Unsent
  <2> QED
    BY <1>11, <2>1, <2>2, <2>3, RowStep DEF SubmitIntent, RowInv, Unsent
<1>12. ASSUME NEW s \in Settlements, SubmitReturn(s) PROVE StateInv'
  <2>1. PICK outcome \in SubmitOutcomes(s) :
          row' = [row EXCEPT ![s].state = outcome, ![s].signature = (outcome = "reconciling")]
    BY <1>12 DEF SubmitReturn
  <2>2. row \in [Settlements -> Rows] /\ RowInv(s) /\ request[s] # None
    BY <1>12 DEF SubmitReturn, StateInv, TypeOK, RowInv
  <2>3. /\ outcome \in {"needs_recovery", "rejected", "needs_review", "reconciling"}
        /\ outcome = "rejected" => exec[s] = "refused"
        /\ outcome = "reconciling" => exec[s] = "landed"
    BY DEF SubmitOutcomes, ReceiptConfirms
  <2>4. recovery # None => recovery.settlement # s
    BY <1>12 DEF SubmitReturn, StateInv, RecoveryInv
  <2>5. RowWritten(s, outcome, (outcome = "reconciling"), row[s].receipt)
    BY <2>1, <2>2, <2>3, RowUpdates DEF States
  <2> QED
    BY <1>12, <2>2, <2>3, <2>4, <2>5, RowStep DEF SubmitReturn, RowInv, Unsent
<1>13. ASSUME NEW s \in Settlements, SubmitCrash(s) PROVE StateInv'
  BY <1>13 DEF SubmitCrash, StateInv, TypeOK, RecoveryInv, RowInv
<1>14. ASSUME NEW s \in Settlements, NEW target \in States, RecoverAsk(s, target) PROVE StateInv'
  <2>1. PICK e \in {"idle", "accepted", "landed", "refused", "dropped"} :
          /\ e = IF target = "failed_before_submission" /\ exec[s] = "idle" THEN "dropped" ELSE exec[s]
          /\ exec' = [exec EXCEPT ![s] = e]
    BY <1>14 DEF RecoverAsk, StateInv, TypeOK
  <2>2. row[s].state \in RecoverableStates
    BY <1>14 DEF RecoverAsk
  <2>3. /\ exec' \in [Settlements -> {"idle", "accepted", "landed", "refused", "dropped"}]
        /\ \A r \in Settlements : RowInv(r)'
        /\ exec'[s] = e
    BY <1>14, <2>1, <2>2 DEF RecoverAsk, StateInv, TypeOK, RowInv, RecoverableStates, Unsent
  <2>4. now \in Nat
    BY ConstantTypes DEF StateInv, TypeOK
  <2>5. TypeOK'
    BY <1>14, <2>3, <2>4 DEF RecoverAsk, StateInv, TypeOK
  <2>6. /\ target \in {"needs_recovery", "needs_review", "reconciling", "failed_before_submission"}
        /\ target = "reconciling" => exec[s] = "landed"
        /\ target = "failed_before_submission" => exec[s] \in {"idle", "refused", "dropped"}
    BY <1>14 DEF RecoverAsk, RecoveryTargets
  <2>7. recovery' = [settlement |-> s, target |-> target, at |-> now] /\ row' = row
    BY <1>14 DEF RecoverAsk
  <2>8. RecoveryInv'
    BY <2>1, <2>2, <2>3, <2>6, <2>7 DEF RecoveryInv, RecoverableStates, Unsent
  <2> QED
    BY <2>3, <2>5, <2>8 DEF StateInv
<1>15. ASSUME NEW s \in Settlements, NEW target \in States, RecoverWrite(s, target) PROVE StateInv'
  <2>1. /\ recovery # None /\ recovery.settlement = s /\ recovery.target = target
        /\ recovery.at \in Nat /\ row \in [Settlements -> Rows] /\ RowInv(s)
    BY <1>15 DEF RecoverWrite, StateInv, TypeOK
  <2>2. RowWritten(s, target, row[s].signature \/ target = "reconciling", row[s].receipt)
    <3>1. (row[s].signature \/ target = "reconciling") \in BOOLEAN
      OBVIOUS
    <3>2. row' = [row EXCEPT ![s].state = target,
                             ![s].signature = row[s].signature \/ target = "reconciling",
                             ![s].updated = recovery.at]
      BY <1>15 DEF RecoverWrite
    <3> QED
      BY <2>1, <3>1, <3>2, RowUpdates
  <2>3. /\ target \in {"needs_recovery", "needs_review", "reconciling",
                       "failed_before_submission", "disputed"}
        /\ row[s].state \notin Unsent \cup {"submitted"}
        /\ target = "reconciling" => exec[s] = "landed"
        /\ target = "failed_before_submission" => exec[s] \in {"refused", "dropped"}
    BY <2>1 DEF StateInv, RecoveryInv
  <2>4. request[s] # None /\ s \notin calling
    BY <2>1, <2>3 DEF StateInv, TypeOK, RowInv, Unsent
  <2>5. (row[s].signature \/ target = "reconciling") => exec[s] = "landed"
    BY <2>1, <2>3 DEF RowInv
  <2> QED
    BY <1>15, <2>1, <2>2, <2>3, <2>4, <2>5, RowStep DEF RecoverWrite, Unsent
<1>16. ASSUME NEW s \in Settlements, DivergenceReported(s) PROVE StateInv'
  <2>1. recovery' = [settlement |-> s, target |-> "disputed", at |-> now] /\ now \in Nat
    BY <1>16, ConstantTypes DEF DivergenceReported, StateInv, TypeOK
  <2>2. TypeOK'
    BY <1>16, <2>1 DEF DivergenceReported, StateInv, TypeOK, States
  <2>3. RecoveryInv'
    BY <1>16, <2>1 DEF DivergenceReported, RecoveryInv, RecoverableStates, Unsent
  <2> QED
    BY <1>16, <2>2, <2>3 DEF DivergenceReported, StateInv, RowInv
<1>17. ASSUME NEW s \in Settlements, ReconcileMatch(s) PROVE StateInv'
  <2>1. row \in [Settlements -> Rows] /\ now \in Nat /\ RowInv(s) /\ request[s] # None /\ s \notin calling
    BY <1>17, ConstantTypes DEF ReconcileMatch, ReconcilableStates, StateInv, TypeOK, RowInv
  <2>2. RowWritten(s, "completed", row[s].signature, TRUE)
    BY <1>17, <2>1, RowUpdates DEF ReconcileMatch, States
  <2> QED
    BY <1>17, <2>1, <2>2, RowStep DEF ReconcileMatch, RowInv, Unsent
<1>18. ASSUME NEW s \in Settlements, ReconcileMismatch(s) PROVE StateInv'
  <2>1. row \in [Settlements -> Rows] /\ now \in Nat /\ RowInv(s) /\ request[s] # None /\ s \notin calling
    BY <1>18, ConstantTypes DEF ReconcileMismatch, ReconcilableStates, StateInv, TypeOK, RowInv
  <2>2. RowWritten(s, "needs_review", row[s].signature, row[s].receipt)
    BY <1>18, <2>1, RowUpdates DEF ReconcileMismatch, SetState, States
  <2> QED
    BY <1>18, <2>1, <2>2, RowStep DEF ReconcileMismatch, RowInv, Unsent
<1>19. ASSUME NEW s \in Settlements, ReconcileDivergent(s) PROVE StateInv'
  <2>1. row \in [Settlements -> Rows] /\ now \in Nat /\ RowInv(s) /\ request[s] # None /\ s \notin calling
    BY <1>19, ConstantTypes DEF ReconcileDivergent, ReconcilableStates, StateInv, TypeOK, RowInv
  <2>2. RowWritten(s, "disputed", row[s].signature, row[s].receipt)
    BY <1>19, <2>1, RowUpdates DEF ReconcileDivergent, SetState, States
  <2> QED
    BY <1>19, <2>1, <2>2, RowStep DEF ReconcileDivergent, RowInv, Unsent
<1> QED
  BY <1>1, <1>2, <1>3, <1>4, <1>5, <1>6, <1>7, <1>8, <1>9, <1>10, <1>11, <1>12, <1>13, <1>14, <1>15, <1>16, <1>17, <1>18, <1>19 DEF Next

\* The runtime's type invariant: every step of every caller, the executor, the
\* account and a crashed process leaves rows, requests, calls and the channel
\* in shape, and a settlement waits for the executor only when submitted.
THEOREM SettlementTypes == Spec => []TypeOK
<1>1. StateInv => TypeOK
  BY DEF StateInv
<1> QED
  BY <1>1, StateInit, StateStep, PTL DEF Spec

\* A settlement that _persist_technical rejected or _record_recovery failed
\* gave its reservation back and never takes effect, however late its request
\* reaches the executor.
THEOREM ReleasedSettlementsNeverLand == Spec => []ReleasedNeverLands
<1>1. StateInv => ReleasedNeverLands
  BY DEF StateInv, RowInv, ReleasedNeverLands
<1> QED
  BY <1>1, StateInit, StateStep, PTL DEF Spec

-----------------------------------------------------------------------------
(* Which steps matter for the totals.                                      *)

\* A step that neither moves money nor takes up a snapshot, a reservation or
\* a receipt.
Quiet ==
  /\ UNCHANGED <<request, effect>>
  /\ Landed' = Landed /\ Pending' \subseteq Pending
  /\ channel'.settled = channel.settled /\ channel'.activated >= channel.activated
  /\ \A s \in Settlements : row'[s].receipt => row[s].receipt

\* Only a landing, a registration, a request and a matching reconciliation
\* touch the sums.
LEMMA QuietSteps ==
  ASSUME StateInv, [Next]_vars,
         \A s \in Settlements : ~Land(s) /\ ~Register(s) /\ ~BuildRequest(s) /\ ~ReconcileMatch(s)
  PROVE  Quiet
<1>0. channel.activated \in Nat /\ channel.activated >= channel.activated
  BY ChannelTypes DEF StateInv, TypeOK
<1>1. CASE UNCHANGED vars
  BY <1>1, <1>0 DEF vars, Quiet, Landed, Pending
<1>2. CASE Tick
  BY <1>2, <1>0 DEF Tick, Quiet, Landed, Pending
<1>3. ASSUME NEW total \in Activations, Activate(total) PROVE Quiet
  <2>1. channel \in Channels /\ channel.sequence + 1 \in Nat /\ total \in Nat
    BY ConstantTypes, ChannelTypes DEF StateInv, TypeOK
  <2>2. channel' = ActivatedBy(channel, channel.sequence + 1, total, channel.sequence + 1)
    BY <1>3 DEF Activate
  <2>3. channel'.settled = channel.settled /\ channel'.activated = total
    BY <2>1, <2>2, ActivatedByFields
  <2> QED
    BY <1>3, <1>0, <2>1, <2>3 DEF Activate, Quiet, Landed, Pending
<1>4. ASSUME NEW s \in Settlements, Deliver(s) PROVE Quiet
  <2>1. PICK verdict \in {"accepted", "refused"} : exec' = [exec EXCEPT ![s] = verdict]
    BY <1>4 DEF Deliver
  <2>2. Landed' = Landed /\ Pending' \subseteq Pending
    BY <1>4, <2>1 DEF Deliver, Landed, Pending, StateInv, TypeOK
  <2> QED
    BY <1>4, <1>0, <2>2 DEF Deliver, Quiet
<1>5. ASSUME NEW s \in Settlements, Drop(s) PROVE Quiet
  <2>1. Landed' = Landed /\ Pending' \subseteq Pending
    BY <1>5 DEF Drop, Landed, Pending, StateInv, TypeOK
  <2> QED
    BY <1>5, <1>0, <2>1 DEF Drop, Quiet
<1>6. ASSUME NEW s \in Settlements, CommitExecution(s) PROVE Quiet
  <2>1. row \in [Settlements -> Rows] /\ row[s].state # "absent"
    BY <1>6 DEF CommitExecution, StateInv, TypeOK
  <2>2. /\ \A r \in Settlements : r # s => row'[r] = row[r]
        /\ row'[s].receipt = row[s].receipt
    BY <1>6, <2>1 DEF CommitExecution, SetState, Rows
  <2> QED
    BY <1>6, <2>1, <2>2, <1>0 DEF CommitExecution, Quiet, Landed, Pending
<1>7. ASSUME NEW s \in Settlements, RecordAuthorization(s) PROVE Quiet
  <2>1. row \in [Settlements -> Rows] /\ row[s].state # "absent"
    BY <1>7 DEF RecordAuthorization, StateInv, TypeOK
  <2>2. /\ \A r \in Settlements : r # s => row'[r] = row[r]
        /\ row'[s].receipt = row[s].receipt
    BY <1>7, <2>1 DEF RecordAuthorization, SetState, Rows
  <2> QED
    BY <1>7, <2>1, <2>2, <1>0 DEF RecordAuthorization, Quiet, Landed, Pending
<1>8. ASSUME NEW s \in Settlements, SubmitIntent(s) PROVE Quiet
  <2>1. row \in [Settlements -> Rows] /\ row[s].state # "absent"
    BY <1>8 DEF SubmitIntent, StateInv, TypeOK
  <2>2. /\ \A r \in Settlements : r # s => row'[r] = row[r]
        /\ row'[s].receipt = row[s].receipt
    BY <1>8, <2>1 DEF SubmitIntent, SetState, Rows
  <2> QED
    BY <1>8, <2>1, <2>2, <1>0 DEF SubmitIntent, Quiet, Landed, Pending
<1>9. ASSUME NEW s \in Settlements, SubmitReturn(s) PROVE Quiet
  <2>1. row \in [Settlements -> Rows] /\ row[s].state # "absent"
    BY <1>9 DEF SubmitReturn, StateInv, TypeOK
  <2>2. /\ \A r \in Settlements : r # s => row'[r] = row[r]
        /\ row'[s].receipt = row[s].receipt
    BY <1>9, <2>1 DEF SubmitReturn, Rows
  <2> QED
    BY <1>9, <2>1, <2>2, <1>0 DEF SubmitReturn, Quiet, Landed, Pending
<1>10. ASSUME NEW s \in Settlements, SubmitCrash(s) PROVE Quiet
  BY <1>10, <1>0 DEF SubmitCrash, Quiet, Landed, Pending
<1>11. ASSUME NEW s \in Settlements, NEW target \in States, RecoverAsk(s, target) PROVE Quiet
  <2>1. Landed' = Landed /\ Pending' \subseteq Pending
    BY <1>11 DEF RecoverAsk, Landed, Pending, StateInv, TypeOK
  <2> QED
    BY <1>11, <1>0, <2>1 DEF RecoverAsk, Quiet
<1>12. ASSUME NEW s \in Settlements, NEW target \in States, RecoverWrite(s, target) PROVE Quiet
  <2>1. row \in [Settlements -> Rows] /\ row[s].state # "absent"
    BY <1>12 DEF RecoverWrite, RecoveryInv, Unsent, StateInv, TypeOK
  <2>2. /\ \A r \in Settlements : r # s => row'[r] = row[r]
        /\ row'[s].receipt = row[s].receipt
    BY <1>12, <2>1 DEF RecoverWrite, Rows
  <2> QED
    BY <1>12, <2>1, <2>2, <1>0 DEF RecoverWrite, Quiet, Landed, Pending
<1>13. ASSUME NEW s \in Settlements, DivergenceReported(s) PROVE Quiet
  BY <1>13, <1>0 DEF DivergenceReported, Quiet, Landed, Pending
<1>14. ASSUME NEW s \in Settlements, ReconcileMismatch(s) PROVE Quiet
  <2>1. row \in [Settlements -> Rows] /\ row[s].state # "absent"
    BY <1>14 DEF ReconcileMismatch, ReconcilableStates, StateInv, TypeOK
  <2>2. /\ \A r \in Settlements : r # s => row'[r] = row[r]
        /\ row'[s].receipt = row[s].receipt
    BY <1>14, <2>1 DEF ReconcileMismatch, SetState, Rows
  <2> QED
    BY <1>14, <2>1, <2>2, <1>0 DEF ReconcileMismatch, Quiet, Landed, Pending
<1>15. ASSUME NEW s \in Settlements, ReconcileDivergent(s) PROVE Quiet
  <2>1. row \in [Settlements -> Rows] /\ row[s].state # "absent"
    BY <1>15 DEF ReconcileDivergent, ReconcilableStates, StateInv, TypeOK
  <2>2. /\ \A r \in Settlements : r # s => row'[r] = row[r]
        /\ row'[s].receipt = row[s].receipt
    BY <1>15, <2>1 DEF ReconcileDivergent, SetState, Rows
  <2> QED
    BY <1>15, <2>1, <2>2, <1>0 DEF ReconcileDivergent, Quiet, Landed, Pending
<1> QED
  BY <1>1, <1>2, <1>3, <1>4, <1>5, <1>6, <1>7, <1>8, <1>9, <1>10, <1>11, <1>12, <1>13, <1>14, <1>15 DEF Next

-----------------------------------------------------------------------------
(* Every transfer that took effect is counted once.                        *)

\* Sets of settlements are finite and amount to natural numbers.
LEMMA SettlementSets ==
  ASSUME NEW S \in SUBSET Settlements
  PROVE  /\ IsFiniteSet(S) /\ AmountOf(S, Amount) \in Nat
         /\ \A s \in S : Amount[s] \in Nat
<1>1. IsFiniteSet(S)
  BY ConstantTypes, FS_Subset
<1>2. \A s \in S : Amount[s] \in Nat
  BY ConstantTypes
<1> QED
  BY <1>1, <1>2, AmountType

\* What a transfer that takes effect changes.
LEMMA LandFacts ==
  ASSUME StateInv, EffectInv, NEW s \in Settlements, Land(s)
  PROVE  /\ s \in Settlements \ Landed /\ Landed' = Landed \cup {s}
         /\ s \in Pending /\ Pending' = Pending \ {s}
         /\ effect'[s] \in [settled : Nat, vault : Int]
         /\ effect'[s].settled = channel.settled
         /\ \A r \in Settlements : r # s => effect'[r] = effect[r] /\ exec'[r] = exec[r]
         /\ exec'[s] = "landed"
         /\ channel.settled \in Nat /\ channel'.settled = channel.settled + Amount[s]
         /\ channel'.activated = channel.activated
         /\ Amount[s] \in Nat /\ Amount[s] > 0
         /\ UNCHANGED <<request, row>>
<1>1. channel \in Channels /\ Amount[s] \in Nat /\ Amount[s] > 0
  BY ConstantTypes DEF StateInv, TypeOK
<1>0. /\ channel.settled \in Nat /\ VaultBalance(channel) \in Int
      /\ Amount[s] \in Int /\ channel.settled + Amount[s] \in Nat
  BY <1>1, ChannelTypes
<1>2. /\ channel.settled \in Nat /\ VaultBalance(channel) \in Int
      /\ channel'.settled = channel.settled + Amount[s]
      /\ channel'.activated = channel.activated
  BY <1>0, <1>1, SettledFields DEF Land
<1>3. /\ exec[s] = "accepted" /\ exec'[s] = "landed" /\ row' = row
      /\ \A r \in Settlements : r # s => exec'[r] = exec[r]
  BY DEF Land, StateInv, TypeOK
<1>4. row[s].state # "absent"
  BY <1>3 DEF StateInv, RowInv, Unsent
<1>5. /\ s \in Settlements \ Landed /\ Landed' = Landed \cup {s}
      /\ s \in Pending /\ Pending' = Pending \ {s}
  BY <1>3, <1>4 DEF Landed, Pending
<1>6. /\ effect'[s] = [settled |-> channel.settled, vault |-> VaultBalance(channel)]
      /\ \A r \in Settlements : r # s => effect'[r] = effect[r]
  BY DEF Land, StateInv, TypeOK
<1> QED
  BY <1>1, <1>2, <1>3, <1>5, <1>6 DEF Land

\* A landing takes the next stretch of the settled total; no step moves one.
LEMMA EffectStep ==
  ASSUME StateInv, EffectInv, [Next]_vars
  PROVE  EffectInv'
<1>1. ASSUME NEW s \in Settlements, Land(s) PROVE EffectInv'
  <2>1. ASSUME NEW r \in Settlements
        PROVE  /\ exec'[r] # "landed" => effect'[r] = None
               /\ exec'[r] = "landed" =>
                    /\ effect'[r] \in [settled : Nat, vault : Int]
                    /\ effect'[r].settled + Amount[r] <= channel'.settled
    <3>1. CASE r = s
      BY <1>1, <3>1, LandFacts
    <3>2. CASE r # s
      <4>1. Amount[r] \in Nat
        BY ConstantTypes
      <4> QED
        BY <1>1, <3>2, <4>1, LandFacts DEF EffectInv
    <3> QED
      BY <3>1, <3>2
  <2>2. ASSUME NEW r \in Landed', NEW q \in Landed', r # q
        PROVE  \/ effect'[r].settled + Amount[r] <= effect'[q].settled
               \/ effect'[q].settled + Amount[q] <= effect'[r].settled
    <3>1. CASE r = s
      BY <1>1, <2>2, <3>1, LandFacts DEF EffectInv, Landed
    <3>2. CASE q = s
      BY <1>1, <2>2, <3>2, LandFacts DEF EffectInv, Landed
    <3>3. CASE r # s /\ q # s
      BY <1>1, <2>2, <3>3, LandFacts DEF EffectInv, Landed
    <3> QED
      BY <3>1, <3>2, <3>3
  <2> QED
    BY <2>1, <2>2 DEF EffectInv
<1>2. ASSUME UNCHANGED <<exec, effect, channel>> PROVE EffectInv'
  BY <1>2 DEF EffectInv, Landed
<1>3. CASE Quiet
  <2>1. /\ \A s \in Settlements : exec'[s] = "landed" <=> exec[s] = "landed"
        /\ Landed' = Landed /\ effect' = effect /\ channel'.settled = channel.settled
    BY <1>3 DEF Quiet, Landed
  <2> QED
    BY <2>1 DEF EffectInv
<1> QED
  BY <1>1, <1>2, <1>3, QuietSteps DEF Register, BuildRequest, ReconcileMatch

\* A snapshot taken now counts all transfers that took effect so far.
LEMMA AllLandedBelow ==
  ASSUME StateInv, EffectInv
  PROVE  LandedBelow(channel.settled) = Landed
<1>1. ASSUME NEW s \in Landed PROVE effect[s].settled < channel.settled
  <2>1. /\ effect[s].settled \in Nat /\ effect[s].settled + Amount[s] <= channel.settled
        /\ Amount[s] \in Nat /\ Amount[s] > 0 /\ channel.settled \in Nat
    BY ConstantTypes, ChannelTypes DEF EffectInv, Landed, StateInv, TypeOK
  <2> QED
    BY <2>1
<1> QED
  BY <1>1 DEF LandedBelow

\* The totals of the account and of the snapshots keep counting the landings.
LEMMA CountStep ==
  ASSUME StateInv, EffectInv, CountInv, [Next]_vars
  PROVE  CountInv'
<1>0. /\ channel.settled \in Nat /\ channel.activated \in Nat /\ Start.settled \in Nat
      /\ \A s \in Settlements : request[s] # None =>
           request[s].settled \in Nat /\ request[s].activated \in Nat
  BY ConstantTypes, ChannelTypes DEF StateInv, TypeOK
<1>1. ASSUME NEW s \in Settlements, Land(s) PROVE CountInv'
  <2>1. AmountOf(Landed', Amount) = AmountOf(Landed, Amount) + Amount[s]
    <3>1. IsFiniteSet(Landed) /\ s \notin Landed /\ \A r \in Landed \cup {s} : Amount[r] \in Nat
      BY <1>1, LandFacts, SettlementSets DEF Landed
    <3>2. Landed' = Landed \cup {s}
      BY <1>1, LandFacts
    <3> QED
      BY <3>1, <3>2, AmountAdd
  <2>2. AmountOf(Landed, Amount) \in Nat
    BY SettlementSets DEF Landed
  <2>3. channel'.settled = Start.settled + AmountOf(Landed', Amount)
    BY <1>0, <1>1, <2>1, <2>2, LandFacts DEF CountInv
  <2>4. ASSUME NEW r \in Settlements, request'[r] # None
        PROVE  SnapshotCounted(request[r])'
    <3>1. request' = request /\ SnapshotCounted(request[r]) /\ request[r].settled \in Nat
      BY <1>0, <1>1, <2>4, LandFacts DEF CountInv
    <3>2. ASSUME NEW q \in Landed'
          PROVE  q \in Landed /\ effect[q].settled < request[r].settled
                   <=> effect'[q].settled < request[r].settled
      <4>1. CASE q = s
        BY <1>0, <1>1, <3>1, <4>1, LandFacts DEF SnapshotCounted
      <4>2. CASE q # s
        BY <1>1, <3>2, <4>2, LandFacts DEF Landed
      <4> QED
        BY <4>1, <4>2
    <3>3. LandedBelow(request[r].settled)' = LandedBelow(request[r].settled)
      BY <1>1, <3>1, <3>2, LandFacts DEF LandedBelow
    <3>4. /\ channel'.settled >= channel.settled /\ channel'.settled \in Nat
          /\ channel'.activated = channel.activated
      BY <1>1, LandFacts
    <3> QED
      BY <1>0, <2>4, <3>1, <3>3, <3>4 DEF SnapshotCounted
  <2> QED
    BY <2>3, <2>4 DEF CountInv
<1>2. ASSUME NEW s \in Settlements, BuildRequest(s) PROVE CountInv'
  <2>1. /\ Landed' = Landed /\ channel' = channel /\ effect' = effect
        /\ request'[s] = channel
        /\ \A r \in Settlements : r # s => request'[r] = request[r]
    BY <1>2 DEF BuildRequest, Landed, StateInv, TypeOK
  <2>3. channel'.settled = Start.settled + AmountOf(Landed', Amount)
    BY <2>1 DEF CountInv
  <2>4. ASSUME NEW r \in Settlements, request'[r] # None
        PROVE  SnapshotCounted(request[r])'
    <3>0. LandedBelow(request[r].settled)' = LandedBelow(request'[r].settled)
      BY <2>1 DEF LandedBelow
    <3>1. CASE r = s
      BY <1>0, <2>1, <3>0, <3>1, AllLandedBelow DEF CountInv, SnapshotCounted
    <3>2. CASE r # s
      BY <2>1, <2>4, <3>0, <3>2 DEF CountInv, SnapshotCounted
    <3> QED
      BY <3>1, <3>2
  <2> QED
    BY <2>3, <2>4 DEF CountInv
<1>3. ASSUME Landed' = Landed, UNCHANGED <<request, effect>>,
             channel'.settled = channel.settled,
             channel'.activated \in Nat, channel'.activated >= channel.activated
      PROVE  CountInv'
  <2>1. ASSUME NEW r \in Settlements, request'[r] # None
        PROVE  SnapshotCounted(request[r])'
    <3>1. LandedBelow(request[r].settled)' = LandedBelow(request[r].settled)
      BY <1>3 DEF LandedBelow
    <3> QED
      BY <1>0, <1>3, <2>1, <3>1 DEF CountInv, SnapshotCounted
  <2> QED
    BY <1>3, <2>1 DEF CountInv
<1>4. channel'.activated \in Nat
  BY StateStep, ChannelTypes DEF StateInv, TypeOK
<1>5. CASE Quiet
  BY <1>3, <1>4, <1>5 DEF Quiet
<1>6. ASSUME NEW s \in Settlements, Register(s) \/ ReconcileMatch(s) PROVE CountInv'
  BY <1>0, <1>3, <1>4, <1>6 DEF Register, ReconcileMatch, Landed
<1> QED
  BY <1>1, <1>2, <1>5, <1>6, QuietSteps

\* A receipt is written only for a landing that found what was requested.
LEMMA ReceiptStep ==
  ASSUME StateInv, EffectInv, ReceiptInv, [Next]_vars
  PROVE  ReceiptInv'
<1>1. ASSUME NEW s \in Settlements, Land(s) PROVE ReceiptInv'
  <2>1. \A r \in Settlements : row[r].receipt => r # s
    BY <1>1 DEF ReceiptInv, Land
  <2> QED
    BY <1>1, <2>1, LandFacts DEF ReceiptInv
<1>2. ASSUME NEW s \in Settlements, BuildRequest(s) PROVE ReceiptInv'
  <2>1. /\ ~row[s].receipt
        /\ \A r \in Settlements : r # s => request'[r] = request[r]
        /\ UNCHANGED <<row, exec, effect>>
    BY <1>2 DEF BuildRequest, StateInv, TypeOK, RowInv
  <2> QED
    BY <2>1 DEF ReceiptInv
<1>3. ASSUME NEW s \in Settlements, ReconcileMatch(s) PROVE ReceiptInv'
  <2>1. /\ row[s].signature
        /\ effect[s].settled = request[s].settled
        /\ effect[s].vault = VaultBalance(request[s])
    BY <1>3 DEF ReconcileMatch, ObservationMatches
  <2>2. exec[s] = "landed"
    BY <2>1 DEF StateInv, RowInv
  <2>3. /\ \A r \in Settlements : r # s => row'[r] = row[r]
        /\ UNCHANGED <<request, exec, effect>>
    BY <1>3 DEF ReconcileMatch, StateInv, TypeOK
  <2> QED
    BY <2>1, <2>2, <2>3 DEF ReceiptInv
<1>4. CASE Quiet
  <2>1. \A s \in Settlements : exec'[s] = "landed" <=> exec[s] = "landed"
    BY <1>4 DEF Quiet, Landed
  <2> QED
    BY <1>4, <2>1 DEF Quiet, ReceiptInv
<1>5. ASSUME NEW s \in Settlements, Register(s) PROVE ReceiptInv'
  <2>1. /\ row \in [Settlements -> Rows]
        /\ row' = [row EXCEPT ![s].state = "validated", ![s].updated = now]
        /\ UNCHANGED <<request, exec, effect>>
    BY <1>5 DEF Register, StateInv, TypeOK
  <2>2. \A r \in Settlements : row'[r].receipt = row[r].receipt
    BY <2>1 DEF Rows
  <2> QED
    BY <2>1, <2>2 DEF ReceiptInv
<1> QED
  BY <1>1, <1>2, <1>3, <1>4, <1>5, QuietSteps

-----------------------------------------------------------------------------
(* Reservations.                                                           *)

\* What register_request compares with the activated right covers all that was
\* transferred and all that may still be: the snapshot counts the transfers
\* behind completed settlements, the reservations count the others.
LEMMA ReservedCovers ==
  ASSUME StateInv, EffectInv, CountInv, ReceiptInv,
         NEW s \in Settlements, request[s] # None, FreshSnapshot(request[s])
  PROVE  channel.settled + AmountOf(Pending, Amount) <= request[s].settled + Reserved
<1> DEFINE open == {r \in Settlements : row[r].state \notin ReleasingStates}
           below == LandedBelow(request[s].settled)
<1>1. /\ channel.settled = Start.settled + AmountOf(Landed, Amount)
      /\ request[s].settled = Start.settled + AmountOf(below, Amount)
      /\ request[s].settled \in Nat /\ Start.settled \in Nat
  BY ConstantTypes, ChannelTypes DEF CountInv, SnapshotCounted, StateInv, TypeOK
<1>2. Pending \subseteq open
  <2> SUFFICES ASSUME NEW r \in Pending, row[r].state \in ReleasingStates PROVE FALSE
    BY DEF Pending
  <2> QED
    BY DEF Pending, ReleasingStates, StateInv, RowInv, ReceiptInv
<1>3. Landed \ open \subseteq below
  <2> SUFFICES ASSUME NEW r \in Landed, row[r].state \in ReleasingStates PROVE r \in below
    BY DEF Landed
  <2>1. row[r].state = "completed" /\ row[r].receipt
    BY DEF Landed, ReleasingStates, StateInv, RowInv, Unsent
  <2>2. effect[r].settled = request[r].settled /\ effect[r].settled \in Nat
    BY <2>1 DEF Landed, ReceiptInv, EffectInv
  <2>3. request[s].settled >= request[r].settled + Amount[r]
    BY <2>1 DEF Landed, FreshSnapshot, SettledAfter
  <2>4. Amount[r] \in Nat /\ Amount[r] > 0
    BY ConstantTypes DEF Landed
  <2> QED
    BY <1>1, <2>2, <2>3, <2>4 DEF LandedBelow
<1>4. /\ Landed \in SUBSET Settlements /\ Pending \in SUBSET Settlements
      /\ open \in SUBSET Settlements /\ below \in SUBSET Settlements
      /\ Landed \cap Pending = {}
  BY DEF Landed, Pending, LandedBelow
<1>5. Reserved = AmountOf(open, Amount)
  BY DEF Reserved
<1> HIDE DEF open, below
<1> DEFINE landedOpen == Landed \cap open
           rest == Landed \ open
<1>6. /\ landedOpen \in SUBSET Settlements /\ rest \in SUBSET Settlements
      /\ landedOpen \cap rest = {} /\ Landed = landedOpen \cup rest
      /\ Pending \cap landedOpen = {} /\ Pending \cup landedOpen \in SUBSET open
      /\ rest \in SUBSET below
  BY <1>2, <1>3, <1>4
<1> HIDE DEF landedOpen, rest
<1>7. AmountOf(Landed, Amount) = AmountOf(landedOpen, Amount) + AmountOf(rest, Amount)
  BY <1>6, SettlementSets, AmountDisjoint
<1>8. AmountOf(Pending \cup landedOpen, Amount) = AmountOf(Pending, Amount) + AmountOf(landedOpen, Amount)
  BY <1>4, <1>6, SettlementSets, AmountDisjoint
<1>9. AmountOf(Pending \cup landedOpen, Amount) <= AmountOf(open, Amount)
  BY <1>4, <1>6, SettlementSets, AmountMonotone
<1>10. AmountOf(rest, Amount) <= AmountOf(below, Amount)
  BY <1>4, <1>6, SettlementSets, AmountMonotone
<1>11. /\ AmountOf(Pending, Amount) \in Nat /\ AmountOf(landedOpen, Amount) \in Nat
       /\ AmountOf(rest, Amount) \in Nat /\ AmountOf(below, Amount) \in Nat
       /\ AmountOf(open, Amount) \in Nat
  BY <1>4, <1>6, SettlementSets
<1> QED
  BY <1>1, <1>5, <1>7, <1>8, <1>9, <1>10, <1>11

\* No step, a registration over a stale snapshot included, promises a unit
\* that is promised or spent already.
LEMMA CoveredStep ==
  ASSUME IInv, [Next]_vars
  PROVE  ReservationsCovered'
<1> USE DEF IInv
<1>0. /\ channel.settled \in Nat /\ channel.activated \in Nat
      /\ Pending \in SUBSET Settlements /\ AmountOf(Pending, Amount) \in Nat
      /\ channel.settled + AmountOf(Pending, Amount) <= channel.activated
  BY ChannelTypes, SettlementSets DEF StateInv, TypeOK, Pending, ReservationsCovered
<1>1. ASSUME NEW s \in Settlements, Land(s) PROVE ReservationsCovered'
  <2>1. /\ s \in Pending /\ Pending' = Pending \ {s} /\ Amount[s] \in Nat
        /\ channel'.settled = channel.settled + Amount[s]
        /\ channel'.activated = channel.activated
    BY <1>1, LandFacts
  <2>2. IsFiniteSet(Pending) /\ \A r \in Pending : Amount[r] \in Nat
    BY <1>0, SettlementSets
  <2>3. AmountOf(Pending \ {s}, Amount) = AmountOf(Pending, Amount) - Amount[s]
    BY <2>1, <2>2, AmountRemove
  <2>4. AmountOf(Pending', Amount) = AmountOf(Pending, Amount) - Amount[s]
    BY <2>1, <2>3
  <2>5. channel'.settled + AmountOf(Pending', Amount) <= channel'.activated
    BY <1>0, <2>1, <2>4
  <2> QED
    BY <2>5 DEF ReservationsCovered, Pending
<1>2. ASSUME NEW s \in Settlements, Register(s) PROVE ReservationsCovered'
  <2>1. /\ request[s] # None /\ FreshSnapshot(request[s])
        /\ request[s].settled + Reserved + Amount[s] <= request[s].activated
        /\ row[s].state = "absent" /\ channel' = channel /\ exec' = exec
    BY <1>2 DEF Register, ObligationFree
  <2>2. channel.settled + AmountOf(Pending, Amount) <= request[s].settled + Reserved
    BY <2>1, ReservedCovers
  <2>3. request[s].activated <= channel.activated /\ request[s].activated \in Nat /\ request[s].settled \in Nat
    BY <2>1, ChannelTypes DEF CountInv, SnapshotCounted, StateInv, TypeOK
  <2>4. Pending' \subseteq Pending \cup {s} /\ s \notin Pending
    BY <1>2, <2>1 DEF Register, Pending, StateInv, TypeOK
  <2>5. Amount[s] \in Nat /\ Reserved \in Nat
    BY ConstantTypes, SettlementSets DEF Reserved
  <2>6. AmountOf(Pending \cup {s}, Amount) = AmountOf(Pending, Amount) + Amount[s]
    BY <1>0, <2>4, <2>5, SettlementSets, AmountAdd
  <2>7. AmountOf(Pending', Amount) <= AmountOf(Pending \cup {s}, Amount)
    BY <1>0, <2>4, SettlementSets, AmountMonotone
  <2>8. AmountOf(Pending', Amount) \in Nat
    BY <1>0, <2>4, SettlementSets
  <2>9. channel'.settled + AmountOf(Pending', Amount) <= channel'.activated
    BY <1>0, <2>1, <2>2, <2>3, <2>5, <2>6, <2>7, <2>8
  <2> QED
    BY <2>9 DEF ReservationsCovered, Pending
<1>3. ASSUME Pending' \subseteq Pending, channel'.settled = channel.settled,
             channel'.activated >= channel.activated
      PROVE  ReservationsCovered'
  <2>1. AmountOf(Pending', Amount) <= AmountOf(Pending, Amount) /\ AmountOf(Pending', Amount) \in Nat
    BY <1>0, <1>3, SettlementSets, AmountMonotone
  <2>2. channel'.activated \in Nat
    BY StateStep, ChannelTypes DEF StateInv, TypeOK
  <2>3. channel'.settled + AmountOf(Pending', Amount) <= channel'.activated
    BY <1>0, <1>3, <2>1, <2>2
  <2> QED
    BY <2>3 DEF ReservationsCovered, Pending
<1>4. CASE Quiet
  BY <1>3, <1>4 DEF Quiet
<1>5. ASSUME NEW s \in Settlements, BuildRequest(s) PROVE ReservationsCovered'
  BY <1>5 DEF BuildRequest, ReservationsCovered
<1>6. ASSUME NEW s \in Settlements, ReconcileMatch(s) PROVE ReservationsCovered'
  <2>1. Pending' \subseteq Pending
    BY <1>6 DEF ReconcileMatch, ReconcilableStates, Pending, StateInv, TypeOK
  <2> QED
    BY <1>0, <1>3, <1>6, <2>1 DEF ReconcileMatch
<1> QED
  BY <1>1, <1>2, <1>4, <1>5, <1>6, QuietSteps

\* The first state satisfies the whole invariant.
LEMMA InductiveInit == Init => IInv
<1> SUFFICES ASSUME Init PROVE IInv
  OBVIOUS
<1>1. Landed = {} /\ Pending = {}
  BY DEF Init, Landed, Pending, NoRow
<1>2. Start.settled \in Nat /\ Start.activated \in Nat /\ Start.settled <= Start.activated
  BY ConstantTypes, ChannelTypes, SettlementAssumption DEF ValidChannel, AccountingValid
<1>3. EffectInv
  BY <1>1 DEF Init, EffectInv
<1>4. CountInv
  BY <1>1, <1>2, AmountEmpty DEF Init, CountInv
<1>5. ReceiptInv
  BY DEF Init, ReceiptInv, NoRow
<1>6. ReservationsCovered
  BY <1>1, <1>2, AmountEmpty DEF Init, ReservationsCovered, Pending
<1> QED
  BY <1>3, <1>4, <1>5, <1>6, StateInit DEF IInv

\* Every step keeps the whole invariant.
LEMMA InductiveStep == IInv /\ [Next]_vars => IInv'
BY StateStep, EffectStep, CountStep, ReceiptStep, CoveredStep DEF IInv

\* register_request never promises a unit of the activated right twice: what
\* was transferred and what any registered settlement may still transfer fit
\* into it, for snapshots of any age and recoveries that are written late.
THEOREM ReservationsAreCovered == Spec => []ReservationsCovered
<1>1. IInv => ReservationsCovered
  BY DEF IInv
<1> QED
  BY <1>1, InductiveInit, InductiveStep, PTL DEF Spec

\* A receipt of reconcile states the totals its transfer found, and no two
\* receipts count the same stretch of the settled total.
THEOREM ReceiptsAreExact == Spec => []ReceiptsExact
<1>1. IInv => ReceiptsExact
  <2> SUFFICES ASSUME IInv PROVE ReceiptsExact
    OBVIOUS
  <2>1. ASSUME NEW s \in Settlements, NEW r \in Settlements,
               row[s].receipt, row[r].receipt, s # r
        PROVE  SettledAfter(s) <= request[r].settled \/ SettledAfter(r) <= request[s].settled
    BY <2>1 DEF IInv, ReceiptInv, EffectInv, Landed, SettledAfter
  <2> QED
    BY <2>1 DEF IInv, ReceiptInv, ReceiptsExact
<1> QED
  BY <1>1, InductiveInit, InductiveStep, PTL DEF Spec

=============================================================================

--------------------------- MODULE FailureLabProofs ---------------------------
(***************************************************************************)
(* Proofs about FailureLab for any number of requests, obligations,        *)
(* signatures and workers: type correctness, at most one provider call per *)
(* execution, safe rematerialization, and the refinement of EconomicEffect.*)
(***************************************************************************)
EXTENDS FailureLab, FiniteSetTheorems, TLAPS

\* Transition leaves every table alone or moves one row along its edge.
LEMMA TransitionCases ==
  ASSUME NEW r, NEW from, NEW to, NEW type, Transition(r, from, to, type)
  PROVE  \/ /\ row[r].state = from
            /\ row' = [row EXCEPT ![r] = [@ EXCEPT !.state = to]]
            /\ events' = [events EXCEPT ![r] = Append(@, type)]
         \/ /\ row' = row
            /\ events' = events
BY DEF Transition, Append_Event

\* The updates of a row keep it well formed.
LEMMA RowUpdates ==
  ASSUME NEW q \in Rows
  PROVE  /\ \A st \in States : [q EXCEPT !.state = st] \in Rows
         /\ \A st \in States, s \in Signatures :
              [q EXCEPT !.state = st, !.signature = s] \in Rows
         /\ \A st \in States :
              [q EXCEPT !.state = st, !.broadcasts = q.broadcasts + 1] \in Rows
         /\ [q EXCEPT !.recoveries = q.recoveries + 1] \in Rows
         /\ \A o \in Obligations :
              [NoRow EXCEPT !.state = "authorized", !.obligation = o] \in Rows
<1>1. \A st \in States : [q EXCEPT !.state = st] \in Rows
  BY DEF Rows
<1>2. \A st \in States, s \in Signatures :
        [q EXCEPT !.state = st, !.signature = s] \in Rows
  BY DEF Rows
<1>3. ASSUME NEW st \in States
      PROVE  [q EXCEPT !.state = st, !.broadcasts = q.broadcasts + 1] \in Rows
  <2>1. q.broadcasts + 1 \in Nat
    BY DEF Rows
  <2>2. \A n \in Nat : [q EXCEPT !.state = st, !.broadcasts = n] \in Rows
    BY DEF Rows
  <2> QED
    BY <2>1, <2>2
<1>4. [q EXCEPT !.recoveries = q.recoveries + 1] \in Rows
  BY DEF Rows
<1>5. \A o \in Obligations :
        [NoRow EXCEPT !.state = "authorized", !.obligation = o] \in Rows
  BY DEF Rows, NoRow, States
<1> QED
  BY <1>1, <1>2, <1>3, <1>4, <1>5

\* The calls a worker may be in.
LEMMA CallFacts ==
  /\ Idle \in Calls
  /\ \A r \in Requests :
       /\ [pc |-> "calling", request |-> r, result |-> None] \in Calls
       /\ [pc |-> "observing", request |-> r, result |-> None] \in Calls
       /\ \A res \in {"success", "unavailable", "unknown"} :
            [pc |-> "answered", request |-> r, result |-> res] \in Calls
       /\ \A res \in {"unavailable", "unknown", "confirmed", "not_found"} :
            [pc |-> "observed", request |-> r, result |-> res] \in Calls
  /\ \A c \in Calls :
       /\ c.pc \in {"idle", "calling", "answered", "observing", "observed"}
       /\ c.pc # "idle" => c.request \in Requests
       /\ c.pc = "answered" => c.result \in {"success", "unavailable", "unknown"}
BY DEF Calls, Idle

\* The events the journal writes, and the states they lead to.
LEMMA KnownEvents ==
  {"execution_registered", "signature_persisted", "broadcast_intent_persisted",
   "blockhash_expired_before_broadcast", "broadcast_outcome_unknown",
   "broadcast_rejected_before_acceptance", "broadcast_confirmed",
   "recovery_confirmed_signature", "recovery_source_unavailable",
   "recovery_outcome_still_unknown"} \subseteq EventTypes
BY DEF EventTypes, StateAfter

\* A step that moves or keeps a row by _transition keeps rows and events typed.
LEMMA TransitionType ==
  ASSUME TypeOK, NEW r \in Requests, NEW from, NEW to \in States, NEW type \in EventTypes,
         Transition(r, from, to, type)
  PROVE  row' \in [Requests -> Rows] /\ events' \in [Requests -> Seq(EventTypes)]
<1>1. row \in [Requests -> Rows] /\ events \in [Requests -> Seq(EventTypes)]
  BY DEF TypeOK
<1>2. [row[r] EXCEPT !.state = to] \in Rows
  BY <1>1, RowUpdates
<1>3. Append(events[r], type) \in Seq(EventTypes)
  BY <1>1
<1> QED
  BY <1>1, <1>2, <1>3, TransitionCases

\* The tables and the live calls keep their types in every step.
LEMMA TypeStep == TypeOK /\ [Next]_vars => TypeOK'
<1> SUFFICES ASSUME TypeOK, [Next]_vars PROVE TypeOK'
  OBVIOUS
<1>t. /\ row \in [Requests -> Rows]
      /\ fresh \subseteq Requests
      /\ events \in [Requests -> Seq(EventTypes)]
      /\ effects \in [Obligations -> Signatures \cup {None}]
      /\ calls \in [Requests -> Nat]
      /\ worker \in [Workers -> Calls]
  BY DEF TypeOK
<1>a. ASSUME NEW r \in Requests, NEW type \in EventTypes
      PROVE  [events EXCEPT ![r] = Append(@, type)] \in [Requests -> Seq(EventTypes)]
  BY <1>t
<1>1. ASSUME NEW r \in Requests, NEW o \in Obligations, NEW valid \in BOOLEAN,
             Register(r, o, valid)
      PROVE  TypeOK'
  <2>1. row' \in [Requests -> Rows]
    BY <1>1, <1>t, RowUpdates DEF Register
  <2>2. events' \in [Requests -> Seq(EventTypes)]
    BY <1>1, <1>a, KnownEvents DEF Register, Append_Event
  <2> QED
    BY <1>1, <1>t, <2>1, <2>2 DEF Register, TypeOK
<1>2. ASSUME NEW r \in Requests, NEW s \in Signatures, PersistSignature(r, s)
      PROVE  TypeOK'
  <2>1. row' \in [Requests -> Rows]
    BY <1>2, <1>t, RowUpdates DEF PersistSignature, States
  <2>2. events' \in [Requests -> Seq(EventTypes)]
    BY <1>2, <1>a, KnownEvents DEF PersistSignature, Append_Event
  <2> QED
    BY <1>2, <1>t, <2>1, <2>2 DEF PersistSignature, TypeOK
<1>3. ASSUME NEW r \in Requests, BlockhashExpires(r)
      PROVE  TypeOK'
  BY <1>3, <1>t DEF BlockhashExpires, TypeOK
<1>4. ASSUME NEW w \in Workers, NEW r \in Requests, ExecuteExpired(w, r)
      PROVE  TypeOK'
  <2>1. row' \in [Requests -> Rows]
    BY <1>4, <1>t, RowUpdates DEF ExecuteExpired, States
  <2>2. events' \in [Requests -> Seq(EventTypes)]
    BY <1>4, <1>a, KnownEvents DEF ExecuteExpired, Append_Event
  <2> QED
    BY <1>4, <1>t, <2>1, <2>2 DEF ExecuteExpired, TypeOK
<1>5. ASSUME NEW w \in Workers, NEW r \in Requests, ExecuteIntent(w, r)
      PROVE  TypeOK'
  <2>1. row' \in [Requests -> Rows]
    <3> DEFINE q == [row[r] EXCEPT !.state = "broadcast_in_flight",
                                   !.broadcasts = row[r].broadcasts + 1]
    <3>1. row' = [row EXCEPT ![r] = q]
      BY <1>5 DEF ExecuteIntent
    <3>2. q \in Rows
      BY <1>t, RowUpdates DEF States
    <3> HIDE DEF q
    <3> QED
      BY <1>t, <3>1, <3>2
  <2>2. events' \in [Requests -> Seq(EventTypes)]
    BY <1>5, <1>a, KnownEvents DEF ExecuteIntent, Append_Event
  <2>3. worker' \in [Workers -> Calls]
    BY <1>5, <1>t, CallFacts DEF ExecuteIntent
  <2> QED
    BY <1>5, <1>t, <2>1, <2>2, <2>3 DEF ExecuteIntent, TypeOK
<1>6. ASSUME NEW w \in Workers, NEW r \in Requests, RecoverBegin(w, r)
      PROVE  TypeOK'
  <2>1. row' \in [Requests -> Rows]
    <3> DEFINE q == [row[r] EXCEPT !.recoveries = row[r].recoveries + 1]
    <3>1. row' = [row EXCEPT ![r] = q]
      BY <1>6 DEF RecoverBegin
    <3>2. q \in Rows
      BY <1>t, RowUpdates
    <3> HIDE DEF q
    <3> QED
      BY <1>t, <3>1, <3>2
  <2>3. worker' \in [Workers -> Calls]
    BY <1>6, <1>t, CallFacts DEF RecoverBegin
  <2> QED
    BY <1>6, <1>t, <2>1, <2>3 DEF RecoverBegin, TypeOK
<1>c. ASSUME NEW r \in Requests
      PROVE  [calls EXCEPT ![r] = @ + 1] \in [Requests -> Nat]
  BY <1>t
<1>7. ASSUME NEW w \in Workers, NEW result, BroadcastNoEffect(w, result)
      PROVE  TypeOK'
  <2>1. worker[w].request \in Requests
    BY <1>7, <1>t, CallFacts DEF BroadcastNoEffect
  <2>2. calls' \in [Requests -> Nat]
    BY <1>7, <1>c, <2>1 DEF BroadcastNoEffect
  <2>3. worker' \in [Workers -> Calls]
    BY <1>7, <1>t, <2>1, CallFacts DEF BroadcastNoEffect
  <2> QED
    BY <1>7, <1>t, <2>2, <2>3 DEF BroadcastNoEffect, TypeOK
<1>8. ASSUME NEW w \in Workers, NEW result, BroadcastEffect(w, result)
      PROVE  TypeOK'
  <2>1. worker[w].request \in Requests
    BY <1>8, <1>t, CallFacts DEF BroadcastEffect
  <2>2. effects' \in [Obligations -> Signatures \cup {None}]
    <3>1. row[worker[w].request].signature \in Signatures \cup {None}
      BY <1>t, <2>1 DEF Rows
    <3> QED
      BY <1>8, <1>t, <3>1 DEF BroadcastEffect
  <2>3. worker' \in [Workers -> Calls]
    BY <1>8, <1>t, <2>1, CallFacts DEF BroadcastEffect
  <2>4. calls' \in [Requests -> Nat]
    BY <1>8, <1>c, <2>1 DEF BroadcastEffect
  <2> QED
    BY <1>8, <1>t, <2>2, <2>3, <2>4 DEF BroadcastEffect, TypeOK
<1>9. ASSUME NEW w \in Workers, ExecuteInjectedCrash(w)
      PROVE  TypeOK'
  <2>1. worker[w].request \in Requests
    BY <1>9, <1>t, CallFacts DEF ExecuteInjectedCrash
  <2>2. worker' \in [Workers -> Calls]
    BY <1>9, <1>t, CallFacts DEF ExecuteInjectedCrash
  <2>3. row' \in [Requests -> Rows] /\ events' \in [Requests -> Seq(EventTypes)]
    BY <1>9, <2>1, TransitionType, KnownEvents DEF ExecuteInjectedCrash, States
  <2> QED
    BY <1>9, <1>t, <2>2, <2>3 DEF ExecuteInjectedCrash, TypeOK
<1>10. ASSUME NEW w \in Workers, ExecuteOutcome(w)
       PROVE  TypeOK'
  <2>1. /\ worker[w].request \in Requests
        /\ worker[w].result \in {"success", "unavailable", "unknown"}
    BY <1>10, <1>t, CallFacts DEF ExecuteOutcome
  <2>2. worker' \in [Workers -> Calls]
    BY <1>10, <1>t, CallFacts DEF ExecuteOutcome
  <2>3. OutcomeState(worker[w].result) \in States
    BY <2>1 DEF OutcomeState, States
  <2>4. OutcomeEvent(worker[w].result) \in EventTypes
    BY <2>1, KnownEvents DEF OutcomeEvent
  <2>5. row' \in [Requests -> Rows] /\ events' \in [Requests -> Seq(EventTypes)]
    BY <1>10, <2>1, <2>3, <2>4, TransitionType DEF ExecuteOutcome
  <2> QED
    BY <1>10, <1>t, <2>2, <2>5 DEF ExecuteOutcome, TypeOK
<1>11. ASSUME NEW w \in Workers, RecoverObserve(w)
       PROVE  TypeOK'
  <2>1. worker[w].request \in Requests
    BY <1>11, <1>t, CallFacts DEF RecoverObserve
  <2>2. worker' \in [Workers -> Calls]
    <3>1. PICK seen \in {"unavailable", "unknown", "confirmed", "not_found"} :
            worker' = [worker EXCEPT ![w] =
                         [pc |-> "observed", request |-> worker[w].request, result |-> seen]]
      BY <1>11 DEF RecoverObserve, Observation
    <3> QED
      BY <1>t, <2>1, <3>1, CallFacts
  <2> QED
    BY <1>11, <1>t, <2>2 DEF RecoverObserve, TypeOK
<1>12. ASSUME NEW w \in Workers, RecoverConfirmed(w)
       PROVE  TypeOK'
  <2>1. worker[w].request \in Requests
    BY <1>12, <1>t, CallFacts DEF RecoverConfirmed
  <2>2. worker' \in [Workers -> Calls]
    BY <1>12, <1>t, CallFacts DEF RecoverConfirmed
  <2>3. row' \in [Requests -> Rows] /\ events' \in [Requests -> Seq(EventTypes)]
    BY <1>12, <2>1, TransitionType, KnownEvents DEF RecoverConfirmed, States
  <2> QED
    BY <1>12, <1>t, <2>2, <2>3 DEF RecoverConfirmed, TypeOK
<1>13. ASSUME NEW w \in Workers, RecoverUnresolved(w)
       PROVE  TypeOK'
  <2>1. worker[w].request \in Requests
    BY <1>13, <1>t, CallFacts DEF RecoverUnresolved
  <2>2. worker' \in [Workers -> Calls]
    BY <1>13, <1>t, CallFacts DEF RecoverUnresolved
  <2>3. events' \in [Requests -> Seq(EventTypes)]
    BY <1>13, <1>a, <2>1, KnownEvents DEF RecoverUnresolved, Append_Event
  <2> QED
    BY <1>13, <1>t, <2>2, <2>3 DEF RecoverUnresolved, TypeOK
<1>14. ASSUME NEW w \in Workers, Crash(w)
       PROVE  TypeOK'
  BY <1>14, <1>t, CallFacts DEF Crash, TypeOK
<1>15. CASE UNCHANGED vars
  BY <1>15, <1>t DEF vars, TypeOK
<1> QED
  BY <1>1, <1>2, <1>3, <1>4, <1>5, <1>6, <1>7, <1>8, <1>9, <1>10, <1>11, <1>12, <1>13,
     <1>14, <1>15 DEF Next

\* The journal's tables and the live calls are well formed in every reachable
\* state, for every set of requests, obligations, signatures and workers.
THEOREM TypeCorrect == Spec => []TypeOK
<1>1. Init => TypeOK
  BY CallFacts DEF Init, TypeOK, Rows, NoRow, States
<1> QED
  BY <1>1, TypeStep, PTL DEF Spec

-----------------------------------------------------------------------------
(* The inductive invariant.  ProviderCalledOnce and RematerializationIsSafe *)
(* say nothing about a call that is under way; these parts do.              *)

\* A row has the columns its state calls for, and as many counted broadcasts.
RowInv ==
  \A r \in Requests :
    /\ row[r].state = "absent" => row[r].obligation = None
    /\ row[r].state # "absent" => row[r].obligation \in Obligations
    /\ row[r].state \notin {"absent", "authorized"} => row[r].signature \in Signatures
    /\ row[r].broadcasts = IF row[r].state \in {"absent", "authorized", "signed",
                                                "expired_requires_new_prepare"}
                             THEN 0 ELSE 1
    /\ calls[r] <= row[r].broadcasts

\* An obligation is registered by one request.
OwnerInv ==
  \A q, r \in Requests :
    q # r /\ row[q].obligation # None => row[q].obligation # row[r].obligation

\* An accepted signature is the persisted one of the request that owns the
\* obligation, and that request is past its broadcast intent.
EffectInv ==
  \A o \in Obligations :
    effects[o] # None =>
      \E r \in Requests :
        /\ row[r].obligation = o
        /\ row[r].signature = effects[o]
        /\ row[r].state \in {"broadcast_in_flight", "needs_recovery", "confirmed"}

Accepted(s) == \E o \in Obligations : effects[o] = s

\* What a live call knows about its request.
CallInv ==
  \A w \in Workers :
    LET r == worker[w].request
    IN  /\ worker[w].pc \in {"calling", "answered"} =>
             row[r].state = "broadcast_in_flight"
        /\ worker[w].pc = "calling" =>
             calls[r] = 0 /\ effects[row[r].obligation] = None
        /\ worker[w].pc = "answered" /\ worker[w].result = "unavailable" =>
             effects[row[r].obligation] = None
        /\ worker[w].pc = "answered" /\ worker[w].result = "success" =>
             Accepted(row[r].signature)
        /\ worker[w].pc \in {"observing", "observed"} =>
             row[r].state \in {"needs_recovery", "confirmed"}
        /\ worker[w].pc = "observed" /\ worker[w].result = "confirmed" =>
             Accepted(row[r].signature)

\* Two calls of execute() are never under way for one request.
ExclusiveInv ==
  \A v, w \in Workers :
    /\ v # w
    /\ worker[v].pc \in {"calling", "answered"}
    /\ worker[w].pc \in {"calling", "answered"}
    => worker[v].request # worker[w].request

ConfirmedInv ==
  \A r \in Requests : row[r].state = "confirmed" => Accepted(row[r].signature)

IInv == /\ TypeOK /\ RowInv /\ OwnerInv /\ EffectInv
        /\ CallInv /\ ExclusiveInv /\ ConfirmedInv

\* The effect of an obligation belongs to the request that registered it.
LEMMA OwnEffect ==
  ASSUME IInv, NEW r \in Requests, row[r].obligation \in Obligations,
         effects[row[r].obligation] # None
  PROVE  /\ row[r].signature = effects[row[r].obligation]
         /\ row[r].state \in {"broadcast_in_flight", "needs_recovery", "confirmed"}
<1>1. PICK q \in Requests : /\ row[q].obligation = row[r].obligation
                            /\ row[q].signature = effects[row[r].obligation]
                            /\ row[q].state \in {"broadcast_in_flight", "needs_recovery",
                                                  "confirmed"}
  BY DEF IInv, EffectInv
<1>2. row[r].obligation # None
  BY LabAssumption
<1> QED
  BY <1>1, <1>2 DEF IInv, OwnerInv

\* A step that only moves the state of one row, along an edge of the protocol,
\* from an execution nobody is broadcasting, preserves the invariant.
LEMMA RowMove ==
  ASSUME IInv, TypeOK', NEW r \in Requests,
         \A q \in Requests : q # r => row'[q] = row[q],
         row'[r].obligation = row[r].obligation,
         row'[r].signature = row[r].signature,
         row'[r].broadcasts = row[r].broadcasts,
         UNCHANGED <<effects, calls>>,
         \/ row'[r].state = row[r].state
         \/ /\ row[r].state = "signed"
            /\ row'[r].state = "expired_requires_new_prepare"
         \/ /\ row[r].state = "broadcast_in_flight"
            /\ row'[r].state = "needs_recovery"
         \/ /\ row[r].state = "broadcast_in_flight"
            /\ row'[r].state = "broadcast_failed_known"
            /\ effects[row[r].obligation] = None
         \/ /\ row[r].state \in {"broadcast_in_flight", "needs_recovery"}
            /\ row'[r].state = "confirmed"
            /\ Accepted(row[r].signature)
  PROVE  RowInv' /\ OwnerInv' /\ EffectInv' /\ ConfirmedInv'
<1>1. RowInv'
  BY DEF IInv, RowInv
<1>2. OwnerInv'
  BY DEF IInv, OwnerInv
<1>3. EffectInv'
  <2> SUFFICES ASSUME NEW o \in Obligations, effects'[o] # None
               PROVE  \E q \in Requests :
                        /\ row'[q].obligation = o
                        /\ row'[q].signature = effects'[o]
                        /\ row'[q].state \in {"broadcast_in_flight", "needs_recovery",
                                               "confirmed"}
    BY DEF EffectInv
  <2>1. PICK q \in Requests : /\ row[q].obligation = o
                              /\ row[q].signature = effects[o]
                              /\ row[q].state \in {"broadcast_in_flight", "needs_recovery",
                                                    "confirmed"}
    BY DEF IInv, EffectInv
  <2> QED
    BY <2>1
<1>4. ConfirmedInv'
  BY DEF IInv, ConfirmedInv, Accepted
<1> QED
  BY <1>1, <1>2, <1>3, <1>4

\* The row a _transition leaves behind, column by column.
LEMMA TransitionRow ==
  ASSUME TypeOK, NEW r \in Requests, NEW from, NEW to, NEW type,
         Transition(r, from, to, type)
  PROVE  /\ \A q \in Requests : q # r => row'[q] = row[q]
         /\ row'[r].obligation = row[r].obligation
         /\ row'[r].signature = row[r].signature
         /\ row'[r].broadcasts = row[r].broadcasts
         /\ IF row[r].state = from THEN row'[r].state = to
                                   ELSE row'[r].state = row[r].state
<1>1. row \in [Requests -> Rows]
  BY DEF TypeOK
<1>2. CASE row[r].state = from
  BY <1>1, <1>2 DEF Transition, Rows
<1>3. CASE row[r].state # from
  BY <1>3 DEF Transition
<1> QED
  BY <1>2, <1>3

\* Every step of the journal, its clients and the chain preserves the invariant.
LEMMA InvStep == IInv /\ [Next]_vars => IInv'
<1> SUFFICES ASSUME IInv, [Next]_vars PROVE IInv'
  OBVIOUS
<1>t. /\ TypeOK
      /\ row \in [Requests -> Rows]
      /\ effects \in [Obligations -> Signatures \cup {None}]
      /\ calls \in [Requests -> Nat]
      /\ worker \in [Workers -> Calls]
  BY DEF IInv, TypeOK
<1>p. TypeOK'
  BY <1>t, TypeStep
<1>f. \A w \in Workers :
        /\ worker[w].pc \in {"idle", "calling", "answered", "observing", "observed"}
        /\ worker[w].pc # "idle" => worker[w].request \in Requests
        /\ worker[w].pc = "answered" => worker[w].result \in {"success", "unavailable", "unknown"}
  BY <1>t, CallFacts
<1>1. ASSUME NEW r \in Requests, NEW o \in Obligations, NEW valid \in BOOLEAN,
             Register(r, o, valid)
      PROVE  IInv'
  <2>1. /\ \A q \in Requests : q # r => row'[q] = row[q]
        /\ UNCHANGED <<effects, calls, worker>>
    BY <1>1, <1>t DEF Register
  <2>2. /\ row'[r].state = "authorized" /\ row'[r].obligation = o
        /\ row'[r].signature = None /\ row'[r].broadcasts = 0
        /\ row[r].state = "absent"
        /\ \A q \in Requests : row[q].obligation # o
    BY <1>1, <1>t DEF Register, NoRow
  <2>3. RowInv'
    BY <2>1, <2>2 DEF IInv, RowInv
  <2>4. OwnerInv'
    BY <2>1, <2>2 DEF IInv, OwnerInv
  <2>5. EffectInv'
    BY <2>1, <2>2 DEF IInv, EffectInv
  <2>6. CallInv' /\ ExclusiveInv' /\ ConfirmedInv'
    BY <2>1, <2>2, <1>f DEF IInv, CallInv, ExclusiveInv, ConfirmedInv, Accepted
  <2> QED
    BY <1>p, <2>3, <2>4, <2>5, <2>6 DEF IInv
<1>2. ASSUME NEW r \in Requests, NEW s \in Signatures, PersistSignature(r, s)
      PROVE  IInv'
  <2>1. /\ \A q \in Requests : q # r => row'[q] = row[q]
        /\ row'[r].state = "signed" /\ row'[r].signature = s
        /\ row'[r].obligation = row[r].obligation
        /\ row'[r].broadcasts = row[r].broadcasts
        /\ row[r].state = "authorized"
        /\ UNCHANGED <<effects, calls, worker>>
    BY <1>2, <1>t DEF PersistSignature, Rows
  <2>3. RowInv'
    BY <2>1 DEF IInv, RowInv
  <2>4. OwnerInv'
    BY <2>1 DEF IInv, OwnerInv
  <2>5. EffectInv'
    BY <2>1 DEF IInv, EffectInv
  <2>6. CallInv' /\ ExclusiveInv' /\ ConfirmedInv'
    BY <2>1, <1>f DEF IInv, CallInv, ExclusiveInv, ConfirmedInv, Accepted
  <2> QED
    BY <1>p, <2>3, <2>4, <2>5, <2>6 DEF IInv
<1>3. ASSUME NEW r \in Requests, BlockhashExpires(r)
      PROVE  IInv'
  BY <1>3, <1>p DEF BlockhashExpires, IInv, RowInv, OwnerInv, EffectInv, CallInv,
                    ExclusiveInv, ConfirmedInv, Accepted
<1>4. ASSUME NEW w \in Workers, NEW r \in Requests, ExecuteExpired(w, r)
      PROVE  IInv'
  <2>1. /\ \A q \in Requests : q # r => row'[q] = row[q]
        /\ row[r].state = "signed"
        /\ row'[r].state = "expired_requires_new_prepare"
        /\ row'[r].signature = row[r].signature
        /\ row'[r].obligation = row[r].obligation
        /\ row'[r].broadcasts = row[r].broadcasts
        /\ UNCHANGED <<effects, calls, worker>>
    BY <1>4, <1>t DEF ExecuteExpired, Rows
  <2>2. RowInv' /\ OwnerInv' /\ EffectInv' /\ ConfirmedInv'
    BY <1>p, <2>1, RowMove
  <2>3. CallInv' /\ ExclusiveInv'
    BY <2>1, <1>f DEF IInv, CallInv, ExclusiveInv, Accepted
  <2> QED
    BY <1>p, <2>2, <2>3 DEF IInv
<1>5. ASSUME NEW w \in Workers, NEW r \in Requests, ExecuteIntent(w, r)
      PROVE  IInv'
  <2>1. /\ \A q \in Requests : q # r => row'[q] = row[q]
        /\ row[r].state = "signed"
        /\ row'[r].state = "broadcast_in_flight"
        /\ row'[r].signature = row[r].signature
        /\ row'[r].obligation = row[r].obligation
        /\ row'[r].broadcasts = row[r].broadcasts + 1
        /\ UNCHANGED <<effects, calls>>
    BY <1>5, <1>t DEF ExecuteIntent, Rows
  <2>2. /\ \A v \in Workers : v # w => worker'[v] = worker[v]
        /\ worker'[w].pc = "calling" /\ worker'[w].request = r
        /\ worker'[w].result = None
    BY <1>5, <1>t DEF ExecuteIntent
  <2>3. RowInv'
    BY <2>1, <1>t DEF IInv, RowInv
  <2>4. OwnerInv' /\ ConfirmedInv'
    BY <2>1 DEF IInv, OwnerInv, ConfirmedInv, Accepted
  <2>5. EffectInv'
    BY <2>1 DEF IInv, EffectInv
  <2>6. calls[r] = 0 /\ effects[row[r].obligation] = None
    BY <2>1, <1>t, OwnEffect DEF IInv, RowInv
  <2>7. CallInv'
    BY <2>1, <2>2, <2>6, <1>f DEF IInv, CallInv, Accepted
  <2>8. ExclusiveInv'
    BY <2>1, <2>2, <1>f DEF IInv, CallInv, ExclusiveInv
  <2> QED
    BY <1>p, <2>3, <2>4, <2>5, <2>7, <2>8 DEF IInv
<1>6. ASSUME NEW w \in Workers, NEW r \in Requests, RecoverBegin(w, r)
      PROVE  IInv'
  <2>1. /\ \A q \in Requests : q # r => row'[q] = row[q]
        /\ row[r].state = "needs_recovery"
        /\ row'[r].state = row[r].state
        /\ row'[r].signature = row[r].signature
        /\ row'[r].obligation = row[r].obligation
        /\ row'[r].broadcasts = row[r].broadcasts
        /\ UNCHANGED <<effects, calls>>
    BY <1>6, <1>t DEF RecoverBegin, Rows
  <2>2. /\ \A v \in Workers : v # w => worker'[v] = worker[v]
        /\ worker'[w].pc = "observing" /\ worker'[w].request = r
        /\ worker'[w].result = None
    BY <1>6, <1>t DEF RecoverBegin
  <2>3. RowInv' /\ OwnerInv' /\ EffectInv' /\ ConfirmedInv'
    BY <1>p, <2>1, RowMove
  <2>4. CallInv'
    BY <2>1, <2>2, <1>f DEF IInv, CallInv, Accepted
  <2>5. ExclusiveInv'
    BY <2>2 DEF IInv, ExclusiveInv
  <2> QED
    BY <1>p, <2>3, <2>4, <2>5 DEF IInv
<1>7. ASSUME NEW w \in Workers, NEW result, BroadcastNoEffect(w, result)
      PROVE  IInv'
  <2> DEFINE r == worker[w].request
  <2>1. /\ r \in Requests /\ worker[w].pc = "calling"
        /\ result \in {"unavailable", "unknown"}
        /\ UNCHANGED <<row, effects>>
    BY <1>7, <1>f DEF BroadcastNoEffect
  <2>2. /\ \A q \in Requests : q # r => calls'[q] = calls[q]
        /\ calls'[r] = calls[r] + 1
    BY <1>7, <1>t, <2>1 DEF BroadcastNoEffect
  <2>3. /\ \A v \in Workers : v # w => worker'[v] = worker[v]
        /\ worker'[w].pc = "answered" /\ worker'[w].request = r
        /\ worker'[w].result = result
    BY <1>7, <1>t DEF BroadcastNoEffect
  <2>4. calls[r] = 0 /\ row[r].state = "broadcast_in_flight" /\ row[r].broadcasts = 1
        /\ effects[row[r].obligation] = None
    BY <2>1 DEF IInv, CallInv, RowInv
  <2> HIDE DEF r
  <2>5. RowInv'
    BY <2>1, <2>2, <2>4 DEF IInv, RowInv
  <2>6. OwnerInv' /\ EffectInv' /\ ConfirmedInv'
    BY <2>1 DEF IInv, OwnerInv, EffectInv, ConfirmedInv, Accepted
  <2>7. CallInv'
    <3> SUFFICES ASSUME NEW v \in Workers
                 PROVE  CallInv!(v)'
      BY DEF CallInv
    <3>1. CASE v = w
      BY <2>1, <2>3, <2>4, <3>1 DEF IInv, CallInv, Accepted
    <3>2. CASE v # w
      <4>1. worker[v].pc = "calling" => worker[v].request # r
        BY <2>1, <3>2 DEF IInv, ExclusiveInv, r
      <4> QED
        BY <1>f, <2>1, <2>2, <2>3, <3>2, <4>1 DEF IInv, CallInv, Accepted
    <3> QED
      BY <3>1, <3>2
  <2>8. ExclusiveInv'
    BY <2>1, <2>3 DEF IInv, ExclusiveInv, r
  <2> QED
    BY <1>p, <2>5, <2>6, <2>7, <2>8 DEF IInv
<1>8. ASSUME NEW w \in Workers, NEW result, BroadcastEffect(w, result)
      PROVE  IInv'
  <2>r. PICK r \in Requests : r = worker[w].request
    BY <1>8, <1>f DEF BroadcastEffect
  <2> DEFINE o == row[r].obligation
  <2>1. /\ r = worker[w].request /\ worker[w].pc = "calling"
        /\ result \in {"success", "unknown"}
        /\ UNCHANGED row
    BY <1>8, <2>r DEF BroadcastEffect
  <2>2. /\ \A q \in Requests : q # r => calls'[q] = calls[q]
        /\ calls'[r] = calls[r] + 1
    BY <1>8, <1>t, <2>1 DEF BroadcastEffect
  <2>3. /\ \A v \in Workers : v # w => worker'[v] = worker[v]
        /\ worker'[w].pc = "answered" /\ worker'[w].request = r
        /\ worker'[w].result = result
    BY <1>8, <1>t, <2>r DEF BroadcastEffect
  <2>4. /\ calls[r] = 0 /\ row[r].state = "broadcast_in_flight" /\ row[r].broadcasts = 1
        /\ effects[o] = None /\ o \in Obligations /\ row[r].signature \in Signatures
    BY <2>1 DEF IInv, CallInv, RowInv
  <2>5. /\ \A p \in Obligations : p # o => effects'[p] = effects[p]
        /\ effects'[o] = row[r].signature
    BY <1>8, <1>t, <2>r, <2>4 DEF BroadcastEffect
  <2>6. \A s \in Signatures : Accepted(s) => Accepted(s)'
    BY <2>4, <2>5, LabAssumption DEF Accepted
  <2>7. \A q \in Requests : q # r /\ row[q].obligation \in Obligations
                             => effects'[row[q].obligation] = effects[row[q].obligation]
    BY <2>1, <2>5, LabAssumption DEF IInv, OwnerInv
  <2>8. RowInv'
    BY <2>1, <2>2, <2>4 DEF IInv, RowInv
  <2>9. OwnerInv'
    BY <2>1 DEF IInv, OwnerInv
  <2>10. EffectInv'
    <3> SUFFICES ASSUME NEW p \in Obligations, effects'[p] # None
                 PROVE  EffectInv!(p)!2'
      BY DEF EffectInv
    <3>1. CASE p = o
      BY <2>1, <2>4, <2>5, <3>1
    <3>2. CASE p # o
      BY <2>1, <2>5, <3>2 DEF IInv, EffectInv
    <3> QED
      BY <3>1, <3>2
  <2>11. ConfirmedInv'
    BY <2>1, <2>6 DEF IInv, ConfirmedInv, RowInv
  <2>12. CallInv'
    <3> SUFFICES ASSUME NEW v \in Workers
                 PROVE  CallInv!(v)'
      BY DEF CallInv
    <3>1. CASE v = w
      <4>1. \E p \in Obligations : effects'[p] = row'[r].signature
        BY <2>1, <2>4, <2>5
      <4> QED
        BY <2>1, <2>3, <2>4, <3>1, <4>1 DEF Accepted
    <3>2. CASE v # w
      <4> DEFINE q == worker[v].request
      <4>1. worker[v].pc \in {"calling", "answered"} => q # r
        BY <2>1, <3>2 DEF IInv, ExclusiveInv
      <4>2. worker[v].pc # "idle" =>
              /\ q \in Requests /\ row[q].obligation \in Obligations
              /\ row[q].signature \in Signatures
        BY <1>f DEF IInv, CallInv, RowInv
      <4>3. worker'[v] = worker[v] /\ row' = row
        BY <2>1, <2>3, <3>2
      <4>4. CallInv!(v)
        BY DEF IInv, CallInv
      <4>5. worker[v].pc \in {"calling", "answered"} =>
              /\ calls'[q] = calls[q]
              /\ effects'[row[q].obligation] = effects[row[q].obligation]
        BY <2>2, <2>7, <4>1, <4>2
      <4>6. worker[v].pc # "idle" /\ Accepted(row[q].signature) =>
              \E p \in Obligations : effects'[p] = row[q].signature
        BY <2>6, <4>2 DEF Accepted
      <4> QED
        BY <4>3, <4>4, <4>5, <4>6 DEF Accepted
    <3> QED
      BY <3>1, <3>2
  <2>13. ExclusiveInv'
    BY <2>1, <2>3 DEF IInv, ExclusiveInv
  <2> QED
    BY <1>p, <2>8, <2>9, <2>10, <2>11, <2>12, <2>13 DEF IInv
<1>9. ASSUME NEW w \in Workers, ExecuteInjectedCrash(w)
      PROVE  IInv'
  <2>r. PICK r \in Requests : r = worker[w].request
    BY <1>9, <1>f DEF ExecuteInjectedCrash
  <2>1. /\ \A v \in Workers : v # w => worker'[v] = worker[v]
        /\ worker'[w].pc = "idle"
        /\ UNCHANGED <<effects, calls>>
    BY <1>9, <1>t DEF ExecuteInjectedCrash, Idle
  <2>2. /\ \A q \in Requests : q # r => row'[q] = row[q]
        /\ row'[r].obligation = row[r].obligation
        /\ row'[r].signature = row[r].signature
        /\ row'[r].broadcasts = row[r].broadcasts
    BY <1>9, <1>t, <2>r, TransitionRow DEF ExecuteInjectedCrash
  <2>3. row[r].state = "broadcast_in_flight" /\ row'[r].state = "needs_recovery"
    <3>1. row[r].state = "broadcast_in_flight"
      BY <1>9, <2>r DEF ExecuteInjectedCrash, IInv, CallInv
    <3> QED
      BY <1>9, <1>t, <2>r, <3>1, TransitionRow DEF ExecuteInjectedCrash
  <2>4. RowInv' /\ OwnerInv' /\ EffectInv' /\ ConfirmedInv'
    BY <1>p, <2>1, <2>2, <2>3, RowMove
  <2>5. \A v \in Workers : v # w /\ worker[v].pc \in {"calling", "answered"}
                            => worker[v].request # r
    BY <1>9, <2>r DEF ExecuteInjectedCrash, IInv, ExclusiveInv
  <2>6. CallInv'
    BY <1>f, <2>1, <2>2, <2>3, <2>5 DEF IInv, CallInv, Accepted
  <2>7. ExclusiveInv'
    BY <2>1 DEF IInv, ExclusiveInv
  <2> QED
    BY <1>p, <2>4, <2>6, <2>7 DEF IInv
<1>10. ASSUME NEW w \in Workers, ExecuteOutcome(w)
      PROVE  IInv'
  <2>r. PICK r \in Requests : r = worker[w].request
    BY <1>10, <1>f DEF ExecuteOutcome
  <2>1. /\ \A v \in Workers : v # w => worker'[v] = worker[v]
        /\ worker'[w].pc = "idle"
        /\ UNCHANGED <<effects, calls>>
    BY <1>10, <1>t DEF ExecuteOutcome, Idle
  <2>2. /\ \A q \in Requests : q # r => row'[q] = row[q]
        /\ row'[r].obligation = row[r].obligation
        /\ row'[r].signature = row[r].signature
        /\ row'[r].broadcasts = row[r].broadcasts
    BY <1>10, <1>t, <2>r, TransitionRow DEF ExecuteOutcome
  <2>3. /\ row[r].state = "broadcast_in_flight"
        /\ worker[w].result \in {"success", "unavailable", "unknown"}
        /\ row'[r].state = OutcomeState(worker[w].result)
        /\ worker[w].result = "unavailable" => effects[row[r].obligation] = None
        /\ worker[w].result = "success" => Accepted(row[r].signature)
    <3>1. /\ row[r].state = "broadcast_in_flight"
          /\ worker[w].result = "unavailable" => effects[row[r].obligation] = None
          /\ worker[w].result = "success" => Accepted(row[r].signature)
      BY <1>10, <2>r DEF ExecuteOutcome, IInv, CallInv
    <3>2. worker[w].result \in {"success", "unavailable", "unknown"}
      BY <1>10, <1>f DEF ExecuteOutcome
    <3> QED
      BY <1>10, <1>t, <2>r, <3>1, <3>2, TransitionRow DEF ExecuteOutcome
  <2>4. RowInv' /\ OwnerInv' /\ EffectInv' /\ ConfirmedInv'
    <3>1. \/ row'[r].state = "needs_recovery"
          \/ row'[r].state = "broadcast_failed_known" /\ effects[row[r].obligation] = None
          \/ row'[r].state = "confirmed" /\ Accepted(row[r].signature)
      BY <2>3 DEF OutcomeState
    <3>2. row[r].state = "broadcast_in_flight"
      BY <2>3
    <3> QED
      BY <1>p, <2>1, <2>2, <3>1, <3>2, RowMove
  <2>5. \A v \in Workers : v # w /\ worker[v].pc \in {"calling", "answered"}
                            => worker[v].request # r
    BY <1>10, <2>r DEF ExecuteOutcome, IInv, ExclusiveInv
  <2>6. CallInv'
    BY <1>f, <2>1, <2>2, <2>3, <2>5 DEF IInv, CallInv, Accepted
  <2>7. ExclusiveInv'
    BY <2>1 DEF IInv, ExclusiveInv
  <2> QED
    BY <1>p, <2>4, <2>6, <2>7 DEF IInv
<1>11. ASSUME NEW w \in Workers, RecoverObserve(w)
       PROVE  IInv'
  <2>r. PICK r \in Requests : r = worker[w].request
    BY <1>11, <1>f DEF RecoverObserve
  <2>1. PICK seen \in Observation(row[r].signature) :
          worker' = [worker EXCEPT ![w] = [pc |-> "observed", request |-> r, result |-> seen]]
    BY <1>11, <2>r DEF RecoverObserve
  <2>2. /\ \A v \in Workers : v # w => worker'[v] = worker[v]
        /\ worker'[w].pc = "observed" /\ worker'[w].request = r
        /\ worker'[w].result = seen
    BY <1>t, <2>1
  <2>3. UNCHANGED <<row, effects, calls>>
    BY <1>11 DEF RecoverObserve
  <2>4. seen = "confirmed" => Accepted(row[r].signature)
    BY <2>1 DEF Observation, Accepted
  <2>5. row[r].state \in {"needs_recovery", "confirmed"}
    BY <1>11, <2>r DEF RecoverObserve, IInv, CallInv
  <2>6. RowInv' /\ OwnerInv' /\ EffectInv' /\ ConfirmedInv'
    BY <2>3 DEF IInv, RowInv, OwnerInv, EffectInv, ConfirmedInv, Accepted
  <2>7. CallInv'
    BY <2>2, <2>3, <2>4, <2>5 DEF IInv, CallInv, Accepted
  <2>8. ExclusiveInv'
    BY <2>2 DEF IInv, ExclusiveInv
  <2> QED
    BY <1>p, <2>6, <2>7, <2>8 DEF IInv
<1>12. ASSUME NEW w \in Workers, RecoverConfirmed(w)
      PROVE  IInv'
  <2>r. PICK r \in Requests : r = worker[w].request
    BY <1>12, <1>f DEF RecoverConfirmed
  <2>1. /\ \A v \in Workers : v # w => worker'[v] = worker[v]
        /\ worker'[w].pc = "idle"
        /\ UNCHANGED <<effects, calls>>
    BY <1>12, <1>t DEF RecoverConfirmed, Idle
  <2>2. /\ \A q \in Requests : q # r => row'[q] = row[q]
        /\ row'[r].obligation = row[r].obligation
        /\ row'[r].signature = row[r].signature
        /\ row'[r].broadcasts = row[r].broadcasts
    BY <1>12, <1>t, <2>r, TransitionRow DEF RecoverConfirmed
  <2>3. /\ row[r].state \in {"needs_recovery", "confirmed"}
        /\ Accepted(row[r].signature)
        /\ row'[r].state = "confirmed"
    <3>1. /\ row[r].state \in {"needs_recovery", "confirmed"}
          /\ Accepted(row[r].signature)
      BY <1>12, <2>r DEF RecoverConfirmed, IInv, CallInv
    <3> QED
      BY <1>12, <1>t, <2>r, <3>1, TransitionRow DEF RecoverConfirmed
  <2>4. RowInv' /\ OwnerInv' /\ EffectInv' /\ ConfirmedInv'
    BY <1>p, <2>1, <2>2, <2>3, RowMove
  <2>6. CallInv'
    BY <1>f, <2>1, <2>2, <2>3 DEF IInv, CallInv, Accepted
  <2>7. ExclusiveInv'
    BY <2>1 DEF IInv, ExclusiveInv
  <2> QED
    BY <1>p, <2>4, <2>6, <2>7 DEF IInv
<1>13. ASSUME NEW w \in Workers, RecoverUnresolved(w) \/ Crash(w)
       PROVE  IInv'
  <2>1. /\ \A v \in Workers : v # w => worker'[v] = worker[v]
        /\ worker'[w].pc = "idle"
        /\ UNCHANGED <<row, effects, calls>>
    BY <1>13, <1>t DEF RecoverUnresolved, Crash, Idle
  <2>2. RowInv' /\ OwnerInv' /\ EffectInv' /\ ConfirmedInv'
    BY <2>1 DEF IInv, RowInv, OwnerInv, EffectInv, ConfirmedInv, Accepted
  <2>3. CallInv'
    BY <2>1 DEF IInv, CallInv, Accepted
  <2>4. ExclusiveInv'
    BY <2>1 DEF IInv, ExclusiveInv
  <2> QED
    BY <1>p, <2>2, <2>3, <2>4 DEF IInv
<1>14. CASE UNCHANGED vars
  BY <1>14, <1>p DEF vars, IInv, RowInv, OwnerInv, EffectInv, CallInv, ExclusiveInv,
                     ConfirmedInv, Accepted
<1> QED
  BY <1>1, <1>2, <1>3, <1>4, <1>5, <1>6, <1>7, <1>8, <1>9, <1>10, <1>11, <1>12, <1>13,
     <1>14 DEF Next

\* An empty journal satisfies the invariant.
LEMMA InvInit == Init => IInv
<1> SUFFICES ASSUME Init PROVE IInv
  OBVIOUS
<1>1. TypeOK
  BY CallFacts DEF Init, TypeOK, Rows, NoRow, States
<1>2. RowInv /\ OwnerInv /\ EffectInv /\ ConfirmedInv
  BY DEF Init, NoRow, RowInv, OwnerInv, EffectInv, ConfirmedInv
<1>3. CallInv /\ ExclusiveInv
  BY DEF Init, Idle, CallInv, ExclusiveInv
<1> QED
  BY <1>1, <1>2, <1>3 DEF IInv

\* The invariant holds in every reachable state.
THEOREM Invariant == Spec => []IInv
  BY InvInit, InvStep, PTL DEF Spec

\* execute() invokes the provider at most once for an execution and never
\* without a durable intent, whatever crashes, recoveries and concurrent
\* calls the journal sees.
THEOREM ProviderCalledOnceHolds == Spec => []ProviderCalledOnce
<1>1. IInv => ProviderCalledOnce
  BY DEF IInv, RowInv, ProviderCalledOnce
<1> QED
  BY <1>1, Invariant, PTL

\* What happens to the chain in one step: nothing, or one obligation without
\* an effect gets one.
LEMMA EffectStep ==
  ASSUME IInv, [Next]_vars
  PROVE  \/ effects' = effects
         \/ \E o \in Obligations, s \in Signatures : Effect!Apply(o, s)
<1>1. ASSUME NEW w \in Workers, NEW result, BroadcastEffect(w, result)
      PROVE  \E o \in Obligations, s \in Signatures : Effect!Apply(o, s)
  <2>1. PICK r \in Requests : r = worker[w].request
    BY <1>1, CallFacts DEF BroadcastEffect, IInv, TypeOK
  <2>2. /\ row[r].obligation \in Obligations /\ row[r].signature \in Signatures
        /\ effects[row[r].obligation] = None
    BY <1>1, <2>1 DEF BroadcastEffect, IInv, CallInv, RowInv
  <2>3. effects' = [effects EXCEPT ![row[r].obligation] = row[r].signature]
    BY <1>1, <2>1 DEF BroadcastEffect
  <2> QED
    BY <2>2, <2>3 DEF Effect!Apply
<1> QED
  BY <1>1 DEF Next, vars, Register, PersistSignature, BlockhashExpires, ExecuteExpired,
     ExecuteIntent, RecoverBegin, BroadcastNoEffect, ExecuteInjectedCrash, ExecuteOutcome,
     RecoverObserve, RecoverConfirmed, RecoverUnresolved, Crash

Final == {"confirmed", "broadcast_failed_known", "expired_requires_new_prepare"}

\* An execution that is confirmed, refused or expired is final: no step moves it
\* or changes its signature.
LEMMA FinalStays ==
  ASSUME IInv, [Next]_vars, NEW r \in Requests, row[r].state \in Final
  PROVE  row'[r].state = row[r].state /\ row'[r].signature = row[r].signature
<1>t. TypeOK /\ row \in [Requests -> Rows] /\ worker \in [Workers -> Calls]
  BY DEF IInv, TypeOK
<1>1. ASSUME NEW q \in Requests, q # r, NEW v, row' = [row EXCEPT ![q] = v]
      PROVE  row'[r] = row[r]
  BY <1>1, <1>t
<1>2. ASSUME NEW q \in Requests, NEW from, from \notin Final, NEW to, NEW type,
             Transition(q, from, to, type)
      PROVE  row'[r].state = row[r].state /\ row'[r].signature = row[r].signature
  BY <1>2, <1>t, TransitionRow
<1>3. ASSUME NEW w \in Workers,
             ExecuteInjectedCrash(w) \/ ExecuteOutcome(w) \/ RecoverConfirmed(w)
      PROVE  row'[r].state = row[r].state /\ row'[r].signature = row[r].signature
  <2>1. worker[w].request \in Requests
    BY <1>3, <1>t, CallFacts DEF ExecuteInjectedCrash, ExecuteOutcome, RecoverConfirmed
  <2> QED
    BY <1>2, <1>3, <2>1 DEF ExecuteInjectedCrash, ExecuteOutcome, RecoverConfirmed, Final
<1>4. ASSUME NEW w \in Workers, NEW q \in Requests, RecoverBegin(w, q)
      PROVE  row'[r] = row[r]
  BY <1>1, <1>4 DEF RecoverBegin, Final
<1>5. ASSUME NEW w \in Workers, NEW q \in Requests, ExecuteExpired(w, q) \/ ExecuteIntent(w, q)
      PROVE  row'[r] = row[r]
  BY <1>1, <1>5 DEF ExecuteExpired, ExecuteIntent, Final
<1>6. ASSUME NEW q \in Requests, NEW s \in Signatures, PersistSignature(q, s)
      PROVE  row'[r] = row[r]
  BY <1>1, <1>6 DEF PersistSignature, Final
<1>7. ASSUME NEW q \in Requests, NEW o \in Obligations, NEW valid \in BOOLEAN,
             Register(q, o, valid)
      PROVE  row'[r] = row[r]
  BY <1>1, <1>7 DEF Register, Final
<1> QED
  BY <1>3, <1>4, <1>5, <1>6, <1>7
  DEF Next, vars, BlockhashExpires, BroadcastNoEffect, BroadcastEffect, RecoverObserve,
      RecoverUnresolved, Crash

\* Whenever evidence() lets a new message be made for an obligation, nothing
\* was accepted for it and no call that could still be accepted is under way; and
\* unless the persisted message is still to be broadcast, no step of execute(),
\* recover() or the provider can have it accepted.
THEOREM RematerializationIsSafeHolds == Spec => RematerializationIsSafe
<1>1. ASSUME IInv, [Next]_vars, NEW r \in Requests, MayRematerialize(r)
      PROVE  /\ effects[row[r].obligation] = None
             /\ \A w \in Workers : worker[w].request = r => worker[w].pc # "calling"
             /\ row[r].state \notin {"authorized", "signed"} =>
                  row'[r].state = row[r].state /\ effects'[row[r].obligation] = None
  <2>1. row[r].obligation \in Obligations
    BY <1>1 DEF MayRematerialize, IInv, RowInv
  <2>2. effects[row[r].obligation] = None
    BY <1>1, <2>1, OwnEffect DEF MayRematerialize
  <2>3. \A w \in Workers : worker[w].request = r => worker[w].pc # "calling"
    BY <1>1 DEF MayRematerialize, IInv, CallInv
  <2>4. ASSUME row[r].state \notin {"authorized", "signed"}
        PROVE  row'[r].state = row[r].state /\ effects'[row[r].obligation] = None
    <3>1. row[r].state \in Final /\ row'[r].state = row[r].state
      BY <1>1, <2>4, FinalStays DEF MayRematerialize, Final
    <3>2. CASE effects' = effects
      BY <2>2, <3>1, <3>2
    <3>3. ASSUME NEW w \in Workers, NEW result, BroadcastEffect(w, result)
          PROVE  effects'[row[r].obligation] = None
      <4>1. PICK q \in Requests : q = worker[w].request
        BY <1>1, <3>3, CallFacts DEF BroadcastEffect, IInv, TypeOK
      <4>2. q # r
        BY <2>3, <3>3, <4>1 DEF BroadcastEffect
      <4>3. row[q].obligation # row[r].obligation
        <5>1. row[r].obligation # None
          BY <2>1, LabAssumption
        <5> QED
          BY <1>1, <4>2, <5>1 DEF IInv, OwnerInv
      <4>4. effects' = [effects EXCEPT ![row[q].obligation] = row[q].signature]
        BY <3>3, <4>1 DEF BroadcastEffect
      <4> QED
        BY <1>1, <2>1, <2>2, <4>3, <4>4 DEF IInv, TypeOK
    <3>4. effects' = effects \/ \E w \in Workers : \E result : BroadcastEffect(w, result)
      BY <1>1 DEF Next, vars, Register, PersistSignature, BlockhashExpires, ExecuteExpired,
         ExecuteIntent, RecoverBegin, BroadcastNoEffect, ExecuteInjectedCrash, ExecuteOutcome,
         RecoverObserve, RecoverConfirmed, RecoverUnresolved, Crash
    <3> QED
      BY <3>1, <3>2, <3>3, <3>4
  <2> QED
    BY <2>2, <2>3, <2>4
<1>2. IInv /\ [Next]_vars => [\A r \in Requests :
        MayRematerialize(r) =>
          /\ effects[row[r].obligation] = None
          /\ \A w \in Workers : worker[w].request = r => worker[w].pc # "calling"
          /\ row[r].state \notin {"authorized", "signed"} =>
               row'[r].state = row[r].state /\ effects'[row[r].obligation] = None]_vars
  BY <1>1
<1> QED
  BY <1>2, Invariant, PTL DEF Spec, RematerializationIsSafe

\* The refinement: the journal with its chain implements the promise that one
\* effect is applied per obligation and only applied ones are reported.
THEOREM OneEconomicEffectHolds == Spec => OneEconomicEffect
<1>1. Init => Effect!InitEffect
  BY DEF Init, NoRow, Effect!InitEffect, Confirmed
<1>2. IInv /\ IInv' /\ [Next]_vars => [Effect!NextEffect]_<<effects, Confirmed>>
  <2> SUFFICES ASSUME IInv, IInv', [Next]_vars PROVE Effect!NextEffect
    OBVIOUS
  <2>1. \/ \E o \in Obligations, s \in Signatures : Effect!Apply(o, s)
        \/ UNCHANGED effects
    BY EffectStep
  <2>2. Confirmed \subseteq Confirmed'
    BY FinalStays DEF Confirmed, Final
  <2>3. Confirmed' \subseteq {s \in Signatures : \E o \in Obligations : effects'[o] = s}
    BY DEF IInv, ConfirmedInv, RowInv, Accepted, Confirmed
  <2>4. Effect!Report
    BY <2>2, <2>3 DEF Effect!Report
  <2> QED
    BY <2>1, <2>4 DEF Effect!NextEffect
<1> QED
  BY <1>1, <1>2, Invariant, PTL DEF Spec, OneEconomicEffect, Effect!SpecEffect

-----------------------------------------------------------------------------
(* The log explains the row.                                               *)

Changes(log) == {i \in DOMAIN log : log[i] \in DOMAIN StateAfter}

Intents(log) == {i \in DOMAIN log : log[i] = "broadcast_intent_persisted"}

\* A log that explains a row in the state st with n counted broadcasts.
Explains(log, st, n) ==
  /\ st # "absent" => \E i \in Changes(log) :
                        (\A j \in Changes(log) : j <= i) /\ StateAfter[log[i]] = st
  /\ n = Cardinality(Intents(log))

\* How an appended event changes what a log explains.
LEMMA AppendedEvent ==
  ASSUME NEW log \in Seq(EventTypes), NEW type \in EventTypes
  PROVE  LET new == Append(log, type)
         IN  /\ Cardinality(Intents(log)) \in Nat
             /\ Cardinality(Intents(new)) = IF type = "broadcast_intent_persisted"
                                              THEN Cardinality(Intents(log)) + 1
                                              ELSE Cardinality(Intents(log))
             /\ type \in DOMAIN StateAfter =>
                  \E i \in Changes(new) :
                    (\A j \in Changes(new) : j <= i) /\ StateAfter[new[i]] = StateAfter[type]
             /\ type \notin DOMAIN StateAfter =>
                  Changes(new) = Changes(log) /\ \A i \in Changes(log) : new[i] = log[i]
<1> DEFINE new == Append(log, type)
           k == Len(log) + 1
<1>1. /\ Len(log) \in Nat /\ DOMAIN log = 1..Len(log) /\ DOMAIN new = 1..k /\ k \in Nat
      /\ \A i \in 1..Len(log) : new[i] = log[i]
      /\ new[k] = type
  OBVIOUS
<1> HIDE DEF new
<1>2. 1..k = (1..Len(log)) \cup {k} /\ k \notin 1..Len(log) /\ \A i \in 1..k : i <= k
  BY <1>1
<1>3. IsFiniteSet(Intents(log)) /\ Cardinality(Intents(log)) \in Nat /\ k \notin Intents(log)
  <2>1. IsFiniteSet(1..Len(log)) /\ Intents(log) \subseteq 1..Len(log)
    BY <1>1, FS_Interval DEF Intents
  <2>2. IsFiniteSet(Intents(log))
    BY <2>1, FS_Subset
  <2> QED
    BY <1>2, <2>1, <2>2, FS_CardinalityType
<1>4. Cardinality(Intents(new)) = IF type = "broadcast_intent_persisted"
                                    THEN Cardinality(Intents(log)) + 1
                                    ELSE Cardinality(Intents(log))
  <2>1. Intents(new) = IF type = "broadcast_intent_persisted"
                         THEN Intents(log) \cup {k} ELSE Intents(log)
    BY <1>1, <1>2 DEF Intents
  <2>2. Cardinality(Intents(log) \cup {k}) = Cardinality(Intents(log)) + 1
    BY <1>3, FS_AddElement
  <2> QED
    BY <2>1, <2>2
<1>5. ASSUME type \in DOMAIN StateAfter
      PROVE  \E i \in Changes(new) :
               (\A j \in Changes(new) : j <= i) /\ StateAfter[new[i]] = StateAfter[type]
  <2>1. k \in Changes(new) /\ \A j \in Changes(new) : j <= k
    BY <1>1, <1>2, <1>5 DEF Changes
  <2> QED
    BY <1>1, <2>1
<1>6. ASSUME type \notin DOMAIN StateAfter
      PROVE  Changes(new) = Changes(log) /\ \A i \in Changes(log) : new[i] = log[i]
  BY <1>1, <1>2, <1>6 DEF Changes
<1> QED
  BY <1>3, <1>4, <1>5, <1>6 DEF new

\* A state-changing event explains the row it is committed with, and any other
\* event leaves the explanation as it was.
LEMMA ExplainedByAppend ==
  ASSUME NEW log \in Seq(EventTypes), NEW type \in EventTypes, NEW st, NEW n, NEW m,
         Explains(log, st, n)
  PROVE  /\ /\ type \in DOMAIN StateAfter
            /\ m = IF type = "broadcast_intent_persisted" THEN n + 1 ELSE n
            => Explains(Append(log, type), StateAfter[type], m)
         /\ type \notin DOMAIN StateAfter => Explains(Append(log, type), st, n)
<1> DEFINE new == Append(log, type)
<1>1. /\ Cardinality(Intents(new)) = IF type = "broadcast_intent_persisted"
                                       THEN Cardinality(Intents(log)) + 1
                                       ELSE Cardinality(Intents(log))
      /\ type \in DOMAIN StateAfter =>
           \E i \in Changes(new) :
             (\A j \in Changes(new) : j <= i) /\ StateAfter[new[i]] = StateAfter[type]
      /\ type \notin DOMAIN StateAfter =>
           Changes(new) = Changes(log) /\ \A i \in Changes(log) : new[i] = log[i]
  BY AppendedEvent
<1> HIDE DEF new
<1>2. ASSUME type \in DOMAIN StateAfter,
             m = IF type = "broadcast_intent_persisted" THEN n + 1 ELSE n
      PROVE  Explains(new, StateAfter[type], m)
  BY <1>1, <1>2 DEF Explains
<1>3. ASSUME type \notin DOMAIN StateAfter PROVE Explains(new, st, n)
  <2>1. type # "broadcast_intent_persisted"
    BY <1>3 DEF StateAfter
  <2> QED
    BY <1>1, <1>3, <2>1 DEF Explains
<1> QED
  BY <1>2, <1>3 DEF new

LogInv == \A r \in Requests : Explains(events[r], row[r].state, row[r].broadcasts)

\* A step that appends a state-changing event to the log of r, together with
\* the state it names, keeps every log in agreement with its row.
LEMMA ChangeLogged ==
  ASSUME TypeOK, LogInv, NEW r \in Requests, NEW type \in DOMAIN StateAfter,
         type \in EventTypes,
         Append_Event(r, type),
         \A q \in Requests : q # r => row'[q] = row[q],
         row'[r].state = StateAfter[type],
         row'[r].broadcasts = IF type = "broadcast_intent_persisted"
                                THEN row[r].broadcasts + 1 ELSE row[r].broadcasts
  PROVE  LogInv'
<1>1. events \in [Requests -> Seq(EventTypes)] /\ events[r] \in Seq(EventTypes)
  BY DEF TypeOK
<1>2. events'[r] = Append(events[r], type) /\ \A q \in Requests : q # r => events'[q] = events[q]
  BY <1>1 DEF Append_Event
<1>3. Explains(Append(events[r], type), StateAfter[type], row'[r].broadcasts)
  BY <1>1, ExplainedByAppend DEF LogInv
<1>4. ASSUME NEW q \in Requests PROVE Explains(events'[q], row'[q].state, row'[q].broadcasts)
  <2>1. CASE q = r
    BY <1>2, <1>3, <2>1
  <2>2. CASE q # r
    BY <1>2, <2>2 DEF LogInv
  <2> QED
    BY <2>1, <2>2
<1> QED
  BY <1>4 DEF LogInv, Explains, Changes, Intents

\* So does a _transition whose event names the state it leads to.
LEMMA TransitionLogged ==
  ASSUME TypeOK, LogInv, NEW r \in Requests, NEW from, NEW type \in DOMAIN StateAfter,
         type \in EventTypes, type # "broadcast_intent_persisted",
         Transition(r, from, StateAfter[type], type)
  PROVE  LogInv'
<1>1. CASE row[r].state = from
  <2>1. Append_Event(r, type)
    BY <1>1 DEF Transition
  <2>2. /\ \A q \in Requests : q # r => row'[q] = row[q]
        /\ row'[r].broadcasts = row[r].broadcasts /\ row'[r].state = StateAfter[type]
    BY <1>1, TransitionRow
  <2> QED
    BY <2>1, <2>2, ChangeLogged
<1>2. CASE row[r].state # from
  BY <1>2 DEF Transition, LogInv, Explains, Changes, Intents
<1> QED
  BY <1>1, <1>2

\* Every step keeps the logs in agreement with the rows.
LEMMA LogStep ==
  ASSUME IInv, LogInv, [Next]_vars
  PROVE  LogInv'
<1>t. TypeOK /\ row \in [Requests -> Rows] /\ worker \in [Workers -> Calls]
      /\ events \in [Requests -> Seq(EventTypes)]
  BY DEF IInv, TypeOK
<1>e. /\ StateAfter["execution_registered"] = "authorized"
      /\ StateAfter["signature_persisted"] = "signed"
      /\ StateAfter["broadcast_intent_persisted"] = "broadcast_in_flight"
      /\ StateAfter["blockhash_expired_before_broadcast"] = "expired_requires_new_prepare"
      /\ StateAfter["broadcast_outcome_unknown"] = "needs_recovery"
      /\ StateAfter["broadcast_rejected_before_acceptance"] = "broadcast_failed_known"
      /\ StateAfter["broadcast_confirmed"] = "confirmed"
      /\ StateAfter["recovery_confirmed_signature"] = "confirmed"
      /\ {"execution_registered", "signature_persisted", "broadcast_intent_persisted",
          "blockhash_expired_before_broadcast", "broadcast_outcome_unknown",
          "broadcast_rejected_before_acceptance", "broadcast_confirmed",
          "recovery_confirmed_signature"} \subseteq DOMAIN StateAfter
  BY DEF StateAfter
<1>1. ASSUME events' = events,
             \A r \in Requests : /\ row'[r].state = row[r].state
                                 /\ row'[r].broadcasts = row[r].broadcasts
      PROVE  LogInv'
  BY <1>1 DEF LogInv, Explains, Changes, Intents
<1>2. ASSUME NEW r \in Requests, NEW o \in Obligations, NEW valid \in BOOLEAN,
             Register(r, o, valid)
      PROVE  LogInv'
  <2>1. /\ \A q \in Requests : q # r => row'[q] = row[q]
        /\ row'[r].state = "authorized" /\ row'[r].broadcasts = 0
        /\ Append_Event(r, "execution_registered")
    BY <1>2, <1>t DEF Register, NoRow
  <2>2. row[r].broadcasts = 0
    BY <1>2 DEF Register, IInv, RowInv
  <2> QED
    BY <1>t, <1>e, <2>1, <2>2, KnownEvents, ChangeLogged
<1>3. ASSUME NEW r \in Requests, NEW s \in Signatures, PersistSignature(r, s) PROVE LogInv'
  <2>1. /\ \A q \in Requests : q # r => row'[q] = row[q]
        /\ row'[r].state = "signed" /\ row'[r].broadcasts = row[r].broadcasts
        /\ Append_Event(r, "signature_persisted")
    BY <1>3, <1>t DEF PersistSignature, Rows
  <2> QED
    BY <1>t, <1>e, <2>1, KnownEvents, ChangeLogged
<1>4. ASSUME NEW w \in Workers, NEW r \in Requests, ExecuteExpired(w, r) PROVE LogInv'
  <2>1. /\ \A q \in Requests : q # r => row'[q] = row[q]
        /\ row'[r].state = "expired_requires_new_prepare"
        /\ row'[r].broadcasts = row[r].broadcasts
        /\ Append_Event(r, "blockhash_expired_before_broadcast")
    BY <1>4, <1>t DEF ExecuteExpired, Rows
  <2> QED
    BY <1>t, <1>e, <2>1, KnownEvents, ChangeLogged
<1>5. ASSUME NEW w \in Workers, NEW r \in Requests, ExecuteIntent(w, r) PROVE LogInv'
  <2>1. /\ \A q \in Requests : q # r => row'[q] = row[q]
        /\ row'[r].state = "broadcast_in_flight"
        /\ row'[r].broadcasts = row[r].broadcasts + 1
        /\ Append_Event(r, "broadcast_intent_persisted")
    BY <1>5, <1>t DEF ExecuteIntent, Rows
  <2> QED
    BY <1>t, <1>e, <2>1, KnownEvents, ChangeLogged
<1>6. ASSUME NEW w \in Workers, NEW r \in Requests, RecoverBegin(w, r) PROVE LogInv'
  BY <1>1, <1>6, <1>t DEF RecoverBegin, Rows
<1>7. ASSUME NEW w \in Workers, ExecuteInjectedCrash(w) PROVE LogInv'
  <2>1. worker[w].request \in Requests
    BY <1>7, <1>t, CallFacts DEF ExecuteInjectedCrash
  <2> QED
    BY <1>7, <1>t, <1>e, <2>1, KnownEvents, TransitionLogged DEF ExecuteInjectedCrash
<1>8. ASSUME NEW w \in Workers, ExecuteOutcome(w) PROVE LogInv'
  <2>1. worker[w].request \in Requests /\ worker[w].result \in {"success", "unavailable", "unknown"}
    BY <1>8, <1>t, CallFacts DEF ExecuteOutcome
  <2>2. /\ OutcomeEvent(worker[w].result) \in DOMAIN StateAfter
        /\ OutcomeEvent(worker[w].result) \in EventTypes
        /\ OutcomeEvent(worker[w].result) # "broadcast_intent_persisted"
        /\ StateAfter[OutcomeEvent(worker[w].result)] = OutcomeState(worker[w].result)
    BY <1>e, <2>1, KnownEvents DEF OutcomeEvent, OutcomeState
  <2>3. Transition(worker[w].request, "broadcast_in_flight",
                   StateAfter[OutcomeEvent(worker[w].result)], OutcomeEvent(worker[w].result))
    BY <1>8, <2>2 DEF ExecuteOutcome
  <2> QED
    BY <1>t, <2>1, <2>2, <2>3, TransitionLogged
<1>9. ASSUME NEW w \in Workers, RecoverConfirmed(w) PROVE LogInv'
  <2>1. worker[w].request \in Requests
    BY <1>9, <1>t, CallFacts DEF RecoverConfirmed
  <2> QED
    BY <1>9, <1>t, <1>e, <2>1, KnownEvents, TransitionLogged DEF RecoverConfirmed
<1>10. ASSUME NEW w \in Workers, RecoverUnresolved(w) PROVE LogInv'
  <2> DEFINE r == worker[w].request
             type == IF worker[w].result = "unavailable"
                       THEN "recovery_source_unavailable" ELSE "recovery_outcome_still_unknown"
  <2>1. r \in Requests /\ type \in EventTypes /\ type \notin DOMAIN StateAfter
    BY <1>10, <1>t, CallFacts, KnownEvents DEF RecoverUnresolved, StateAfter
  <2>2. /\ row' = row /\ events'[r] = Append(events[r], type)
        /\ \A q \in Requests : q # r => events'[q] = events[q]
    BY <1>10, <1>t, <2>1 DEF RecoverUnresolved, Append_Event
  <2> HIDE DEF r, type
  <2>3. Explains(Append(events[r], type), row[r].state, row[r].broadcasts)
    BY <1>t, <2>1, ExplainedByAppend DEF LogInv
  <2>4. ASSUME NEW q \in Requests PROVE Explains(events'[q], row'[q].state, row'[q].broadcasts)
    <3>1. CASE q = r
      BY <2>2, <2>3, <3>1
    <3>2. CASE q # r
      BY <2>2, <3>2 DEF LogInv
    <3> QED
      BY <3>1, <3>2
  <2> QED
    BY <2>4 DEF LogInv, Explains, Changes, Intents
<1>11. CASE UNCHANGED <<row, events>>
  BY <1>1, <1>11
<1> QED
  BY <1>2, <1>3, <1>4, <1>5, <1>6, <1>7, <1>8, <1>9, <1>10, <1>11
  DEF Next, vars, BlockhashExpires, BroadcastNoEffect, BroadcastEffect, RecoverObserve, Crash

\* The hash-chained log alone tells the state and the broadcasts of every
\* execution, although recover() appends to it outside any transition and slow
\* recoveries do so after the verdict of a faster one.
THEOREM JournalExplainsStateHolds == Spec => []JournalExplainsState
<1>1. Init => LogInv
  <2> SUFFICES ASSUME Init, NEW r \in Requests
               PROVE  Explains(events[r], row[r].state, row[r].broadcasts)
    BY DEF LogInv
  <2>1. row[r].state = "absent" /\ row[r].broadcasts = 0 /\ Intents(events[r]) = {}
    BY DEF Init, NoRow, Intents
  <2> QED
    BY <2>1, FS_EmptySet DEF Explains
<1>2. LogInv => JournalExplainsState
  BY DEF LogInv, Explains, Changes, Intents, JournalExplainsState
<1> QED
  BY <1>1, <1>2, LogStep, Invariant, PTL DEF Spec

=============================================================================

------------------------------ MODULE FailureLab ------------------------------
(***************************************************************************)
(* The durable execution journal and its simulated chain                   *)
(* (services/failure_lab/lab.py).                                          *)
(*                                                                         *)
(* Every "BEGIN IMMEDIATE" transaction is one step; execute() is three     *)
(* (write-ahead intent, provider call, recorded outcome) and recover() is  *)
(* three (recovery attempt, observation, recorded verdict).  Workers run   *)
(* these calls concurrently on one database and may stop between any two   *)
(* steps.  A call that raises leaves the database as it found it, except   *)
(* where it commits first.                                                 *)
(***************************************************************************)
EXTENDS Integers, Sequences, FiniteSets

CONSTANTS
  Requests,      \* execution_request_id
  Obligations,
  Signatures,    \* a signature with its signed_transaction_hash
  Workers,       \* concurrent callers of execute() and recover()
  MaxRecoveries, \* bound on recovery_count
  None           \* SQL NULL

ASSUME LabAssumption ==
  /\ MaxRecoveries \in Nat
  /\ None \notin Requests \cup Obligations \cup Signatures

VARIABLES
  row,     \* executions, one row per request
  fresh,   \* requests whose blockhash_valid_until lies in the future
  events,  \* the event_type column of the hash-chained events of a request
  effects, \* SimulatedChain.effects: the accepted signature per obligation
  calls,   \* how often the provider was called for a request
  worker   \* the live execute() or recover() call of each worker: volatile

vars == <<row, fresh, events, effects, calls, worker>>

NoRow == [state |-> "absent", obligation |-> None, signature |-> None,
          broadcasts |-> 0, recoveries |-> 0]

Idle == [pc |-> "idle", request |-> None, result |-> None]

Init ==
  /\ row = [r \in Requests |-> NoRow]
  /\ fresh = {}
  /\ events = [r \in Requests |-> <<>>]
  /\ effects = [o \in Obligations |-> None]
  /\ calls = [r \in Requests |-> 0]
  /\ worker = [w \in Workers |-> Idle]

-----------------------------------------------------------------------------
\* _append_event: the new event commits with the row it explains.
Append_Event(r, type) == events' = [events EXCEPT ![r] = Append(@, type)]

\* _transition: raises, and changes nothing, unless the row is in `from`.
Transition(r, from, to, type) ==
  IF row[r].state = from
    THEN /\ row' = [row EXCEPT ![r] = [@ EXCEPT !.state = to]]
         /\ Append_Event(r, type)
    ELSE UNCHANGED <<row, events>>

\* register: an obligation is registered once, whatever became of it.
Register(r, o, valid) ==
  /\ \A q \in Requests : row[q].obligation # o
  /\ row[r].state = "absent"
  /\ row' = [row EXCEPT ![r] = [NoRow EXCEPT !.state = "authorized", !.obligation = o]]
  /\ fresh' = IF valid THEN fresh \cup {r} ELSE fresh
  /\ Append_Event(r, "execution_registered")
  /\ UNCHANGED <<effects, calls, worker>>

\* Mutant: a second signature replaces the persisted one.
MutPersistSignature(r, s) ==
  /\ row[r].state \in {"authorized", "signed", "needs_recovery"}
  /\ row' = [row EXCEPT ![r] =
       [row[r] EXCEPT !.signature = s, !.state = IF @ = "authorized" THEN "signed" ELSE @]]
  /\ Append_Event(r, "signature_persisted")
  /\ UNCHANGED <<fresh, effects, calls, worker>>

\* persist_signature: from "signed" it is idempotent or a conflict.
PersistSignature(r, s) ==
  /\ row[r].state = "authorized"
  /\ row' = [row EXCEPT ![r] = [@ EXCEPT !.state = "signed", !.signature = s]]
  /\ Append_Event(r, "signature_persisted")
  /\ UNCHANGED <<fresh, effects, calls, worker>>

\* The wall clock passes blockhash_valid_until.
BlockhashExpires(r) ==
  /\ r \in fresh
  /\ fresh' = fresh \ {r}
  /\ UNCHANGED <<row, events, effects, calls, worker>>

-----------------------------------------------------------------------------
(* execute()                                                               *)

\* The blockhash is overdue: recorded, committed, and then raised.
ExecuteExpired(w, r) ==
  /\ worker[w] = Idle
  /\ row[r].state = "signed"
  /\ r \notin fresh
  /\ row' = [row EXCEPT ![r] = [@ EXCEPT !.state = "expired_requires_new_prepare"]]
  /\ Append_Event(r, "blockhash_expired_before_broadcast")
  /\ UNCHANGED <<fresh, effects, calls, worker>>

\* Mutant: the intent is committed without leaving the state "signed".
MutExecuteIntent(w, r) ==
  /\ worker[w] = Idle
  /\ row[r].state = "signed"
  /\ r \in fresh
  /\ row' = [row EXCEPT ![r] = [row[r] EXCEPT !.broadcasts = @ + 1]]
  /\ Append_Event(r, "broadcast_intent_persisted")
  /\ worker' = [worker EXCEPT ![w] = [pc |-> "calling", request |-> r, result |-> None]]
  /\ UNCHANGED <<fresh, effects, calls>>

\* The write-ahead intent.
ExecuteIntent(w, r) ==
  /\ worker[w] = Idle
  /\ row[r].state = "signed"
  /\ r \in fresh
  /\ row' = [row EXCEPT ![r] = [row[r] EXCEPT !.state = "broadcast_in_flight",
                                              !.broadcasts = @ + 1]]
  /\ Append_Event(r, "broadcast_intent_persisted")
  /\ worker' = [worker EXCEPT ![w] = [pc |-> "calling", request |-> r, result |-> None]]
  /\ UNCHANGED <<fresh, effects, calls>>

\* The injected fault after_broadcast_intent_before_call.
ExecuteInjectedCrash(w) ==
  /\ worker[w].pc = "calling"
  /\ Transition(worker[w].request, "broadcast_in_flight", "needs_recovery",
                "broadcast_outcome_unknown")
  /\ worker' = [worker EXCEPT ![w] = Idle]
  /\ UNCHANGED <<fresh, effects, calls>>

\* SimulatedChain.broadcast refuses, or loses the request, without an effect.
BroadcastNoEffect(w, result) ==
  LET r == worker[w].request
  IN  /\ worker[w].pc = "calling"
      /\ result \in {"unavailable", "unknown"}
      /\ calls' = [calls EXCEPT ![r] = @ + 1]
      /\ worker' = [worker EXCEPT ![w] = [pc |-> "answered", request |-> r, result |-> result]]
      /\ UNCHANGED <<row, fresh, events, effects>>

\* SimulatedChain.broadcast accepts: the response arrives, or is lost.
BroadcastEffect(w, result) ==
  LET r == worker[w].request
      o == row[r].obligation
  IN  /\ worker[w].pc = "calling"
      /\ result \in {"success", "unknown"}
      /\ effects[o] \in {None, row[r].signature}
      /\ effects' = [effects EXCEPT ![o] = row[r].signature]
      /\ calls' = [calls EXCEPT ![r] = @ + 1]
      /\ worker' = [worker EXCEPT ![w] = [pc |-> "answered", request |-> r, result |-> result]]
      /\ UNCHANGED <<row, fresh, events>>

\* Mutant: a lost response is taken for a refusal.
MutOutcomeState(result) ==
  CASE result = "unavailable" -> "broadcast_failed_known"
    [] result = "unknown"     -> "broadcast_failed_known"
    [] result = "success"     -> "confirmed"

\* How execute() records what the provider call came to.
OutcomeState(result) ==
  CASE result = "unavailable" -> "broadcast_failed_known"
    [] result = "unknown"     -> "needs_recovery"
    [] result = "success"     -> "confirmed"

OutcomeEvent(result) ==
  CASE result = "unavailable" -> "broadcast_rejected_before_acceptance"
    [] result = "unknown"     -> "broadcast_outcome_unknown"
    [] result = "success"     -> "broadcast_confirmed"

ExecuteOutcome(w) ==
  /\ worker[w].pc = "answered"
  /\ Transition(worker[w].request, "broadcast_in_flight",
                OutcomeState(worker[w].result), OutcomeEvent(worker[w].result))
  /\ worker' = [worker EXCEPT ![w] = Idle]
  /\ UNCHANGED <<fresh, effects, calls>>

-----------------------------------------------------------------------------
(* recover()                                                               *)

\* From "confirmed" it returns at once; from any other state it raises.
RecoverBegin(w, r) ==
  /\ worker[w] = Idle
  /\ row[r].state = "needs_recovery"
  /\ row[r].recoveries < MaxRecoveries
  /\ row' = [row EXCEPT ![r] = [row[r] EXCEPT !.recoveries = @ + 1]]
  /\ worker' = [worker EXCEPT ![w] = [pc |-> "observing", request |-> r, result |-> None]]
  /\ UNCHANGED <<fresh, events, effects, calls>>

\* Mutant: an empty answer is read as proof of acceptance.
MutObservation(s) == {"unavailable", "unknown", "confirmed"}

\* SimulatedChain.observe: what a query for signature s can answer now.
Observation(s) ==
  {"unavailable", "unknown",
   IF \E o \in Obligations : effects[o] = s THEN "confirmed" ELSE "not_found"}

RecoverObserve(w) ==
  LET r == worker[w].request
  IN  /\ worker[w].pc = "observing"
      /\ \E seen \in Observation(row[r].signature) :
           worker' = [worker EXCEPT ![w] = [pc |-> "observed", request |-> r, result |-> seen]]
      /\ UNCHANGED <<row, fresh, events, effects, calls>>

RecoverConfirmed(w) ==
  /\ worker[w].pc = "observed"
  /\ worker[w].result = "confirmed"
  /\ Transition(worker[w].request, "needs_recovery", "confirmed",
                "recovery_confirmed_signature")
  /\ worker' = [worker EXCEPT ![w] = Idle]
  /\ UNCHANGED <<fresh, effects, calls>>

\* No verdict: only an event is appended, whatever the row's state is by now.
RecoverUnresolved(w) ==
  /\ worker[w].pc = "observed"
  /\ worker[w].result # "confirmed"
  /\ Append_Event(worker[w].request,
                  IF worker[w].result = "unavailable"
                    THEN "recovery_source_unavailable"
                    ELSE "recovery_outcome_still_unknown")
  /\ worker' = [worker EXCEPT ![w] = Idle]
  /\ UNCHANGED <<row, fresh, effects, calls>>

\* A worker process stops; the database and the chain remain.
Crash(w) ==
  /\ worker[w] # Idle
  /\ worker' = [worker EXCEPT ![w] = Idle]
  /\ UNCHANGED <<row, fresh, events, effects, calls>>

Next ==
  \/ \E r \in Requests, o \in Obligations, valid \in BOOLEAN : Register(r, o, valid)
  \/ \E r \in Requests, s \in Signatures : PersistSignature(r, s)
  \/ \E r \in Requests : BlockhashExpires(r)
  \/ \E w \in Workers, r \in Requests :
       ExecuteExpired(w, r) \/ ExecuteIntent(w, r) \/ RecoverBegin(w, r)
  \/ \E w \in Workers, result \in {"success", "unavailable", "unknown"} :
       BroadcastNoEffect(w, result) \/ BroadcastEffect(w, result)
  \/ \E w \in Workers :
       \/ ExecuteInjectedCrash(w) \/ ExecuteOutcome(w)
       \/ RecoverObserve(w) \/ RecoverConfirmed(w) \/ RecoverUnresolved(w)
       \/ Crash(w)

Spec == Init /\ [][Next]_vars

-----------------------------------------------------------------------------
States == {"absent", "authorized", "signed", "broadcast_in_flight", "needs_recovery",
           "broadcast_failed_known", "expired_requires_new_prepare", "confirmed"}

\* The state each state-changing event of the journal leads to.
StateAfter ==
  [execution_registered                 |-> "authorized",
   signature_persisted                  |-> "signed",
   broadcast_intent_persisted           |-> "broadcast_in_flight",
   blockhash_expired_before_broadcast   |-> "expired_requires_new_prepare",
   broadcast_outcome_unknown            |-> "needs_recovery",
   broadcast_rejected_before_acceptance |-> "broadcast_failed_known",
   broadcast_confirmed                  |-> "confirmed",
   recovery_confirmed_signature         |-> "confirmed"]

EventTypes ==
  DOMAIN StateAfter \cup {"recovery_source_unavailable", "recovery_outcome_still_unknown"}

Rows == [state : States, obligation : Obligations \cup {None},
         signature : Signatures \cup {None}, broadcasts : Nat, recoveries : Nat]

Calls ==
  {Idle} \cup
  [pc : {"calling", "observing"}, request : Requests, result : {None}] \cup
  [pc : {"answered"}, request : Requests, result : {"success", "unavailable", "unknown"}] \cup
  [pc : {"observed"}, request : Requests,
   result : {"unavailable", "unknown", "confirmed", "not_found"}]

\* Rows, events and calls are well formed, whatever the workers do.
TypeOK ==
  /\ row \in [Requests -> Rows]
  /\ fresh \subseteq Requests
  /\ events \in [Requests -> Seq(EventTypes)]
  /\ effects \in [Obligations -> Signatures \cup {None}]
  /\ calls \in [Requests -> Nat]
  /\ worker \in [Workers -> Calls]

\* The provider is invoked at most once for an execution, and never without a
\* durable intent, over crashes, restarts, recoveries and concurrent execute().
ProviderCalledOnce ==
  \A r \in Requests : calls[r] <= row[r].broadcasts /\ row[r].broadcasts <= 1

\* evidence()'s may_rematerialize.
MayRematerialize(r) ==
  row[r].state \in {"authorized", "signed", "broadcast_failed_known",
                    "expired_requires_new_prepare"}

\* Nothing was accepted for an obligation for which evidence() reports that a new
\* message may be made, and no call for it is under way; and where
\* docs/FAILURE_RECOVERY.md permits or requires a new preparation, the old message
\* is dead: whatever late answer or recovery comes, the state stays and nothing is
\* accepted for it any more.  In "signed", where the document forbids another
\* message although evidence() reports that one may be made, the persisted message
\* can still be broadcast: there the flag is no licence.
RematerializationIsSafe ==
  [][\A r \in Requests :
       MayRematerialize(r) =>
         /\ effects[row[r].obligation] = None
         /\ \A w \in Workers : worker[w].request = r => worker[w].pc # "calling"
         /\ row[r].state \notin {"authorized", "signed"} =>
              row'[r].state = row[r].state /\ effects'[row[r].obligation] = None]_vars

\* The hash-chained log alone explains the row: its last state-changing event
\* names the state, and it holds one intent per counted broadcast, although
\* slow recoveries append to it after the verdict of a faster one.
JournalExplainsState ==
  \A r \in Requests :
    LET log == events[r]
        changes == {i \in DOMAIN log : log[i] \in DOMAIN StateAfter}
    IN  /\ row[r].state # "absent" =>
             \E i \in changes :
               /\ \A j \in changes : j <= i
               /\ StateAfter[log[i]] = row[r].state
        /\ row[r].broadcasts =
             Cardinality({i \in DOMAIN log : log[i] = "broadcast_intent_persisted"})

Confirmed == {row[r].signature : r \in {q \in Requests : row[q].state = "confirmed"}}

Effect == INSTANCE EconomicEffect WITH
  Instruments <- Signatures, NoInstrument <- None, effect <- effects, confirmed <- Confirmed

\* The journal and the chain together implement the promise: one effect per
\* obligation, never undone, and a signature is reported as confirmed, by
\* execute() or by recover(), only after it took effect.
OneEconomicEffect == Effect!SpecEffect

=============================================================================

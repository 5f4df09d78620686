----------------------------- MODULE FakeExecutor -----------------------------
(***************************************************************************)
(* The persistent conformance executor and its stateless authorization     *)
(* authority (packages/external-execution-protocol, fake_executor.py),     *)
(* and the clients that prepare, obtain grants and present them, in any    *)
(* order and as often as they like.  Each operation is one immediate       *)
(* SQLite transaction; what raises is rolled back and has no action, and   *)
(* neither have status, recover and receipt, which only read.              *)
(***************************************************************************)
EXTENDS Integers, FiniteSets

CONSTANTS
  Requests,    \* execution_request_id
  Keys,        \* idempotency_key
  Obligations,
  AuthIds,     \* authorization_id
  Messages,    \* what else the fingerprint covers: plan, simulation, signer
  MaxGrants,   \* bound on the grants the authority signs
  Horizon,     \* the clock stops here
  None         \* SQL NULL

ASSUME ExecutorAssumption ==
  /\ Horizon \in Nat /\ MaxGrants \in Nat
  /\ None \notin Requests \cup Keys \cup AuthIds

VARIABLES
  now,         \* the wall clock
  executions,  \* table executions, one row per request
  consumed,    \* table authorization_consumptions: the request of each id
  effects,     \* table effects: the request applied for each obligation
  grants       \* authorizations the authority has signed

vars == <<now, executions, consumed, effects, grants>>

NoRow == [state |-> "absent", key |-> None, obligation |-> None, message |-> None,
          expiresAt |-> 0, authorization |-> None, receipt |-> None]

Init ==
  /\ now = 0
  /\ executions = [r \in Requests |-> NoRow]
  /\ consumed = [a \in AuthIds |-> None]
  /\ effects = [o \in Obligations |-> None]
  /\ grants = {}

\* The execution commitment the prepared row of request r stands for.
CommitmentHash(r) ==
  <<r, executions[r].obligation, executions[r].message, executions[r].expiresAt>>

Tick ==
  /\ now < Horizon
  /\ now' = now + 1
  /\ UNCHANGED <<executions, consumed, effects, grants>>

\* Mutant: the row is inserted without the expiry of the prepared execution.
MutPrepare(r, k, o, m, expiry) ==
  /\ expiry > now
  /\ executions[r].state = "absent"
  /\ \A q \in Requests : executions[q].key # k
  /\ effects[o] = None
  /\ executions' = [executions EXCEPT ![r] =
       [state |-> "prepared", key |-> k, obligation |-> o, message |-> m,
        expiresAt |-> None, authorization |-> None, receipt |-> None]]
  /\ UNCHANGED <<now, consumed, effects, grants>>

\* prepare: a known request or key either returns the stored row or conflicts;
\* neither writes.
Prepare(r, k, o, m, expiry) ==
  /\ expiry > now
  /\ executions[r].state = "absent"
  /\ \A q \in Requests : executions[q].key # k
  /\ effects[o] = None
  /\ executions' = [executions EXCEPT ![r] =
       [state |-> "prepared", key |-> k, obligation |-> o, message |-> m,
        expiresAt |-> expiry, authorization |-> None, receipt |-> None]]
  /\ UNCHANGED <<now, consumed, effects, grants>>

\* FakeAuthorizationAuthority.issue keeps no journal: any id for any prepared
\* execution, and any window.
IssueGrant(a, r, start, expiry) ==
  /\ Cardinality(grants) < MaxGrants
  /\ executions[r].state # "absent"
  /\ grants' = grants \cup
       {[id |-> a, request |-> r, commitment |-> CommitmentHash(r),
         message |-> executions[r].message, issuedAt |-> start, expiresAt |-> expiry]}
  /\ UNCHANGED <<now, executions, consumed, effects>>

\* _verify_binding, with the commitment rebuilt from the stored row.
VerifyBinding(g, r) ==
  /\ g.commitment = CommitmentHash(r)
  /\ g.message = executions[r].message
  /\ executions[r].expiresAt > now
  /\ g.expiresAt <= executions[r].expiresAt

\* Mutant: the effects table is not consulted before executing.
MutExecutable(g) ==
  /\ g.issuedAt <= now /\ g.expiresAt > now
  /\ consumed[g.id] = None
  /\ executions[g.request].state = "prepared"
  /\ VerifyBinding(g, g.request)

\* Everything authorize_and_execute verifies.  The intermediate state
\* "authorized" is written and overwritten inside one transaction.
Executable(g) ==
  /\ g.issuedAt <= now /\ g.expiresAt > now
  /\ consumed[g.id] = None
  /\ executions[g.request].state = "prepared"
  /\ VerifyBinding(g, g.request)
  /\ effects[executions[g.request].obligation] = None

\* Mutant: the consumption is not recorded.
MutAuthorizeAndExecute(g) ==
  LET r == g.request
  IN  /\ Executable(g)
      /\ executions' = [executions EXCEPT ![r] =
           [@ EXCEPT !.state = "confirmed", !.authorization = g.id,
                     !.receipt = g.commitment]]
      /\ effects' = [effects EXCEPT ![executions[r].obligation] = r]
      /\ UNCHANGED <<now, consumed, grants>>

\* authorize_and_execute: consumption, effect, receipt and state commit at
\* once; the response is returned or, under the injected fault, lost.
AuthorizeAndExecute(g) ==
  LET r == g.request
  IN  /\ Executable(g)
      /\ consumed' = [consumed EXCEPT ![g.id] = r]
      /\ executions' = [executions EXCEPT ![r] =
           [@ EXCEPT !.state = "confirmed", !.authorization = g.id,
                     !.receipt = g.commitment]]
      /\ effects' = [effects EXCEPT ![executions[r].obligation] = r]
      /\ UNCHANGED <<now, grants>>

\* Mutant: any known request is reported as confirmed.
MutRecoveryOutcome(r) ==
  IF executions[r].state = "absent" THEN "unknown" ELSE "confirmed"

\* recover's verdict; only failed_before_broadcast permits a new message.
RecoveryOutcome(r) ==
  CASE executions[r].state = "confirmed" -> "confirmed"
    [] executions[r].state = "prepared"  -> "failed_before_broadcast"
    [] OTHER                             -> "unknown"

Next ==
  \/ Tick
  \/ \E r \in Requests, k \in Keys, o \in Obligations, m \in Messages, x \in 1..Horizon :
       Prepare(r, k, o, m, x)
  \/ \E a \in AuthIds, r \in Requests, t \in 0..Horizon, x \in 1..Horizon :
       IssueGrant(a, r, t, x)
  \/ \E g \in grants : AuthorizeAndExecute(g)

Spec == Init /\ [][Next]_vars

-----------------------------------------------------------------------------
Commitments == Requests \X Obligations \X Messages \X Nat

Grants == [id : AuthIds, request : Requests, commitment : Commitments,
           message : Messages, issuedAt : Nat, expiresAt : Nat]

Rows == [state : {"absent", "prepared", "confirmed"}, key : Keys \cup {None},
         obligation : Obligations \cup {None}, message : Messages \cup {None},
         expiresAt : Nat, authorization : AuthIds \cup {None},
         receipt : Commitments \cup {None}]

\* The executor's tables hold well-formed rows.
TypeOK ==
  /\ now \in Nat
  /\ executions \in [Requests -> Rows]
  /\ consumed \in [AuthIds -> Requests \cup {None}]
  /\ effects \in [Obligations -> Requests \cup {None}]
  /\ grants \subseteq Grants

\* A consumed authorization, the execution that used it, its receipt and the
\* effect of its obligation are one fact: each determines the others, so a
\* replayed, shared or competing grant leaves no trace of its own.
ConsumptionMatchesEffect ==
  /\ \A a \in AuthIds :
       consumed[a] # None =>
         /\ executions[consumed[a]].authorization = a
         /\ effects[executions[consumed[a]].obligation] = consumed[a]
  /\ \A o \in Obligations :
       effects[o] # None =>
         LET row == executions[effects[o]]
         IN  /\ row.state = "confirmed"
             /\ row.obligation = o
             /\ consumed[row.authorization] = effects[o]
             /\ row.receipt = CommitmentHash(effects[o])

\* At every moment recover() would answer truly: "confirmed" exactly for the
\* request whose effect exists, and "failed_before_broadcast", which releases
\* the obligation for a new message, only while nothing of the request is
\* consumed or applied.
RecoveryTruthful ==
  \A r \in Requests :
    /\ RecoveryOutcome(r) = "confirmed" <=> \E o \in Obligations : effects[o] = r
    /\ RecoveryOutcome(r) = "failed_before_broadcast" =>
         \A a \in AuthIds : consumed[a] # r

Confirmed == {r \in Requests : executions[r].state = "confirmed"}

Effect == INSTANCE EconomicEffect WITH
  Instruments <- Requests, NoInstrument <- None, effect <- effects, confirmed <- Confirmed

\* The executor implements the promise, with the request as the instrument:
\* one effect per obligation, confirmed only when it was applied, however many
\* grants and requests compete for the obligation.
OneEconomicEffect == Effect!SpecEffect

=============================================================================

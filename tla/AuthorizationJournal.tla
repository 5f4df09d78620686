------------------------- MODULE AuthorizationJournal -------------------------
(***************************************************************************)
(* Foundry's execution-authorization authority and its SQLite journal      *)
(* (services/authorization/authority.py).                                  *)
(*                                                                         *)
(* Every operation takes the caller's timestamp.  The caller reads it,     *)
(* then validates, calls the signature provider and may wait for the       *)
(* database lock, so when the transaction commits the timestamp may be up  *)
(* to Lag seconds behind the clock.  Nothing shared is read in between:    *)
(* one action with a stale timestamp stands for the whole call.            *)
(*                                                                         *)
(* A call that raises inside "with connection" is rolled back, the writes  *)
(* it made before raising included; it changes nothing and has no action.  *)
(***************************************************************************)
EXTENDS Integers

CONSTANTS
  AuthIds,       \* authorization identifiers
  Expectations,  \* what Foundry itself expects: plan and execution request
  Prepared,      \* prepared executions an executor may return
  MaxTtl,        \* max_ttl_seconds
  Lag,           \* how far a caller's timestamp may trail the clock
  Horizon,       \* the clock stops here
  None           \* SQL NULL

ASSUME TimeAssumption == Lag \in Nat /\ MaxTtl \in Nat /\ Horizon \in Nat

ASSUME InputAssumption ==
  /\ \A e \in Expectations : e.expiresAt \in Nat
  /\ \A p \in Prepared : p.expiresAt \in Nat

ASSUME NoneAssumption == None \notin Nat

VARIABLES
  now,      \* the wall clock, in seconds
  journal,  \* execution_authorizations, one row per authorization_id
  expiring, \* ids a state() call has read as expired and not yet written
  released  \* the signed authorizations returned to callers

authorityVars == <<journal, expiring, released>>

-----------------------------------------------------------------------------
(* Digests are injective labels of what they digest.                       *)

PlanHash(e) == <<"economic_plan", e.obligation, e.expiresAt>>

MessageHash(m) == <<"prepared_message", m>>

Commitment(p, obligation) ==
  <<"commitment", p.request, obligation, p.planHash, p.messageHash, p.expiresAt>>

-----------------------------------------------------------------------------
AbsentRow == [state |-> "absent", obligation |-> None, fingerprint |-> None,
              grant |-> None, consumedAt |-> None]

\* The timestamps a caller may still be holding.
Recent == {t \in 0..now : now - t <= Lag}

Init_Authority ==
  /\ journal = [a \in AuthIds |-> AbsentRow]
  /\ expiring = {}
  /\ released = {}

\* Everything issue() verifies before it signs; each failure raises.
Admissible(e, p, t) ==
  /\ e.expiresAt > t
  /\ p.request = e.request
  /\ p.planHash = PlanHash(e)
  /\ p.messageHash = MessageHash(p.message)
  /\ p.simulationOk
  /\ p.simulatedAt <= t
  /\ p.validUntil > t
  /\ p.expiresAt > t
  /\ p.expiresAt <= e.expiresAt
  /\ p.expiresAt <= p.validUntil
  /\ p.commitment = Commitment(p, e.obligation)

\* The signed grant: its lifetime ends with the first of its inputs.
GrantFor(a, p, t, ttl) ==
  [id |-> a, request |-> p.request, commitment |-> p.commitment,
   messageHash |-> p.messageHash, issuedAt |-> t,
   expiresAt |-> IF t + ttl <= p.expiresAt THEN t + ttl ELSE p.expiresAt]

\* issue() first marks every overdue row of the table as expired.
Swept(t) ==
  [a \in AuthIds |->
     IF journal[a].state = "issued" /\ journal[a].grant.expiresAt <= t
       THEN [journal[a] EXCEPT !.state = "expired"]
       ELSE journal[a]]

\* Mutant: only the request is looked up, not the obligation.
MutActiveRows(table, request, obligation, t) ==
  {a \in AuthIds : /\ table[a].state = "issued"
                   /\ table[a].grant.expiresAt > t
                   /\ table[a].grant.request = request}

\* Rows that exclude another grant for this request or obligation.
ActiveRows(table, request, obligation, t) ==
  {a \in AuthIds :
     /\ table[a].state = "issued"
     /\ table[a].grant.expiresAt > t
     /\ \/ table[a].grant.request = request
        \/ table[a].obligation = obligation}

-----------------------------------------------------------------------------
(* ExecutionAuthorizationAuthority.issue, ending in AuthorizationJournal's *)
(* transaction: a new id is inserted; the same id with the same immutable  *)
(* inputs returns the stored grant.                                        *)

\* INSERT a row: the id is new and nothing active excludes it.
IssueNew(a, e, p, t, ttl) ==
  LET grant == GrantFor(a, p, t, ttl)
  IN  /\ t \in Recent
      /\ ttl \in 1..MaxTtl
      /\ Admissible(e, p, t)
      /\ journal[a].state = "absent"
      /\ ActiveRows(Swept(t), p.request, e.obligation, t) = {}
      /\ journal' = [Swept(t) EXCEPT ![a] =
                       [state |-> "issued", obligation |-> e.obligation,
                        fingerprint |-> [plan |-> e, prepared |-> p, grant |-> grant],
                        grant |-> grant, consumedAt |-> None]]
      /\ released' = released \cup {grant}
      /\ UNCHANGED <<now, expiring>>

\* The same inputs at the same second: only the sweep is written.
IssueAgain(a, e, p, t, ttl) ==
  /\ t \in Recent
  /\ ttl \in 1..MaxTtl
  /\ Admissible(e, p, t)
  /\ Swept(t)[a].state = "issued"
  /\ journal[a].fingerprint =
       [plan |-> e, prepared |-> p, grant |-> GrantFor(a, p, t, ttl)]
  /\ journal' = Swept(t)
  /\ released' = released \cup {journal[a].grant}
  /\ UNCHANGED <<now, expiring>>

\* AuthorizationJournal.consume: an overdue row raises, so the 'expired' it
\* has just written is rolled back and the row stays as it was.
Consume(a, t) ==
  /\ t \in Recent
  /\ journal[a].state = "issued"
  /\ journal[a].grant.expiresAt > t
  /\ journal' = [journal EXCEPT ![a] = [@ EXCEPT !.state = "consumed", !.consumedAt = t]]
  /\ UNCHANGED <<now, expiring, released>>

\* AuthorizationJournal.state opens no transaction: its SELECT and its UPDATE
\* are two steps, and the UPDATE does not look at the row again.
StateRead(a, t) ==
  /\ t \in Recent
  /\ journal[a].state = "issued"
  /\ journal[a].grant.expiresAt <= t
  /\ expiring' = expiring \cup {a}
  /\ UNCHANGED <<now, journal, released>>

StateWrite(a) ==
  /\ a \in expiring
  /\ journal' = [journal EXCEPT ![a] = [@ EXCEPT !.state = "expired"]]
  /\ expiring' = expiring \ {a}
  /\ UNCHANGED <<now, released>>

Tick ==
  /\ now < Horizon
  /\ now' = now + 1
  /\ UNCHANGED authorityVars

AuthorityNext ==
  \/ \E a \in AuthIds, e \in Expectations, p \in Prepared, t \in Recent, ttl \in 1..MaxTtl :
       \/ IssueNew(a, e, p, t, ttl)
       \/ IssueAgain(a, e, p, t, ttl)
  \/ \E a \in AuthIds, t \in Recent : Consume(a, t) \/ StateRead(a, t)
  \/ \E a \in AuthIds : StateWrite(a)

=============================================================================

----------------------------- MODULE SignerProofs -----------------------------
(***************************************************************************)
(* Proofs about AuthorizationJournal and SignerBoundary for any number of  *)
(* authorization ids, expectations and prepared executions, and any lag    *)
(* between a caller's timestamp and the clock.                             *)
(***************************************************************************)
EXTENDS SignerBoundary, TLAPS

(* The journal alone: what its rows say about the past.                    *)

\* A released grant is the one its row stores, and the stored inputs hash to
\* what the grant commits to.
GrantInv ==
  /\ \A g \in released : Issued(g.id) /\ journal[g.id].grant = g
  /\ \A a \in AuthIds :
       Issued(a) =>
         LET p == journal[a].fingerprint.prepared
         IN  /\ journal[a].grant.id = a
             /\ journal[a].grant.messageHash = MessageHash(p.message)
             /\ journal[a].grant.commitment = Commitment(p, journal[a].obligation)

\* A row that excludes nobody any more has its reason in the past.
HistoryInv ==
  /\ \A a \in AuthIds :
       /\ journal[a].consumedAt # None => journal[a].consumedAt <= now
       /\ journal[a].state = "issued" => journal[a].consumedAt = None
       /\ journal[a].state = "consumed" => journal[a].consumedAt # None
       /\ journal[a].state = "expired" /\ journal[a].consumedAt = None =>
            journal[a].grant.expiresAt <= now
  /\ \A a \in expiring : Issued(a) /\ journal[a].grant.expiresAt <= now

(* The signer: what a live call knows.                                     *)

\* The provider is asked once: before that the call is only claimed.
CallInv ==
  \A a \in AuthIds :
    /\ op[a].state = "absent" =>
         call[a] = Idle /\ asked[a] = 0 /\ \A s \in signatures : s.id # a
    /\ call[a].phase = "claimed" => asked[a] = 0
    /\ call[a].phase = "enveloped" => \E s \in signatures : s.id = a
    /\ asked[a] <= 1
    /\ op[a].state = "signed" => \E s \in signatures : s.id = a

\* A claimed message is the one the authority saw.
MessageInv ==
  /\ \A a \in AuthIds :
       call[a] # Idle =>
         Issued(a) /\ MessageHash(call[a].message) = journal[a].grant.messageHash
  /\ \A s \in signatures :
       Issued(s.id) /\ MessageHash(s.message) = journal[s.id].grant.messageHash

IInv == /\ TypeOK /\ GrantInv /\ HistoryInv /\ CallInv /\ MessageInv
        /\ AtMostOneActive /\ WindowsDisjoint

-----------------------------------------------------------------------------
\* The rows of execution_authorizations, column by column.
LEMMA RowFacts ==
  ASSUME NEW q \in Rows
  PROVE  /\ q.state \in {"absent", "issued", "expired", "consumed"}
         /\ q.consumedAt \in Nat \cup {None}
         /\ q.state = "absent" => q.consumedAt = None
         /\ q.state # "absent" =>
              /\ q.grant \in Grants /\ q.grant.issuedAt \in Nat /\ q.grant.expiresAt \in Nat
              /\ q.fingerprint.prepared \in Prepared
<1>1. CASE q = AbsentRow
  BY <1>1 DEF AbsentRow
<1>2. CASE q # AbsentRow
  BY <1>2 DEF Rows, Grants
<1> QED
  BY <1>1, <1>2

\* Expiring or consuming an issued row changes these columns and no other.
LEMMA RowUpdates ==
  ASSUME NEW q \in Rows, q.state # "absent"
  PROVE  /\ LET x == [q EXCEPT !.state = "expired"]
            IN  /\ x \in Rows /\ x.state = "expired" /\ x.obligation = q.obligation
                /\ x.fingerprint = q.fingerprint /\ x.grant = q.grant
                /\ x.consumedAt = q.consumedAt
         /\ \A n \in Nat :
              LET x == [q EXCEPT !.state = "consumed", !.consumedAt = n]
              IN  /\ x \in Rows /\ x.state = "consumed" /\ x.obligation = q.obligation
                  /\ x.fingerprint = q.fingerprint /\ x.grant = q.grant
                  /\ x.consumedAt = n
<1>1. q \in [state : {"issued", "expired", "consumed"},
            obligation : {e.obligation : e \in Expectations},
            fingerprint : [plan : Expectations, prepared : Prepared, grant : Grants],
            grant : Grants, consumedAt : Nat \cup {None}]
  BY DEF Rows, AbsentRow
<1>2. [q EXCEPT !.state = "expired"] \in Rows
  BY <1>1 DEF Rows
<1>3. \A n \in Nat : [q EXCEPT !.state = "consumed", !.consumedAt = n] \in Rows
  BY <1>1 DEF Rows
<1> QED
  BY <1>1, <1>2, <1>3

\* The sign() calls that may be under way.
LEMMA CallFacts ==
  /\ Idle \in Calls /\ Idle.phase = "idle"
  /\ \A m \in Messages, ph \in {"claimed", "enveloped", "failed"} :
       [phase |-> ph, message |-> m] \in Calls
  /\ \A c \in Calls :
       /\ c.phase \in {"idle", "claimed", "enveloped", "failed"}
       /\ c.phase = "idle" <=> c = Idle
       /\ c # Idle => c.message \in Messages
BY DEF Calls, Idle

\* The rows of signer_operations.
LEMMA OpFacts ==
  /\ AbsentOp \in Ops
  /\ \A h \in MessageHashes : [state |-> "signing", messageHash |-> h] \in Ops
  /\ \A o \in Ops : o.state \in {"absent", "signing", "signed", "needs_recovery"}
BY DEF Ops, AbsentOp

\* The age of a row: nothing happened to it, or it was marked as expired
\* when it was overdue.
Aged(b) ==
  \/ journal'[b] = journal[b]
  \/ /\ Issued(b) /\ journal[b].grant.expiresAt <= now
     /\ journal'[b] = [journal[b] EXCEPT !.state = "expired"]

\* A row that at most expired keeps every column but its state.
LEMMA AgedFacts ==
  ASSUME IInv, NEW b \in AuthIds, Aged(b)
  PROVE  /\ journal'[b] \in Rows
         /\ journal'[b].obligation = journal[b].obligation
         /\ journal'[b].fingerprint = journal[b].fingerprint
         /\ journal'[b].grant = journal[b].grant
         /\ journal'[b].consumedAt = journal[b].consumedAt
         /\ \/ journal'[b].state = journal[b].state
            \/ /\ journal'[b].state = "expired" /\ journal[b].state # "absent"
               /\ journal[b].grant.expiresAt <= now
<1>1. journal[b] \in Rows
  BY DEF IInv, TypeOK
<1>2. CASE journal'[b] = journal[b]
  BY <1>1, <1>2
<1>3. CASE /\ journal[b].state # "absent" /\ journal[b].grant.expiresAt <= now
           /\ journal'[b] = [journal[b] EXCEPT !.state = "expired"]
  <2> DEFINE x == [journal[b] EXCEPT !.state = "expired"]
  <2>1. /\ x \in Rows /\ x.state = "expired" /\ x.obligation = journal[b].obligation
        /\ x.fingerprint = journal[b].fingerprint /\ x.grant = journal[b].grant
        /\ x.consumedAt = journal[b].consumedAt
    BY <1>1, <1>3, RowUpdates
  <2>2. journal'[b] = x
    BY <1>3
  <2> HIDE DEF x
  <2> QED
    BY <1>3, <2>1, <2>2
<1> QED
  BY <1>2, <1>3 DEF Aged, Issued

\* issue()'s sweep ages the journal.
LEMMA SweptFacts ==
  ASSUME IInv, NEW t \in Recent, NEW b \in AuthIds
  PROVE  /\ \/ Swept(t)[b] = journal[b]
            \/ /\ journal[b].state = "issued" /\ journal[b].grant.expiresAt <= t
               /\ Swept(t)[b] = [journal[b] EXCEPT !.state = "expired"]
         /\ journal[b].state = "issued" /\ journal[b].grant.expiresAt > t =>
              Swept(t)[b] = journal[b]
         /\ t \in Nat /\ t <= now /\ now <= t + Lag
<1>1. now \in Nat
  BY DEF IInv, TypeOK
<1>2. t \in Nat /\ t <= now /\ now <= t + Lag
  BY <1>1, TimeAssumption DEF Recent
<1>3. journal[b] \in Rows
  BY DEF IInv, TypeOK
<1>4. \/ Swept(t)[b] = journal[b]
      \/ /\ journal[b].state = "issued" /\ journal[b].grant.expiresAt <= t
         /\ Swept(t)[b] = [journal[b] EXCEPT !.state = "expired"]
  BY DEF Swept
<1>5. journal[b].state = "issued" => journal[b].grant.expiresAt \in Nat
  BY <1>3, RowFacts
<1> QED
  BY <1>2, <1>4, <1>5 DEF Swept

\* A step that at most ages rows of the journal, and hands out stored grants
\* again, preserves the invariant: a second issue(), a state() call.
LEMMA AgeStep ==
  ASSUME IInv, now' = now, UNCHANGED signerVars,
         journal' \in [AuthIds -> Rows],
         \A b \in AuthIds : Aged(b),
         expiring' \subseteq AuthIds,
         \A b \in expiring' : Issued(b) /\ journal[b].grant.expiresAt <= now,
         \A g \in released' : g \in released \/ \E b \in AuthIds : Issued(b) /\ g = journal[b].grant
  PROVE  IInv'
<1>u. UNCHANGED <<op, call, signatures, asked>>
  BY DEF signerVars
<1>j. /\ now \in Nat /\ now' \in Nat
      /\ journal \in [AuthIds -> Rows]
      /\ released \subseteq Grants
  BY DEF IInv, TypeOK
<1>a. \A b \in AuthIds :
        /\ journal'[b].obligation = journal[b].obligation
        /\ journal'[b].fingerprint = journal[b].fingerprint
        /\ journal'[b].grant = journal[b].grant
        /\ journal'[b].consumedAt = journal[b].consumedAt
        /\ \/ journal'[b].state = journal[b].state
           \/ /\ journal'[b].state = "expired" /\ journal[b].state # "absent"
              /\ journal[b].grant.expiresAt <= now
  BY AgedFacts
<1>i. \A b \in AuthIds : Issued(b)' <=> Issued(b)
  BY <1>a DEF Issued
<1>r. \A b \in AuthIds : journal[b] \in Rows
  BY <1>j
<1>1. TypeOK'
  <2>1. released' \subseteq Grants
    BY <1>j, <1>r, RowFacts DEF Issued
  <2> QED
    BY <1>j, <1>u, <2>1 DEF IInv, TypeOK
<1>2. GrantInv'
  <2>1. ASSUME NEW g \in released'
        PROVE  Issued(g.id)' /\ journal'[g.id].grant = g
    <3>1. g.id \in AuthIds /\ Issued(g.id) /\ journal[g.id].grant = g
      BY <1>j DEF IInv, GrantInv, Grants
    <3> QED
      BY <1>a, <1>i, <3>1
  <2>2. ASSUME NEW b \in AuthIds, Issued(b)'
        PROVE  /\ journal'[b].grant.id = b
               /\ journal'[b].grant.messageHash =
                    MessageHash(journal'[b].fingerprint.prepared.message)
               /\ journal'[b].grant.commitment =
                    Commitment(journal'[b].fingerprint.prepared, journal'[b].obligation)
    BY <1>a, <1>i, <2>2 DEF IInv, GrantInv
  <2> QED
    BY <2>1, <2>2 DEF GrantInv, MessageHash, Commitment
<1>3. HistoryInv'
  <2>1. ASSUME NEW b \in AuthIds
        PROVE  HistoryInv!1!(b)'
    BY <1>a DEF IInv, HistoryInv
  <2>2. \A b \in expiring' : Issued(b)' /\ journal'[b].grant.expiresAt <= now'
    BY <1>a, <1>i
  <2> QED
    BY <2>1, <2>2 DEF HistoryInv
<1>4. CallInv'
  BY <1>u DEF IInv, CallInv
<1>5. MessageInv'
  <2>1. \A s \in signatures : s.id \in AuthIds
    BY DEF IInv, TypeOK
  <2> QED
    BY <1>a, <1>i, <1>u, <2>1 DEF IInv, MessageInv, MessageHash
<1>6. AtMostOneActive'
  BY <1>a DEF IInv, AtMostOneActive, Related
<1>7. WindowsDisjoint'
  BY <1>a, <1>i DEF IInv, WindowsDisjoint, Related, WindowEnd
<1> QED
  BY <1>1, <1>2, <1>3, <1>4, <1>5, <1>6, <1>7 DEF IInv

\* issue() inserts a row.
LEMMA IssueNewStep ==
  ASSUME IInv, NEW a \in AuthIds, NEW e \in Expectations, NEW p \in Prepared,
         NEW t \in Recent, NEW ttl \in 1..MaxTtl, IssueNew(a, e, p, t, ttl),
         UNCHANGED signerVars
  PROVE  IInv'
<1> DEFINE grant == GrantFor(a, p, t, ttl)
           new == [state |-> "issued", obligation |-> e.obligation,
                   fingerprint |-> [plan |-> e, prepared |-> p, grant |-> grant],
                   grant |-> grant, consumedAt |-> None]
<1>u. UNCHANGED <<op, call, signatures, asked>>
  BY DEF signerVars
<1>j. /\ now \in Nat
      /\ journal \in [AuthIds -> Rows]
      /\ released \subseteq Grants /\ expiring \subseteq AuthIds
  BY DEF IInv, TypeOK
<1>t. t \in Nat /\ t <= now /\ now <= t + Lag
  BY SweptFacts
<1>d. /\ Admissible(e, p, t)
      /\ journal[a].state = "absent"
      /\ ActiveRows(Swept(t), p.request, e.obligation, t) = {}
      /\ journal' = [Swept(t) EXCEPT ![a] = new]
      /\ released' = released \cup {grant}
      /\ UNCHANGED <<now, expiring>>
  BY DEF IssueNew
<1>g. /\ grant \in Grants /\ grant.id = a /\ grant.request = p.request
      /\ grant.messageHash = p.messageHash /\ grant.commitment = p.commitment
      /\ grant.issuedAt = t
  <2>1. p.expiresAt \in Nat /\ t + ttl \in Nat
    BY <1>t, InputAssumption, TimeAssumption
  <2> QED
    BY <1>t, <2>1 DEF GrantFor, Grants, Requests, Commitments, MessageHashes
<1>w. Swept(t) \in [AuthIds -> Rows]
  <2> SUFFICES ASSUME NEW b \in AuthIds PROVE Swept(t)[b] \in Rows
    BY DEF Swept
  <2>1. journal[b] \in Rows
    BY <1>j
  <2>2. journal[b].state = "issued" => [journal[b] EXCEPT !.state = "expired"] \in Rows
    BY <2>1, RowUpdates
  <2>3. \/ Swept(t)[b] = journal[b]
        \/ /\ journal[b].state = "issued"
           /\ Swept(t)[b] = [journal[b] EXCEPT !.state = "expired"]
    BY SweptFacts
  <2> QED
    BY <2>1, <2>2, <2>3
<1> HIDE DEF grant
<1>n. /\ journal'[a] = new
      /\ new \in Rows /\ new.state = "issued" /\ new.obligation = e.obligation
      /\ new.fingerprint.prepared = p /\ new.grant = grant /\ new.consumedAt = None
  BY <1>w, <1>d, <1>g DEF Rows
<1> HIDE DEF new
<1>o. \A b \in AuthIds : b # a => Aged(b)
  <2> SUFFICES ASSUME NEW b \in AuthIds, b # a PROVE Aged(b)
    OBVIOUS
  <2>1. journal'[b] = Swept(t)[b]
    BY <1>d, <1>w
  <2>2. journal[b].state = "issued" => journal[b].grant.expiresAt \in Nat
    BY <1>j, RowFacts
  <2>3. \/ Swept(t)[b] = journal[b]
        \/ /\ journal[b].state = "issued" /\ journal[b].grant.expiresAt <= t
           /\ Swept(t)[b] = [journal[b] EXCEPT !.state = "expired"]
    BY SweptFacts
  <2>4. journal[b].state = "issued" /\ journal[b].grant.expiresAt <= t =>
          Issued(b) /\ journal[b].grant.expiresAt <= now
    BY <1>t, <1>j, <2>2 DEF Issued
  <2> QED
    BY <2>1, <2>3, <2>4 DEF Aged
<1>b. \A b \in AuthIds \ {a} :
        /\ journal'[b].obligation = journal[b].obligation
        /\ journal'[b].fingerprint = journal[b].fingerprint
        /\ journal'[b].grant = journal[b].grant
        /\ journal'[b].consumedAt = journal[b].consumedAt
        /\ \/ journal'[b].state = journal[b].state
           \/ /\ journal'[b].state = "expired" /\ journal[b].state # "absent"
              /\ journal[b].grant.expiresAt <= now
  BY <1>o, AgedFacts
<1>i. /\ Issued(a)' /\ ~Issued(a)
      /\ \A b \in AuthIds \ {a} : Issued(b)' <=> Issued(b)
  BY <1>b, <1>d, <1>n DEF Issued
<1>x. \A b \in AuthIds \ {a} :
        journal[b].state = "issued" /\ journal[b].grant.expiresAt > t =>
          /\ journal[b].grant.request # p.request
          /\ journal[b].obligation # e.obligation
  BY <1>d, SweptFacts DEF ActiveRows
<1>1. TypeOK'
  <2>1. journal' \in [AuthIds -> Rows]
    BY <1>d, <1>w, <1>n
  <2> QED
    BY <1>d, <1>g, <1>j, <1>u, <2>1 DEF IInv, TypeOK
<1>2. GrantInv'
  <2>1. ASSUME NEW g \in released'
        PROVE  Issued(g.id)' /\ journal'[g.id].grant = g
    <3>1. CASE g \in released
      <4>1. g.id \in AuthIds /\ Issued(g.id) /\ journal[g.id].grant = g
        BY <1>j, <3>1 DEF IInv, GrantInv, Grants
      <4> QED
        BY <1>b, <1>i, <4>1
    <3>2. CASE g = grant
      BY <1>g, <1>i, <1>n, <3>2
    <3> QED
      BY <1>d, <3>1, <3>2
  <2>2. ASSUME NEW b \in AuthIds, Issued(b)'
        PROVE  /\ journal'[b].grant.id = b
               /\ journal'[b].grant.messageHash =
                    MessageHash(journal'[b].fingerprint.prepared.message)
               /\ journal'[b].grant.commitment =
                    Commitment(journal'[b].fingerprint.prepared, journal'[b].obligation)
    <3>1. CASE b = a
      BY <1>d, <1>g, <1>n, <3>1 DEF Admissible
    <3>2. CASE b # a
      BY <1>b, <1>i, <2>2, <3>2 DEF IInv, GrantInv
    <3> QED
      BY <3>1, <3>2
  <2> QED
    BY <2>1, <2>2 DEF GrantInv, MessageHash, Commitment
<1>3. HistoryInv'
  <2>1. ASSUME NEW b \in AuthIds
        PROVE  HistoryInv!1!(b)'
    <3>1. CASE b = a
      BY <1>n, <3>1
    <3>2. CASE b # a
      BY <1>b, <1>d, <3>2 DEF IInv, HistoryInv
    <3> QED
      BY <3>1, <3>2
  <2>2. \A b \in expiring' : Issued(b)' /\ journal'[b].grant.expiresAt <= now'
    BY <1>b, <1>d, <1>i, <1>j DEF IInv, HistoryInv
  <2> QED
    BY <2>1, <2>2 DEF HistoryInv
<1>4. CallInv'
  BY <1>u DEF IInv, CallInv
<1>5. MessageInv'
  <2>1. \A s \in signatures : s.id \in AuthIds
    BY DEF IInv, TypeOK
  <2> QED
    BY <1>b, <1>i, <1>u, <2>1 DEF IInv, MessageInv, MessageHash
<1>6. AtMostOneActive'
  <2> SUFFICES ASSUME NEW b \in AuthIds, NEW c \in AuthIds, b # c,
                      journal'[b].state = "issued", journal'[b].grant.expiresAt > now',
                      journal'[c].state = "issued", journal'[c].grant.expiresAt > now'
               PROVE  ~Related(b, c)'
    BY DEF AtMostOneActive
  <2>1. ASSUME NEW f \in AuthIds \ {a}, journal'[f].state = "issued",
               journal'[f].grant.expiresAt > now'
        PROVE  /\ journal[f].state = "issued" /\ journal[f].grant.expiresAt > now
               /\ journal[f].grant.expiresAt > t
    <3>1. journal[f].state = "issued" /\ journal[f].grant.expiresAt > now
      BY <1>b, <1>d, <2>1
    <3>2. journal[f].grant.expiresAt \in Nat
      BY <1>j, <3>1, RowFacts
    <3> QED
      BY <1>j, <1>t, <3>1, <3>2
  <2>2. CASE b # a /\ c # a
    BY <1>b, <2>1, <2>2 DEF IInv, AtMostOneActive, Related
  <2>3. CASE b = a
    BY <1>b, <1>g, <1>n, <1>x, <2>1, <2>3 DEF Related
  <2>4. CASE c = a
    BY <1>b, <1>g, <1>n, <1>x, <2>1, <2>4 DEF Related
  <2> QED
    BY <2>2, <2>3, <2>4
<1>7. WindowsDisjoint'
  <2>1. ASSUME NEW b \in AuthIds \ {a}, Issued(b), Related(a, b)' \/ Related(b, a)'
        PROVE  WindowEnd(b)' <= t + Lag
    <3>1. ~(journal[b].state = "issued" /\ journal[b].grant.expiresAt > t)
      BY <1>b, <1>g, <1>n, <1>x, <2>1 DEF Related
    <3>2. /\ journal[b].state \in {"issued", "expired", "consumed"}
          /\ journal[b].consumedAt \in Nat \cup {None}
          /\ journal[b].grant.expiresAt \in Nat
      BY <1>j, <2>1, RowFacts DEF Issued
    <3>3. journal'[b].consumedAt = journal[b].consumedAt /\ journal'[b].grant = journal[b].grant
      BY <1>b
    <3>4. CASE journal[b].consumedAt # None
      <4>1. journal[b].consumedAt <= now
        BY <3>4 DEF IInv, HistoryInv
      <4> QED
        BY <1>j, <1>t, <3>2, <3>3, <3>4, <4>1, TimeAssumption DEF WindowEnd
    <3>5. CASE journal[b].consumedAt = None
      <4>1. journal[b].grant.expiresAt <= t \/ journal[b].grant.expiresAt <= now
        BY <1>t, <3>1, <3>2, <3>5 DEF IInv, HistoryInv
      <4> QED
        BY <1>j, <1>t, <3>2, <3>3, <3>5, <4>1, TimeAssumption DEF WindowEnd
    <3> QED
      BY <3>4, <3>5
  <2> SUFFICES ASSUME NEW b \in AuthIds, NEW c \in AuthIds, b # c,
                      Issued(b)', Issued(c)', Related(b, c)'
               PROVE  \/ WindowEnd(b)' <= journal'[c].grant.issuedAt + Lag
                      \/ WindowEnd(c)' <= journal'[b].grant.issuedAt + Lag
    BY DEF WindowsDisjoint
  <2>2. CASE b # a /\ c # a
    BY <1>b, <1>i, <2>2 DEF IInv, WindowsDisjoint, Related, WindowEnd
  <2>3. CASE b = a
    BY <1>g, <1>i, <1>n, <2>1, <2>3
  <2>4. CASE c = a
    BY <1>g, <1>i, <1>n, <2>1, <2>4
  <2> QED
    BY <2>2, <2>3, <2>4
<1> QED
  BY <1>1, <1>2, <1>3, <1>4, <1>5, <1>6, <1>7 DEF IInv

\* consume() of a row that is neither overdue nor consumed.
LEMMA ConsumeStep ==
  ASSUME IInv, NEW a \in AuthIds, NEW t \in Recent, Consume(a, t), UNCHANGED signerVars
  PROVE  IInv'
<1>u. UNCHANGED <<op, call, signatures, asked>>
  BY DEF signerVars
<1>j. /\ now \in Nat
      /\ journal \in [AuthIds -> Rows]
      /\ released \subseteq Grants /\ expiring \subseteq AuthIds
  BY DEF IInv, TypeOK
<1>t. t \in Nat /\ t <= now /\ now <= t + Lag
  BY SweptFacts
<1>d. /\ journal[a].state = "issued" /\ journal[a].grant.expiresAt > t
      /\ journal' = [journal EXCEPT ![a] = [journal[a] EXCEPT !.state = "consumed",
                                                              !.consumedAt = t]]
      /\ UNCHANGED <<now, expiring, released>>
  BY DEF Consume
<1>b. \A b \in AuthIds \ {a} : journal'[b] = journal[b]
  BY <1>d, <1>j
<1>a. /\ journal'[a] \in Rows /\ journal'[a].state = "consumed"
      /\ journal'[a].obligation = journal[a].obligation
      /\ journal'[a].fingerprint = journal[a].fingerprint
      /\ journal'[a].grant = journal[a].grant /\ journal'[a].consumedAt = t
  <2>1. journal[a] \in Rows /\ journal[a].state # "absent"
    BY <1>j, <1>d
  <2>2. journal'[a] = [journal[a] EXCEPT !.state = "consumed", !.consumedAt = t]
    BY <1>d, <1>j
  <2> DEFINE x == [journal[a] EXCEPT !.state = "consumed", !.consumedAt = t]
  <2>3. /\ x \in Rows /\ x.state = "consumed" /\ x.obligation = journal[a].obligation
        /\ x.fingerprint = journal[a].fingerprint /\ x.grant = journal[a].grant
        /\ x.consumedAt = t
    BY <1>t, <2>1, RowUpdates
  <2> HIDE DEF x
  <2> QED
    BY <2>2, <2>3 DEF x
<1>i. \A b \in AuthIds : Issued(b)' <=> Issued(b)
  BY <1>a, <1>b, <1>d DEF Issued
<1>f. /\ journal[a].grant.expiresAt \in Nat /\ journal[a].consumedAt = None /\ t # None
  <2>1. journal[a].grant.expiresAt \in Nat
    BY <1>j, <1>d, RowFacts
  <2>2. journal[a].consumedAt = None
    BY <1>d DEF IInv, HistoryInv
  <2> QED
    BY <1>t, <2>1, <2>2, NoneAssumption
<1>1. TypeOK'
  <2>1. journal' \in [AuthIds -> Rows]
    BY <1>a, <1>d, <1>j
  <2> QED
    BY <1>d, <1>u, <2>1 DEF IInv, TypeOK
<1>2. GrantInv'
  <2>1. \A g \in released : g.id \in AuthIds
    BY <1>j DEF Grants
  <2> QED
    BY <1>a, <1>b, <1>d, <1>i, <2>1 DEF IInv, GrantInv, MessageHash, Commitment
<1>3. HistoryInv'
  <2>1. ASSUME NEW b \in AuthIds
        PROVE  HistoryInv!1!(b)'
    <3>1. CASE b = a
      BY <1>a, <1>d, <1>f, <1>t, <3>1
    <3>2. CASE b # a
      BY <1>b, <1>d, <3>2 DEF IInv, HistoryInv
    <3> QED
      BY <3>1, <3>2
  <2>2. \A b \in expiring' : Issued(b)' /\ journal'[b].grant.expiresAt <= now'
    BY <1>a, <1>b, <1>d, <1>i, <1>j DEF IInv, HistoryInv
  <2> QED
    BY <2>1, <2>2 DEF HistoryInv
<1>4. CallInv'
  BY <1>u DEF IInv, CallInv
<1>5. MessageInv'
  <2>1. \A s \in signatures : s.id \in AuthIds
    BY DEF IInv, TypeOK
  <2> QED
    BY <1>a, <1>b, <1>i, <1>u, <2>1 DEF IInv, MessageInv, MessageHash
<1>6. AtMostOneActive'
  BY <1>a, <1>b, <1>d DEF IInv, AtMostOneActive, Related
<1>7. WindowsDisjoint'
  <2>1. WindowEnd(a) = journal[a].grant.expiresAt /\ WindowEnd(a)' = t
    BY <1>a, <1>f DEF WindowEnd
  <2>2. \A b \in AuthIds \ {a} : WindowEnd(b)' = WindowEnd(b)
    BY <1>b DEF WindowEnd
  <2>3. \A b, c \in AuthIds : Related(b, c)' <=> Related(b, c)
    BY <1>a, <1>b DEF Related
  <2>4. \A b \in AuthIds : Issued(b) => journal'[b].grant = journal[b].grant
                                        /\ journal[b].grant.issuedAt \in Nat
    BY <1>a, <1>b, <1>j, RowFacts DEF Issued
  <2>5. \A n \in Nat : WindowEnd(a) <= n + Lag => WindowEnd(a)' <= n + Lag
    BY <1>d, <1>f, <1>t, <2>1, TimeAssumption
  <2> SUFFICES ASSUME NEW b \in AuthIds, NEW c \in AuthIds, b # c,
                      Issued(b), Issued(c), Related(b, c)
               PROVE  \/ WindowEnd(b)' <= journal'[c].grant.issuedAt + Lag
                      \/ WindowEnd(c)' <= journal'[b].grant.issuedAt + Lag
    BY <1>i, <2>3 DEF WindowsDisjoint
  <2>6. \/ WindowEnd(b) <= journal[c].grant.issuedAt + Lag
        \/ WindowEnd(c) <= journal[b].grant.issuedAt + Lag
    BY DEF IInv, WindowsDisjoint
  <2> QED
    BY <2>2, <2>4, <2>5, <2>6
<1> QED
  BY <1>1, <1>2, <1>3, <1>4, <1>5, <1>6, <1>7 DEF IInv

\* state() marks a row it read as overdue; by then anything may have happened.
LEMMA StateWriteStep ==
  ASSUME IInv, NEW a \in AuthIds, StateWrite(a), UNCHANGED signerVars
  PROVE  IInv'
<1>1. /\ journal \in [AuthIds -> Rows] /\ expiring \subseteq AuthIds
      /\ a \in expiring /\ Issued(a) /\ journal[a].grant.expiresAt <= now
      /\ journal' = [journal EXCEPT ![a] = [journal[a] EXCEPT !.state = "expired"]]
      /\ expiring' = expiring \ {a} /\ UNCHANGED <<now, released>>
  BY DEF StateWrite, IInv, TypeOK, HistoryInv
<1>2. [journal[a] EXCEPT !.state = "expired"] \in Rows
  BY <1>1, RowUpdates DEF Issued
<1>3. journal' \in [AuthIds -> Rows] /\ \A b \in AuthIds : Aged(b)
  BY <1>1, <1>2 DEF Aged
<1>4. \A b \in expiring' : Issued(b) /\ journal[b].grant.expiresAt <= now
  BY <1>1 DEF IInv, HistoryInv
<1> QED
  BY <1>1, <1>3, <1>4, AgeStep

\* issue() repeated with the inputs of a stored row writes only the sweep.
LEMMA IssueAgainStep ==
  ASSUME IInv, NEW a \in AuthIds, NEW e \in Expectations, NEW p \in Prepared,
         NEW t \in Recent, NEW ttl \in 1..MaxTtl, IssueAgain(a, e, p, t, ttl),
         UNCHANGED signerVars
  PROVE  IInv'
<1>1. /\ now \in Nat /\ journal \in [AuthIds -> Rows] /\ expiring \subseteq AuthIds
      /\ journal' = Swept(t) /\ released' = released \cup {journal[a].grant}
      /\ Swept(t)[a].state = "issued" /\ UNCHANGED <<now, expiring>>
  BY DEF IssueAgain, IInv, TypeOK
<1>2. ASSUME NEW b \in AuthIds
      PROVE  Aged(b) /\ journal'[b] \in Rows
  <2>1. journal[b].state = "issued" => journal[b].grant.expiresAt \in Nat
    BY <1>1, RowFacts
  <2>2. t \in Nat /\ t <= now
    BY SweptFacts
  <2>3. \/ journal'[b] = journal[b]
        \/ /\ journal[b].state = "issued" /\ journal[b].grant.expiresAt <= t
           /\ journal'[b] = [journal[b] EXCEPT !.state = "expired"]
    BY <1>1, SweptFacts
  <2>4. Aged(b)
    BY <1>1, <2>1, <2>2, <2>3 DEF Aged, Issued
  <2> QED
    BY <2>4, AgedFacts
<1>3. journal' \in [AuthIds -> Rows]
  BY <1>1, <1>2 DEF Swept
<1>4. Issued(a)
  <2>1. Swept(t)[a] = journal[a] \/ journal[a].state = "issued"
    BY SweptFacts
  <2> QED
    BY <1>1, <2>1 DEF Issued
<1>5. \A b \in expiring' : Issued(b) /\ journal[b].grant.expiresAt <= now
  BY <1>1 DEF IInv, HistoryInv
<1> QED
  BY <1>1, <1>2, <1>3, <1>4, <1>5, AgeStep

\* state() reads an overdue row and has not written it yet.
LEMMA StateReadStep ==
  ASSUME IInv, NEW a \in AuthIds, NEW t \in Recent, StateRead(a, t), UNCHANGED signerVars
  PROVE  IInv'
<1>1. /\ now \in Nat /\ journal \in [AuthIds -> Rows] /\ expiring \subseteq AuthIds
      /\ journal[a].state = "issued" /\ journal[a].grant.expiresAt <= t
      /\ expiring' = expiring \cup {a} /\ UNCHANGED <<now, journal, released>>
  BY DEF StateRead, IInv, TypeOK
<1>2. journal[a].grant.expiresAt \in Nat
  BY <1>1, RowFacts
<1>3. t \in Nat /\ t <= now
  BY SweptFacts
<1>4. \A b \in expiring' : Issued(b) /\ journal[b].grant.expiresAt <= now
  BY <1>1, <1>2, <1>3 DEF IInv, HistoryInv, Issued
<1>5. \A b \in AuthIds : Aged(b)
  BY <1>1 DEF Aged
<1> QED
  BY <1>1, <1>4, <1>5, AgeStep

\* The clock only lets grants run out.
LEMMA TickStep ==
  ASSUME IInv, Tick, UNCHANGED signerVars
  PROVE  IInv'
<1>1. /\ now \in Nat /\ now' = now + 1 /\ now' \in Nat /\ journal \in [AuthIds -> Rows]
      /\ UNCHANGED <<journal, expiring, released, op, call, signatures, asked>>
      /\ expiring \subseteq AuthIds
  BY DEF Tick, authorityVars, signerVars, IInv, TypeOK
<1>2. \A a \in AuthIds : /\ journal[a].consumedAt \in Nat \cup {None}
                         /\ Issued(a) => journal[a].grant.expiresAt \in Nat
  BY <1>1, RowFacts DEF Issued
<1>3. TypeOK'
  BY <1>1 DEF IInv, TypeOK
<1>4. GrantInv' /\ CallInv' /\ MessageInv' /\ WindowsDisjoint'
  BY <1>1 DEF IInv, GrantInv, CallInv, MessageInv, WindowsDisjoint, Issued, Related, WindowEnd,
              MessageHash, Commitment
<1>5. HistoryInv'
  BY <1>1, <1>2, NoneAssumption DEF IInv, HistoryInv, Issued
<1>6. AtMostOneActive'
  BY <1>1, <1>2 DEF IInv, AtMostOneActive, Related, Issued
<1> QED
  BY <1>3, <1>4, <1>5, <1>6 DEF IInv

\* Every step of sign(), of its provider and of a crash preserves the invariant.
LEMMA SignerStep ==
  ASSUME IInv, SignerNext, UNCHANGED <<now, authorityVars>>
  PROVE  IInv'
<1>u. UNCHANGED <<now, journal, expiring, released>>
  BY DEF authorityVars
<1>t. /\ op \in [AuthIds -> Ops] /\ call \in [AuthIds -> Calls]
      /\ signatures \subseteq [id : AuthIds, message : Messages]
      /\ asked \in [AuthIds -> Nat] /\ released \subseteq Grants
  BY DEF IInv, TypeOK
<1>f. ASSUME /\ op' \in [AuthIds -> Ops] /\ call' \in [AuthIds -> Calls]
             /\ signatures' \subseteq [id : AuthIds, message : Messages]
             /\ asked' \in [AuthIds -> Nat],
             CallInv', MessageInv'
      PROVE  IInv'
  BY <1>u, <1>f DEF IInv, TypeOK, GrantInv, HistoryInv, AtMostOneActive, WindowsDisjoint,
                    Issued, Related, WindowEnd, MessageHash, Commitment
<1>1. ASSUME NEW g \in released, NEW p \in Prepared, NEW t \in Recent, Claim(g, p, t)
      PROVE  IInv'
  <2>1. PICK a \in AuthIds : a = g.id
    BY <1>t DEF Grants
  <2>2. /\ op[a].state = "absent" /\ Bound(g, p, t)
        /\ op' = [op EXCEPT ![a] = [state |-> "signing", messageHash |-> g.messageHash]]
        /\ call' = [call EXCEPT ![a] = [phase |-> "claimed", message |-> p.message]]
        /\ UNCHANGED <<signatures, asked>>
    BY <1>1, <2>1 DEF Claim
  <2>3. op' \in [AuthIds -> Ops] /\ call' \in [AuthIds -> Calls]
    <3>1. g.messageHash \in MessageHashes /\ p.message \in Messages
      BY <1>t DEF Grants, Messages
    <3> QED
      BY <1>t, <2>2, <3>1, OpFacts, CallFacts
  <2>4. /\ op'[a].state = "signing" /\ call'[a].phase = "claimed"
        /\ call'[a].message = p.message
        /\ \A b \in AuthIds \ {a} : op'[b] = op[b] /\ call'[b] = call[b]
    BY <1>t, <2>2
  <2>5. CallInv'
    BY <2>2, <2>4 DEF IInv, CallInv
  <2>6. Issued(a) /\ journal[a].grant = g /\ MessageHash(p.message) = g.messageHash
    BY <2>1, <2>2 DEF IInv, GrantInv, Bound
  <2>7. MessageInv'
    BY <1>u, <2>2, <2>4, <2>6 DEF IInv, MessageInv, Issued, MessageHash
  <2> QED
    BY <1>f, <1>t, <2>2, <2>3, <2>5, <2>7
<1>2. ASSUME NEW a \in AuthIds, ProviderSigns(a) \/ ProviderFails(a)
      PROVE  IInv'
  <2> DEFINE s == [id |-> a, message |-> call[a].message]
  <2>1. /\ call[a].phase = "claimed" /\ UNCHANGED op
        /\ asked' = [asked EXCEPT ![a] = @ + 1]
        /\ \/ /\ signatures' = signatures \cup {s}
              /\ call' = [call EXCEPT ![a] = [call[a] EXCEPT !.phase = "enveloped"]]
           \/ /\ signatures' = signatures \/ signatures' = signatures \cup {s}
              /\ call' = [call EXCEPT ![a] = [call[a] EXCEPT !.phase = "failed"]]
    BY <1>2 DEF ProviderSigns, ProviderFails
  <2>2. call[a] \in Calls /\ call[a] # Idle /\ call[a].message \in Messages
    BY <1>t, <2>1, CallFacts
  <2>3. \A ph \in {"enveloped", "failed"} :
          LET x == [call[a] EXCEPT !.phase = ph]
          IN  x \in Calls /\ x.phase = ph /\ x.message = call[a].message /\ x # Idle
    BY <2>2 DEF Calls, Idle
  <2>4. /\ call' \in [AuthIds -> Calls] /\ call'[a].phase \in {"enveloped", "failed"}
        /\ call'[a].message = call[a].message
        /\ call'[a].phase = "enveloped" => s \in signatures'
        /\ \A b \in AuthIds \ {a} : call'[b] = call[b]
    BY <1>t, <2>1, <2>3
  <2>5. /\ signatures \subseteq signatures' /\ signatures' \subseteq signatures \cup {s}
    BY <2>1
  <2>6. /\ asked' \in [AuthIds -> Nat] /\ asked'[a] = asked[a] + 1
        /\ \A b \in AuthIds \ {a} : asked'[b] = asked[b]
    BY <1>t, <2>1
  <2>7. s \in [id : AuthIds, message : Messages] /\ s.id = a /\ s.message = call[a].message
    BY <2>2
  <2>8. Issued(a) /\ MessageHash(call[a].message) = journal[a].grant.messageHash
    BY <2>2 DEF IInv, MessageInv
  <2>9. op[a].state # "absent" /\ asked[a] = 0
    BY <2>1, <2>2 DEF IInv, CallInv
  <2> HIDE DEF s
  <2>10. CallInv'
    BY <2>1, <2>4, <2>5, <2>6, <2>7, <2>9 DEF IInv, CallInv
  <2>11. MessageInv'
    BY <1>u, <2>4, <2>5, <2>7, <2>8 DEF IInv, MessageInv, Issued, MessageHash
  <2> QED
    BY <1>f, <1>t, <2>1, <2>4, <2>5, <2>6, <2>7, <2>10, <2>11
<1>3. ASSUME NEW a \in AuthIds, Complete(a) \/ MarkNeedsRecovery(a)
      PROVE  IInv'
  <2>1. /\ call[a] # Idle /\ op[a] \in Ops
        /\ call' = [call EXCEPT ![a] = Idle] /\ UNCHANGED <<signatures, asked>>
    BY <1>3, <1>t, CallFacts DEF Complete, MarkNeedsRecovery
  <2>2. op[a].state # "absent"
    BY <2>1 DEF IInv, CallInv
  <2>3. PICK st \in {"signing", "signed", "needs_recovery"} :
          /\ op' = [op EXCEPT ![a] = [op[a] EXCEPT !.state = st]]
          /\ st = "signed" => call[a].phase = "enveloped" \/ op[a].state = "signed"
    <3>1. CASE Complete(a)
      BY <3>1 DEF Complete
    <3>2. CASE MarkNeedsRecovery(a)
      <4>1. op[a].state \in {"signing", "signed", "needs_recovery"}
        BY <2>1, <2>2, OpFacts
      <4> QED
        BY <3>2, <4>1 DEF MarkNeedsRecovery
    <3> QED
      BY <1>3, <3>1, <3>2
  <2>4. [op[a] EXCEPT !.state = st] \in Ops /\ [op[a] EXCEPT !.state = st].state = st
    BY <2>1, <2>2 DEF Ops, AbsentOp
  <2>5. /\ op' \in [AuthIds -> Ops] /\ op'[a].state = st
        /\ \A b \in AuthIds \ {a} : op'[b] = op[b]
    BY <1>t, <2>3, <2>4
  <2>6. /\ call' \in [AuthIds -> Calls] /\ call'[a] = Idle /\ call'[a].phase = "idle"
        /\ \A b \in AuthIds \ {a} : call'[b] = call[b]
    BY <1>t, <2>1, CallFacts
  <2>7. CallInv'
    BY <2>1, <2>2, <2>3, <2>5, <2>6 DEF IInv, CallInv
  <2>8. MessageInv'
    BY <1>u, <2>1, <2>6 DEF IInv, MessageInv, Issued, MessageHash
  <2> QED
    BY <1>f, <1>t, <2>1, <2>5, <2>6, <2>7, <2>8
<1>4. CASE Crash
  <2>1. /\ call' = [a \in AuthIds |-> Idle] /\ UNCHANGED <<op, signatures, asked>>
    BY <1>4 DEF Crash
  <2>2. /\ call' \in [AuthIds -> Calls]
        /\ \A a \in AuthIds : call'[a] = Idle /\ call'[a].phase = "idle"
    BY <2>1, CallFacts
  <2>3. CallInv'
    BY <2>1, <2>2 DEF IInv, CallInv
  <2>4. MessageInv'
    BY <1>u, <2>1, <2>2 DEF IInv, MessageInv, Issued, MessageHash
  <2> QED
    BY <1>f, <1>t, <2>1, <2>2, <2>3, <2>4
<1> QED
  BY <1>1, <1>2, <1>3, <1>4 DEF SignerNext

\* Empty journals satisfy the invariant.
LEMMA InvInit == Init => IInv
<1> SUFFICES ASSUME Init PROVE IInv
  OBVIOUS
<1>1. TypeOK
  BY CallFacts, OpFacts DEF Init, Init_Authority, TypeOK, Rows
<1>2. \A a \in AuthIds : ~Issued(a) /\ journal[a].state = "absent" /\ journal[a].consumedAt = None
  BY DEF Init, Init_Authority, Issued, AbsentRow
<1>3. GrantInv /\ HistoryInv
  BY <1>2 DEF Init, Init_Authority, GrantInv, HistoryInv
<1>4. CallInv /\ MessageInv
  BY DEF Init, CallInv, MessageInv, AbsentOp, Idle
<1>5. AtMostOneActive /\ WindowsDisjoint
  BY <1>2 DEF AtMostOneActive, WindowsDisjoint
<1> QED
  BY <1>1, <1>3, <1>4, <1>5 DEF IInv

\* Every step of the authority, the signer and the clock preserves the invariant.
LEMMA InvStep == IInv /\ [Next]_vars => IInv'
<1> SUFFICES ASSUME IInv, [Next]_vars PROVE IInv'
  OBVIOUS
<1>1. CASE Tick /\ UNCHANGED signerVars
  BY <1>1, TickStep
<1>2. CASE AuthorityNext /\ UNCHANGED signerVars
  BY <1>2, IssueNewStep, IssueAgainStep, ConsumeStep, StateReadStep, StateWriteStep
  DEF AuthorityNext
<1>3. CASE SignerNext /\ UNCHANGED <<now, authorityVars>>
  BY <1>3, SignerStep
<1>4. CASE UNCHANGED vars
  <2>1. UNCHANGED <<now, journal, expiring, released>> /\ UNCHANGED signerVars
    BY <1>4 DEF vars, signerVars
  <2>2. /\ journal \in [AuthIds -> Rows] /\ expiring \subseteq AuthIds
        /\ \A b \in AuthIds : Aged(b)
        /\ \A b \in expiring : Issued(b) /\ journal[b].grant.expiresAt <= now
    BY <2>1 DEF IInv, TypeOK, HistoryInv, Aged
  <2> QED
    BY <2>1, <2>2, AgeStep
<1> QED
  BY <1>1, <1>2, <1>3, <1>4 DEF Next

\* The invariant, type correctness included, holds in every reachable state.
THEOREM Invariant == Spec => []IInv
  BY InvInit, InvStep, PTL DEF Spec

\* The two tables hold well-formed rows in every reachable state.
THEOREM TypeCorrect == Spec => []TypeOK
<1>1. IInv => TypeOK
  BY DEF IInv
<1> QED
  BY <1>1, Invariant, PTL

\* However late concurrent issue(), consume() and state() calls commit, at most
\* one live grant exists for a request or an obligation.
THEOREM AtMostOneActiveHolds == Spec => []AtMostOneActive
<1>1. IInv => AtMostOneActive
  BY DEF IInv
<1> QED
  BY <1>1, Invariant, PTL

\* Over the whole history, two grants for one request or obligation overlap by
\* at most the age of a caller's timestamp.
THEOREM WindowsDisjointHolds == Spec => []WindowsDisjoint
<1>1. IInv => WindowsDisjoint
  BY DEF IInv
<1> QED
  BY <1>1, Invariant, PTL

\* One grant reaches the signing provider at most once.
THEOREM ProviderAskedOnceHolds == Spec => []ProviderAskedOnce
<1>1. IInv => ProviderAskedOnce
  BY DEF IInv, CallInv, ProviderAskedOnce
<1> QED
  BY <1>1, Invariant, PTL

\* Only the message bytes the authority saw are ever signed under a grant.
THEOREM ExactMessageSignedHolds == Spec => []ExactMessageSigned
<1>1. IInv => ExactMessageSigned
  <2> SUFFICES ASSUME IInv, NEW s \in signatures
               PROVE  /\ Issued(s.id)
                      /\ s.message = journal[s.id].fingerprint.prepared.message
                      /\ journal[s.id].grant.commitment =
                           Commitment(journal[s.id].fingerprint.prepared,
                                      journal[s.id].obligation)
    BY DEF ExactMessageSigned
  <2>1. s.id \in AuthIds
    BY DEF IInv, TypeOK
  <2>2. Issued(s.id) /\ MessageHash(s.message) = journal[s.id].grant.messageHash
    BY DEF IInv, MessageInv
  <2>3. /\ journal[s.id].grant.messageHash =
             MessageHash(journal[s.id].fingerprint.prepared.message)
        /\ journal[s.id].grant.commitment =
             Commitment(journal[s.id].fingerprint.prepared, journal[s.id].obligation)
    BY <2>1, <2>2 DEF IInv, GrantInv
  <2>4. s.message = journal[s.id].fingerprint.prepared.message
    BY <2>2, <2>3 DEF MessageHash
  <2> QED
    BY <2>2, <2>3, <2>4
<1> QED
  BY <1>1, Invariant, PTL

\* What the signer's journal reports of a signature is true.
THEOREM SignerStatusTruthfulHolds == Spec => []SignerStatusTruthful
<1>1. IInv => SignerStatusTruthful
  BY DEF IInv, CallInv, SignerStatusTruthful
<1> QED
  BY <1>1, Invariant, PTL

=============================================================================

---------------------------- MODULE SignerBoundary ----------------------------
(***************************************************************************)
(* The exact-message signer (services/signer/boundary.py) at work on the   *)
(* grants of the authority (AuthorizationJournal).                         *)
(*                                                                         *)
(* ExactMessageSigner.sign is four steps: the checks and the durable       *)
(* claim; the call of the external signing provider; the durable           *)
(* completion; or, when either raises, the durable "needs_recovery".  The  *)
(* signer process may stop between any two of them.                        *)
(***************************************************************************)
EXTENDS AuthorizationJournal

VARIABLES
  op,         \* signer_operations, one row per authorization_id
  call,       \* the live sign() call of an id: volatile
  signatures, \* what the signing provider has ever signed (external)
  asked       \* how often the provider was called for an id (external)

signerVars == <<op, call, signatures, asked>>

vars == <<now, journal, expiring, released, op, call, signatures, asked>>

AbsentOp == [state |-> "absent", messageHash |-> None]

Idle == [phase |-> "idle", message |-> None]

Init ==
  /\ now = 0
  /\ Init_Authority
  /\ op = [a \in AuthIds |-> AbsentOp]
  /\ call = [a \in AuthIds |-> Idle]
  /\ signatures = {}
  /\ asked = [a \in AuthIds |-> 0]

\* Mutant: sign() trusts the hash that comes with the message.
MutBound(g, p, t) ==
  /\ g.issuedAt <= t /\ g.expiresAt > t
  /\ p.request = g.request
  /\ p.commitment = g.commitment
  /\ p.messageHash = g.messageHash

\* What sign() verifies of the grant and of the prepared execution presented
\* with it, which need not be the one the authority saw.
Bound(g, p, t) ==
  /\ g.issuedAt <= t
  /\ g.expiresAt > t
  /\ p.request = g.request
  /\ p.commitment = g.commitment
  /\ p.messageHash = g.messageHash
  /\ MessageHash(p.message) = g.messageHash

\* Mutant: an operation that needs recovery may be claimed again.
MutClaim(g, p, t) ==
  /\ t \in Recent
  /\ g \in released
  /\ Bound(g, p, t)
  /\ op[g.id].state \in {"absent", "needs_recovery"}
  /\ op' = [op EXCEPT ![g.id] = [state |-> "signing", messageHash |-> g.messageHash]]
  /\ call' = [call EXCEPT ![g.id] = [phase |-> "claimed", message |-> p.message]]
  /\ UNCHANGED <<signatures, asked>>

\* SignerJournal.claim: an id that already has a row raises, whatever its state.
Claim(g, p, t) ==
  /\ t \in Recent
  /\ g \in released
  /\ Bound(g, p, t)
  /\ op[g.id].state = "absent"
  /\ op' = [op EXCEPT ![g.id] = [state |-> "signing", messageHash |-> g.messageHash]]
  /\ call' = [call EXCEPT ![g.id] = [phase |-> "claimed", message |-> p.message]]
  /\ UNCHANGED <<signatures, asked>>

\* The provider signs and its envelope comes back.
ProviderSigns(a) ==
  /\ call[a].phase = "claimed"
  /\ signatures' = signatures \cup {[id |-> a, message |-> call[a].message]}
  /\ asked' = [asked EXCEPT ![a] = @ + 1]
  /\ call' = [call EXCEPT ![a] = [@ EXCEPT !.phase = "enveloped"]]
  /\ UNCHANGED op

\* The provider raises or returns an invalid envelope, having signed or not.
ProviderFails(a) ==
  /\ call[a].phase = "claimed"
  /\ signatures' \in {signatures,
                      signatures \cup {[id |-> a, message |-> call[a].message]}}
  /\ asked' = [asked EXCEPT ![a] = @ + 1]
  /\ call' = [call EXCEPT ![a] = [@ EXCEPT !.phase = "failed"]]
  /\ UNCHANGED op

\* Mutant: a provider call that raised is completed like a good one.
MutComplete(a) ==
  /\ call[a].phase \in {"enveloped", "failed"}
  /\ op[a].state = "signing"
  /\ op' = [op EXCEPT ![a] = [@ EXCEPT !.state = "signed"]]
  /\ call' = [call EXCEPT ![a] = Idle]
  /\ UNCHANGED <<signatures, asked>>

\* SignerJournal.complete, and sign() returns the receipt.
Complete(a) ==
  /\ call[a].phase = "enveloped"
  /\ op[a].state = "signing"
  /\ op' = [op EXCEPT ![a] = [@ EXCEPT !.state = "signed"]]
  /\ call' = [call EXCEPT ![a] = Idle]
  /\ UNCHANGED <<signatures, asked>>

\* SignerJournal.mark_needs_recovery: the provider failed, or complete raised.
MarkNeedsRecovery(a) ==
  /\ call[a].phase \in {"failed", "enveloped"}
  /\ op' = [op EXCEPT ![a] =
              [op[a] EXCEPT !.state = IF @ = "signing" THEN "needs_recovery" ELSE @]]
  /\ call' = [call EXCEPT ![a] = Idle]
  /\ UNCHANGED <<signatures, asked>>

\* The signer process stops; only the journal survives.
Crash ==
  /\ \E a \in AuthIds : call[a] # Idle
  /\ call' = [a \in AuthIds |-> Idle]
  /\ UNCHANGED <<op, signatures, asked>>

SignerNext ==
  \/ \E g \in released, p \in Prepared, t \in Recent : Claim(g, p, t)
  \/ \E a \in AuthIds :
       ProviderSigns(a) \/ ProviderFails(a) \/ Complete(a) \/ MarkNeedsRecovery(a)
  \/ Crash

Next ==
  \/ Tick /\ UNCHANGED signerVars
  \/ AuthorityNext /\ UNCHANGED signerVars
  \/ SignerNext /\ UNCHANGED <<now, authorityVars>>

Spec == Init /\ [][Next]_vars

-----------------------------------------------------------------------------
Requests == {p.request : p \in Prepared}
Messages == {p.message : p \in Prepared}
Commitments == {p.commitment : p \in Prepared}
MessageHashes == {p.messageHash : p \in Prepared}

Grants == [id : AuthIds, request : Requests, commitment : Commitments,
           messageHash : MessageHashes, issuedAt : Nat, expiresAt : Nat]

Rows == {AbsentRow} \cup
        [state : {"issued", "expired", "consumed"},
         obligation : {e.obligation : e \in Expectations},
         fingerprint : [plan : Expectations, prepared : Prepared, grant : Grants],
         grant : Grants, consumedAt : Nat \cup {None}]

Ops == {AbsentOp} \cup
       [state : {"signing", "signed", "needs_recovery"}, messageHash : MessageHashes]

Calls == {Idle} \cup [phase : {"claimed", "enveloped", "failed"}, message : Messages]

\* The journal's and the signer's tables hold well-formed rows, whatever the
\* callers and the signing provider do.
TypeOK ==
  /\ now \in Nat
  /\ journal \in [AuthIds -> Rows]
  /\ expiring \subseteq AuthIds
  /\ released \subseteq Grants
  /\ op \in [AuthIds -> Ops]
  /\ call \in [AuthIds -> Calls]
  /\ signatures \subseteq [id : AuthIds, message : Messages]
  /\ asked \in [AuthIds -> Nat]

Issued(a) == journal[a].state # "absent"

Related(a, b) ==
  \/ journal[a].grant.request = journal[b].grant.request
  \/ journal[a].obligation = journal[b].obligation

\* When a grant stopped, or will stop, excluding others.
WindowEnd(a) ==
  IF journal[a].consumedAt # None THEN journal[a].consumedAt
                                  ELSE journal[a].grant.expiresAt

\* At any moment at most one unexpired, unconsumed grant exists for a request
\* or an obligation, however late the concurrent issue(), consume() and
\* state() calls commit.
AtMostOneActive ==
  \A a, b \in AuthIds :
    /\ a # b
    /\ journal[a].state = "issued" /\ journal[a].grant.expiresAt > now
    /\ journal[b].state = "issued" /\ journal[b].grant.expiresAt > now
    => ~Related(a, b)

\* Over the whole history of the journal, the exclusion windows of two grants
\* for one request or obligation overlap by no more than the age of a
\* caller's timestamp: issue()'s sweep and its conflict check together order
\* the grants in time.
WindowsDisjoint ==
  \A a, b \in AuthIds :
    a # b /\ Issued(a) /\ Issued(b) /\ Related(a, b) =>
      \/ WindowEnd(a) <= journal[b].grant.issuedAt + Lag
      \/ WindowEnd(b) <= journal[a].grant.issuedAt + Lag

\* A signature can only be one of the very message bytes the authority saw
\* when it issued that grant, even though sign() is handed the prepared
\* execution anew by its caller and checks hashes only.
ExactMessageSigned ==
  \A s \in signatures :
    /\ Issued(s.id)
    /\ s.message = journal[s.id].fingerprint.prepared.message
    /\ journal[s.id].grant.commitment =
         Commitment(journal[s.id].fingerprint.prepared, journal[s.id].obligation)

\* One grant reaches the signing provider at most once, over crashes,
\* restarts, unknown outcomes and repeated or concurrent presentations.
ProviderAskedOnce ==
  \A a \in AuthIds : asked[a] <= 1

\* A grant the signer reports as signed was signed by the provider, and one
\* reported neither as signing nor as needing recovery was not.
SignerStatusTruthful ==
  \A a \in AuthIds :
    /\ op[a].state = "signed" => \E s \in signatures : s.id = a
    /\ op[a].state = "absent" => \A s \in signatures : s.id # a

\* docs/EXTERNAL_EXECUTION_PROTOCOL.md: consumption is single-use and
\* survives; so a consumed row stays consumed.
ConsumedIsTerminal ==
  [][\A a \in AuthIds :
       journal[a].state = "consumed" => journal'[a].state = "consumed"]_vars

=============================================================================

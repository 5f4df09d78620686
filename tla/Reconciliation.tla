----------------------------- MODULE Reconciliation -----------------------------
(***************************************************************************)
(* Reconciliation of one expected settlement (services/reconciliation):    *)
(* the chain that may carry its transaction, the sources that observe it,  *)
(* one at a time and each when it is asked, and the aggregate that judges  *)
(* whichever observations its caller hands it.                             *)
(*                                                                         *)
(* One provider, trust domain or endpoint may be compromised; every source *)
(* behind it answers as it likes.  The reader fills in the signature,      *)
(* network and accounts it asked for, so an observation can differ from    *)
(* what is expected in its amount and its error only.  What raises (an     *)
(* endpoint without the transaction, a malformed answer, two observations  *)
(* of one source) leaves nothing behind and has no action.                 *)
(***************************************************************************)
EXTENDS Integers

CONSTANTS
  Sources,     \* source_id of the registered sources
  Registry,    \* the SourceDescriptor of each
  Adapter,     \* the SourceDescriptor its ObservationSource was built with
  Commitment,  \* the commitment its reader asks for
  Expected,    \* amount_base_units of the expected settlement
  Outcomes,    \* what the transaction may do to the two accounts
  Faults,      \* what may be compromised
  None

\* SourceDescriptor.__post_init__.
ValidDescriptor(d) ==
  /\ d.class \in {"L1", "L2", "L3"}
  /\ d.kind \in {"rpc", "archival_rpc", "indexer", "explorer", "validator"}
  /\ d.class = "L3" => d.kind # "rpc"

ASSUME ReconciliationAssumption ==
  /\ \A s \in Sources : ValidDescriptor(Registry[s]) /\ ValidDescriptor(Adapter[s])
  /\ Commitment \in [Sources -> {"confirmed", "finalized"}]
  /\ Outcomes \subseteq [paid : Int, received : Int, error : BOOLEAN, listed : BOOLEAN]
  /\ Faults \subseteq [what : {"provider", "domain", "endpoint"}, who : STRING]
  /\ None \notin [outcome : Outcomes, commitment : {"confirmed", "finalized"}]

VARIABLES
  tx,      \* the transaction, once the chain has confirmed it
  fault,   \* what is compromised, if anything
  held,    \* the observation of each source that the caller holds
  result   \* the last reconciliation_result

vars == <<tx, fault, held, result>>

-----------------------------------------------------------------------------
(* The chain and the endpoints (external).  What is confirmed stays.       *)

Compromised(s) ==
  /\ fault # None
  /\ \/ fault.what = "provider" /\ Registry[s].provider = fault.who
     \/ fault.what = "domain" /\ Registry[s].domain = fault.who
     \/ fault.what = "endpoint" /\ Registry[s].endpoint = fault.who

Answers == [outcome : Outcomes, commitment : {"confirmed", "finalized"}]

Confirm(outcome) ==
  /\ tx = None
  /\ tx' = [outcome |-> outcome, commitment |-> "confirmed"]
  /\ UNCHANGED <<fault, held, result>>

Finalize ==
  /\ tx # None /\ tx.commitment = "confirmed"
  /\ tx' = [outcome |-> tx.outcome, commitment |-> "finalized"]
  /\ UNCHANGED <<fault, held, result>>

\* What the endpoint of a source may answer.
Answer(s, a) ==
  /\ a \in Answers
  /\ ~Compromised(s) => a = tx /\ Commitment[s] \in {"confirmed", a.commitment}

-----------------------------------------------------------------------------
(* A source makes an observation.                                          *)

\* SolanaRpcSnapshotReader.read: both accounts have a token balance before and
\* after the transaction, which an account it creates has not.
Readable(a) == a.outcome.listed

\* The checks of normalize_observation that an observation may fail: neither
\* balance moves the wrong way, and both move by the same amount.
Normalized(a) ==
  /\ a.outcome.paid >= 0 /\ a.outcome.received >= 0
  /\ a.outcome.paid = a.outcome.received

\* ObservationSource.observe: the amount is what the destination received.
Observation(s, a) ==
  [descriptor |-> Adapter[s], amount |-> a.outcome.received,
   error |-> a.outcome.error, status |-> a.commitment]

Observe(s) ==
  /\ \E a \in Answers :
       /\ Answer(s, a) /\ Readable(a) /\ Normalized(a)
       /\ held' = [held EXCEPT ![s] = Observation(s, a)]
  /\ UNCHANGED <<tx, fault, result>>

-----------------------------------------------------------------------------
(* aggregate_reconciliation.                                               *)

\* SourceRegistry.require: what an observation says of its source is what the
\* registry says.
Required(s) == held[s].descriptor = Registry[s]

\* Mutant: a transaction that is not final yet disagrees.
MutMatches(s) ==
  held[s].amount = Expected /\ ~held[s].error /\ held[s].status = "finalized"

\* An observation without _disagreements.
Matches(s) == held[s].amount = Expected /\ ~held[s].error

\* Mutant: only the provider and the endpoint have to differ.
MutDiverseFromL1(s, baselines) ==
  \A b \in baselines :
    /\ Registry[s].provider # Registry[b].provider
    /\ Registry[s].endpoint # Registry[b].endpoint

\* _diverse_from_l1.
DiverseFromL1(s, baselines) ==
  \A b \in baselines :
    /\ Registry[s].provider # Registry[b].provider
    /\ Registry[s].domain # Registry[b].domain
    /\ Registry[s].endpoint # Registry[b].endpoint

\* Mutant: one match is enough to outvote those that disagree.
MutDisputed(used) == used # {} /\ \A s \in used : ~Matches(s)

Disputed(used) == \E s \in used : ~Matches(s)

MatchedL1(used) == {s \in used : Matches(s) /\ Registry[s].class = "L1"}

\* Some source of the class matches and is diverse from every L1 that does.
Qualifies(used, class) ==
  \E s \in used :
    Matches(s) /\ Registry[s].class = class /\ DiverseFromL1(s, MatchedL1(used))

ExecutionStatus(used) ==
  CASE \E s \in used : Matches(s) /\ held[s].status = "finalized" -> "finalized"
    [] \A s \in used : ~Matches(s) -> "unknown"
    [] OTHER -> "confirmed"

\* The consensus; pending, l1_verified or reconciliation_disputed go with it.
Consensus(used) ==
  CASE Disputed(used) -> "disputed"
    [] ~Disputed(used) /\ MatchedL1(used) = {} -> "pending"
    [] OTHER -> "approved"

IndependentVerification(used) ==
  CASE Consensus(used) # "approved" -> Consensus(used)
    [] Consensus(used) = "approved" /\ Qualifies(used, "L3") -> "l3_verified"
    [] Consensus(used) = "approved" /\ ~Qualifies(used, "L3") /\ Qualifies(used, "L2") -> "l2_verified"
    [] OTHER -> "pending"

\* Nothing observed gives unknown and pending like everywhere else.
Aggregate(used) ==
  /\ \A s \in used : held[s] # None /\ Required(s)
  /\ result' = [used |-> used,
                execution |-> ExecutionStatus(used),
                consensus |-> Consensus(used),
                independent |-> IndependentVerification(used)]
  /\ UNCHANGED <<tx, fault, held>>

-----------------------------------------------------------------------------
Init ==
  /\ tx = None
  /\ fault \in Faults \cup {None}
  /\ held = [s \in Sources |-> None]
  /\ result = [used |-> {}, execution |-> "unknown", consensus |-> "pending",
               independent |-> "pending"]

Next ==
  \/ \E outcome \in Outcomes : Confirm(outcome)
  \/ Finalize
  \/ \E s \in Sources : Observe(s)
  \/ \E used \in SUBSET Sources : Aggregate(used)

Spec == Init /\ [][Next]_vars

-----------------------------------------------------------------------------
\* The expected settlement took place: the transaction was confirmed, without
\* an error, and moved the amount from one account to the other.
Transferred ==
  /\ tx # None
  /\ tx.outcome.paid = Expected /\ tx.outcome.received = Expected /\ ~tx.outcome.error

Honest(used) == \A s \in used : ~Compromised(s)

\* A settlement called l2_verified or l3_verified took place, even if a whole
\* provider, trust domain or endpoint answers with lies.
VerifiedTookPlace == result.independent \in {"l2_verified", "l3_verified"} => Transferred

\* A lie is never approved past one source that tells the truth, whatever
\* class the liar and the witness have.
OneWitnessIsEnough ==
  result.consensus = "approved" /\ (\E s \in result.used : ~Compromised(s)) => Transferred

\* Without liars the verdict is about the chain and not about when each source
\* was asked: it is a dispute exactly if the transaction did something else,
\* and the commitment it reports was reached.
HonestVerdictsAccurate ==
  Honest(result.used) /\ result.used # {} =>
    /\ tx # None
    /\ result.consensus = "disputed" <=> ~Transferred
    /\ result.execution = "unknown" <=> ~Transferred
    /\ result.execution = "finalized" => tx.commitment = "finalized"

=============================================================================

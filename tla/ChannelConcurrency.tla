-------------------------- MODULE ChannelConcurrency --------------------------
(***************************************************************************)
(* Concurrent clients of one channel (services/failure_lab/                *)
(* channel-concurrency/src/lib.rs): a client prepares an operation against *)
(* a versioned snapshot, at the time it believes it is, and commits the    *)
(* candidate later, at the authoritative time.  Candidates are values: a   *)
(* client may hold several, commit them in any order, again, or never.     *)
(* The channel and the authoritative clock are those of ChannelVault,      *)
(* which the harness is to implement.                                      *)
(***************************************************************************)
EXTENDS ChannelVault, Sequences, FiniteSets

CONSTANTS
  OperationIds,  \* instruction_id
  MaxCandidates  \* bound on the candidates clients hold

ASSUME HarnessAssumption == MaxCandidates \in Nat

VARIABLES
  initial,   \* initial_state
  version,   \* current.version
  accepted,  \* accepted_operation_ids
  history,   \* the CommitRecords
  candidates \* prepared and held by clients

harnessVars == <<now, initial, channel, version, accepted, history, candidates>>

HarnessInit ==
  /\ Init
  /\ initial = channel
  /\ version = 0
  /\ accepted = {}
  /\ history = <<>>
  /\ candidates = {}

\* prepare: the projection must succeed at the client's own time, which may
\* run before or behind the clock; it reserves nothing.
Prepare(id, i, observed) ==
  /\ Cardinality(candidates) < MaxCandidates
  /\ id \notin accepted
  /\ Accepts(channel, i, observed)
  /\ candidates' = candidates \cup
       {[id |-> id, op |-> i, read |-> version, projected |-> Result(channel, i)]}
  /\ UNCHANGED <<now, initial, channel, version, accepted, history>>

\* Mutant: the time-dependent guards are not evaluated again.
MutCommittable(c) == c.id \notin accepted /\ c.read = version

\* Mutant: the snapshot's version is not compared.
MutCommittableStale(c) == c.id \notin accepted /\ Accepts(channel, c.op, now)

\* What commit checks: the operation id, the version, and apply() once more,
\* at the authoritative time.
Committable(c) ==
  /\ c.id \notin accepted
  /\ c.read = version
  /\ Accepts(channel, c.op, now)

\* Mutant: the projection is stored as it was computed, without a check.
MutCommit(c) ==
  /\ c.id \notin accepted
  /\ channel' = c.projected
  /\ version' = version + 1
  /\ accepted' = accepted \cup {c.id}
  /\ history' = Append(history, [id |-> c.id, op |-> c.op, at |-> now,
                                 before |-> version, after |-> version + 1])
  /\ UNCHANGED <<now, initial, candidates>>

\* commit: the state apply() returns, the next version, one record.
Commit(c) ==
  /\ Committable(c)
  /\ channel' = Result(channel, c.op)
  /\ version' = version + 1
  /\ accepted' = accepted \cup {c.id}
  /\ history' = Append(history, [id |-> c.id, op |-> c.op, at |-> now,
                                 before |-> version, after |-> version + 1])
  /\ UNCHANGED <<now, initial, candidates>>

\* A client gives a candidate up.
Discard(c) ==
  /\ candidates' = candidates \ {c}
  /\ UNCHANGED <<now, initial, channel, version, accepted, history>>

HarnessTick == Tick /\ UNCHANGED <<initial, version, accepted, history, candidates>>

HarnessNext ==
  \/ HarnessTick
  \/ \E id \in OperationIds, i \in Instructions, t \in Time : Prepare(id, i, t)
  \/ \E c \in candidates : Commit(c) \/ Discard(c)

HarnessSpec == HarnessInit /\ [][HarnessNext]_harnessVars

-----------------------------------------------------------------------------
Records == [id : OperationIds, op : Instructions, at : Time, before : Nat, after : Nat]

\* The harness's state and the candidates of its clients are well formed.
HarnessTypeOK ==
  /\ TypeOK
  /\ initial \in ModelStates
  /\ version \in Nat
  /\ accepted \subseteq OperationIds
  /\ history \in Seq(Records)
  /\ candidates \subseteq [id : OperationIds, op : Instructions, read : Nat,
                           projected : ModelStates]

\* Whatever clients prepare and in whatever order they commit, the channel
\* behaves as if the accepted operations had been submitted to it one at a
\* time, each at its commit time: a prepared operation is never authority.
Linearizable == Spec

\* A commit does exactly what its client saw when it prepared: no operation of
\* another client comes between a snapshot and the commit based on it.
CommitsAsProjected ==
  \A c \in candidates : Committable(c) => Result(channel, c.op) = c.projected

\* The state after the first n records, replayed from the initial state.
Replay[n \in 0..Len(history)] ==
  IF n = 0 THEN initial ELSE Result(Replay[n - 1], history[n].op)

\* verify_serial_witness always succeeds: the history is gapless, names each
\* operation once, every record is accepted when replayed at its commit time,
\* and the replay ends in the current state and version.
SerialWitness ==
  /\ version = Len(history) /\ channel = Replay[version]
  /\ accepted = {history[n].id : n \in DOMAIN history}
  /\ Cardinality(accepted) = version
  /\ \A n \in DOMAIN history :
       /\ history[n].before = n - 1 /\ history[n].after = n
       /\ Accepts(Replay[n - 1], history[n].op, history[n].at)

\* The claim window over the whole history: once a close was requested, nothing
\* is activated or bound at or after its deadline, and nothing is refunded or
\* finalized before it, so never within MinWindow of the request, whatever
\* time the clients believed it was.
ClaimWindowKept ==
  \A m, n \in DOMAIN history :
    m < n /\ history[m].op.op = "request_close" =>
      /\ history[n].op.op \in {"activate", "bind"} => history[n].at < history[m].op.deadline
      /\ history[n].op.op \in {"refund", "finalize"} =>
           /\ history[n].at >= history[m].op.deadline
           /\ history[n].at >= history[m].at + MinWindow
      /\ history[n].op.op \notin {"fund", "request_close"}

=============================================================================

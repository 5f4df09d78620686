---------------------------- MODULE VoucherLedger ----------------------------
(***************************************************************************)
(* The offline verifier of vouchers and the durable ledger of submissions  *)
(* (voucher.py).  A voucher is known by its hash, a natural number; 0 is   *)
(* the zero hash.  Each method of the ledger is one database transaction   *)
(* and one step, over the context and the clock its caller supplies.       *)
(*                                                                         *)
(* Every context names the one channel of ChannelState, so the scope of    *)
(* the ledger (domain_key) is constant; a voucher of another channel has   *)
(* here = FALSE.  Error codes and the journal of events are left out.      *)
(***************************************************************************)
EXTENDS ChannelState

CONSTANTS
  Vouchers,     \* the vouchers there are, by their hash
  Voucher,      \* the payload and the signature behind each hash
  Submissions,  \* submission_id
  VoucherOf     \* the voucher each submission carries

ASSUME VoucherAssumption ==
  /\ Vouchers \subseteq Nat \ {0}
  /\ Voucher \in [Vouchers ->
       [sequence : Nat, total : Nat, previous : Nat,
        issued : Nat, expires : Nat, here : BOOLEAN, signed : BOOLEAN]]
  /\ VoucherOf \in [Submissions -> Vouchers]

VARIABLE row   \* table voucher_submissions

LedgerStates == {"issued", "verified", "activation_requested", "rejected"}

Absent == [state |-> "absent", updated |-> 0]

LedgerInit == row = [s \in Submissions |-> Absent]

LedgerTypeOK == row \in [Submissions -> [state : LedgerStates, updated : Nat] \cup {Absent}]

-----------------------------------------------------------------------------
(* verify_voucher.                                                         *)

\* VoucherContext: what the verifier needs to know of the channel.
Contexts ==
  [funded : Nat, refunded : Nat, expires : Nat, sequence : Nat, activated : Nat, voucher : Nat]

\* VoucherContext.validate.
ContextValid(c) ==
  /\ c.refunded <= c.funded
  /\ c.activated <= c.funded - c.refunded
  /\ c.activated <= PolicyLimit
  /\ (c.sequence = 0) = (c.activated = 0)
  /\ (c.sequence = 0) = (c.voucher = 0)

\* canonical_voucher_payload.
WellFormed(v) == v.sequence >= 1 /\ v.issued < v.expires

Extends(v, c) ==
  /\ v.previous = c.voucher
  /\ v.sequence > c.sequence
  /\ v.total >= c.activated /\ v.total > 0

\* Mutant: the refunded and the unfunded are not missed.
MutWithinFunding(v, c) == TRUE

WithinFunding(v, c) == v.total <= c.funded - c.refunded

\* Mutant: the policy of the channel is not consulted.
MutWithinPolicy(v) == TRUE

WithinPolicy(v) == v.total <= PolicyLimit

InTime(v, c, t) == v.issued <= t /\ t < v.expires /\ v.expires <= c.expires

\* Everything verify_voucher checks before it asks for the signature.
SoundBut(v, c, t) ==
  /\ ContextValid(c)
  /\ WellFormed(v) /\ v.here
  /\ Extends(v, c) /\ WithinFunding(v, c) /\ WithinPolicy(v)
  /\ InTime(v, c, t)

-----------------------------------------------------------------------------
(* The ledger.                                                             *)

\* The rows idx_voucher_latest covers.
LiveStates == {"verified", "activation_requested"}

Live == {s \in Submissions : row[s].state \in LiveStates}

\* Mutant: a submission whose activation was requested no longer counts.
MutOthers(s) == {o \in Live \ {s} : row[o].state = "verified"}

Others(s) == Live \ {s}

\* The voucher is later than the live one of the highest sequence.
AboveLatest(s) ==
  \A top \in Others(s) :
    (\A o \in Others(s) : Voucher[VoucherOf[o]].sequence <= Voucher[VoucherOf[top]].sequence)
      => /\ Voucher[VoucherOf[s]].sequence > Voucher[VoucherOf[top]].sequence
         /\ Voucher[VoucherOf[s]].total >= Voucher[VoucherOf[top]].total

\* journal_time_regressed.
TimeNotRegressed(s, t) == row[s].updated <= t

Write(s, state, t) == row' = [row EXCEPT ![s] = [state |-> state, updated |-> t]]

\* Mutant: the submission enters under a state the table does not know.
MutRecordIssued(s, t) == row[s] = Absent /\ Write(s, "submitted", t)

\* record_issued: a submission id binds its bytes for ever; repeating it
\* returns the row as it is.
RecordIssued(s, t) == row[s] = Absent /\ Write(s, "issued", t)

\* What a verification leaves behind: the next state, a durable rejection, or
\* the same state when the signature verifier itself failed.
Verdict(s, sound, next, t) ==
  \/ sound /\ Voucher[VoucherOf[s]].signed /\ Write(s, next, t)
  \/ ~(sound /\ Voucher[VoucherOf[s]].signed) /\ Write(s, "rejected", t)
  \/ sound /\ Write(s, row[s].state, t)

VerifyIssued(s, c, t) ==
  /\ row[s].state = "issued" /\ TimeNotRegressed(s, t)
  /\ Verdict(s, SoundBut(Voucher[VoucherOf[s]], c, t) /\ AboveLatest(s), "verified", t)

\* request_activation verifies again, against the context of this call and
\* without the other submissions.
RequestActivation(s, c, t) ==
  /\ row[s].state = "verified" /\ TimeNotRegressed(s, t)
  /\ Verdict(s, SoundBut(Voucher[VoucherOf[s]], c, t), "activation_requested", t)

=============================================================================

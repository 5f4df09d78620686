--------------------------- MODULE VaultTransitions ---------------------------
(***************************************************************************)
(* The pure transition function of a ChannelVault                          *)
(* (programs/foundry-channel-vault/transition-model/src/lib.rs) and the    *)
(* phase table that the instruction contract publishes for it              *)
(* (instruction-contract/src/contract.rs, lifecycle.rs).                   *)
(*                                                                         *)
(* A state is the record ModelState.  The account space is fixed by the    *)
(* owner and left out; mint, vault and PDA stand together as "accounts".   *)
(* apply() is split into what an instruction requires (Permitted), the     *)
(* state it leads to (Result), and the checks around both.                 *)
(***************************************************************************)
EXTENDS Integers

CONSTANTS
  MaxU64,     \* the largest amount, sequence and total
  MaxI64,     \* the largest timestamp
  MinWindow,  \* MIN_CLAIM_WINDOW_SECONDS
  MaxWindow,  \* MAX_CLAIM_WINDOW_SECONDS
  Keys,       \* recipients, and the mint, vault and PDA of a channel
  ZeroKey,    \* ZERO_KEY
  NoDeadline  \* Option::None, of a claim deadline

ASSUME WidthAssumption ==
  /\ MaxU64 \in Nat /\ MaxI64 \in Nat
  /\ MinWindow \in Nat \ {0} /\ MaxWindow \in Nat /\ MinWindow <= MaxWindow

ASSUME KeyAssumption == ZeroKey \notin Keys /\ NoDeadline \notin Int

U64 == 0..MaxU64

Time == 0..MaxI64

Uninitialized(owner) ==
  [owner |-> owner, vault |-> "absent", lifecycle |-> "uninitialized",
   funded |-> 0, activated |-> 0, settled |-> 0, refunded |-> 0,
   sequence |-> 0, bound |-> FALSE, recipient |-> ZeroKey, nonceConsumed |-> FALSE,
   deadline |-> NoDeadline, accounts |-> ZeroKey]

ModelStates ==
  [owner : {"absent", "system", "channel_vault"}, vault : {"absent", "classic_token"},
   lifecycle : {"uninitialized", "active", "closing", "finalized"},
   funded : U64, activated : U64, settled : U64, refunded : U64, sequence : U64,
   bound : BOOLEAN, recipient : Keys \cup {ZeroKey}, nonceConsumed : BOOLEAN,
   deadline : Time \cup {NoDeadline}, accounts : Keys \cup {ZeroKey}]

\* ModelInstruction, without the caller and the correlation hash, which no
\* transition reads.
InstructionTypes ==
  [op : {"initialize"}, accounts : Keys \cup {ZeroKey}, fault : BOOLEAN] \cup
  [op : {"fund", "refund"}, amount : U64] \cup
  [op : {"activate"}, sequence : U64, cumulative : U64, expiry : Time] \cup
  [op : {"bind"}, recipient : Keys \cup {ZeroKey}] \cup
  [op : {"settle"}, amount : U64,
   destination : (Keys \cup {ZeroKey}) \X (Keys \cup {ZeroKey})] \cup
  [op : {"request_close"}, deadline : Time] \cup
  [op : {"finalize"}]

\* canonical_recipient_ata: a label for the hash of recipient and mint.
CanonicalAta(recipient, accounts) == <<recipient, accounts>>

-----------------------------------------------------------------------------
Outstanding(s) == s.activated - s.settled

Unallocated(s) == s.funded - s.refunded - s.activated

\* ModelState::invariants_hold.
InvariantsHold(s) ==
  /\ s.settled <= s.activated
  /\ s.activated + s.refunded <= s.funded
  /\ IF s.lifecycle = "uninitialized"
       THEN /\ s.owner \in {"absent", "system"}
            /\ s.vault = "absent"
            /\ \A n \in {s.funded, s.activated, s.settled, s.refunded} : n = 0
       ELSE /\ s.owner = "channel_vault"
            /\ s.vault = "classic_token"
            /\ s.accounts # ZeroKey

-----------------------------------------------------------------------------
(* When the lifecycle of the channel admits an instruction.                *)

ActiveOrClosingOpen(s, t) ==
  s.lifecycle = "active" \/ (s.lifecycle = "closing" /\ t < s.deadline)

\* Mutant: settlement stops with the claim window.
MutSettlePhase(s) == s.lifecycle = "active"

SettlePhase(s) == s.lifecycle \in {"active", "closing"}

\* Mutant: the deadline itself still belongs to the claim window.
MutClosingFrozen(s, t) == s.lifecycle = "closing" /\ t > s.deadline

ClosingFrozen(s, t) == s.lifecycle = "closing" /\ t >= s.deadline

\* The phase test at the head of each handler, and those of apply() itself.
LifecycleAdmits(s, op, t) ==
  CASE op = "initialize"                -> s.lifecycle = "uninitialized"
    [] op \in {"fund", "request_close"} -> s.lifecycle = "active"
    [] op \in {"activate", "bind"}      -> ActiveOrClosingOpen(s, t)
    [] op = "settle"                    -> SettlePhase(s)
    [] op \in {"refund", "finalize"}    -> ClosingFrozen(s, t)

\* lifecycle.rs: derive_lifecycle_phase, from the status and the deadline.
LifecyclePhase(s, t) ==
  CASE s.lifecycle = "uninitialized" -> "uninitialized"
    [] s.lifecycle = "active"        -> "active"
    [] s.lifecycle = "closing"       -> IF t < s.deadline THEN "closing_open"
                                                          ELSE "closing_frozen"
    [] s.lifecycle = "finalized"     -> "finalized"

\* contract.rs: ACCOUNT_CONTRACTS, the column allowed_phases.
AllowedPhases(op) ==
  CASE op = "initialize"                -> {"uninitialized"}
    [] op \in {"fund", "request_close"} -> {"active"}
    [] op \in {"activate", "bind"}      -> {"active", "closing_open"}
    [] op = "settle"                    -> {"active", "closing_open", "closing_frozen"}
    [] op \in {"refund", "finalize"}    -> {"closing_frozen"}

-----------------------------------------------------------------------------
(* The handlers: what each one requires.                                   *)

CanInitialize(s, i) ==
  /\ s.owner \in {"absent", "system"} /\ s.vault = "absent"
  /\ i.accounts # ZeroKey
  /\ ~i.fault

\* Mutant: an unchecked addition.
MutCanFund(s, i) == i.amount > 0

CanFund(s, i) == i.amount > 0 /\ s.funded + i.amount <= MaxU64

CanActivate(s, i, t) ==
  /\ i.expiry > t
  /\ i.sequence > s.sequence
  /\ i.cumulative >= s.activated
  /\ i.cumulative <= s.funded - s.refunded

\* Mutant: a second binding replaces the first.
MutCanBind(s, i) == i.recipient # ZeroKey

CanBind(s, i) == ~s.bound /\ ~s.nonceConsumed /\ i.recipient # ZeroKey

CanSettle(s, i) ==
  /\ i.amount > 0
  /\ s.bound
  /\ i.destination = CanonicalAta(s.recipient, s.accounts)
  /\ i.amount <= Outstanding(s)

\* Both ends of the claim window are computed with checked_add.
CanRequestClose(i, t) ==
  /\ t + MaxWindow <= MaxI64
  /\ i.deadline >= t + MinWindow
  /\ i.deadline <= t + MaxWindow

\* Mutant: everything still in the vault may be refunded.
MutCanRefund(s, i) == i.amount > 0 /\ i.amount <= s.funded - s.refunded - s.settled

CanRefund(s, i) == i.amount > 0 /\ i.amount <= Unallocated(s)

CanFinalize(s) == Outstanding(s) = 0 /\ Unallocated(s) = 0

Permitted(s, i, t) ==
  /\ LifecycleAdmits(s, i.op, t)
  /\ CASE i.op = "initialize"    -> CanInitialize(s, i)
       [] i.op = "fund"          -> CanFund(s, i)
       [] i.op = "activate"      -> CanActivate(s, i, t)
       [] i.op = "bind"          -> CanBind(s, i)
       [] i.op = "settle"        -> CanSettle(s, i)
       [] i.op = "request_close" -> CanRequestClose(i, t)
       [] i.op = "refund"        -> CanRefund(s, i)
       [] i.op = "finalize"      -> CanFinalize(s)

-----------------------------------------------------------------------------
(* The state each handler builds.                                          *)

Result(s, i) ==
  CASE i.op = "initialize" ->
         [s EXCEPT !.owner = "channel_vault", !.vault = "classic_token",
                   !.lifecycle = "active", !.accounts = i.accounts]
    [] i.op = "fund"          -> [s EXCEPT !.funded = @ + i.amount]
    [] i.op = "activate"      -> [s EXCEPT !.activated = i.cumulative,
                                           !.sequence = i.sequence]
    [] i.op = "bind"          -> [s EXCEPT !.bound = TRUE, !.recipient = i.recipient,
                                           !.nonceConsumed = TRUE]
    [] i.op = "settle"        -> [s EXCEPT !.settled = @ + i.amount]
    [] i.op = "request_close" -> [s EXCEPT !.lifecycle = "closing",
                                           !.deadline = i.deadline]
    [] i.op = "refund"        -> [s EXCEPT !.refunded = @ + i.amount]
    [] i.op = "finalize"      -> [s EXCEPT !.lifecycle = "finalized"]

\* success(): the last check, on the projected state.
Success(s, n) ==
  /\ InvariantsHold(n)
  /\ n.funded >= s.funded /\ n.activated >= s.activated
  /\ n.settled >= s.settled /\ n.refunded >= s.refunded

\* apply() returns Ok, and then the state Result(s, i).
Accepts(s, i, t) ==
  /\ InvariantsHold(s)
  /\ s.lifecycle # "finalized"
  /\ Permitted(s, i, t)
  /\ Success(s, Result(s, i))

\* A state the transition function could have left: its flags agree, and a
\* deadline is there exactly once closing has begun.
Coherent(s) ==
  /\ InvariantsHold(s)
  /\ s.bound = (s.recipient # ZeroKey) /\ s.bound = s.nonceConsumed
  /\ s.deadline = NoDeadline <=> s.lifecycle \in {"uninitialized", "active"}
  /\ s.lifecycle = "uninitialized" => ~s.bound
  /\ s.lifecycle \in {"uninitialized", "active"} => s.refunded = 0
  /\ s.lifecycle = "finalized" => CanFinalize(s)

=============================================================================

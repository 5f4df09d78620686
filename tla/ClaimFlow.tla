------------------------------ MODULE ClaimFlow ------------------------------
(***************************************************************************)
(* From a signed voucher to a bound wallet: the voucher ledger and the     *)
(* binding ledger off the chain, composed with the vault that decides.     *)
(*                                                                         *)
(* The vault takes a step when the authority checks of the runtime         *)
(* (runtime_v2.rs) and the transition function (VaultTransitions) accept   *)
(* it.  Callers of the ledgers read the vault whenever they like: a call   *)
(* may carry any context the vault has ever shown and any clock reading    *)
(* up to now.  Vouchers reach the vault from anyone who holds them, with   *)
(* or without the ledger; bindings, from a client that recorded them.      *)
(***************************************************************************)
EXTENDS VoucherLedger, BindingLedger, VaultTransitions

CONSTANTS
  Accounts,       \* the mint, vault and PDA of the channel
  ChannelExpiry,  \* expires_at of the channel
  InitialNonce,   \* INITIAL_BINDING_NONCE
  TopUps,         \* amounts a sender may fund
  Horizon         \* the clock stops here

\* The payload codec and the instruction codec carry sequences and totals in
\* 64 bits, and expiries as timestamps of the chain.
ASSUME FlowAssumption ==
  /\ Horizon \in Time
  /\ ChannelExpiry \in Nat /\ InitialNonce \in Nat \ {0} /\ TopUps \subseteq U64
  /\ Accounts \in Keys /\ Wallets \subseteq Keys
  /\ \A h \in Vouchers :
       Voucher[h].sequence \in U64 /\ Voucher[h].total \in U64 /\ Voucher[h].expires \in Time

VARIABLES
  clock,    \* the clock of the chain
  vault,    \* the account, as the transition function sees it
  latest,   \* latest_activated_voucher_hash
  closeAt,  \* close_requested_at
  past      \* every context the vault has shown so far

chainVars == <<vault, latest, closeAt>>

flowVars == <<clock, chainVars, past, row, bindingVars>>

\* The context a caller builds from the account.
Context(a, voucher) ==
  [funded |-> a.funded, refunded |-> a.refunded, expires |-> ChannelExpiry,
   sequence |-> a.sequence, activated |-> a.activated, voucher |-> voucher]

\* verify_initialize_v2 and the transition function: a channel just opened.
Opened ==
  Result(Uninitialized("system"),
         [op |-> "initialize", accounts |-> Accounts, fault |-> FALSE])

FlowInit ==
  /\ clock = 0
  /\ vault = Opened /\ latest = 0 /\ closeAt = None
  /\ past = {Context(Opened, 0)}
  /\ LedgerInit /\ BindingInit

-----------------------------------------------------------------------------
(* The vault.                                                              *)

\* verify_voucher_signed_message, both layers, behind the precompile that
\* checked the sender's signature.
VoucherAuthority(v) ==
  /\ v.signed /\ v.here
  /\ v.sequence > 0 /\ v.total > 0
  /\ v.previous = latest
  /\ v.issued < v.expires

\* verify_recipient_binding_signed_message, behind the same precompile.
BindingAuthority(b) ==
  /\ b.signed /\ b.here
  /\ b.voucher = latest
  /\ b.nonce = InitialNonce
  /\ b.issued < b.expires

ActivateInstruction(v) ==
  [op |-> "activate", sequence |-> v.sequence, cumulative |-> v.total, expiry |-> v.expires]

Activates(v) == VoucherAuthority(v) /\ Accepts(vault, ActivateInstruction(v), clock)

Apply(i) ==
  /\ Accepts(vault, i, clock)
  /\ vault' = Result(vault, i)
  /\ past' = past \cup {Context(vault', latest')}
  /\ UNCHANGED <<clock, row, bindingVars>>

FundChannel(amount) ==
  UNCHANGED <<latest, closeAt>> /\ Apply([op |-> "fund", amount |-> amount])

ActivateVoucher(h) ==
  /\ VoucherAuthority(Voucher[h])
  /\ latest' = h /\ UNCHANGED closeAt
  /\ Apply(ActivateInstruction(Voucher[h]))

BindRecipient(r) ==
  /\ r \in journal /\ BindingAuthority(r.binding)
  /\ UNCHANGED <<latest, closeAt>>
  /\ Apply([op |-> "bind", recipient |-> r.binding.wallet])

RequestClose(deadline) ==
  /\ closeAt' = clock /\ UNCHANGED latest
  /\ Apply([op |-> "request_close", deadline |-> deadline])

FlowTick ==
  /\ clock < Horizon /\ clock' = clock + 1
  /\ UNCHANGED <<chainVars, past, row, bindingVars>>

-----------------------------------------------------------------------------
OffChain == UNCHANGED <<clock, chainVars, past>>

FlowNext ==
  \/ FlowTick
  \/ \E amount \in TopUps : FundChannel(amount)
  \/ \E h \in Vouchers : ActivateVoucher(h)
  \/ \E r \in journal : BindRecipient(r)
  \/ \E deadline \in 0..Horizon : RequestClose(deadline)
  \/ OffChain /\ UNCHANGED bindingVars /\ \E s \in Submissions, t \in 0..clock :
       \/ RecordIssued(s, t)
       \/ \E c \in past : VerifyIssued(s, c, t) \/ RequestActivation(s, c, t)
  \/ OffChain /\ UNCHANGED row /\
       \/ \E k \in Claims, b \in Bindings, t \in 0..clock : VerifyBinding(k, b, t)
       \/ \E r \in checked : RecordBinding(r)

FlowSpec == FlowInit /\ [][FlowNext]_flowVars

-----------------------------------------------------------------------------
\* The vault as the channel object of channel.py: the status follows from the
\* lifecycle and from whether anything was funded.
Snapshot ==
  [status |-> CASE vault.lifecycle = "closing" -> "closing"
                [] vault.lifecycle = "active"  ->
                     IF vault.funded = 0 THEN "funding" ELSE "active",
   funded |-> vault.funded, activated |-> vault.activated, settled |-> vault.settled,
   refunded |-> vault.refunded, sequence |-> vault.sequence, voucher |-> latest,
   wallet |-> vault.bound, expires |-> ChannelExpiry, updated |-> clock,
   closeAt |-> closeAt, deadline |-> IF vault.deadline = NoDeadline THEN None ELSE vault.deadline]

\* Type correctness of the two ledgers, of the vault and of the contexts.
FlowTypeOK ==
  /\ clock \in 0..Horizon
  /\ vault \in ModelStates /\ latest \in Vouchers \cup {0} /\ closeAt \in Nat \cup {None}
  /\ past \subseteq Contexts
  /\ LedgerTypeOK /\ BindingTypeOK

\* The live submissions of the ledger form one history: two of them never
\* share a sequence, and the later one never authorizes less, although they
\* were verified by different calls against different, possibly stale,
\* contexts and at clocks that need not agree (verify_issued).
LiveVouchersOrdered ==
  \A s, o \in Live :
    LET v == Voucher[VoucherOf[s]] u == Voucher[VoucherOf[o]]
    IN  s # o => \/ v.sequence < u.sequence /\ v.total <= u.total
                 \/ u.sequence < v.sequence /\ u.total <= v.total

\* A voucher whose activation the ledger let through is one the vault still
\* accepts, however old the context of that call was: only another activation
\* in between, the expiry of the voucher or the claim deadline stand against
\* it (request_activation against runtime_v2.rs and the transition function).
RequestedStillActivates ==
  \A s \in Submissions :
    LET v == Voucher[VoucherOf[s]]
    IN  row[s].state = "activation_requested" =>
          \/ Activates(v)
          \/ latest # v.previous
          \/ clock >= v.expires
          \/ ~ActiveOrClosingOpen(vault, clock)

\* Until the channel expires, what the vault does stays within what channel.py
\* accepts: a funding is a valid funding transition of the snapshots around
\* it, unless it is a top-up the policy forbids, of which the vault knows
\* nothing; and the activation of a voucher the ledger let through leads from
\* a valid channel to a valid one.
StepsStayValid ==
  [][ValidChannel(Snapshot) /\ clock < ChannelExpiry =>
       /\ (vault'.funded # vault.funded /\ (AllowTopUp \/ vault.funded = 0)) =>
            ValidFundingTransition(Snapshot, vault'.funded - vault.funded, clock, Snapshot')
       /\ (latest' # latest /\ \E s \in Submissions :
             VoucherOf[s] = latest' /\ row[s].state = "activation_requested")
            => ValidChannel(Snapshot')]_flowVars

\* The initial binding of a claim and a voucher is used once, although calls
\* verify outside the transaction that records (verify_and_record).
BindingUsedOnce == \A r, e \in journal : Domain(r) = Domain(e) => r = e

=============================================================================

----------------------------- MODULE ChannelVault -----------------------------
(***************************************************************************)
(* One channel under its transition function, and the clock.  Anyone may   *)
(* submit any instruction at any time; a refused one changes nothing.      *)
(***************************************************************************)
EXTENDS VaultTransitions

CONSTANTS
  Starts,        \* the states a channel is taken up in
  Instructions   \* what may be submitted

ASSUME InstructionAssumption == Instructions \subseteq InstructionTypes

ASSUME StartAssumption == \A s \in Starts : s \in ModelStates /\ Coherent(s)

VARIABLES
  channel,  \* the ModelState
  now       \* the Solana clock

vars == <<channel, now>>

Init ==
  /\ channel \in Starts
  /\ now = 0

\* apply() at the present time.
Submit(i) ==
  /\ Accepts(channel, i, now)
  /\ channel' = Result(channel, i)
  /\ UNCHANGED now

Tick ==
  /\ now < MaxI64
  /\ now' = now + 1
  /\ UNCHANGED channel

Next == Tick \/ \E i \in Instructions : Submit(i)

Spec == Init /\ [][Next]_vars

-----------------------------------------------------------------------------
\* The totals stay within u64 and the clock within i64.
TypeOK == channel \in ModelStates /\ now \in Time

\* In every reachable state the handlers' own guards are enough: neither
\* invariants_hold at the head of apply() nor the check in success() ever
\* refuses what a handler has accepted, so no instruction is lost to them.
GuardsSuffice ==
  /\ InvariantsHold(channel)
  /\ \A i \in Instructions :
       Permitted(channel, i, now) => Success(channel, Result(channel, i))

\* The phase table of the instruction contract and the phase tests of the
\* transition function agree on every reachable state, at every second.
PhaseTableAgrees ==
  \A i \in Instructions :
    LifecycleAdmits(channel, i.op, now)
      <=> LifecyclePhase(channel, now) \in AllowedPhases(i.op)

\* What a recipient was granted is never taken back: the activated total never
\* falls, an outstanding right shrinks only by what is settled, the vault
\* always covers it, and neither the bound recipient nor the accounts of the
\* channel ever change.
RightsPreserved ==
  [][/\ channel'.activated >= channel.activated
     /\ Outstanding(channel') < Outstanding(channel) =>
          channel'.settled - channel.settled = Outstanding(channel) - Outstanding(channel')
     /\ channel'.funded - channel'.refunded - channel'.settled >= Outstanding(channel')
     /\ channel.bound => channel'.bound /\ channel'.recipient = channel.recipient
     /\ channel.lifecycle # "uninitialized" => channel'.accounts = channel.accounts]_vars

SettleAll(s) ==
  [op |-> "settle", amount |-> Outstanding(s),
   destination |-> CanonicalAta(s.recipient, s.accounts)]

RefundAll(s) == [op |-> "refund", amount |-> Unallocated(s)]

\* No money is left behind: a finalized channel is empty, and after the claim
\* deadline a channel whose recipient is bound, or to whom nothing is owed,
\* can be settled, refunded or finalized.
NeverStranded ==
  /\ channel.lifecycle = "finalized" =>
       channel.settled + channel.refunded = channel.funded
  /\ ClosingFrozen(channel, now) /\ (channel.bound \/ Outstanding(channel) = 0) =>
       \/ Accepts(channel, SettleAll(channel), now)
       \/ Accepts(channel, RefundAll(channel), now)
       \/ Accepts(channel, [op |-> "finalize"], now)

\* docs/channels/solana/invariants/FC-SOL-004-CONTRACT.md: at or after the
\* deadline settlement of activated rights remains allowed.
FrozenRightSettleable ==
  ClosingFrozen(channel, now) /\ Outstanding(channel) > 0 =>
    Accepts(channel, SettleAll(channel), now)

=============================================================================

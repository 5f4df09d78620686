----------------------------- MODULE VaultProofs -----------------------------
(***************************************************************************)
(* The channel vault, its concurrent clients and the claim flow around it, *)
(* for every width, claim window, set of keys, set of instructions, number *)
(* of candidates, and set of vouchers, submissions, claims and bindings.   *)
(*                                                                         *)
(* The three specifications share the transition function and no variable: *)
(* HandlerIsSafe, its lemma, serves them all.                              *)
(*   Spec         TypeOK and Coherent: TypeOK alone is not inductive,      *)
(*                since only the order of the totals that Coherent records *)
(*                keeps settle, activate and refund within their width.    *)
(*   HarnessSpec  adds that a candidate's version is never ahead of the    *)
(*                channel's and its projection is current when the         *)
(*                versions agree, that a close in the history is still     *)
(*                what the channel records, and that the history has a     *)
(*                serial witness.                                          *)
(*   FlowSpec     relates the vault to every context it has ever shown     *)
(*                (Reflects), and keeps with each requested activation the *)
(*                context it was verified against.                         *)
(***************************************************************************)
EXTENDS ChannelConcurrency, ClaimFlow, FiniteSetTheorems, TLAPS

-----------------------------------------------------------------------------
(* The transition function, on one state.                                  *)

\* The guards of a handler are enough: the state it builds is well formed and
\* coherent, its totals have not overflowed, and success() accepts it.
LEMMA HandlerIsSafe ==
  ASSUME NEW s \in ModelStates, NEW i \in InstructionTypes, NEW t \in Time,
         Coherent(s), Permitted(s, i, t)
  PROVE  /\ Result(s, i) \in ModelStates
         /\ Coherent(Result(s, i))
         /\ Success(s, Result(s, i))
<1> DEFINE n == Result(s, i)
<1>0. /\ s.funded \in Nat /\ s.activated \in Nat /\ s.settled \in Nat /\ s.refunded \in Nat
      /\ s.funded <= MaxU64 /\ s.settled <= s.activated
      /\ s.activated + s.refunded <= s.funded
  BY WidthAssumption DEF ModelStates, U64, Coherent, InvariantsHold
<1>1. CASE i.op = "initialize"
  <2>1. /\ i.accounts \in Keys \cup {ZeroKey} /\ i.accounts # ZeroKey
        /\ s.lifecycle = "uninitialized"
    BY <1>1 DEF Permitted, LifecycleAdmits, CanInitialize, InstructionTypes
  <2>2. n = [s EXCEPT !.owner = "channel_vault", !.vault = "classic_token",
                      !.lifecycle = "active", !.accounts = i.accounts]
    BY <1>1 DEF Result
  <2>3. n \in ModelStates
    BY <2>1, <2>2 DEF ModelStates
  <2>4. Coherent(n)
    BY <2>1, <2>2, <1>0 DEF Coherent, InvariantsHold, ModelStates
  <2>5. Success(s, n)
    BY <2>1, <2>2, <2>4, <1>0 DEF Success, Coherent, ModelStates
  <2> QED
    BY <2>3, <2>4, <2>5
<1>2. CASE i.op = "fund"
  <2>1. /\ i.amount \in Nat /\ i.amount > 0 /\ s.funded + i.amount <= MaxU64
        /\ s.lifecycle = "active"
    BY <1>2, WidthAssumption DEF Permitted, LifecycleAdmits, CanFund, InstructionTypes, U64
  <2>2. n = [s EXCEPT !.funded = s.funded + i.amount]
    BY <1>2 DEF Result
  <2>3. n \in ModelStates
    BY <2>1, <2>2, <1>0, WidthAssumption DEF ModelStates, U64
  <2>4. Coherent(n)
    BY <2>1, <2>2, <1>0 DEF Coherent, InvariantsHold, ModelStates
  <2>5. Success(s, n)
    BY <2>1, <2>2, <2>4, <1>0 DEF Success, Coherent, ModelStates
  <2> QED
    BY <2>3, <2>4, <2>5
<1>3. CASE i.op = "activate"
  <2>1. /\ i.cumulative \in U64 /\ i.sequence \in U64
        /\ i.cumulative >= s.activated /\ i.cumulative <= s.funded - s.refunded
        /\ s.lifecycle \in {"active", "closing"}
    BY <1>3 DEF Permitted, LifecycleAdmits, ActiveOrClosingOpen, CanActivate, InstructionTypes
  <2>2. n = [s EXCEPT !.activated = i.cumulative, !.sequence = i.sequence]
    BY <1>3 DEF Result
  <2>3. n \in ModelStates
    BY <2>1, <2>2 DEF ModelStates
  <2>4. Coherent(n)
    BY <2>1, <2>2, <1>0, WidthAssumption DEF Coherent, InvariantsHold, ModelStates, U64
  <2>5. Success(s, n)
    BY <2>1, <2>2, <2>4, <1>0 DEF Success, Coherent, ModelStates
  <2> QED
    BY <2>3, <2>4, <2>5
<1>4. CASE i.op = "bind"
  <2>1. /\ i.recipient \in Keys \cup {ZeroKey} /\ i.recipient # ZeroKey
        /\ s.lifecycle \in {"active", "closing"}
    BY <1>4 DEF Permitted, LifecycleAdmits, ActiveOrClosingOpen, CanBind, InstructionTypes
  <2>2. n = [s EXCEPT !.bound = TRUE, !.recipient = i.recipient, !.nonceConsumed = TRUE]
    BY <1>4 DEF Result
  <2>3. n \in ModelStates
    BY <2>1, <2>2 DEF ModelStates
  <2>4. Coherent(n)
    <3>1. /\ n.bound = TRUE /\ n.recipient = i.recipient /\ n.nonceConsumed = TRUE
          /\ n.lifecycle = s.lifecycle /\ n.deadline = s.deadline
          /\ n.owner = s.owner /\ n.vault = s.vault /\ n.accounts = s.accounts
          /\ n.funded = s.funded /\ n.activated = s.activated
          /\ n.settled = s.settled /\ n.refunded = s.refunded
      BY <2>2 DEF ModelStates
    <3>2. n.bound = (n.recipient # ZeroKey) /\ n.bound = n.nonceConsumed
      BY <2>1, <3>1, Zenon
    <3>3. InvariantsHold(n)
      BY <3>1, <2>1, <1>0 DEF Coherent, InvariantsHold
    <3> HIDE DEF n
    <3> QED
      BY <3>1, <3>2, <3>3, <2>1 DEF Coherent
  <2>5. Success(s, n)
    BY <2>1, <2>2, <2>4, <1>0 DEF Success, Coherent, ModelStates
  <2> QED
    BY <2>3, <2>4, <2>5
<1>5. CASE i.op = "settle"
  <2>1. /\ i.amount \in Nat /\ i.amount > 0 /\ i.amount <= s.activated - s.settled
        /\ s.lifecycle \in {"active", "closing"}
    BY <1>5, WidthAssumption
       DEF Permitted, LifecycleAdmits, SettlePhase, CanSettle, Outstanding, InstructionTypes, U64
  <2>2. n = [s EXCEPT !.settled = s.settled + i.amount]
    BY <1>5 DEF Result
  <2>3. n \in ModelStates
    BY <2>1, <2>2, <1>0, WidthAssumption DEF ModelStates, U64
  <2>4. Coherent(n)
    BY <2>1, <2>2, <1>0 DEF Coherent, InvariantsHold, ModelStates
  <2>5. Success(s, n)
    BY <2>1, <2>2, <2>4, <1>0 DEF Success, Coherent, ModelStates
  <2> QED
    BY <2>3, <2>4, <2>5
<1>6. CASE i.op = "request_close"
  <2>1. i.deadline \in Time /\ s.lifecycle = "active"
    BY <1>6 DEF Permitted, LifecycleAdmits, InstructionTypes
  <2>2. n = [s EXCEPT !.lifecycle = "closing", !.deadline = i.deadline]
    BY <1>6 DEF Result
  <2>3. n \in ModelStates
    BY <2>1, <2>2 DEF ModelStates
  <2>4. i.deadline # NoDeadline
    BY <2>1, WidthAssumption, KeyAssumption DEF Time
  <2>5. Coherent(n)
    BY <2>1, <2>2, <2>4, <1>0 DEF Coherent, InvariantsHold, ModelStates
  <2>6. Success(s, n)
    BY <2>1, <2>2, <2>5, <1>0 DEF Success, Coherent, ModelStates
  <2> QED
    BY <2>3, <2>5, <2>6
<1>7. CASE i.op = "refund"
  <2>1. /\ i.amount \in Nat /\ i.amount > 0
        /\ i.amount <= s.funded - s.refunded - s.activated
        /\ s.lifecycle = "closing"
    BY <1>7, WidthAssumption
       DEF Permitted, LifecycleAdmits, ClosingFrozen, CanRefund, Unallocated, InstructionTypes, U64
  <2>2. n = [s EXCEPT !.refunded = s.refunded + i.amount]
    BY <1>7 DEF Result
  <2>3. n \in ModelStates
    BY <2>1, <2>2, <1>0, WidthAssumption DEF ModelStates, U64
  <2>4. Coherent(n)
    BY <2>1, <2>2, <1>0 DEF Coherent, InvariantsHold, ModelStates
  <2>5. Success(s, n)
    BY <2>1, <2>2, <2>4, <1>0 DEF Success, Coherent, ModelStates
  <2> QED
    BY <2>3, <2>4, <2>5
<1>8. CASE i.op = "finalize"
  <2>1. CanFinalize(s) /\ s.lifecycle = "closing"
    BY <1>8 DEF Permitted, LifecycleAdmits, ClosingFrozen
  <2>2. n = [s EXCEPT !.lifecycle = "finalized"]
    BY <1>8 DEF Result
  <2>3. n \in ModelStates
    BY <2>1, <2>2 DEF ModelStates
  <2>4. Coherent(n)
    BY <2>1, <2>2, <1>0
       DEF Coherent, InvariantsHold, ModelStates, CanFinalize, Outstanding, Unallocated
  <2>5. Success(s, n)
    BY <2>1, <2>2, <2>4, <1>0 DEF Success, Coherent, ModelStates
  <2> QED
    BY <2>3, <2>4, <2>5
<1>9. i.op \in {"initialize", "fund", "activate", "bind", "settle", "request_close",
               "refund", "finalize"}
  BY DEF InstructionTypes
<1> QED
  BY <1>1, <1>2, <1>3, <1>4, <1>5, <1>6, <1>7, <1>8, <1>9

-----------------------------------------------------------------------------
(* The channel under any sequence of instructions.                         *)

IInv == TypeOK /\ Coherent(channel)

\* The start states satisfy the invariant and every submission and tick keeps it.
LEMMA VaultInductive == Spec => []IInv
<1>1. Init => IInv
  BY StartAssumption, WidthAssumption DEF Init, IInv, TypeOK, Time
<1>2. IInv /\ [Next]_vars => IInv'
  <2> SUFFICES ASSUME IInv, [Next]_vars PROVE IInv'
    OBVIOUS
  <2>1. CASE Tick
    BY <2>1, WidthAssumption DEF Tick, IInv, TypeOK, Time
  <2>2. ASSUME NEW i \in Instructions, Submit(i) PROVE IInv'
    <3>1. /\ channel \in ModelStates /\ now \in Time /\ Coherent(channel)
          /\ i \in InstructionTypes /\ Permitted(channel, i, now)
      BY <2>2, InstructionAssumption DEF IInv, TypeOK, Submit, Accepts
    <3>2. Result(channel, i) \in ModelStates /\ Coherent(Result(channel, i))
      BY <3>1, HandlerIsSafe
    <3> QED
      BY <2>2, <3>1, <3>2 DEF Submit, IInv, TypeOK
  <2>3. CASE UNCHANGED vars
    BY <2>3 DEF vars, IInv, TypeOK
  <2> QED
    BY <2>1, <2>2, <2>3 DEF Next
<1> QED
  BY <1>1, <1>2, PTL DEF Spec

\* No sequence of instructions takes a total out of u64 or a deadline out of
\* i64, although only funding checks the width of its sum.
THEOREM TypesHold == Spec => []TypeOK
<1>1. IInv => TypeOK
  BY DEF IInv
<1> QED
  BY <1>1, VaultInductive, PTL

\* The defensive checks around a handler never refuse what it accepted.
THEOREM GuardsAreEnough == Spec => []GuardsSuffice
<1>1. IInv => GuardsSuffice
  <2> SUFFICES ASSUME IInv PROVE GuardsSuffice
    OBVIOUS
  <2>1. InvariantsHold(channel)
    BY DEF IInv, Coherent
  <2>2. ASSUME NEW i \in Instructions, Permitted(channel, i, now)
        PROVE  Success(channel, Result(channel, i))
    <3>1. channel \in ModelStates /\ now \in Time /\ Coherent(channel) /\ i \in InstructionTypes
      BY InstructionAssumption DEF IInv, TypeOK
    <3> QED
      BY <3>1, <2>2, HandlerIsSafe
  <2> QED
    BY <2>1, <2>2 DEF GuardsSuffice
<1> QED
  BY <1>1, VaultInductive, PTL

\* The contract's table of allowed phases and the handlers' phase tests agree.
THEOREM PhaseTableSound == Spec => []PhaseTableAgrees
<1>1. IInv => PhaseTableAgrees
  <2> SUFFICES ASSUME IInv, NEW i \in Instructions
               PROVE  LifecycleAdmits(channel, i.op, now)
                        <=> LifecyclePhase(channel, now) \in AllowedPhases(i.op)
    BY DEF PhaseTableAgrees
  <2>1. i.op \in {"initialize", "fund", "activate", "bind", "settle", "request_close",
                  "refund", "finalize"}
    BY InstructionAssumption DEF InstructionTypes
  <2>2. channel.lifecycle \in {"uninitialized", "active", "closing", "finalized"}
    BY DEF IInv, TypeOK, ModelStates
  <2>3. channel.lifecycle = "closing" =>
          (channel.deadline \in Int /\ now \in Int)
    BY WidthAssumption DEF IInv, TypeOK, ModelStates, Coherent, Time
  <2>4. CASE channel.lifecycle = "uninitialized"
    BY <2>1, <2>4 DEF LifecycleAdmits, LifecyclePhase, AllowedPhases, ActiveOrClosingOpen,
                      SettlePhase, ClosingFrozen
  <2>5. CASE channel.lifecycle = "active"
    BY <2>1, <2>5 DEF LifecycleAdmits, LifecyclePhase, AllowedPhases, ActiveOrClosingOpen,
                      SettlePhase, ClosingFrozen
  <2>6. CASE channel.lifecycle = "closing"
    <3>1. /\ ActiveOrClosingOpen(channel, now) <=> now < channel.deadline
          /\ ClosingFrozen(channel, now) <=> ~(now < channel.deadline)
          /\ SettlePhase(channel)
      BY <2>3, <2>6 DEF ActiveOrClosingOpen, ClosingFrozen, SettlePhase
    <3>2. LifecyclePhase(channel, now) =
            IF now < channel.deadline THEN "closing_open" ELSE "closing_frozen"
      BY <2>6 DEF LifecyclePhase
    <3>3. CASE now < channel.deadline
      BY <2>1, <2>6, <3>1, <3>2, <3>3 DEF LifecycleAdmits, AllowedPhases
    <3>4. CASE ~(now < channel.deadline)
      BY <2>1, <2>6, <3>1, <3>2, <3>4 DEF LifecycleAdmits, AllowedPhases
    <3> QED
      BY <3>3, <3>4
  <2>7. CASE channel.lifecycle = "finalized"
    BY <2>1, <2>7 DEF LifecycleAdmits, LifecyclePhase, AllowedPhases, ActiveOrClosingOpen,
                      SettlePhase, ClosingFrozen
  <2> QED
    BY <2>2, <2>4, <2>5, <2>6, <2>7
<1> QED
  BY <1>1, VaultInductive, PTL

\* What one accepted instruction may do to what the recipient was granted.
LEMMA HandlerKeepsRights ==
  ASSUME NEW s \in ModelStates, NEW i \in InstructionTypes, NEW t \in Time,
         Coherent(s), Permitted(s, i, t)
  PROVE  LET n == Result(s, i)
         IN  /\ n.activated >= s.activated
             /\ n.settled + Outstanding(n) = n.activated
             /\ n.settled = s.settled \/ n.activated = s.activated
             /\ s.bound => n.bound /\ n.recipient = s.recipient
             /\ s.lifecycle # "uninitialized" => n.accounts = s.accounts
<1> DEFINE n == Result(s, i)
<1>1. /\ n \in ModelStates /\ Success(s, n)
  BY HandlerIsSafe
<1>2. n.activated >= s.activated /\ n.settled + Outstanding(n) = n.activated
  <2>1. n.activated \in Int /\ n.settled \in Int
    BY <1>1, WidthAssumption DEF ModelStates, U64
  <2> QED
    BY <1>1, <2>1 DEF Success, Outstanding
<1>3. i.op \in {"initialize", "fund", "activate", "bind", "settle", "request_close",
               "refund", "finalize"}
  BY DEF InstructionTypes
<1>4. n.settled = s.settled \/ n.activated = s.activated
  BY <1>3 DEF Result, ModelStates
<1>5. s.bound => n.bound /\ n.recipient = s.recipient
  <2> SUFFICES ASSUME s.bound PROVE n.bound /\ n.recipient = s.recipient
    OBVIOUS
  <2>1. i.op # "bind"
    BY DEF Permitted, CanBind
  <2>2. n.bound = s.bound /\ n.recipient = s.recipient
    BY <1>3, <2>1 DEF Result, ModelStates
  <2> QED
    BY <2>2
<1>6. s.lifecycle # "uninitialized" => n.accounts = s.accounts
  <2> SUFFICES ASSUME s.lifecycle # "uninitialized" PROVE n.accounts = s.accounts
    OBVIOUS
  <2>1. i.op # "initialize"
    BY DEF Permitted, LifecycleAdmits
  <2> QED
    BY <1>3, <2>1 DEF Result, ModelStates
<1> QED
  BY <1>2, <1>4, <1>5, <1>6

\* A granted right is never revoked, redirected or left uncovered.
THEOREM RightsArePreserved == Spec => RightsPreserved
<1> DEFINE Kept ==
      /\ channel'.activated >= channel.activated
      /\ Outstanding(channel') < Outstanding(channel) =>
           channel'.settled - channel.settled = Outstanding(channel) - Outstanding(channel')
      /\ channel'.funded - channel'.refunded - channel'.settled >= Outstanding(channel')
      /\ channel.bound => channel'.bound /\ channel'.recipient = channel.recipient
      /\ channel.lifecycle # "uninitialized" => channel'.accounts = channel.accounts
<1>1. IInv /\ IInv' /\ [Next]_vars => [Kept]_vars
  <2> SUFFICES ASSUME IInv, IInv', [Next]_vars PROVE Kept \/ UNCHANGED vars
    OBVIOUS
  <2>1. /\ channel.activated \in Int /\ channel.settled \in Int
        /\ channel'.activated \in Int /\ channel'.settled \in Int
        /\ channel'.funded \in Int /\ channel'.refunded \in Int
        /\ channel'.activated + channel'.refunded <= channel'.funded
    BY WidthAssumption DEF IInv, TypeOK, ModelStates, U64, Coherent, InvariantsHold
  <2>2. channel'.funded - channel'.refunded - channel'.settled >= Outstanding(channel')
    BY <2>1 DEF Outstanding
  <2>3. CASE Tick
    BY <2>1, <2>2, <2>3 DEF Tick, Outstanding
  <2>4. ASSUME NEW i \in Instructions, Submit(i) PROVE Kept
    <3>1. /\ channel \in ModelStates /\ now \in Time /\ Coherent(channel)
          /\ i \in InstructionTypes /\ Permitted(channel, i, now)
          /\ channel' = Result(channel, i)
      BY <2>4, InstructionAssumption DEF IInv, TypeOK, Submit, Accepts
    <3>2. /\ channel'.activated >= channel.activated
          /\ channel'.settled = channel.settled \/ channel'.activated = channel.activated
          /\ channel.bound => channel'.bound /\ channel'.recipient = channel.recipient
          /\ channel.lifecycle # "uninitialized" => channel'.accounts = channel.accounts
      BY <3>1, HandlerKeepsRights
    <3> QED
      BY <2>1, <2>2, <3>2 DEF Outstanding
  <2> QED
    BY <2>3, <2>4 DEF Next
<1> QED
  BY <1>1, VaultInductive, PTL DEF Spec, RightsPreserved

\* After the claim deadline no money is stranded, given a bound recipient.
THEOREM NothingStranded == Spec => []NeverStranded
<1>1. IInv => NeverStranded
  <2> SUFFICES ASSUME IInv PROVE NeverStranded
    OBVIOUS
  <2> DEFINE c == channel
  <2>1. /\ c \in ModelStates /\ now \in Time /\ Coherent(c)
        /\ c.funded \in Nat /\ c.activated \in Nat /\ c.settled \in Nat /\ c.refunded \in Nat
        /\ c.funded <= MaxU64
        /\ c.settled <= c.activated /\ c.activated + c.refunded <= c.funded
    BY WidthAssumption DEF IInv, TypeOK, ModelStates, U64, Coherent, InvariantsHold
  <2>2. c.lifecycle = "finalized" => c.settled + c.refunded = c.funded
    BY <2>1 DEF Coherent, CanFinalize, Outstanding, Unallocated
  <2>3. ASSUME ClosingFrozen(c, now), c.bound \/ Outstanding(c) = 0
        PROVE  \/ Accepts(c, SettleAll(c), now) \/ Accepts(c, RefundAll(c), now)
               \/ Accepts(c, [op |-> "finalize"], now)
    <3>1. c.lifecycle = "closing" /\ InvariantsHold(c)
      BY <2>1, <2>3 DEF ClosingFrozen, Coherent
    <3>2. ASSUME NEW i \in InstructionTypes, Permitted(c, i, now) PROVE Accepts(c, i, now)
      BY <2>1, <3>1, <3>2, HandlerIsSafe DEF Accepts
    <3>3. CASE Outstanding(c) > 0
      <4>1. SettleAll(c) \in InstructionTypes
        <5>1. Outstanding(c) \in U64 /\ CanonicalAta(c.recipient, c.accounts) \in
                (Keys \cup {ZeroKey}) \X (Keys \cup {ZeroKey})
          BY <2>1, WidthAssumption DEF Outstanding, U64, CanonicalAta, ModelStates
        <5> QED
          BY <5>1 DEF SettleAll, InstructionTypes
      <4>2. Permitted(c, SettleAll(c), now)
        BY <2>1, <2>3, <3>1, <3>3
           DEF Permitted, LifecycleAdmits, SettlePhase, CanSettle, SettleAll, Outstanding
      <4> QED
        BY <4>1, <4>2, <3>2
    <3>4. CASE Unallocated(c) > 0
      <4>1. RefundAll(c) \in InstructionTypes
        BY <2>1, WidthAssumption DEF RefundAll, InstructionTypes, Unallocated, U64
      <4>2. Permitted(c, RefundAll(c), now)
        BY <2>1, <2>3, <3>4 DEF Permitted, LifecycleAdmits, CanRefund, RefundAll, Unallocated
      <4> QED
        BY <4>1, <4>2, <3>2
    <3>5. CASE Outstanding(c) = 0 /\ Unallocated(c) = 0
      <4>1. [op |-> "finalize"] \in InstructionTypes
        BY DEF InstructionTypes
      <4>2. Permitted(c, [op |-> "finalize"], now)
        BY <2>3, <3>5 DEF Permitted, LifecycleAdmits, CanFinalize
      <4> QED
        BY <4>1, <4>2, <3>2
    <3>6. Outstanding(c) >= 0 /\ Unallocated(c) >= 0 /\ Outstanding(c) \in Int
          /\ Unallocated(c) \in Int
      BY <2>1 DEF Outstanding, Unallocated
    <3> QED
      BY <3>3, <3>4, <3>5, <3>6
  <2> QED
    BY <2>2, <2>3 DEF NeverStranded
<1> QED
  BY <1>1, VaultInductive, PTL

-----------------------------------------------------------------------------
(* Concurrent clients.                                                     *)

\* A candidate based on the current version projects the state it leads to.
Fresh ==
  \A c \in candidates :
    c.read <= version /\ (c.read = version => c.projected = Result(channel, c.op))

\* Every recorded close left the channel closing, with the deadline it chose.
CloseRecorded ==
  \A m \in DOMAIN history :
    history[m].op.op = "request_close" =>
      /\ channel.lifecycle \in {"closing", "finalized"}
      /\ channel.deadline = history[m].op.deadline
      /\ history[m].op.deadline \in Time
      /\ history[m].op.deadline >= history[m].at + MinWindow

HarnessInv == HarnessTypeOK /\ Coherent(channel) /\ Fresh /\ CloseRecorded /\ ClaimWindowKept

\* Facts about an operation that apply() accepts at time t.
LEMMA AcceptedOperation ==
  ASSUME NEW s \in ModelStates, NEW i \in InstructionTypes, NEW t \in Time,
         Coherent(s), Accepts(s, i, t)
  PROVE  /\ s.lifecycle # "finalized"
         /\ s.lifecycle = "closing" =>
              /\ i.op \notin {"fund", "request_close"}
              /\ i.op \in {"activate", "bind"} => t < s.deadline
              /\ i.op \in {"refund", "finalize"} => t >= s.deadline
              /\ Result(s, i).lifecycle \in {"closing", "finalized"}
              /\ Result(s, i).deadline = s.deadline
         /\ i.op = "request_close" =>
              /\ s.lifecycle = "active"
              /\ Result(s, i).lifecycle = "closing"
              /\ Result(s, i).deadline = i.deadline
              /\ i.deadline \in Time /\ i.deadline >= t + MinWindow
<1>1. i.op \in {"initialize", "fund", "activate", "bind", "settle", "request_close",
                "refund", "finalize"}
  BY DEF InstructionTypes
<1>2. s.lifecycle # "finalized" /\ LifecycleAdmits(s, i.op, t)
  BY DEF Accepts, Permitted
<1>3. ASSUME s.lifecycle = "closing"
      PROVE  /\ i.op \notin {"initialize", "fund", "request_close"}
             /\ i.op \in {"activate", "bind"} => t < s.deadline
             /\ i.op \in {"refund", "finalize"} => t >= s.deadline
  BY <1>1, <1>2, <1>3 DEF LifecycleAdmits, ActiveOrClosingOpen, ClosingFrozen
<1>4. ASSUME s.lifecycle = "closing"
      PROVE  /\ Result(s, i).lifecycle \in {"closing", "finalized"}
             /\ Result(s, i).deadline = s.deadline
  BY <1>1, <1>3, <1>4 DEF Result, ModelStates
<1>5. ASSUME i.op = "request_close"
      PROVE  /\ s.lifecycle = "active"
             /\ Result(s, i).lifecycle = "closing" /\ Result(s, i).deadline = i.deadline
             /\ i.deadline \in Time /\ i.deadline >= t + MinWindow
  <2>1. s.lifecycle = "active" /\ CanRequestClose(i, t)
    BY <1>5 DEF Accepts, Permitted, LifecycleAdmits
  <2>2. Result(s, i) = [s EXCEPT !.lifecycle = "closing", !.deadline = i.deadline]
    BY <1>5 DEF Result
  <2>3. i.deadline \in Time
    BY <1>5 DEF InstructionTypes
  <2> QED
    BY <2>1, <2>2, <2>3 DEF ModelStates, CanRequestClose
<1> QED
  BY <1>2, <1>3, <1>4, <1>5

\* The harness starts in the invariant.
LEMMA HarnessInitInv == HarnessInit => HarnessInv
  BY StartAssumption, WidthAssumption
     DEF HarnessInit, Init, HarnessInv, HarnessTypeOK, TypeOK, Fresh, CloseRecorded, ClaimWindowKept, Time

\* A commit keeps every part of the invariant.
LEMMA CommitInv ==
  ASSUME HarnessInv, NEW c \in candidates, Commit(c) PROVE HarnessInv'
<1> DEFINE r == [id |-> c.id, op |-> c.op, at |-> now, before |-> version, after |-> version + 1]
<1>1. /\ channel \in ModelStates /\ now \in Time /\ Coherent(channel)
      /\ c.id \in OperationIds /\ c.op \in Instructions /\ c.op \in InstructionTypes
      /\ Accepts(channel, c.op, now) /\ Permitted(channel, c.op, now)
      /\ channel' = Result(channel, c.op) /\ version \in Nat /\ version' = version + 1
      /\ history \in Seq(Records) /\ history' = Append(history, r)
      /\ now' = now /\ candidates' = candidates /\ initial' = initial
      /\ accepted' = accepted \cup {c.id}
  BY InstructionAssumption DEF HarnessInv, HarnessTypeOK, TypeOK, Commit, Committable, Accepts
<1>2. channel' \in ModelStates /\ Coherent(channel')
  BY <1>1, HandlerIsSafe
<1>3. HarnessTypeOK'
  <2>1. r \in Records
    BY <1>1 DEF Records
  <2>2. history' \in Seq(Records)
    BY <1>1, <2>1
  <2> QED
    BY <1>1, <1>2, <2>2 DEF HarnessInv, HarnessTypeOK, TypeOK
<1>4. Fresh'
  BY <1>1 DEF HarnessInv, HarnessTypeOK, TypeOK, Fresh
<1>5. /\ Len(history) \in Nat /\ DOMAIN history = 1..Len(history)
      /\ DOMAIN history' = 1..(Len(history) + 1)
      /\ \A m \in DOMAIN history : history'[m] = history[m]
      /\ history'[Len(history) + 1] = r
      /\ r.op = c.op /\ r.at = now
  BY <1>1
<1> HIDE DEF r
<1>6. /\ channel.lifecycle # "finalized"
      /\ channel.lifecycle = "closing" =>
           /\ c.op.op \notin {"fund", "request_close"}
           /\ c.op.op \in {"activate", "bind"} => now < channel.deadline
           /\ c.op.op \in {"refund", "finalize"} => now >= channel.deadline
           /\ channel'.lifecycle \in {"closing", "finalized"}
           /\ channel'.deadline = channel.deadline
      /\ c.op.op = "request_close" =>
           /\ channel'.lifecycle = "closing"
           /\ channel'.deadline = c.op.deadline
           /\ c.op.deadline \in Time /\ c.op.deadline >= now + MinWindow
  BY <1>1, AcceptedOperation
<1>7. CloseRecorded'
  <2> SUFFICES ASSUME NEW m \in DOMAIN history', history'[m].op.op = "request_close"
               PROVE  /\ channel'.lifecycle \in {"closing", "finalized"}
                      /\ channel'.deadline = history'[m].op.deadline
                      /\ history'[m].op.deadline \in Time
                      /\ history'[m].op.deadline >= history'[m].at + MinWindow
    BY DEF CloseRecorded
  <2>1. CASE m \in DOMAIN history
    BY <2>1, <1>5, <1>6 DEF HarnessInv, CloseRecorded
  <2>2. CASE m = Len(history) + 1
    BY <2>2, <1>5, <1>6
  <2> QED
    BY <2>1, <2>2, <1>5
<1>8. ClaimWindowKept'
  <2> SUFFICES ASSUME NEW m \in DOMAIN history', NEW n \in DOMAIN history',
                      m < n, history'[m].op.op = "request_close"
               PROVE  /\ history'[n].op.op \in {"activate", "bind"} =>
                           history'[n].at < history'[m].op.deadline
                      /\ history'[n].op.op \in {"refund", "finalize"} =>
                           /\ history'[n].at >= history'[m].op.deadline
                           /\ history'[n].at >= history'[m].at + MinWindow
                      /\ history'[n].op.op \notin {"fund", "request_close"}
    BY DEF ClaimWindowKept
  <2>1. m \in DOMAIN history /\ history'[m] = history[m]
    BY <1>5
  <2>2. CASE n \in DOMAIN history
    BY <2>1, <2>2, <1>5 DEF HarnessInv, ClaimWindowKept
  <2>3. CASE n = Len(history) + 1
    <3>1. /\ channel.lifecycle = "closing" /\ channel.deadline = history[m].op.deadline
          /\ history[m].op.deadline \in Time
          /\ history[m].op.deadline >= history[m].at + MinWindow
      BY <2>1, <1>6 DEF HarnessInv, CloseRecorded
    <3>2. history[m].at \in Int /\ history[m].op.deadline \in Int /\ now \in Int
      <4>1. history[m] \in Records
        BY <1>1, <2>1
      <4> QED
        BY <1>1, <4>1, <3>1, WidthAssumption DEF Records, Time
    <3>3. history'[n].op = c.op /\ history'[n].at = now
      BY <2>3, <1>5
    <3> QED
      BY <2>1, <3>1, <3>2, <3>3, <1>6, WidthAssumption
  <2> QED
    BY <2>2, <2>3, <1>5
<1> QED
  BY <1>2, <1>3, <1>4, <1>7, <1>8 DEF HarnessInv

\* Every step of a client and of the clock keeps the invariant.
LEMMA HarnessInductive == HarnessSpec => []HarnessInv
<1>1. HarnessInv /\ [HarnessNext]_harnessVars => HarnessInv'
  <2> SUFFICES ASSUME HarnessInv, [HarnessNext]_harnessVars PROVE HarnessInv'
    OBVIOUS
  <2>1. CASE HarnessTick
    BY <2>1, WidthAssumption
       DEF HarnessTick, Tick, HarnessInv, HarnessTypeOK, TypeOK, Time, Fresh, CloseRecorded, ClaimWindowKept
  <2>2. ASSUME NEW id \in OperationIds, NEW i \in Instructions, NEW t \in Time,
               Prepare(id, i, t)
        PROVE  HarnessInv'
    <3> DEFINE d == [id |-> id, op |-> i, read |-> version, projected |-> Result(channel, i)]
    <3>1. /\ channel \in ModelStates /\ Coherent(channel) /\ i \in InstructionTypes
          /\ Permitted(channel, i, t)
      BY <2>2, InstructionAssumption DEF HarnessInv, HarnessTypeOK, TypeOK, Prepare, Accepts
    <3>2. Result(channel, i) \in ModelStates
      BY <3>1, HandlerIsSafe
    <3>3. /\ candidates' = candidates \cup {d}
          /\ UNCHANGED <<now, initial, channel, version, accepted, history>>
      BY <2>2 DEF Prepare
    <3>4. HarnessTypeOK'
      BY <3>2, <3>3 DEF HarnessInv, HarnessTypeOK, TypeOK
    <3>5. Fresh'
      BY <3>3 DEF HarnessInv, HarnessTypeOK, TypeOK, Fresh
    <3> QED
      BY <3>3, <3>4, <3>5 DEF HarnessInv, CloseRecorded, ClaimWindowKept
  <2>3. ASSUME NEW c \in candidates, Commit(c) PROVE HarnessInv'
    BY <2>3, CommitInv
  <2>4. ASSUME NEW c \in candidates, Discard(c) PROVE HarnessInv'
    BY <2>4 DEF Discard, HarnessInv, HarnessTypeOK, TypeOK, Fresh, CloseRecorded, ClaimWindowKept
  <2>5. CASE UNCHANGED harnessVars
    BY <2>5 DEF harnessVars, HarnessInv, HarnessTypeOK, TypeOK, Fresh, CloseRecorded, ClaimWindowKept
  <2> QED
    BY <2>1, <2>2, <2>3, <2>4, <2>5 DEF HarnessNext
<1> QED
  BY <1>1, HarnessInitInv, PTL DEF HarnessSpec

\* The harness's state stays well formed whatever its clients hold.
THEOREM HarnessTypesHold == HarnessSpec => []HarnessTypeOK
<1>1. HarnessInv => HarnessTypeOK
  BY DEF HarnessInv
<1> QED
  BY <1>1, HarnessInductive, PTL

\* No operation of another client comes between a snapshot and its commit.
THEOREM CommitsAreAsProjected == HarnessSpec => []CommitsAsProjected
<1>1. HarnessInv => CommitsAsProjected
  BY DEF HarnessInv, Fresh, CommitsAsProjected, Committable
<1> QED
  BY <1>1, HarnessInductive, PTL

\* The claim window holds over the whole history of commits.
THEOREM ClaimWindowIsKept == HarnessSpec => []ClaimWindowKept
<1>1. HarnessInv => ClaimWindowKept
  BY DEF HarnessInv
<1> QED
  BY <1>1, HarnessInductive, PTL

\* The concurrent harness implements the sequential channel: every commit is
\* one submission at the commit time, and every other step but the clock's
\* leaves the channel as it is.
THEOREM Refinement == HarnessSpec => Linearizable
<1>1. HarnessInit => Init
  BY DEF HarnessInit
<1>2. HarnessInv /\ [HarnessNext]_harnessVars => [Next]_vars
  <2> SUFFICES ASSUME HarnessInv, [HarnessNext]_harnessVars PROVE Next \/ UNCHANGED vars
    OBVIOUS
  <2>1. CASE HarnessTick
    BY <2>1 DEF HarnessTick, Next
  <2>2. ASSUME NEW id \in OperationIds, NEW i \in Instructions, NEW t \in Time,
               Prepare(id, i, t)
        PROVE  UNCHANGED vars
    BY <2>2 DEF Prepare, vars
  <2>3. ASSUME NEW c \in candidates, Commit(c) PROVE Next
    <3>1. c.op \in Instructions
      BY DEF HarnessInv, HarnessTypeOK, TypeOK
    <3>2. Submit(c.op)
      BY <2>3 DEF Commit, Committable, Submit
    <3> QED
      BY <3>1, <3>2 DEF Next
  <2>4. ASSUME NEW c \in candidates, Discard(c) PROVE UNCHANGED vars
    BY <2>4 DEF Discard, vars
  <2>5. CASE UNCHANGED harnessVars
    BY <2>5 DEF harnessVars, vars
  <2> QED
    BY <2>1, <2>2, <2>3, <2>4, <2>5 DEF HarnessNext
<1> QED
  BY <1>1, <1>2, HarnessInductive, PTL DEF HarnessSpec, Linearizable, Spec

-----------------------------------------------------------------------------
(* The serial witness.  Replay is a recursive function of the history, and *)
(* what it computes is not found by induction on its argument but by the   *)
(* steps of the harness: after each of them some function replays the      *)
(* history, and every function that does leads to the current state.       *)

\* The states f[0], f[1], ... replay the history from the initial state.
Replays(f) ==
  /\ f[0] = initial
  /\ \A n \in DOMAIN history : f[n] = Result(f[n - 1], history[n].op)

\* The log names each accepted operation once, without gaps.
LogInv ==
  /\ version = Len(history)
  /\ accepted = {history[n].id : n \in DOMAIN history}
  /\ IsFiniteSet(accepted) /\ Cardinality(accepted) = version
  /\ \A n \in DOMAIN history : history[n].before = n - 1 /\ history[n].after = n

ReplayInv ==
  /\ \E f : Replays(f)
  /\ \A f : Replays(f) =>
       /\ f[version] = channel
       /\ \A n \in DOMAIN history : Accepts(f[n - 1], history[n].op, history[n].at)

\* A harness that has committed nothing is replayed by its initial state.
LEMMA ReplayInit == HarnessInit => LogInv /\ ReplayInv
<1> SUFFICES ASSUME HarnessInit PROVE LogInv /\ ReplayInv
  OBVIOUS
<1>1. /\ history = <<>> /\ Len(history) = 0 /\ DOMAIN history = {} /\ version = 0
      /\ accepted = {} /\ initial = channel
  BY DEF HarnessInit
<1>2. IsFiniteSet(accepted) /\ Cardinality(accepted) = 0
  BY <1>1, FS_EmptySet
<1>3. accepted = {history[n].id : n \in DOMAIN history}
  BY <1>1
<1>4. Replays([n \in {0} |-> initial])
  BY <1>1 DEF Replays
<1>5. \A f : Replays(f) => f[version] = channel
  BY <1>1 DEF Replays
<1> QED
  BY <1>1, <1>2, <1>3, <1>4, <1>5 DEF LogInv, ReplayInv

\* A commit adds one record, which leads from the last state to the next.
LEMMA ReplayCommit ==
  ASSUME HarnessInv, LogInv, ReplayInv, NEW c \in candidates, Commit(c)
  PROVE  LogInv' /\ ReplayInv'
<1> DEFINE r == [id |-> c.id, op |-> c.op, at |-> now, before |-> version, after |-> version + 1]
           k == version + 1
<1>1. /\ history \in Seq(Records) /\ version \in Nat /\ version = Len(history)
      /\ c.id \notin accepted /\ Accepts(channel, c.op, now)
      /\ history' = Append(history, r) /\ version' = version + 1
      /\ channel' = Result(channel, c.op) /\ initial' = initial
      /\ accepted' = accepted \cup {c.id}
  BY DEF HarnessInv, HarnessTypeOK, Commit, Committable, LogInv
<1>2. /\ DOMAIN history = 1..version /\ DOMAIN history' = 1..k
      /\ \A m \in 1..version : history'[m] = history[m]
      /\ history'[k] = r
      /\ r.op = c.op /\ r.at = now /\ r.id = c.id /\ r.before = k - 1 /\ r.after = k
      /\ k \in Nat /\ 1..k = (1..version) \cup {k} /\ k \notin 1..version
  BY <1>1
<1> HIDE DEF r
<1>3. LogInv'
  <2>1. version' = Len(history')
    BY <1>1
  <2>2. accepted' = {history'[n].id : n \in DOMAIN history'}
    BY <1>1, <1>2 DEF LogInv
  <2>3. IsFiniteSet(accepted') /\ Cardinality(accepted') = version'
    BY <1>1, FS_AddElement DEF LogInv
  <2>4. ASSUME NEW n \in DOMAIN history'
        PROVE  history'[n].before = n - 1 /\ history'[n].after = n
    BY <1>2 DEF LogInv
  <2> QED
    BY <2>1, <2>2, <2>3, <2>4 DEF LogInv
<1>4. \E f : Replays(f)'
  <2>1. PICK f : Replays(f)
    BY DEF ReplayInv
  <2> DEFINE g == [n \in 0..k |-> IF n = k THEN Result(f[version], c.op) ELSE f[n]]
  <2>2. g[0] = f[0] /\ g[k] = Result(f[version], c.op) /\ g[k - 1] = f[version]
    BY <1>1, <1>2
  <2>3. \A n \in 1..version : g[n] = f[n] /\ g[n - 1] = f[n - 1]
    BY <1>1
  <2> HIDE DEF g
  <2>4. ASSUME NEW n \in DOMAIN history' PROVE g[n] = Result(g[n - 1], history'[n].op)
    <3>1. CASE n \in 1..version
      BY <1>2, <2>1, <2>3, <3>1 DEF Replays
    <3>2. CASE n = k
      BY <1>2, <2>2, <3>2
    <3> QED
      BY <1>2, <3>1, <3>2
  <2>5. g[0] = initial'
    BY <1>1, <2>1, <2>2 DEF Replays
  <2>6. \E h : h[0] = initial' /\ \A n \in DOMAIN history' : h[n] = Result(h[n - 1], history'[n].op)
    BY <2>4, <2>5
  <2> QED
    BY <2>6 DEF Replays
<1>5. ASSUME NEW f, Replays(f)'
      PROVE  /\ f[version'] = channel'
             /\ \A n \in DOMAIN history' : Accepts(f[n - 1], history'[n].op, history'[n].at)
  <2>1. f[0] = initial' /\ \A n \in DOMAIN history' : f[n] = Result(f[n - 1], history'[n].op)
    BY <1>5 DEF Replays
  <2>2. Replays(f)
    BY <1>1, <1>2, <2>1 DEF Replays
  <2>3. f[version] = channel
        /\ \A n \in DOMAIN history : Accepts(f[n - 1], history[n].op, history[n].at)
    BY <2>2 DEF ReplayInv
  <2>4. k \in DOMAIN history' /\ k - 1 = version
    BY <1>1, <1>2
  <2>5. f[k] = Result(channel, c.op)
    BY <1>2, <2>1, <2>3, <2>4
  <2>6. ASSUME NEW n \in DOMAIN history' PROVE Accepts(f[n - 1], history'[n].op, history'[n].at)
    <3>1. CASE n \in 1..version
      BY <1>2, <2>3, <3>1
    <3>2. CASE n = k
      BY <1>1, <1>2, <2>3, <2>4, <3>2
    <3> QED
      BY <1>2, <3>1, <3>2
  <2> QED
    BY <1>1, <2>5, <2>6
<1> QED
  BY <1>3, <1>4, <1>5 DEF ReplayInv

\* verify_serial_witness succeeds after every commit: replaying the history
\* from the initial state, each record at its commit time, is accepted record
\* by record and ends in the current state.
THEOREM SerialWitnessHolds == HarnessSpec => []SerialWitness
<1>1. HarnessInv /\ LogInv /\ ReplayInv /\ [HarnessNext]_harnessVars => (LogInv /\ ReplayInv)'
  <2> SUFFICES ASSUME HarnessInv, LogInv, ReplayInv, [HarnessNext]_harnessVars
               PROVE  (LogInv /\ ReplayInv)'
    OBVIOUS
  <2>1. ASSUME UNCHANGED <<initial, channel, version, accepted, history>>
        PROVE  (LogInv /\ ReplayInv)'
    BY <2>1 DEF LogInv, ReplayInv, Replays
  <2>2. ASSUME NEW c \in candidates, Commit(c) PROVE (LogInv /\ ReplayInv)'
    BY <2>2, ReplayCommit
  <2> QED
    BY <2>1, <2>2 DEF HarnessNext, HarnessTick, Tick, Prepare, Discard, harnessVars
<1>2. HarnessInv /\ LogInv /\ ReplayInv => SerialWitness
  <2> SUFFICES ASSUME HarnessInv, LogInv, ReplayInv PROVE SerialWitness
    OBVIOUS
  <2> DEFINE D == 0..Len(history)
             Body(f) == [n \in D |-> IF n = 0 THEN initial ELSE Result(f[n - 1], history[n].op)]
  <2>0. /\ Len(history) \in Nat /\ DOMAIN history = 1..Len(history)
    BY DEF HarnessInv, HarnessTypeOK
  <2>1. \E f : f = Body(f)
    <3>1. PICK f : Replays(f)
      BY DEF ReplayInv
    <3> DEFINE g == [n \in D |-> f[n]]
    <3>2. \A n \in D : n # 0 => n \in DOMAIN history /\ n - 1 \in D
      BY <2>0
    <3>3. \A n \in D : g[n] = Body(g)[n]
      BY <2>0, <3>1, <3>2 DEF Replays
    <3>4. g = Body(g)
      BY <3>3
    <3> QED
      BY <3>4
  <2>2. Replay = Body(Replay)
    BY <2>1 DEF Replay
  <2>3. Replays(Replay)
    <3>1. \A n \in D : Replay[n] = IF n = 0 THEN initial ELSE Result(Replay[n - 1], history[n].op)
      BY <2>2
    <3>2. 0 \in D /\ \A n \in DOMAIN history : n \in D /\ n # 0
      BY <2>0
    <3> QED
      BY <3>1, <3>2 DEF Replays
  <2> QED
    BY <2>3 DEF LogInv, ReplayInv, SerialWitness
<1> QED
  BY <1>1, <1>2, ReplayInit, HarnessInductive, PTL DEF HarnessSpec

-----------------------------------------------------------------------------
(* The claim flow: the two ledgers off the chain and the vault.            *)

SequenceOf(s) == Voucher[VoucherOf[s]].sequence

\* The channel is open and has refunded nothing, and its account is sound.
OpenVault ==
  /\ Coherent(vault)
  /\ vault.lifecycle \in {"active", "closing"}
  /\ vault.refunded = 0

\* A context the account showed, now or earlier: what it names as activated is
\* what the voucher it names says, and funding has only grown.
Reflects(c) ==
  /\ c.refunded = 0 /\ c.funded <= vault.funded
  /\ c.voucher = 0 => c.sequence = 0 /\ c.activated = 0
  /\ c.voucher # 0 => /\ c.voucher \in Vouchers
                      /\ c.sequence = Voucher[c.voucher].sequence
                      /\ c.activated = Voucher[c.voucher].total

PastReflects == Context(vault, latest) \in past /\ \A c \in past : Reflects(c)

\* A requested activation was verified against some context of the past.
RequestsVerified ==
  \A s \in Submissions :
    row[s].state = "activation_requested" =>
      /\ Voucher[VoucherOf[s]].signed
      /\ \E c \in past, t \in Nat : SoundBut(Voucher[VoucherOf[s]], c, t)

\* Any live submissions have one of the highest sequence among them: what the
\* query for the latest one returns exists.
HasHighest(S) == S # {} => \E top \in S : \A o \in S : SequenceOf(o) <= SequenceOf(top)

LiveHistory == LiveVouchersOrdered /\ \A S \in SUBSET Live : HasHighest(S)

FlowInv ==
  /\ FlowTypeOK /\ OpenVault /\ PastReflects
  /\ RequestsVerified /\ LiveHistory /\ BindingUsedOnce

\* A step of the vault leaves the ledgers alone, keeps the account sound and
\* takes nothing away from it.
LEMMA VaultMoves ==
  ASSUME FlowTypeOK, OpenVault, NEW i \in InstructionTypes,
         i.op \in {"fund", "activate", "bind", "request_close"}, Apply(i)
  PROVE  /\ vault' \in ModelStates /\ OpenVault' /\ vault'.funded >= vault.funded
         /\ i.op # "activate" => vault'.sequence = vault.sequence
                                 /\ vault'.activated = vault.activated
<1>1. vault \in ModelStates /\ clock \in Time /\ Coherent(vault)
  BY FlowAssumption, WidthAssumption DEF FlowTypeOK, OpenVault, Time
<1>2. Permitted(vault, i, clock) /\ vault' = Result(vault, i)
  BY DEF Apply, Accepts
<1>3. /\ Result(vault, i) \in ModelStates /\ Coherent(Result(vault, i))
      /\ Success(vault, Result(vault, i))
  BY <1>1, <1>2, HandlerIsSafe
<1>4. /\ Result(vault, i).refunded = vault.refunded
      /\ Result(vault, i).lifecycle \in {vault.lifecycle, "closing"}
      /\ i.op # "activate" => Result(vault, i).sequence = vault.sequence
                              /\ Result(vault, i).activated = vault.activated
  BY <1>1 DEF Result, ModelStates
<1>5. vault'.funded >= vault.funded
  BY <1>2, <1>3 DEF Success
<1> QED
  BY <1>2, <1>3, <1>4, <1>5 DEF OpenVault

\* The contexts after a step of the vault still reflect the account.
LEMMA ContextStep ==
  ASSUME FlowTypeOK, OpenVault, PastReflects,
         vault' \in ModelStates, OpenVault', vault'.funded >= vault.funded,
         latest' \in Vouchers \cup {0},
         past' = past \cup {Context(vault', latest')},
         \/ latest' = latest /\ vault'.sequence = vault.sequence
                             /\ vault'.activated = vault.activated
         \/ latest' \in Vouchers /\ vault'.sequence = Voucher[latest'].sequence
                                 /\ vault'.activated = Voucher[latest'].total
  PROVE  PastReflects' /\ past' \subseteq Contexts
<1> DEFINE new == Context(vault', latest')
<1>1. /\ new.funded = vault'.funded /\ new.refunded = vault'.refunded
      /\ new.sequence = vault'.sequence /\ new.activated = vault'.activated
      /\ new.voucher = latest' /\ new.expires = ChannelExpiry
  BY DEF Context
<1>2. vault'.refunded = 0
  BY DEF OpenVault
<1>3. /\ vault.funded \in Int /\ vault'.funded \in Int
      /\ 0 \notin Vouchers
  BY WidthAssumption, VoucherAssumption DEF FlowTypeOK, ModelStates, U64
<1>4. Reflects(Context(vault, latest))
  BY DEF PastReflects
<1>5. /\ latest = 0 => vault.sequence = 0 /\ vault.activated = 0
      /\ latest # 0 => /\ latest \in Vouchers
                       /\ vault.sequence = Voucher[latest].sequence
                       /\ vault.activated = Voucher[latest].total
  BY <1>4 DEF Reflects, Context
<1>6. Reflects(Context(vault, latest))'
  <2>1. /\ latest' = 0 => vault'.sequence = 0 /\ vault'.activated = 0
        /\ latest' # 0 => /\ latest' \in Vouchers
                          /\ vault'.sequence = Voucher[latest'].sequence
                          /\ vault'.activated = Voucher[latest'].total
    BY <1>3, <1>5
  <2> QED
    BY <2>1, <1>1, <1>2, <1>3 DEF Reflects, Context
<1>7. ASSUME NEW c \in past PROVE Reflects(c)'
  <2>1. Reflects(c) /\ c.funded \in Int
    BY DEF PastReflects, FlowTypeOK, Contexts
  <2> QED
    BY <2>1, <1>3 DEF Reflects
<1>8. new \in Contexts
  BY <1>3, WidthAssumption, VoucherAssumption, FlowAssumption
     DEF Context, Contexts, ModelStates, U64
<1>9. past \subseteq Contexts
  BY DEF FlowTypeOK
<1> QED
  <2>1. ASSUME NEW c \in past' PROVE Reflects(c)'
    <3>1. c \in past \/ c = Context(vault', latest')
      OBVIOUS
    <3> QED
      BY <3>1, <1>6, <1>7, Zenon
  <2> QED
    BY <2>1, <1>8, <1>9 DEF PastReflects

\* Whatever the vault does, the ledgers' part of the invariant stays.
LEMMA ChainStep ==
  ASSUME FlowInv, NEW i \in InstructionTypes,
         i.op \in {"fund", "activate", "bind", "request_close"}, Apply(i),
         latest' \in Vouchers \cup {0}, closeAt' \in Nat \cup {None},
         \/ latest' = latest /\ i.op # "activate"
         \/ latest' \in Vouchers /\ i = ActivateInstruction(Voucher[latest'])
  PROVE  FlowInv'
<1>1. /\ FlowTypeOK /\ OpenVault /\ PastReflects
      /\ RequestsVerified /\ LiveHistory /\ BindingUsedOnce
  BY DEF FlowInv
<1>2. /\ vault' \in ModelStates /\ OpenVault' /\ vault'.funded >= vault.funded
      /\ i.op # "activate" => vault'.sequence = vault.sequence
                              /\ vault'.activated = vault.activated
  BY <1>1, VaultMoves
<1>3. /\ vault' = Result(vault, i) /\ past' = past \cup {Context(vault', latest')}
      /\ clock' = clock /\ row' = row /\ checked' = checked /\ journal' = journal
  BY DEF Apply, bindingVars
<1>4. i = ActivateInstruction(Voucher[latest']) =>
        vault'.sequence = Voucher[latest'].sequence /\ vault'.activated = Voucher[latest'].total
  <2> SUFFICES ASSUME i = ActivateInstruction(Voucher[latest'])
               PROVE  /\ vault'.sequence = Voucher[latest'].sequence
                      /\ vault'.activated = Voucher[latest'].total
    OBVIOUS
  <2>1. /\ i.op = "activate" /\ i.sequence = Voucher[latest'].sequence
        /\ i.cumulative = Voucher[latest'].total
    BY DEF ActivateInstruction
  <2>2. vault' = [vault EXCEPT !.activated = i.cumulative, !.sequence = i.sequence]
    BY <2>1, <1>3 DEF Result
  <2> QED
    BY <2>1, <2>2, <1>1 DEF FlowTypeOK, ModelStates
<1>5. PastReflects' /\ past' \subseteq Contexts
  BY <1>1, <1>2, <1>3, <1>4, ContextStep
<1>6. FlowTypeOK'
  BY <1>1, <1>2, <1>3, <1>5 DEF FlowTypeOK, LedgerTypeOK, BindingTypeOK
<1>7. RequestsVerified'
  BY <1>1, <1>3 DEF RequestsVerified
<1>8. LiveHistory' /\ BindingUsedOnce'
  BY <1>1, <1>3 DEF LiveHistory, LiveVouchersOrdered, Live, HasHighest, BindingUsedOnce
<1> QED
  BY <1>2, <1>5, <1>6, <1>7, <1>8 DEF FlowInv

\* One write to the ledger keeps its live submissions one history, if what it
\* makes live was live before or lies above the latest one.
LEMMA LiveStep ==
  ASSUME LedgerTypeOK, LiveHistory, NEW s \in Submissions, NEW st \in LedgerStates,
         NEW t \in Nat, Write(s, st, t),
         st \in LiveStates => s \in Live \/ AboveLatest(s)
  PROVE  LedgerTypeOK' /\ LiveHistory'
<1> DEFINE W(o) == Voucher[VoucherOf[o]]
<1>1. /\ row'[s].state = st
      /\ \A o \in Submissions \ {s} : row'[o] = row[o]
  BY DEF Write, LedgerTypeOK
<1>2. LedgerTypeOK'
  BY DEF Write, LedgerTypeOK
<1>3. ASSUME NEW o \in Submissions
      PROVE  W(o).sequence \in Nat /\ W(o).total \in Nat /\ SequenceOf(o) = W(o).sequence
  BY VoucherAssumption DEF SequenceOf
<1>4. Live \subseteq Submissions /\ s \notin Live \ {s}
  BY DEF Live
<1>5. Live' \subseteq Live \cup {s} /\ (st \notin LiveStates => s \notin Live')
  BY <1>1 DEF Live
<1>6. CASE s \notin Live' \/ s \in Live
  <2>1. Live' \subseteq Live
    BY <1>5, <1>6
  <2>2. LiveVouchersOrdered'
    BY <2>1 DEF LiveHistory, LiveVouchersOrdered
  <2>3. \A S \in SUBSET Live' : HasHighest(S)
    BY <2>1 DEF LiveHistory
  <2> QED
    BY <1>2, <2>2, <2>3 DEF LiveHistory, HasHighest
<1>7. CASE s \in Live' /\ s \notin Live
  <2>1. AboveLatest(s) /\ Others(s) = Live
    BY <1>5, <1>7 DEF Others
  <2>2. ASSUME NEW o \in Live
        PROVE  W(o).sequence < W(s).sequence /\ W(o).total <= W(s).total
    <3>1. PICK top \in Live : \A q \in Live : SequenceOf(q) <= SequenceOf(top)
      BY DEF LiveHistory, HasHighest
    <3>2. W(s).sequence > W(top).sequence /\ W(s).total >= W(top).total
      BY <2>1, <3>1 DEF AboveLatest, SequenceOf
    <3>3. W(o).sequence <= W(top).sequence
      BY <3>1 DEF SequenceOf
    <3>4. o = top \/ W(o).total <= W(top).total
      BY <3>3, <1>3, <1>4 DEF LiveHistory, LiveVouchersOrdered
    <3> QED
      BY <3>2, <3>3, <3>4, <1>3, <1>4
  <2>3. LiveVouchersOrdered'
    <3> SUFFICES ASSUME NEW a \in Live', NEW b \in Live', a # b
                 PROVE  \/ W(a).sequence < W(b).sequence /\ W(a).total <= W(b).total
                        \/ W(b).sequence < W(a).sequence /\ W(b).total <= W(a).total
      BY DEF LiveVouchersOrdered
    <3>1. CASE a \in Live /\ b \in Live
      BY <3>1 DEF LiveHistory, LiveVouchersOrdered
    <3>2. CASE a = s
      BY <3>2, <2>2, <1>5
    <3>3. CASE b = s
      BY <3>3, <2>2, <1>5
    <3> QED
      BY <3>1, <3>2, <3>3, <1>5
  <2>4. ASSUME NEW S \in SUBSET Live' PROVE HasHighest(S)
    <3>1. S \ {s} \in SUBSET Live /\ S \ {s} \in SUBSET Submissions
      BY <1>4, <1>5
    <3>2. CASE s \notin S
      BY <3>1, <3>2 DEF LiveHistory
    <3>3. CASE s \in S
      <4>1. \A o \in S : SequenceOf(o) <= SequenceOf(s)
        BY <3>1, <2>2, <1>3
      <4> QED
        BY <3>3, <4>1 DEF HasHighest
    <3> QED
      BY <3>2, <3>3
  <2> QED
    BY <1>2, <2>3, <2>4 DEF LiveHistory, HasHighest
<1> QED
  BY <1>6, <1>7

\* One write to the ledger, with nothing else moving.
LEMMA LedgerWrite ==
  ASSUME FlowInv, OffChain, UNCHANGED bindingVars,
         NEW s \in Submissions, NEW st \in LedgerStates, NEW t \in Nat, Write(s, st, t),
         st \in LiveStates => s \in Live \/ AboveLatest(s),
         st = "activation_requested" =>
           \/ row[s].state = "activation_requested"
           \/ /\ Voucher[VoucherOf[s]].signed
              /\ \E c \in past : SoundBut(Voucher[VoucherOf[s]], c, t)
  PROVE  FlowInv'
<1>1. /\ FlowTypeOK /\ OpenVault /\ PastReflects
      /\ RequestsVerified /\ LiveHistory /\ BindingUsedOnce
  BY DEF FlowInv
<1>2. LedgerTypeOK' /\ LiveHistory'
  BY <1>1, LiveStep DEF FlowTypeOK
<1>3. /\ clock' = clock /\ vault' = vault /\ latest' = latest /\ closeAt' = closeAt
      /\ past' = past /\ checked' = checked /\ journal' = journal
  BY DEF OffChain, chainVars, bindingVars
<1>4. FlowTypeOK'
  BY <1>1, <1>2, <1>3 DEF FlowTypeOK, BindingTypeOK
<1>5. OpenVault' /\ PastReflects' /\ BindingUsedOnce'
  BY <1>1, <1>3 DEF OpenVault, PastReflects, Reflects, BindingUsedOnce
<1>6. RequestsVerified'
  <2> SUFFICES ASSUME NEW o \in Submissions, row'[o].state = "activation_requested"
               PROVE  /\ Voucher[VoucherOf[o]].signed
                      /\ \E c \in past, u \in Nat : SoundBut(Voucher[VoucherOf[o]], c, u)
    BY <1>3 DEF RequestsVerified
  <2>1. row'[s].state = st /\ (o # s => row'[o] = row[o])
    BY <1>1 DEF Write, FlowTypeOK, LedgerTypeOK
  <2> QED
    BY <1>1, <2>1 DEF RequestsVerified
<1> QED
  BY <1>2, <1>4, <1>5, <1>6 DEF FlowInv

\* What the ledger's methods write.
LEMMA LedgerStep ==
  ASSUME FlowInv, OffChain, UNCHANGED bindingVars, NEW s \in Submissions, NEW t \in 0..clock,
         \/ RecordIssued(s, t)
         \/ \E c \in past : VerifyIssued(s, c, t) \/ RequestActivation(s, c, t)
  PROVE  FlowInv'
<1> DEFINE v == Voucher[VoucherOf[s]]
<1>0. t \in Nat
  BY FlowAssumption, WidthAssumption DEF FlowInv, FlowTypeOK, Time
<1>1. CASE RecordIssued(s, t)
  <2>1. Write(s, "issued", t)
    BY <1>1 DEF RecordIssued
  <2>2. "issued" \in LedgerStates /\ "issued" \notin LiveStates
    BY DEF LedgerStates, LiveStates
  <2> QED
    BY <1>0, <2>1, <2>2, LedgerWrite
<1>2. ASSUME NEW c \in past, VerifyIssued(s, c, t) PROVE FlowInv'
  <2>1. /\ row[s].state = "issued"
        /\ \/ AboveLatest(s) /\ Write(s, "verified", t)
           \/ Write(s, "rejected", t)
           \/ Write(s, "issued", t)
    BY <1>2 DEF VerifyIssued, Verdict
  <2>2. /\ {"issued", "verified", "rejected"} \subseteq LedgerStates
        /\ "issued" \notin LiveStates /\ "rejected" \notin LiveStates
    BY DEF LedgerStates, LiveStates
  <2>3. CASE AboveLatest(s) /\ Write(s, "verified", t)
    BY <1>0, <2>2, <2>3, LedgerWrite
  <2>4. CASE Write(s, "rejected", t)
    BY <1>0, <2>2, <2>4, LedgerWrite
  <2>5. CASE Write(s, "issued", t)
    BY <1>0, <2>2, <2>5, LedgerWrite
  <2> QED
    BY <2>1, <2>3, <2>4, <2>5
<1>3. ASSUME NEW c \in past, RequestActivation(s, c, t) PROVE FlowInv'
  <2>1. /\ row[s].state = "verified"
        /\ \/ SoundBut(v, c, t) /\ v.signed /\ Write(s, "activation_requested", t)
           \/ Write(s, "rejected", t)
           \/ Write(s, "verified", t)
    BY <1>3 DEF RequestActivation, Verdict
  <2>2. /\ {"activation_requested", "verified", "rejected"} \subseteq LedgerStates
        /\ s \in Live /\ "rejected" \notin LiveStates
    BY <2>1 DEF LedgerStates, LiveStates, Live
  <2>3. CASE SoundBut(v, c, t) /\ v.signed /\ Write(s, "activation_requested", t)
    BY <1>0, <2>2, <2>3, LedgerWrite
  <2>4. CASE Write(s, "rejected", t)
    BY <1>0, <2>2, <2>4, LedgerWrite
  <2>5. CASE Write(s, "verified", t)
    BY <1>0, <2>2, <2>5, LedgerWrite
  <2> QED
    BY <2>1, <2>3, <2>4, <2>5
<1> QED
  BY <1>1, <1>2, <1>3

\* The two halves of verify_and_record: a domain that is taken stays taken.
LEMMA BindingStep ==
  ASSUME FlowInv, OffChain, UNCHANGED row,
         \/ \E k \in Claims, b \in Bindings, t \in 0..clock : VerifyBinding(k, b, t)
         \/ \E r \in checked : RecordBinding(r)
  PROVE  FlowInv'
<1>1. /\ FlowTypeOK /\ OpenVault /\ PastReflects
      /\ RequestsVerified /\ LiveHistory /\ BindingUsedOnce
  BY DEF FlowInv
<1>2. /\ clock' = clock /\ vault' = vault /\ latest' = latest /\ closeAt' = closeAt
      /\ past' = past /\ row' = row
  BY DEF OffChain, chainVars
<1>3. BindingTypeOK' /\ BindingUsedOnce'
  <2>1. ASSUME NEW k \in Claims, NEW b \in Bindings, NEW t \in 0..clock, VerifyBinding(k, b, t)
        PROVE  BindingTypeOK' /\ BindingUsedOnce'
    <3>1. [binding |-> b, at |-> t] \in BindingRecords
      BY <1>1, FlowAssumption, WidthAssumption DEF BindingRecords, FlowTypeOK, Time
    <3> QED
      BY <1>1, <2>1, <3>1 DEF VerifyBinding, BindingTypeOK, BindingUsedOnce, FlowTypeOK
  <2>2. ASSUME NEW r \in checked, RecordBinding(r) PROVE BindingTypeOK' /\ BindingUsedOnce'
    <3>1. /\ checked' = checked \ {r}
          /\ journal' = journal \/ (Unconsumed(r) /\ journal' = journal \cup {r})
      BY <2>2 DEF RecordBinding
    <3>2. BindingTypeOK'
      BY <1>1, <3>1 DEF BindingTypeOK, FlowTypeOK
    <3>3. BindingUsedOnce'
      BY <1>1, <3>1 DEF BindingUsedOnce, Unconsumed
    <3> QED
      BY <3>2, <3>3
  <2> QED
    BY <2>1, <2>2
<1>4. FlowTypeOK'
  BY <1>1, <1>2, <1>3 DEF FlowTypeOK, LedgerTypeOK
<1>5. OpenVault' /\ PastReflects' /\ RequestsVerified'
  BY <1>1, <1>2 DEF OpenVault, PastReflects, Reflects, RequestsVerified
<1>6. LiveHistory'
  BY <1>1, <1>2 DEF LiveHistory, LiveVouchersOrdered, Live, HasHighest
<1> QED
  BY <1>3, <1>4, <1>5, <1>6 DEF FlowInv

\* A channel just opened, and empty ledgers, satisfy the invariant.
LEMMA FlowInitInv == FlowInit => FlowInv
<1> SUFFICES ASSUME FlowInit PROVE FlowInv
  OBVIOUS
<1>1. Opened = [owner |-> "channel_vault", vault |-> "classic_token", lifecycle |-> "active",
                funded |-> 0, activated |-> 0, settled |-> 0, refunded |-> 0,
                sequence |-> 0, bound |-> FALSE, recipient |-> ZeroKey,
                nonceConsumed |-> FALSE, deadline |-> NoDeadline, accounts |-> Accounts]
  BY DEF Opened, Result, Uninitialized
<1>2. Accounts \in Keys /\ Accounts # ZeroKey
  BY FlowAssumption, KeyAssumption
<1>3. vault \in ModelStates
  BY <1>1, <1>2, WidthAssumption DEF FlowInit, ModelStates, U64
<1>4. OpenVault
  <2>1. /\ vault.bound = FALSE /\ vault.recipient = ZeroKey /\ vault.nonceConsumed = FALSE
        /\ vault.lifecycle = "active" /\ vault.deadline = NoDeadline
        /\ vault.refunded = 0
    BY <1>1 DEF FlowInit
  <2>2. InvariantsHold(vault)
    BY <1>1, <1>2 DEF FlowInit, InvariantsHold
  <2>3. vault.bound = (vault.recipient # ZeroKey) /\ vault.bound = vault.nonceConsumed
    BY <2>1, Zenon
  <2> QED
    BY <2>1, <2>2, <2>3 DEF OpenVault, Coherent
<1>5. past = {Context(Opened, 0)} /\ vault = Opened /\ latest = 0
  BY DEF FlowInit
<1>6. Context(Opened, 0) \in Contexts
  BY <1>1, FlowAssumption DEF Context, Contexts
<1>7. Reflects(Context(Opened, 0))
  BY <1>1, <1>5 DEF Reflects, Context
<1>8. LedgerTypeOK /\ Live = {} /\ \A s \in Submissions : row[s].state = "absent"
  BY DEF FlowInit, LedgerInit, LedgerTypeOK, Live, LiveStates, Absent
<1>9. BindingTypeOK /\ BindingUsedOnce
  BY DEF FlowInit, BindingInit, BindingTypeOK, BindingUsedOnce
<1>10. FlowTypeOK
  BY <1>3, <1>5, <1>6, <1>8, <1>9, FlowAssumption, WidthAssumption
     DEF FlowTypeOK, FlowInit, Time
<1>11. RequestsVerified /\ LiveHistory
  BY <1>8 DEF RequestsVerified, LiveHistory, LiveVouchersOrdered, HasHighest
<1> QED
  BY <1>4, <1>5, <1>7, <1>9, <1>10, <1>11 DEF FlowInv, PastReflects

\* Every step of the vault, of a ledger or of the clock keeps the invariant.
LEMMA FlowStepInv == FlowInv /\ [FlowNext]_flowVars => FlowInv'
<1> SUFFICES ASSUME FlowInv, [FlowNext]_flowVars PROVE FlowInv'
  OBVIOUS
<1>0. clock \in Nat /\ latest \in Vouchers \cup {0} /\ closeAt \in Nat \cup {None}
  BY FlowAssumption, WidthAssumption DEF FlowInv, FlowTypeOK, Time
<1>1. CASE FlowTick
  <2>1. /\ clock' \in 0..Horizon /\ vault' = vault /\ latest' = latest /\ closeAt' = closeAt
        /\ past' = past /\ row' = row /\ checked' = checked /\ journal' = journal
    BY <1>0, <1>1, FlowAssumption, WidthAssumption
       DEF FlowTick, chainVars, bindingVars, FlowInv, FlowTypeOK, Time
  <2> QED
    BY <2>1 DEF FlowInv, FlowTypeOK, OpenVault, PastReflects, Reflects, RequestsVerified,
                LiveHistory, LiveVouchersOrdered, Live, HasHighest, BindingUsedOnce,
                LedgerTypeOK, BindingTypeOK
<1>2. ASSUME NEW amount \in TopUps, FundChannel(amount) PROVE FlowInv'
  <2> DEFINE i == [op |-> "fund", amount |-> amount]
  <2>1. i \in InstructionTypes /\ i.op = "fund"
    BY FlowAssumption DEF InstructionTypes
  <2>2. Apply(i) /\ latest' = latest /\ closeAt' = closeAt
    BY <1>2 DEF FundChannel
  <2> QED
    BY <1>0, <2>1, <2>2, ChainStep
<1>3. ASSUME NEW h \in Vouchers, ActivateVoucher(h) PROVE FlowInv'
  <2> DEFINE i == ActivateInstruction(Voucher[h])
  <2>1. i \in InstructionTypes /\ i.op = "activate"
    BY FlowAssumption DEF InstructionTypes, ActivateInstruction
  <2>2. Apply(i) /\ latest' = h /\ closeAt' = closeAt
    BY <1>3 DEF ActivateVoucher
  <2> QED
    BY <1>0, <2>1, <2>2, ChainStep
<1>4. ASSUME NEW r \in journal, BindRecipient(r) PROVE FlowInv'
  <2> DEFINE i == [op |-> "bind", recipient |-> r.binding.wallet]
  <2>1. i \in InstructionTypes /\ i.op = "bind"
    <3>1. r.binding \in Bindings
      BY DEF FlowInv, FlowTypeOK, BindingTypeOK, BindingRecords
    <3>2. r.binding.wallet \in Keys
      BY <3>1, BindingAssumption, FlowAssumption
    <3> QED
      BY <3>2 DEF InstructionTypes
  <2>2. Apply(i) /\ latest' = latest /\ closeAt' = closeAt
    BY <1>4 DEF BindRecipient
  <2> QED
    BY <1>0, <2>1, <2>2, ChainStep
<1>5. ASSUME NEW deadline \in 0..Horizon, RequestClose(deadline) PROVE FlowInv'
  <2> DEFINE i == [op |-> "request_close", deadline |-> deadline]
  <2>1. i \in InstructionTypes /\ i.op = "request_close"
    BY FlowAssumption, WidthAssumption DEF InstructionTypes, Time
  <2>2. Apply(i) /\ latest' = latest /\ closeAt' = clock
    BY <1>5 DEF RequestClose
  <2> QED
    BY <1>0, <2>1, <2>2, ChainStep
<1>6. ASSUME OffChain, UNCHANGED bindingVars, NEW s \in Submissions, NEW t \in 0..clock,
             \/ RecordIssued(s, t)
             \/ \E c \in past : VerifyIssued(s, c, t) \/ RequestActivation(s, c, t)
      PROVE  FlowInv'
  BY <1>6, LedgerStep
<1>7. ASSUME OffChain, UNCHANGED row,
             \/ \E k \in Claims, b \in Bindings, t \in 0..clock : VerifyBinding(k, b, t)
             \/ \E r \in checked : RecordBinding(r)
      PROVE  FlowInv'
  BY <1>7, BindingStep
<1>8. CASE UNCHANGED flowVars
  <2>1. /\ clock' = clock /\ vault' = vault /\ latest' = latest /\ closeAt' = closeAt
        /\ past' = past /\ row' = row /\ checked' = checked /\ journal' = journal
    BY <1>8 DEF flowVars, chainVars, bindingVars
  <2> QED
    BY <2>1 DEF FlowInv, FlowTypeOK, OpenVault, PastReflects, Reflects, RequestsVerified,
                LiveHistory, LiveVouchersOrdered, Live, HasHighest, BindingUsedOnce,
                LedgerTypeOK, BindingTypeOK
<1> QED
  BY <1>1, <1>2, <1>3, <1>4, <1>5, <1>6, <1>7, <1>8 DEF FlowNext

\* The claim flow's inductive invariant.
LEMMA FlowInductive == FlowSpec => []FlowInv
<1> QED
  BY FlowInitInv, FlowStepInv, PTL DEF FlowSpec

\* Type correctness of the ledgers, the vault and the contexts, for any
\* vouchers, submissions, bindings and claims.
THEOREM FlowTypesHold == FlowSpec => []FlowTypeOK
<1>1. FlowInv => FlowTypeOK
  BY DEF FlowInv
<1> QED
  BY <1>1, FlowInductive, PTL

\* However many submissions race, and however stale the context of each call,
\* the live ones form one history (verify_issued and its query for the latest).
THEOREM LiveVouchersFormOneHistory == FlowSpec => []LiveVouchersOrdered
<1>1. FlowInv => LiveVouchersOrdered
  BY DEF FlowInv, LiveHistory
<1> QED
  BY <1>1, FlowInductive, PTL

\* The initial binding of a claim and voucher is consumed once, although the
\* calls verify outside the transaction that records (verify_and_record).
THEOREM BindingsAreUsedOnce == FlowSpec => []BindingUsedOnce
<1>1. FlowInv => BindingUsedOnce
  BY DEF FlowInv
<1> QED
  BY <1>1, FlowInductive, PTL

\* What request_activation let through against some past context is what the
\* vault accepts now, short of another activation, the voucher's expiry or the
\* claim deadline: the stale context can only have shown less funding.
THEOREM RequestsDoStillActivate == FlowSpec => []RequestedStillActivates
<1>1. FlowInv => RequestedStillActivates
  <2> SUFFICES ASSUME FlowInv, NEW s \in Submissions, row[s].state = "activation_requested",
                      latest = Voucher[VoucherOf[s]].previous,
                      ~(clock >= Voucher[VoucherOf[s]].expires),
                      ActiveOrClosingOpen(vault, clock)
               PROVE  Activates(Voucher[VoucherOf[s]])
    BY DEF RequestedStillActivates
  <2> DEFINE v == Voucher[VoucherOf[s]]
             i == ActivateInstruction(v)
  <2>1. /\ FlowTypeOK /\ OpenVault /\ PastReflects /\ RequestsVerified
    BY DEF FlowInv
  <2>2. v.signed
    BY <2>1 DEF RequestsVerified
  <2>3. PICK c \in past, t \in Nat : SoundBut(v, c, t)
    BY <2>1 DEF RequestsVerified
  <2>4. Reflects(c) /\ Reflects(Context(vault, latest)) /\ c \in Contexts
    BY <2>1 DEF PastReflects, FlowTypeOK
  <2>5. /\ VoucherOf[s] \in Vouchers /\ v.sequence \in U64 /\ v.total \in U64 /\ v.expires \in Time
    BY VoucherAssumption, FlowAssumption
  <2>6. /\ vault \in ModelStates /\ clock \in Time /\ Coherent(vault)
        /\ vault.lifecycle # "finalized" /\ vault.refunded = 0
    BY <2>1, FlowAssumption, WidthAssumption DEF FlowTypeOK, OpenVault, Time
  <2>7. i \in InstructionTypes /\ i.op = "activate"
    BY <2>5 DEF InstructionTypes, ActivateInstruction
  <2>8. VoucherAuthority(v)
    BY <2>2, <2>3, <2>5, WidthAssumption
       DEF SoundBut, WellFormed, Extends, VoucherAuthority, U64
  <2>9. c.voucher = latest /\ v.sequence > c.sequence /\ v.total >= c.activated
        /\ v.total <= c.funded - c.refunded
    BY <2>3 DEF SoundBut, Extends, WithinFunding
  <2>10. c.sequence = vault.sequence /\ c.activated = vault.activated
    BY <2>4, <2>9 DEF Reflects, Context
  <2>11. c.refunded = 0 /\ c.funded <= vault.funded /\ c.funded \in Nat
    BY <2>4 DEF Reflects, Contexts
  <2>12. CanActivate(vault, i, clock)
    <3>1. v.total <= vault.funded - vault.refunded
      BY <2>5, <2>6, <2>9, <2>11, WidthAssumption DEF ModelStates, U64
    <3>2. v.expires > clock
      BY <2>5, <2>6, WidthAssumption DEF Time
    <3> QED
      BY <3>1, <3>2, <2>9, <2>10 DEF CanActivate, ActivateInstruction
  <2>13. Permitted(vault, i, clock)
    BY <2>7, <2>12 DEF Permitted, LifecycleAdmits
  <2>14. Success(vault, Result(vault, i))
    BY <2>6, <2>7, <2>13, HandlerIsSafe
  <2> QED
    BY <2>6, <2>8, <2>13, <2>14 DEF Activates, Accepts, Coherent
<1> QED
  BY <1>1, FlowInductive, PTL

\* The fields of the snapshot of an open channel.
LEMMA SnapshotFields ==
  /\ vault.lifecycle = "closing" => Snapshot.status = "closing"
  /\ vault.lifecycle = "active" =>
       Snapshot.status = (IF vault.funded = 0 THEN "funding" ELSE "active")
  /\ Snapshot.funded = vault.funded /\ Snapshot.activated = vault.activated
  /\ Snapshot.settled = vault.settled /\ Snapshot.refunded = vault.refunded
  /\ Snapshot.sequence = vault.sequence /\ Snapshot.voucher = latest
  /\ Snapshot.wallet = vault.bound /\ Snapshot.expires = ChannelExpiry
  /\ Snapshot.updated = clock /\ Snapshot.closeAt = closeAt
  /\ Snapshot.deadline = IF vault.deadline = NoDeadline THEN None ELSE vault.deadline
BY DEF Snapshot

\* A funding the vault accepts leads between valid snapshots.
LEMMA FundingIsValid ==
  ASSUME FlowInv, NEW amount \in TopUps, FundChannel(amount),
         ValidChannel(Snapshot), clock < ChannelExpiry, AllowTopUp \/ vault.funded = 0
  PROVE  ValidFundingTransition(Snapshot, vault'.funded - vault.funded, clock, Snapshot')
<1> DEFINE i == [op |-> "fund", amount |-> amount]
<1>1. /\ vault \in ModelStates /\ Coherent(vault) /\ clock \in Nat
  BY FlowAssumption, WidthAssumption DEF FlowInv, FlowTypeOK, OpenVault, Time
<1>2. /\ vault.lifecycle = "active" /\ amount > 0 /\ vault' = Result(vault, i)
      /\ clock' = clock /\ latest' = latest /\ closeAt' = closeAt
  BY DEF FundChannel, Apply, Accepts, Permitted, LifecycleAdmits, CanFund
<1>3. vault' = [vault EXCEPT !.funded = @ + amount]
  BY <1>2 DEF Result
<1>4. /\ vault'.funded = vault.funded + amount /\ vault'.lifecycle = "active"
      /\ vault'.activated = vault.activated /\ vault'.settled = vault.settled
      /\ vault'.refunded = vault.refunded /\ vault'.sequence = vault.sequence
      /\ vault'.bound = vault.bound /\ vault'.deadline = vault.deadline
  BY <1>1, <1>2, <1>3 DEF ModelStates
<1>5. /\ vault.funded \in Nat /\ vault.activated \in Nat /\ vault.settled \in Nat
      /\ vault.refunded \in Nat /\ vault.sequence \in Nat /\ amount \in Nat
      /\ vault.deadline = NoDeadline
  BY <1>1, <1>2, WidthAssumption, FlowAssumption DEF ModelStates, U64, Coherent
<1>6. /\ Snapshot.status = (IF vault.funded = 0 THEN "funding" ELSE "active")
      /\ Snapshot.funded = vault.funded /\ Snapshot.activated = vault.activated
      /\ Snapshot.settled = vault.settled /\ Snapshot.refunded = vault.refunded
      /\ Snapshot.sequence = vault.sequence /\ Snapshot.voucher = latest
      /\ Snapshot.wallet = vault.bound /\ Snapshot.expires = ChannelExpiry
      /\ Snapshot.updated = clock /\ Snapshot.closeAt = closeAt /\ Snapshot.deadline = None
  BY <1>2, <1>5, SnapshotFields
<1>7. /\ Snapshot'.status = "active"
      /\ Snapshot'.funded = vault.funded + amount /\ Snapshot'.activated = vault.activated
      /\ Snapshot'.settled = vault.settled /\ Snapshot'.refunded = vault.refunded
      /\ Snapshot'.sequence = vault.sequence /\ Snapshot'.voucher = latest
      /\ Snapshot'.wallet = vault.bound /\ Snapshot'.expires = ChannelExpiry
      /\ Snapshot'.updated = clock /\ Snapshot'.closeAt = closeAt /\ Snapshot'.deadline = None
  BY <1>2, <1>4, <1>5 DEF Snapshot
<1> HIDE DEF i
<1>8. AccountingValid(Snapshot') /\ CloseFieldsValid(Snapshot') /\ StatusValid(Snapshot')
  <2>1. AccountingValid(Snapshot')
    BY <1>5, <1>6, <1>7 DEF ValidChannel, AccountingValid
  <2>2. CloseFieldsValid(Snapshot')
    BY <1>6, <1>7 DEF ValidChannel, CloseFieldsValid
  <2>3. StatusValid(Snapshot')
    BY <1>2, <1>5, <1>7 DEF StatusValid
  <2> QED
    BY <2>1, <2>2, <2>3
<1>9. ValidChannel(Snapshot')
  BY <1>6, <1>7, <1>8 DEF ValidChannel
<1>10. /\ vault'.funded - vault.funded = amount
       /\ Snapshot.status \in {"funding", "active"}
       /\ Snapshot.status = "active" => AllowTopUp
  BY <1>4, <1>5, <1>6
<1>11. \A f \in {"activated", "settled", "refunded", "sequence", "voucher", "wallet", "expires"} :
         Snapshot'[f] = Snapshot[f]
  BY <1>6, <1>7
<1> QED
  BY <1>1, <1>2, <1>5, <1>6, <1>7, <1>9, <1>10, <1>11 DEF ValidFundingTransition

\* The activation of a voucher that the ledger let through leads from a valid
\* snapshot to a valid one: the policy limit, which the vault does not know,
\* was the ledger's to check.
LEMMA ActivationIsValid ==
  ASSUME FlowInv, NEW h \in Vouchers, ActivateVoucher(h), ValidChannel(Snapshot),
         NEW s \in Submissions, VoucherOf[s] = h, row[s].state = "activation_requested",
         clock < ChannelExpiry
  PROVE  ValidChannel(Snapshot')
<1> DEFINE v == Voucher[h]
           i == ActivateInstruction(v)
<1>1. /\ vault \in ModelStates /\ Coherent(vault) /\ clock \in Nat /\ vault.refunded = 0
      /\ vault.lifecycle \in {"active", "closing"}
  BY FlowAssumption, WidthAssumption DEF FlowInv, FlowTypeOK, OpenVault, Time
<1>2. v.total <= PolicyLimit
  <2>1. PICK c \in past, t \in Nat : SoundBut(v, c, t)
    BY DEF FlowInv, RequestsVerified
  <2> QED
    BY <2>1 DEF SoundBut, WithinPolicy
<1>3. /\ v.sequence > 0 /\ v.total > 0 /\ v.total >= vault.activated
      /\ v.total <= vault.funded - vault.refunded /\ vault' = Result(vault, i)
      /\ clock' = clock /\ latest' = h /\ closeAt' = closeAt
  BY DEF ActivateVoucher, VoucherAuthority, Apply, Accepts, Permitted, CanActivate,
         ActivateInstruction
<1>4. vault' = [vault EXCEPT !.activated = v.total, !.sequence = v.sequence]
  BY <1>3 DEF Result, ActivateInstruction
<1>5. /\ vault'.activated = v.total /\ vault'.sequence = v.sequence
      /\ vault'.funded = vault.funded /\ vault'.lifecycle = vault.lifecycle
      /\ vault'.settled = vault.settled /\ vault'.refunded = vault.refunded
      /\ vault'.bound = vault.bound /\ vault'.deadline = vault.deadline
  BY <1>1, <1>4 DEF ModelStates
<1>6. /\ vault.funded \in Nat /\ vault.activated \in Nat /\ vault.settled \in Nat
      /\ v.total \in Nat /\ v.sequence \in Nat /\ PolicyLimit \in Nat
      /\ vault.settled <= vault.activated
  BY <1>1, WidthAssumption, FlowAssumption, PolicyAssumption
     DEF ModelStates, U64, Coherent, InvariantsHold
<1>7. vault.funded > 0
  BY <1>1, <1>3, <1>6
<1>8. /\ Snapshot.status = (IF vault.lifecycle = "closing" THEN "closing" ELSE "active")
      /\ Snapshot.updated = clock /\ Snapshot.closeAt = closeAt
      /\ Snapshot.expires = ChannelExpiry
      /\ Snapshot.deadline = IF vault.deadline = NoDeadline THEN None ELSE vault.deadline
  BY <1>1, <1>7, SnapshotFields
<1>9. /\ Snapshot'.status = (IF vault.lifecycle = "closing" THEN "closing" ELSE "active")
      /\ Snapshot'.funded = vault.funded /\ Snapshot'.activated = v.total
      /\ Snapshot'.settled = vault.settled /\ Snapshot'.refunded = 0
      /\ Snapshot'.sequence = v.sequence /\ Snapshot'.expires = ChannelExpiry
      /\ Snapshot'.updated = clock /\ Snapshot'.closeAt = closeAt
      /\ Snapshot'.deadline = IF vault.deadline = NoDeadline THEN None ELSE vault.deadline
  BY <1>1, <1>3, <1>5, <1>7 DEF Snapshot
<1> HIDE DEF i, v
<1>10. AccountingValid(Snapshot')
  BY <1>1, <1>2, <1>3, <1>6, <1>9 DEF AccountingValid
<1>11. CloseFieldsValid(Snapshot')
  BY <1>8, <1>9 DEF ValidChannel, CloseFieldsValid
<1>12. StatusValid(Snapshot')
  BY <1>7, <1>9 DEF StatusValid
<1> QED
  BY <1>8, <1>9, <1>10, <1>11, <1>12 DEF ValidChannel

\* Until the channel expires, fundings and the activations that the ledger let
\* through stay within what channel.py accepts.
THEOREM StepsDoStayValid == FlowSpec => StepsStayValid
<1> DEFINE Valid ==
      ValidChannel(Snapshot) /\ clock < ChannelExpiry =>
        /\ (vault'.funded # vault.funded /\ (AllowTopUp \/ vault.funded = 0)) =>
             ValidFundingTransition(Snapshot, vault'.funded - vault.funded, clock, Snapshot')
        /\ (latest' # latest /\ \E s \in Submissions :
              VoucherOf[s] = latest' /\ row[s].state = "activation_requested")
             => ValidChannel(Snapshot')
<1>1. FlowInv /\ [FlowNext]_flowVars => [Valid]_flowVars
  <2> SUFFICES ASSUME FlowInv, FlowNext PROVE Valid
    OBVIOUS
  <2>0. vault \in ModelStates
    BY DEF FlowInv, FlowTypeOK
  <2>1. ASSUME NEW amount \in TopUps, FundChannel(amount) PROVE Valid
    <3>1. latest' = latest
      BY <2>1 DEF FundChannel
    <3> QED
      BY <2>1, <3>1, FundingIsValid
  <2>2. ASSUME NEW h \in Vouchers, ActivateVoucher(h) PROVE Valid
    <3>1. latest' = h /\ vault' = Result(vault, ActivateInstruction(Voucher[h]))
      BY <2>2 DEF ActivateVoucher, Apply
    <3>2. vault'.funded = vault.funded
      BY <2>0, <3>1 DEF Result, ActivateInstruction, ModelStates
    <3> QED
      BY <2>2, <3>1, <3>2, ActivationIsValid
  <2>3. ASSUME NEW r \in journal, BindRecipient(r) PROVE Valid
    <3>1. latest' = latest /\ vault' = Result(vault, [op |-> "bind", recipient |-> r.binding.wallet])
      BY <2>3 DEF BindRecipient, Apply
    <3>2. vault'.funded = vault.funded
      BY <2>0, <3>1 DEF Result, ModelStates
    <3> QED
      BY <3>1, <3>2
  <2>4. ASSUME NEW deadline \in 0..Horizon, RequestClose(deadline) PROVE Valid
    <3>1. latest' = latest /\ vault' = Result(vault, [op |-> "request_close", deadline |-> deadline])
      BY <2>4 DEF RequestClose, Apply
    <3>2. vault'.funded = vault.funded
      BY <2>0, <3>1 DEF Result, ModelStates
    <3> QED
      BY <3>1, <3>2
  <2>5. CASE FlowTick \/ OffChain
    <3>1. latest' = latest /\ vault' = vault
      BY <2>5 DEF FlowTick, OffChain, chainVars
    <3> QED
      BY <3>1
  <2> HIDE DEF Valid
  <2> QED
    BY <2>1, <2>2, <2>3, <2>4, <2>5 DEF FlowNext
<1> QED
  BY <1>1, FlowInductive, PTL DEF FlowSpec, StepsStayValid

=============================================================================

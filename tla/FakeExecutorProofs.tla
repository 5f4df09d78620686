-------------------------- MODULE FakeExecutorProofs --------------------------
(***************************************************************************)
(* Proofs about FakeExecutor for any number of requests, keys, obligations *)
(* and grants: the tables agree with each other, recover() answers truly,  *)
(* and the executor refines EconomicEffect.                                *)
(***************************************************************************)
EXTENDS FakeExecutor, TLAPS

\* A prepared row has the columns its commitment is made of.
PreparedInv ==
  \A r \in Requests :
    executions[r].state # "absent" =>
      executions[r].obligation \in Obligations /\ executions[r].message \in Messages

\* A confirmed row is the one its obligation and its grant point back to.
ConfirmedInv ==
  \A r \in Requests :
    executions[r].state = "confirmed" =>
      /\ effects[executions[r].obligation] = r
      /\ executions[r].authorization \in AuthIds
      /\ consumed[executions[r].authorization] = r
      /\ executions[r].receipt = CommitmentHash(r)

EffectInv ==
  \A o \in Obligations :
    effects[o] # None =>
      executions[effects[o]].state = "confirmed" /\ executions[effects[o]].obligation = o

ConsumedInv ==
  \A a \in AuthIds :
    consumed[a] # None =>
      executions[consumed[a]].state = "confirmed" /\ executions[consumed[a]].authorization = a

IInv == TypeOK /\ PreparedInv /\ ConfirmedInv /\ EffectInv /\ ConsumedInv

\* Empty tables satisfy the invariant.
LEMMA InvInit == Init => IInv
<1> SUFFICES ASSUME Init PROVE IInv
  OBVIOUS
<1>1. TypeOK
  BY ExecutorAssumption DEF Init, TypeOK, Rows, NoRow
<1>2. PreparedInv /\ ConfirmedInv /\ EffectInv /\ ConsumedInv
  BY DEF Init, NoRow, PreparedInv, ConfirmedInv, EffectInv, ConsumedInv
<1> QED
  BY <1>1, <1>2 DEF IInv

\* Every operation of the executor and its authority preserves the invariant.
LEMMA InvStep == IInv /\ [Next]_vars => IInv'
<1> SUFFICES ASSUME IInv, [Next]_vars PROVE IInv'
  OBVIOUS
<1>t. /\ now \in Nat
      /\ executions \in [Requests -> Rows]
      /\ consumed \in [AuthIds -> Requests \cup {None}]
      /\ effects \in [Obligations -> Requests \cup {None}]
      /\ grants \subseteq Grants
  BY DEF IInv, TypeOK
<1>1. CASE Tick
  BY <1>1, <1>t DEF Tick, IInv, TypeOK, PreparedInv, ConfirmedInv, EffectInv, ConsumedInv,
                    CommitmentHash
<1>2. ASSUME NEW r \in Requests, NEW k \in Keys, NEW o \in Obligations, NEW m \in Messages,
             NEW x \in 1..Horizon, Prepare(r, k, o, m, x)
      PROVE  IInv'
  <2> DEFINE q == [state |-> "prepared", key |-> k, obligation |-> o, message |-> m,
                   expiresAt |-> x, authorization |-> None, receipt |-> None]
  <2>1. /\ executions' = [executions EXCEPT ![r] = q]
        /\ executions[r].state = "absent"
        /\ UNCHANGED <<now, consumed, effects, grants>>
    BY <1>2 DEF Prepare
  <2>2. q \in Rows
    <3>1. x \in Nat
      BY ExecutorAssumption
    <3> QED
      BY <3>1 DEF Rows
  <2>3. /\ executions'[r].state = "prepared" /\ executions'[r].obligation = o
        /\ executions'[r].message = m
        /\ \A p \in Requests : p # r => executions'[p] = executions[p]
    BY <1>t, <2>1
  <2> HIDE DEF q
  <2>4. TypeOK'
    BY <1>t, <2>1, <2>2 DEF TypeOK
  <2>5. PreparedInv'
    BY <2>3 DEF IInv, PreparedInv
  <2>6. ConfirmedInv'
    BY <2>1, <2>3 DEF IInv, ConfirmedInv, CommitmentHash
  <2>7. EffectInv' /\ ConsumedInv'
    BY <1>t, <2>1, <2>3 DEF IInv, EffectInv, ConsumedInv
  <2> QED
    BY <2>4, <2>5, <2>6, <2>7 DEF IInv
<1>3. ASSUME NEW a \in AuthIds, NEW r \in Requests, NEW t \in 0..Horizon, NEW x \in 1..Horizon,
             IssueGrant(a, r, t, x)
      PROVE  IInv'
  <2> DEFINE g == [id |-> a, request |-> r, commitment |-> CommitmentHash(r),
                   message |-> executions[r].message, issuedAt |-> t, expiresAt |-> x]
  <2>1. /\ grants' = grants \cup {g}
        /\ UNCHANGED <<now, executions, consumed, effects>>
    BY <1>3 DEF IssueGrant
  <2>2. g \in Grants
    <3>1. executions[r].obligation \in Obligations /\ executions[r].message \in Messages
      BY <1>3 DEF IssueGrant, IInv, PreparedInv
    <3>2. executions[r].expiresAt \in Nat
      BY <1>t DEF Rows
    <3>3. CommitmentHash(r) \in Commitments
      BY <3>1, <3>2 DEF CommitmentHash, Commitments
    <3> QED
      BY <3>1, <3>3, ExecutorAssumption DEF Grants
  <2> HIDE DEF g
  <2>3. TypeOK'
    BY <1>t, <2>1, <2>2 DEF TypeOK
  <2> QED
    BY <2>1, <2>3 DEF IInv, PreparedInv, ConfirmedInv, EffectInv, ConsumedInv, CommitmentHash
<1>4. ASSUME NEW g \in grants, AuthorizeAndExecute(g)
      PROVE  IInv'
  <2>g. g \in Grants
    BY <1>t
  <2>r. PICK r \in Requests : r = g.request
    BY <2>g DEF Grants
  <2>a. PICK a \in AuthIds : a = g.id
    BY <2>g DEF Grants
  <2>c. g.commitment \in Commitments
    BY <2>g DEF Grants
  <2>1. /\ consumed[a] = None
        /\ executions[r].state = "prepared"
        /\ g.commitment = CommitmentHash(r)
        /\ effects[executions[r].obligation] = None
    BY <1>4, <2>r, <2>a DEF AuthorizeAndExecute, Executable, VerifyBinding
  <2>o. PICK o \in Obligations : o = executions[r].obligation
    BY <2>1 DEF IInv, PreparedInv
  <2>2. /\ consumed' = [consumed EXCEPT ![a] = r]
        /\ effects' = [effects EXCEPT ![o] = r]
        /\ executions' = [executions EXCEPT ![r] =
             [executions[r] EXCEPT !.state = "confirmed", !.authorization = a,
                                   !.receipt = g.commitment]]
        /\ UNCHANGED <<now, grants>>
    BY <1>4, <2>r, <2>a, <2>o DEF AuthorizeAndExecute
  <2>3. [executions[r] EXCEPT !.state = "confirmed", !.authorization = a,
                              !.receipt = g.commitment] \in Rows
    BY <1>t, <2>c DEF Rows
  <2>4. TypeOK'
    BY <1>t, <2>2, <2>3 DEF TypeOK
  <2>5. /\ \A p \in Requests : p # r => executions'[p] = executions[p]
        /\ executions'[r].state = "confirmed" /\ executions'[r].authorization = a
        /\ executions'[r].receipt = CommitmentHash(r)
        /\ executions'[r].obligation = o /\ executions'[r].message = executions[r].message
        /\ executions'[r].expiresAt = executions[r].expiresAt
    BY <1>t, <2>1, <2>2, <2>o DEF Rows
  <2>6. /\ \A b \in AuthIds : b # a => consumed'[b] = consumed[b]
        /\ consumed'[a] = r
        /\ \A p \in Obligations : p # o => effects'[p] = effects[p]
        /\ effects'[o] = r
    BY <1>t, <2>2
  <2>7. PreparedInv'
    BY <2>1, <2>5 DEF IInv, PreparedInv
  <2>8. ConfirmedInv'
    <3> SUFFICES ASSUME NEW p \in Requests, executions'[p].state = "confirmed"
                 PROVE  /\ effects'[executions'[p].obligation] = p
                        /\ executions'[p].authorization \in AuthIds
                        /\ consumed'[executions'[p].authorization] = p
                        /\ executions'[p].receipt = CommitmentHash(p)'
      BY DEF ConfirmedInv
    <3>1. CASE p = r
      BY <2>5, <2>6, <2>o, <3>1 DEF CommitmentHash
    <3>2. CASE p # r
      <4>1. executions'[p] = executions[p]
        BY <2>5, <3>2
      <4>2. /\ effects[executions[p].obligation] = p
            /\ executions[p].authorization \in AuthIds
            /\ consumed[executions[p].authorization] = p
            /\ executions[p].receipt = CommitmentHash(p)
            /\ executions[p].obligation \in Obligations
        BY <4>1 DEF IInv, ConfirmedInv, PreparedInv
      <4>3. executions[p].obligation # o /\ executions[p].authorization # a
        BY <2>1, <2>o, <4>2, ExecutorAssumption
      <4> QED
        BY <2>6, <4>1, <4>2, <4>3 DEF CommitmentHash
    <3> QED
      BY <3>1, <3>2
  <2>9. EffectInv'
    BY <1>t, <2>1, <2>5, <2>6 DEF IInv, EffectInv
  <2>10. ConsumedInv'
    BY <1>t, <2>1, <2>5, <2>6 DEF IInv, ConsumedInv
  <2> QED
    BY <2>4, <2>7, <2>8, <2>9, <2>10 DEF IInv
<1>5. CASE UNCHANGED vars
  BY <1>5 DEF vars, IInv, TypeOK, PreparedInv, ConfirmedInv, EffectInv, ConsumedInv,
              CommitmentHash
<1> QED
  BY <1>1, <1>2, <1>3, <1>4, <1>5 DEF Next

\* The invariant, type correctness included, holds in every reachable state.
THEOREM Invariant == Spec => []IInv
  BY InvInit, InvStep, PTL DEF Spec

\* prepare, issue and authorize_and_execute leave well-formed rows, grants,
\* consumptions and effects, for any number of clients.
THEOREM TypesHold == Spec => []TypeOK
<1>1. IInv => TypeOK
  BY DEF IInv
<1> QED
  BY <1>1, Invariant, PTL

\* A consumed grant, the execution that used it, its receipt and the effect of
\* its obligation determine one another, for any number of competing grants.
THEOREM ConsumptionMatchesEffectHolds == Spec => []ConsumptionMatchesEffect
<1>1. IInv => ConsumptionMatchesEffect
  <2> SUFFICES ASSUME IInv PROVE ConsumptionMatchesEffect
    OBVIOUS
  <2>1. ASSUME NEW a \in AuthIds, consumed[a] # None
        PROVE  /\ executions[consumed[a]].authorization = a
               /\ effects[executions[consumed[a]].obligation] = consumed[a]
    BY <2>1 DEF IInv, TypeOK, ConsumedInv, ConfirmedInv
  <2>2. ASSUME NEW o \in Obligations, effects[o] # None
        PROVE  /\ executions[effects[o]].state = "confirmed"
               /\ executions[effects[o]].obligation = o
               /\ consumed[executions[effects[o]].authorization] = effects[o]
               /\ executions[effects[o]].receipt = CommitmentHash(effects[o])
    BY <2>2 DEF IInv, TypeOK, EffectInv, ConfirmedInv
  <2> QED
    BY <2>1, <2>2 DEF ConsumptionMatchesEffect
<1> QED
  BY <1>1, Invariant, PTL

\* recover() would answer truly in every reachable state.
THEOREM RecoveryTruthfulHolds == Spec => []RecoveryTruthful
<1>1. IInv => RecoveryTruthful
  <2> SUFFICES ASSUME IInv, NEW r \in Requests
               PROVE  /\ RecoveryOutcome(r) = "confirmed" <=>
                           \E o \in Obligations : effects[o] = r
                      /\ RecoveryOutcome(r) = "failed_before_broadcast" =>
                           \A a \in AuthIds : consumed[a] # r
    BY DEF RecoveryTruthful
  <2>1. executions[r].state \in {"absent", "prepared", "confirmed"}
    BY DEF IInv, TypeOK, Rows
  <2>2. executions[r].state = "confirmed" <=> \E o \in Obligations : effects[o] = r
    BY ExecutorAssumption DEF IInv, PreparedInv, ConfirmedInv, EffectInv
  <2>3. executions[r].state = "prepared" => \A a \in AuthIds : consumed[a] # r
    BY ExecutorAssumption DEF IInv, ConsumedInv
  <2> QED
    BY <2>1, <2>2, <2>3 DEF RecoveryOutcome
<1> QED
  BY <1>1, Invariant, PTL

\* The refinement: the executor applies one effect per obligation, never undoes
\* it, and confirms a request only together with its effect.
THEOREM OneEconomicEffectHolds == Spec => OneEconomicEffect
<1>1. Init => Effect!InitEffect
  BY DEF Init, NoRow, Effect!InitEffect, Confirmed
<1>2. IInv /\ IInv' /\ [Next]_vars => [Effect!NextEffect]_<<effects, Confirmed>>
  <2> SUFFICES ASSUME IInv, IInv', [Next]_vars
               PROVE  Effect!NextEffect \/ UNCHANGED <<effects, Confirmed>>
    OBVIOUS
  <2>t. /\ executions \in [Requests -> Rows]
        /\ effects \in [Obligations -> Requests \cup {None}]
        /\ grants \subseteq Grants
    BY DEF IInv, TypeOK
  <2>1. \/ UNCHANGED effects
        \/ \E o \in Obligations, r \in Requests : Effect!Apply(o, r)
    <3>1. ASSUME NEW g \in grants, AuthorizeAndExecute(g)
          PROVE  \E o \in Obligations, r \in Requests : Effect!Apply(o, r)
      <4>1. g.request \in Requests
        BY <2>t DEF Grants
      <4>2. /\ executions[g.request].obligation \in Obligations
            /\ effects[executions[g.request].obligation] = None
            /\ effects' = [effects EXCEPT ![executions[g.request].obligation] = g.request]
        BY <3>1, <4>1 DEF AuthorizeAndExecute, Executable, IInv, PreparedInv
      <4> QED
        BY <4>1, <4>2 DEF Effect!Apply
    <3> QED
      BY <3>1 DEF Next, vars, Tick, Prepare, IssueGrant
  <2>2. Confirmed \subseteq Confirmed'
    <3>1. ASSUME NEW g \in grants, AuthorizeAndExecute(g)
          PROVE  Confirmed \subseteq Confirmed'
      BY <2>t, <3>1 DEF AuthorizeAndExecute, Confirmed, Rows
    <3>2. ASSUME NEW r \in Requests, NEW k \in Keys, NEW o \in Obligations, NEW m \in Messages,
                 NEW x \in 1..Horizon, Prepare(r, k, o, m, x)
          PROVE  Confirmed \subseteq Confirmed'
      BY <2>t, <3>2 DEF Prepare, Confirmed
    <3> QED
      BY <3>1, <3>2 DEF Next, vars, Tick, IssueGrant, Confirmed
  <2>3. Confirmed' \subseteq {r \in Requests : \E o \in Obligations : effects'[o] = r}
    BY DEF IInv, PreparedInv, ConfirmedInv, Confirmed
  <2>4. Effect!Report
    BY <2>2, <2>3 DEF Effect!Report
  <2> QED
    BY <2>1, <2>4 DEF Effect!NextEffect
<1> QED
  BY <1>1, <1>2, Invariant, PTL DEF Spec, OneEconomicEffect, Effect!SpecEffect

=============================================================================

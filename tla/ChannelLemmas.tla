---------------------------- MODULE ChannelLemmas -----------------------------
(***************************************************************************)
(* What the proofs about the runtimes need of a channel snapshot and of    *)
(* sums of requested amounts.  A sum is the number of base units of a set  *)
(* of operations, so how it grows and shrinks follows from the cardinality *)
(* of finite sets and needs no induction of its own.                       *)
(***************************************************************************)
EXTENDS ChannelState, FiniteSetTheorems, TLAPS

\* The totals of a channel are natural numbers.
LEMMA ChannelTypes ==
  ASSUME NEW c \in Channels
  PROVE  /\ c.funded \in Nat /\ c.activated \in Nat /\ c.settled \in Nat
         /\ c.refunded \in Nat /\ c.sequence \in Nat
         /\ VaultBalance(c) \in Int
BY DEF Channels, VaultBalance

\* An activation raises the activated total and leaves the others.
LEMMA ActivatedByFields ==
  ASSUME NEW c \in Channels, NEW n \in Nat, NEW k \in Nat
  PROVE  LET d == ActivatedBy(c, k, n, k)
         IN  /\ d \in Channels
             /\ d.activated = n /\ d.settled = c.settled
             /\ d.funded = c.funded /\ d.refunded = c.refunded
             /\ d.status = c.status /\ d.deadline = c.deadline
BY DEF ActivatedBy, Channels

\* A settlement raises the settled total and leaves the others.
LEMMA SettledFields ==
  ASSUME NEW c \in Channels, NEW n \in Int, c.settled + n \in Nat
  PROVE  LET d == Settled(c, n)
         IN  /\ d \in Channels
             /\ d.settled = c.settled + n /\ d.activated = c.activated
             /\ d.funded = c.funded /\ d.refunded = c.refunded
             /\ d.status = c.status /\ d.deadline = c.deadline
BY DEF Settled, Channels

\* A refund raises the refunded total and leaves the others.
LEMMA RefundedFields ==
  ASSUME NEW c \in Channels, NEW n \in Nat
  PROVE  LET d == Refunded(c, n)
         IN  /\ d \in Channels
             /\ d.refunded = c.refunded + n /\ d.activated = c.activated
             /\ d.funded = c.funded /\ d.settled = c.settled
             /\ d.status = c.status /\ d.deadline = c.deadline
BY DEF Refunded, Channels

\* A close request changes the status and the deadline, finalization the
\* status, and any update the time; all totals stay.
LEMMA ClosingFields ==
  ASSUME NEW c \in Channels, NEW t \in Nat, NEW deadline \in Nat
  PROVE  LET d == Closing(c, deadline, t)
         IN  /\ d \in Channels /\ d.status = "closing"
             /\ d.refunded = c.refunded /\ d.activated = c.activated
             /\ d.funded = c.funded /\ d.settled = c.settled
BY DEF Closing, Channels, Statuses

\* Finalization closes the channel and leaves its totals and deadline.
LEMMA ClosedFields ==
  ASSUME NEW c \in Channels, NEW t \in Nat
  PROVE  LET d == Closed(c, t)
         IN  /\ d \in Channels /\ d.status = "closed" /\ d.deadline = c.deadline
             /\ d.refunded = c.refunded /\ d.activated = c.activated
             /\ d.funded = c.funded /\ d.settled = c.settled
BY DEF Closed, Channels, Statuses

\* An update of the time leaves everything else.
LEMMA TouchedFields ==
  ASSUME NEW c \in Channels, NEW t \in Nat
  PROVE  LET d == Touched(c, t)
         IN  /\ d \in Channels /\ d.updated = t
             /\ d.status = c.status /\ d.deadline = c.deadline
             /\ d.refunded = c.refunded /\ d.activated = c.activated
             /\ d.funded = c.funded /\ d.settled = c.settled
BY DEF Touched, Channels

-----------------------------------------------------------------------------
\* The units of one operation are as many as its amount.
LEMMA UnitsOfOne ==
  ASSUME NEW s, NEW n \in Nat
  PROVE  IsFiniteSet({s} \X (1..n)) /\ Cardinality({s} \X (1..n)) = n
<1>1. IsFiniteSet({s}) /\ Cardinality({s}) = 1
  BY FS_Singleton, Zenon
<1>2. IsFiniteSet(1..n) /\ Cardinality(1..n) = n
  BY FS_Interval, SMT
<1>3. Cardinality({s} \X (1..n)) = Cardinality({s}) * Cardinality(1..n)
  BY <1>1, <1>2, FS_Product
<1>4. IsFiniteSet({s} \X (1..n))
  BY <1>1, <1>2, FS_Product
<1> QED
  BY <1>1, <1>2, <1>3, <1>4, SMT

\* Finitely many operations have finitely many units.
LEMMA UnitsFinite ==
  ASSUME NEW S, IsFiniteSet(S), NEW amount, \A s \in S : amount[s] \in Nat
  PROVE  IsFiniteSet(UnitsOf(S, amount))
<1> DEFINE parts == {{s} \X (1..amount[s]) : s \in S}
           f == [s \in S |-> {s} \X (1..amount[s])]
<1>1. f \in Surjection(S, parts)
  BY DEF Surjection
<1>2. IsFiniteSet(parts)
  <2> HIDE DEF f, parts
  <2> QED BY <1>1, FS_Surjection
<1>3. ASSUME NEW T \in parts PROVE IsFiniteSet(T)
  <2>1. PICK s \in S : T = {s} \X (1..amount[s])
    OBVIOUS
  <2>2. amount[s] \in Nat
    OBVIOUS
  <2> QED
    BY <2>1, <2>2, UnitsOfOne, Zenon
<1>4. IsFiniteSet(UNION parts)
  <2> HIDE DEF f, parts
  <2> QED BY <1>2, <1>3, FS_UNION
<1> QED
  BY <1>4 DEF UnitsOf

\* A sum is a natural number.
LEMMA AmountType ==
  ASSUME NEW S, IsFiniteSet(S), NEW amount, \A s \in S : amount[s] \in Nat
  PROVE  AmountOf(S, amount) \in Nat
BY UnitsFinite, FS_CardinalityType DEF AmountOf

\* Nothing amounts to nothing.
LEMMA AmountEmpty ==
  ASSUME NEW amount
  PROVE  AmountOf({}, amount) = 0
<1>1. UnitsOf({}, amount) = {}
  BY DEF UnitsOf
<1> QED
  BY <1>1, FS_EmptySet DEF AmountOf

\* Sums over disjoint sets add up.
LEMMA AmountDisjoint ==
  ASSUME NEW S, IsFiniteSet(S), NEW T, IsFiniteSet(T), S \cap T = {},
         NEW amount, \A s \in S \cup T : amount[s] \in Nat
  PROVE  AmountOf(S \cup T, amount) = AmountOf(S, amount) + AmountOf(T, amount)
<1>1. UnitsOf(S \cup T, amount) = UnitsOf(S, amount) \cup UnitsOf(T, amount)
  BY DEF UnitsOf
<1>2. UnitsOf(S, amount) \cap UnitsOf(T, amount) = {}
  <2> SUFFICES ASSUME NEW u \in UnitsOf(S, amount), u \in UnitsOf(T, amount)
               PROVE  FALSE
    OBVIOUS
  <2>1. PICK s \in S : u \in {s} \X (1..amount[s])
    BY DEF UnitsOf
  <2>2. PICK t \in T : u \in {t} \X (1..amount[t])
    BY DEF UnitsOf
  <2>3. u[1] = s /\ u[1] = t
    BY <2>1, <2>2
  <2> QED
    BY <2>3
<1>3. IsFiniteSet(UnitsOf(S, amount)) /\ IsFiniteSet(UnitsOf(T, amount))
  BY UnitsFinite
<1>4. /\ Cardinality(UnitsOf(S, amount)) \in Nat
      /\ Cardinality(UnitsOf(T, amount)) \in Nat
  BY <1>3, FS_CardinalityType
<1>5. Cardinality(UnitsOf(S, amount) \cup UnitsOf(T, amount))
        = Cardinality(UnitsOf(S, amount)) + Cardinality(UnitsOf(T, amount))
            - Cardinality(UnitsOf(S, amount) \cap UnitsOf(T, amount))
  BY <1>3, FS_Union
<1>6. Cardinality({}) = 0
  BY FS_EmptySet
<1>7. Cardinality(UnitsOf(S, amount) \cap UnitsOf(T, amount)) = 0
  BY <1>2, <1>6, Zenon
<1>8. AmountOf(S \cup T, amount) = Cardinality(UnitsOf(S, amount) \cup UnitsOf(T, amount))
  BY <1>1, Zenon DEF AmountOf
<1> QED
  BY <1>4, <1>5, <1>7, <1>8 DEF AmountOf

\* One operation more adds its amount.
LEMMA AmountAdd ==
  ASSUME NEW S, IsFiniteSet(S), NEW t, t \notin S,
         NEW amount, \A s \in S \cup {t} : amount[s] \in Nat
  PROVE  AmountOf(S \cup {t}, amount) = AmountOf(S, amount) + amount[t]
<1>1. UnitsOf({t}, amount) = {t} \X (1..amount[t])
  BY DEF UnitsOf
<1>2. AmountOf({t}, amount) = amount[t]
  BY <1>1, UnitsOfOne DEF AmountOf
<1>3. IsFiniteSet({t})
  BY FS_Singleton
<1>4. S \cap {t} = {}
  OBVIOUS
<1> QED
  BY <1>2, <1>3, <1>4, AmountDisjoint

\* One operation less takes its amount away.
LEMMA AmountRemove ==
  ASSUME NEW S, IsFiniteSet(S), NEW t \in S,
         NEW amount, \A s \in S : amount[s] \in Nat
  PROVE  AmountOf(S \ {t}, amount) = AmountOf(S, amount) - amount[t]
<1>1. IsFiniteSet(S \ {t}) /\ t \notin S \ {t} /\ S = (S \ {t}) \cup {t}
  BY FS_RemoveElement
<1> DEFINE R == S \ {t}
<1>2. IsFiniteSet(R) /\ t \notin R /\ S = R \cup {t} /\ \A s \in R \cup {t} : amount[s] \in Nat
  BY <1>1
<1> HIDE DEF R
<1>3. AmountOf(R \cup {t}, amount) = AmountOf(R, amount) + amount[t]
  BY <1>2, AmountAdd
<1>4. AmountOf(R, amount) \in Nat /\ amount[t] \in Nat
  BY <1>2, AmountType
<1>5. AmountOf(R, amount) = AmountOf(S, amount) - amount[t]
  BY <1>2, <1>3, <1>4
<1> QED
  BY <1>5 DEF R

\* Fewer operations never amount to more.
LEMMA AmountMonotone ==
  ASSUME NEW S, IsFiniteSet(S), NEW T \in SUBSET S,
         NEW amount, \A s \in S : amount[s] \in Nat
  PROVE  AmountOf(T, amount) <= AmountOf(S, amount)
<1>1. UnitsOf(T, amount) \in SUBSET UnitsOf(S, amount)
  BY DEF UnitsOf
<1> QED
  BY <1>1, UnitsFinite, FS_Subset DEF AmountOf

=============================================================================

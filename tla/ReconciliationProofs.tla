-------------------------- MODULE ReconciliationProofs --------------------------
(***************************************************************************)
(* The verdicts of Reconciliation are right for every registry of sources, *)
(* every transaction and every single fault.                               *)
(*                                                                         *)
(* What a source that is not compromised said stays true, because what is  *)
(* confirmed stays confirmed (HeldTrue).  With it a single honest match    *)
(* shows the transfer, and two diverse sources cannot both be behind one   *)
(* fault.                                                                  *)
(***************************************************************************)
EXTENDS Reconciliation, TLAPS

Results == [used : SUBSET Sources, execution : {"unknown", "confirmed", "finalized"},
            consensus : {"pending", "approved", "disputed"},
            independent : {"pending", "l2_verified", "l3_verified", "disputed"}]

Types ==
  /\ tx \in Answers \cup {None}
  /\ DOMAIN held = Sources
  /\ result \in Results

\* The observation that an honest source made agrees with the transaction.
HeldTrue ==
  \A s \in Sources : held[s] # None /\ ~Compromised(s) =>
    /\ tx # None
    /\ held[s].amount = tx.outcome.received /\ held[s].error = tx.outcome.error
    /\ tx.outcome.paid = tx.outcome.received
    /\ held[s].status = "finalized" => tx.commitment = "finalized"

IInv ==
  /\ Types /\ HeldTrue
  /\ VerifiedTookPlace /\ OneWitnessIsEnough /\ HonestVerdictsAccurate

-----------------------------------------------------------------------------
\* A source that is not compromised matches exactly if the transfer took place.
LEMMA HonestMatch ==
  ASSUME HeldTrue, NEW s \in Sources, held[s] # None, ~Compromised(s)
  PROVE  /\ tx # None
         /\ Matches(s) <=> Transferred
         /\ held[s].status = "finalized" => tx.commitment = "finalized"
<1>1. /\ tx # None
      /\ held[s].amount = tx.outcome.received /\ held[s].error = tx.outcome.error
      /\ tx.outcome.paid = tx.outcome.received
      /\ held[s].status = "finalized" => tx.commitment = "finalized"
  BY DEF HeldTrue
<1>2. (~held[s].error) <=> (~tx.outcome.error)
  BY <1>1, Zenon
<1>3. Matches(s) <=> Transferred
  BY <1>1, <1>2 DEF Matches, Transferred
<1> QED BY <1>1, <1>3

\* One fault does not reach two sources that are diverse from each other.
LEMMA DiverseNotBothCompromised ==
  ASSUME NEW s, NEW L, NEW b \in L, DiverseFromL1(s, L)
  PROVE  ~Compromised(s) \/ ~Compromised(b)
BY DEF DiverseFromL1, Compromised

\* The aggregate of observations a caller holds.
LEMMA AggregateSound ==
  ASSUME IInv, NEW used \in SUBSET Sources, Aggregate(used)
  PROVE  Types' /\ VerifiedTookPlace' /\ OneWitnessIsEnough' /\ HonestVerdictsAccurate'
<1>1. \A s \in used : s \in Sources /\ held[s] # None
  BY DEF Aggregate
<1>2. \A s \in used : ~Compromised(s) =>
        /\ tx # None /\ (Matches(s) <=> Transferred)
        /\ held[s].status = "finalized" => tx.commitment = "finalized"
  BY <1>1, HonestMatch DEF IInv
<1>3. /\ result' = [used |-> used, execution |-> ExecutionStatus(used),
                    consensus |-> Consensus(used),
                    independent |-> IndependentVerification(used)]
      /\ UNCHANGED <<tx, fault, held>>
  BY DEF Aggregate
<1>4. /\ result'.used = used /\ result'.execution = ExecutionStatus(used)
      /\ result'.consensus = Consensus(used)
      /\ result'.independent = IndependentVerification(used)
  BY <1>3
<1>5. /\ Transferred' <=> Transferred
      /\ \A s : Compromised(s)' <=> Compromised(s)
  BY <1>3 DEF Transferred, Compromised
<1>6. /\ Consensus(used) \in {"pending", "approved", "disputed"}
      /\ Consensus(used) = "disputed" <=> Disputed(used)
      /\ Consensus(used) = "approved" <=> ~Disputed(used) /\ MatchedL1(used) # {}
  BY DEF Consensus
<1>7. /\ IndependentVerification(used) \in {"pending", "l2_verified", "l3_verified", "disputed"}
      /\ IndependentVerification(used) \in {"l2_verified", "l3_verified"} =>
           Consensus(used) = "approved" /\ (Qualifies(used, "L2") \/ Qualifies(used, "L3"))
  BY <1>6 DEF IndependentVerification
<1>8. /\ ExecutionStatus(used) \in {"unknown", "confirmed", "finalized"}
      /\ ExecutionStatus(used) = "unknown" <=> \A s \in used : ~Matches(s)
      /\ ExecutionStatus(used) = "finalized" =>
           \E s \in used : Matches(s) /\ held[s].status = "finalized"
  BY DEF ExecutionStatus
<1>9. Types'
  BY <1>3, <1>6, <1>7, <1>8 DEF IInv, Types, Results, Answers
<1>10. Consensus(used) = "approved" => \A s \in used : Matches(s)
  BY <1>6 DEF Disputed
<1>11. Consensus(used) = "approved" /\ (\E s \in used : ~Compromised(s)) => Transferred
  BY <1>2, <1>10
<1>12. ASSUME IndependentVerification(used) \in {"l2_verified", "l3_verified"}
       PROVE  Transferred
  <2>1. PICK s \in used : DiverseFromL1(s, MatchedL1(used))
    BY <1>7, <1>12 DEF Qualifies
  <2>2. PICK b \in MatchedL1(used) : TRUE
    BY <1>6, <1>7, <1>12
  <2>3. b \in used
    BY <2>2 DEF MatchedL1
  <2>4. ~Compromised(s) \/ ~Compromised(b)
    BY <2>1, <2>2, DiverseNotBothCompromised
  <2> QED BY <2>1, <2>3, <2>4, <1>7, <1>11, <1>12
<1>13. VerifiedTookPlace'
  BY <1>4, <1>5, <1>12 DEF VerifiedTookPlace
<1>14. OneWitnessIsEnough'
  BY <1>4, <1>5, <1>11 DEF OneWitnessIsEnough
<1>15. ASSUME Honest(used), used # {}
       PROVE  /\ tx # None
              /\ Consensus(used) = "disputed" <=> ~Transferred
              /\ ExecutionStatus(used) = "unknown" <=> ~Transferred
              /\ ExecutionStatus(used) = "finalized" => tx.commitment = "finalized"
  <2>1. \A s \in used : /\ tx # None /\ (Matches(s) <=> Transferred)
                        /\ held[s].status = "finalized" => tx.commitment = "finalized"
    BY <1>2, <1>15 DEF Honest
  <2>2. Disputed(used) <=> ~Transferred
    BY <2>1, <1>15 DEF Disputed
  <2>3. (\A s \in used : ~Matches(s)) <=> ~Transferred
    BY <2>1, <1>15
  <2> QED BY <2>1, <2>2, <2>3, <1>6, <1>8, <1>15
<1>16. Honest(result.used)' <=> Honest(used)
  BY <1>4, <1>5 DEF Honest
<1>17. HonestVerdictsAccurate'
  BY <1>3, <1>4, <1>5, <1>15, <1>16 DEF HonestVerdictsAccurate
<1> QED BY <1>9, <1>13, <1>14, <1>17

-----------------------------------------------------------------------------
\* Every step preserves the invariant.
LEMMA Step == IInv /\ [Next]_vars => IInv'
<1> SUFFICES ASSUME IInv, [Next]_vars PROVE IInv'
  OBVIOUS
<1>1. ASSUME NEW outcome \in Outcomes, Confirm(outcome) PROVE IInv'
  <2>1. tx = None /\ tx' \in Answers /\ UNCHANGED <<fault, held, result>>
    BY <1>1 DEF Confirm, Answers
  <2>2. Types'
    BY <2>1 DEF IInv, Types, Results
  <2>3. ~Transferred /\ \A s : Compromised(s)' <=> Compromised(s)
    BY <2>1 DEF Transferred, Compromised
  <2>4. HeldTrue'
    BY <2>1, <2>3 DEF IInv, HeldTrue
  <2>5. VerifiedTookPlace' /\ OneWitnessIsEnough' /\ HonestVerdictsAccurate'
    BY <2>1, <2>3 DEF IInv, VerifiedTookPlace, OneWitnessIsEnough, HonestVerdictsAccurate, Honest
  <2> QED BY <2>2, <2>4, <2>5 DEF IInv
<1>2. ASSUME Finalize PROVE IInv'
  <2>1. /\ tx # None /\ tx' = [outcome |-> tx.outcome, commitment |-> "finalized"]
        /\ UNCHANGED <<fault, held, result>>
    BY <1>2 DEF Finalize
  <2>2. tx \in Answers
    BY <2>1 DEF IInv, Types
  <2>3. tx' \in Answers /\ tx'.outcome = tx.outcome /\ tx'.commitment = "finalized" /\ tx' # None
    BY <2>1, <2>2, ReconciliationAssumption DEF Answers
  <2>4. /\ Transferred' <=> Transferred
        /\ \A s : Compromised(s)' <=> Compromised(s)
    BY <2>1, <2>3 DEF Transferred, Compromised
  <2>5. Types'
    BY <2>1, <2>3 DEF IInv, Types, Results
  <2>6. HeldTrue'
    BY <2>1, <2>3, <2>4 DEF IInv, HeldTrue
  <2>7. VerifiedTookPlace' /\ OneWitnessIsEnough' /\ HonestVerdictsAccurate'
    BY <2>1, <2>3, <2>4 DEF IInv, VerifiedTookPlace, OneWitnessIsEnough, HonestVerdictsAccurate, Honest
  <2> QED BY <2>5, <2>6, <2>7 DEF IInv
<1>3. ASSUME NEW s \in Sources, Observe(s) PROVE IInv'
  <2>1. PICK a \in Answers : /\ Answer(s, a) /\ Normalized(a)
                             /\ held' = [held EXCEPT ![s] = Observation(s, a)]
    BY <1>3 DEF Observe
  <2>2. UNCHANGED <<tx, fault, result>>
    BY <1>3 DEF Observe
  <2>3. \A q : Compromised(q)' <=> Compromised(q)
    BY <2>2 DEF Compromised
  <2>4. DOMAIN held' = Sources /\ held'[s] = Observation(s, a)
        /\ \A q \in Sources : q # s => held'[q] = held[q]
    BY <2>1 DEF IInv, Types
  <2>5. Types'
    BY <2>2, <2>4 DEF IInv, Types, Results, Answers
  <2>6. ASSUME ~Compromised(s)
        PROVE  /\ tx # None
               /\ held'[s].amount = tx.outcome.received /\ held'[s].error = tx.outcome.error
               /\ tx.outcome.paid = tx.outcome.received
               /\ held'[s].status = "finalized" => tx.commitment = "finalized"
    <3>1. a = tx
      BY <2>1, <2>6 DEF Answer
    <3>2. tx # None
      BY <2>1, <3>1, ReconciliationAssumption DEF Answers
    <3> QED BY <2>1, <2>4, <3>1, <3>2 DEF Observation, Normalized
  <2>7. HeldTrue'
    BY <2>2, <2>3, <2>4, <2>6 DEF IInv, HeldTrue
  <2>8. VerifiedTookPlace' /\ OneWitnessIsEnough' /\ HonestVerdictsAccurate'
    BY <2>2, <2>3 DEF IInv, VerifiedTookPlace, OneWitnessIsEnough, HonestVerdictsAccurate,
                      Honest, Transferred
  <2> QED BY <2>5, <2>7, <2>8 DEF IInv
<1>4. ASSUME NEW used \in SUBSET Sources, Aggregate(used) PROVE IInv'
  <2>1. HeldTrue'
    BY <1>4 DEF Aggregate, IInv, HeldTrue, Compromised
  <2> QED BY <1>4, <2>1, AggregateSound DEF IInv
<1>5. ASSUME UNCHANGED vars PROVE IInv'
  BY <1>5 DEF vars, IInv, Types, Results, Answers, HeldTrue, VerifiedTookPlace,
              OneWitnessIsEnough, HonestVerdictsAccurate, Honest, Transferred, Compromised
<1> QED BY <1>1, <1>2, <1>3, <1>4, <1>5 DEF Next

\* The invariant holds from the start: nothing is confirmed and nothing held.
THEOREM Invariant == Spec => []IInv
<1>1. Init => IInv
  BY DEF Init, IInv, Types, Results, HeldTrue, VerifiedTookPlace, OneWitnessIsEnough,
         HonestVerdictsAccurate, Honest
<1> QED BY <1>1, Step, PTL DEF Spec

\* aggregate_reconciliation: a settlement called l2_verified or l3_verified took
\* place, for every registry and any one compromised provider, trust domain or
\* endpoint.
THEOREM VerifiedSettlementsTookPlace == Spec => []VerifiedTookPlace
BY Invariant, PTL DEF IInv

\* aggregate_reconciliation: nothing false is approved if one honest source is
\* among those used, for every registry.
THEOREM OneWitnessSuffices == Spec => []OneWitnessIsEnough
BY Invariant, PTL DEF IInv

\* aggregate_reconciliation: the verdict of honest sources says what the chain
\* did, whenever each of them was asked, for every registry.
THEOREM HonestVerdictsAreAccurate == Spec => []HonestVerdictsAccurate
BY Invariant, PTL DEF IInv

=============================================================================

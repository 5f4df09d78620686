---------------------------- MODULE EconomicEffect ----------------------------
(***************************************************************************)
(* What Foundry Pay promises about an obligation, whatever executes it: at *)
(* most one instrument ever takes economic effect for it, the effect is    *)
(* never undone or replaced, and an instrument is confirmed only after it  *)
(* has taken effect.                                                       *)
(***************************************************************************)
CONSTANTS Obligations, Instruments, NoInstrument

VARIABLES
  effect,    \* the instrument that took effect for each obligation
  confirmed  \* the instruments reported as confirmed

InitEffect ==
  /\ effect = [o \in Obligations |-> NoInstrument]
  /\ confirmed = {}

\* An instrument takes effect for an obligation that has none.
Apply(o, i) ==
  /\ effect[o] = NoInstrument
  /\ effect' = [effect EXCEPT ![o] = i]

\* Instruments that have taken effect are reported.
Report ==
  \E S \in SUBSET {i \in Instruments : \E o \in Obligations : effect'[o] = i} :
    confirmed' = confirmed \cup S

NextEffect ==
  /\ \/ \E o \in Obligations, i \in Instruments : Apply(o, i)
     \/ UNCHANGED effect
  /\ Report

SpecEffect == InitEffect /\ [][NextEffect]_<<effect, confirmed>>

=============================================================================

SPECIFICATION Spec
CONSTANTS
  s1 = s1
  s2 = s2
  s3 = s3
  s4 = s4
  s5 = s5
  s6 = s6
  None = None
  Expected = 1
  Sources <- MCSources
  Registry <- MCRegistry
  Adapter <- MCAdapter
  Commitment <- MCCommitment
  Outcomes <- MCOutcomes
  Faults <- MCFaults
INVARIANTS
  VerifiedTookPlace
  OneWitnessIsEnough
  HonestVerdictsAccurate

------------------------------- MODULE MCVault -------------------------------
(* One channel from its first instruction to its last, every instruction at *)
(* every second, with totals and times small enough to overflow.            *)
EXTENDS ChannelVault, TLC

MCStarts == {Uninitialized("absent"), Uninitialized("system")}

MCInstructions == InstructionTypes

KeySymmetry == Permutations(Keys)

=============================================================================

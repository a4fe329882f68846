------------------------------- MODULE MCMachine -------------------------------
(* Instances of Machine for TLC: the three built-in machines. *)
EXTENDS Machine, TLC
Commands == {"reset", "run"}
PinSymmetry == Permutations(Pins)
==============================================================================

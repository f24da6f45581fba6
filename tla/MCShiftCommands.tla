-------------------------- MODULE MCShiftCommands --------------------------
(* Small instances of ShiftCommands.  The devices, the workers and the        *)
(* vehicles are interchangeable.                                             *)
EXTENDS ShiftCommands, TLC

Interchangeable ==
  Permutations(Device) \cup Permutations(Worker) \cup Permutations(Vehicle)
=============================================================================

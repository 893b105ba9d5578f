------------------------ MODULE MCCommandTransaction ------------------------
(***************************************************************************)
(* Instances of CommandTransaction for TLC.  Connection slots are           *)
(* interchangeable, and so are commands; symmetry is used where no liveness *)
(* is checked.                                                             *)
(***************************************************************************)
EXTENDS CommandTransaction, TLC

Symmetry == Permutations(Commands) \cup Permutations(Conns)
=============================================================================

------------------------------- MODULE MCConsole -------------------------------
(* Constants of the run of module Console.                                   *)
EXTENDS Console, TLC

ConsoleSymmetry == Permutations(Models) \cup Permutations(Pids)
=============================================================================

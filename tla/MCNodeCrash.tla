------------------------------ MODULE MCNodeCrash ------------------------------
(* Constants for the runs of module NodeCrash. *)
EXTENDS NodeCrash, SerialInv, TLC

CONSTANTS w1, w2, w3, l1, l2, l3

\* Every worker in a launcher of its own.
OwnLaunchers == [w \in Workers |->
    CASE w = w1 -> l1 [] w = w2 -> l2 [] OTHER -> l3]

SwapAndStop == [w \in Workers |-> {"start", "swap", "stop"}]

Symmetry == Permutations(Pids) \cup Permutations(Models)
=============================================================================

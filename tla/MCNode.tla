-------------------------------- MODULE MCNode --------------------------------
(* Constants for the runs of module Node. *)
EXTENDS SerialInv, TLC

CONSTANTS w1, w2, w3, l1

OneLauncher == [w \in Workers |-> l1]

\* An operator, one call at a time, and others who can cancel what he does.
WithCanceller ==
    [w \in Workers |-> IF w = w1 THEN Verbs \ {"cancel"} ELSE {"cancel"}]

\* Operators that start and swap against each other, and a third thread that
\* stops and cancels them and sweeps.
Contenders == [w \in Workers |->
    IF w = w3 THEN {"stop", "cancel", "sweep"} ELSE {"start", "swap"}]

\* An operator against the agent's sweep.
Swept == [w \in Workers |-> IF w = w1 THEN {"start", "swap", "stop"} ELSE {"sweep"}]

Starters == [w \in Workers |-> {"start"}]
Swappers == [w \in Workers |-> IF w = w3 THEN {"start"} ELSE {"swap"}]
StartAndCancel == [w \in Workers |-> IF w = w1 THEN {"start"} ELSE {"cancel"}]

Symmetry == Permutations(Pids) \cup Permutations(Models)
=============================================================================

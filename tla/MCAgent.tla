-------------------------------- MODULE MCAgent --------------------------------
(* Constants for the runs of module Agent. *)
EXTENDS AgentInv, TLC

CONSTANTS w1, t1, t2, s, l1, a

\* One worker of another process; the agent's own run no verbs but stops.
OneAgent == [w \in Workers |-> IF w = w1 THEN l1 ELSE a]
\* Every launch succeeds: a server goes because somebody stopped it.
LaunchesSucceed == \A w \in Workers : pc[w] # "kill"
StartAndStop == [w \in Workers |-> IF w = w1 THEN {"start", "stop"} ELSE {}]
===============================================================================

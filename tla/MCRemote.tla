------------------------------- MODULE MCRemote -------------------------------
(* Constants for the run of module Remote. *)
EXTENDS Remote

CONSTANTS cli, peer

\* One front-end of the machine, one caller on another.
TwoCallers == [c \in Callers |-> IF c = cli THEN "auto" ELSE "far"]
===============================================================================

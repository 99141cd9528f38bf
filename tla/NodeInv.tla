-------------------------------- MODULE NodeInv --------------------------------
(* The inductive invariant of a node.  What the verbs rely on is scattered   *)
(* over files, processes and local variables; Shape says which of these may  *)
(* be trusted at which point of a verb, and the rest follows from it.        *)
EXTENDS Node

\* The verbs a label belongs to, and the labels of a launch.
LaunchLabels == {"launch", "claim", "race", "await", "kill", "unlock"}

\* The local variables of w hold what its next steps use.
FrameOK(w) ==
    /\ pc[w] \notin {"idle", "scan", "drop"} => op[w].port \in Ports
    /\ pc[w] \in LaunchLabels \cup {"take"} => op[w].verb \in {"start", "swap"}
    /\ pc[w] = "preflight" => op[w].verb = "start"
    /\ pc[w] \in {"find", "term", "unclaim"} => op[w].verb \in {"stop", "swap"}
    /\ op[w].verb \in {"start", "swap"} => op[w].model \in Models
    /\ op[w].verb = "swap"
          /\ pc[w] \in LaunchLabels \cup {"take", "find", "term", "unclaim"}
       => op[w].prev \in Models
    /\ op[w].stage = "back" => op[w].verb = "swap"
    /\ pc[w] \in {"claim", "race", "await", "kill", "term"} => op[w].pid \in Pids
    /\ pc[w] = "write" => seen[w] # None

\* A server knows its port and its model, a stranger has neither.
ProcessOK(q) ==
    proc[q] # None =>
        IF proc[q].st = "alien"
        THEN proc[q].port = None
        ELSE proc[q].port \in Ports /\ proc[q].model \in Models

\* The pid a worker is about to signal or to claim is, as long as somebody
\* has it, a server of the worker's port.
PidOK(w) ==
    /\ pc[w] \in {"claim", "race", "await", "kill", "term"}
    /\ proc[op[w].pid] # None
    => /\ proc[op[w].pid].port = op[w].port
       /\ pc[w] = "claim" => proc[op[w].pid].model = Target(w)

FramesOK == \A w \in Workers : FrameOK(w)
ProcessesOK == \A q \in Pids : ProcessOK(q)
PidsOK == \A w \in Workers : PidOK(w)

Shape == TypeOK /\ FramesOK /\ ProcessesOK /\ PidsOK

\* While no launcher dies, whoever is in flight finds its marker in place.
MarkersHeld ==
    /\ up = Launchers
    /\ \A w \in Workers : pc[w] # "reclaim"
    /\ \A w \in Workers : InFlight(w) => mark[op[w].port] # None

IInv == Shape /\ MarkersHeld /\ MarkerMutex /\ ClaimMatchesProcess
=============================================================================

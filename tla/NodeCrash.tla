------------------------------- MODULE NodeCrash -------------------------------
(* The node with launcher processes that die (SIGKILL, power, an agent that  *)
(* exits under its daemon threads).  Files and servers survive: servers run  *)
(* in a session of their own.  A launcher that comes back is another         *)
(* element of Launchers.                                                     *)
EXTENDS Node

WorkersOf(l) == {w \in Workers : LauncherOf[w] = l}

\* Files a dying worker may leave created but empty: it was inside the
\* O_EXCL creation of a claim or of a marker.
TornLocks(l) == {p \in Ports : lock[p] = None /\
    \E w \in WorkersOf(l) : pc[w] = "claim" /\ op[w].port = p}
TornMarks(l) == {p \in Ports : mark[p] = None /\
    \E w \in WorkersOf(l) : pc[w] \in {"take", "same"} /\ op[w].port = p}

\* One launcher survives: with none left nothing runs any more.
Crash(l) ==
    /\ l \in up /\ up # {l}
    /\ up' = up \ {l}
    /\ \E T \in SUBSET TornLocks(l), S \in SUBSET TornMarks(l) :
          /\ lock' = [p \in Ports |-> IF p \in T THEN Torn ELSE lock[p]]
          /\ mark' = [p \in Ports |-> IF p \in S THEN Torn ELSE mark[p]]
    /\ pc' = [w \in Workers |-> IF w \in WorkersOf(l) THEN "idle" ELSE pc[w]]
    /\ op' = [w \in Workers |-> IF w \in WorkersOf(l) THEN NoFrame ELSE op[w]]
    /\ snap' = [w \in Workers |-> IF w \in WorkersOf(l) THEN NoSnap ELSE snap[w]]
    /\ seen' = [w \in Workers |-> IF w \in WorkersOf(l) THEN None ELSE seen[w]]
    /\ UNCHANGED <<store, proc, logs>>

CrashNext == Next \/ \E l \in Launchers : Crash(l)

CrashSpec == Init /\ [][CrashNext]_vars
FairCrashSpec == CrashSpec /\ WorkerFairness

\* One call at a time, the next one perhaps from a launcher that took over.
SerialNext ==
    \/ \E w \in Workers :
          /\ LauncherOf[w] \in up
          /\ Step(w) \/ (Call(w) /\ \A v \in Workers : pc[v] = "idle")
    \/ Environment
    \/ \E l \in Launchers : Crash(l)
SerialSpec == Init /\ [][SerialNext]_vars

-----------------------------------------------------------------------------
(* A marker is the one of the start or swap that is in flight on its port,   *)
(* or its launcher is dead, whatever a crash interrupts and however stale    *)
(* markers are cleared: what is stuck can be told from the pid in the        *)
(* marker, and a verb in flight is never taken for a stale one.              *)
StaleMarkersHaveDeadOwners ==
    \A p \in Ports : ReadMark(p) # None =>
        LET w == mark[p].owner
        IN  LauncherOf[w] \notin up \/ (InFlight(w) /\ op[w].port = p)

(* A server that was reported started keeps its claim while it lives, over   *)
(* later verbs, exits and crashes, the crash of its own launcher included:   *)
(* an orphan is always a server nobody was told about.                       *)
OrphansWereNeverReported ==
    \A q \in Servers : proc[q].kept => ClaimOf(proc[q].port, q)

(* What a verb reports as running, or as restored, is claimed for the        *)
(* process the verb launched and the model it names, whatever earlier        *)
(* launchers left on the port and whichever servers exit meanwhile.          *)
ReportsAreClaimed ==
    \A w \in Workers : pc[w] = "release" =>
        LET claim == lock[op[w].port] IN
        /\ op[w].out \in {"started", "swapped"} =>
              claim = [pid |-> op[w].pid, model |-> op[w].model]
        /\ op[w].out = "rolled_back" =>
              claim = [pid |-> op[w].pid, model |-> op[w].prev]
=============================================================================

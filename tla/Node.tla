--------------------------------- MODULE Node ---------------------------------
(* One llauncher node: every worker runs verbs over the shared files and     *)
(* process table, and servers live their own life.  No launcher dies here;   *)
(* module NodeCrash adds that.                                               *)
EXTENDS Swap, Upkeep

Call(w) == StartCall(w) \/ SwapCall(w) \/ StopCall(w) \/ UpkeepCall(w)

Step(w) == LaunchStep(w) \/ StartStep(w) \/ SwapStep(w) \/ StopStep(w)
           \/ UpkeepStep(w)

Next == \/ \E w \in Workers : LauncherOf[w] \in up /\ (Call(w) \/ Step(w))
        \/ Environment

Spec == Init /\ [][Next]_vars

(* A thread that runs a verb is scheduled until the verb returns: there is   *)
(* no lock to wait for, and the one loop, the readiness poll, has a timeout. *)
(* Nobody has to call a verb.                                                *)
WorkerFairness ==
    \A w \in Workers : WF_vars(LauncherOf[w] \in up /\ Step(w))
FairSpec == Spec /\ WorkerFairness

-----------------------------------------------------------------------------
(* What the marker is for. *)

\* w has taken its port's marker and not run its "finally" yet.
InFlight(w) ==
    \/ pc[w] \in {"preflight", "launch", "claim", "race", "await", "kill",
                 "unlock", "release"}
    \/ pc[w] \in {"find", "term", "unclaim"} /\ op[w].verb = "swap"

(* At most one start or swap is in flight on a port, from take_marker to the *)
(* "finally" that releases it, whatever cancels, stops and sweeps do.        *)
MarkerMutex ==
    \A v, w \in Workers :
        InFlight(v) /\ InFlight(w) /\ op[v].port = op[w].port => v = w

\* w is answerable for the process it has launched.
InCharge(w, q) ==
    op[w].pid = q /\ pc[w] \in {"claim", "race", "await", "kill"}

Servers == {q \in Pids : proc[q] # None /\ proc[q].st # "alien"}

ClaimOf(p, q) == ReadLock(p) # None /\ lock[p].pid = q

(* A start or swap that does not report success leaves no server behind: a   *)
(* live server was handed over by a successful verb, or its launch is still  *)
(* in flight.  Every failure path of start.py and swap.py has to stop its    *)
(* own process, also when the claim was lost to another writer.              *)
NoLeak ==
    \A q \in Servers : proc[q].kept \/ \E w \in Workers : InCharge(w, q)

(* A claim tells the truth about a live server: swap takes the model it will *)
(* roll back to from the claim, so a claim may never name another model or   *)
(* port than the process runs, however claims are cleared and rewritten.     *)
ClaimMatchesProcess ==
    \A p \in Ports, q \in Servers :
        ClaimOf(p, q) => proc[q].port = p /\ proc[q].model = lock[p].model

(* A server being launched is stopped by nobody but the verb that launches   *)
(* it and a stop on its port: the marker keeps the other starts and swaps    *)
(* off, although they look for the server to stop by port and not by pid.    *)
Stopping(v, p) == pc[v] = "term" /\ op[v].verb = "stop" /\ op[v].port = p
LaunchUndisturbed ==
    [][\A w \in Workers :
          pc[w] = "await" /\ PidAlive(op[w].pid) /\ pc' # pc
          => \/ PidAlive(op[w].pid)'
             \/ \E v \in Workers : Stopping(v, op[w].port)]_vars

(* A process that was given the pid of a dead claimed server is never        *)
(* signalled: what is stopped is found by its command line, not by the pid   *)
(* in the claim.                                                             *)
Strangers == {q \in Pids : proc[q] # None /\ proc[q].st = "alien"}
StrangersSpared == [][Strangers \subseteq Strangers']_vars

(* Every verb returns: no verb waits for another one, however many starts,   *)
(* swaps, stops, cancels and sweeps meet on a port.                          *)
VerbsReturn == \A w \in Workers : pc[w] # "idle" ~> pc[w] = "idle"

-----------------------------------------------------------------------------
(* What a single operator at a time can rely on, cancels allowed. *)

(* A live server is claimed by its port's lockfile, or a verb that launches  *)
(* it is in flight: no verb drops the claim of a server that keeps running.  *)
NoOrphan ==
    \A q \in Servers :
        ClaimOf(proc[q].port, q) \/ \E w \in Workers : InCharge(w, q)

(* Two servers are never up for the same port.                               *)
OneServerPerPort == \A p \in Ports : Cardinality(ServersOn(p)) <= 1

(* A server reported started has its model in the config, so that a swap can *)
(* roll back to it: delete_model refuses a model running on any port.        *)
RunningIsConfigured ==
    \A q \in Servers : proc[q].kept => proc[q].model \in store

\* p answers, with the server its lockfile claims, and m is loaded.
Serves(p, m) == \E q \in ServersOn(p) : /\ ClaimOf(p, q) /\ lock[p].model = m
                                        /\ proc[q].st = "serving"

(* What a verb is about to report is what is on the port: success and the    *)
(* restored outcomes of a swap (rolled_back, cancelled, also when the swap   *)
(* was refused) serve the model they name, failures left nothing behind.     *)
Truthful ==
    \A w \in Workers : pc[w] = "release" =>
        LET out == op[w].out  p == op[w].port  restored == op[w].prev IN
        /\ out \in {"started", "swapped", "already_running"} =>
              Serves(p, op[w].model)
        /\ out \in {"rolled_back", "rejected_stop_failed"} =>
              Serves(p, restored)
        /\ out = "cancelled" /\ op[w].verb = "swap" => Serves(p, restored)
        /\ out \in {"failed", "error"} \/ (out = "cancelled" /\ op[w].verb = "start")
              => ServersOn(p) = {} /\ lock[p] = None

-----------------------------------------------------------------------------
(* The sweep. *)

DeadClaim(p, q) == ClaimOf(p, q) /\ ~PidAlive(q)

\* The agent sweeps on every /status, and its clients poll /status.
SweepFairness ==
    \A w \in Workers : WF_vars(LauncherOf[w] \in up /\ SweepEnter(w))
SweptSpec == FairSpec /\ SweepFairness

(* A claim whose server has died is eventually removed, whatever verbs run   *)
(* meanwhile, so a dead server does not keep its port (issue 201).           *)
DeadClaimsPruned == \A p \in Ports, q \in Pids : DeadClaim(p, q) ~> ~DeadClaim(p, q)

-----------------------------------------------------------------------------
(* One call at a time: the abstract service. *)

\* "No call" is no call.
ASSUME AsksAssumption ==
    None \notin [verb : Verbs \cup {"none"}, port : Ports \cup {None},
                 model : Models \cup {None}]

\* The call the operator waits for, and what is served on a port from the
\* point of view of a caller: a start or swap in flight has not happened yet.
Asked(w) == IF pc[w] = "idle" THEN None
            ELSE [verb |-> op[w].verb, port |-> op[w].port, model |-> op[w].model]

Deciding(w, p) == InFlight(w) /\ pc[w] # "release" /\ op[w].port = p

Served == [p \in Ports |->
    IF \E w \in Workers : Deciding(w, p)
    THEN op[CHOOSE w \in Workers : Deciding(w, p)].prev
    ELSE IF ReadLock(p) # None /\ PidAlive(lock[p].pid)
         THEN lock[p].model ELSE None]

Service == INSTANCE PortService
             WITH served <- Served, asked <- [w \in Workers |-> Asked(w)]

(* The verbs implement the port service: to its caller a start, swap, stop   *)
(* or cancelled swap is one step, and only the verbs entitled to it change   *)
(* what a port serves.                                                       *)
ImplementsService == Service!Spec

-----------------------------------------------------------------------------
(* Promises of the documentation that the code does not keep. *)

(* "previous_model: what was there before the swap": the server a swap stops *)
(* runs the model its rollback would restore.                                *)
SwapStopsPrevious ==
    \A w \in Workers :
        pc[w] = "term" /\ op[w].verb = "swap" /\ proc[op[w].pid] # None
        => proc[op[w].pid].model = op[w].prev

(* "removed when the swap reaches any terminal phase": a marker exists only  *)
(* while the start or swap that took it is in flight.                        *)
MarkerOwned ==
    \A p \in Ports : ReadMark(p) # None =>
        \E w \in Workers : mark[p].owner = w /\ InFlight(w) /\ op[w].port = p
=============================================================================

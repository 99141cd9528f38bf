--------------------------------- MODULE Agent ---------------------------------
(* The HTTP agent's stops: POST /stop answers at once and terminates on a    *)
(* daemon thread (operations/stop.py), and the shutdown of the agent reaps   *)
(* what its node runs (agent/server.py).  The threads and the reaper run the *)
(* stop of module Stop as workers of the agent's process; the other workers  *)
(* belong to other processes and run verbs as in module Node.                *)
EXTENDS Node

CONSTANTS
    Agent,        \* the launcher the agent is
    Requests,     \* threads of the agent that answer POST /stop
    StopThreads,  \* workers that are the background threads
    Reaper        \* the worker that runs the agent's shutdown

\* What a background thread is started for; "none" is not such a job.
Job == [port : Ports, pid : Pids]

ASSUME AgentAssumption ==
    /\ StopThreads \subseteq Workers /\ Reaper \in Workers \ StopThreads
    /\ \A w \in StopThreads \cup {Reaper} :
          LauncherOf[w] = Agent /\ Duties[w] = {}
    /\ None \notin Job

VARIABLES
    inflight,  \* [Ports -> StopThreads \cup {None}], the registry
    job,       \* [StopThreads -> the port and the pid it was accepted for]
    request,   \* [Requests -> a request's place, port and pid]
    phase,     \* where the agent is in its life
    todo,      \* ports of the reaper's listing it has not come to
    cur,       \* the port it is at
    listed     \* ports and live pids of its listing (history)

Places == {"idle", "clear", "check", "answered"}
Request == [at : Places, port : Ports \cup {None}, pid : Pids \cup {None}]
NoRequest == [at |-> "idle", port |-> None, pid |-> None]
Phases == {"serving", "reaping", "joining", "stopping", "gone"}

reaper == <<todo, cur, listed>>
agent == <<inflight, job, request, phase, reaper>>
agentVars == <<vars, agent>>

AgentTypeOK ==
    /\ TypeOK
    /\ inflight \in [Ports -> StopThreads \cup {None}]
    /\ job \in [StopThreads -> Job \cup {None}]
    /\ request \in [Requests -> Request]
    /\ phase \in Phases
    /\ todo \subseteq Ports /\ cur \in Ports \cup {None}
    /\ listed \subseteq Ports \X Pids

AgentInit ==
    /\ Init
    /\ inflight = [p \in Ports |-> None]
    /\ job = [t \in StopThreads |-> None]
    /\ request = [r \in Requests |-> NoRequest]
    /\ phase = "serving"
    /\ todo = {} /\ cur = None /\ listed = {}

-----------------------------------------------------------------------------
(* stop_in_background. *)

\* The pre-check: a stale claim, or a live server; nothing to do otherwise.
RequestEnter(r, p) ==
    /\ phase = "serving" /\ request[r].at = "idle"
    /\ ReadLock(p) # None
    /\ request' = [request EXCEPT ![r] =
          [at |-> IF PidAlive(lock[p].pid) THEN "check" ELSE "clear",
           port |-> p, pid |-> lock[p].pid]]
    /\ UNCHANGED <<vars, inflight, job, phase, reaper>>

RequestClear(r) ==
    /\ request[r].at = "clear"
    /\ RemoveLock(request[r].port)
    /\ request' = [request EXCEPT ![r] = NoRequest]
    /\ UNCHANGED <<mark, store, proc, logs, up, local,
                   inflight, job, phase, reaper>>

Answer(r) == request' = [request EXCEPT ![r].at = "answered"]

\* Under _inflight_lock: a stop in flight on the port is joined.
RequestJoins(r) ==
    /\ request[r].at = "check" /\ inflight[request[r].port] # None
    /\ Answer(r)
    /\ UNCHANGED <<vars, inflight, job, phase, reaper>>

\* A thread t is registered and started.
Launches(r, t) ==
    LET p == request[r].port IN
    /\ request[r].at = "check" /\ job[t] = None
    /\ inflight' = [inflight EXCEPT ![p] = t]
    /\ job' = [job EXCEPT ![t] = [port |-> p, pid |-> request[r].pid]]
    /\ Enter(t, "find", "stop", p, None)
    /\ Answer(r)
    /\ UNCHANGED <<files, proc, logs, up, snap, seen, phase, reaper>>

\* Faulty variant of RequestStops: nobody looks for a stop in flight.
RequestStopsAlways(r) == \E t \in StopThreads : Launches(r, t)

\* Under _inflight_lock, in the same critical section: none is in flight.
RequestStops(r) ==
    /\ request[r].at = "check" /\ inflight[request[r].port] = None
    /\ \E t \in StopThreads : Launches(r, t)

\* The answer (stopping) has been sent.
RequestReturns(r) ==
    /\ request[r].at = "answered"
    /\ request' = [request EXCEPT ![r] = NoRequest]
    /\ UNCHANGED <<vars, inflight, job, phase, reaper>>

\* The "finally" of the thread, whose stop has returned: it removes its own
\* entry, under _inflight_lock, and ends.
ThreadEnds(t) ==
    /\ job[t] # None /\ pc[t] = "idle"
    /\ inflight' = [inflight EXCEPT ![job[t].port] = IF @ = t THEN None ELSE @]
    /\ job' = [job EXCEPT ![t] = None]
    /\ UNCHANGED <<vars, request, phase, reaper>>

-----------------------------------------------------------------------------
(* lifespan: the shutdown, once the requests are answered. *)

Shutdown ==
    /\ phase = "serving" /\ \A r \in Requests : request[r].at = "idle"
    /\ phase' = "reaping"
    /\ todo' = {p \in Ports : ReadLock(p) # None}
    /\ listed' = {<<p, lock[p].pid>> :
                     p \in {p \in todo' : PidAlive(lock[p].pid)}}
    /\ UNCHANGED <<vars, inflight, job, request, cur>>

\* The reaper's own stop of port p, which begins with a pre-check of its own.
StopsItself(p) ==
    \/ /\ ReadLock(p) = None
       /\ phase' = "reaping"
       /\ UNCHANGED <<pc, op>>
    \/ /\ ReadLock(p) # None
       /\ Enter(Reaper, IF PidAlive(lock[p].pid) THEN "find" ELSE "clear",
                "stop", p, None)
       /\ phase' = "stopping"

\* join_inflight_stop finds no stop in flight on the next port.
ReaperStops(p) ==
    /\ phase = "reaping" /\ p \in todo /\ inflight[p] = None
    /\ StopsItself(p)
    /\ todo' = todo \ {p} /\ cur' = p
    /\ UNCHANGED <<files, proc, logs, up, snap, seen,
                   inflight, job, request, listed>>

\* It finds one and waits for its thread.
ReaperJoins(p) ==
    /\ phase = "reaping" /\ p \in todo /\ inflight[p] # None
    /\ phase' = "joining"
    /\ todo' = todo \ {p} /\ cur' = p
    /\ UNCHANGED <<vars, inflight, job, request, listed>>

\* The thread has ended, whatever came of its stop: the port is skipped.
JoinReturns ==
    /\ phase = "joining" /\ inflight[cur] = None
    /\ phase' = "reaping"
    /\ UNCHANGED <<vars, inflight, job, request, reaper>>

\* Faulty variant of JoinTimesOut: the port is skipped as well.
JoinTimesOutSkipping ==
    /\ phase = "joining" /\ inflight[cur] # None
    /\ phase' = "reaping"
    /\ UNCHANGED <<vars, inflight, job, request, reaper>>

\* The grace is over and the thread is not: the reaper stops the port, too.
JoinTimesOut ==
    /\ phase = "joining" /\ inflight[cur] # None
    /\ StopsItself(cur)
    /\ UNCHANGED <<files, proc, logs, up, snap, seen,
                   inflight, job, request, reaper>>

\* The reaper goes on, unless its stop has raised AccessDenied: only OSError
\* is caught, and the loop is left.
ReaperStopped ==
    /\ phase = "stopping" /\ pc[Reaper] = "idle"
    /\ phase' = "reaping"
    /\ todo' \in IF "denied" \in Env THEN {todo, {}} ELSE {todo}
    /\ UNCHANGED <<vars, inflight, job, request, cur, listed>>

\* The process ends, and its daemon threads end where they are.
AgentExits ==
    /\ phase = "reaping" /\ todo = {}
    /\ phase' = "gone"
    /\ up' = up \ {Agent}
    /\ pc' = [w \in Workers |-> IF w \in StopThreads THEN "idle" ELSE pc[w]]
    /\ op' = [w \in Workers |-> IF w \in StopThreads THEN NoFrame ELSE op[w]]
    /\ inflight' = [p \in Ports |-> None]
    /\ job' = [t \in StopThreads |-> None]
    /\ UNCHANGED <<files, proc, logs, snap, seen, request, reaper>>

-----------------------------------------------------------------------------
RequestCall(r) == \E p \in Ports : RequestEnter(r, p)
RequestStep(r) == \/ RequestClear(r) \/ RequestJoins(r) \/ RequestStops(r)
                  \/ RequestReturns(r)

ReaperStep == \/ \E p \in Ports : ReaperStops(p) \/ ReaperJoins(p)
              \/ JoinReturns \/ JoinTimesOut \/ ReaperStopped \/ AgentExits

AgentStep == \/ \E r \in Requests : RequestStep(r)
             \/ \E t \in StopThreads : ThreadEnds(t)
             \/ Shutdown \/ ReaperStep

AgentNext == \/ Next /\ UNCHANGED agent
             \/ \E r \in Requests : RequestCall(r)
             \/ AgentStep
AgentSpec == AgentInit /\ [][AgentNext]_agentVars

Others == Workers \ (StopThreads \cup {Reaper})

\* Patient callers: who starts a server waits until the stops the agent has
\* accepted, and its shutdown, are over, and who asks for a stop waits until
\* the starts are.  Stops meet: requests each other, their threads, the stops
\* of other processes and the shutdown, which meets starts as well.
StopsOver == /\ phase \in {"serving", "gone"}
             /\ \A t \in StopThreads : job[t] = None
             /\ \A r \in Requests : request[r].at = "idle"
NoneStarts == \A w \in Others : op[w].verb \in {"none", "stop"}
PatientNext ==
    \/ /\ \/ Environment
          \/ \E w \in Workers :
                /\ LauncherOf[w] \in up
                /\ Step(w) \/ (NoneStarts /\ StopCall(w)) \/ (StopsOver /\ Call(w))
       /\ UNCHANGED agent
    \/ NoneStarts /\ \E r \in Requests : RequestCall(r)
    \/ AgentStep

(* The threads of the agent are scheduled.  Nobody has to ask for a stop or  *)
(* for the shutdown; once it has begun the reaper goes on.                   *)
AgentFairness ==
    /\ WorkerFairness
    /\ \A r \in Requests : WF_agentVars(RequestStep(r))
    /\ \A t \in StopThreads : WF_agentVars(ThreadEnds(t))
    /\ WF_agentVars(ReaperStep)
PatientSpec == AgentInit /\ [][PatientNext]_agentVars /\ AgentFairness

-----------------------------------------------------------------------------
(* At most one background termination runs on a port, and the registry knows *)
(* it: else two threads would signal the same server, and the shutdown would *)
(* not wait for one that is half way through its grace.                      *)
TerminationsRegistered ==
    \A t \in StopThreads : pc[t] # "idle" => inflight[op[t].port] = t

(* A background stop signals the server it was accepted for, or nobody: what *)
(* runs on the port when the thread gets to look is still that server.       *)
StopsWhatItAccepted ==
    \A t \in StopThreads : pc[t] = "term" => op[t].pid = job[t].pid

(* When the agent's process ends, the servers its reaper found claimed have  *)
(* ended, those included that a background stop was half way through.        *)
ShutdownReaps ==
    [][phase = "reaping" /\ phase' = "gone"
       => \A p \in Ports : \A q \in ServersOn(p) : <<p, q>> \notin listed]_agentVars

(* A server for which a stop was answered with "stopping" is stopped, though *)
(* the answer says nothing of the outcome, and the agent may shut down.      *)
AcceptedIsStopped ==
    \A r \in Requests, q \in Pids :
        request[r].at = "answered" /\ request[r].pid = q ~> q \notin Servers
=============================================================================

------------------------------ MODULE AgentProofs ------------------------------
(* The agent's stops.  The registry is right whatever the workers do; what   *)
(* the stops find, and what the shutdown leaves, follows from AgentSafe and  *)
(* Reaping while starts and stops do not overlap (PatientSpec).              *)
EXTENDS SerialProofs, AgentInv

\* A job is something, and no thread of the registry is nothing.
LEMMA NothingIsNothing == None \notin Job /\ None \notin StopThreads
BY AgentAssumption, ConstantsAssumption

\* The agent starts with nothing to do.
LEMMA InitAgentShape == AgentInit => AgentShape
<1> SUFFICES ASSUME AgentInit PROVE AgentShape
    OBVIOUS
<1>1. Shape
    BY InitShape DEF AgentInit
<1>2. AgentTypeOK
    BY <1>1 DEF AgentInit, AgentTypeOK, Shape, NoRequest, Request, Places, Phases
<1>3. Threads /\ Phased /\ \A r \in Requests : RequestOK(r)
    BY AgentAssumption
    DEF AgentInit, Init, Threads, Phased, RequestOK, RunsStops, ThreadOK, EntryOK,
        StopLabels, NoRequest
<1> QED BY <1>1, <1>2, <1>3 DEF AgentShape

-----------------------------------------------------------------------------
(* The registry.                                                            *)

\* A worker of the agent is never asked for a verb by anybody else.
LEMMA AgentWorkers ==
    ASSUME NEW w \in StopThreads \cup {Reaper}
    PROVE  w \in Workers /\ ~Call(w)
BY AgentAssumption
   DEF Call, StartCall, StopCall, SwapCall, UpkeepCall, StartEnter, StopEnter,
       SwapEnter, SweepEnter, DeleteEnter, Add, CancelEnter, Idle

\* What a worker that runs a stop does next is a step of the stop.
LEMMA OnlyStops ==
    ASSUME NEW w \in Workers, RunsStops(w), Step(w)
    PROVE  StopStep(w) /\ pc[w] # "idle" /\ op[w].verb = "stop"
BY DEF RunsStops, StopLabels, Step, LaunchStep, Spawn, SpawnFails, ClaimPort,
       ClaimLost, ClaimRaises, RaceCleanup, AwaitReady, AwaitFails, KillUnready,
       Unlock, Release, StartStep, StartClear, StartTake, StartRefused,
       StartPreflight, StartCancelled, SwapStep, SwapTake, SwapSame,
       SwapInProgress, SwapReclaim, SwapTakeRaises, SwapCancelled, UpkeepStep,
       ScanStale, ScanLive, ScanDone, DeleteDrop, CancelWrite, StopStep,
       ClearAndReturn, Find, FindNothing, Terminate, TerminateMissed, TerminateDenied,
       Unclaim

\* A stop goes on as a stop of the same port until it returns.
LEMMA StopGoesOn ==
    ASSUME Shape, NEW w \in Workers, StopStep(w), op[w].verb = "stop"
    PROVE  \/ pc'[w] = "idle" /\ op'[w] = NoFrame
           \/ /\ pc'[w] \in {"term", "unclaim"} /\ op'[w].verb = "stop"
              /\ op'[w].port = op[w].port
<1>0. pc \in [Workers -> Labels] /\ op \in [Workers -> Frame]
    BY DEF Shape, TypeOK
<1>1. CASE Find(w)
    BY <1>0, <1>1 DEF Find, Goto, Frame
<1>2. CASE Terminate(w)
    BY <1>0, <1>2 DEF Terminate, Goto
<1>3. CASE \/ ClearAndReturn(w) \/ FindNothing(w) \/ TerminateMissed(w)
           \/ TerminateDenied(w) \/ Unclaim(w)
    BY <1>0, <1>3 DEF ClearAndReturn, FindNothing, TerminateMissed, TerminateDenied,
       Unclaim, StopFailed, Return, Goto
<1> QED BY <1>1, <1>2, <1>3 DEF StopStep

\* A step of the node leaves the agent's workers as they are, or takes one of
\* them on to the next step of its stop.
LEMMA NodeStepAgent ==
    ASSUME AgentShape, Next, NEW w \in StopThreads \cup {Reaper}
    PROVE  \/ pc'[w] = pc[w] /\ op'[w] = op[w]
           \/ pc[w] # "idle" /\ pc'[w] = "idle"
           \/ /\ pc[w] # "idle" /\ pc'[w] \in {"term", "unclaim"}
              /\ op'[w].verb = "stop" /\ op'[w].port = op[w].port
<1>0. w \in Workers /\ Shape /\ RunsStops(w)
    BY AgentWorkers DEF AgentShape, Threads
<1>1. CASE Call(w) \/ Step(w)
  <2>1. StopStep(w) /\ pc[w] # "idle" /\ op[w].verb = "stop"
    BY <1>0, <1>1, AgentWorkers, OnlyStops
  <2> QED BY <1>0, <2>1, StopGoesOn
<1>2. ASSUME NEW v \in Workers \ {w}, Call(v) \/ Step(v)
      PROVE  pc'[w] = pc[w] /\ op'[w] = op[w]
    BY <1>0, <1>2, StepAlone DEF Alone
<1>3. CASE Environment
    BY <1>3, EnvironmentQuiet
<1> QED BY <1>0, <1>1, <1>2, <1>3 DEF Next

\* The other processes' steps do not disturb the registry.
LEMMA NodeStepShape ==
    ASSUME AgentShape, Next, UNCHANGED agent
    PROVE  AgentShape'
<1>0. Shape'
    BY ShapeNext DEF AgentShape
<1>1. AgentTypeOK' /\ \A r \in Requests : RequestOK(r)'
    BY <1>0 DEF AgentShape, AgentTypeOK, RequestOK, Shape, agent, reaper
<1>2. Threads'
    BY NodeStepAgent
    DEF AgentShape, Threads, RunsStops, ThreadOK, EntryOK, StopLabels, agent
<1>3. Phased'
    BY NodeStepAgent DEF AgentShape, Phased, agent, reaper
<1> QED BY <1>0, <1>1, <1>2, <1>3 DEF AgentShape

\* Shape is about the node only.
LEMMA ShapeUnchanged ==
    ASSUME Shape, UNCHANGED vars PROVE Shape'
BY ShapeNext

\* The removal of a lockfile alone.
LEMMA ShapeUnlocked ==
    ASSUME Shape, NEW p \in Ports, RemoveLock(p),
           UNCHANGED <<mark, proc, logs, store, up, pc, op, snap, seen>>
    PROVE  Shape'
<1>1. TypeOK'
    BY RemoveLockTyped DEF Shape, TypeOK
<1> QED BY <1>1 DEF Shape, FramesOK, FrameOK, ProcessesOK, ProcessOK, PidsOK, PidOK, Target

\* A worker of the agent begins a stop.
LEMMA StopBegins ==
    ASSUME AgentShape, NEW w \in Workers, NEW p \in Ports,
           NEW label \in {"find", "clear"}, Enter(w, label, "stop", p, None),
           UNCHANGED <<files, proc, logs, up, snap, seen>>
    PROVE  /\ Shape'
           /\ pc'[w] = label /\ op'[w].verb = "stop" /\ op'[w].port = p
           /\ \A v \in Workers \ {w} : pc'[v] = pc[v] /\ op'[v] = op[v]
<1>0. /\ Shape /\ pc \in [Workers -> Labels] /\ op \in [Workers -> Frame]
      /\ snap \in [Workers -> [Ports -> Claim \cup {None}]]
      /\ seen \in [Workers -> Marker \cup {None}]
    BY DEF AgentShape, Shape, TypeOK
<1>1. Shape'
  <2>1. /\ UNCHANGED <<lock, mark, proc, logs, store, up>> /\ snap' = snap /\ seen' = seen
        /\ label \in Labels /\ "stop" \in Verbs
    BY DEF files, Labels, Verbs
  <2> QED BY <1>0, <2>1, EnterShape
<1>2. op' = [op EXCEPT ![w] = [NoFrame EXCEPT !.verb = "stop", !.port = p,
                                              !.model = None]]
    BY DEF Enter
<1> QED BY <1>0, <1>1, <1>2 DEF Enter, Goto, NoFrame

\* The requests read the claims, and answer.
LEMMA RequestShape ==
    ASSUME AgentShape, NEW r \in Requests,
           \/ RequestCall(r) \/ RequestClear(r) \/ RequestJoins(r) \/ RequestReturns(r)
    PROVE  AgentShape'
<1>0. /\ Shape /\ Threads /\ Phased /\ RequestOK(r)
      /\ lock \in [Ports -> Claim \cup {None, Torn}]
      /\ request \in [Requests -> Request]
    BY DEF AgentShape, Shape, TypeOK, AgentTypeOK
<1>1. UNCHANGED <<pc, op, inflight, job, phase, todo, cur, listed>>
    BY DEF RequestCall, RequestEnter, RequestClear, RequestJoins, RequestReturns,
       vars, local, reaper
<1>2. Shape'
  <2>1. CASE UNCHANGED vars
    BY <1>0, <2>1, ShapeUnchanged
  <2>2. CASE RequestClear(r)
    BY <1>0, <2>2, ShapeUnlocked DEF RequestClear, RequestOK, local
  <2> QED BY <2>1, <2>2 DEF RequestCall, RequestEnter, RequestJoins, RequestReturns
<1>3. PICK q \in Request : /\ request' = [request EXCEPT ![r] = q]
                           /\ q.at # "idle" => /\ q.port \in Ports /\ q.pid \in Pids
                                               /\ phase = "serving" \/ request[r].at # "idle"
  <2>1. NoRequest \in Request /\ NoRequest.at = "idle"
    BY DEF NoRequest, Request, Places
  <2>2. CASE RequestClear(r) \/ RequestReturns(r)
    BY <2>1, <2>2 DEF RequestClear, RequestReturns
  <2>3. CASE RequestJoins(r)
    <3> DEFINE q == [request[r] EXCEPT !.at = "answered"]
    <3>1. q \in Request /\ q.port = request[r].port /\ q.pid = request[r].pid
      BY <1>0 DEF Request, Places
    <3>2. request' = [request EXCEPT ![r] = q] /\ request[r].at # "idle"
      BY <2>3 DEF RequestJoins, Answer
    <3> QED BY <1>0, <3>1, <3>2 DEF RequestOK
  <2>4. ASSUME NEW p \in Ports, RequestEnter(r, p)
        PROVE  \E q \in Request :
                  /\ request' = [request EXCEPT ![r] = q]
                  /\ q.at # "idle" => /\ q.port \in Ports /\ q.pid \in Pids
                                      /\ phase = "serving" \/ request[r].at # "idle"
    <3> DEFINE q == [at |-> IF PidAlive(lock[p].pid) THEN "check" ELSE "clear",
                     port |-> p, pid |-> lock[p].pid]
    <3>1. lock[p].pid \in Pids
      BY <1>0, <2>4, ReadLockTyped DEF RequestEnter, Shape, Claim
    <3>2. q \in Request
      BY <3>1 DEF Request, Places
    <3> QED BY <2>4, <3>1, <3>2 DEF RequestEnter
  <2> QED BY <2>2, <2>3, <2>4 DEF RequestCall
<1>4. request' \in [Requests -> Request] /\ \A s \in Requests : RequestOK(s)'
    BY <1>0, <1>3 DEF AgentShape, RequestOK
<1>5. AgentTypeOK'
    BY <1>1, <1>2, <1>4 DEF AgentShape, AgentTypeOK, Shape
<1>6. Threads' /\ Phased'
    BY <1>0, <1>1, <1>3
    DEF Threads, Phased, RunsStops, ThreadOK, EntryOK
<1> QED BY <1>2, <1>4, <1>5, <1>6 DEF AgentShape

\* A thread is started for a port that has none.
LEMMA LaunchesShape ==
    ASSUME AgentShape, NEW r \in Requests, NEW t \in StopThreads,
           inflight[request[r].port] = None, Launches(r, t)
    PROVE  AgentShape'
<1> DEFINE p == request[r].port
           j == [port |-> p, pid |-> request[r].pid]
<1>0. /\ Shape /\ Threads /\ Phased /\ RequestOK(r) /\ t \in Workers
      /\ inflight \in [Ports -> StopThreads \cup {None}]
      /\ job \in [StopThreads -> Job \cup {None}]
      /\ request \in [Requests -> Request]
    BY AgentAssumption DEF AgentShape, AgentTypeOK
<1>1. /\ request[r].at = "check" /\ job[t] = None
      /\ inflight' = [inflight EXCEPT ![p] = t] /\ job' = [job EXCEPT ![t] = j]
      /\ Enter(t, "find", "stop", p, None)
      /\ request' = [request EXCEPT ![r].at = "answered"]
      /\ UNCHANGED <<files, proc, logs, up, snap, seen, phase, todo, cur, listed>>
    BY DEF Launches, Answer, reaper
<1>2. p \in Ports /\ request[r].pid \in Pids /\ j \in Job
    BY <1>0, <1>1 DEF RequestOK, Job
<1>3. /\ Shape' /\ pc'[t] = "find" /\ op'[t].verb = "stop" /\ op'[t].port = p
      /\ \A v \in Workers \ {t} : pc'[v] = pc[v] /\ op'[v] = op[v]
    BY <1>0, <1>1, <1>2, StopBegins
<1>4. request' \in [Requests -> Request] /\ \A s \in Requests : RequestOK(s)'
  <2>1. request' \in [Requests -> Request]
    BY <1>0, <1>1 DEF Request, Places
  <2>2. \A s \in Requests : /\ request'[s].port = request[s].port
                            /\ request'[s].pid = request[s].pid
                            /\ request'[s].at # "idle" => request[s].at # "idle"
    BY <1>0, <1>1 DEF Request
  <2> QED BY <2>1, <2>2 DEF AgentShape, RequestOK
<1>5. AgentTypeOK'
    BY <1>0, <1>1, <1>2, <1>3, <1>4 DEF AgentShape, AgentTypeOK, Shape
<1>6. Threads'
  <2>1. j # None /\ j.port = p /\ t # None
    BY <1>2, AgentAssumption, ConstantsAssumption
  <2>2. ASSUME NEW s \in StopThreads \ {t} PROVE ThreadOK(s)'
    <3>1. job[s] # None => job[s].port # p
      BY <1>0, NothingIsNothing DEF Threads, ThreadOK
    <3>2. ThreadOK(s) /\ s \in Workers \ {t} /\ job'[s] = job[s]
      BY <1>0, <1>1, AgentAssumption DEF Threads
    <3>3. job[s] # None => job[s].port \in Ports
      BY <1>0 DEF Job
    <3> QED BY <1>0, <1>1, <1>3, <3>1, <3>2, <3>3 DEF ThreadOK
  <2>3. ThreadOK(t)'
    BY <1>0, <1>1, <1>2, <1>3, <2>1 DEF ThreadOK
  <2>4. ASSUME NEW v \in StopThreads \cup {Reaper} PROVE RunsStops(v)'
    BY <1>0, <1>3, AgentWorkers DEF Threads, RunsStops, StopLabels
  <2>5. ASSUME NEW x \in Ports PROVE EntryOK(x)'
    <3>1. EntryOK(x)
      BY <1>0 DEF Threads
    <3> QED BY <1>0, <1>1, <1>2, <2>1, <3>1 DEF EntryOK
  <2> QED BY <2>2, <2>3, <2>4, <2>5 DEF Threads
<1>7. Phased'
  <2>1. pc'[Reaper] = pc[Reaper] /\ op'[Reaper] = op[Reaper]
    BY <1>3, AgentAssumption
  <2> QED BY <1>0, <1>1, <2>1 DEF Phased
<1> QED BY <1>3, <1>4, <1>5, <1>6, <1>7 DEF AgentShape

\* A thread whose stop has returned gives its entry back.
LEMMA ThreadEndsShape ==
    ASSUME AgentShape, NEW t \in StopThreads, ThreadEnds(t)
    PROVE  AgentShape'
<1>0. /\ Shape /\ Threads /\ Phased
      /\ inflight \in [Ports -> StopThreads \cup {None}]
      /\ job \in [StopThreads -> Job \cup {None}]
      /\ job[t] # None /\ pc[t] = "idle" /\ job' = [job EXCEPT ![t] = None]
      /\ inflight' = [inflight EXCEPT ![job[t].port] = IF @ = t THEN None ELSE @]
      /\ UNCHANGED <<pc, op, request, phase, todo, cur, listed>> /\ UNCHANGED vars
    BY DEF AgentShape, AgentTypeOK, ThreadEnds, reaper, vars
<1>1. Shape'
    BY <1>0, ShapeUnchanged
<1>2. job[t] \in Job /\ job[t].port \in Ports /\ inflight[job[t].port] = t
    BY <1>0 DEF Job, Threads, ThreadOK
<1>3. inflight' = [inflight EXCEPT ![job[t].port] = None]
    BY <1>0, <1>2
<1>4. AgentTypeOK'
    BY <1>0, <1>1, <1>3 DEF AgentShape, AgentTypeOK, Shape
<1>5. ASSUME NEW s \in StopThreads PROVE ThreadOK(s)'
  <2>1. ThreadOK(s)
    BY <1>0 DEF Threads
  <2>2. s # t /\ job[s] # None => job[s].port # job[t].port /\ job[s].port \in Ports
    BY <1>0, <1>2, <2>1 DEF ThreadOK, Job
  <2> QED BY <1>0, <1>3, <2>1, <2>2 DEF ThreadOK
<1>6. ASSUME NEW p \in Ports PROVE EntryOK(p)'
  <2>1. EntryOK(p)
    BY <1>0 DEF Threads
  <2>2. p # job[t].port => inflight[p] # t
    BY <1>0, <2>1, NothingIsNothing DEF EntryOK
  <2> QED BY <1>0, <1>3, <2>1, <2>2 DEF EntryOK
<1>7. Threads' /\ Phased' /\ \A r \in Requests : RequestOK(r)'
    BY <1>0, <1>5, <1>6 DEF AgentShape, Threads, Phased, RunsStops, RequestOK
<1> QED BY <1>1, <1>4, <1>7 DEF AgentShape

\* The reaper stops a port itself, or passes over one that is not claimed.
LEMMA StopsItselfShape ==
    ASSUME AgentShape, NEW p \in Ports, StopsItself(p), cur' = p, todo' \subseteq Ports,
           phase # "stopping", \A r \in Requests : request[r].at = "idle",
           UNCHANGED <<files, proc, logs, up, snap, seen,
                       inflight, job, request, listed>>
    PROVE  AgentShape'
<1>0. /\ Shape /\ Threads /\ Phased /\ Reaper \in Workers /\ pc[Reaper] = "idle"
    BY AgentAssumption DEF AgentShape, Phased
<1>1. CASE phase' = "reaping" /\ UNCHANGED <<pc, op>>
  <2>1. Shape'
    BY <1>0, <1>1, ShapeUnchanged DEF files, vars
  <2>2. AgentTypeOK'
    BY <2>1, <1>1 DEF AgentShape, AgentTypeOK, Shape, Phases
  <2>3. Threads' /\ Phased' /\ \A r \in Requests : RequestOK(r)'
    BY <1>0, <1>1 DEF AgentShape, Threads, Phased, RunsStops, ThreadOK, EntryOK, RequestOK
  <2> QED BY <2>1, <2>2, <2>3 DEF AgentShape
<1>2. CASE phase' = "stopping" /\ \E label \in {"find", "clear"} :
                                      Enter(Reaper, label, "stop", p, None)
  <2>1. PICK label \in {"find", "clear"} : Enter(Reaper, label, "stop", p, None)
    BY <1>2
  <2>2. /\ Shape' /\ pc'[Reaper] = label
        /\ op'[Reaper].verb = "stop" /\ op'[Reaper].port = p
        /\ \A v \in Workers \ {Reaper} : pc'[v] = pc[v] /\ op'[v] = op[v]
    BY <1>0, <2>1, StopBegins
  <2>3. AgentTypeOK'
    BY <2>2, <1>2 DEF AgentShape, AgentTypeOK, Shape, Phases
  <2>4. Threads'
    BY <1>0, <2>2, AgentAssumption
    DEF Threads, RunsStops, ThreadOK, EntryOK, StopLabels
  <2>5. Phased' /\ \A r \in Requests : RequestOK(r)'
    BY <1>0, <1>2, <2>2 DEF AgentShape, Phased, RequestOK
  <2> QED BY <2>2, <2>3, <2>4, <2>5 DEF AgentShape
<1> QED BY <1>1, <1>2 DEF StopsItself

\* The shutdown moves on without a stop.
LEMMA MovesOnShape ==
    ASSUME AgentShape, UNCHANGED vars, UNCHANGED <<inflight, job, request>>,
           phase' \in Phases, todo' \subseteq Ports, cur' \in Ports \cup {None},
           listed' \subseteq Ports \X Pids, phase' = "joining" => cur' \in Ports,
           phase' # "stopping", pc[Reaper] = "idle",
           phase' = "serving" \/ \A r \in Requests : request[r].at = "idle"
    PROVE  AgentShape'
<1>1. Shape'
    BY ShapeUnchanged DEF AgentShape
<1>2. AgentTypeOK'
    BY <1>1 DEF AgentShape, AgentTypeOK, Shape
<1>3. Threads' /\ Phased' /\ \A r \in Requests : RequestOK(r)'
    BY DEF AgentShape, Threads, Phased, RunsStops, ThreadOK, EntryOK, RequestOK, vars
<1> QED BY <1>1, <1>2, <1>3 DEF AgentShape

\* The process is gone and its threads with it.
LEMMA ExitShape ==
    ASSUME AgentShape, AgentExits
    PROVE  AgentShape'
<1>0. /\ Shape /\ Threads /\ Phased /\ TypeOK
      /\ phase = "reaping" /\ phase' = "gone" /\ up' = up \ {Agent}
      /\ pc' = [w \in Workers |-> IF w \in StopThreads THEN "idle" ELSE pc[w]]
      /\ op' = [w \in Workers |-> IF w \in StopThreads THEN NoFrame ELSE op[w]]
      /\ inflight' = [p \in Ports |-> None] /\ job' = [t \in StopThreads |-> None]
      /\ UNCHANGED <<lock, mark, store, proc, logs, snap, seen, request, todo, cur, listed>>
    BY DEF AgentShape, Shape, AgentExits, files, reaper
<1>1. TypeOK'
    BY <1>0, NoFrameOK DEF TypeOK, Labels
<1>2. ASSUME NEW w \in Workers PROVE FrameOK(w)' /\ PidOK(w)'
  <2>1. CASE w \in StopThreads
    <3>1. pc'[w] = "idle" /\ op'[w].verb = "none" /\ op'[w].stage = "new"
      BY <1>0, <2>1 DEF NoFrame
    <3> QED BY <3>1 DEF FrameOK, PidOK, LaunchLabels
  <2>2. CASE w \notin StopThreads
    <3>1. pc'[w] = pc[w] /\ op'[w] = op[w]
      BY <1>0, <2>2
    <3> QED BY <1>0, <3>1 DEF Shape, FramesOK, PidsOK, FrameOK, PidOK, Target
  <2> QED BY <2>1, <2>2
<1>3. Shape'
    BY <1>0, <1>1, <1>2 DEF Shape, FramesOK, PidsOK, ProcessesOK, ProcessOK
<1>4. AgentTypeOK'
    BY <1>0, <1>1 DEF AgentShape, AgentTypeOK, Phases
<1>5. Threads' /\ Phased' /\ \A r \in Requests : RequestOK(r)'
    BY <1>0, AgentAssumption
    DEF AgentShape, Threads, Phased, RunsStops, ThreadOK, EntryOK, RequestOK, StopLabels
<1> QED BY <1>3, <1>4, <1>5 DEF AgentShape

\* The registry and what the requests and the shutdown know are in shape.
LEMMA AgentShapeNext == AgentShape /\ [AgentNext]_agentVars => AgentShape'
<1> SUFFICES ASSUME AgentShape, [AgentNext]_agentVars PROVE AgentShape'
    OBVIOUS
<1>0. /\ Phased /\ Reaper \in Workers /\ phase \in Phases /\ todo \subseteq Ports
      /\ cur \in Ports \cup {None} /\ listed \subseteq Ports \X Pids /\ TypeOK
    BY AgentAssumption DEF AgentShape, AgentTypeOK
<1>1. CASE Next /\ UNCHANGED agent
    BY <1>1, NodeStepShape
<1>2. ASSUME NEW r \in Requests, RequestCall(r) \/ RequestStep(r) PROVE AgentShape'
    BY <1>2, RequestShape, LaunchesShape DEF RequestStep, RequestStops
<1>3. ASSUME NEW t \in StopThreads, ThreadEnds(t) PROVE AgentShape'
    BY <1>3, ThreadEndsShape
<1>4. CASE Shutdown
  <2>1. \A p \in Ports : ReadLock(p) # None => lock[p].pid \in Pids
    BY <1>0, ReadLockTyped DEF Claim
  <2>2. /\ UNCHANGED vars /\ UNCHANGED <<inflight, job, request>>
        /\ phase' = "reaping" /\ todo' \subseteq Ports /\ cur' = cur
        /\ listed' \subseteq Ports \X Pids /\ pc[Reaper] = "idle"
        /\ \A r \in Requests : request[r].at = "idle"
    BY <1>0, <1>4, <2>1 DEF Shutdown, Phased
  <2> QED BY <1>0, <2>2, MovesOnShape DEF Phases
<1>5. ASSUME NEW p \in Ports, ReaperStops(p) PROVE AgentShape'
    BY <1>0, <1>5, StopsItselfShape DEF ReaperStops, Phased
<1>6. ASSUME NEW p \in Ports, ReaperJoins(p) PROVE AgentShape'
    BY <1>0, <1>6, MovesOnShape DEF ReaperJoins, Phased, Phases
<1>7. CASE JoinReturns \/ ReaperStopped
    BY <1>0, <1>7, MovesOnShape DEF JoinReturns, ReaperStopped, reaper, Phased, Phases
<1>8. CASE JoinTimesOut
    BY <1>0, <1>8, StopsItselfShape DEF JoinTimesOut, reaper, Phased
<1>9. CASE UNCHANGED agentVars
    BY <1>0, <1>9, ShapeUnchanged
    DEF agentVars, agent, reaper, AgentShape, AgentTypeOK, Threads, Phased,
        RunsStops, ThreadOK, EntryOK, RequestOK, vars, Shape
<1> QED BY <1>1, <1>2, <1>3, <1>4, <1>5, <1>6, <1>7, <1>8, <1>9, ExitShape
        DEF AgentNext, AgentStep, ReaperStep

\* Patience restricts the calls and nothing else.
LEMMA PatienceRestricts == PatientNext => AgentNext
BY DEF PatientNext, AgentNext, Next, Call

\* The files, the workers, the registry, the requests and the shutdown are
\* well-formed, whoever calls what and whenever.
THEOREM AgentTypeCorrect == AgentSpec => []AgentTypeOK
<1>1. AgentShape => AgentTypeOK
    BY DEF AgentShape
<1> QED BY <1>1, InitAgentShape, AgentShapeNext, PTL DEF AgentSpec

\* At most one background termination runs on a port, and the registry knows
\* it, for any number of requests, threads and callers: the look at the
\* registry and the registration are one critical section.
THEOREM TerminationsAreRegistered == AgentSpec => []TerminationsRegistered
<1>1. AgentShape => TerminationsRegistered
    BY DEF AgentShape, Threads, ThreadOK, TerminationsRegistered
<1> QED BY <1>1, InitAgentShape, AgentShapeNext, PTL DEF AgentSpec

-----------------------------------------------------------------------------
(* Stops among stops.                                                       *)

\* The system refuses neither a file, nor a look at a process, nor a signal.
NothingRefused == Env \cap {"denied", "disk", "unreadable"} = {}

\* A worker that is no danger to a stop, nor to its claim.
StopsOrRests(v) == op[v].verb = "stop" \/ pc[v] \in {"idle", "write"}

\* No server has come up.
NoneNew == \A p \in Ports : ServersOn(p)' \subseteq ServersOn(p)

\* A stop removes claims and processes only as it may.
LEMMA StopIsGentle ==
    ASSUME Shape, NEW w \in Workers, StopStep(w), op[w].verb = "stop", StopAt(w)
    PROVE  Gentle(w)
<1>0. Step(w) /\ pc[w] # "claim" /\ FrameOK(w)
    BY DEF Step, StopAt, StopLabels, Shape, FramesOK
<1>1. mark' = mark /\ (proc' = proc \/ Kills(w))
    BY DEF StopStep, ClearAndReturn, Find, FindNothing, Terminate, TerminateMissed,
       TerminateDenied, Unclaim, files, Kills
<1>2. \A p \in Ports : lock'[p] = lock[p] \/ (lock'[p] = None /\ ServersOn(p) = {})
  <2>1. CASE ClearAndReturn(w) \/ Unclaim(w)
    BY <1>0, <2>1 DEF ClearAndReturn, Unclaim, RemoveLock, StopAt, Shape, TypeOK
  <2>2. CASE Find(w) \/ FindNothing(w) \/ Terminate(w) \/ TerminateMissed(w) \/ TerminateDenied(w)
    BY <2>2 DEF Find, FindNothing, Terminate, TerminateMissed, TerminateDenied, files
  <2> QED BY <2>1, <2>2 DEF StopStep
<1> QED BY <1>0, <1>1, <1>2, GentleStep

\* A gentle step brings no server up.
LEMMA GentleNoneNew ==
    ASSUME NEW w \in Workers, Gentle(w) PROVE NoneNew
BY DEF Gentle, NoSpawn, NoneNew, ServersOn

\* What a stop finds on its port after a step of its own.
LEMMA StopMoves ==
    ASSUME NothingRefused, Shape, World, NEW w \in Workers, StopStep(w),
           op[w].verb = "stop", StopAt(w), NEW p \in Ports, p = op[w].port
    PROVE  /\ VerbAt(w)' /\ op'[w].verb \in {"none", "stop"}
           /\ pc'[w] \in {"idle", "unclaim"} => ServersOn(p)' = {}
           /\ pc'[w] = "term" => op'[w].pid \in ServersOn(p)
<1>0. /\ pc \in [Workers -> Labels] /\ op \in [Workers -> Frame] /\ FrameOK(w)
      /\ proc \in [Pids -> Process \cup {None}] /\ pc[w] # "idle"
    BY DEF Shape, TypeOK, FramesOK, StopAt
<1>2. ASSUME Return(w), UNCHANGED proc, ServersOn(p) = {}
      PROVE  /\ VerbAt(w)' /\ op'[w].verb = "none" /\ pc'[w] = "idle"
             /\ ServersOn(p)' = {}
  <2>1. op'[w].verb = "none" /\ pc'[w] = "idle"
    BY <1>0, <1>2 DEF Return, Goto, NoFrame
  <2>2. ServersOn(p)' = {}
    BY <1>2, <2>1 DEF ServersOn
  <2> QED BY <2>1, <2>2, IdlePoint DEF VerbAt
<1>3. CASE Find(w)
  <2>1. PICK q \in ServersOn(p) : op' = [op EXCEPT ![w].pid = q]
    BY <1>3 DEF Find
  <2>2. /\ pc'[w] = "term" /\ op'[w].pid = q /\ op'[w].verb = "stop"
        /\ op'[w].port = p /\ proc' = proc
    BY <1>0, <1>3, <2>1 DEF Find, Goto, Frame
  <2>3. ServersOn(p) \subseteq {q} /\ ServersOn(p)' = ServersOn(p)
    BY <2>2 DEF World, OneEach, ServersOn
  <2> QED BY <2>2, <2>3 DEF VerbAt, StopAt, StopLabels
<1>4. CASE Terminate(w)
  <2>1. /\ pc[w] = "term" /\ pc'[w] = "unclaim" /\ op' = op
        /\ proc' = [proc EXCEPT ![op[w].pid] = None]
    BY <1>0, <1>4 DEF Terminate, Goto
  <2>2. ServersOn(p)' = {}
    BY <1>0, <2>1 DEF StopAt, ServersOn
  <2> QED BY <2>1, <2>2 DEF VerbAt, StopAt, StopLabels
<1>5. CASE ClearAndReturn(w) \/ Unclaim(w)
    BY <1>2, <1>5 DEF ClearAndReturn, Unclaim, StopAt
<1>6. CASE FindNothing(w)
    BY <1>2, <1>6 DEF FindNothing, StopFailed, NothingRefused
<1>7. CASE TerminateMissed(w) \/ TerminateDenied(w)
  <2>1. ServersOn(p) = {}
    BY <1>7 DEF TerminateMissed, TerminateDenied, NothingRefused, StopAt, ServersOn,
       PidAlive
  <2> QED BY <1>2, <1>7, <2>1 DEF TerminateMissed, TerminateDenied, StopFailed
<1> QED BY <1>3, <1>4, <1>5, <1>6, <1>7 DEF StopStep

\* What others rely on stays while no server comes up.
LEMMA VerbStays ==
    ASSUME Shape, NEW v \in Workers, VerbAt(v), StopsOrRests(v), NoneNew,
           pc'[v] = pc[v], op'[v] = op[v]
    PROVE  VerbAt(v)'
<1>1. CASE op[v].verb = "stop"
  <2>1. op[v].port \in Ports
    BY <1>1 DEF VerbAt, StopAt, StopLabels, Shape, FramesOK, FrameOK
  <2> QED BY <1>1, <2>1 DEF VerbAt, StopAt, NoneNew
<1>2. CASE op[v].verb # "stop"
    BY <1>2, IdlePoint DEF VerbAt, StopsOrRests
<1> QED BY <1>1, <1>2

\* What a request relies on stays while no server comes up ...
LEMMA RequestStays ==
    ASSUME NEW r \in Requests, RequestOK(r), RequestAt(r), NoneNew,
           request'[r] = request[r]
    PROVE  RequestAt(r)'
BY DEF RequestOK, RequestAt, NoneNew

\* ... and what a thread relies on while it rests.
LEMMA ThreadStays ==
    ASSUME AgentShape, NEW t \in StopThreads, ThreadAt(t), NoneNew,
           pc'[t] = pc[t], op'[t] = op[t], job'[t] \in {job[t], None}
    PROVE  ThreadAt(t)'
<1>1. job[t] # None => job[t].port \in Ports
    BY DEF AgentShape, AgentTypeOK, Job
<1> QED BY <1>1 DEF ThreadAt, NoneNew

\* A claimed port has its servers claimed when nobody launches one.
LEMMA NobodyLaunches ==
    ASSUME World, up = Launchers, \A v \in Workers : StopsOrRests(v) /\ VerbAt(v),
           NEW p \in Ports
    PROVE  Covered(p)
<1>1. ~Stuck(p)
    BY DEF Stuck
<1>2. ~Unclaimed(p)
    BY DEF Unclaimed, StopsOrRests, VerbAt, StopAt, StopLabels
<1> QED BY <1>1, <1>2 DEF World, AllAccounted

\* While a stop of the agent is under way nobody does anything else.
LEMMA BusyStops ==
    ASSUME AgentShape, Meeting, Busy, NEW w \in Workers
    PROVE  StopsOrRests(w) /\ (pc[w] # "idle" => op[w].verb = "stop") /\ RunsStops(w)
<1>1. CASE w \in Others
    BY <1>1 DEF Meeting, NoneStarts, VerbAt, StopsOrRests, StopAt, StopLabels, RunsStops
<1>2. CASE w \in StopThreads \cup {Reaper}
    BY <1>2 DEF AgentShape, Threads, RunsStops, StopsOrRests
<1> QED BY <1>1, <1>2 DEF Others

\* Nobody but o is asked for anything but cancels, and o is not the agent's.
Bystanders(o) == \A v \in Others \ {o} : pc[v] \in {"idle", "write"}

\* Servers come up and go down on their own.
LEMMA MeetingEnvironment ==
    ASSUME AgentShape, Meeting, Environment \/ UNCHANGED vars, UNCHANGED agent
    PROVE  Meeting'
<1>0. /\ Shape /\ World /\ UNCHANGED <<lock, mark, up, pc, op, snap>> /\ NoneNew
      /\ UNCHANGED <<job, request>>
    BY EnvironmentQuiet, EnvironmentServers DEF AgentShape, Meeting, NoneNew, agent
<1>1. World'
    BY <1>0, WorldEnvironment
<1>2. ASSUME NEW w \in Workers PROVE VerbAt(w)'
  <2>1. CASE op[w].verb = "stop"
    BY <1>0, <2>1, VerbStays DEF Meeting, StopsOrRests
  <2>2. CASE op[w].verb # "stop"
    BY <1>0, <2>2, PointKept DEF Meeting, VerbAt, NoneNew
  <2> QED BY <2>1, <2>2
<1>3. /\ \A r \in Requests : RequestAt(r)'
      /\ \A t \in StopThreads : ThreadAt(t)'
    BY <1>0, RequestStays, ThreadStays DEF AgentShape, Meeting
<1> QED BY <1>0, <1>1, <1>2, <1>3 DEF Meeting, Busy, NoneStarts

\* A worker takes its stop one step on.
LEMMA MeetingStop ==
    ASSUME NothingRefused, AgentShape, Meeting, NEW w \in Workers, StopStep(w),
           op[w].verb = "stop", \A v \in Workers : StopsOrRests(v), UNCHANGED agent
    PROVE  Meeting'
<1>0. /\ Shape /\ World /\ VerbAt(w) /\ StopAt(w) /\ FrameOK(w) /\ Step(w)
      /\ UNCHANGED <<job, request>>
    BY DEF AgentShape, Meeting, VerbAt, Shape, FramesOK, Step, agent
<1>1. Gentle(w) /\ NoneNew /\ up' = up
    BY <1>0, StopIsGentle, GentleNoneNew DEF Gentle
<1>2. PICK p \in Ports : p = op[w].port
    BY <1>0 DEF StopAt, StopLabels, FrameOK
<1>3. /\ VerbAt(w)' /\ op'[w].verb \in {"none", "stop"}
      /\ pc'[w] \in {"idle", "unclaim"} => ServersOn(p)' = {}
      /\ pc'[w] = "term" => op'[w].pid \in ServersOn(p)
    BY <1>0, <1>2, StopMoves
<1>4. \A v \in Workers \ {w} : pc'[v] = pc[v] /\ op'[v] = op[v]
    BY <1>1 DEF Gentle, Alone
<1>5. \A v \in Workers : VerbAt(v)'
    BY <1>0, <1>1, <1>3, <1>4, VerbStays DEF Meeting
<1>6. ASSUME NEW t \in StopThreads PROVE ThreadAt(t)'
  <2>1. ThreadAt(t) /\ t \in Workers
    BY AgentAssumption DEF Meeting
  <2>2. CASE t # w
    BY <1>0, <1>1, <1>4, <2>1, <2>2, ThreadStays
  <2>3. CASE t = w
    <3>1. job[t] # None /\ job[t].port = p /\ job' = job
      BY <1>0, <1>2, <2>3 DEF AgentShape, Threads, ThreadOK, StopAt
    <3> QED BY <1>1, <1>3, <2>1, <2>3, <3>1 DEF ThreadAt, NoneNew
  <2> QED BY <2>2, <2>3
<1>7. \A r \in Requests : RequestAt(r)'
    BY <1>0, <1>1, RequestStays DEF AgentShape, Meeting
<1>8. Busy' => NoneStarts'
    BY <1>0, <1>3, <1>4 DEF Meeting, Busy, NoneStarts, Others
<1>9. World'
    BY <1>0, <1>1, GentleWorld
<1> QED BY <1>1, <1>5, <1>6, <1>7, <1>8, <1>9 DEF Meeting

\* A worker begins a stop, which finds a port whose servers are claimed.
LEMMA StopBeginsAt ==
    ASSUME AgentShape, Meeting, NEW w \in Workers, NEW p \in Ports, pc[w] = "idle",
           NEW label \in {"find", "clear"}, Enter(w, label, "stop", p, None),
           label = "clear" => ReadLock(p) # None /\ ~PidAlive(lock[p].pid),
           UNCHANGED <<files, proc, logs, up, snap, seen>>,
           \A v \in Workers : StopsOrRests(v)
    PROVE  /\ World' /\ (\A v \in Workers : VerbAt(v)') /\ NoneNew /\ up' = up
           /\ pc'[w] = label /\ op'[w].verb = "stop" /\ op'[w].port = p
           /\ \A v \in Workers \ {w} : pc'[v] = pc[v] /\ op'[v] = op[v]
<1>0. /\ Shape /\ World
      /\ pc'[w] = label /\ op'[w].verb = "stop" /\ op'[w].port = p
      /\ \A v \in Workers \ {w} : pc'[v] = pc[v] /\ op'[v] = op[v]
      /\ UNCHANGED <<lock, mark, proc, up, seen>>
    BY StopBegins DEF AgentShape, Meeting, files
<1>1. NoneNew /\ Gentle(w)
    BY <1>0 DEF NoneNew, ServersOn, Gentle, Alone, NoSpawn
<1>2. Covered(p)
    BY NobodyLaunches DEF Meeting
<1>3. VerbAt(w)'
  <2>1. label = "clear" => ServersOn(p)' = {}
    BY <1>0, <1>2, DeadClaimEmpty DEF ServersOn
  <2> QED BY <1>0, <2>1 DEF VerbAt, StopAt, StopLabels
<1> QED BY <1>0, <1>1, <1>3, GentleWorld, VerbStays DEF Meeting

\* Somebody asks for a stop.
LEMMA MeetingStopCall ==
    ASSUME AgentShape, Meeting, NEW w \in Others, StopCall(w),
           \A v \in Workers : StopsOrRests(v), UNCHANGED agent
    PROVE  Meeting'
<1>1. PICK p \in Ports : StopEnter(w, p)
    BY DEF StopCall
<1>2. PICK label \in {"find", "clear"} :
         /\ Enter(w, label, "stop", p, None)
         /\ label = "clear" => ReadLock(p) # None /\ ~PidAlive(lock[p].pid)
         /\ UNCHANGED <<files, proc, logs, up, snap, seen>> /\ pc[w] = "idle"
    BY <1>1 DEF StopEnter, Idle, ReadLock
<1>3. /\ World' /\ (\A v \in Workers : VerbAt(v)') /\ NoneNew /\ up' = up
      /\ op'[w].verb = "stop" /\ w \in Workers
      /\ \A v \in Workers \ {w} : pc'[v] = pc[v] /\ op'[v] = op[v]
    BY <1>2, StopBeginsAt DEF Others
<1>4. /\ \A r \in Requests : RequestAt(r)'
      /\ \A t \in StopThreads : ThreadAt(t)'
    BY <1>3, RequestStays, ThreadStays, AgentAssumption DEF AgentShape, Meeting, agent, Others
<1> QED BY <1>3, <1>4 DEF Meeting, Busy, NoneStarts, agent, Others

\* With nobody's stop accepted there is nothing for it to rely on.
LEMMA NothingAccepted ==
    ASSUME ~Busy, UNCHANGED agent
    PROVE  /\ ~Busy' /\ (\A r \in Requests : RequestAt(r)')
           /\ \A t \in StopThreads : ThreadAt(t)'
BY DEF Busy, RequestAt, ThreadAt, agent

\* A call of another verb than stop is not one of stop.
LEMMA OtherCall ==
    ASSUME Shape, NEW w \in Workers, Call(w), ~StopCall(w), op[w].verb # "stop"
    PROVE  op'[w].verb # "stop" /\ pc[w] = "idle" /\ (op'[w].verb = "none" => pc'[w] = "idle")
<1>0. op \in [Workers -> Frame]
    BY DEF Shape, TypeOK
<1>1. ASSUME NEW label, NEW verb \in Verbs \ {"stop"}, NEW p, NEW m,
             Enter(w, label, verb, p, m)
      PROVE  op'[w].verb \notin {"stop", "none"}
    BY <1>0, <1>1 DEF Enter, NoFrame, Verbs
<1>2. CASE StartCall(w)
    BY <1>1, <1>2 DEF StartCall, StartEnter, Idle, Verbs
<1>3. ASSUME NEW p \in Ports, NEW m \in Models, SwapEnter(w, p, m)
      PROVE  op'[w].verb \notin {"stop", "none"} /\ pc[w] = "idle"
    BY <1>0, <1>1, <1>3 DEF SwapEnter, Idle, NoFrame, Verbs
<1>4. ASSUME NEW m \in Models, DeleteEnter(w, m)
      PROVE  op'[w].verb \notin {"stop", "none"}
    BY <1>1, <1>4 DEF DeleteEnter, Verbs
<1>5. ASSUME SweepEnter(w) PROVE op'[w].verb \notin {"stop", "none"}
    BY <1>1, <1>5 DEF SweepEnter, Verbs
<1>6. ASSUME NEW p \in Ports, CancelEnter(w, p)
      PROVE  op'[w].verb \notin {"stop", "none"}
    BY <1>1, <1>6 DEF CancelEnter, Verbs
<1>7. ASSUME NEW m \in Models, Add(w, m) PROVE op' = op /\ pc' = pc
    BY <1>7 DEF Add, local
<1>8. pc[w] = "idle"
    BY CallFrame
<1> QED BY <1>2, <1>3, <1>4, <1>5, <1>6, <1>7, <1>8 DEF Call, SwapCall, UpkeepCall

\* The operator works alone: no stop of the agent is under way.
LEMMA MeetingOperator ==
    ASSUME AgentShape, Meeting, ~Busy, NEW o \in Workers, Undisturbed(o),
           op[o].verb # "stop", Step(o) \/ (Call(o) /\ ~StopCall(o)),
           NothingRefused, UNCHANGED agent
    PROVE  Meeting'
<1>0. /\ Shape /\ World /\ VerbAt(o) /\ Point(o)
      /\ op \in [Workers -> Frame]
    BY DEF AgentShape, Meeting, VerbAt, Shape, TypeOK
<1>1. Serial
    BY <1>0 DEF Serial, Undisturbed, Point, PortAt, ReportAt, ListingAt, InFlight
<1>2. Serial' /\ Alone(o) /\ up' = up
    BY <1>0, <1>1, StepSerial, StepAlone, NobodyDies DEF NothingRefused
<1>3. op'[o].verb # "stop" /\ (op'[o].verb = "none" => pc'[o] = "idle")
  <2>1. CASE Call(o) /\ ~StopCall(o)
    BY <1>0, <2>1, OtherCall
  <2>2. CASE Step(o)
    BY <1>0, <2>2, StepFrame DEF Within, NoFrame, VerbAt
  <2> QED BY <2>1, <2>2
<1>4. ASSUME NEW v \in Workers PROVE VerbAt(v)'
  <2>1. CASE v = o
    BY <1>2, <1>3, <2>1 DEF VerbAt, Serial
  <2>2. CASE v # o
    <3>1. pc'[v] = pc[v] /\ op'[v] = op[v] /\ pc[v] \in {"idle", "write"} /\ VerbAt(v)
      BY <1>2, <2>2 DEF Alone, Undisturbed, Meeting
    <3>2. op[v].verb # "stop"
      BY <3>1 DEF VerbAt, StopAt, StopLabels
    <3> QED BY <3>1, <3>2, IdlePoint DEF VerbAt
  <2> QED BY <2>1, <2>2
<1> QED BY <1>2, <1>4, NothingAccepted DEF Meeting, Serial

\* A cancel, while no stop of the agent is under way.
LEMMA MeetingCancel ==
    ASSUME AgentShape, Meeting, ~Busy, NEW w \in Workers, UNCHANGED agent,
           CancelWrite(w) \/ \E p \in Ports : CancelEnter(w, p)
    PROVE  Meeting'
<1>0. /\ Shape /\ World /\ op \in [Workers -> Frame]
      /\ Gentle(w) /\ UNCHANGED <<lock, proc, snap>> /\ pc'[w] \in {"idle", "write"}
      /\ \A p \in Ports : mark[p] # None => mark'[p] # None
    BY CancelGentle DEF AgentShape, Meeting, Shape, TypeOK
<1>1. World' /\ NoneNew /\ up' = up
    BY <1>0, GentleWorld, GentleNoneNew DEF Gentle
<1>2. VerbAt(w)'
  <2>0. pc \in [Workers -> Labels]
    BY <1>0 DEF Shape, TypeOK
  <2>1. CASE CancelWrite(w)
    BY <1>0, <2>0, <2>1, IdlePoint DEF CancelWrite, Return, Goto, NoFrame, VerbAt
  <2>2. ASSUME NEW p \in Ports, CancelEnter(w, p) PROVE op'[w].verb = "cancel"
    BY <1>0, <2>2 DEF CancelEnter, Enter, NoFrame
  <2> QED BY <1>0, <2>1, <2>2, IdlePoint DEF VerbAt
<1>3. ASSUME NEW v \in Workers \ {w} PROVE VerbAt(v)'
  <2>1. pc'[v] = pc[v] /\ op'[v] = op[v] /\ snap'[v] = snap[v] /\ VerbAt(v)
    BY <1>0 DEF Gentle, Alone, Meeting
  <2>2. CASE op[v].verb = "stop"
    BY <1>0, <1>1, <2>1, <2>2, VerbStays DEF StopsOrRests
  <2>3. CASE op[v].verb # "stop"
    BY <1>0, <1>1, <2>1, <2>3, PointKept DEF VerbAt, NoneNew
  <2> QED BY <2>2, <2>3
<1> QED BY <1>1, <1>2, <1>3, NothingAccepted DEF Meeting

\* The node's part of a patient step.
PatientCall(w) == (NoneStarts /\ StopCall(w)) \/ (StopsOver /\ Call(w))

\* Who may only cancel is idle or about to write one.
LEMMA BystandersStay ==
    ASSUME NEW o \in Others, OneOperator(o), AgentShape, Bystanders(o), Next
    PROVE  Bystanders(o)'
<1>0. Shape
    BY DEF AgentShape
<1> SUFFICES ASSUME NEW v \in Others \ {o} PROVE pc'[v] \in {"idle", "write"}
    BY DEF Bystanders, Others
<1>a. /\ v \in Workers /\ Duties[v] \subseteq {"cancel"} /\ pc[v] \in {"idle", "write"}
    BY DEF Others, OneOperator, Bystanders
<1>1. CASE Call(v) \/ Step(v)
    BY <1>0, <1>1, <1>a, BystanderStep
<1>2. ASSUME NEW w \in Workers \ {v}, Call(w) \/ Step(w)
      PROVE  pc'[v] \in {"idle", "write"}
    BY <1>0, <1>2, <1>a, StepAlone DEF Alone
<1>3. CASE Environment
    BY <1>3, <1>a, EnvironmentQuiet
<1> QED BY <1>1, <1>2, <1>3, <1>a DEF Next

\* Every step of the node keeps the stops out of each other's way.
LEMMA MeetingNode ==
    ASSUME NEW o \in Others, OneOperator(o), NothingRefused,
           AgentShape, Bystanders(o), Meeting, phase = "serving" \/ Busy,
           UNCHANGED agent,
           Environment \/ \E w \in Workers : Step(w) \/ PatientCall(w)
    PROVE  Meeting'
<1>0. Shape /\ o \in Workers
    BY DEF AgentShape, Others
<1>1. CASE Environment
    BY <1>1, MeetingEnvironment
<1>2. ASSUME NEW w \in Workers, Step(w) \/ PatientCall(w), Busy PROVE Meeting'
  <2>1. \A v \in Workers : StopsOrRests(v)
    BY <1>2, BusyStops
  <2>2. CASE Step(w)
    <3>1. StopStep(w) /\ op[w].verb = "stop"
      BY <1>2, <2>2, BusyStops, OnlyStops
    <3> QED BY <2>1, <3>1, MeetingStop
  <2>3. CASE StopCall(w) /\ ~Step(w)
    <3>1. w \in Others
      BY <2>3, AgentWorkers DEF Call, Others
    <3> QED BY <2>1, <2>3, <3>1, MeetingStopCall
  <2>4. ~StopsOver
    BY <1>2 DEF StopsOver, Busy
  <2> QED BY <1>2, <2>2, <2>3, <2>4 DEF PatientCall
<1>3. ASSUME NEW w \in Workers, Step(w) \/ Call(w), ~Busy PROVE Meeting'
  <2>1. \A v \in Workers \ {o} : pc[v] \in {"idle", "write"}
    <3>1. ASSUME NEW t \in StopThreads PROVE pc[t] = "idle"
      BY <1>3 DEF Busy, AgentShape, Threads, ThreadOK
    <3>2. pc[Reaper] = "idle"
      BY <1>3 DEF Busy, AgentShape, Phased
    <3> QED BY <3>1, <3>2 DEF Others, Bystanders
  <2>2. Undisturbed(o)
    BY <2>1 DEF Undisturbed
  <2>3. CASE w # o
    <3>2. CancelWrite(w) \/ \E p \in Ports : CancelEnter(w, p)
      BY <1>0, <1>3, <2>1, <2>3, BystanderStep DEF OneOperator
    <3> QED BY <1>3, <3>2, MeetingCancel
  <2>4. CASE w = o /\ op[o].verb = "stop"
    <3>1. StopAt(o) /\ RunsStops(o) /\ pc[o] # "idle"
      BY <1>0, <2>4 DEF Meeting, VerbAt, StopAt, RunsStops
    <3>2. StopStep(o)
      BY <1>0, <1>3, <2>4, <3>1, CallFrame, OnlyStops
    <3>3. \A v \in Workers : StopsOrRests(v)
      BY <2>1, <2>4 DEF StopsOrRests
    <3> QED BY <1>0, <2>4, <3>2, <3>3, MeetingStop
  <2>5. CASE w = o /\ op[o].verb # "stop" /\ StopCall(o)
    <3>1. pc[o] = "idle"
      BY <1>0, <2>5, CallFrame DEF Call
    <3>2. \A v \in Workers : StopsOrRests(v)
      BY <2>1, <3>1 DEF StopsOrRests
    <3> QED BY <2>5, <3>2, MeetingStopCall
  <2>6. CASE w = o /\ op[o].verb # "stop" /\ ~StopCall(o)
    BY <1>0, <1>3, <2>2, <2>6, MeetingOperator
  <2> QED BY <2>3, <2>4, <2>5, <2>6
<1> QED BY <1>1, <1>2, <1>3 DEF PatientCall, Call

\* The node is as it was; the agent has noted something.
LEMMA MeetingNoted ==
    ASSUME AgentShape, Meeting, UNCHANGED vars, Busy' => NoneStarts,
           \A r \in Requests : RequestAt(r)', \A t \in StopThreads : ThreadAt(t)'
    PROVE  Meeting'
<1>0. /\ Shape /\ NoneNew /\ UNCHANGED <<lock, mark, up, pc, op, snap>>
    BY DEF AgentShape, vars, NoneNew, ServersOn
<1>1. World'
    BY <1>0, WorldEnvironment DEF Meeting
<1>2. ASSUME NEW w \in Workers PROVE VerbAt(w)'
  <2>1. CASE op[w].verb = "stop"
    BY <1>0, <2>1, VerbStays DEF Meeting, StopsOrRests
  <2>2. CASE op[w].verb # "stop"
    BY <1>0, <2>2, PointKept DEF Meeting, VerbAt, NoneNew
  <2> QED BY <2>1, <2>2
<1> QED BY <1>0, <1>1, <1>2 DEF Meeting, NoneStarts

\* Who asks for a stop reads the claim of the server it is for.
LEMMA MeetingRequest ==
    ASSUME AgentShape, Meeting, NEW r \in Requests, NEW p \in Ports,
           NoneStarts, RequestEnter(r, p)
    PROVE  Meeting'
<1>0. /\ UNCHANGED vars /\ UNCHANGED <<job, phase>> /\ ReadLock(p) # None
      /\ request \in [Requests -> Request]
      /\ request' = [request EXCEPT ![r] =
            [at |-> IF PidAlive(lock[p].pid) THEN "check" ELSE "clear",
             port |-> p, pid |-> lock[p].pid]]
    BY DEF RequestEnter, AgentShape, AgentTypeOK
<1>1. ASSUME NEW v \in Workers PROVE StopsOrRests(v)
  <2>1. CASE v \in Others
    BY <2>1 DEF NoneStarts, Meeting, VerbAt, StopsOrRests
  <2>2. CASE v \in StopThreads \cup {Reaper}
    BY <2>2 DEF AgentShape, Threads, RunsStops, StopsOrRests
  <2> QED BY <2>1, <2>2 DEF Others
<1>2. Covered(p)
    BY <1>1, NobodyLaunches DEF Meeting
<1>3. /\ ServersOn(p) \subseteq {lock[p].pid}
      /\ ~PidAlive(lock[p].pid) => ServersOn(p) = {}
    BY <1>2, DeadClaimEmpty DEF Covered, ClaimOf
<1>4. NoneNew /\ ServersOn(p)' = ServersOn(p)
    BY <1>0 DEF NoneNew, ServersOn, vars
<1>5. ASSUME NEW s \in Requests PROVE RequestAt(s)'
  <2>1. CASE s = r
    BY <1>0, <1>3, <1>4, <2>1 DEF RequestAt
  <2>2. CASE s # r
    BY <1>0, <1>4, <2>2, RequestStays DEF AgentShape, Meeting
  <2> QED BY <2>1, <2>2
<1>6. \A t \in StopThreads : ThreadAt(t)'
    BY <1>0, <1>4, ThreadStays, AgentAssumption DEF AgentShape, Meeting, vars
<1> QED BY <1>0, <1>5, <1>6, MeetingNoted

\* A request removes the claim of a server that is gone.
LEMMA MeetingClear ==
    ASSUME AgentShape, Meeting, NEW r \in Requests, RequestClear(r)
    PROVE  Meeting'
<1>0. /\ Shape /\ World /\ Reaper \in Workers
      /\ request[r].at = "clear" /\ request[r].port \in Ports /\ Busy
      /\ ServersOn(request[r].port) = {}
      /\ lock' = [lock EXCEPT ![request[r].port] = None]
      /\ request \in [Requests -> Request] /\ lock \in [Ports -> Claim \cup {None, Torn}]
      /\ request' = [request EXCEPT ![r] = NoRequest]
      /\ UNCHANGED <<mark, proc, up, pc, op, seen, job>>
    BY AgentAssumption
    DEF RequestClear, RemoveLock, AgentShape, AgentTypeOK, Meeting, RequestOK, RequestAt,
        Busy, local, Shape, TypeOK
<1>1. ASSUME NEW v \in Workers PROVE StopsOrRests(v) /\ pc[v] # "claim"
    BY <1>0, BusyStops DEF RunsStops, StopLabels
<1>2. NoneNew /\ Gentle(Reaper)
    BY <1>0, <1>1 DEF NoneNew, ServersOn, Gentle, Alone, NoSpawn
<1>3. World'
    BY <1>0, <1>2, GentleWorld
<1>4. \A v \in Workers : VerbAt(v)'
    BY <1>0, <1>1, <1>2, VerbStays DEF Meeting
<1>5. ASSUME NEW s \in Requests PROVE RequestAt(s)'
  <2>1. CASE s = r
    BY <1>0, <2>1 DEF RequestAt, NoRequest
  <2>2. CASE s # r
    BY <1>0, <1>2, <2>2, RequestStays DEF AgentShape, Meeting
  <2> QED BY <2>1, <2>2
<1>6. \A t \in StopThreads : ThreadAt(t)'
    BY <1>0, <1>2, ThreadStays, AgentAssumption DEF AgentShape, Meeting
<1> QED BY <1>0, <1>3, <1>4, <1>5, <1>6 DEF Meeting, Busy, NoneStarts

\* A request is answered, its thread started.
LEMMA MeetingLaunches ==
    ASSUME AgentShape, Meeting, NEW r \in Requests, NEW t \in StopThreads, Launches(r, t)
    PROVE  Meeting'
<1> DEFINE p == request[r].port
<1>0. /\ request[r].at = "check" /\ p \in Ports /\ Busy /\ job[t] = None
      /\ ServersOn(p) \subseteq {request[r].pid} /\ t \in Workers /\ t \notin Others
      /\ Enter(t, "find", "stop", p, None) /\ pc[t] = "idle"
      /\ job \in [StopThreads -> Job \cup {None}]
      /\ job' = [job EXCEPT ![t] = [port |-> p, pid |-> request[r].pid]]
      /\ request \in [Requests -> Request]
      /\ request' = [request EXCEPT ![r].at = "answered"]
      /\ UNCHANGED <<files, proc, logs, up, snap, seen>>
    BY AgentAssumption
    DEF Launches, Answer, AgentShape, AgentTypeOK, Meeting, RequestOK, RequestAt, Busy,
        Threads, ThreadOK, Others
<1>1. \A v \in Workers : StopsOrRests(v)
    BY <1>0, BusyStops
<1>2. /\ World' /\ (\A v \in Workers : VerbAt(v)') /\ NoneNew /\ up' = up
      /\ pc'[t] = "find" /\ op'[t].verb = "stop" /\ op'[t].port = p
      /\ \A v \in Workers \ {t} : pc'[v] = pc[v] /\ op'[v] = op[v]
    BY <1>0, <1>1, StopBeginsAt
<1>3. ASSUME NEW s \in Requests PROVE RequestAt(s)'
  <2>1. CASE s = r
    BY <1>0, <2>1 DEF RequestAt, Request
  <2>2. CASE s # r
    BY <1>0, <1>2, <2>2, RequestStays DEF AgentShape, Meeting
  <2> QED BY <2>1, <2>2
<1>4. ASSUME NEW s \in StopThreads PROVE ThreadAt(s)'
  <2>1. CASE s = t
    <3>1. ServersOn(p) \cap ServersOn(p) \subseteq {request[r].pid}
      BY <1>0
    <3>2. job'[t] = [port |-> p, pid |-> request[r].pid]
      BY <1>0
    <3>3. job'[t].port = p /\ job'[t].pid = request[r].pid
      BY <3>2
    <3>4. ServersOn(job[t].port)' \subseteq {job'[t].pid}
      BY <1>0, <1>2, <3>3 DEF NoneNew, ServersOn
    <3> QED BY <1>2, <2>1, <3>4 DEF ThreadAt
  <2>2. CASE s # t
    <3>1. s \in Workers \ {t}
      BY <2>2, AgentAssumption
    <3> QED BY <1>0, <1>2, <2>2, <3>1, ThreadStays DEF Meeting
  <2> QED BY <2>1, <2>2
<1>5. NoneStarts'
    BY <1>0, <1>2 DEF Meeting, NoneStarts, Others
<1> QED BY <1>2, <1>3, <1>4, <1>5 DEF Meeting

\* The reaper's own stop, among the stops the agent has accepted.
LEMMA MeetingReaper ==
    ASSUME AgentShape, Meeting, Busy, NEW p \in Ports, StopsItself(p),
           phase # "stopping", UNCHANGED <<files, proc, logs, up, snap, seen, job, request>>
    PROVE  Meeting'
<1>0. Reaper \in Workers /\ Reaper \notin Others /\ pc[Reaper] = "idle" /\ NoneStarts
    BY AgentAssumption DEF AgentShape, Phased, Others, Meeting
<1>1. CASE UNCHANGED <<pc, op>>
  <2>1. UNCHANGED vars /\ NoneNew
    BY <1>1 DEF files, vars, NoneNew, ServersOn
  <2>2. /\ \A r \in Requests : RequestAt(r)'
        /\ \A t \in StopThreads : ThreadAt(t)'
    BY <1>1, <2>1, RequestStays, ThreadStays DEF AgentShape, Meeting
  <2> QED BY <1>0, <2>1, <2>2, MeetingNoted
<1>2. ASSUME NEW label \in {"find", "clear"}, Enter(Reaper, label, "stop", p, None),
             label = "clear" => ReadLock(p) # None /\ ~PidAlive(lock[p].pid)
      PROVE  Meeting'
  <2>1. \A v \in Workers : StopsOrRests(v)
    BY BusyStops
  <2>2. /\ World' /\ (\A v \in Workers : VerbAt(v)') /\ NoneNew /\ up' = up
        /\ \A v \in Workers \ {Reaper} : pc'[v] = pc[v] /\ op'[v] = op[v]
    BY <1>0, <1>2, <2>1, StopBeginsAt
  <2>3. /\ \A r \in Requests : RequestAt(r)'
        /\ \A t \in StopThreads : ThreadAt(t)'
    BY <2>2, RequestStays, ThreadStays, AgentAssumption DEF AgentShape, Meeting
  <2>4. NoneStarts'
    BY <1>0, <2>2 DEF NoneStarts, Others
  <2> QED BY <2>2, <2>3, <2>4 DEF Meeting
<1> QED BY <1>1, <1>2 DEF StopsItself

-----------------------------------------------------------------------------
\* The agent starts with nothing running and nothing asked.
LEMMA InitMeeting ==
    ASSUME NEW o, AgentInit PROVE AgentSafe /\ Bystanders(o)
<1>1. Serial /\ \A w \in Workers : pc[w] = "idle" /\ op[w].verb = "none"
    BY InitSerial DEF AgentInit, Init, NoFrame
<1>2. /\ \A w \in Workers : VerbAt(w)
      /\ \A r \in Requests : RequestAt(r)
      /\ \A t \in StopThreads : ThreadAt(t)
      /\ ~Busy /\ up = Launchers
    BY <1>1
    DEF AgentInit, Init, Serial, VerbAt, RequestAt, ThreadAt, Busy, NoRequest
<1> QED BY <1>1, <1>2, InitAgentShape
        DEF AgentSafe, Meeting, Serial, Bystanders, Others

\* The agent moves its own workers only.
LEMMA AgentBystanders ==
    ASSUME AgentShape, NEW o, Bystanders(o), AgentStep \/ UNCHANGED agentVars
    PROVE  Bystanders(o)'
<1>0. pc \in [Workers -> Labels]
    BY DEF AgentShape, AgentTypeOK, TypeOK
<1>1. ASSUME NEW v \in Others PROVE pc'[v] = pc[v]
  <2>1. ASSUME NEW w \in StopThreads \cup {Reaper}, NEW label, Goto(w, label)
        PROVE  pc'[v] = pc[v]
    BY <1>0, <2>1 DEF Goto, Others
  <2>2. ASSUME NEW r \in Requests, RequestStep(r) PROVE pc'[v] = pc[v]
    BY <2>1, <2>2 DEF RequestStep, RequestClear, RequestJoins, RequestStops,
       RequestReturns, Launches, Enter, vars, local
  <2>3. ASSUME NEW p, StopsItself(p) PROVE pc'[v] = pc[v]
    BY <2>1, <2>3 DEF StopsItself, Enter
  <2>4. CASE ReaperStep
    BY <1>0, <2>3, <2>4 DEF ReaperStep, ReaperStops, ReaperJoins, JoinReturns,
       JoinTimesOut, ReaperStopped, AgentExits, vars, Others
  <2>5. CASE \/ Shutdown \/ UNCHANGED agentVars \/ \E t \in StopThreads : ThreadEnds(t)
    BY <2>5 DEF Shutdown, ThreadEnds, agentVars, vars
  <2> QED BY <2>2, <2>4, <2>5 DEF AgentStep
<1> QED BY <1>1 DEF Bystanders, Others

\* A step of a request or of a thread's end keeps the stops apart.
LEMMA MeetingAgent ==
    ASSUME AgentShape, Meeting, NEW r \in Requests, RequestStep(r)
    PROVE  Meeting'
<1>0. Busy
    BY DEF RequestStep, RequestClear, RequestJoins, RequestStops, RequestReturns,
       Launches, Busy
<1>1. CASE RequestClear(r)
    BY <1>1, MeetingClear
<1>2. CASE RequestStops(r)
    BY <1>2, MeetingLaunches DEF RequestStops
<1>3. CASE RequestJoins(r) \/ RequestReturns(r)
  <2>1. /\ UNCHANGED vars /\ UNCHANGED job /\ request \in [Requests -> Request]
        /\ NoneNew
    BY <1>3 DEF RequestJoins, RequestReturns, AgentShape, AgentTypeOK, NoneNew,
       ServersOn, vars
  <2>2. ASSUME NEW s \in Requests PROVE RequestAt(s)'
    <3>1. CASE s = r
      BY <1>3, <2>1, <3>1 DEF RequestJoins, RequestReturns, Answer, RequestAt,
         NoRequest, Request
    <3>2. CASE s # r
      BY <1>3, <2>1, <3>2, RequestStays
      DEF RequestJoins, RequestReturns, Answer, AgentShape, Meeting
    <3> QED BY <3>1, <3>2
  <2>3. \A t \in StopThreads : ThreadAt(t)'
    BY <2>1, ThreadStays DEF AgentShape, Meeting, vars
  <2> QED BY <1>0, <2>1, <2>2, <2>3, MeetingNoted DEF Meeting
<1> QED BY <1>1, <1>2, <1>3 DEF RequestStep

\* Nor do the ends of the threads and the shutdown bring anything new.
LEMMA MeetingPasses ==
    ASSUME AgentShape, Meeting, UNCHANGED vars, UNCHANGED request,
           job' \in [StopThreads -> Job \cup {None}],
           \A t \in StopThreads : job'[t] \in {job[t], None}
    PROVE  Meeting'
<1>1. NoneNew
    BY DEF NoneNew, ServersOn, vars
<1>2. /\ \A r \in Requests : RequestAt(r)'
      /\ \A t \in StopThreads : ThreadAt(t)'
    BY <1>1, RequestStays, ThreadStays DEF AgentShape, Meeting, vars
<1>3. Busy' => NoneStarts
    BY DEF Meeting, Busy
<1> QED BY <1>2, <1>3, MeetingNoted

\* Whatever patient callers do, the stops of a node with one operator are
\* safe among each other.
LEMMA AgentSafeNext ==
    ASSUME NEW o \in Others, OneOperator(o), NothingRefused
    PROVE  AgentSafe /\ Bystanders(o) /\ [PatientNext]_agentVars
           => AgentSafe' /\ Bystanders(o)'
<1> SUFFICES ASSUME AgentSafe, Bystanders(o), [PatientNext]_agentVars
             PROVE  AgentSafe' /\ Bystanders(o)'
    OBVIOUS
<1>0. AgentShape /\ AgentShape' /\ (phase = "serving" \/ Busy => Meeting)
    BY PatienceRestricts, AgentShapeNext DEF AgentSafe
<1>1. ASSUME UNCHANGED agent, \/ Environment
                             \/ \E w \in Workers :
                                   LauncherOf[w] \in up /\ (Step(w) \/ PatientCall(w))
      PROVE  AgentSafe' /\ Bystanders(o)'
  <2>1. Next
    BY <1>1 DEF Next, PatientCall, Call
  <2>2. Bystanders(o)'
    BY <1>0, <2>1, BystandersStay
  <2>3. phase' = "serving" \/ Busy' => phase = "serving" \/ Busy
    BY <1>1 DEF agent, Busy
  <2>4. phase = "serving" \/ Busy => Meeting'
    BY <1>0, <1>1, MeetingNode
  <2> QED BY <1>0, <2>2, <2>3, <2>4 DEF AgentSafe
<1>2. ASSUME NoneStarts, NEW r \in Requests, RequestCall(r)
      PROVE  AgentSafe' /\ Bystanders(o)'
  <2>1. PICK p \in Ports : RequestEnter(r, p)
    BY <1>2 DEF RequestCall
  <2>2. phase = "serving" /\ UNCHANGED vars
    BY <2>1 DEF RequestEnter
  <2>3. Meeting'
    BY <1>0, <1>2, <2>1, <2>2, MeetingRequest
  <2> QED BY <1>0, <2>2, <2>3 DEF AgentSafe, Bystanders, vars
<1>3. ASSUME AgentStep \/ UNCHANGED agentVars, phase' = "serving" \/ Busy' => Meeting'
      PROVE  AgentSafe' /\ Bystanders(o)'
    BY <1>0, <1>3, AgentBystanders DEF AgentSafe
<1>4. ASSUME NEW r \in Requests, RequestStep(r) PROVE Meeting'
  <2>1. Busy
    BY <1>4 DEF RequestStep, RequestClear, RequestJoins, RequestStops,
       RequestReturns, Launches, Busy
  <2> QED BY <1>0, <1>4, <2>1, MeetingAgent
<1>5. ASSUME UNCHANGED vars, UNCHANGED request,
             job' \in [StopThreads -> Job \cup {None}],
             \A t \in StopThreads : job'[t] \in {job[t], None},
             phase' = "serving" => phase = "serving"
      PROVE  phase' = "serving" \/ Busy' => Meeting'
  <2>1. Busy' => Busy
    BY <1>5 DEF Busy
  <2> QED BY <1>0, <1>5, <2>1, MeetingPasses
<1>6. ASSUME NEW t \in StopThreads, ThreadEnds(t)
      PROVE  phase' = "serving" \/ Busy' => Meeting'
    BY <1>0, <1>5, <1>6 DEF ThreadEnds, AgentShape, AgentTypeOK, reaper
<1>7. ASSUME Shutdown \/ (\E p \in Ports : ReaperJoins(p)) \/ JoinReturns
             \/ ReaperStopped \/ UNCHANGED agentVars
      PROVE  phase' = "serving" \/ Busy' => Meeting'
    BY <1>0, <1>5, <1>7
    DEF Shutdown, ReaperJoins, JoinReturns, ReaperStopped, agentVars, agent,
        AgentShape, AgentTypeOK
<1>8. ASSUME NEW p \in Ports, StopsItself(p), phase \in {"reaping", "joining"},
             UNCHANGED <<files, proc, logs, up, snap, seen, job, request>>
      PROVE  phase' = "serving" \/ Busy' => Meeting'
  <2>1. phase' # "serving" /\ (Busy' => Busy)
    BY <1>8 DEF StopsItself, Busy
  <2> QED BY <1>0, <1>8, <2>1, MeetingReaper
<1>9. CASE AgentExits
  <2>1. phase' = "gone" /\ ~Busy'
    BY <1>0, <1>9 DEF AgentExits, Busy, AgentShape, Phased
  <2> QED BY <1>3, <1>9, <2>1 DEF AgentStep, ReaperStep
<1>10. CASE ReaperStep
  <2>1. ASSUME NEW p \in Ports, ReaperStops(p)
        PROVE  phase' = "serving" \/ Busy' => Meeting'
    BY <1>8, <2>1 DEF ReaperStops
  <2>2. ASSUME JoinTimesOut PROVE phase' = "serving" \/ Busy' => Meeting'
    BY <1>0, <1>8, <2>2 DEF JoinTimesOut, AgentShape, Phased
  <2> QED BY <1>3, <1>7, <1>9, <1>10, <2>1, <2>2 DEF AgentStep, ReaperStep
<1> QED BY <1>1, <1>2, <1>3, <1>4, <1>6, <1>7, <1>10
        DEF PatientNext, PatientCall, AgentStep

\* While starts and stops do not overlap, nothing the stops of requests, of
\* other processes and of the shutdown do makes one of them lose its footing:
\* what a thread was started for, what it finds and what it removes belong
\* together, for any number of ports, requests and threads.
THEOREM AgentStopsAreSafe ==
    ASSUME NEW o \in Others, OneOperator(o), NothingRefused
    PROVE  PatientSpec => []AgentSafe
<1>1. AgentInit => AgentSafe /\ Bystanders(o)
    BY InitMeeting
<1>2. AgentSafe /\ Bystanders(o) /\ [PatientNext]_agentVars
      => AgentSafe' /\ Bystanders(o)'
    BY AgentSafeNext
<1> QED BY <1>1, <1>2, PTL DEF PatientSpec

-----------------------------------------------------------------------------
(* What the reaper has found.                                               *)

\* Nobody swaps: a server that comes up later than the listing is not in it.
NoSwapAt(w) == /\ op[w].verb # "swap" /\ pc[w] \notin {"same", "reclaim"}
               /\ pc[w] \in {"scan", "drop"} => op[w].port = None
Swapless == \A w \in Workers : NoSwapAt(w)

\* A worker changes no other worker's listing.
LEMMA SnapAlone ==
    ASSUME Shape, NEW w \in Workers, Call(w) \/ Step(w)
    PROVE  \A v \in Workers \ {w} : snap'[v] = snap[v]
<1>0. snap \in [Workers -> [Ports -> Claim \cup {None}]]
    BY DEF Shape, TypeOK
<1>1. CASE Call(w)
    BY <1>0, <1>1 DEF Call, StartCall, StopCall, SwapCall, UpkeepCall, StartEnter,
       StopEnter, SwapEnter, SweepEnter, DeleteEnter, Add, CancelEnter, local
<1>2. CASE LaunchStep(w) \/ StartStep(w)
    BY <1>2 DEF LaunchStep, Spawn, SpawnFails, ClaimPort, ClaimLost, ClaimRaises,
       RaceCleanup, AwaitReady, AwaitFails, KillUnready, Unlock, Release,
       StartStep, StartClear, StartTake, StartRefused, StartPreflight, StartCancelled
<1>3. CASE StopStep(w) \/ SwapStep(w)
    BY <1>3 DEF StopStep, ClearAndReturn, Find, FindNothing, Terminate,
       TerminateMissed, TerminateDenied, Unclaim, SwapStep, SwapTake, SwapSame,
       SwapInProgress, SwapReclaim, SwapTakeRaises, SwapCancelled
<1>4. CASE UpkeepStep(w)
    BY <1>0, <1>4 DEF UpkeepStep, ScanStale, ScanLive, ScanDone, DeleteDrop, CancelWrite
<1> QED BY <1>1, <1>2, <1>3, <1>4 DEF Step

\* A verb on one port touches no claim and starts no server of another.
LEMMA OwnPort ==
    ASSUME Shape, NEW w \in Workers, Step(w), pc[w] # "scan",
           NEW p \in Ports, op[w].port # p
    PROVE  /\ lock'[p] = lock[p] /\ ServersOn(p)' \subseteq ServersOn(p)
           /\ pc'[w] # "scan" /\ op'[w].port # p
<1>0. /\ lock \in [Ports -> Claim \cup {None, Torn}] /\ None \notin Ports
      /\ proc \in [Pids -> Process \cup {None}] /\ pc \in [Workers -> Labels]
    BY ConstantsAssumption DEF Shape, TypeOK
<1>1. op'[w].port # p
    BY <1>0, StepFrame DEF Within, NoFrame
<1>2. pc'[w] # "scan"
  <2>1. ASSUME NEW label, Goto(w, label), label # "scan" PROVE pc'[w] # "scan"
    BY <1>0, <2>1 DEF Goto
  <2>2. CASE LaunchStep(w) \/ StartStep(w)
    BY <2>1, <2>2 DEF LaunchStep, Spawn, SpawnFails, ClaimPort, ClaimLost, ClaimRaises,
       RaceCleanup, AwaitReady, AwaitFails, KillUnready, Unlock, Release, AfterFailure,
       Finish, Return, StartStep, StartClear, StartTake, StartRefused, StartPreflight,
       StartCancelled
  <2>3. CASE StopStep(w) \/ SwapStep(w)
    BY <2>1, <2>3 DEF StopStep, ClearAndReturn, Find, FindNothing, Terminate,
       TerminateMissed, TerminateDenied, Unclaim, StopFailed, Finish, Return, SwapStep,
       SwapTake, SwapSame, SwapInProgress, SwapReclaim, SwapTakeRaises, SwapCancelled
  <2>4. CASE UpkeepStep(w)
    BY <2>1, <2>4 DEF UpkeepStep, ScanStale, ScanLive, ScanDone, DeleteDrop,
       CancelWrite, Return
  <2> QED BY <2>2, <2>3, <2>4 DEF Step
<1>3. lock'[p] = lock[p]
  <2>1. CASE lock' = lock
    BY <2>1
  <2>2. ASSUME NEW c, lock' = [lock EXCEPT ![op[w].port] = c] PROVE lock'[p] = lock[p]
    BY <1>0, <2>2
  <2>3. CASE LaunchStep(w) \/ StartStep(w)
    BY <2>1, <2>2, <2>3 DEF LaunchStep, Spawn, SpawnFails, ClaimPort, ClaimLost,
       ClaimRaises, RaceCleanup, AwaitReady, AwaitFails, KillUnready, Unlock, Release,
       RemoveLock, StartStep, StartClear, StartTake, StartRefused, StartPreflight,
       StartCancelled, files
  <2>4. CASE StopStep(w) \/ SwapStep(w)
    BY <2>1, <2>2, <2>4 DEF StopStep, ClearAndReturn, Find, FindNothing, Terminate,
       TerminateMissed, TerminateDenied, Unclaim, RemoveLock, SwapStep, SwapTake, SwapSame,
       SwapInProgress, SwapReclaim, SwapTakeRaises, SwapCancelled, files
  <2>5. CASE UpkeepStep(w)
    BY <2>1, <2>5 DEF UpkeepStep, ScanStale, ScanLive, ScanDone, DeleteDrop,
       CancelWrite, files
  <2> QED BY <2>3, <2>4, <2>5 DEF Step
<1>4. ServersOn(p)' \subseteq ServersOn(p)
  <2>1. CASE Spawn(w)
    <3>1. PICK x \in Fresh :
             proc' = [proc EXCEPT ![x] =
                        [st |-> "loading", port |-> op[w].port,
                         model |-> Target(w), kept |-> FALSE]]
      BY <2>1 DEF Spawn
    <3> QED BY <1>0, <3>1 DEF ServersOn
  <2>2. CASE ~Spawn(w)
    BY <2>2, ProcessEffect, NoSpawnStep DEF NoSpawn, ServersOn
  <2> QED BY <2>1, <2>2
<1> QED BY <1>1, <1>2, <1>3, <1>4

\* What the others rely on about q stays when the step of w leaves it right.
LEMMA NearKept ==
    ASSUME NEW p \in Ports, NEW q \in Pids, Near(p, q),
           ServersOn(p)' \subseteq ServersOn(p),
           lock'[p] = lock[p] \/ q \notin ServersOn(p)',
           NEW W \in SUBSET Workers, \A w \in W : NearAt(w, p, q)',
           \A v \in Workers \ W : pc'[v] = pc[v] /\ op'[v] = op[v] /\ snap'[v] = snap[v]
    PROVE  Near(p, q)'
<1>1. ASSUME NEW v \in Workers \ W PROVE NearAt(v, p, q)'
    BY <1>1 DEF Near, NearAt
<1> QED BY <1>1 DEF Near, ClaimOf, ReadLock

\* On a port where q was found claimed there are only these steps.
LEMMA NearStep ==
    ASSUME Shape, Swapless, NEW w \in Workers, Step(w), NEW p \in Ports, NEW q \in Pids,
           NearAt(w, p, q), op[w].port = p
    PROVE  \/ AwaitReady(w) \/ AwaitFails(w) \/ KillUnready(w) \/ Unlock(w)
           \/ Release(w) \/ CancelWrite(w) \/ StopStep(w)
<1>1. /\ pc[w] \in StopLabels \cup {"await", "kill", "unlock", "release", "write"}
      /\ pc[w] = "clear" => op[w].verb = "stop"
      /\ op[w].verb # "swap"
    BY DEF NearAt, Swapless, NoSwapAt
<1>2. CASE LaunchStep(w)
    BY <1>1, <1>2 DEF LaunchStep, Spawn, SpawnFails, ClaimPort, ClaimLost,
       ClaimRaises, RaceCleanup, StopLabels
<1>3. ~StartStep(w)
    BY <1>1 DEF StartStep, StartClear, StartTake, StartRefused, StartPreflight,
       StartCancelled, StopLabels
<1>4. ~SwapStep(w)
    BY <1>1 DEF SwapStep, SwapTake, SwapSame, SwapInProgress, SwapReclaim,
       SwapTakeRaises, SwapCancelled, StopLabels
<1>5. CASE UpkeepStep(w)
    BY <1>1, <1>5 DEF UpkeepStep, ScanStale, ScanLive, ScanDone, DeleteDrop, StopLabels
<1> QED BY <1>2, <1>3, <1>4, <1>5 DEF Step

\* A stop that comes to the port of q stops q, or finds it gone.
LEMMA NearStop ==
    ASSUME NothingRefused, Shape, Swapless, NEW w \in Workers, StopStep(w),
           NEW p \in Ports, NEW q \in Pids, Near(p, q), op[w].port = p
    PROVE  /\ NearAt(w, p, q)' /\ ServersOn(p)' \subseteq ServersOn(p)
           /\ lock'[p] = lock[p] \/ q \notin ServersOn(p)'
           /\ pc'[w] \in {"find", "term"} \/ q \notin ServersOn(p)'
<1>0. /\ pc \in [Workers -> Labels] /\ op \in [Workers -> Frame] /\ FrameOK(w)
      /\ proc \in [Pids -> Process \cup {None}] /\ None \notin Ports
      /\ NearAt(w, p, q) /\ ServersOn(p) \subseteq {q} /\ op[w].verb # "swap"
    BY ConstantsAssumption DEF Shape, TypeOK, FramesOK, Near, Swapless, NoSwapAt
<1>1. op[w].verb = "stop"
    BY <1>0 DEF StopStep, ClearAndReturn, Find, FindNothing, Terminate, TerminateMissed,
       TerminateDenied, Unclaim, FrameOK
<1>2. ASSUME Return(w), proc' = proc, ServersOn(p) = {}
      PROVE  /\ NearAt(w, p, q)' /\ ServersOn(p)' \subseteq ServersOn(p)
             /\ q \notin ServersOn(p)'
    BY <1>0, <1>2 DEF Return, Goto, NoFrame, NearAt, ServersOn
<1>3. CASE Find(w)
  <2>1. PICK x \in ServersOn(p) : op' = [op EXCEPT ![w].pid = x]
    BY <1>3 DEF Find
  <2>2. x = q
    BY <1>0, <2>1
  <2>3. /\ pc'[w] = "term" /\ op'[w].pid = q /\ lock' = lock /\ proc' = proc
    BY <1>0, <1>3, <2>1, <2>2 DEF Find, Goto, Frame, files
  <2> QED BY <2>3 DEF NearAt, StopLabels, ServersOn
<1>4. CASE Terminate(w)
  <2>1. /\ op[w].pid = q /\ pc'[w] = "unclaim" /\ lock' = lock
        /\ proc' = [proc EXCEPT ![q] = None]
    BY <1>0, <1>4 DEF Terminate, Goto, NearAt, files
  <2>2. ServersOn(p)' = {}
    BY <1>0, <2>1 DEF ServersOn
  <2> QED BY <2>1, <2>2 DEF NearAt, StopLabels
<1>5. CASE ClearAndReturn(w) \/ Unclaim(w)
    BY <1>0, <1>1, <1>2, <1>5 DEF ClearAndReturn, Unclaim, NearAt
<1>6. CASE FindNothing(w)
    BY <1>1, <1>2, <1>6 DEF FindNothing, StopFailed, NothingRefused
<1>7. CASE TerminateMissed(w) \/ TerminateDenied(w)
  <2>1. ServersOn(p) = {}
    BY <1>0, <1>7
    DEF TerminateMissed, TerminateDenied, NothingRefused, NearAt, PidAlive, ServersOn
  <2> QED BY <1>1, <1>2, <1>7, <2>1 DEF TerminateMissed, TerminateDenied, StopFailed
<1> QED BY <1>3, <1>4, <1>5, <1>6, <1>7 DEF StopStep

\* So does the start that has launched q, should q not become ready.
LEMMA NearLaunch ==
    ASSUME NothingRefused, Shape, Swapless, NEW w \in Workers, NEW p \in Ports,
           NEW q \in Pids,
           \/ AwaitReady(w) \/ AwaitFails(w) \/ KillUnready(w) \/ Unlock(w)
           \/ Release(w) \/ CancelWrite(w),
           Near(p, q), op[w].port = p
    PROVE  /\ NearAt(w, p, q)' /\ ServersOn(p)' \subseteq ServersOn(p)
           /\ lock'[p] = lock[p] \/ q \notin ServersOn(p)'
<1>0. /\ pc \in [Workers -> Labels] /\ op \in [Workers -> Frame]
      /\ proc \in [Pids -> Process \cup {None}] /\ None \notin Ports
      /\ NearAt(w, p, q) /\ ServersOn(p) \subseteq {q} /\ op[w].verb # "swap"
    BY ConstantsAssumption DEF Shape, TypeOK, Near, Swapless, NoSwapAt
<1>1. CASE AwaitReady(w)
  <2>1. pc'[w] = "release" /\ lock' = lock /\ Keeps(w)
    BY <1>0, <1>1 DEF AwaitReady, Finish, Goto, files, Keeps, NearAt, PidAlive
  <2>2. ServersOn(p)' \subseteq ServersOn(p)
    BY <2>1, NoSpawnStep DEF NoSpawn, ServersOn
  <2> QED BY <2>1, <2>2 DEF NearAt
<1>2. CASE AwaitFails(w)
  <2>1. pc'[w] = "kill" /\ pc[w] = "await" /\ op' = op /\ lock' = lock /\ proc' = proc
    BY <1>0, <1>2 DEF AwaitFails, Goto, files
  <2> QED BY <1>0, <2>1 DEF NearAt, ServersOn
<1>3. CASE KillUnready(w)
  <2>1. /\ op[w].pid = q /\ pc'[w] = "unlock" /\ lock' = lock
        /\ proc' = [proc EXCEPT ![q] = None]
    BY <1>0, <1>3 DEF KillUnready, KillOwn, NothingRefused, Goto, NearAt, files
  <2>2. ServersOn(p)' = {}
    BY <1>0, <2>1 DEF ServersOn
  <2> QED BY <2>1, <2>2 DEF NearAt
<1>4. CASE Unlock(w)
  <2>1. /\ pc'[w] = "release" /\ proc' = proc /\ pc[w] = "unlock"
    BY <1>0, <1>4 DEF Unlock, AfterFailure, WatchesCancel, Goto
  <2> QED BY <1>0, <2>1 DEF NearAt, ServersOn
<1>5. CASE Release(w) \/ CancelWrite(w)
  <2>1. pc'[w] = "idle" /\ lock' = lock /\ proc' = proc
    BY <1>0, <1>5 DEF Release, CancelWrite, Return, Goto
  <2> QED BY <2>1 DEF NearAt, StopLabels, ServersOn
<1> QED BY <1>1, <1>2, <1>3, <1>4, <1>5

\* A sweep removes the claim of q only when q is gone.
LEMMA NearScan ==
    ASSUME Shape, NEW w \in Workers, Step(w), pc[w] = "scan", NEW p \in Ports,
           NEW q \in Pids, Near(p, q)
    PROVE  /\ NearAt(w, p, q)' /\ ServersOn(p)' = ServersOn(p)
           /\ lock'[p] = lock[p] \/ q \notin ServersOn(p)'
<1>0. /\ pc \in [Workers -> Labels] /\ op \in [Workers -> Frame]
      /\ lock \in [Ports -> Claim \cup {None, Torn}]
      /\ snap \in [Workers -> [Ports -> Claim \cup {None}]]
      /\ NearAt(w, p, q) /\ op[w].port # p /\ None \notin Ports
    BY ConstantsAssumption DEF Shape, TypeOK, Near, NearAt, StopLabels
<1>1. UpkeepStep(w)
    BY DEF Step, LaunchStep, Spawn, SpawnFails, ClaimPort, ClaimLost, ClaimRaises,
       RaceCleanup, AwaitReady, AwaitFails, KillUnready, Unlock, Release,
       StartStep, StartClear, StartTake, StartRefused, StartPreflight, StartCancelled,
       StopStep, ClearAndReturn, Find, FindNothing, Terminate, TerminateMissed,
       TerminateDenied, Unclaim,
       SwapStep, SwapTake, SwapSame, SwapInProgress, SwapReclaim, SwapTakeRaises,
       SwapCancelled
<1>2. ASSUME NEW x \in Ports, ScanStale(w, x)
      PROVE  /\ NearAt(w, p, q)' /\ ServersOn(p)' = ServersOn(p)
             /\ lock'[p] = lock[p] \/ q \notin ServersOn(p)'
  <2>1. /\ UNCHANGED <<proc, pc, op>> /\ lock' = [lock EXCEPT ![x] = None]
        /\ snap' = [snap EXCEPT ![w][x] = None]
        /\ snap[w][x] # None /\ ~PidAlive(snap[w][x].pid)
    BY <1>2 DEF ScanStale, RemoveLock
  <2>2. ServersOn(p)' = ServersOn(p)
    BY <2>1 DEF ServersOn
  <2>3. x = p => q \notin ServersOn(p)
    BY <1>0, <2>1 DEF NearAt, PidAlive, ServersOn
  <2>4. snap'[w][p] # None => snap'[w][p] = snap[w][p]
    BY <1>0, <2>1
  <2> QED BY <1>0, <2>1, <2>2, <2>3, <2>4 DEF NearAt
<1>3. ASSUME NEW x \in Ports, ScanLive(w, x)
      PROVE  NearAt(w, p, q)' /\ ServersOn(p)' = ServersOn(p) /\ lock'[p] = lock[p]
  <2>1. lock' = lock /\ proc' = proc
    BY <1>3 DEF ScanLive, files
  <2>2. CASE snap' = [snap EXCEPT ![w][x] = None] /\ UNCHANGED <<pc, op>>
    <3>1. snap'[w][p] # None => snap'[w][p] = snap[w][p]
      BY <1>0, <2>2
    <3> QED BY <1>0, <2>1, <2>2, <3>1 DEF NearAt, ServersOn
  <2>3. CASE Return(w)
    BY <1>0, <2>1, <2>3 DEF Return, Goto, NoFrame, NearAt, ServersOn
  <2> QED BY <1>3, <2>2, <2>3 DEF ScanLive
<1>4. CASE ScanDone(w)
  <2>1. /\ lock' = lock /\ proc' = proc /\ pc'[w] \in {"idle", "drop"}
        /\ op'[w].port # p
    BY <1>0, <1>4 DEF ScanDone, files, Return, Goto, NoFrame
  <2> QED BY <2>1 DEF NearAt, ServersOn
<1> QED BY <1>1, <1>2, <1>3, <1>4 DEF UpkeepStep, DeleteDrop, CancelWrite

\* Whatever a worker's verb does next, q stays known.
LEMMA NearGoesOn ==
    ASSUME NothingRefused, Shape, Swapless, NEW w \in Workers, Step(w),
           NEW p \in Ports, NEW q \in Pids, Near(p, q)
    PROVE  /\ Near(p, q)' /\ ServersOn(p)' \subseteq ServersOn(p)
           /\ pc[w] \in {"find", "term"} /\ op[w].port = p =>
                 pc'[w] \in {"find", "term"} \/ q \notin ServersOn(p)'
<1>0. NearAt(w, p, q) /\ None \notin Ports /\ pc[w] # "idle"
    BY StepNotIdle, ConstantsAssumption DEF Near
<1>1. \A v \in Workers \ {w} : pc'[v] = pc[v] /\ op'[v] = op[v] /\ snap'[v] = snap[v]
    BY StepAlone, SnapAlone DEF Alone
<1>2. /\ NearAt(w, p, q)' /\ ServersOn(p)' \subseteq ServersOn(p)
      /\ lock'[p] = lock[p] \/ q \notin ServersOn(p)'
      /\ pc[w] \in {"find", "term"} /\ op[w].port = p =>
            pc'[w] \in {"find", "term"} \/ q \notin ServersOn(p)'
  <2>1. CASE pc[w] = "scan"
    BY <2>1, NearScan
  <2>2. CASE pc[w] # "scan" /\ op[w].port # p
    <3>1. /\ lock'[p] = lock[p] /\ ServersOn(p)' \subseteq ServersOn(p)
          /\ pc'[w] # "scan" /\ op'[w].port # p
      BY <2>2, OwnPort
    <3> QED BY <2>2, <3>1 DEF NearAt
  <2>3. CASE op[w].port = p /\ StopStep(w)
    BY <2>3, NearStop
  <2>4. CASE op[w].port = p /\ ~StopStep(w)
    <3>1. \/ AwaitReady(w) \/ AwaitFails(w) \/ KillUnready(w) \/ Unlock(w)
          \/ Release(w) \/ CancelWrite(w)
      BY <1>0, <2>4, NearStep
    <3>2. pc[w] \notin {"find", "term"}
      BY <3>1 DEF AwaitReady, AwaitFails, KillUnready, Unlock, Release, CancelWrite
    <3> QED BY <2>4, <3>1, <3>2, NearLaunch
  <2> QED BY <2>1, <2>2, <2>3, <2>4
<1>3. {w} \in SUBSET Workers /\ \A v \in {w} : NearAt(v, p, q)'
    BY <1>2
<1>4. Near(p, q)'
    BY <1>1, <1>2, <1>3, NearKept
<1> QED BY <1>2, <1>4

\* A stop that begins finds q, or a claim whose server is gone.
LEMMA NearBegins ==
    ASSUME Shape, NEW w \in Workers, NEW x \in Ports, NEW p \in Ports, NEW q \in Pids,
           Near(p, q), NEW label \in {"find", "clear"}, Enter(w, label, "stop", x, None),
           label = "clear" => ReadLock(x) # None /\ ~PidAlive(lock[x].pid),
           UNCHANGED <<files, proc, logs, up, snap, seen>>
    PROVE  /\ Near(p, q)' /\ ServersOn(p)' = ServersOn(p)
           /\ pc'[w] = label /\ op'[w].port = x
           /\ label = "clear" /\ x = p => q \notin ServersOn(p)
<1>0. /\ pc \in [Workers -> Labels] /\ op \in [Workers -> Frame]
      /\ ServersOn(p)' = ServersOn(p) /\ lock' = lock
    BY DEF Shape, TypeOK, ServersOn, files
<1>1. /\ pc'[w] = label /\ op'[w].verb = "stop" /\ op'[w].port = x
      /\ \A v \in Workers \ {w} : pc'[v] = pc[v] /\ op'[v] = op[v] /\ snap'[v] = snap[v]
    BY <1>0 DEF Enter, Goto, NoFrame
<1>2. label = "clear" /\ x = p => q \notin ServersOn(p) /\ ServersOn(p) = {}
    BY DEF Near, ClaimOf, PidAlive, ReadLock, ServersOn
<1>3. NearAt(w, p, q)'
    BY <1>0, <1>1, <1>2 DEF NearAt, StopLabels
<1>4. {w} \in SUBSET Workers /\ \A v \in {w} : NearAt(v, p, q)'
    BY <1>3
<1> QED BY <1>0, <1>1, <1>2, <1>4, NearKept

\* Nothing has happened on the node.
LEMMA NearUnchanged ==
    ASSUME NEW p \in Ports, NEW q \in Pids, Near(p, q), UNCHANGED vars
    PROVE  Near(p, q)' /\ ServersOn(p)' = ServersOn(p)
BY DEF Near, NearAt, ClaimOf, ReadLock, ServersOn, vars

\* A step of the node brings a server that was found no nearer to an escape.
LEMMA WatchedNode ==
    ASSUME NothingRefused, AgentShape, Swapless, UNCHANGED agent,
           NEW p \in Ports, NEW q \in Pids,
           Watched(p, q), Next,
           Environment \/ \E w \in Workers : Step(w) \/ StopCall(w)
    PROVE  Watched(p, q)'
<1>0. /\ Shape /\ Reaper \in Workers /\ Phased
    BY AgentAssumption DEF AgentShape
<1>1. CASE q \in Strangers
    BY <1>0, <1>1, StrangersStay DEF Watched
<1>2. ASSUME Near(p, q), q \in ServersOn(p) => Due(p, q)
      PROVE  Near(p, q)' /\ (q \in ServersOn(p)' => Due(p, q)')
  <2>1. ASSUME Near(p, q)', ServersOn(p)' \subseteq ServersOn(p),
               \/ pc'[Reaper] = pc[Reaper]
               \/ pc[Reaper] \in {"find", "term"} /\ op[Reaper].port = p =>
                     pc'[Reaper] \in {"find", "term"} \/ q \notin ServersOn(p)'
        PROVE  Near(p, q)' /\ (q \in ServersOn(p)' => Due(p, q)')
    BY <1>0, <1>2, <2>1 DEF Due, Phased, agent, reaper
  <2>2. CASE Environment
    <3>1. /\ UNCHANGED <<lock, pc, op, snap>>
          /\ ServersOn(p)' \subseteq ServersOn(p)
      BY <1>0, <2>2, EnvironmentQuiet, EnvironmentServers
    <3>2. Near(p, q)'
      BY <1>2, <3>1 DEF Near, NearAt, ClaimOf, ReadLock
    <3> QED BY <2>1, <3>1, <3>2
  <2>3. ASSUME NEW w \in Workers, Step(w)
        PROVE  Near(p, q)' /\ (q \in ServersOn(p)' => Due(p, q)')
    <3>1. /\ Near(p, q)' /\ ServersOn(p)' \subseteq ServersOn(p)
          /\ pc[w] \in {"find", "term"} /\ op[w].port = p =>
                pc'[w] \in {"find", "term"} \/ q \notin ServersOn(p)'
      BY <1>0, <1>2, <2>3, NearGoesOn
    <3>2. w # Reaper => pc'[Reaper] = pc[Reaper]
      BY <1>0, <2>3, StepAlone DEF Alone
    <3> QED BY <2>1, <3>1, <3>2
  <2>4. ASSUME NEW w \in Workers, StopCall(w)
        PROVE  Near(p, q)' /\ (q \in ServersOn(p)' => Due(p, q)')
    <3>1. PICK x \in Ports : StopEnter(w, x)
      BY <2>4 DEF StopCall
    <3>2. PICK label \in {"find", "clear"} :
             /\ Enter(w, label, "stop", x, None)
             /\ label = "clear" => ReadLock(x) # None /\ ~PidAlive(lock[x].pid)
             /\ UNCHANGED <<files, proc, logs, up, snap, seen>>
      BY <3>1 DEF StopEnter, ReadLock
    <3>3. Near(p, q)' /\ ServersOn(p)' = ServersOn(p)
      BY <1>0, <1>2, <3>2, NearBegins
    <3>4. w # Reaper /\ pc'[Reaper] = pc[Reaper]
      BY <1>0, <2>4, AgentWorkers, StepAlone DEF Call, Alone
    <3> QED BY <2>1, <3>3, <3>4
  <2> QED BY <2>2, <2>3, <2>4
<1> QED BY <1>1, <1>2 DEF Watched

\* The reaper comes to the port of q: it stops q, or q is gone.
LEMMA WatchedReaper ==
    ASSUME AgentShape, NEW p \in Ports, NEW q \in Pids, Watched(p, q), NEW x \in Ports,
           StopsItself(x), cur' = x, todo \subseteq todo' \cup {x},
           \/ phase = "reaping"
           \/ phase = "joining" /\ cur = x,
           UNCHANGED <<files, proc, logs, up, snap, seen>>
    PROVE  Watched(p, q)'
<1>0. Shape /\ Reaper \in Workers
    BY AgentAssumption DEF AgentShape
<1>1. CASE q \in Strangers
    BY <1>1 DEF Watched, Strangers
<1>2. ASSUME Near(p, q), q \in ServersOn(p) => Due(p, q)
      PROVE  Near(p, q)' /\ (q \in ServersOn(p)' => Due(p, q)')
  <2>1. q \in ServersOn(p) /\ p # x => p \in todo'
    BY <1>2 DEF Due
  <2>2. CASE ReadLock(x) = None /\ UNCHANGED <<pc, op>>
    <3>1. UNCHANGED vars
      BY <2>2 DEF vars, files
    <3>2. Near(p, q)' /\ ServersOn(p)' = ServersOn(p)
      BY <1>2, <3>1, NearUnchanged
    <3>3. p = x => q \notin ServersOn(p)
      BY <1>2, <2>2 DEF Near, ClaimOf
    <3> QED BY <2>1, <3>2, <3>3 DEF Due
  <2>3. ASSUME NEW label \in {"find", "clear"}, Enter(Reaper, label, "stop", x, None),
               label = "clear" => ReadLock(x) # None /\ ~PidAlive(lock[x].pid),
               phase' = "stopping"
        PROVE  Near(p, q)' /\ (q \in ServersOn(p)' => Due(p, q)')
    <3>1. /\ Near(p, q)' /\ ServersOn(p)' = ServersOn(p) /\ pc'[Reaper] = label
          /\ label = "clear" /\ x = p => q \notin ServersOn(p)
      BY <1>0, <1>2, <2>3, NearBegins
    <3> QED BY <2>1, <2>3, <3>1 DEF Due
  <2> QED BY <2>2, <2>3 DEF StopsItself
<1> QED BY <1>1, <1>2 DEF Watched

\* What the listing of the shutdown finds claimed is near, wherever the verbs
\* of the other processes are.
LEMMA ListedIsNear ==
    ASSUME AgentShape, Meeting, ClaimMatchesProcess, Swapless,
           NEW p \in Ports, NEW q \in Pids, ClaimOf(p, q), PidAlive(q), q \notin Strangers
    PROVE  Near(p, q) /\ q \in ServersOn(p)
<1>0. /\ Shape /\ World /\ FramesOK /\ up = Launchers
      /\ lock \in [Ports -> Claim \cup {None, Torn}]
    BY DEF AgentShape, Meeting, Shape, TypeOK
<1>1. q \in ServersOn(p)
    BY DEF ClaimMatchesProcess, Servers, Strangers, PidAlive, ServersOn
<1>2. lock[p].pid = q /\ ReadLock(p) # None /\ lock[p] # None
    BY <1>0, ConstantsAssumption DEF ClaimOf, ReadLock
<1>3. ServersOn(p) \subseteq {q}
    BY <1>0, <1>1 DEF World, OneEach
<1>4. ASSUME NEW w \in Workers PROVE NearAt(w, p, q)
  <2>0. FrameOK(w) /\ VerbAt(w) /\ NoSwapAt(w) /\ pc[w] \in Labels
    BY <1>0 DEF FramesOK, Meeting, Swapless, Shape, TypeOK
  <2>1. CASE op[w].verb = "stop"
    BY <1>1, <1>3, <2>0, <2>1 DEF VerbAt, StopAt, StopLabels, NearAt
  <2>2. CASE op[w].verb # "stop"
    <3>1. PortAt(w) /\ ListingAt(w)
      BY <2>0, <2>2 DEF VerbAt, Point
    <3>2. pc[w] = "scan" /\ snap[w][p] # None => snap[w][p].pid = q
      BY <1>2, <3>1 DEF ListingAt
    <3>3. ASSUME op[w].port = p
          PROVE  /\ pc[w] \in StopLabels \cup {"await", "kill", "unlock", "release", "write"}
                 /\ pc[w] \notin {"clear", "unclaim", "unlock", "term"}
                 /\ pc[w] \in {"await", "kill"} => op[w].pid = q
      <4>1. pc[w] \notin {"take", "preflight", "launch", "claim", "race", "clear", "unlock"}
        BY <1>1, <1>2, <2>0, <3>1, <3>3 DEF PortAt, NoSwapAt
      <4>2. pc[w] \notin {"find", "term", "unclaim", "same", "reclaim", "scan", "drop"}
        BY <2>0, <2>2, <3>3, ConstantsAssumption DEF FrameOK, NoSwapAt
      <4>3. pc[w] \in {"await", "kill"} => op[w].pid = q
        BY <1>2, <3>1, <3>3 DEF PortAt
      <4> QED BY <2>0, <4>1, <4>2, <4>3 DEF Labels, StopLabels
    <3> QED BY <3>2, <3>3 DEF NearAt
  <2> QED BY <2>1, <2>2
<1> QED BY <1>0, <1>1, <1>2, <1>3, <1>4 DEF Near

\* The shutdown begins with every server it found in sight.
LEMMA WatchedShutdown ==
    ASSUME AgentShape, Meeting, ClaimMatchesProcess, Swapless, Shutdown,
           NEW p \in Ports, NEW q \in Pids, <<p, q>> \in listed'
    PROVE  Watched(p, q)'
<1>1. /\ UNCHANGED vars /\ p \in todo' /\ ReadLock(p) # None
      /\ lock[p].pid = q /\ PidAlive(q)
    BY DEF Shutdown
<1>2. CASE q \in Strangers
    BY <1>1, <1>2 DEF Watched, Strangers, vars
<1>3. CASE q \notin Strangers
  <2>1. Near(p, q)
    BY <1>1, <1>3, ListedIsNear DEF ClaimOf
  <2> QED BY <1>1, <2>1, NearUnchanged DEF Watched, Due
<1> QED BY <1>2, <1>3

\* A step of the shutdown, or the end of a thread, leaves somebody in charge
\* of every server that was found.
LEMMA WatchedAgent ==
    ASSUME NothingRefused, AgentSafe, NEW p \in Ports, NEW q \in Pids, Watched(p, q),
           phase \notin {"serving", "gone"}, phase' # "gone",
           ReaperStep \/ \E t \in StopThreads : ThreadEnds(t)
    PROVE  Watched(p, q)'
<1>0. /\ AgentShape /\ inflight \in [Ports -> StopThreads \cup {None}]
      /\ job \in [StopThreads -> Job \cup {None}] /\ Phased
    BY DEF AgentSafe, AgentShape, AgentTypeOK
<1>1. ASSUME UNCHANGED vars,
             Near(p, q) /\ q \in ServersOn(p) /\ Due(p, q) => Due(p, q)'
      PROVE  Watched(p, q)'
  <2>1. CASE q \in Strangers
    BY <1>1, <2>1 DEF Watched, Strangers, vars
  <2>2. CASE Near(p, q) /\ (q \in ServersOn(p) => Due(p, q))
    BY <1>1, <2>2, NearUnchanged DEF Watched
  <2> QED BY <2>1, <2>2 DEF Watched
<1>2. ASSUME NEW t \in StopThreads, ThreadEnds(t) PROVE Watched(p, q)'
  <2>1. /\ job[t] # None /\ pc[t] = "idle" /\ UNCHANGED vars
        /\ UNCHANGED <<phase, todo, cur>>
        /\ inflight' = [inflight EXCEPT ![job[t].port] = IF @ = t THEN None ELSE @]
    BY <1>2 DEF ThreadEnds, reaper
  <2>2. ServersOn(job[t].port) = {}
    BY <2>1 DEF AgentSafe, Busy, Meeting, ThreadAt
  <2>3. p # job[t].port => inflight'[p] = inflight[p]
    BY <1>0, <2>1
  <2>4. Near(p, q) /\ q \in ServersOn(p) /\ Due(p, q) => Due(p, q)'
    BY <2>1, <2>2, <2>3 DEF Due, vars
  <2> QED BY <1>1, <2>1, <2>4
<1>3. ASSUME NEW x \in Ports, ReaperStops(x) PROVE Watched(p, q)'
  <2>1. /\ StopsItself(x) /\ cur' = x /\ todo \subseteq todo' \cup {x}
        /\ phase = "reaping" /\ UNCHANGED <<files, proc, logs, up, snap, seen>>
    BY <1>3 DEF ReaperStops
  <2> QED BY <1>0, <2>1, WatchedReaper
<1>4. CASE JoinTimesOut
  <2>1. /\ cur \in Ports /\ StopsItself(cur) /\ cur' = cur /\ todo \subseteq todo' \cup {cur}
        /\ phase = "joining" /\ UNCHANGED <<files, proc, logs, up, snap, seen>>
    BY <1>0, <1>4 DEF JoinTimesOut, Phased, reaper
  <2> QED BY <1>0, <2>1, WatchedReaper
<1>5. ASSUME NEW x \in Ports, ReaperJoins(x) PROVE Watched(p, q)'
  <2>1. Due(p, q) => Due(p, q)'
    BY <1>5 DEF ReaperJoins, Due
  <2> QED BY <1>1, <1>5, <2>1 DEF ReaperJoins
<1>6. CASE JoinReturns \/ ReaperStopped
  <2>1. Due(p, q) => Due(p, q)'
    BY <1>6 DEF JoinReturns, ReaperStopped, NothingRefused, Due, reaper
  <2> QED BY <1>1, <1>6, <2>1 DEF JoinReturns, ReaperStopped
<1>7. ~AgentExits
    BY DEF AgentExits
<1> QED BY <1>2, <1>3, <1>4, <1>5, <1>6, <1>7 DEF ReaperStep

\* What only the calls of other verbs lead to.
LEMMA StepLabels ==
    ASSUME Shape, NEW w \in Workers, Step(w), op[w].verb # "swap"
    PROVE  /\ pc'[w] \notin {"same", "reclaim"} \/ pc'[w] = pc[w]
           /\ pc'[w] \in {"scan", "drop"} => pc[w] = "scan"
<1>0. pc \in [Workers -> Labels]
    BY DEF Shape, TypeOK
<1>1. ASSUME NEW label, Goto(w, label), label \notin {"same", "reclaim", "scan", "drop"}
      PROVE  pc'[w] \notin {"same", "reclaim", "scan", "drop"}
    BY <1>0, <1>1 DEF Goto
<1>2. CASE LaunchStep(w) \/ StartStep(w)
    BY <1>1, <1>2 DEF LaunchStep, Spawn, SpawnFails, ClaimPort, ClaimLost, ClaimRaises,
       RaceCleanup, AwaitReady, AwaitFails, KillUnready, Unlock, Release, AfterFailure,
       Finish, Return, StartStep, StartClear, StartTake, StartRefused, StartPreflight,
       StartCancelled
<1>3. CASE StopStep(w)
    BY <1>1, <1>3 DEF StopStep, ClearAndReturn, Find, FindNothing, Terminate,
       TerminateMissed, TerminateDenied, Unclaim, StopFailed, Finish, Return
<1>4. CASE SwapStep(w)
    BY <1>1, <1>4 DEF SwapStep, SwapTake, SwapSame, SwapInProgress, SwapReclaim,
       SwapTakeRaises, SwapCancelled, Finish, Return, WatchesCancel
<1>5. CASE UpkeepStep(w)
    BY <1>0, <1>1, <1>5 DEF UpkeepStep, ScanStale, ScanLive, ScanDone, DeleteDrop,
       CancelWrite, Return, Goto
<1> QED BY <1>2, <1>3, <1>4, <1>5 DEF Step

\* Nobody is asked for a swap.
LEMMA SwaplessNext ==
    ASSUME AgentShape, Swapless, [AgentNext]_agentVars,
           \A w \in Workers : "swap" \notin Duties[w]
    PROVE  Swapless'
<1>0. Shape /\ op \in [Workers -> Frame] /\ pc \in [Workers -> Labels]
    BY DEF AgentShape, Shape, TypeOK
<1>1. ASSUME NEW w \in Workers, Step(w) PROVE NoSwapAt(w)'
  <2>1. NoSwapAt(w)
    BY DEF Swapless
  <2>2. \/ op'[w].verb = op[w].verb /\ op'[w].port = op[w].port
        \/ pc'[w] = "idle" /\ op'[w].verb = "none"
    BY <1>0, <1>1, StepFrame DEF Within, NoFrame
  <2> QED BY <1>0, <1>1, <2>1, <2>2, StepLabels DEF NoSwapAt
<1>2. ASSUME NEW w \in Workers, NEW label, NEW verb \in Verbs \ {"swap"}, NEW p, NEW m,
             Enter(w, label, verb, p, m), label \notin {"same", "reclaim"},
             label \in {"scan", "drop"} => p = None
      PROVE  NoSwapAt(w)' /\ \A v \in Workers \ {w} : pc'[v] = pc[v] /\ op'[v] = op[v]
    BY <1>0, <1>2 DEF Enter, Goto, NoFrame, NoSwapAt
<1>3. ASSUME NEW w \in Workers, Call(w) PROVE NoSwapAt(w)'
  <2>1. ~SwapCall(w)
    BY DEF SwapCall, SwapEnter, Idle
  <2>2. CASE StartCall(w)
    BY <1>2, <2>2 DEF StartCall, StartEnter, Verbs
  <2>3. CASE StopCall(w)
    BY <1>2, <2>3 DEF StopCall, StopEnter, Verbs
  <2>4. CASE SweepEnter(w) \/ \E m \in Models : DeleteEnter(w, m)
    BY <1>2, <2>4 DEF SweepEnter, DeleteEnter, Verbs
  <2>5. CASE \E p \in Ports : CancelEnter(w, p)
    BY <1>2, <2>5 DEF CancelEnter, Verbs
  <2>6. CASE \E m \in Models : Add(w, m)
    BY <2>6 DEF Add, local, Swapless, NoSwapAt
  <2> QED BY <1>3, <2>1, <2>2, <2>3, <2>4, <2>5, <2>6 DEF Call, UpkeepCall
<1>4. ASSUME NEW w \in Workers, Call(w) \/ Step(w) PROVE Swapless'
    BY <1>0, <1>1, <1>3, <1>4, StepAlone DEF Alone, Swapless, NoSwapAt
<1>5. CASE UNCHANGED <<pc, op>>
    BY <1>5 DEF Swapless, NoSwapAt
<1>6. CASE Next
    BY <1>0, <1>4, <1>5, <1>6, EnvironmentQuiet DEF Next
<1>7. ASSUME NEW w \in Workers, NEW p \in Ports, NEW label \in {"find", "clear"},
             Enter(w, label, "stop", p, None)
      PROVE  Swapless'
    BY <1>2, <1>7 DEF Swapless, NoSwapAt, Verbs
<1>8. ASSUME NEW r \in Requests, RequestCall(r) \/ RequestStep(r) PROVE Swapless'
  <2>1. ASSUME NEW t \in StopThreads, Launches(r, t) PROVE Swapless'
    <3>1. request[r].port \in Ports /\ t \in Workers
      BY <2>1, AgentAssumption DEF Launches, AgentShape, RequestOK
    <3> QED BY <1>7, <2>1, <3>1 DEF Launches
  <2> QED BY <1>5, <1>8, <2>1 DEF RequestCall, RequestEnter, RequestStep, RequestClear,
          RequestJoins, RequestStops, RequestReturns, vars, local
<1>9. CASE ReaperStep
  <2>1. ASSUME NEW p \in Ports, StopsItself(p) PROVE Swapless'
    BY <1>5, <1>7, <2>1, AgentAssumption DEF StopsItself
  <2>2. CASE AgentExits
    BY <1>0, <2>2 DEF AgentExits, Swapless, NoSwapAt, NoFrame
  <2>3. CASE JoinTimesOut
    BY <2>1, <2>3 DEF JoinTimesOut, AgentShape, Phased
  <2> QED BY <1>5, <1>9, <2>1, <2>2, <2>3
          DEF ReaperStep, ReaperStops, ReaperJoins, JoinReturns, ReaperStopped, vars
<1> QED BY <1>5, <1>6, <1>8, <1>9
        DEF AgentNext, AgentStep, Shutdown, ThreadEnds, agentVars, vars

\* The claims of the lockfiles stay true in the agent's steps, too.
LEMMA AgentClaimsNext ==
    ASSUME AgentShape, ClaimMatchesProcess, [AgentNext]_agentVars
    PROVE  ClaimMatchesProcess'
<1>0. Shape /\ lock \in [Ports -> Claim \cup {None, Torn}]
    BY DEF AgentShape, Shape, TypeOK
<1>1. CASE [Next]_vars
    BY <1>0, <1>1, ClaimsNext
<1>2. ASSUME proc' = proc, \A p \in Ports : lock'[p] \in {lock[p], None}
      PROVE  ClaimMatchesProcess'
    BY <1>0, <1>2, ClaimsKept DEF NoSpawn
<1>3. ASSUME NEW r \in Requests, RequestCall(r) \/ RequestStep(r)
      PROVE  ClaimMatchesProcess'
    BY <1>0, <1>2, <1>3
    DEF RequestCall, RequestEnter, RequestStep, RequestClear, RequestJoins, RequestStops,
        RequestReturns, Launches, RemoveLock, files, vars
<1>4. CASE ReaperStep
    BY <1>2, <1>4
    DEF ReaperStep, ReaperStops, ReaperJoins, JoinReturns, JoinTimesOut, ReaperStopped,
        AgentExits, files, vars
<1> QED BY <1>1, <1>2, <1>3, <1>4
        DEF AgentNext, AgentStep, Shutdown, ThreadEnds, agentVars, vars

\* The reaper keeps every server it has found in sight.
LEMMA ReapingNext ==
    ASSUME NothingRefused, AgentSafe, ClaimMatchesProcess, Swapless, Reaping,
           [PatientNext]_agentVars
    PROVE  Reaping'
<1>0. AgentShape /\ Phased
    BY DEF AgentSafe, AgentShape
<1> SUFFICES ASSUME phase' \notin {"serving", "gone"}, NEW p \in Ports, NEW q \in Pids,
                    <<p, q>> \in listed'
             PROVE  Watched(p, q)'
    BY DEF Reaping
<1>1. CASE Shutdown
  <2>1. Meeting
    BY <1>1 DEF Shutdown, AgentSafe
  <2> QED BY <1>0, <1>1, <2>1, WatchedShutdown
<1>2. ASSUME phase \notin {"serving", "gone"}, listed' = listed PROVE Watched(p, q)
    BY <1>2 DEF Reaping
<1>3. ASSUME UNCHANGED agent, \/ Environment
                             \/ \E w \in Workers :
                                   LauncherOf[w] \in up /\ (Step(w) \/ PatientCall(w))
      PROVE  Watched(p, q)'
  <2>1. phase \notin {"serving", "gone"} /\ listed' = listed /\ ~StopsOver
    BY <1>3 DEF agent, reaper, StopsOver
  <2>2. Environment \/ \E w \in Workers : Step(w) \/ StopCall(w)
    BY <1>3, <2>1 DEF PatientCall
  <2>3. Next
    BY <1>3 DEF Next, PatientCall, Call
  <2> QED BY <1>0, <1>2, <1>3, <2>1, <2>2, <2>3, WatchedNode
<1>4. ASSUME NEW r \in Requests, RequestCall(r) \/ RequestStep(r) PROVE FALSE
  <2>1. phase' = phase
    BY <1>4 DEF RequestCall, RequestEnter, RequestStep, RequestClear, RequestJoins,
       RequestStops, Launches, RequestReturns
  <2>2. phase = "serving"
    BY <1>0, <1>4 DEF RequestCall, RequestEnter, RequestStep, RequestClear, RequestJoins,
       RequestStops, Launches, RequestReturns, Phased
  <2> QED BY <2>1, <2>2
<1>5. CASE ReaperStep \/ \E t \in StopThreads : ThreadEnds(t)
  <2>1. phase \notin {"serving", "gone"} /\ listed' = listed
    BY <1>5 DEF ReaperStep, ReaperStops, ReaperJoins, JoinReturns, JoinTimesOut,
       ReaperStopped, AgentExits, ThreadEnds, reaper
  <2> QED BY <1>2, <1>5, <2>1, WatchedAgent
<1>6. CASE UNCHANGED agentVars
  <2>1. UNCHANGED vars /\ UNCHANGED <<phase, listed, todo, cur, inflight>>
    BY <1>6 DEF agentVars, agent, reaper
  <2>2. CASE q \in Strangers
    BY <2>1, <2>2 DEF Watched, Strangers, vars
  <2>3. CASE Near(p, q) /\ (q \in ServersOn(p) => Due(p, q))
    BY <2>1, <2>3, NearUnchanged DEF Watched, Due, vars
  <2> QED BY <1>2, <2>1, <2>2, <2>3 DEF Watched
<1> QED BY <1>1, <1>3, <1>4, <1>5, <1>6 DEF PatientNext, PatientCall, AgentStep

\* When the reaper is done, none of the servers it found is left on its port.
LEMMA ReaperLeavesNone ==
    ASSUME AgentShape, Reaping, AgentExits, NEW p \in Ports, NEW q \in ServersOn(p)
    PROVE  <<p, q>> \notin listed
<1> SUFFICES ASSUME <<p, q>> \in listed PROVE FALSE
    OBVIOUS
<1>1. /\ phase = "reaping" /\ todo = {} /\ q \in Pids
      /\ proc[q] # None /\ proc[q].port = p
    BY DEF AgentExits, ServersOn
<1>2. q \notin Strangers
    BY <1>1, ConstantsAssumption
    DEF AgentShape, Shape, ProcessesOK, ProcessOK, Strangers
<1>3. Watched(p, q) /\ ~Due(p, q)
    BY <1>1 DEF Reaping, Due
<1> QED BY <1>2, <1>3 DEF Watched

\* What holds of the shutdown while servers are started and stopped.
LEMMA ReapingInvariant ==
    ASSUME NEW o \in Others, OneOperator(o), NothingRefused, "swap" \notin Duties[o]
    PROVE  PatientSpec => [](AgentSafe /\ Reaping)
<1>1. AgentInit => AgentSafe /\ Bystanders(o)
    BY InitMeeting
<1>2. AgentInit => ClaimMatchesProcess /\ Swapless /\ Reaping
    BY DEF AgentInit, Init, ClaimMatchesProcess, Servers, Swapless, NoSwapAt, NoFrame,
       Reaping
<1>3. \A w \in Workers : "swap" \notin Duties[w]
    BY DEF OneOperator
<1>4. AgentSafe /\ Bystanders(o) /\ [PatientNext]_agentVars
      => AgentSafe' /\ Bystanders(o)'
    BY AgentSafeNext
<1>5. AgentSafe /\ ClaimMatchesProcess /\ Swapless /\ [PatientNext]_agentVars
      => ClaimMatchesProcess' /\ Swapless'
    BY <1>3, PatienceRestricts, SwaplessNext, AgentClaimsNext DEF AgentSafe
<1>6. AgentSafe /\ ClaimMatchesProcess /\ Swapless /\ Reaping /\ [PatientNext]_agentVars
      => Reaping'
    BY ReapingNext
<1> QED BY <1>1, <1>2, <1>4, <1>5, <1>6, PTL DEF PatientSpec

\* While starts and stops do not overlap and nobody swaps, the agent's
\* process ends only when every server its reaper found claimed is gone from
\* its port, stopped by the reaper, by a background thread it waited for, by
\* another process, or by itself, for any number of ports and threads.
THEOREM ShutdownLeavesNothing ==
    ASSUME NEW o \in Others, OneOperator(o), NothingRefused, "swap" \notin Duties[o]
    PROVE  PatientSpec => ShutdownReaps
<1>1. AgentSafe /\ Reaping /\ [PatientNext]_agentVars
      => [phase = "reaping" /\ phase' = "gone"
          => \A p \in Ports : \A q \in ServersOn(p) : <<p, q>> \notin listed]_agentVars
  <2> SUFFICES ASSUME AgentSafe, Reaping, PatientNext, phase = "reaping", phase' = "gone",
                      NEW p \in Ports, NEW q \in ServersOn(p)
               PROVE  <<p, q>> \notin listed
      OBVIOUS
  <2>1. AgentExits
    BY DEF PatientNext, AgentStep, RequestStep, RequestCall, RequestEnter, RequestClear,
       RequestJoins, RequestStops, Launches, RequestReturns, ThreadEnds, Shutdown,
       ReaperStep, ReaperStops, ReaperJoins, JoinReturns, JoinTimesOut, ReaperStopped,
       StopsItself, agent
  <2> QED BY <2>1, ReaperLeavesNone DEF AgentSafe
<1>2. PatientSpec => [](AgentSafe /\ Reaping)
    BY ReapingInvariant
<1> QED BY <1>1, <1>2, PTL DEF PatientSpec, ShutdownReaps

\* And until then each of them has somebody who is going to stop it.
THEOREM ReaperMissesNothing ==
    ASSUME NEW o \in Others, OneOperator(o), NothingRefused, "swap" \notin Duties[o]
    PROVE  PatientSpec => []Reaping
BY ReapingInvariant, PTL
================================================================================

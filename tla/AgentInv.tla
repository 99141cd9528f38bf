-------------------------------- MODULE AgentInv --------------------------------
(* What the agent's stops rely on.  While the agent serves, or still works   *)
(* on a stop it accepted, whoever is at work is the operator or a stop, and  *)
(* stops of the same port do not get in each other's way (AgentSafe).  Once  *)
(* it shuts down, a server the reaper has found claimed is stopped by        *)
(* whoever comes to it first (Reaping).                                      *)
EXTENDS Agent, SerialInv

StopLabels == {"idle", "clear", "find", "term", "unclaim"}

\* The agent's workers run stops, each thread the one it was started for.
RunsStops(w) == /\ pc[w] \in StopLabels
                /\ pc[w] # "idle" => op[w].verb = "stop"
ThreadOK(t) ==
    /\ pc[t] # "idle" => job[t] # None /\ op[t].port = job[t].port
    /\ job[t] # None => inflight[job[t].port] = t
EntryOK(p) ==
    inflight[p] # None => job[inflight[p]] # None /\ job[inflight[p]].port = p
RequestOK(r) == request[r].at # "idle" =>
    request[r].port \in Ports /\ request[r].pid \in Pids

Threads == /\ \A w \in StopThreads \cup {Reaper} : RunsStops(w)
           /\ \A t \in StopThreads : ThreadOK(t)
           /\ \A p \in Ports : EntryOK(p)
Phased == /\ phase = "joining" => cur \in Ports
          /\ phase # "serving" => \A r \in Requests : request[r].at = "idle"
          /\ phase # "stopping" => pc[Reaper] = "idle"
          /\ phase = "stopping" /\ pc[Reaper] # "idle" => op[Reaper].port = cur
AgentShape == /\ Shape /\ AgentTypeOK /\ Threads /\ Phased
              /\ \A r \in Requests : RequestOK(r)

-----------------------------------------------------------------------------
\* A stop among other stops relies on less than a verb that is alone: the
\* claim may be gone, but a server it has not found is not there.
StopAt(w) ==
    /\ pc[w] \in StopLabels \ {"idle"}
    /\ pc[w] \in {"clear", "unclaim"} => ServersOn(op[w].port) = {}
    /\ pc[w] = "term" => ServersOn(op[w].port) \subseteq {op[w].pid}
VerbAt(w) == /\ op[w].verb = "none" => pc[w] = "idle"
             /\ IF op[w].verb = "stop" THEN StopAt(w) ELSE Point(w)

\* The only server a request or its thread may meet is the one it is for.
RequestAt(r) ==
    LET p == request[r].port IN
    /\ request[r].at = "clear" => ServersOn(p) = {}
    /\ request[r].at = "check" => ServersOn(p) \subseteq {request[r].pid}
ThreadAt(t) == job[t] # None =>
    /\ ServersOn(job[t].port) \subseteq {job[t].pid}
    /\ pc[t] = "term" => op[t].pid = job[t].pid
    /\ pc[t] \in {"idle", "unclaim"} => ServersOn(job[t].port) = {}

Busy == \/ \E t \in StopThreads : job[t] # None
        \/ \E r \in Requests : request[r].at # "idle"

Meeting == /\ up = Launchers /\ World
           /\ \A w \in Workers : VerbAt(w)
           /\ \A r \in Requests : RequestAt(r)
           /\ \A t \in StopThreads : ThreadAt(t)
           /\ Busy => NoneStarts

(* Whatever stops meet on a port, each finds the server it is for, or none,  *)
(* and no claim of a live server is lost.                                    *)
AgentSafe == AgentShape /\ (phase = "serving" \/ Busy => Meeting)

-----------------------------------------------------------------------------
\* A worker on a port where q was found claimed is at it to stop q, or has
\* launched q itself; nobody is about to launch another server there.
NearAt(w, p, q) ==
    /\ op[w].port = p =>
          /\ pc[w] \in StopLabels \cup {"await", "kill", "unlock", "release", "write"}
          /\ pc[w] = "clear" => op[w].verb = "stop"
          /\ pc[w] \in {"clear", "unclaim", "unlock"} => ServersOn(p) = {}
          /\ pc[w] \in {"term", "await", "kill"} => op[w].pid = q
    /\ pc[w] = "scan" /\ snap[w][p] # None => snap[w][p].pid = q

\* q was found claimed and has not been given to a stranger before.
Near(p, q) == /\ ServersOn(p) \subseteq {q}
              /\ q \in ServersOn(p) => ClaimOf(p, q)
              /\ \A w \in Workers : NearAt(w, p, q)

\* Who is going to stop q: nobody has come to it yet, a thread, the reaper.
Due(p, q) == \/ p \in todo
             \/ phase = "joining" /\ cur = p /\ inflight[p] # None
             \/ phase = "stopping" /\ cur = p /\ pc[Reaper] \in {"find", "term"}

\* q is on its way out, or its pid is a stranger's by now.
Watched(p, q) == \/ q \in Strangers
                 \/ Near(p, q) /\ (q \in ServersOn(p) => Due(p, q))

(* The reaper misses none of the servers it has found.                       *)
Reaping == phase \notin {"serving", "gone"} =>
    \A p \in Ports, q \in Pids : <<p, q>> \in listed => Watched(p, q)
=============================================================================

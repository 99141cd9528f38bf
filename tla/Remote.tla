-------------------------------- MODULE Remote --------------------------------
(* The verbs of one node as its callers reach them: in their own process, or *)
(* as a request to the node's HTTP agent (core/delegation.py,                *)
(* remote/node.py, agent/routing.py).  A request is answered by a thread of  *)
(* the agent, which goes on when the caller has given up.  Of the verbs      *)
(* themselves, which modules Start, Swap and Stop have in detail, there is   *)
(* here what their callers can tell: how long they take and what they leave  *)
(* on the port.  Time is counted in ticks.                                   *)
EXTENDS Naturals

CONSTANTS
    Callers,   \* front-end processes: CLI, MCP server, UI
    Threads,   \* threads of the agent's pool
    Models,
    Setting,   \* [Callers -> LLAUNCHER_DELEGATE_TO_LOCAL_AGENT, or "far"]
    Control,   \* the client's timeout: RemoteNode.timeout
    Grace,     \* the longest termination: a stop, or the stop within a swap
    Ready,     \* the longest wait for a server: DEFAULT_READINESS_TIMEOUT_S
    Margin,    \* READINESS_CLIENT_TIMEOUT_MARGIN_S
    None

\* "far": a caller on another machine, which has no process of this node.
Settings == {"auto", "always", "never", "far"}

ASSUME RemoteAssumption ==
    /\ Setting \in [Callers -> Settings]
    /\ {Control, Grace, Ready, Margin} \subseteq Nat \ {0}
    /\ Control < Ready /\ Grace < Margin
    /\ Callers \cap Threads = {} /\ None \notin Callers \cup Threads \cup Models

VARIABLES
    agent,    \* whether the agent is up
    server,   \* the server on the port, or None
    marker,   \* who holds the port's in-flight marker, or None
    call,     \* [Callers -> what the caller is doing]
    job       \* [Callers \cup Threads -> the verb it executes, or None]

remoteVars == <<agent, server, marker, call, job>>

Executors == Callers \cup Threads
Verbs == {"start", "swap", "stop", "delete"}
Server == [model : Models, by : Executors, loading : BOOLEAN]

\* waited: ticks since the request was sent; thread: the one that has it.
Call == [at : {"idle", "decide", "here", "sent", "wait"},
         verb : Verbs, model : Models \cup {None},
         waited : 0 .. Ready + Margin, thread : Threads \cup {None}]

\* step: what the verb waits for; model, left: what a swap still has to
\* launch, and to restore if that fails.
Job == [verb : Verbs, model : Models \cup {None}, step : {"term", "load", "restore"},
        age : 0 .. Ready + Margin, left : Models \cup {None},
        caller : Callers \cup {None}]

ASSUME NoneAssumption == None \notin Server \cup Job

NoCall == [at |-> "idle", verb |-> "stop", model |-> None, waited |-> 0,
           thread |-> None]

RemoteTypeOK ==
    /\ agent \in BOOLEAN
    /\ server \in Server \cup {None}
    /\ marker \in Executors \cup {None}
    /\ call \in [Callers -> Call]
    /\ job \in [Executors -> Job \cup {None}]

RemoteInit ==
    /\ agent \in BOOLEAN
    /\ server = None
    /\ marker = None
    /\ call = [c \in Callers |-> NoCall]
    /\ job = [x \in Executors |-> None]

-----------------------------------------------------------------------------
(* The decision: should_delegate. *)

Ask(c, verb, m) ==
    /\ call[c].at = "idle"
    /\ call' = [call EXCEPT ![c] =
          [NoCall EXCEPT !.at = "decide", !.verb = verb, !.model = m]]
    /\ UNCHANGED <<agent, server, marker, job>>

\* local_agent_healthy: no agent that is down answers 200, and one that is up
\* may be too slow for the probe, or answer something else.
Healthy == IF agent THEN BOOLEAN ELSE {FALSE}

Delegates(c, healthy) == \/ Setting[c] \in {"always", "far"}
                         \/ Setting[c] = "auto" /\ healthy

Decide(c) ==
    /\ call[c].at = "decide"
    /\ \E healthy \in Healthy :
          call' = [call EXCEPT ![c].at =
                      IF Delegates(c, healthy) THEN "sent" ELSE "here"]
    /\ UNCHANGED <<agent, server, marker, job>>

-----------------------------------------------------------------------------
(* The verbs, executed by x for caller c.  A verb that has to wait becomes a *)
(* job; the others end where they begin.                                     *)

Begun(x, c, step, left) ==
    job' = [job EXCEPT ![x] = [verb |-> call[c].verb,
                               model |-> IF left = None THEN None ELSE call[c].model,
                               step |-> step, age |-> 0, left |-> left,
                               caller |-> c]]

Spawned(x, m) == [model |-> m, by |-> x, loading |-> TRUE]

\* An empty port and no marker: the server is launched.
StartWaits(x, c) ==
    /\ call[c].verb = "start" /\ server = None /\ marker = None
    /\ server' = Spawned(x, call[c].model) /\ marker' = x
    /\ Begun(x, c, "load", None)

SwapWaits(x, c) ==
    /\ call[c].verb = "swap" /\ marker = None
    /\ server # None /\ server.model # call[c].model
    /\ marker' = x /\ UNCHANGED server
    /\ Begun(x, c, "term", server.model)

StopWaits(x, c) ==
    /\ call[c].verb = "stop" /\ server # None
    /\ UNCHANGED <<server, marker>>
    /\ Begun(x, c, "term", None)

Waits(x, c) == StartWaits(x, c) \/ SwapWaits(x, c) \/ StopWaits(x, c)

\* already_running, rejected_*, already_empty, a delete of any outcome, and
\* the pre-flights and spawns that fail.
EndsAtOnce(c) ==
    \/ call[c].verb = "delete" \/ call[c].verb \in {"start", "swap"}
    \/ call[c].verb = "stop" /\ server = None

-----------------------------------------------------------------------------
(* How a job goes on and ends. *)

Mine(x) == server # None /\ server.by = x /\ server.loading

\* The server exits: it was stopped, or a swap has replaced it.
Frees(x) == marker' = IF marker = x THEN None ELSE marker

\* A job ends with success or with failure.
Ends(x) ==
    /\ job' = [job EXCEPT ![x] = None]
    /\ Frees(x)

Loaded(x) ==
    /\ job[x].step = "load" /\ Mine(x)
    /\ server' = [server EXCEPT !.loading = FALSE]
    /\ Ends(x)

\* It exited, or was not ready in time and is killed; a swap then restores.
LoadFails(x) ==
    /\ job[x].step = "load"
    /\ IF job[x].verb = "swap"
       THEN /\ server' = Spawned(x, job[x].left)
            /\ job' = [job EXCEPT ![x] =
                  [@ EXCEPT !.step = "restore", !.age = 0, !.left = None]]
            /\ UNCHANGED marker
       ELSE server' = (IF Mine(x) THEN None ELSE server) /\ Ends(x)

Restored(x) ==
    /\ job[x].step = "restore"
    /\ \/ Mine(x) /\ server' = [server EXCEPT !.loading = FALSE]
       \/ server' = IF Mine(x) THEN None ELSE server
    /\ Ends(x)

\* The server has been stopped; a swap goes on with its own.
Terminated(x) ==
    /\ job[x].step = "term" /\ server # None
    /\ IF job[x].verb = "swap"
       THEN /\ server' = Spawned(x, job[x].model)
            /\ job' = [job EXCEPT ![x] =
                  [@ EXCEPT !.step = "load", !.age = 0, !.model = None]]
            /\ UNCHANGED marker
       ELSE server' = None /\ Ends(x)

\* It had exited, or could not be stopped: an error, rejected_stop_failed.
TerminationFails(x) ==
    /\ job[x].step = "term"
    /\ UNCHANGED server
    /\ Ends(x)

\* What the answer is when x ends: started, swapped or stopped.
Succeeds(x) == Loaded(x) \/ (job[x].verb = "stop" /\ Terminated(x))
Advances(x) == \/ LoadFails(x) \/ Restored(x) \/ Terminated(x)
               \/ TerminationFails(x) \/ Loaded(x)

-----------------------------------------------------------------------------
(* In the caller's own process. *)

Hears(c) == call' = [call EXCEPT ![c] = NoCall]

RunsHere(c) ==
    /\ call[c].at = "here" /\ job[c] = None
    /\ \/ Waits(c, c) /\ UNCHANGED call
       \/ EndsAtOnce(c) /\ Hears(c) /\ UNCHANGED <<server, marker, job>>
    /\ UNCHANGED agent

AdvancesHere(c) ==
    /\ job[c] # None
    /\ Advances(c)
    /\ IF job'[c] = None THEN Hears(c) ELSE UNCHANGED call
    /\ UNCHANGED agent

-----------------------------------------------------------------------------
(* Through the agent. *)

\* POST: refused by the middleware or by nobody listening, or handed to a
\* thread.  /stop is answered with 202 before the server is terminated.
Refused(c) ==
    /\ call[c].at = "sent"
    /\ Hears(c)
    /\ UNCHANGED <<agent, server, marker, job>>

Handles(t, c) ==
    /\ call[c].at = "sent" /\ agent /\ job[t] = None
    /\ \/ /\ Waits(t, c)
          /\ IF call[c].verb = "stop" THEN Hears(c)
             ELSE call' = [call EXCEPT ![c] = [@ EXCEPT !.at = "wait", !.model = None,
                                                       !.thread = t]]
       \/ EndsAtOnce(c) /\ Hears(c) /\ UNCHANGED <<server, marker, job>>
    /\ UNCHANGED agent

Awaits(c, t) == call[c].at = "wait" /\ call[c].thread = t

AdvancesThere(t) ==
    /\ job[t] # None
    /\ Advances(t)
    /\ call' = [c \in Callers |->
          IF Awaits(c, t) /\ job'[t] = None THEN NoCall ELSE call[c]]
    /\ UNCHANGED agent

\* Faulty variants of Patience and of GivesUp.
PatienceOfControl(verb) == Control
GivesUpNever(c) == FALSE

\* _get_client: two of the verbs wait longer than the others.
Patience(verb) == IF verb \in {"start", "swap"} THEN Ready + Margin ELSE Control

\* httpx gives up; the handler does not know.
GivesUp(c) ==
    /\ call[c].at = "wait" /\ call[c].waited >= Patience(call[c].verb)
    /\ Hears(c)
    /\ UNCHANGED <<agent, server, marker, job>>

\* The answer of the thread will not arrive, and nothing says so.
Disconnects(c) ==
    /\ call[c].at = "wait" /\ call[c].thread # None
    /\ job' = [job EXCEPT ![call[c].thread].caller = None]
    /\ call' = [call EXCEPT ![c].thread = None]
    /\ UNCHANGED <<agent, server, marker>>

-----------------------------------------------------------------------------
\* The agent dies with its threads: the connections break, the servers live.
AgentDies ==
    /\ agent
    /\ agent' = FALSE
    /\ job' = [x \in Executors |-> IF x \in Threads THEN None ELSE job[x]]
    /\ marker' = IF marker \in Threads THEN None ELSE marker
    /\ call' = [c \in Callers |->
          IF call[c].at = "wait" /\ call[c].thread # None THEN NoCall ELSE call[c]]
    /\ server' = IF server = None THEN None ELSE [server EXCEPT !.loading = FALSE]

AgentComes ==
    /\ ~agent
    /\ agent' = TRUE
    /\ UNCHANGED <<server, marker, call, job>>

ServerExits ==
    /\ server # None
    /\ server' = None
    /\ UNCHANGED <<agent, marker, call, job>>

Limit(j) == IF j.step = "term" THEN Grace ELSE Ready

\* No job outlasts its limit, and no client its patience.
Tick ==
    /\ \A x \in Executors : job[x] # None => job[x].age < Limit(job[x])
    /\ \A c \in Callers :
          call[c].at = "wait" => call[c].waited < Patience(call[c].verb)
    /\ \/ \E x \in Executors : job[x] # None
       \/ \E c \in Callers : call[c].at = "wait"
    /\ job' = [x \in Executors |->
          IF job[x] = None THEN None ELSE [job[x] EXCEPT !.age = @ + 1]]
    /\ call' = [c \in Callers |->
          IF call[c].at = "wait" THEN [call[c] EXCEPT !.waited = @ + 1]
          ELSE call[c]]
    /\ UNCHANGED <<agent, server, marker>>

Asks(c) == \/ \E m \in Models, v \in {"start", "swap"} : Ask(c, v, m)
           \/ \E v \in {"stop", "delete"} : Ask(c, v, None)

CallerStep(c) == \/ Decide(c) \/ RunsHere(c) \/ AdvancesHere(c) \/ GivesUp(c)
                 \/ Refused(c) \/ \E t \in Threads : Handles(t, c)
ThreadStep(t) == AdvancesThere(t)

RemoteNext ==
    \/ \E c \in Callers : Asks(c) \/ CallerStep(c) \/ Disconnects(c)
    \/ \E t \in Threads : ThreadStep(t)
    \/ Tick \/ AgentDies \/ AgentComes \/ ServerExits

RemoteSpec == RemoteInit /\ [][RemoteNext]_remoteVars

(* Processes and threads are scheduled, and time passes. *)
RemoteFairness ==
    /\ \A c \in Callers : WF_remoteVars(CallerStep(c))
    /\ \A t \in Threads : WF_remoteVars(ThreadStep(t))
    /\ WF_remoteVars(Tick)
FairRemoteSpec == RemoteSpec /\ RemoteFairness

-----------------------------------------------------------------------------
(* No caller is told of a failure and then the verb succeeds, unless the     *)
(* connection broke (issues 140, 503): the client outlasts the handler,      *)
(* through the termination that precedes the load of a swap, and a stop is   *)
(* answered before the termination.                                          *)
NoFalseFailure ==
    [][\A t \in Threads :
          job[t] # None /\ job[t].caller # None /\ job[t].verb # "stop"
          /\ Succeeds(t) => Awaits(job[t].caller, t)]_remoteVars

(* Every call returns, also when the agent dies or the connection does.      *)
CallsReturn == \A c \in Callers : call[c].at # "idle" ~> call[c].at = "idle"
=============================================================================

------------------------------ MODULE NodeState ------------------------------
(***************************************************************************)
(* What one llauncher node keeps, and the llama-server processes it        *)
(* manages.  The node has no daemon that owns the truth: every surface     *)
(* (CLI, MCP server, HTTP agent threads, UI) runs the same verbs over      *)
(*   - {port}.lock   the claim that a pid serves a model on a port,        *)
(*   - {port}.swap   the in-flight marker of a start or a swap,            *)
(*   - config.json   the models that may be launched,                      *)
(*   - the operating system's process table and the servers' log files.    *)
(* A worker is one thread of one launcher process running one verb at a    *)
(* time.  A step of a worker is one operation on one of these shared       *)
(* objects, with the local computation around it; reads that commute with  *)
(* the next operation are merged into it.                                  *)
(***************************************************************************)
EXTENDS Naturals, FiniteSets

CONSTANTS
    Ports,        \* ports a server may be launched on
    Models,       \* model names
    Pids,         \* bound on the process table: pids of llama-server processes
    Workers,      \* threads that run verbs
    Launchers,    \* launcher processes the threads belong to
    LauncherOf,   \* [Workers -> Launchers]
    Duties,       \* [Workers -> SUBSET Verbs], the verbs each worker is asked for
    Env,          \* which of EnvEvents the environment may produce
    None,         \* no file, no process, no value
    Torn          \* a file created by O_EXCL whose writer died before its content

Verbs == {"start", "swap", "stop", "sweep", "delete", "add", "cancel"}

(* "exit": a server exits by itself.  "spawn": Popen raises.  "preflight": *)
(* the model-file or VRAM check says no.  "disk": creating a claim or a    *)
(* marker raises an OSError other than FileExistsError.  "tail": the ready *)
(* line of an earlier run is still within the log tail.  "reuse": the pid  *)
(* of a dead claimed server is given to an unrelated process.              *)
(* psutil.AccessDenied: "unreadable" when a server's command line is read, *)
(* "denied" when a process is signalled.                                   *)
EnvEvents == {"exit", "spawn", "preflight", "disk", "tail", "reuse",
              "unreadable", "denied"}

\* Lockfile: the pid and the model; the other fields are descriptive.
Claim == [pid : Pids, model : Models]

\* SwapMarker: llauncher_pid and started_at are the worker that took it.
Marker == [owner : Workers, cancelled : BOOLEAN]

\* A process: "loading" has not bound its port, "bound" listens, "serving"
\* has also written a ready line to its log; "alien" is not a llama-server.
\* kept: the verb that launched it reported success (history).
Process == [st : {"loading", "bound", "serving", "alien"},
            port : Ports \cup {None}, model : Models \cup {None},
            kept : BOOLEAN]

\* The local variables of a running verb.  stage is "back" while a swap
\* relaunches the previous model; out is the action it is going to report.
Outcomes == {"none", "started", "error", "raised", "cancelled",
             "rejected_preflight", "already_running", "swapped",
             "rolled_back", "failed", "rejected_stop_failed"}
Frame == [verb : Verbs \cup {"none"}, port : Ports \cup {None},
          model : Models \cup {None}, prev : Models \cup {None},
          pid : Pids \cup {None}, stage : {"new", "back"}, out : Outcomes]

Labels == {"idle", "clear", "take", "preflight", "launch", "claim", "race",
           "await", "kill", "unlock", "release", "same", "reclaim", "find",
           "term", "unclaim", "scan", "drop", "write"}

ASSUME ConstantsAssumption ==
    /\ LauncherOf \in [Workers -> Launchers]
    /\ Duties \in [Workers -> SUBSET Verbs]
    /\ Env \subseteq EnvEvents
    /\ None # Torn
    /\ \A x \in {None, Torn} :
          x \notin Ports \cup Models \cup Pids \cup Workers

\* The two values that stand for "no content" are no content.
ASSUME FilesAssumption ==
    /\ None \notin Claim \cup Marker \cup Process
    /\ Torn \notin Claim \cup Marker

VARIABLES
    lock,   \* [Ports -> Claim \cup {None, Torn}], the {port}.lock files
    mark,   \* [Ports -> Marker \cup {None, Torn}], the {port}.swap files
    proc,   \* [Pids -> Process \cup {None}], the process table
    logs,   \* <<model, port>> whose log tail shows a ready line
    store,  \* models in config.json
    up,     \* launchers that are running
    pc,     \* [Workers -> Labels]
    op,     \* [Workers -> Frame]
    snap,   \* [Workers -> [Ports -> Claim \cup {None}]], list_lockfiles() taken
    seen    \* [Workers -> Marker \cup {None}], marker read by request_cancel

files == <<lock, mark, store>>
local == <<pc, op, snap, seen>>
vars == <<lock, mark, proc, logs, store, up, pc, op, snap, seen>>

TypeOK ==
    /\ lock \in [Ports -> Claim \cup {None, Torn}]
    /\ mark \in [Ports -> Marker \cup {None, Torn}]
    /\ proc \in [Pids -> Process \cup {None}]
    /\ logs \subseteq Models \X Ports
    /\ store \subseteq Models
    /\ up \subseteq Launchers
    /\ pc \in [Workers -> Labels]
    /\ op \in [Workers -> Frame]
    /\ snap \in [Workers -> [Ports -> Claim \cup {None}]]
    /\ seen \in [Workers -> Marker \cup {None}]

NoFrame == [verb |-> "none", port |-> None, model |-> None, prev |-> None,
            pid |-> None, stage |-> "new", out |-> "none"]
NoSnap == [p \in Ports |-> None]

Init ==
    /\ lock = [p \in Ports |-> None]
    /\ mark = [p \in Ports |-> None]
    /\ proc = [q \in Pids |-> None]
    /\ logs = {}
    /\ store = Models
    /\ up = Launchers
    /\ pc = [w \in Workers |-> "idle"]
    /\ op = [w \in Workers |-> NoFrame]
    /\ snap = [w \in Workers |-> NoSnap]
    /\ seen = [w \in Workers |-> None]

-----------------------------------------------------------------------------
(* Reads of the shared state. *)

\* read_lockfile: absent and corrupt both read as nothing.
ReadLock(p) == IF lock[p] = Torn THEN None ELSE lock[p]

\* read_marker, likewise.
ReadMark(p) == IF mark[p] = Torn THEN None ELSE mark[p]

\* is_pid_alive: presence of the pid, whoever it belongs to now.
PidAlive(q) == proc[q] # None

\* is_cancelled
IsCancelled(p) == ReadMark(p) # None /\ ReadMark(p).cancelled

\* The processes find_server_by_port may return: it scans argv, so a server
\* that has not bound its port yet is found, and claims play no part.
ServersOn(p) == {q \in Pids : proc[q] # None /\ proc[q].port = p}

Listening(p) == \E q \in ServersOn(p) : proc[q].st \in {"bound", "serving"}

\* A pid the system may hand out: dead, and remembered by nobody.
Fresh == {q \in Pids :
            /\ proc[q] = None
            /\ \A p \in Ports : ReadLock(p) # None => lock[p].pid # q
            /\ \A w \in Workers :
                  /\ op[w].pid # q
                  /\ \A p \in Ports :
                        snap[w][p] # None => snap[w][p].pid # q}

-----------------------------------------------------------------------------
(* How a worker moves on. *)

Goto(w, label) == pc' = [pc EXCEPT ![w] = label]

Return(w) == /\ Goto(w, "idle")
             /\ op' = [op EXCEPT ![w] = NoFrame]

\* A verb that owns the marker reports out once its "finally" has run.
Finish(w, out) == /\ Goto(w, "release")
                  /\ op' = [op EXCEPT ![w].out = out]

Enter(w, label, verb, p, m) ==
    /\ Goto(w, label)
    /\ op' = [op EXCEPT ![w] = [NoFrame EXCEPT !.verb = verb, !.port = p,
                                               !.model = m]]

Idle(w, verb) == pc[w] = "idle" /\ verb \in Duties[w]

\* remove_lockfile: whatever the file says, it goes.
RemoveLock(p) == lock' = [lock EXCEPT ![p] = None]

-----------------------------------------------------------------------------
(* The llama-server processes. *)

\* The server binds its port; the system grants a port to one process.
Bind(q) ==
    /\ proc[q] # None /\ proc[q].st = "loading"
    /\ ~Listening(proc[q].port)
    /\ proc' = [proc EXCEPT ![q].st = "bound"]
    /\ UNCHANGED <<files, logs, up, local>>

\* The model is loaded and the server prints its "listening" line.
Serve(q) ==
    /\ proc[q] # None /\ proc[q].st = "bound"
    /\ proc' = [proc EXCEPT ![q].st = "serving"]
    /\ logs' = logs \cup {<<proc[q].model, proc[q].port>>}
    /\ UNCHANGED <<files, up, local>>

\* A server that cannot bind exits; any server may exit when Env says so.
Exit(q) ==
    /\ proc[q] # None /\ proc[q].st # "alien"
    /\ \/ "exit" \in Env
       \/ proc[q].st = "loading" /\ Listening(proc[q].port)
    /\ proc' = [proc EXCEPT ![q] = None]
    /\ UNCHANGED <<files, logs, up, local>>

\* An unrelated process gets the pid of a dead server that is still claimed,
\* but not while a verb is between finding a pid and signalling it.
Reuse(q) ==
    /\ "reuse" \in Env /\ proc[q] = None
    /\ \E p \in Ports : ReadLock(p) # None /\ lock[p].pid = q
    /\ \A w \in Workers : op[w].pid # q
    /\ proc' = [proc EXCEPT ![q] = [st |-> "alien", port |-> None,
                                    model |-> None, kept |-> TRUE]]
    /\ UNCHANGED <<files, logs, up, local>>

Environment == \E q \in Pids : Bind(q) \/ Serve(q) \/ Exit(q) \/ Reuse(q)
=============================================================================

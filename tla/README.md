# llauncher in TLA+

llauncher launches and manages `llama-server` processes, one per port. No
daemon owns the truth: the CLI, the MCP server, the HTTP agent's threads and
the UI all run the same stateless verbs (`src/llauncher/operations/`) over a
handful of files and the operating system's process table. Whatever keeps the
node consistent is therefore in the order in which those verbs look at files
and processes and change them, and that is what this project models, checks
and proves.

- [The system](#the-system): components, state, operations, interactions
- [What is hard about it](#what-is-hard-about-it)
- [The modules](#the-modules) and how they correspond to the code
- [The runs](#the-runs): what each checks, bounds, fairness
- [The proofs](#the-proofs)
- [Where the code and its documentation disagree](#where-the-code-and-its-documentation-disagree)
- [What is not modelled](#what-is-not-modelled), [the plan](#the-plan)

## The system

| component | state | operations | correct when |
|---|---|---|---|
| lockfile claims, `core/lockfile.py` | `{port}.lock`: pid, model, port, ... | `write_lockfile` (O_EXCL), `read_lockfile`, `remove_lockfile` (by port), `list_lockfiles`, `is_pid_alive` | a live server is claimed by exactly its port's file, and the file says what the server runs |
| in-flight markers, `core/marker.py` | `{port}.swap`: launcher pid, timestamps, `cancelled` | `take_marker` (O_EXCL), `read_marker`, `release_marker` (by port), `request_cancel` (read, then replace), `is_cancelled` | at most one start or swap is in flight on a port, and a marker nobody owns is recognisably stale |
| start, `operations/start.py` | local variables | reconcile, take marker, pre-flight, spawn, claim, poll readiness, release | it never leaves a server it does not report, never displaces one |
| stop, `operations/stop.py` | registry of background stops | blocking stop, background stop (dedupe, daemon thread), `join_inflight_stop` | what it reports stopped is gone and unclaimed |
| swap, `operations/swap.py` | local variables | pre-flight, take marker, stop the old server, launch the new one, relaunch the old one on failure | its report says which model is on the port, and is true |
| sweep, `operations/reconcile.py` | a listing of claims | remove each claim whose pid is dead | dead claims go, live ones stay |
| delete, `operations/delete.py` | a listing of claims | refuse if the model is claimed by a live pid, else drop it from the config | a running model keeps its config |
| processes, `core/process.py` | process table, log files, scan cache | `start_server`, `find_server_by_port` (argv), `stop_server_by_pid`, `wait_for_server_ready` | only servers of ours are signalled; "ready" means loaded |
| config store, `core/config.py` | `config.json`, `config.{pid}.tmp` | load (quarantine, migrate, perhaps save), add, update, remove, each over the whole file | a reader finds a whole file, a migration changes no command line, an edit changes its own entry |
| agent, `agent/server.py`, `routing.py`, `middleware.py`, `footer_cache.py` | startup sweep, shutdown reaper, TTL caches | one route per verb, on a thread pool; `/status` sweeps | shutdown stops what it should, once |
| delegation and remote verbs, `core/delegation.py`, `remote/node.py` | a request under way | probe `/health`, then run the verb here or send it, with a timeout per verb | one of both runs it; no failure is reported of a verb that goes on to succeed |
| node registry, `remote/registry.py`; agent token, `core/agent_token.py` | `nodes.json`, `node_tokens.json`, `agent.env`, a copy per process | load and migrate, add, remove, discover the local agent; resolve or generate a token | what is saved is loaded, a key stays with its address, launchers find the local agent's token |
| UI session, `ui/app.py`, `ui/tabs/model_card.py`, `state.py`; scan cache, `core/process.py` | refreshed state, observed orphans, dialog flags, two cached walks | click, callback, refresh, draw; walk, cache for 3 s, purge | a click ends the server it was for, an own launch is seen, an orphan is reported once each time it becomes one |
| MCP server, CLI | none a verb depends on | per call, a verb or an edit | as the parts they call |
| audit log, log rotation, footer cache, aggregator, settings, validation, GPU and model checks, metrics | files and caches of their own | append, shift, collect, read | descriptive: no step of the parts above is decided by them, but for the verdict of a pre-flight |

How they interact: by shared files and by signals, hardly ever by calls that
wait. `start` and `swap` exclude each other per port with the marker; `stop`,
`delete`, the sweep and a cancel take no marker. Claims are removed *by port
name* whatever they say, and servers are found *by command line* whatever the
claim says, so every verb can meet the traces of every other one. A cancel is
a flag in the marker that `swap` looks at in three places and `start` in two.
Servers bind, load, log and exit on their own.
Above the verbs are processes that keep copies: a UI session draws from a scan
that may be three seconds old, a front-end acts on a registry it loaded when it
started, a caller decides on a health probe and then waits for an answer that
may not come.

## What is hard about it

`PROJECT.json` lists the hazards line by line with the property that watches
each. In short:

- **interleavings** of two verbs on a port: two starts that both found a dead
  claim (`start.py:146`), a sweep and a start (`reconcile.py:72`), a stop that
  finds by argv the server another verb is just launching (`process.py:667`);
- **check-then-act over files**: a cancel that writes back a marker that was
  released meanwhile (`marker.py:187`), a rollback model read before the marker
  was taken (`swap.py:399`), a delete that listed the claims before a start
  wrote one (`delete.py:67`);
- **partial failure**: a spawned process whose claim cannot be written
  (`swap.py:107`), a launch that fails after the old server is gone and has to
  be undone by another launch, which may fail, too (`swap.py:523`); a process
  that may not be read (`process.py:776`) or signalled (`start.py:328`);
- **timeouts and cancels** that race readiness (`swap.py:135`);
- **crashes** of a launcher between any two of these steps, which leave a
  marker, a torn file or a server without a claim;
- **stale identity**: a dead server's pid given to an unrelated process;
- **whole-file edits** without a lock: of `config.json` by every surface, where
  even a load may write (`config.py:396`), and of the registry's files, in place;
- **caches and copies**: a click on a page whose port has changed hands
  (`model_card.py:57`), a launch hidden by a cached walk (`process.py:35`), a
  key filed by name when the name gets another address (`registry.py`);
- **clients' patience**: a timeout shorter than the handler reports a failure
  of a verb that succeeds (`node.py`); a busy agent that does not answer the
  probe looks dead, and the front-end runs the verb beside it (`delegation.py`);
- **upgrades**: a migration that has to keep what the old code emitted also for
  fields an entry does not have (`config.py:202`).

## The modules

```
NodeState ── Launch ─┬─ Start ─┬─ Swap ─┐
    │                └─ Stop  ─┘        ├─ Node ─┬─ NodeCrash
    └───────────────── Upkeep ──────────┘   │    ├─ Agent
                 (refined by Node) PortService   └─ NodeInv ── SerialInv
AgentInv extends Agent and SerialInv; MCNode extends SerialInv, MCNodeCrash
NodeCrash and SerialInv, MCAgent AgentInv.

NodeProofs (of NodeInv) ── NodeCrashProofs (and NodeCrash)
    ── SerialProofs (and SerialInv) ── AgentProofs (and AgentInv)

Migration ── ConfigStore ── StoreInv ─┬─ MCConfigStore   Remote ─┬─ MCRemote
                                      └─ StoreProofs             └─ RemoteProofs
AgentToken ── Registry ─┬─ MCRegistry                   Console ─┬─ MCConsole
                        └─ RegistryProofs                        └─ ConsoleProofs
```

| module | models | correspondence |
|---|---|---|
| `NodeState` | files, processes, workers; the environment | `lock`, `mark`, `store` are the files; `proc`, `logs` the process table and what a log tail shows; `pc`, `op`, `snap`, `seen` a running verb's place and local variables; `up` the launcher processes alive |
| `Launch` | the launch sequence of `start` and of `_launch_and_await_ready` | one action per operation on a shared object: `Spawn`, `ClaimPort`, `AwaitReady`, `KillUnready`, ...; the callers' differences are `WatchesCancel` and `AfterFailure` |
| `Start`, `Stop`, `Swap` | the verbs around it | the phases in order, one label each; swap's stop is module `Stop`'s |
| `Upkeep` | sweep, delete_model, add_model, request_cancel | a listing is taken at once and worked off claim by claim; a cancel reads, then writes |
| `Node` | all verbs, run by any number of workers | properties of a node whose launchers live |
| `NodeCrash` | plus launchers that die at any step | `Crash` idles the workers and may leave files created but empty (`Torn`) |
| `Agent` | plus the agent's background stops and its shutdown | `inflight` is `_inflight`, `job` what a thread closes over, `request` a `POST /stop`; the threads and the reaper are workers that run module `Stop`'s blocking stop; `phase`, `todo`, `cur` are the lifespan's loop |
| `PortService` | what callers are promised | each port serves a model or nothing, and a start, swap or stop changes that in one step |
| `NodeInv`, `NodeProofs`, `NodeCrashProofs` | the inductive invariant of any verbs, and its proofs | see [below](#the-proofs) |
| `SerialInv`, `SerialProofs` | what a verb that is alone relies on at each of its steps, with its proofs | `Point` goes through the labels of the verbs |
| `AgentInv`, `AgentProofs` | what stops rely on that meet other stops, and the shutdown's reaper, with their proofs | `StopAt`, `RequestAt`, `ThreadAt` go through the stops' labels, `Due` through the reaper's loop |
| `Migration` | the migration of one entry of `config.json`, as operators | an entry is, per rule by which `build_command` used to emit a flag, the value of the dropped field and what `extra_args` says; `Quarantined`, `Migrated`, `Dirty` are the code's, `Argv` the reference, `Complete` what an entry has to say for the two to agree |
| `ConfigStore` | `config.json` and everybody who loads and saves it | names refer to inodes, as a writer keeps the one it opened; `at` walks `load`, `save` (open, dump, replace, tidy) and back into the caller (`Continue`); `Dies` leaves the temporary file |
| `AgentToken` | `agent.env` and a starting agent | `AgentStarts` is `run_agent` up to the bind with its refusals, `AgentFinds` is `resolve_agent_token`; generation empties the file and writes it |
| `Registry` | the processes that keep a copy of the registry, with `AgentToken` | `FrontStarts`, `FrontLoads` are `_load` with the stamping of keys, `NodesEmptied` ... `TokensWritten` the saves in place, `AddNode`, `RemoveNode`, `FindsLocalAgent` the edits |
| `Remote` | verbs as their callers reach them: delegation, client timeouts, routes, threads | `call` is a caller's request, `job` a verb a thread executes; `Healthy` is the probe, which may fail beside an agent that is up, `Decide` is `should_delegate`, `Handles` a route with its early answers, `GivesUp` and `Disconnects` what httpx raises; time is `Tick` |
| `Console` | a UI session, its process's scan cache, and the host moving on | a click runs its callback (`StopClicked`, `StartClicked`, `EvictionConfirmed`, ...), then the script refreshes (`Refreshes`, with `list_orphans`) and draws (`Draws`); every other launcher, server and session is a `HostStep` (claims come and go, also those of live servers), `OtherEdits`, or a walk for one of the two cache entries that is stored late (`OtherWalks`, `OtherLists`, `OtherFinds`) |
| `StoreInv`, `StoreProofs`, `RegistryProofs`, `RemoteProofs`, `ConsoleProofs` | their inductive invariants and proofs | see [below](#the-proofs) |
| `MC...` | constants of the runs | who is asked for which verbs, what the files hold at first |

A **worker** is one thread of one launcher running one verb at a time; the
agent's thread pool, a CLI invocation and an MCP call are all workers. A step
is one operation on a shared object with the local computation around it.

Abstractions, and why they are sound:

- A claim is its pid and its model, a marker its owner and its flag. The other
  fields are descriptive; no code decides by them.
- The pid and time in a marker stand for the worker that took it; "the holder
  is dead" is "its launcher is not up".
- Readiness is what `wait_for_server_ready` asks for: child alive, somebody
  listening on the port, a ready line of *this model on this port* in the log
  tail. A new run may (Env `tail`) or may not find the last run's line there.
- The timeout may strike at any time (`AwaitFails`): how long a model takes is
  not the program's to know.
- SIGTERM, grace and SIGKILL are one step that ends the process, or with Env
  `denied` may raise AccessDenied and leave it: a launch that cleans up logs
  that and goes on, a stop or a swap is left by the exception. A pid is not
  reused between being found and being signalled (that window is microseconds,
  and the kernel's).
- One server at a time listens on a port; others exit when they try.
- Calls that are refused without having changed anything are stuttering steps.
- For the verbs `config.json` is a set of models with atomic add and remove;
  how it is read and written is `ConfigStore`.
- A live writer creates and fills a claim or a marker in one step; only a crash
  leaves it empty.

And in the modules above the verbs:

- `Migration` keeps of a value what the rules tell apart: null, false-like, a
  scalar, a list or object. One flag stands for all of its rule.
- `ConfigStore`: the JSON text is whole, torn, or another file's content; a
  write over a longer text leaves a torn one. An inode nobody refers to is new.
- `Registry`: a node is its address and key; `agent.env` its token lines. An
  entry of an older form is recognised and rewritten, a bad one dropped, as in
  `_load`. The order of reading the files is kept, each read is one step.
- `Remote` has of a verb what its callers can tell: whether it ends at once,
  how long it waits and what is on the port. Modules `Start`, `Stop`, `Swap`
  have the rest. The agent's thread pool always has a thread for a request, a
  dead agent's marker is gone at once (nothing checked here depends on it), and
  a swap that has to restore may outlast its client: it then ends in a failure,
  as the client was told.
- `Migration`: an entry with a dropped field was written for the old
  `build_command`, which gave an "always" field that is absent its default; an
  entry with none is read as a current one, as nothing tells it from one.
- `Console`: one session step by step, the others by the walks they cache. A
  verb is one step of the host and may be run here (the scan cache is purged)
  or by an agent (it is not). Two processes never name one port.

`Env` names what may go wrong in a run of the node: `exit` (servers exit), `spawn` (Popen
raises), `preflight` (a check says no), `disk` (a file cannot be created, for a
reason other than that it exists), `tail` (old ready lines), `reuse` (pids),
`unreadable` (the scan for a port's server passes over a process it may not
read), `denied` (a process may not be signalled).

## The runs

| run | question | instance |
|---|---|---|
| `operator` | Does any sequence of calls of one operator, cancelled at any moment, keep claims, servers and config consistent and report the truth? Do the verbs implement `PortService`? | 2 ports, 2 models, 4 pids; 44k states |
| `contend` | What holds when starts, swaps, stops, cancels and sweeps really meet on a port while servers exit and pids are reused? | 1 port, 2 models, 3 pids, 3 workers; 800k states |
| `swept` | Does a dead server's claim go away? (liveness) | 1 port, 2 models, 2 pids, an operator and a sweep; 54k states |
| `crash_relay` | What does a launcher that dies at any step leave to the next one? | 3 launchers, one call at a time, 4 pids, old log lines; 7k states |
| `crash_survive` | What holds for two launchers that contend while one may die, and do the survivor's verbs return? (safety and liveness) | 2 launchers, 1 port, 2 models, 3 pids; 169k states |
| `stops` | Do the agent's background stops, other processes' stops and the agent's shutdown agree? (safety and liveness) | 2 requests, 2 stop threads, the reaper, a worker of another process, 1 port, 3 pids; 47k states |
| `edits` | Do concurrent readers and editors of `config.json`, with full disks and deaths, find it whole and leave each other's entries alone? Does a load that migrates lose anything? | 2 processes, 2 names, 3 inodes; an old entry beside one that overrides flags or one that is broken, a current one beside one with an unknown key; 620k states |
| `fleet` | Does the registry come back from its three files as it was saved, with every key at its address and the agent's token for the local node? | 2 front-ends, 2 agents, names `box` and `local`, 2 addresses, 1 operator's token; 2.8M states |
| `remote` | Does a caller learn a failure of a verb that succeeds? Does every call return? (safety and liveness) | a front-end and a caller on another machine, 2 threads, 2 models; Control 1, Grace 1, Margin 2, Ready 2 ticks; 195k states |
| `console` | What can a click on a page that is out of date end, and what does the next refresh show and report? | 3 models, 1 port, 2 pids, 2 launches, 1 armed dialog, 1 model missing from the config; 2.8M states, the longest run (2-3 minutes) |
| `v_start_race`, `v_late_stop` | disagreements with the documentation, see [below](#where-the-code-and-its-documentation-disagree) | the smallest instance that shows each |

**Properties.** `operator`: `NoOrphan` (every live server is claimed or being
launched), `OneServerPerPort`, `RunningIsConfigured` (delete refuses a running
model), `Truthful` (what is reported is on the port), `ImplementsService`
(refinement), `OperatorInv` (the invariant behind these). `contend`: `IInv` (the inductive invariant of any
verbs, of which `MarkerMutex` and `ClaimMatchesProcess` are conjuncts),
`NoLeak` (a verb that fails stops its own server), `LaunchUndisturbed` (only its
own verb, or a stop, ends a server that is loading), `StrangersSpared` (no
signal on a claim's word). `swept`:
`DeadClaimsPruned`. `crash_relay`: `OrphansWereNeverReported` (what was
reported started keeps its claim through later crashes), `ReportsAreClaimed`,
`Serial` (the invariant behind both).
`crash_survive`: `ClaimMatchesProcess`, `StaleMarkersHaveDeadOwners`,
`VerbsReturn`. `stops`: `TerminationsRegistered`
(one background termination per port, and the registry knows it),
`AcceptedIsStopped` (liveness), `AgentSafe` (the
agent's type invariant and what its stops rely on) and `Reaping` (what the
shutdown relies on), both inductive and proved, `ShutdownReaps` (the
agent does not end before the servers it found running have, also those of a
background stop that outlasts the wait).

`edits`: `ConfigIsWhole`, `MigrationPreserves` (the rewrite of a load changes
no entry's command line and drops none, but for what others changed since),
`EditsAreLocal` (likewise an edit, whose own entry and quarantined ones are
excepted; a file that cannot be read is not an empty one), `StoreSafe` (the
invariant behind the three). `fleet`: `AgentAndClientsAgree` (an agent that took its token from
the file demands what the file says), `SavedFleetIsLoaded`, `KeysGoWhereGiven`
(a key filed by name is not sent to the name's next address),
`LocalKeyOpensAgent`. `remote`: `NoFalseFailure` (the client outlasts the
handler, through the stop inside a swap), `CallsReturn`. That a front-end never
spawns beside an agent is not claimed: its probe may fail while the agent is up,
and the code promises no more than the fallback (`delegation.py:28`).
`console`: `StopHitsItsModel` and `EvictsOnConsent` (a click ends a server it
was not for only if the port changed hands in between), `OrphansReportedOnce` (an
event each time a server becomes an orphan: when it starts, when its claim is
removed while it lives, when a walk that was too early for it is cached late;
`state.py:158` says that an orphan that left and is back is recorded again),
`OwnStartsAreSeen` (a launch in this process is in the next refresh, unless
another session's walk was under way).

**Why these bounds.** Ports do not interact but through `delete_model` and the
process table, so two ports are only needed for `operator`. Two models give a
swap its two sides; a third matters only for a model that changes between a
read and a stop, which is one of the
[disagreements](#where-the-code-and-its-documentation-disagree). A worker holds at most one pid and a
port at most one claim; with `n` workers on a port `n` pids let every worker
launch at once, and one more lets a dead server's pid be remembered. Three
workers are what the shared files need: two that race and one that disturbs;
`contend` gives the third the verbs without a marker. Pids and models are
symmetric where no liveness is checked.

`NoOrphan`, `Truthful` and `RunningIsConfigured` are checked for one operator
(with cancels): with two they fail, and the first is run `v_start_race`.
`disk` and `denied` are only in `swept`: they break `NoLeak`, `NoOrphan` and, by
way of a leaked server that a later stop finds by argv, the claim of a
reported one. `unreadable` breaks none of these and is in `operator` and
`crash_survive`, too. `contend` has `exit` and `reuse` but no `tail`, `spawn` or
`preflight`: these only choose between branches that cancels and timeouts
already take.

In `edits` two processes are enough for a lost update, three inodes for a
config and a temporary file each; the second name shows what an edit does to an
entry it is not about. One process of each kind is what a stale copy needs in
`fleet`, and one more to make it stale; an address may be exchanged and `local`
is the name with rules of its own. `remote` has one port and ticks only as
large as the code's order of them asks for: `Control < Ready` (5 s, 120 s),
`Grace < Margin` (the stop's graces, 30 s). `console` has a third model so that
the port may go from the clicked model's server to the one the page showed and
to another. Its bound
`MaxStarts` ends the host's activity, after which nothing need be left to do,
so it alone turns the deadlock check off.

`stops` is a run of `PatientSpec`: who starts a server waits until the stops
the agent has accepted are over, and who asks for a stop until the starts are.
Without that patience an accepted stop may hit the next server: that is
`v_late_stop`, a run of `AgentSpec`, which leaves out launches that fail so that
the server it hits is one that was started.
Stops still meet stops and the shutdown in every order, and the shutdown meets
starts.

`fleet` is a run of `OneByOneSpec`: one process at a time has the registry's
files or `agent.env` open, which nothing in the code sees to and an operator at
a keyboard mostly does. What the others have in memory may still be old, agents
start, serve and stop in between, and two of them may be told to use one port.

**Fairness.** `WorkerFairness` is weak fairness of each worker's *steps*, not
of its calls: a thread that runs a verb is scheduled, no verb takes a lock that
another one holds across a wait, and the only loop, the readiness poll, has a
timeout. Servers are given none: a model may load for ever. `SweepFairness`
adds that sweeps keep being called, as the agent sweeps on every `/status` and
its clients poll that. Crashes are never fair. `RemoteFairness` schedules
callers and threads and lets time pass; an agent need not come back, a
connection need not break and a client need not ask. `AgentFairness` schedules
the agent's requests, its threads' ends and, once it has begun, its shutdown;
nobody has to ask for either. `ConfigStore`, `Registry` and `Console` have
safety properties only and no fairness.

## The proofs

Checked by TLAPS for every value of the constants (any number of ports,
models, pids, workers, launchers, processes, names, agents, callers, every
`Env`, every timeout), unless an assumption is named:

| theorem | module | says |
|---|---|---|
| `ShapeInvariant` | `NodeProofs` | `Spec => []Shape` |
| `TypeCorrect` | `NodeProofs` | `Spec => []TypeOK` |
| `MarkerExcludes` | `NodeProofs` | `Spec => []MarkerMutex` |
| `ClaimsAreTrue` | `NodeProofs` | `Spec => []ClaimMatchesProcess` |
| `StrangersAreSpared` | `NodeProofs` | `Spec => StrangersSpared` |
| `NothingLeaks` | `NodeProofs` | `Spec => []NoLeak`, without `disk`, `denied` |
| `LaunchesUndisturbed` | `NodeProofs` | `Spec => LaunchUndisturbed` |
| `NodeInvariant` | `NodeProofs` | `Spec => []IInv` |
| `CrashTypeCorrect` | `NodeCrashProofs` | `CrashSpec => []TypeOK` |
| `CrashClaimsAreTrue` | `NodeCrashProofs` | `CrashSpec => []ClaimMatchesProcess` |
| `MarkersAreExplained` | `NodeCrashProofs` | `CrashSpec => []StaleMarkersHaveDeadOwners`, assuming nobody cancels |
| `OneOperatorOrphansNothing` | `SerialProofs` | `Spec => [](NoOrphan /\ OneServerPerPort)`, for one operator, without `disk`, `denied` |
| `OneOperatorRunsConfigured` | `SerialProofs` | `Spec => []RunningIsConfigured`, likewise |
| `OneOperatorIsServed` | `SerialProofs` | `Spec => ImplementsService` (refinement), for one operator, without `disk`, `denied`, `exit`, `reuse` |
| `OneOperatorTruthful` | `SerialProofs` | `Spec => []Truthful`, for one operator, without `disk`, `denied`, `exit`, `reuse`, `tail` |
| `OneOperatorInvariant` | `SerialProofs` | `Spec => []OperatorInv`, likewise |
| `SerialIsKept` | `SerialProofs` | `SerialSpec => []Serial`, without `disk`, `denied` |
| `OrphansNeverReported` | `SerialProofs` | `SerialSpec => []OrphansWereNeverReported`, likewise |
| `ReportedIsClaimed` | `SerialProofs` | `SerialSpec => []ReportsAreClaimed`, likewise |
| `AgentTypeCorrect` | `AgentProofs` | `AgentSpec => []AgentTypeOK` |
| `TerminationsAreRegistered` | `AgentProofs` | `AgentSpec => []TerminationsRegistered` |
| `AgentStopsAreSafe` | `AgentProofs` | `PatientSpec => []AgentSafe`, for one operator beside the agent, without `disk`, `denied`, `unreadable` |
| `ReaperMissesNothing` | `AgentProofs` | `PatientSpec => []Reaping`, likewise and if the operator does not swap |
| `ShutdownLeavesNothing` | `AgentProofs` | `PatientSpec => ShutdownReaps`, likewise |
| `MigrationKeepsArgv` | `StoreProofs` | an entry that is not quarantined launches the same command line after `Migrated` if and only if it is `Complete` |
| `MigrationIsDone` | `StoreProofs` | a migrated entry is neither dirty nor quarantined, and migrating it again changes nothing |
| `StoreKeepsTypes` | `StoreProofs` | `StoreSpec => []StoreTypeOK` |
| `ConfigStaysWhole` | `StoreProofs` | `StoreSpec => []ConfigIsWhole`, assuming `OneThreadEach` |
| `SavesAreInOrder` | `StoreProofs` | `StoreSpec => []StoreSafe`, likewise and with `SeedsSaved` |
| `MigrationsPreserve` | `StoreProofs` | `StoreSpec => MigrationPreserves`, with both |
| `EditsStayLocal` | `StoreProofs` | `StoreSpec => EditsAreLocal`, with both |
| `RegistryKeepsTypes` | `RegistryProofs` | `OneByOneSpec => []RegistryTypeOK` |
| `OneTokenForAll` | `RegistryProofs` | `OneByOneSpec => []AgentAndClientsAgree` |
| `KeysStayHome` | `RegistryProofs` | `OneByOneSpec => []KeysGoWhereGiven` |
| `FleetSurvives` | `RegistryProofs` | `OneByOneSpec => []SavedFleetIsLoaded` |
| `LocalKeysOpen` | `RegistryProofs` | `OneByOneSpec => []LocalKeyOpensAgent` |
| `RemoteTypes` | `RemoteProofs` | `RemoteSpec => []RemoteTypeOK` |
| `NoFailureIsFalse` | `RemoteProofs` | `RemoteSpec => NoFalseFailure` |
| `ConsoleTypes` | `ConsoleProofs` | `ConsoleSpec => []ConsoleTypeOK` |
| `OrphansAreReportedOnce` | `ConsoleProofs` | `ConsoleSpec => []OrphansReportedOnce` |
| `StopsHit` | `ConsoleProofs` | `ConsoleSpec => StopHitsItsModel` |
| `EvictionsAreConfirmed` | `ConsoleProofs` | `ConsoleSpec => EvictsOnConsent` |
| `OwnLaunchesAreSeen` | `ConsoleProofs` | `ConsoleSpec => OwnStartsAreSeen` |

**Assumptions** on constants are `ConstantsAssumption` and `FilesAssumption`
(`NodeState`): who works for whom, and that `None` and `Torn` are not values
of anything else; `AsksAssumption` (`Node`) says so of the refinement's calls.
`AgentAssumption` (`Agent`) names the agent's workers, which are asked for
nothing but stops. `StoreAssumption`, `TokenAssumption`, `RegistryAssumption`,
`NilAssumption`, `NoneAssumption`, `ConsoleAssumption`, `NoServerIsNone` and
`NoWalkIsNone` say
likewise what the constants are and that the no-value is apart.
`RemoteAssumption` adds the order of the timeouts: a control call's is shorter
than the readiness timeout (5 s and 120 s), and a termination ends within the
margin (30 s; the graces of 3 s and 5 s are settings, so an operator can break
this one). TLC evaluates them in every run of their module.

**Hypotheses** of single theorems are the conditions under which the code keeps
the promise; without them TLC finds it broken.
- *One operator* (`OneOperator(o)`): any number of workers, of which `o` runs
  verbs and the others cancel, on any ports and at any moment. With two
  operators `NoOrphan` fails (`v_start_race`).
- *Without `disk`*: a claim can be created, unless it exists; otherwise the new
  process leaks.
- *Without `denied`*: our own servers can be signalled; otherwise the server of a
  failed launch lives on without a claim.
- *Without `unreadable`*: a stop finds the server on its port; otherwise it ends
  in an error, and the shutdown may leave the server.
- *Without `exit`, `reuse`*: a server that dies by itself makes the report of
  its start untrue, and an abstract service does not lose servers.
- *Without `tail`*: an old ready line makes a report of a server that has not
  loaded.
- `OneThreadEach`: each process has one thread that saves `config.json`.
- `SeedsSaved`: what `config.json` holds at first was written by a save, which
  writes every field; an entry written by hand may lack one (`config.py:202`).
- *No swap* during the shutdown: the listing is one of pids, and a swap could
  launch its model, or the old one again, under a listed pid behind the
  reaper's back.

**The argument.** `TypeOK` is not inductive: a verb's local variables are only
meaningful at some of its labels. `Shape` (`NodeInv`) adds which:
`FramesOK` says what a frame holds where (a launch has a port and a model, a
swap past its marker has a previous model, a verb about to signal has a pid),
`ProcessesOK` that a server has a port and a model and a stranger has none,
and `PidsOK` that the pid a worker is about to claim or signal is nobody's or
a server's on the worker's own port. `PidsOK` is what makes the later theorems
work: it carries what `find_server_by_port` saw to the signal, over every step
of the others. `NodeProofs` shows it step by step, with one lemma per way of
moving on (`Goto`, `Finish`, `Return`, `Enter`, `AfterFailure`).

`MarkerMutex` is inductive only together with `MarkersHeld`: whoever is in
flight finds a file at its port's marker, so O_EXCL fails for the others. Each
step is classified by what it does to the markers (`Effect`: quiet, takes,
leaves, flags). `ClaimMatchesProcess` needs `PidsOK` at the one step that
writes a claim; all others only remove claims or processes. `NoLeak` follows a
process from its spawn: its worker stays in charge of it until it reports it
or stops it, unless writing the claim raises or the signal is refused, which is
why `disk` and `denied` are excluded. `LaunchUndisturbed` combines `PidsOK` (the killer works
on the same port) with `MarkerMutex` (it is no start or swap).

With crashes `MarkersHeld` fails (a stale marker may be cleared by two
swaps), and so does mutual exclusion with three launchers. What survives is
`Shape`, hence the truth of claims, and that a marker without a verb in flight
names a dead launcher: `StaysInFlight` and `OutOfFlight` say that a verb in
flight leaves the markers alone until its `finally`.

*One verb at a time.* `Serial` says what such a verb may rely on. `World` is
about the ports: each server is the one its lockfile claims (`Covered`), or its
launch has just spawned it (`Unclaimed`), or it is what a launcher left that
died in that moment, and then the port is under a marker and without a readable
claim, where no verb gets to (`Stuck`). `Point` is about the worker: which
servers and which claim it finds on its port at each label, and what it is going
to report. A step is either the worker's own, after which its next label's facts
follow from this one's, or `Gentle` to the others: it removes claims only of
ports without a server. `Serial` survives crashes, so it serves
`SerialSpec` too; a cancel writes a marker and nothing else, so it may come from
anybody (`Undisturbed`). On it rest, for launchers that live: `Configured` (what
is to be launched is in the config, a delete has seen the claim of every server
of its model), `Settled` (the server a swap found, and the one whose launch was
reported, are there, as none exits) and `Serving` (a ready line in the tail is
the launched server's own). `Truthful` is what these say of a verb about to
report.

*Refinement.* The abstract service has a map of ports to what they serve; `View`
gives a port under a start or a swap its value of before until the verb ends
(`Held`). Each step of a verb but its last is then a stutter, and the last one
is a start, a swap, a stop or nothing, by its outcome; `Displacing` says that a
start had nothing to displace and a swap another model than its own. The service
needs no fact about ready lines, hence `tail` is allowed here.

*Agent.* `AgentShape` adds who works on which stop: a registered thread has a
job, its job names its port, and the agent's workers run stops only. This is all
`TerminationsRegistered` needs, so it holds for any callers. That a stop hits the
server it was accepted for is an argument about stops that meet (`Meeting`):
`Point` is too strong for them, as another stop may take the claim away between
two steps. What remains is that a stop which has not found a server has none on
its port (`StopAt`), that a server on a port a request or thread works on is the
one it was accepted for (`RequestAt`, `ThreadAt`), and that nothing is launched
meanwhile, which is what `PatientSpec` is about. `Meeting` ends when the shutdown
starts and all accepted stops are over, as then starts and the reaper may meet.

*Shutdown.* For those times there is `Reaping`: each server listed is gone, its
pid a stranger's, or it is `Watched`: whoever is at work on its port is about to
stop that server or has launched it itself (`Near`), and somebody is due to stop
it (`Due`): the port is still to be looked at, or its background stop is being
joined, or the reaper's own stop has not signalled yet. Every step of another
verb that could take the claim of a listed server is one of a stop on its way
out (`Near`), and a start on its port finds the claim and refuses.

*Store.* `WholeInv` says that no two names refer to one inode and that a
temporary file is torn exactly while its one writer has it open: so a rename
never publishes a torn file. A second thread of a process may empty the file
between the first one's write and its rename, which is why the theorem asks for
one thread each. `CopiesAgree` relates every copy to the file since its load:
what is about to be written (`Written`) agrees with what is stored, but for the
writer's own entry, the entries that somebody else saved meanwhile (`since`) and,
for an edit, those that could not be loaded (`Agrees`). A load that migrates has
found nothing quarantined, so it loses nothing; `MigrationKeepsArgv` then says
that what it rewrote launches as before, since every entry names its
always-emitted options (`AllComplete`): saves write all fields, so this is kept
from the seeds on. `MigrationKeepsArgv` is an argument over the rules: where the
migration places a flag is where `build_command` would have emitted it, but for
the default of an absent field, which it cannot see.

*Registry.* A key is filed by name, its address in another file. `RegInv`
relates the two while nobody is between them (`FilesKnown`), every copy to what
was given (`CopiesKnown`), and a process in the middle of a save to the file it
has already written (`Written`), or of a load to the one it has read
(`Reading`). `TokensOK` says that a token is generated only while the file has
none, and that one agent starts at a time, which `OneByOneSpec` gives.

*Remote.* `Linked` bounds how long a client can have waited for a job that may
still succeed by how long the job has run (`Elapsed`: a swap's termination
first, then its load), and `JobOK` bounds the job; the client's patience is
more than both.

*Console.* `ViewOK`: what the state says of a port is there, unless the port
changed hands since the state was refreshed; it may be wrong only between a stop
click and the refresh of its callback. `MineOK`: a purge leaves no walk, cached
or under way, without the session's own launches. `Remembered` follows a
reported orphan through the caches: it stays in the deduplicating set or has
its claim, and the cached walk has it, until a walk that is cached late or the
removal of its claim makes it an orphan anew.

**Only model-checked:** liveness (`VerbsReturn`, `DeadClaimsPruned`,
`AcceptedIsStopped`, `CallsReturn`), which needs fairness and `ENABLED` and is
out of the prover's reach. Every other property of a passing run is a theorem,
under the hypotheses named above. `MarkerMutex`, a conjunct of `IInv`, is a
theorem where no launcher dies; where launchers die, three of them break it
(`swap.py:718`).

## Where the code and its documentation disagree

With a run that TLC finds violated, and an entry in `PROJECT.json`:

- `v_start_race`: `start` removes a stale claim by port name before it holds
  the marker (`start.py:146`). Of two starts that found the same dead claim,
  the slower removes the claim the faster has just written. `lockfile.py:3`
  calls the lockfile the authoritative claim.
- `v_late_stop`: the thread of an accepted background stop looks for the server
  by port when it gets to (`stop.py:118`). After another process has stopped the
  accepted server and started a new one, the thread ends the new one.
  `stop.py:56` says that a concurrent stop "at worst re-terminates",
  `stop.py:289` "wasteful, never incorrect".

Seen in the model as well, without a run of their own. In the node:

- an `OSError` from `write_lockfile` other than `FileExistsError` leaves the new
  process running, unclaimed (`swap.py:107`, `start.py:280`), though `swap.py:88`
  says a failed launch cleans up after itself: `NoLeak` fails with
  `Env = {"disk"}`;
- swap reads `previous_model` before it takes the marker (`swap.py:399`) and
  stops by port, so it may stop another model than the one it would restore
  (`swap.py:65`: "what was there before the swap"): with three models
  `SwapStopsPrevious` (`Node`) fails;
- `request_cancel` reads and replaces the marker (`marker.py:187`); a release in
  between is undone and the port keeps a marker no verb owns, though
  `marker.py:155` says "Atomic read-modify-write": `MarkerOwned` (`Node`) fails
  with a start and a cancel;
- a sweep that listed a dead claim removes the port's file also when a start has
  written its own claim there since (`reconcile.py:72`): `NoOrphan` fails with a
  start and a sweep as it does in `v_start_race`;
- a process that may not be signalled raises out of `stop_server_by_pid`
  (`process.py:742` catches NoSuchProcess only). A launch that cleans up logs it
  and removes the claim, and the server lives on as an orphan; a stop and a
  swap's stop pass it on. `stop.py` takes psutil's errors to be "already absorbed
  inside core.process" and catches OSError only, and so does the reaper, which
  one such server ends although "one bad lockfile cannot abort the reap loop"
  (`server.py:338`);
- swap reports `rejected_stop_failed`, documented as "old still running"
  (`swap.py:46`), when the old server exited by itself before the stop;
- a start that is cancelled while it polls reports `started` (`start.py:321`
  passes no `cancel_check`), although ADR-LLNCH-014 lists that checkpoint;
- with an old ready line in the log tail, a server that listens but has not
  loaded counts as ready (`process.py:1260`);
- a start that runs while `delete_model` scans is missed, and its model then
  runs without a config (`delete.py:67`);
- a swap that finds a dead launcher's marker releases the port's marker by name
  and takes its own (`swap.py:718`). Of two swaps that judged the same marker
  stale, the second releases the marker the first has just taken, and both go
  on, though `marker.py:10` guarantees that a second swap is rejected "rather
  than racing with the in-flight swap": `MarkerMutex` fails under `CrashSpec`
  with three launchers, one dead;
- a launcher that dies in a start before the claim leaves a marker that no
  start looks into (`start.py:177`) and no swap reaches, as the port is empty;
- a lockfile whose writer died before filling it reads as absent and blocks
  every later claim of its port (`lockfile.py:100`);
- a stop that is repeated while the thread of the first one is about to end is
  answered with "stopping" and does nothing (`stop.py:204`), also when a new
  server runs on the port by then;
- the reaper skips a port whose background stop ended in an error
  (`server.py:361`): the thread has returned, but "lockfile removal and audit
  emission already happened" need not be so;
- a stop through the agent is answered before the server is gone, so a start
  that follows at once may be told `already_running` or occupied.

In the modules above it:

- two threads of one process share `config.{pid}.tmp` (`config.py:441`): one may
  empty the file the other is about to rename, and a reader finds it torn.
  `ConfigIsWhole` fails when both threads of `edits` are of one process. The
  comment above that line speaks of processes only;
- of two concurrent edits of `config.json` the first is lost where both changed
  (`since` in `ConfigStore` is what `EditsAreLocal` has to except);
- an add, update or removal saves the models that loaded, and so deletes every
  quarantined entry, whatever model it is about (`config.py:461`).
  `config.py:318`: "rewriting would delete the very entries the operator has to
  hand-fix" is why a load does not rewrite then: `EditsKeepQuarantined`
  (`ConfigStore`) fails with `Seeds <- OneBroken`;
- the migration goes through the dropped fields an entry has (`config.py:202`),
  so an entry that has one and lacks an "always" field gets no such option,
  where `build_command` gave it the default. `config.py:61`: the default "must
  be materialized on migration or every persisted config's argv silently changes
  on upgrade"; ADR-LLNCH-026 says "byte-identical [...] for every config on
  disk". `MigrationPreserves` fails with `Seeds <- HandWritten`; an entry the old
  program saved has all fields;
- `nodes.json`, `node_tokens.json` and `agent.env` are written in place and
  without a lock: processes that do not take turns (`OneByOneSpec`) may load
  half of a registry, save that, or generate two tokens;
- an invalidation of the scan cache during another session's walk is lost
  (`process.py:813`, `process.py:1044`), hence the exception in
  `OwnStartsAreSeen`, and a late walk drops a live orphan from the observed set,
  so that it is reported again;
- a front-end whose health probe fails (a second's timeout, any transport error)
  runs the verb itself beside an agent that is up (`delegation.py:117`), and the
  marker and the claims decide between the two;
- a stop resolves its port from a scan that may be three seconds old, though
  `model_card.py:62` says "live state", hence the exception in
  `StopHitsItsModel`;
- `list_orphans` reads the walk's cached ports but the claims of now: a server
  that has just been stopped may be recorded as an orphan, which `state.py:154`
  calls a live process. A server that is spawned and not yet claimed is, too;
- a dialog's flag whose card is not drawn when its port is free stays armed, and
  the dialog comes back for the next server on the port, though the comment at
  `model_card.py:374` says "never"; the dialog names that server, so
  `EvictsOnConsent` holds;
- `routing.py:544` says that a delete of a missing name is answered with 200;
  `_delete_status_code` gives 404;
- `/health` needs no key, so a front-end whose key is out of date delegates, and
  the verb is refused with 403 instead of being run here.

## What is not modelled

`PROJECT.json` has every component with its status. Not modelled, as no step of
the parts above is decided by them: the footer cache (descriptive fields), log
rotation (nothing reads the numbered files back; a rename that fails half way
loses or misnumbers log lines), the audit records other than orphan events, the
aggregator (answers of the nodes, kept for display, by node name), the result
texts, the rendering and the argument mapping of CLI, MCP tools and UI, and the
read-only routes. Pre-flight and GPU checks are a verdict; their arithmetic,
field validation and settings are pure functions without shared state.

`state.py`'s own `start_server`, `stop_server` and eviction are called by tests
only. `agent --stop` kills the first process that serves the agent's port.
File permissions and log contents other than the ready line are left out.

## The plan

1. *Done:* the node core (claims, markers, start, stop, swap, sweep, delete,
   cancel), crashes, the agent's stops and shutdown, the port service; the
   config store and its migration, the registry with the agent's token,
   delegation and remote verbs, the UI session with its scan cache and orphans;
   the proofs above.
2. *Next theorems:* `MarkerMutex` for two launchers that may die; the shutdown
   with an operator that swaps, for a listing of processes instead of pids;
   `ClaimMatchesProcess` and `StrangersSpared` for the agent under `AgentSpec`;
   `Reaping` where processes cannot be read or signalled, for the ports that can.
3. *Next in the models:* readers that meet a claim between its creation and its
   content; an agent port that another program holds; `agent --stop`.

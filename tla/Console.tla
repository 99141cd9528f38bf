-------------------------------- MODULE Console --------------------------------
(* One session of the web UI over its LauncherState (ui/app.py,              *)
(* ui/tabs/model_card.py, state.py) and the cache of process-table walks it  *)
(* shares with the other sessions of its process (core/process.py), on a     *)
(* node where other launchers act at any moment.  A click runs its callback  *)
(* first and then the script, which refreshes the state and draws the page.  *)
(* Two processes never name the same port in their command lines here.       *)
EXTENDS Naturals, FiniteSets, Functions

CONSTANTS Models, Ports, Pids, None,
          MaxStarts,  \* bound: servers ever launched
          MaxFlags,   \* bound: dialogs armed at a time
          MaxAbsent   \* bound: models missing from config.json at a time

ASSUME ConsoleAssumption ==
    /\ {MaxStarts, MaxFlags, MaxAbsent} \subseteq Nat
    /\ None \notin Models \cup Ports \cup Pids

VARIABLES
    table,      \* the process table: [Pids -> a llama-server, or None]
    claim,      \* lockfiles: [Ports -> the pid claimed, or None]
    config,     \* the models in config.json
    listed,     \* cached find_all_llama_servers: a set of pids, or None
    found,      \* cached discover_all: [Pids -> port, or None], or None
    walk,       \* the walk another session is in the middle of, or None
    view,       \* LauncherState: models, running
    observed,   \* LauncherState._observed_orphan_pids
    page,       \* what is on the screen: the cards, or something else
    evicting,   \* armed evicting_<port>_<model> flags
    deleting,   \* armed deleting_<model> flags
    at,         \* the step of the callback or of the script
    stopping,   \* the model whose stop toggle was clicked, or None
    starts,     \* servers launched so far (bound)
    moved,      \* ports that changed hands since the last look or stop click (history)
    mine,       \* own launches the state has not looked for yet (history)
    audits      \* [Pids -> orphan events since the process was as if new to the
                \*  session: OrphansReportedOnce] (history)

host    == <<table, claim, starts, moved, mine, audits>>
scans   == <<listed, found>>
session == <<view, observed, page, evicting, deleting, at, stopping>>
consoleVars == <<host, config, scans, walk, session>>

Server == [port : Ports, model : Models]
Flag   == [port : Ports, model : Models]
Steps  == {"idle", "look", "then"}

ASSUME NoServerIsNone == None \notin Server

\* A walk: the cache entry it is for, and the port each process names.
Walk == [for : {"listed", "found"}, ports : [Pids -> Ports \cup {None}]]

ASSUME NoWalkIsNone == None \notin Walk

ConsoleTypeOK ==
    /\ table \in [Pids -> Server \cup {None}]
    /\ claim \in [Ports -> Pids \cup {None}]
    /\ config \subseteq Models
    /\ listed \in (SUBSET Pids) \cup {None}
    /\ found \in [Pids -> Ports \cup {None}] \cup {None}
    /\ walk \in Walk \cup {None}
    /\ view \in [models : SUBSET Models, running : [Ports -> Models \cup {None}]]
    /\ observed \subseteq Pids
    /\ page \in {"cards", "other"}
    /\ evicting \subseteq Flag /\ deleting \subseteq Models
    /\ at \in Steps /\ stopping \in Models \cup {None}
    /\ starts \in 0 .. MaxStarts
    /\ moved \subseteq Ports /\ mine \subseteq Pids
    /\ audits \in [Pids -> 0 .. 2]

Empty == [p \in Ports |-> None]

ConsoleInit ==
    /\ table = [q \in Pids |-> None] /\ claim = Empty
    /\ config = Models
    /\ listed = None /\ found = None /\ walk = None
    /\ view = [models |-> Models, running |-> Empty] /\ observed = {}
    /\ page = "cards" /\ evicting = {} /\ deleting = {}
    /\ at = "idle" /\ stopping = None
    /\ starts = 0 /\ moved = {} /\ mine = {} /\ audits = [q \in Pids |-> 0]

-----------------------------------------------------------------------------
(* The host. *)

Live == {q \in Pids : table[q] # None}
On(p) == {q \in Live : table[q].port = p}
ModelsOn(p) == {table[q].model : q \in On(p)}
Claimed(p) == claim[p] \in Live

\* The servers `dead` end and, where there is one, server `q` starts.
Replaces(dead, q, s) ==
    /\ q # None => starts < MaxStarts /\ q \notin Live
    /\ table' = [r \in Pids |-> IF r = q THEN s ELSE IF r \in dead THEN None
                                ELSE table[r]]
    /\ starts' = IF q = None THEN starts ELSE starts + 1
    /\ moved' = moved \cup {table[r].port : r \in dead}
                      \cup (IF q = None THEN {} ELSE {s.port})
    /\ audits' = IF q = None THEN audits ELSE [audits EXCEPT ![q] = 0]

Ends(dead) == Replaces(dead, None, None)

\* Other launchers and the servers themselves.  A launch spawns first and
\* claims later.
OtherSpawns == \E q \in Pids, s \in Server :
    /\ On(s.port) = {} /\ Replaces({}, q, s)
    /\ UNCHANGED <<claim, mine>>

OtherClaims == \E q \in Live :
    /\ ~Claimed(table[q].port)
    /\ claim' = [claim EXCEPT ![table[q].port] = q]
    /\ UNCHANGED <<table, starts, moved, mine, audits>>

Exits == \E q \in Live :
    /\ Ends({q})
    /\ mine' = mine \ {q} /\ UNCHANGED claim

\* Sweeps prune what names no server, and a start or a sweep that loses a race
\* removes the claim of a server that lives: that server is an orphan anew.
OtherUnclaims == \E p \in Ports :
    /\ claim[p] # None
    /\ claim' = [claim EXCEPT ![p] = None]
    /\ audits' = [q \in Pids |->
          IF q = claim[p] /\ q \in On(p) THEN 0 ELSE audits[q]]
    /\ UNCHANGED <<table, starts, moved, mine>>

Removable == Cardinality(Models \ config) < MaxAbsent

OtherEdits == \E m \in Models :
    /\ m \in config => Removable
    /\ config' = IF m \in config THEN config \ {m} ELSE config \cup {m}
    /\ UNCHANGED <<host, scans, walk, session>>

HostStep == /\ OtherSpawns \/ OtherClaims \/ Exits \/ OtherUnclaims
            /\ UNCHANGED <<config, scans, walk, session>>

-----------------------------------------------------------------------------
(* The scan cache: every entry has its own three seconds. *)

Expires == /\ \/ listed # None /\ listed' = None /\ UNCHANGED found
              \/ found # None /\ found' = None /\ UNCHANGED listed
           /\ UNCHANGED <<host, config, walk, session>>

\* The process table as a walk reads it.
Table == [q \in Pids |-> IF q \in Live THEN table[q].port ELSE None]

\* Another session walks, and caches what it saw when it has finished.
OtherWalks == /\ walk = None
              /\ \/ listed = None /\ walk' = [for |-> "listed", ports |-> Table]
                 \/ found = None /\ walk' = [for |-> "found", ports |-> Table]
              /\ UNCHANGED <<host, config, scans, session>>

OtherLists == /\ walk # None /\ walk.for = "listed"
              /\ listed' = {q \in Pids : walk.ports[q] # None} /\ walk' = None
              /\ UNCHANGED <<host, config, found, session>>

\* To who looks next, a server that the walk was too early for has left.
OtherFinds == /\ walk # None /\ walk.for = "found"
              /\ found' = walk.ports /\ walk' = None
              /\ audits' = [q \in Pids |->
                    IF q \in Live /\ walk.ports[q] # table[q].port THEN 0
                    ELSE audits[q]]
              /\ UNCHANGED <<table, claim, starts, moved, mine, config, listed,
                             session>>

OtherCaches == OtherLists \/ OtherFinds

\* Faulty variant of Purged.
NotPurged == UNCHANGED scans

\* invalidate_process_scan_cache.
Purged == listed' = None /\ found' = None

-----------------------------------------------------------------------------
(* LauncherState.refresh, by the callback of a stop or by the script.  A walk *)
(* that takes its time is one that another session has cached.               *)

Goto(step) == at' = step

\* Faulty variant of Seen: what is gone stays until something replaces it.
SeenOrBefore(pids, p) ==
    IF pids \cap On(p) = {} THEN {view.running[p]} \ {None}
    ELSE {table[q].model : q \in pids \cap On(p)}

\* refresh_running_servers: the cached handles are asked for their command
\* lines now.  What has died since is skipped, what has come is missing.
Seen(pids, p) == {table[q].model : q \in pids \cap On(p)}

Running(pids) == [p \in Ports |-> IF Seen(pids, p) = {} THEN None
                                  ELSE CHOOSE m \in Models : m \in Seen(pids, p)]

\* find_all_llama_servers, and discover_all, which keeps the port each
\* process named at the walk.
Listed == IF listed # None THEN listed ELSE Live
Found == IF found # None THEN found ELSE Table

\* list_orphans: managed is what the live claim on its port names.
Orphans == {q \in Pids : /\ Found[q] # None
                         /\ ~(claim[Found[q]] = q /\ q \in Live)}

\* _observed_orphan_pids after a refresh, and a faulty variant.
ObservedNew == Orphans \ observed
Observed == Orphans

Refreshes ==
    /\ view' = [models |-> config, running |-> Running(Listed)]
    /\ listed' = Listed /\ found' = Found
    /\ observed' = Observed
    /\ audits' = [q \in Pids |->
          IF q \in (Orphans \ observed) \cap Live /\ audits[q] < 2
          THEN audits[q] + 1 ELSE audits[q]]
    /\ moved' = {} /\ mine' = {}
    /\ UNCHANGED <<table, claim, starts, config, walk, deleting, stopping>>

-----------------------------------------------------------------------------
(* The script: it refreshes and draws.                                       *)

IsOn(v, m) == \E p \in Ports : v.running[p] = m

\* Flags a card clears because their port is free.  Only cards of models not
\* running look, and each stops at its first flag of an occupied port.
Moot(v) == {f \in evicting : /\ f.model \in v.models /\ ~IsOn(v, f.model)
                             /\ v.running[f.port] = None}
Clears(gone, v) ==
    \A f \in Moot(v) \ gone :
        \E g \in evicting : g.model = f.model /\ v.running[g.port] # None

\* "other": the edit form or another node, and no card is drawn.
Draws(v) == \/ /\ page' = "cards"
               /\ \E gone \in SUBSET Moot(v) :
                     Clears(gone, v) /\ evicting' = evicting \ gone
            \/ page' = "other" /\ UNCHANGED evicting

Runs == /\ at = "look" /\ stopping = None
        /\ Refreshes /\ Draws(view') /\ Goto("idle")

\* main stops at a banner: no agent answers, or the config cannot be read.
Banner == /\ at = "look" /\ stopping = None
          /\ page' = "other" /\ Goto("idle")
          /\ UNCHANGED <<host, config, scans, walk, view, observed, evicting,
                         deleting, stopping>>

\* Any click at all, of a widget that has no effect here.
Reruns == /\ at = "idle"
          /\ Goto("look")
          /\ UNCHANGED <<host, config, scans, walk, view, observed, page,
                         evicting, deleting, stopping>>

-----------------------------------------------------------------------------
(* Verbs: in the UI's process, which purges its cache, or by the agent.  One *)
(* that is refused or fails changes nothing here; one that the agent answers *)
(* before it is done (stop) goes on as a step of the host.                   *)

Caches(here) == IF here THEN Purged ELSE UNCHANGED scans
Dispatched == Goto("look") /\ UNCHANGED <<config, walk, view, observed, page, deleting>>
Claims(p, q) == claim' = [claim EXCEPT ![p] = q]

\* A list another session is about to cache may lack what is launched now.
Listing == walk # None /\ walk.for = "listed"

Launches(q, here, dead) ==
    mine' = (mine \ dead) \cup (IF here /\ ~Listing THEN {q} ELSE {})

\* operations.start: an unclaimed, unused port.
StartVerb(m, p) == \E q \in Pids, here \in BOOLEAN :
    /\ On(p) = {} /\ m \in config
    /\ Replaces({}, q, [port |-> p, model |-> m]) /\ Claims(p, q)
    /\ Launches(q, here, {}) /\ Caches(here)

\* operations.swap: the new model is on the port, or the old one again, or
\* neither.
SwapVerb(m, p) == \E here \in BOOLEAN :
    /\ Claimed(p) /\ m \in config \ ModelsOn(p)
    /\ \/ \E q \in Pids \ Live, n \in {m} \cup ModelsOn(p) :
             /\ Replaces(On(p), q, [port |-> p, model |-> n]) /\ Claims(p, q)
             /\ Launches(q, here, On(p))
       \/ Ends(On(p)) /\ Claims(p, None) /\ mine' = mine \ On(p)
    /\ Caches(here)

\* operations.stop: by the port alone, wherever there is a claim.
StopVerb(p) == \E here \in BOOLEAN :
    /\ claim[p] # None
    /\ IF Claimed(p)
       THEN Ends(On(p)) /\ mine' = mine \ On(p) /\ Caches(here)
       ELSE Ends({}) /\ UNCHANGED <<mine, scans>>
    /\ Claims(p, None)

Unavailing == UNCHANGED <<host, scans>>

-----------------------------------------------------------------------------
(* The callbacks, of widgets that are on the page. *)

Shown(m) == IsOn(view, m)
Clickable(m) == at = "idle" /\ page = "cards" /\ m \in view.models

\* Faulty variant of StopClicked: the port is bound when the page is drawn.
StopClickedBound(m) ==
    /\ Clickable(m) /\ Shown(m)
    /\ stopping' = m /\ Goto("then") /\ moved' = {}
    /\ UNCHANGED <<table, claim, starts, mine, audits, config, scans, walk,
                   view, observed, page, evicting, deleting>>

MayArm == Cardinality(evicting) + Cardinality(deleting) < MaxFlags

\* The toggle of a running model: _resolve_stop_port refreshes first.
StopClicked(m) ==
    /\ Clickable(m) /\ Shown(m)
    /\ stopping' = m /\ Goto("look") /\ moved' = {}
    /\ UNCHANGED <<table, claim, starts, mine, audits, config, scans, walk,
                   view, observed, page, evicting, deleting>>

ResolvesStop ==
    /\ at = "look" /\ stopping # None
    /\ Refreshes /\ Goto("then")
    /\ UNCHANGED <<page, evicting>>

\* _handle_stop: the port on which the refreshed state has the model.
HandlesStop ==
    /\ at = "then" /\ stopping # None
    /\ \/ \E p \in Ports : view.running[p] = stopping /\ StopVerb(p)
       \/ Unavailing
    /\ stopping' = None
    /\ Dispatched /\ UNCHANGED evicting

\* _handle_start: on a port that has a server, the dialog is armed.
StartClicked(m, p) ==
    /\ Clickable(m) /\ ~Shown(m)
    /\ IF view.running[p] # None
       THEN /\ MayArm /\ Unavailing
            /\ evicting' = evicting \cup {[port |-> p, model |-> m]}
       ELSE UNCHANGED evicting /\ (StartVerb(m, p) \/ Unavailing)
    /\ Dispatched /\ UNCHANGED stopping

Dialog(f) == f \in evicting /\ Clickable(f.model) /\ ~Shown(f.model) /\ view.running[f.port] # None

EvictionConfirmed(f) ==
    /\ Dialog(f)
    /\ evicting' = evicting \ {f}
    /\ SwapVerb(f.model, f.port) \/ Unavailing
    /\ Dispatched /\ UNCHANGED stopping

EvictionCancelled(f) ==
    /\ Dialog(f)
    /\ evicting' = evicting \ {f}
    /\ Unavailing
    /\ Dispatched /\ UNCHANGED stopping

DeleteClicked(m) ==
    /\ Clickable(m) /\ ~Shown(m)
    /\ MayArm /\ deleting' = deleting \cup {m} /\ Goto("look")
    /\ UNCHANGED <<host, config, scans, walk, view, observed, page, evicting, stopping>>

\* Confirm (operations.delete_model refuses a model a live claim is for) or
\* Cancel.
DeleteAnswered(m) ==
    /\ Clickable(m) /\ ~Shown(m) /\ m \in deleting
    /\ deleting' = deleting \ {m}
    /\ \/ /\ \A p \in Ports : Claimed(p) => table[claim[p]].model # m
          /\ Removable /\ config' = config \ {m}
       \/ UNCHANGED config
    /\ Goto("look")
    /\ UNCHANGED <<host, scans, walk, view, observed, page, evicting, stopping>>

Click == \/ Reruns
         \/ \E m \in Models : \/ StopClicked(m) \/ DeleteClicked(m) \/ DeleteAnswered(m)
                              \/ \E p \in Ports : StartClicked(m, p)
         \/ \E f \in Flag : EvictionConfirmed(f) \/ EvictionCancelled(f)
Script == Runs \/ Banner \/ ResolvesStop \/ HandlesStop

ConsoleNext == Click \/ Script \/ HostStep \/ OtherEdits \/ Expires
               \/ OtherWalks \/ OtherCaches
ConsoleSpec == ConsoleInit /\ [][ConsoleNext]_consoleVars

-----------------------------------------------------------------------------
(* The stop toggle of a model ends another model's server only if the port   *)
(* changed hands after the click (the comment at model_card.py:57): not what *)
(* the page showed counts, but the refreshed state.                          *)
StopHitsItsModel ==
    [][\A q \in Live :
          stopping # None /\ stopping' = None /\ table'[q] = None
          => table[q].model = stopping \/ table[q].port \in moved]_consoleVars

(* A click on anything but a stop toggle ends a server only by a confirmed   *)
(* dialog, and the dialog named the server's model, unless the port changed  *)
(* hands while the page was on the screen.                                   *)
EvictsOnConsent ==
    [][\A q \in Live :
          at = "idle" /\ at' # "idle" /\ table'[q] # table[q]
          => \E f \in evicting \ evicting' :
                /\ f.port = table[q].port
                /\ view.running[f.port] = table[q].model \/ f.port \in moved]_consoleVars

(* While a server lives, refreshes report it as an orphan at most once for   *)
(* each time it became one: by its start, by the removal of its claim, or in *)
(* a walk that another session began before the server and caches late,      *)
(* which drops the pid (state.py:78, 158).  Expired and purged caches, claims *)
(* made in between and what its pid was before do not repeat the report.     *)
OrphansReportedOnce == \A q \in Pids : audits[q] < 2

(* What the session has launched in its own process is in the state when it  *)
(* has looked next, however fresh the cache was, unless another session's    *)
(* walk for that entry was under way at the launch (process.py:35).          *)
OwnStartsAreSeen ==
    [][at = "look" /\ (at' = "then" \/ (at' = "idle" /\ page' = "cards")) =>
          \A q \in mine : view'.running[table[q].port] = table[q].model]_consoleVars
=============================================================================

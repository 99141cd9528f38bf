------------------------------- MODULE SerialInv -------------------------------
(* What a node can rely on while one verb at a time works on it, cancels     *)
(* aside.  Serial also holds after launchers have died in the middle of a    *)
(* verb; Configured and Settled are for launchers that live, and Settled for *)
(* servers that do.                                                          *)
EXTENDS NodeInv

\* Every server of p is the one its lockfile claims.
Covered(p) == \A q \in ServersOn(p) : ClaimOf(p, q)

\* A launch on p has spawned its server and not claimed the port yet.
Unclaimed(p) == \E w \in Workers : pc[w] = "claim" /\ op[w].port = p

\* What such a launch leaves if its launcher dies: a port without a readable
\* claim and under a marker, where no verb can start, swap or stop.
Stuck(p) == up # Launchers /\ ReadLock(p) = None /\ mark[p] # None

AllAccounted == \A p \in Ports : Covered(p) \/ Unclaimed(p) \/ Stuck(p)
OneEach == \A p \in Ports : \A q, r \in ServersOn(p) : q = r
TornIsMarked == \A p \in Ports : lock[p] = Torn => mark[p] # None
KeptAreClaimed == \A q \in Servers : proc[q].kept => ClaimOf(proc[q].port, q)

World == AllAccounted /\ OneEach /\ TornIsMarked /\ KeptAreClaimed

\* The servers and the claim w finds on its port where it stands.
PortAt(w) ==
    LET p == op[w].port IN
    /\ pc[w] # "race"
    /\ pc[w] \in {"clear", "unclaim", "unlock", "preflight", "launch"} =>
          ServersOn(p) = {}
    /\ pc[w] \in {"claim", "await", "kill", "term"} =>
          ServersOn(p) \subseteq {op[w].pid}
    /\ pc[w] \in {"preflight", "launch", "claim"} => lock[p] = None
    /\ pc[w] \in {"await", "kill"} =>
          lock[p] = [pid |-> op[w].pid, model |-> Target(w)]
    /\ pc[w] \in {"same", "reclaim", "find", "term"} => ReadLock(p) # None
    /\ pc[w] = "take" => (ReadLock(p) # None <=> op[w].verb = "swap")
    /\ pc[w] = "release" => Covered(p) /\ lock[p] # Torn
    /\ InFlight(w) => mark[p] # None

\* What w is going to report, and what it leaves on its port when it does.
ReportAt(w) ==
    LET p == op[w].port  out == op[w].out
        restores == out = "rolled_back" \/ (out = "cancelled" /\ op[w].verb = "swap")
        fails == out \in {"failed", "error"}
                    \/ (out = "cancelled" /\ op[w].verb = "start")
    IN
    /\ pc[w] \in {"take", "find", "term", "unclaim"} => op[w].stage = "new"
    /\ pc[w] \in {"launch", "claim", "await", "kill"} /\ op[w].stage = "back" =>
          out \in {"cancelled", "rolled_back"}
    /\ pc[w] = "unlock" => \E c \in BOOLEAN : out = FailureOutcome(w, c)
    /\ pc[w] = "release" =>
          /\ out \in {"started", "swapped"} =>
                lock[p] = [pid |-> op[w].pid, model |-> op[w].model]
          /\ restores => lock[p] = [pid |-> op[w].pid, model |-> op[w].prev]
          /\ fails => ServersOn(p) = {} /\ lock[p] = None

\* A listing is what the lockfiles still say.
ListingAt(w) == pc[w] = "scan" =>
    \A p \in Ports : snap[w][p] # None => lock[p] = snap[w][p]

Point(w) == PortAt(w) /\ ReportAt(w) /\ ListingAt(w)

Serial == World /\ \A w \in Workers : Point(w)

-----------------------------------------------------------------------------
\* No launcher has died: what is running is in the config, or no longer of
\* the model that is being deleted.
ConfiguredAt(w) ==
    /\ op[w].verb = "start"
          /\ pc[w] \in LaunchLabels \cup {"preflight"}
       => op[w].model \in store
    /\ op[w].verb = "swap"
          /\ pc[w] \in LaunchLabels \cup {"take", "find", "term", "unclaim"}
       => {op[w].model, op[w].prev} \subseteq store
    /\ pc[w] = "scan" => op[w].verb \in {"sweep", "delete"}
    /\ pc[w] = "scan" /\ op[w].verb = "delete" =>
          \A q \in Servers : proc[q].model = op[w].model =>
             snap[w][proc[q].port] # None
    /\ pc[w] = "drop" => \A q \in Servers : proc[q].model # op[w].model

Configured == RunningIsConfigured /\ \A w \in Workers : ConfiguredAt(w)

-----------------------------------------------------------------------------
\* No server exits by itself: the server a swap found is there until the swap
\* stops it, and so is one whose launch was reported.
ClaimedAlive(p) == ReadLock(p) # None /\ PidAlive(lock[p].pid)

SettledAt(w) ==
    LET p == op[w].port  out == op[w].out IN
    /\ pc[w] \in {"take", "find"} /\ op[w].verb = "swap" =>
          ClaimedAlive(p) /\ lock[p].model = op[w].prev
    /\ pc[w] = "term" => PidAlive(op[w].pid)
    /\ pc[w] = "same" => ClaimedAlive(p) /\ lock[p].model = op[w].model
    /\ pc[w] = "release" =>
          /\ out = "rejected_stop_failed" =>
                ClaimedAlive(p) /\ lock[p].model = op[w].prev
          /\ out = "already_running" =>
                ClaimedAlive(p) /\ lock[p].model = op[w].model
          /\ out \in {"started", "swapped", "rolled_back"}
                \/ (out = "cancelled" /\ op[w].verb = "swap")
             => ClaimedAlive(p)

NoStrangers == \A q \in Pids : proc[q] # None => proc[q].st # "alien"

Settled == NoStrangers /\ \A w \in Workers : SettledAt(w)

\* And a ready line in the log tail is the launched server's own.
ServingAt(w) ==
    pc[w] \in {"claim", "await"} /\ <<Target(w), op[w].port>> \in logs =>
        PidAlive(op[w].pid) /\ proc[op[w].pid].st = "serving"

Serving == /\ \A q \in Servers : proc[q].kept => proc[q].st = "serving"
           /\ \A w \in Workers : ServingAt(w)

-----------------------------------------------------------------------------
\* A start displaces nothing, and a swap another model than its own.
AskedAt(w) == /\ op[w].verb = "start" => op[w].prev = None
              /\ op[w].verb = "swap" => op[w].prev # op[w].model

Displacing == \A w \in Workers : AskedAt(w)

(* All of it, while one operator's verbs run over servers that live: what    *)
(* each verb relies on at each of its steps.                                 *)
OperatorInv == Serial /\ Configured /\ Settled /\ Serving /\ Displacing
=============================================================================

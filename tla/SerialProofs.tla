------------------------------ MODULE SerialProofs ------------------------------
(* One verb at a time: no server is orphaned, no port gets a second server,  *)
(* reports are true.  Serial is inductive as long as a step of a verb is     *)
(* Undisturbed, which one operator ensures (Spec), and so does a node where  *)
(* a call waits for the end of the last one (SerialSpec), crashes included.  *)
EXTENDS NodeCrashProofs, SerialInv, FiniteSetTheorems

\* Nobody but w is at work, except on a cancel.
Undisturbed(w) == \A v \in Workers \ {w} : pc[v] \in {"idle", "write"}

\* A step of w that starts, claims and reports nothing: it removes claims only
\* of ports without a server, and markers only of ports in order.
Gentle(w) ==
    /\ Alone(w) /\ NoSpawn /\ up' = up /\ pc[w] # "claim"
    /\ \A q \in Pids : proc'[q] # None => proc'[q].kept = proc[q].kept
    /\ \A p \in Ports : lock'[p] = lock[p]
                        \/ (lock'[p] = None /\ ServersOn(p) = {})
    /\ \A p \in Ports : mark[p] # None =>
          mark'[p] # None \/ (Covered(p) /\ lock[p] # Torn)

\* Such a step accounts for every server that is left.
LEMMA GentleWorld ==
    ASSUME Shape, World, NEW w \in Workers, Gentle(w)
    PROVE  World'
<1>0. \A p \in Ports : ServersOn(p)' \subseteq ServersOn(p)
    BY DEF Gentle, NoSpawn, ServersOn
<1>1. AllAccounted'
  <2> SUFFICES ASSUME NEW p \in Ports
               PROVE  (Covered(p) \/ Unclaimed(p) \/ Stuck(p))'
      BY DEF AllAccounted
  <2>1. CASE Covered(p)
    BY <1>0, <2>1 DEF Gentle, Covered, ClaimOf, ReadLock
  <2>2. CASE Unclaimed(p)
    BY <2>2 DEF Gentle, Alone, Unclaimed
  <2>3. CASE Stuck(p) /\ ~Covered(p)
    BY <2>3 DEF Gentle, Stuck, ReadLock
  <2> QED BY <2>1, <2>2, <2>3 DEF World, AllAccounted
<1>2. OneEach'
    BY <1>0 DEF World, OneEach
<1>3. TornIsMarked'
    BY ConstantsAssumption DEF Gentle, World, TornIsMarked
<1>4. KeptAreClaimed'
  <2> SUFFICES ASSUME NEW q \in Servers', proc'[q].kept
               PROVE  ClaimOf(proc[q].port, q)'
      BY DEF KeptAreClaimed
  <2>1. /\ q \in Servers /\ proc[q].kept /\ proc'[q].port = proc[q].port
        /\ q \in Pids
    BY DEF Gentle, NoSpawn, Servers
  <2>2. proc[q].port \in Ports
    BY <2>1 DEF Shape, ProcessesOK, ProcessOK, Servers
  <2>3. ClaimOf(proc[q].port, q)
    BY <2>1 DEF World, KeptAreClaimed
  <2>4. q \in ServersOn(proc[q].port)
    BY <2>1 DEF ServersOn, Servers
  <2> QED BY <2>1, <2>2, <2>3, <2>4 DEF Gentle, ClaimOf, ReadLock
<1> QED BY <1>1, <1>2, <1>3, <1>4 DEF World

\* A port with a readable claim has its servers claimed, except between the
\* spawn and the claim of a launch.
LEMMA ClaimCovers ==
    ASSUME World, NEW w \in Workers, Undisturbed(w), NEW p \in Ports,
           ReadLock(p) # None, pc[w] # "claim"
    PROVE  Covered(p)
BY DEF World, AllAccounted, Undisturbed, Unclaimed, Stuck

\* A dead claim is the claim of a port without servers.
LEMMA DeadClaimEmpty ==
    ASSUME NEW p \in Ports, Covered(p), ~PidAlive(lock[p].pid)
    PROVE  ServersOn(p) = {}
BY DEF Covered, ServersOn, ClaimOf, PidAlive

\* A marker is something.
LEMMA MarkerThere ==
    ASSUME NEW w \in Workers, NEW c \in BOOLEAN
    PROVE  [owner |-> w, cancelled |-> c] # None
<1>1. [owner |-> w, cancelled |-> c] \in Marker
    BY DEF Marker
<1> QED BY <1>1, FilesAssumption

\* A verb that is over relies on nothing.
LEMMA ReturnPoint ==
    ASSUME Shape, NEW w \in Workers, Return(w)
    PROVE  Point(w)'
<1>1. pc'[w] = "idle"
    BY DEF Shape, TypeOK, Return, Goto
<1> QED BY <1>1 DEF Point, PortAt, ReportAt, ListingAt, InFlight

\* A verb may report what the port shows.
LEMMA FinishPoint ==
    ASSUME Shape, NEW w \in Workers, NEW out \in Outcomes, Finish(w, out),
           UNCHANGED lock, mark'[op[w].port] # None,
           ServersOn(op[w].port)' \subseteq ServersOn(op[w].port),
           Covered(op[w].port), lock[op[w].port] # Torn,
           out \notin {"started", "swapped", "rolled_back", "failed", "error"},
           out = "cancelled" => /\ op[w].verb = "start"
                                /\ ServersOn(op[w].port) = {}
                                /\ lock[op[w].port] = None
    PROVE  Point(w)'
<1>1. /\ pc'[w] = "release" /\ op'[w].out = out
      /\ op'[w].port = op[w].port /\ op'[w].verb = op[w].verb
    BY DEF Shape, TypeOK, Finish, Goto, Frame
<1>2. Covered(op[w].port)'
    BY <1>1 DEF Covered, ClaimOf, ReadLock
<1> QED BY <1>1, <1>2 DEF Point, PortAt, ReportAt, ListingAt

\* A failed launch leaves an empty port to the relaunch or to the report.
LEMMA FailurePoint ==
    ASSUME Shape, NEW w \in Workers, NEW c \in BOOLEAN, NEW out,
           out = FailureOutcome(w, c), op[w].verb \in {"start", "swap"},
           op[w].stage = "back" => op[w].verb = "swap",
           AfterFailure(w, out), NEW p \in Ports, p = op[w].port,
           lock'[p] = None, ServersOn(p)' = {}, mark'[p] # None
    PROVE  Point(w)'
<1>0. op \in [Workers -> Frame] /\ pc \in [Workers -> Labels]
    BY DEF Shape, TypeOK
<1>a. \/ /\ WatchesCancel(w) /\ pc'[w] = "launch"
         /\ op'[w] = [op[w] EXCEPT !.stage = "back", !.out = out, !.pid = None]
      \/ /\ ~WatchesCancel(w) /\ pc'[w] = "release"
         /\ op'[w] = [op[w] EXCEPT !.out = out, !.pid = None]
    BY <1>0 DEF AfterFailure, Goto
<1>1. op'[w].port = p /\ op'[w].verb = op[w].verb /\ op'[w].out = out
    BY <1>0, <1>a DEF Frame
<1>2. Covered(p)'
    BY DEF Covered
<1>3. CASE WatchesCancel(w)
  <2>1. pc'[w] = "launch" /\ out \in {"cancelled", "rolled_back"}
    BY <1>a, <1>3 DEF WatchesCancel, FailureOutcome
  <2> QED BY <1>1, <2>1
          DEF Point, PortAt, ReportAt, ListingAt, InFlight
<1>4. CASE ~WatchesCancel(w)
  <2>0. op[w].stage \in {"new", "back"}
    BY <1>0 DEF Frame
  <2>1. pc'[w] = "release" /\ out \in {"error", "failed"}
    BY <1>a, <1>4, <2>0 DEF WatchesCancel, FailureOutcome
  <2> QED BY <1>1, <1>2, <2>1, ConstantsAssumption
          DEF Point, PortAt, ReportAt, ListingAt, InFlight
<1> QED BY <1>3, <1>4

\* A step that spawns, claims and reports nothing is gentle if what it
\* removes may be removed.
LEMMA GentleStep ==
    ASSUME Shape, NEW w \in Workers, Call(w) \/ Step(w), pc[w] # "claim",
           proc' = proc \/ Kills(w),
           \A p \in Ports : lock'[p] = lock[p]
                            \/ (lock'[p] = None /\ ServersOn(p) = {}),
           \A p \in Ports : mark[p] # None =>
              mark'[p] # None \/ (Covered(p) /\ lock[p] # Torn)
    PROVE  Gentle(w)
<1>1. proc \in [Pids -> Process \cup {None}]
    BY DEF Shape, TypeOK
<1>2. \A q \in Pids : proc'[q] # None => proc'[q].kept = proc[q].kept
    BY <1>1 DEF Kills
<1> QED BY <1>2, StepAlone, NoSpawnStep, NobodyDies DEF Gentle

\* The three steps of a launch that are not gentle: the spawn, on a port that
\* is empty;
LEMMA SpawnSerial ==
    ASSUME Shape, Serial, NEW w \in Workers, Spawn(w), Undisturbed(w)
    PROVE  World' /\ Point(w)'
<1>0. /\ proc \in [Pids -> Process \cup {None}] /\ op \in [Workers -> Frame]
      /\ pc \in [Workers -> Labels] /\ Point(w) /\ FrameOK(w)
    BY DEF Shape, TypeOK, Serial, FramesOK
<1>1. PICK q \in Fresh :
          /\ proc' = [proc EXCEPT ![q] =
                        [st |-> "loading", port |-> op[w].port,
                         model |-> Target(w), kept |-> FALSE]]
          /\ op' = [op EXCEPT ![w].pid = q]
    BY DEF Spawn
<1>2. /\ pc[w] = "launch" /\ pc' = [pc EXCEPT ![w] = "claim"]
      /\ UNCHANGED <<lock, mark, up>>
    BY DEF Spawn, Goto, files
<1> DEFINE s == [st |-> "loading", port |-> op[w].port,
                 model |-> Target(w), kept |-> FALSE]
<1>3. s # None
  <2>1. op[w].port \in Ports /\ Target(w) \in Models
    BY <1>0, <1>2 DEF FrameOK, Target, LaunchLabels, Frame
  <2>2. s \in Process
    BY <2>1 DEF Process
  <2> QED BY <2>2, FilesAssumption
<1>4. q \in Pids /\ proc[q] = None
    BY DEF Fresh
<1>5. /\ op'[w].port = op[w].port /\ op'[w].pid = q /\ op'[w].out = op[w].out
      /\ op'[w].verb = op[w].verb /\ op'[w].stage = op[w].stage
    BY <1>0, <1>1 DEF Frame
<1>6. ServersOn(op[w].port) = {} /\ lock[op[w].port] = None
      /\ mark[op[w].port] # None
    BY <1>0, <1>2 DEF Point, PortAt, InFlight
<1>7. ServersOn(op[w].port)' = {q}
    BY <1>0, <1>1, <1>3, <1>4, <1>6 DEF ServersOn
<1>8. \A p \in Ports \ {op[w].port} : ServersOn(p)' = ServersOn(p)
    BY <1>0, <1>1, <1>4 DEF ServersOn
<1>9. AllAccounted'
  <2> SUFFICES ASSUME NEW p \in Ports
               PROVE  (Covered(p) \/ Unclaimed(p) \/ Stuck(p))'
      BY DEF AllAccounted
  <2>1. CASE p = op[w].port
    BY <1>0, <1>2, <1>5, <2>1 DEF Unclaimed
  <2>2. CASE p # op[w].port
    <3>1. ~Unclaimed(p)
      BY <1>2 DEF Undisturbed, Unclaimed
    <3> QED BY <1>2, <1>8, <2>2, <3>1
            DEF Serial, World, AllAccounted, Covered, ClaimOf, ReadLock, Stuck
  <2> QED BY <2>1, <2>2
<1>10. OneEach'
  <2> SUFFICES ASSUME NEW p \in Ports, NEW r \in ServersOn(p)', NEW u \in ServersOn(p)'
               PROVE  r = u
      BY DEF OneEach
  <2> QED BY <1>5, <1>7, <1>8 DEF Serial, World, OneEach
<1>11. TornIsMarked'
    BY <1>2 DEF Serial, World, TornIsMarked
<1>12. KeptAreClaimed'
    BY <1>0, <1>1, <1>2, <1>4
       DEF Serial, World, KeptAreClaimed, Servers, ClaimOf, ReadLock
<1>13. Point(w)'
    BY <1>0, <1>2, <1>5, <1>6, <1>7
       DEF Point, PortAt, ReportAt, ListingAt, InFlight
<1> QED BY <1>9, <1>10, <1>11, <1>12, <1>13 DEF World

\* the claim, which names the spawned server;
LEMMA ClaimSerial ==
    ASSUME Shape, Serial, NEW w \in Workers, ClaimPort(w), Undisturbed(w)
    PROVE  World' /\ Point(w)'
<1>0. /\ lock \in [Ports -> Claim \cup {None, Torn}] /\ op \in [Workers -> Frame]
      /\ pc \in [Workers -> Labels] /\ Point(w) /\ FrameOK(w)
      /\ op[w].port \in Ports /\ op[w].pid \in Pids
    BY DEF Shape, TypeOK, Serial, FramesOK, FrameOK, ClaimPort
<1> DEFINE c == [pid |-> op[w].pid, model |-> Target(w)]
<1>1. /\ pc[w] = "claim" /\ pc' = [pc EXCEPT ![w] = "await"]
      /\ lock' = [lock EXCEPT ![op[w].port] = c]
      /\ UNCHANGED <<mark, up, proc, op>>
    BY DEF ClaimPort, Goto
<1>2. c # None /\ c # Torn
  <2>1. Target(w) \in Models
    BY <1>0, <1>1 DEF FrameOK, Target, LaunchLabels, Frame
  <2>2. c \in Claim
    BY <1>0, <2>1 DEF Claim
  <2> QED BY <2>2, FilesAssumption
<1>3. ServersOn(op[w].port) \subseteq {op[w].pid} /\ mark[op[w].port] # None
    BY <1>0, <1>1 DEF Point, PortAt, InFlight
<1>4. \A p \in Ports : ServersOn(p)' = ServersOn(p)
    BY <1>1 DEF ServersOn
<1>5. Covered(op[w].port)'
    BY <1>0, <1>1, <1>2, <1>3, <1>4 DEF Covered, ClaimOf, ReadLock
<1>6. AllAccounted'
  <2> SUFFICES ASSUME NEW p \in Ports, p # op[w].port
               PROVE  (Covered(p) \/ Stuck(p))'
      BY <1>1, <1>5 DEF AllAccounted
  <2>1. ~Unclaimed(p)
    BY <1>1 DEF Undisturbed, Unclaimed
  <2> QED BY <1>0, <1>1, <1>4, <2>1
          DEF Serial, World, AllAccounted, Covered, ClaimOf, ReadLock, Stuck
<1>7. OneEach'
    BY <1>4 DEF Serial, World, OneEach
<1>8. TornIsMarked'
    BY <1>0, <1>1, <1>3 DEF Serial, World, TornIsMarked
<1>9. KeptAreClaimed'
  <2> SUFFICES ASSUME NEW q \in Servers, proc[q].kept
               PROVE  ClaimOf(proc[q].port, q)'
      BY <1>1 DEF KeptAreClaimed, Servers
  <2>1. proc[q].port \in Ports /\ q \in ServersOn(proc[q].port)
    BY DEF Shape, ProcessesOK, ProcessOK, Servers, ServersOn
  <2>2. CASE proc[q].port = op[w].port
    BY <1>1, <1>4, <1>5, <2>1, <2>2 DEF Covered
  <2>3. CASE proc[q].port # op[w].port
    BY <1>0, <1>1, <2>1, <2>3 DEF Serial, World, KeptAreClaimed, ClaimOf, ReadLock
  <2> QED BY <2>2, <2>3
<1>10. Point(w)'
    BY <1>0, <1>1, <1>3, <1>4
       DEF Point, PortAt, ReportAt, ListingAt, InFlight, Target
<1> QED BY <1>6, <1>7, <1>8, <1>9, <1>10 DEF World

\* and the success, which hands over a server that is claimed.
LEMMA ReadySerial ==
    ASSUME Shape, Serial, NEW w \in Workers, AwaitReady(w), Undisturbed(w)
    PROVE  World' /\ Point(w)'
<1>0. /\ op \in [Workers -> Frame] /\ pc \in [Workers -> Labels]
      /\ Point(w) /\ FrameOK(w) /\ PidOK(w)
      /\ op[w].port \in Ports /\ op[w].pid \in Pids
    BY DEF Shape, TypeOK, Serial, FramesOK, PidsOK, FrameOK, AwaitReady
<1> DEFINE out == CASE op[w].verb = "start" -> "started"
                    [] WatchesCancel(w)     -> "swapped"
                    [] OTHER                -> op[w].out
<1>1. /\ pc[w] = "await" /\ pc' = [pc EXCEPT ![w] = "release"]
      /\ op' = [op EXCEPT ![w].out = out]
      /\ UNCHANGED <<lock, mark, up>>
    BY DEF AwaitReady, Finish, Goto, files
<1>2. Keeps(w)
    BY <1>0 DEF AwaitReady, PidAlive, Keeps
<1>3. \A p \in Ports : ServersOn(p)' = ServersOn(p)
    BY <1>2, KeepsProcesses DEF ServersOn
<1>4. /\ ServersOn(op[w].port) \subseteq {op[w].pid} /\ mark[op[w].port] # None
      /\ lock[op[w].port] = [pid |-> op[w].pid, model |-> Target(w)]
    BY <1>0, <1>1 DEF Point, PortAt, InFlight
<1>5. lock[op[w].port] # None /\ lock[op[w].port] # Torn
  <2>1. Target(w) \in Models
    BY <1>0, <1>1 DEF FrameOK, Target, LaunchLabels, Frame
  <2>2. [pid |-> op[w].pid, model |-> Target(w)] \in Claim
    BY <1>0, <2>1 DEF Claim
  <2> QED BY <1>4, <2>2, FilesAssumption
<1>6. ClaimOf(op[w].port, op[w].pid) /\ Covered(op[w].port)
    BY <1>4, <1>5 DEF ClaimOf, ReadLock, Covered
<1>7. \A p \in Ports : Covered(p) => Covered(p)'
    BY <1>1, <1>3 DEF Covered, ClaimOf, ReadLock
<1>8. AllAccounted'
  <2> SUFFICES ASSUME NEW p \in Ports PROVE (Covered(p) \/ Stuck(p))'
      BY DEF AllAccounted
  <2>1. ~Unclaimed(p)
    BY <1>1 DEF Undisturbed, Unclaimed
  <2> QED BY <1>1, <1>7, <2>1 DEF Serial, World, AllAccounted, Stuck, ReadLock
<1>9. OneEach' /\ TornIsMarked'
    BY <1>1, <1>3 DEF Serial, World, OneEach, TornIsMarked
<1>10. KeptAreClaimed'
  <2> SUFFICES ASSUME NEW q \in Servers', proc'[q].kept
               PROVE  ClaimOf(proc[q].port, q)'
      BY DEF KeptAreClaimed
  <2>1. /\ q \in Servers /\ q \in Pids /\ proc'[q].port = proc[q].port
        /\ q # op[w].pid => proc'[q] = proc[q]
    BY <1>2, KeepsProcesses DEF Servers, Keeps
  <2>2. ClaimOf(proc[q].port, q)
    BY <1>0, <1>1, <1>2, <1>6, <2>1
       DEF Serial, World, KeptAreClaimed, PidOK, Keeps
  <2> QED BY <1>1, <2>1, <2>2 DEF ClaimOf, ReadLock
<1>11. Point(w)'
  <2>1. /\ op'[w].port = op[w].port /\ op'[w].pid = op[w].pid
        /\ op'[w].verb = op[w].verb /\ op'[w].model = op[w].model
        /\ op'[w].prev = op[w].prev /\ op'[w].out = out
    BY <1>0, <1>1 DEF Frame
  <2>2. Covered(op[w].port)'
    BY <1>0, <1>6, <1>7, <2>1 DEF Covered
  <2>3. PortAt(w)' /\ ListingAt(w)'
    BY <1>0, <1>1, <1>4, <1>5, <2>1, <2>2 DEF PortAt, ListingAt
  <2>4. \/ out = "started" /\ op[w].verb = "start" /\ Target(w) = op[w].model
        \/ out = "swapped" /\ op[w].verb = "swap" /\ Target(w) = op[w].model
        \/ /\ out \in {"cancelled", "rolled_back"}
           /\ op[w].verb = "swap" /\ Target(w) = op[w].prev
    <3>1. op[w].stage \in {"new", "back"} /\ op[w].verb \in {"start", "swap"}
      BY <1>0, <1>1 DEF Frame, FrameOK, LaunchLabels
    <3>2. op[w].stage = "back" => /\ op[w].out \in {"cancelled", "rolled_back"}
                                 /\ op[w].verb = "swap"
      BY <1>0, <1>1 DEF Point, ReportAt, FrameOK
    <3> QED BY <3>1, <3>2 DEF WatchesCancel, Target
  <2>5. ReportAt(w)'
    <3> HIDE DEF out
    <3> QED BY <1>0, <1>1, <1>4, <2>1, <2>4 DEF ReportAt
  <2> QED BY <2>3, <2>5 DEF Point
<1> QED BY <1>8, <1>9, <1>10, <1>11 DEF World

\* The other steps of a launch fail, or end it.
LEMMA LaunchSerial ==
    ASSUME Shape, Serial, NEW w \in Workers, LaunchStep(w), Undisturbed(w),
           Env \cap {"denied", "disk"} = {}
    PROVE  World' /\ Point(w)'
<1>0. /\ op \in [Workers -> Frame] /\ pc \in [Workers -> Labels]
      /\ lock \in [Ports -> Claim \cup {None, Torn}]
      /\ mark \in [Ports -> Marker \cup {None, Torn}]
      /\ proc \in [Pids -> Process \cup {None}]
      /\ Point(w) /\ FrameOK(w) /\ World /\ Step(w)
    BY DEF Shape, TypeOK, Serial, FramesOK, Step
<1>1. CASE SpawnFails(w)
  <2>1. /\ pc[w] = "launch" /\ AfterFailure(w, FailureOutcome(w, FALSE))
        /\ UNCHANGED <<lock, mark, proc>>
    BY <1>1 DEF SpawnFails, files
  <2>2. ServersOn(op[w].port) = {} /\ lock[op[w].port] = None
        /\ mark[op[w].port] # None
    BY <1>0, <2>1 DEF Point, PortAt, InFlight
  <2>3. Gentle(w)
    BY <1>0, <2>1, GentleStep
  <2>4. \A p \in Ports : ServersOn(p)' = ServersOn(p)
    BY <2>1 DEF ServersOn
  <2> QED BY <1>0, <2>1, <2>2, <2>3, <2>4, GentleWorld, FailurePoint
          DEF FrameOK, LaunchLabels
<1>2. CASE ClaimLost(w) \/ ClaimRaises(w) \/ RaceCleanup(w)
    BY <1>0, <1>2 DEF ClaimLost, ClaimRaises, RaceCleanup, Point, PortAt
<1>3. CASE AwaitFails(w)
  <2>1. /\ pc[w] = "await" /\ pc' = [pc EXCEPT ![w] = "kill"]
        /\ UNCHANGED <<lock, mark, proc, op>>
    BY <1>3 DEF AwaitFails, Goto, files
  <2>2. Gentle(w)
    BY <1>0, <2>1, GentleStep
  <2>3. Point(w)'
    BY <1>0, <2>1 DEF Point, PortAt, ReportAt, ListingAt, InFlight, ServersOn, Target
  <2> QED BY <1>0, <2>2, <2>3, GentleWorld
<1>4. CASE KillUnready(w)
  <2>1. /\ pc[w] = "kill" /\ pc' = [pc EXCEPT ![w] = "unlock"]
        /\ proc' = [proc EXCEPT ![op[w].pid] = None]
        /\ op' = [op EXCEPT ![w].out = FailureOutcome(w, IsCancelled(op[w].port))]
        /\ UNCHANGED <<lock, mark>>
    BY <1>4 DEF KillUnready, KillOwn, Goto, files
  <2>2. Gentle(w)
    BY <1>0, <2>1, GentleStep DEF Kills
  <2>3. ServersOn(op[w].port) \subseteq {op[w].pid} /\ mark[op[w].port] # None
    BY <1>0, <2>1 DEF Point, PortAt, InFlight
  <2>4. /\ op'[w].port = op[w].port /\ op'[w].verb = op[w].verb
        /\ op'[w].stage = op[w].stage
        /\ op'[w].out = FailureOutcome(w, IsCancelled(op[w].port))
    BY <1>0, <2>1 DEF Frame
  <2>5. ServersOn(op[w].port)' = {}
    BY <1>0, <2>1, <2>3, <2>4 DEF ServersOn
  <2>6. \E c \in BOOLEAN : op'[w].out = FailureOutcome(w, c)'
    BY <2>4 DEF IsCancelled, FailureOutcome
  <2>7. Point(w)'
    BY <1>0, <2>1, <2>3, <2>4, <2>5, <2>6
       DEF Point, PortAt, ReportAt, ListingAt, InFlight
  <2> QED BY <1>0, <2>2, <2>7, GentleWorld
<1>5. CASE Unlock(w)
  <2>1. /\ pc[w] = "unlock" /\ AfterFailure(w, op[w].out)
        /\ lock' = [lock EXCEPT ![op[w].port] = None]
        /\ UNCHANGED <<mark, proc>>
    BY <1>5 DEF Unlock, RemoveLock
  <2>2. ServersOn(op[w].port) = {} /\ mark[op[w].port] # None
    BY <1>0, <2>1 DEF Point, PortAt, InFlight
  <2>3. PICK c \in BOOLEAN : op[w].out = FailureOutcome(w, c)
    BY <1>0, <2>1 DEF Point, ReportAt
  <2>4. Gentle(w)
    BY <1>0, <2>1, <2>2, GentleStep
  <2>5. \A p \in Ports : ServersOn(p)' = ServersOn(p)
    BY <2>1 DEF ServersOn
  <2>6. op[w].port \in Ports /\ lock'[op[w].port] = None
    BY <1>0, <2>1 DEF FrameOK
  <2> QED BY <1>0, <2>1, <2>2, <2>3, <2>4, <2>5, <2>6, GentleWorld, FailurePoint
          DEF FrameOK, LaunchLabels
<1>6. CASE Release(w)
  <2>1. /\ pc[w] = "release" /\ Return(w)
        /\ mark' = [mark EXCEPT ![op[w].port] = None]
        /\ UNCHANGED <<lock, proc>>
    BY <1>6 DEF Release, ReleaseMarker
  <2>2. Covered(op[w].port) /\ lock[op[w].port] # Torn
    BY <1>0, <2>1 DEF Point, PortAt
  <2>3. Gentle(w)
    BY <1>0, <2>1, <2>2, GentleStep
  <2> QED BY <1>0, <2>1, <2>3, GentleWorld, ReturnPoint
<1> QED BY <1>1, <1>2, <1>3, <1>4, <1>5, <1>6, SpawnSerial, ClaimSerial, ReadySerial
        DEF LaunchStep

\* A start gets past its marker only on an empty port.
LEMMA StartSerial ==
    ASSUME Shape, Serial, NEW w \in Workers, StartStep(w), Undisturbed(w)
    PROVE  World' /\ Point(w)'
<1>0. /\ op \in [Workers -> Frame] /\ pc \in [Workers -> Labels]
      /\ lock \in [Ports -> Claim \cup {None, Torn}]
      /\ mark \in [Ports -> Marker \cup {None, Torn}]
      /\ Point(w) /\ FrameOK(w) /\ World /\ Step(w)
    BY DEF Shape, TypeOK, Serial, FramesOK, Step
<1>1. ASSUME Gentle(w) PROVE World'
    BY <1>0, <1>1, GentleWorld
<1>2. CASE StartClear(w)
  <2>1. /\ pc[w] = "clear" /\ op[w].verb = "start" /\ op[w].port \in Ports
        /\ pc' = [pc EXCEPT ![w] = "take"]
        /\ lock' = [lock EXCEPT ![op[w].port] = None]
        /\ UNCHANGED <<mark, proc, op>>
    BY <1>0, <1>2 DEF StartClear, RemoveLock, Goto, FrameOK
  <2>2. ServersOn(op[w].port) = {} /\ op[w].stage = "new"
    BY <1>0, <2>1 DEF Point, PortAt, FrameOK, Frame
  <2>3. Gentle(w)
    BY <1>0, <2>1, <2>2, GentleStep
  <2>4. Point(w)'
    BY <1>0, <2>1, <2>2, ConstantsAssumption
       DEF Point, PortAt, ReportAt, ListingAt, InFlight, ReadLock
  <2> QED BY <1>1, <2>3, <2>4
<1>3. CASE StartTake(w)
  <2>1. /\ pc[w] = "take" /\ op[w].verb = "start" /\ op[w].port \in Ports
        /\ mark[op[w].port] = None /\ pc' = [pc EXCEPT ![w] = "preflight"]
        /\ mark' = [mark EXCEPT ![op[w].port] = [owner |-> w, cancelled |-> FALSE]]
        /\ UNCHANGED <<lock, proc, op>>
    BY <1>0, <1>3 DEF StartTake, TakeMarker, Goto, FrameOK
  <2>2. [owner |-> w, cancelled |-> FALSE] # None
    BY MarkerThere
  <2>3. lock[op[w].port] = None
    BY <1>0, <2>1 DEF Point, PortAt, ReadLock, World, TornIsMarked
  <2>4. ServersOn(op[w].port) = {}
    <3>1. ~Unclaimed(op[w].port) /\ ~Stuck(op[w].port)
      BY <2>1 DEF Undisturbed, Unclaimed, Stuck
    <3> QED BY <2>1, <2>3, <3>1, <1>0 DEF World, AllAccounted, Covered, ClaimOf, ReadLock
  <2>5. Gentle(w)
    BY <1>0, <2>1, <2>2, GentleStep
  <2>6. Point(w)'
    BY <1>0, <2>1, <2>2, <2>3, <2>4
       DEF Point, PortAt, ReportAt, ListingAt, InFlight, ServersOn
  <2> QED BY <1>1, <2>5, <2>6
<1>4. CASE StartRefused(w)
  <2>1. pc[w] = "take" /\ Return(w) /\ UNCHANGED <<lock, mark, proc>>
    BY <1>4 DEF StartRefused, files
  <2> QED BY <1>0, <1>1, <2>1, GentleStep, ReturnPoint
<1>5. CASE StartPreflight(w) \/ StartCancelled(w)
  <2>1. /\ pc[w] \in {"preflight", "launch"} /\ op[w].verb = "start"
        /\ op[w].port \in Ports /\ UNCHANGED <<lock, mark, proc>>
    BY <1>0, <1>5 DEF StartPreflight, StartCancelled, files, FrameOK
  <2>2. /\ ServersOn(op[w].port) = {} /\ lock[op[w].port] = None
        /\ mark[op[w].port] # None /\ op[w].stage # "back"
    BY <1>0, <2>1 DEF Point, PortAt, InFlight, FrameOK
  <2>3. Gentle(w)
    BY <1>0, <2>1, GentleStep
  <2>4. CASE pc' = [pc EXCEPT ![w] = "launch"] /\ op' = op
    BY <1>0, <1>1, <2>1, <2>2, <2>3, <2>4
       DEF Point, PortAt, ReportAt, ListingAt, InFlight, ServersOn
  <2>5. ASSUME NEW out \in {"cancelled", "rejected_preflight"}, Finish(w, out)
        PROVE  Point(w)'
    <3>1. ServersOn(op[w].port)' \subseteq ServersOn(op[w].port)
      BY <1>0, <2>1, <2>5 DEF ServersOn, Finish, Frame
    <3>2. Covered(op[w].port) /\ out \in Outcomes
      BY <2>2 DEF Covered, Outcomes
    <3> QED BY <2>1, <2>2, <2>5, <3>1, <3>2, FinishPoint, ConstantsAssumption
  <2> QED BY <1>1, <1>5, <2>3, <2>4, <2>5 DEF StartPreflight, StartCancelled, Goto
<1> QED BY <1>2, <1>3, <1>4, <1>5 DEF StartStep

\* The server a stop or a swap finds is the one the lockfile claims, and the
\* only one.
LEMMA StopSerial ==
    ASSUME Shape, Serial, NEW w \in Workers, StopStep(w), Undisturbed(w)
    PROVE  World' /\ Point(w)'
<1>0. /\ op \in [Workers -> Frame] /\ pc \in [Workers -> Labels]
      /\ lock \in [Ports -> Claim \cup {None, Torn}]
      /\ mark \in [Ports -> Marker \cup {None, Torn}]
      /\ proc \in [Pids -> Process \cup {None}]
      /\ Point(w) /\ FrameOK(w) /\ World /\ Step(w)
    BY DEF Shape, TypeOK, Serial, FramesOK, Step
<1>1. ASSUME Gentle(w) PROVE World'
    BY <1>0, <1>1, GentleWorld
<1>2. CASE ClearAndReturn(w)
  <2>1. /\ pc[w] = "clear" /\ op[w].port \in Ports /\ Return(w)
        /\ lock' = [lock EXCEPT ![op[w].port] = None]
        /\ UNCHANGED <<mark, proc>>
    BY <1>0, <1>2 DEF ClearAndReturn, RemoveLock, FrameOK
  <2>2. ServersOn(op[w].port) = {}
    BY <1>0, <2>1 DEF Point, PortAt
  <2>3. Gentle(w)
    BY <1>0, <2>1, <2>2, GentleStep
  <2> QED BY <1>1, <2>1, <2>3, ReturnPoint
<1>3. CASE Find(w)
  <2>1. PICK q \in ServersOn(op[w].port) : op' = [op EXCEPT ![w].pid = q]
    BY <1>3 DEF Find
  <2>2. /\ pc[w] = "find" /\ pc' = [pc EXCEPT ![w] = "term"]
        /\ op[w].port \in Ports /\ UNCHANGED <<lock, mark, proc>>
    BY <1>0, <1>3 DEF Find, Goto, files, FrameOK
  <2>3. ReadLock(op[w].port) # None /\ op[w].stage = "new"
        /\ (op[w].verb = "swap" => mark[op[w].port] # None)
    BY <1>0, <2>2 DEF Point, PortAt, ReportAt, InFlight
  <2>4. Covered(op[w].port)
    BY <1>0, <2>2, <2>3, ClaimCovers
  <2>5. ServersOn(op[w].port) \subseteq {q}
    BY <2>4 DEF Covered, ClaimOf
  <2>6. Gentle(w)
    BY <1>0, <2>2, GentleStep
  <2>7. /\ op'[w].port = op[w].port /\ op'[w].verb = op[w].verb
        /\ op'[w].stage = op[w].stage /\ op'[w].pid = q
    BY <1>0, <2>1 DEF Frame, ServersOn
  <2>8. Point(w)'
    BY <1>0, <2>2, <2>3, <2>5, <2>7
       DEF Point, PortAt, ReportAt, ListingAt, InFlight, ServersOn, ReadLock
  <2> QED BY <1>1, <2>6, <2>8
<1>4. CASE FindNothing(w) \/ TerminateMissed(w) \/ TerminateDenied(w)
  <2>1. /\ pc[w] \in {"find", "term"} /\ op[w].port \in Ports
        /\ op[w].verb \in {"stop", "swap"}
        /\ UNCHANGED <<lock, mark, proc>>
    BY <1>0, <1>4 DEF FindNothing, TerminateMissed, TerminateDenied, files, FrameOK
  <2>2. Gentle(w)
    BY <1>0, <2>1, GentleStep
  <2>3. CASE Return(w)
    BY <1>1, <2>2, <2>3, ReturnPoint
  <2>4. ASSUME NEW out \in {"rejected_stop_failed", "raised"},
               op[w].verb = "swap", Finish(w, out)
        PROVE  World' /\ Point(w)'
    <3>1. ReadLock(op[w].port) # None /\ mark[op[w].port] # None
      BY <1>0, <2>1, <2>4 DEF Point, PortAt, InFlight
    <3>2. Covered(op[w].port) /\ lock[op[w].port] # Torn
      BY <1>0, <2>1, <3>1, ClaimCovers DEF ReadLock
    <3>3. ServersOn(op[w].port)' \subseteq ServersOn(op[w].port)
      BY <1>0, <2>1, <2>4 DEF ServersOn, Finish, Frame
    <3> QED BY <1>1, <2>1, <2>2, <2>4, <3>1, <3>2, <3>3, FinishPoint DEF Outcomes
  <2> QED BY <1>4, <2>1, <2>3, <2>4
          DEF FindNothing, TerminateMissed, TerminateDenied, StopFailed
<1>5. CASE Terminate(w)
  <2>1. /\ pc[w] = "term" /\ pc' = [pc EXCEPT ![w] = "unclaim"]
        /\ proc' = [proc EXCEPT ![op[w].pid] = None]
        /\ op[w].port \in Ports /\ op[w].pid \in Pids
        /\ UNCHANGED <<lock, mark, op>>
    BY <1>0, <1>5 DEF Terminate, Goto, files, FrameOK
  <2>2. Gentle(w)
    BY <1>0, <2>1, GentleStep DEF Kills
  <2>3. ServersOn(op[w].port) \subseteq {op[w].pid} /\ op[w].stage = "new"
        /\ (op[w].verb = "swap" => mark[op[w].port] # None)
    BY <1>0, <2>1 DEF Point, PortAt, ReportAt, InFlight
  <2>4. ServersOn(op[w].port)' = {}
    BY <1>0, <2>1, <2>3 DEF ServersOn
  <2>5. Point(w)'
    BY <1>0, <2>1, <2>3, <2>4
       DEF Point, PortAt, ReportAt, ListingAt, InFlight
  <2> QED BY <1>1, <2>2, <2>5
<1>6. CASE Unclaim(w)
  <2>1. /\ pc[w] = "unclaim" /\ op[w].port \in Ports
        /\ op[w].verb \in {"stop", "swap"}
        /\ lock' = [lock EXCEPT ![op[w].port] = None]
        /\ UNCHANGED <<mark, proc>>
    BY <1>0, <1>6 DEF Unclaim, RemoveLock, FrameOK
  <2>2. ServersOn(op[w].port) = {} /\ op[w].stage = "new"
        /\ (op[w].verb = "swap" => mark[op[w].port] # None)
    BY <1>0, <2>1 DEF Point, PortAt, ReportAt, InFlight
  <2>3. Gentle(w)
    BY <1>0, <2>1, <2>2, GentleStep
  <2>4. CASE Return(w)
    BY <1>1, <2>3, <2>4, ReturnPoint
  <2>5. CASE /\ op[w].verb = "swap" /\ pc' = [pc EXCEPT ![w] = "launch"]
             /\ op' = [op EXCEPT ![w].pid = None]
    <3>1. /\ op'[w].port = op[w].port /\ op'[w].verb = op[w].verb
          /\ op'[w].stage = op[w].stage
      BY <1>0, <2>5 DEF Frame
    <3>2. Point(w)'
      BY <1>0, <2>1, <2>2, <2>5, <3>1
         DEF Point, PortAt, ReportAt, ListingAt, InFlight, ServersOn
    <3> QED BY <1>1, <2>3, <3>2
  <2> QED BY <1>6, <2>1, <2>4, <2>5 DEF Unclaim, Goto
<1> QED BY <1>2, <1>3, <1>4, <1>5, <1>6 DEF StopStep

\* A swap takes its marker on a port that is claimed.
LEMMA SwapSerial ==
    ASSUME Shape, Serial, NEW w \in Workers, SwapStep(w), Undisturbed(w)
    PROVE  World' /\ Point(w)'
<1>0. /\ op \in [Workers -> Frame] /\ pc \in [Workers -> Labels]
      /\ lock \in [Ports -> Claim \cup {None, Torn}]
      /\ mark \in [Ports -> Marker \cup {None, Torn}]
      /\ Point(w) /\ FrameOK(w) /\ World /\ Step(w)
    BY DEF Shape, TypeOK, Serial, FramesOK, Step
<1>1. ASSUME Gentle(w) PROVE World'
    BY <1>0, <1>1, GentleWorld
<1>2. ASSUME pc[w] \in {"take", "same", "reclaim"}, pc[w] = "take" => op[w].verb = "swap"
      PROVE  /\ op[w].port \in Ports /\ ReadLock(op[w].port) # None
             /\ Covered(op[w].port) /\ lock[op[w].port] # Torn
             /\ pc[w] = "take" => op[w].stage = "new"
  <2>1. op[w].port \in Ports /\ ReadLock(op[w].port) # None
        /\ (pc[w] = "take" => op[w].stage = "new")
    BY <1>0, <1>2 DEF FrameOK, Point, PortAt, ReportAt
  <2> QED BY <1>0, <1>2, <2>1, ClaimCovers DEF ReadLock
<1>3. CASE SwapTake(w) \/ SwapSame(w)
  <2>1. /\ pc[w] \in {"take", "same"} /\ mark[op[w].port] = None
        /\ pc[w] = "take" => op[w].verb = "swap"
        /\ mark' = [mark EXCEPT ![op[w].port] = [owner |-> w, cancelled |-> FALSE]]
        /\ UNCHANGED <<lock, proc>>
    BY <1>3 DEF SwapTake, SwapSame, TakeMarker
  <2>2. [owner |-> w, cancelled |-> FALSE] # None
    BY MarkerThere
  <2>3. Gentle(w)
    BY <1>0, <1>2, <2>1, <2>2, GentleStep
  <2>4. CASE SwapTake(w)
    <3>1. pc[w] = "take" /\ pc' = [pc EXCEPT ![w] = "find"] /\ op' = op
      BY <2>4 DEF SwapTake, Goto
    <3>2. Point(w)'
      BY <1>0, <1>2, <2>1, <2>2, <3>1
         DEF Point, PortAt, ReportAt, ListingAt, InFlight, ReadLock
    <3> QED BY <1>1, <2>3, <3>2
  <2>5. CASE SwapSame(w)
    <3>1. Finish(w, "already_running")
      BY <2>5 DEF SwapSame
    <3>2. ServersOn(op[w].port)' \subseteq ServersOn(op[w].port)
      BY <1>0, <2>1, <3>1 DEF ServersOn, Finish, Frame
    <3>3. Point(w)'
      BY <1>0, <1>2, <2>1, <2>2, <3>1, <3>2, FinishPoint DEF Outcomes
    <3> QED BY <1>1, <2>3, <3>3
  <2> QED BY <1>3, <2>4, <2>5
<1>4. CASE SwapInProgress(w) \/ SwapTakeRaises(w)
  <2>1. /\ pc[w] \in {"take", "same"} /\ op[w].verb = "swap"
        /\ UNCHANGED <<lock, mark, proc>>
        /\ Return(w) \/ (pc' = [pc EXCEPT ![w] = "reclaim"] /\ op' = op)
    BY <1>4 DEF SwapInProgress, SwapTakeRaises, Goto, files
  <2>2. Gentle(w)
    BY <1>0, <2>1, GentleStep
  <2>3. CASE pc' = [pc EXCEPT ![w] = "reclaim"] /\ op' = op
    BY <1>0, <1>1, <1>2, <2>1, <2>2, <2>3
       DEF Point, PortAt, ReportAt, ListingAt, InFlight, ReadLock
  <2> QED BY <1>1, <2>1, <2>2, <2>3, ReturnPoint
<1>5. CASE SwapReclaim(w)
  <2>1. /\ pc[w] = "reclaim" /\ Return(w)
        /\ mark' = [mark EXCEPT ![op[w].port] = None]
        /\ UNCHANGED <<lock, proc>>
    BY <1>5 DEF SwapReclaim, ReleaseMarker
  <2>2. Gentle(w)
    BY <1>0, <1>2, <2>1, GentleStep
  <2> QED BY <1>1, <2>1, <2>2, ReturnPoint
<1>6. CASE SwapCancelled(w)
  <2> DEFINE f == [op[w] EXCEPT !.stage = "back", !.out = "cancelled"]
  <2>1. /\ pc[w] = "launch" /\ op' = [op EXCEPT ![w] = f]
        /\ UNCHANGED <<lock, mark, proc, pc>>
    BY <1>6 DEF SwapCancelled, files
  <2>2. /\ f.port = op[w].port /\ f.verb = op[w].verb /\ f.out = "cancelled"
    BY <1>0 DEF Frame
  <2> HIDE DEF f
  <2>3. Gentle(w)
    BY <1>0, <2>1, GentleStep
  <2>4. Point(w)'
    BY <1>0, <2>1, <2>2
       DEF Point, PortAt, ReportAt, ListingAt, InFlight, ServersOn
  <2> QED BY <1>1, <2>3, <2>4
<1> QED BY <1>3, <1>4, <1>5, <1>6 DEF SwapStep

\* A sweep or a delete_model that finds a claim dead finds its port empty.
LEMMA UpkeepSerial ==
    ASSUME Shape, Serial, NEW w \in Workers, UpkeepStep(w), ~CancelWrite(w),
           Undisturbed(w)
    PROVE  World' /\ Point(w)'
<1>0. /\ op \in [Workers -> Frame] /\ pc \in [Workers -> Labels]
      /\ lock \in [Ports -> Claim \cup {None, Torn}]
      /\ snap \in [Workers -> [Ports -> Claim \cup {None}]]
      /\ Point(w) /\ World /\ Step(w)
    BY DEF Shape, TypeOK, Serial, Step
<1>1. ASSUME Gentle(w) PROVE World'
    BY <1>0, <1>1, GentleWorld
<1>2. ASSUME NEW p \in Ports, ScanStale(w, p) PROVE World' /\ Point(w)'
  <2>1. /\ pc[w] = "scan" /\ snap[w][p] # None /\ ~PidAlive(snap[w][p].pid)
        /\ lock' = [lock EXCEPT ![p] = None]
        /\ snap' = [snap EXCEPT ![w][p] = None]
        /\ UNCHANGED <<mark, proc, pc, op>>
    BY <1>2 DEF ScanStale, RemoveLock
  <2>2. lock[p] = snap[w][p] /\ ReadLock(p) # None
    BY <1>0, <2>1, FilesAssumption DEF Point, ListingAt, ReadLock
  <2>3. Covered(p)
    BY <1>0, <2>1, <2>2, ClaimCovers
  <2>4. ServersOn(p) = {}
    BY <2>1, <2>2, <2>3, DeadClaimEmpty
  <2>5. Gentle(w)
    BY <1>0, <2>1, <2>4, GentleStep
  <2>6. Point(w)'
    BY <1>0, <2>1 DEF Point, PortAt, ReportAt, ListingAt, InFlight
  <2> QED BY <1>1, <2>5, <2>6
<1>3. CASE ScanDone(w) \/ DeleteDrop(w) \/ \E p \in Ports : ScanLive(w, p)
  <2>1. /\ pc[w] \in {"scan", "drop"} /\ UNCHANGED <<lock, mark, proc>>
        /\ \/ Return(w)
           \/ pc' = [pc EXCEPT ![w] = "drop"] /\ op' = op
           \/ /\ pc[w] = "scan" /\ UNCHANGED <<pc, op>>
              /\ \E p \in Ports : snap' = [snap EXCEPT ![w][p] = None]
    BY <1>3 DEF ScanDone, DeleteDrop, ScanLive, Goto, files
  <2>2. Gentle(w)
    BY <1>0, <2>1, GentleStep
  <2>3. CASE Return(w)
    BY <1>1, <2>2, <2>3, ReturnPoint
  <2>4. CASE pc' = [pc EXCEPT ![w] = "drop"] /\ op' = op
    BY <1>0, <1>1, <2>2, <2>4 DEF Point, PortAt, ReportAt, ListingAt, InFlight
  <2>5. ASSUME pc[w] = "scan", UNCHANGED <<pc, op>>, NEW p \in Ports,
               snap' = [snap EXCEPT ![w][p] = None]
        PROVE  Point(w)'
    BY <1>0, <2>1, <2>5 DEF Point, PortAt, ReportAt, ListingAt, InFlight
  <2> QED BY <1>1, <2>1, <2>2, <2>3, <2>4, <2>5
<1> QED BY <1>2, <1>3 DEF UpkeepStep

\* A call finds its port as the last one left it.
LEMMA CallSerial ==
    ASSUME Shape, Serial, NEW w \in Workers, Call(w), Undisturbed(w)
    PROVE  World' /\ Point(w)'
<1>0. /\ op \in [Workers -> Frame] /\ pc \in [Workers -> Labels]
      /\ lock \in [Ports -> Claim \cup {None, Torn}]
      /\ snap \in [Workers -> [Ports -> Claim \cup {None}]]
      /\ Point(w) /\ World
    BY DEF Shape, TypeOK, Serial
<1>1. pc[w] = "idle" /\ UNCHANGED <<lock, mark, proc>>
    BY DEF Call, StartCall, StopCall, SwapCall, UpkeepCall, StartEnter, StopEnter,
       SwapEnter, SweepEnter, DeleteEnter, Add, CancelEnter, Idle, files
<1>2. World'
    BY <1>0, <1>1, GentleStep, GentleWorld
<1>3. ASSUME NEW p \in Ports, ReadLock(p) # None, ~PidAlive(lock[p].pid)
      PROVE  ServersOn(p) = {}
  <2>1. Covered(p)
    BY <1>0, <1>1, <1>3, ClaimCovers
  <2> QED BY <1>3, <2>1, DeadClaimEmpty
<1>4. ASSUME NEW label \in {"take", "clear", "same", "find"},
             NEW verb \in Verbs, NEW p \in Ports, NEW m,
             Enter(w, label, verb, p, m),
             label = "clear" => ServersOn(p) = {},
             label \in {"same", "find"} => ReadLock(p) # None,
             label = "find" => verb = "stop",
             label = "take" => (ReadLock(p) # None <=> verb = "swap")
      PROVE  Point(w)'
  <2> DEFINE f == [NoFrame EXCEPT !.verb = verb, !.port = p, !.model = m]
  <2>1. pc' = [pc EXCEPT ![w] = label] /\ op' = [op EXCEPT ![w] = f]
    BY <1>4 DEF Enter, Goto
  <2>2. f.verb = verb /\ f.port = p /\ f.stage = "new"
    BY DEF NoFrame
  <2> HIDE DEF f
  <2>3. /\ pc'[w] = label /\ op'[w].verb = verb /\ op'[w].port = p
        /\ op'[w].stage = "new"
    BY <1>0, <2>1, <2>2
  <2>4. ServersOn(p)' = ServersOn(p) /\ ReadLock(p)' = ReadLock(p)
    BY <1>1 DEF ServersOn, ReadLock
  <2> QED BY <1>4, <2>3, <2>4
          DEF Point, PortAt, ReportAt, ListingAt, InFlight
<1>5. ASSUME NEW p \in Ports, NEW m \in Models, StartEnter(w, p, m)
      PROVE  Point(w)'
    BY <1>3, <1>4, <1>5 DEF StartEnter, ReadLock, Verbs
<1>6. ASSUME NEW p \in Ports, StopEnter(w, p) PROVE Point(w)'
    BY <1>3, <1>4, <1>6 DEF StopEnter, ReadLock, Verbs
<1>7. ASSUME NEW p \in Ports, NEW m \in Models, SwapEnter(w, p, m)
      PROVE  Point(w)'
  <2>1. CASE Enter(w, "clear", "swap", p, m) /\ ~PidAlive(lock[p].pid)
    BY <1>3, <1>4, <1>7, <2>1 DEF SwapEnter, Verbs
  <2>2. CASE Enter(w, "same", "swap", p, m)
    BY <1>4, <1>7, <2>2 DEF SwapEnter, Verbs
  <2>3. CASE /\ pc' = [pc EXCEPT ![w] = "take"]
             /\ op' = [op EXCEPT ![w] =
                        [NoFrame EXCEPT !.verb = "swap", !.port = p,
                                        !.model = m, !.prev = lock[p].model]]
    <3>1. /\ op'[w].verb = "swap" /\ op'[w].port = p /\ op'[w].stage = "new"
          /\ pc'[w] = "take"
      BY <1>0, <2>3 DEF NoFrame
    <3>2. ReadLock(p)' # None
      BY <1>1, <1>7 DEF SwapEnter, ReadLock
    <3> QED BY <3>1, <3>2
            DEF Point, PortAt, ReportAt, ListingAt, InFlight, ReadLock
  <2> QED BY <1>7, <2>1, <2>2, <2>3 DEF SwapEnter, Goto
<1>8. ASSUME SweepEnter(w) \/ \E m \in Models : DeleteEnter(w, m)
      PROVE  Point(w)'
  <2>1. pc' = [pc EXCEPT ![w] = "scan"]
    BY <1>8 DEF SweepEnter, DeleteEnter, Enter, Goto
  <2>2. \A p \in Ports : snap'[w][p] # None => lock[p] = snap'[w][p]
    <3>1. CASE SweepEnter(w)
      BY <1>0, <3>1 DEF SweepEnter, Listing, ReadLock
    <3>2. ASSUME NEW m \in Models, DeleteEnter(w, m)
          PROVE  \A p \in Ports : snap'[w][p] # None => lock[p] = snap'[w][p]
      BY <1>0, <3>2 DEF DeleteEnter
    <3> QED BY <1>8, <3>1, <3>2
  <2> QED BY <1>0, <1>1, <2>1, <2>2 DEF Point, PortAt, ReportAt, ListingAt, InFlight
<1>9. ASSUME (\E m \in Models : Add(w, m)) \/ \E p \in Ports : CancelEnter(w, p)
      PROVE  Point(w)'
  <2>1. pc'[w] \in {"idle", "write"}
    BY <1>0, <1>1, <1>9 DEF Add, local, CancelEnter, Enter, Goto
  <2> QED BY <2>1 DEF Point, PortAt, ReportAt, ListingAt, InFlight
<1> QED BY <1>2, <1>5, <1>6, <1>7, <1>8, <1>9
        DEF Call, StartCall, StopCall, SwapCall, UpkeepCall

-----------------------------------------------------------------------------
(* Everybody else, the environment and crashes.                             *)

\* What w relies on stays as long as its port is left alone.
LEMMA PointKept ==
    ASSUME Shape, NEW v \in Workers, Point(v), UNCHANGED lock,
           pc'[v] = pc[v], op'[v] = op[v], pc[v] = "scan" => snap'[v] = snap[v],
           \A p \in Ports : ServersOn(p)' \subseteq ServersOn(p),
           \A p \in Ports : mark[p] # None => mark'[p] # None
    PROVE  Point(v)'
<1>0. pc[v] \notin {"idle", "scan", "drop"} => op[v].port \in Ports
    BY DEF Shape, FramesOK, FrameOK
<1>1. PortAt(v)'
  <2>1. CASE pc[v] \in {"idle", "scan", "drop"}
    BY <2>1 DEF PortAt, InFlight
  <2>2. CASE op[v].port \in Ports
    <3>1. Covered(op[v].port) => Covered(op[v].port)'
      BY <2>2 DEF Covered, ClaimOf, ReadLock
    <3>2. ReadLock(op[v].port)' = ReadLock(op[v].port)
      BY DEF ReadLock
    <3>3. Target(v)' = Target(v) /\ InFlight(v)' = InFlight(v)
      BY DEF Target, InFlight
    <3> QED BY <2>2, <3>1, <3>2, <3>3 DEF Point, PortAt
  <2> QED BY <1>0, <2>1, <2>2
<1>2. ReportAt(v)'
  <2>1. \A c \in BOOLEAN : FailureOutcome(v, c)' = FailureOutcome(v, c)
    BY DEF FailureOutcome
  <2>2. pc[v] = "release" =>
            ServersOn(op[v].port)' \subseteq ServersOn(op[v].port)
    BY <1>0
  <2> QED BY <2>1, <2>2 DEF Point, ReportAt
<1>3. ListingAt(v)'
    BY DEF Point, ListingAt
<1> QED BY <1>1, <1>2, <1>3 DEF Point

\* A worker without a verb, and one that is going to write a cancel, rely on
\* nothing.
LEMMA IdlePoint ==
    ASSUME NEW v \in Workers, pc'[v] \in {"idle", "write"}
    PROVE  Point(v)'
BY DEF Point, PortAt, ReportAt, ListingAt, InFlight

\* A cancel disturbs nobody: it flags a marker, or writes one back that was
\* released.
LEMMA CancelGentle ==
    ASSUME Shape, NEW w \in Workers,
           CancelWrite(w) \/ \E p \in Ports : CancelEnter(w, p)
    PROVE  /\ Gentle(w) /\ UNCHANGED <<lock, proc, snap>>
           /\ pc'[w] \in {"idle", "write"}
           /\ \A p \in Ports : mark[p] # None => mark'[p] # None
<1>0. /\ pc \in [Workers -> Labels] /\ op \in [Workers -> Frame]
      /\ mark \in [Ports -> Marker \cup {None, Torn}]
      /\ seen \in [Workers -> Marker \cup {None}]
    BY DEF Shape, TypeOK
<1>1. Call(w) \/ Step(w)
    BY DEF Call, UpkeepCall, Step, UpkeepStep
<1>3. UNCHANGED <<lock, proc, snap>> /\ pc[w] # "claim" /\ pc'[w] \in {"idle", "write"}
    BY <1>0 DEF CancelWrite, CancelEnter, Idle, Enter, Return, Goto, files
<1>4. \A p \in Ports : mark[p] # None => mark'[p] # None
  <2>1. CASE mark' = mark
    BY <2>1
  <2>2. CASE CancelWrite(w)
    <3>1. seen[w] \in Marker
      BY <1>0, <2>2 DEF CancelWrite, Shape, FramesOK, FrameOK
    <3>2. [seen[w] EXCEPT !.cancelled = TRUE] \in Marker
      BY <3>1 DEF Marker
    <3>3. [seen[w] EXCEPT !.cancelled = TRUE] # None
      BY <3>2, FilesAssumption
    <3> QED BY <1>0, <2>2, <3>3 DEF CancelWrite
  <2> QED BY <2>1, <2>2 DEF CancelEnter, files
<1>5. Gentle(w)
    BY <1>1, <1>3, <1>4, GentleStep
<1> QED BY <1>3, <1>4, <1>5

\* A cancel disturbs nobody.
LEMMA CancelSerial ==
    ASSUME Shape, Serial, NEW w \in Workers,
           CancelWrite(w) \/ \E p \in Ports : CancelEnter(w, p)
    PROVE  Serial'
<1>0. World /\ \A v \in Workers : Point(v)
    BY DEF Serial
<1>1. /\ Gentle(w) /\ UNCHANGED <<lock, proc, snap>> /\ pc'[w] \in {"idle", "write"}
      /\ \A p \in Ports : mark[p] # None => mark'[p] # None
    BY CancelGentle
<1>2. ASSUME NEW v \in Workers PROVE Point(v)'
  <2>1. CASE v = w
    BY <1>1, <2>1, IdlePoint
  <2>2. CASE v # w
    <3>1. \A p \in Ports : ServersOn(p)' \subseteq ServersOn(p)
      BY <1>1 DEF ServersOn
    <3>2. pc'[v] = pc[v] /\ op'[v] = op[v] /\ snap'[v] = snap[v]
      BY <1>1, <2>2 DEF Gentle, Alone
    <3> QED BY <1>0, <1>1, <3>1, <3>2, PointKept
  <2> QED BY <2>1, <2>2
<1> QED BY <1>0, <1>1, <1>2, GentleWorld DEF Serial

\* A step of a verb keeps Serial unless another verb is under way.
LEMMA StepSerial ==
    ASSUME Shape, Serial, NEW w \in Workers, Call(w) \/ Step(w),
           Undisturbed(w), Env \cap {"denied", "disk"} = {}
    PROVE  Serial'
<1>1. CASE CancelWrite(w)
    BY <1>1, CancelSerial
<1>2. CASE ~CancelWrite(w)
  <2>1. World' /\ Point(w)'
    BY <1>2, CallSerial, LaunchSerial, StartSerial, StopSerial, SwapSerial,
       UpkeepSerial DEF Step
  <2>2. ASSUME NEW v \in Workers \ {w} PROVE Point(v)'
    <3>1. pc'[v] \in {"idle", "write"}
      BY StepAlone DEF Alone, Undisturbed
    <3> QED BY <3>1, IdlePoint
  <2> QED BY <2>1, <2>2 DEF Serial
<1> QED BY <1>1, <1>2

\* Servers bind, serve, exit, and their pids are given to strangers.
LEMMA EnvironmentServers ==
    ASSUME Shape, Environment \/ UNCHANGED vars
    PROVE  /\ \A p \in Ports : ServersOn(p)' \subseteq ServersOn(p)
           /\ \A q \in Servers' :
                 /\ q \in Servers /\ proc'[q].port = proc[q].port
                 /\ proc'[q].model = proc[q].model /\ proc'[q].kept = proc[q].kept
<1>0. proc \in [Pids -> Process \cup {None}] /\ ProcessesOK
    BY DEF Shape, TypeOK
<1> DEFINE Same == /\ \A p \in Ports : ServersOn(p)' \subseteq ServersOn(p)
                   /\ \A q \in Servers' :
                         /\ q \in Servers /\ proc'[q].port = proc[q].port
                         /\ proc'[q].model = proc[q].model
                         /\ proc'[q].kept = proc[q].kept
<1>1. CASE UNCHANGED vars
    BY <1>1 DEF vars, ServersOn, Servers
<1>2. ASSUME NEW q \in Pids, Exit(q) PROVE Same
    BY <1>0, <1>2 DEF Exit, ServersOn, Servers
<1>3. ASSUME NEW q \in Pids, Bind(q) \/ Serve(q) PROVE Same
  <2>1. PICK st \in {"bound", "serving"} : proc' = [proc EXCEPT ![q].st = st]
    BY <1>3 DEF Bind, Serve
  <2>2. proc[q] \in Process /\ proc[q].st # "alien"
    BY <1>0, <1>3 DEF Bind, Serve
  <2>3. /\ proc'[q].port = proc[q].port /\ proc'[q].kept = proc[q].kept
        /\ proc'[q].model = proc[q].model
        /\ \A r \in Pids \ {q} : proc'[r] = proc[r]
    BY <1>0, <2>1, <2>2 DEF Process
  <2> QED BY <2>2, <2>3, FilesAssumption DEF ServersOn, Servers
<1>4. ASSUME NEW q \in Pids, Reuse(q) PROVE Same
    BY <1>0, <1>4, ConstantsAssumption DEF Reuse, ServersOn, Servers
<1> QED BY <1>1, <1>2, <1>3, <1>4 DEF Environment

\* None of this orphans a server ...
LEMMA WorldEnvironment ==
    ASSUME Shape, World, Environment \/ UNCHANGED vars
    PROVE  World'
<1>0. UNCHANGED <<lock, mark, up, pc, op>>
    BY EnvironmentQuiet
<1>1. /\ \A p \in Ports : ServersOn(p)' \subseteq ServersOn(p)
      /\ \A q \in Servers' : /\ q \in Servers /\ proc'[q].port = proc[q].port
                             /\ proc'[q].kept = proc[q].kept
    BY EnvironmentServers
<1>2. AllAccounted'
    BY <1>0, <1>1 DEF World, AllAccounted, Covered, ClaimOf, ReadLock, Unclaimed, Stuck
<1>3. OneEach' /\ TornIsMarked'
    BY <1>0, <1>1 DEF World, OneEach, TornIsMarked
<1>4. KeptAreClaimed'
    BY <1>0, <1>1 DEF World, KeptAreClaimed, ClaimOf, ReadLock
<1> QED BY <1>2, <1>3, <1>4 DEF World

\* ... or takes from a verb what it relies on.
LEMMA SerialEnvironment ==
    ASSUME Shape, Serial, Environment \/ UNCHANGED vars
    PROVE  Serial'
<1>1. /\ \A p \in Ports : ServersOn(p)' \subseteq ServersOn(p)
      /\ UNCHANGED <<lock, mark, pc, op, snap>>
    BY EnvironmentServers, EnvironmentQuiet
<1>2. \A v \in Workers : Point(v)'
    BY <1>1, PointKept DEF Serial
<1> QED BY <1>2, WorldEnvironment DEF Serial

\* A node starts without a server and without a verb.
LEMMA InitSerial == Init => Serial
BY ConstantsAssumption DEF Init, Serial, World, AllAccounted, OneEach, TornIsMarked,
   KeptAreClaimed, Covered, ServersOn, Servers, Point, PortAt, ReportAt, ListingAt,
   InFlight

-----------------------------------------------------------------------------
(* One operator, and others who may cancel.                                 *)

\* Nobody but o is asked for anything but cancels.
OneOperator(o) == \A v \in Workers \ {o} : Duties[v] \subseteq {"cancel"}

\* Who only cancels is idle or about to write a cancel.
LEMMA BystanderStep ==
    ASSUME Shape, NEW v \in Workers, Duties[v] \subseteq {"cancel"},
           pc[v] \in {"idle", "write"}, Call(v) \/ Step(v)
    PROVE  /\ CancelWrite(v) \/ \E p \in Ports : CancelEnter(v, p)
           /\ pc'[v] \in {"idle", "write"}
<1>0. pc \in [Workers -> Labels]
    BY DEF Shape, TypeOK
<1>1. CASE Call(v)
  <2>1. \E p \in Ports : CancelEnter(v, p)
    BY <1>1 DEF Call, StartCall, StopCall, SwapCall, UpkeepCall, StartEnter,
       StopEnter, SwapEnter, SweepEnter, DeleteEnter, Add, Idle
  <2> QED BY <1>0, <2>1 DEF CancelEnter, Enter, Goto
<1>2. CASE Step(v)
  <2>1. CancelWrite(v)
    BY <1>2 DEF Step, LaunchStep, Spawn, SpawnFails, ClaimPort, ClaimLost,
       ClaimRaises, RaceCleanup, AwaitReady, AwaitFails, KillUnready, Unlock,
       Release, StartStep, StartClear, StartTake, StartRefused, StartPreflight,
       StartCancelled, StopStep, ClearAndReturn, Find, FindNothing, Terminate,
       TerminateMissed, TerminateDenied, Unclaim, SwapStep, SwapTake, SwapSame,
       SwapInProgress,
       SwapReclaim, SwapTakeRaises, SwapCancelled, UpkeepStep, ScanStale,
       ScanLive, ScanDone, DeleteDrop
  <2> QED BY <1>0, <2>1 DEF CancelWrite, Return, Goto
<1> QED BY <1>1, <1>2

\* With one operator a step is his, a cancel, or one of the environment.
LEMMA OperatorNext ==
    ASSUME Shape, NEW o \in Workers, OneOperator(o), Undisturbed(o),
           Next \/ UNCHANGED vars
    PROVE  /\ Undisturbed(o)'
           /\ \/ Call(o) \/ Step(o)
              \/ \E v \in Workers \ {o} :
                    CancelWrite(v) \/ \E p \in Ports : CancelEnter(v, p)
              \/ Environment \/ UNCHANGED vars
<1>1. ASSUME Call(o) \/ Step(o) PROVE Undisturbed(o)'
    BY <1>1, StepAlone DEF Alone, Undisturbed
<1>2. ASSUME NEW v \in Workers \ {o}, Call(v) \/ Step(v)
      PROVE  /\ Undisturbed(o)'
             /\ CancelWrite(v) \/ \E p \in Ports : CancelEnter(v, p)
  <2>1. /\ CancelWrite(v) \/ \E p \in Ports : CancelEnter(v, p)
        /\ pc'[v] \in {"idle", "write"}
    BY <1>2, BystanderStep DEF OneOperator, Undisturbed
  <2>2. Alone(v)
    BY <1>2, StepAlone
  <2> QED BY <2>1, <2>2 DEF Alone, Undisturbed
<1>3. CASE Environment \/ UNCHANGED vars
    BY <1>3, EnvironmentQuiet DEF Undisturbed
<1> QED BY <1>1, <1>2, <1>3 DEF Next

\* One operator keeps Serial.
LEMMA OperatorSerial ==
    ASSUME NEW o \in Workers, OneOperator(o), Env \cap {"denied", "disk"} = {}
    PROVE  Shape /\ Undisturbed(o) /\ Serial /\ [Next]_vars
           => Undisturbed(o)' /\ Serial'
<1> SUFFICES ASSUME Shape, Undisturbed(o), Serial, Next \/ UNCHANGED vars
             PROVE  Undisturbed(o)' /\ Serial'
    OBVIOUS
<1> QED BY OperatorNext, StepSerial, CancelSerial, SerialEnvironment

\* At first everybody is idle.
LEMMA InitUndisturbed ==
    ASSUME NEW o \in Workers
    PROVE  Init => Undisturbed(o)
BY DEF Init, Undisturbed

\* What Serial says of a node whose launchers are up.
LEMMA SerialClaims ==
    Shape /\ MarkersHeld /\ Serial => NoOrphan /\ OneServerPerPort
<1> SUFFICES ASSUME Shape, MarkersHeld, Serial PROVE NoOrphan /\ OneServerPerPort
    OBVIOUS
<1>1. NoOrphan
  <2> SUFFICES ASSUME NEW q \in Servers
               PROVE  \/ ClaimOf(proc[q].port, q)
                      \/ \E w \in Workers : InCharge(w, q)
      BY DEF NoOrphan
  <2> DEFINE p == proc[q].port
  <2>1. p \in Ports /\ q \in ServersOn(p)
    BY DEF Shape, ProcessesOK, ProcessOK, Servers, ServersOn
  <2>2. ~Stuck(p)
    BY DEF MarkersHeld, Stuck
  <2>3. ASSUME NEW w \in Workers, pc[w] = "claim", op[w].port = p
        PROVE  InCharge(w, q)
    BY <2>1, <2>3 DEF Serial, Point, PortAt, InCharge
  <2> QED BY <2>1, <2>2, <2>3 DEF Serial, World, AllAccounted, Covered, Unclaimed
<1>2. OneServerPerPort
  <2> SUFFICES ASSUME NEW p \in Ports PROVE Cardinality(ServersOn(p)) <= 1
      BY DEF OneServerPerPort
  <2>1. CASE ServersOn(p) = {}
    <3>1. Cardinality({}) = 0
      BY FS_EmptySet
    <3> QED BY <2>1, <3>1
  <2>2. ASSUME NEW q \in ServersOn(p) PROVE Cardinality(ServersOn(p)) <= 1
    <3>1. ServersOn(p) = {q}
      BY <2>2 DEF Serial, World, OneEach
    <3>2. Cardinality({q}) = 1
      BY FS_Singleton
    <3> QED BY <3>1, <3>2
  <2> QED BY <2>1, <2>2
<1> QED BY <1>1, <1>2

\* With one operator every live server is claimed by its port's lockfile or
\* still being launched, and no port has two.
THEOREM OneOperatorOrphansNothing ==
    ASSUME NEW o \in Workers, OneOperator(o), Env \cap {"denied", "disk"} = {}
    PROVE  Spec => [](NoOrphan /\ OneServerPerPort)
<1>1. Init => Shape /\ MarkersHeld /\ MarkerMutex /\ Undisturbed(o) /\ Serial
    BY InitShape, InitUndisturbed, InitSerial
       DEF Init, MarkersHeld, MarkerMutex, InFlight
<1>2. Shape /\ Undisturbed(o) /\ Serial /\ [Next]_vars
      => Undisturbed(o)' /\ Serial'
    BY OperatorSerial
<1> QED BY <1>1, <1>2, ShapeNext, MutexNext, SerialClaims, PTL DEF Spec

-----------------------------------------------------------------------------
(* One call at a time, launchers die.                                       *)

\* At most one worker runs a verb.
Turns == \A v, w \in Workers : pc[v] # "idle" /\ pc[w] # "idle" => v = w

\* A worker without a verb takes no step.
LEMMA StepNotIdle ==
    ASSUME NEW w \in Workers, Step(w) PROVE pc[w] # "idle"
BY DEF Step, LaunchStep, Spawn, SpawnFails, ClaimPort, ClaimLost,
   ClaimRaises, RaceCleanup, AwaitReady, AwaitFails, KillUnready, Unlock,
   Release, StartStep, StartClear, StartTake, StartRefused, StartPreflight,
   StartCancelled, StopStep, ClearAndReturn, Find, FindNothing, Terminate,
   TerminateMissed, TerminateDenied, Unclaim, SwapStep, SwapTake, SwapSame, SwapInProgress,
   SwapReclaim, SwapTakeRaises, SwapCancelled, UpkeepStep, ScanStale,
   ScanLive, ScanDone, DeleteDrop, CancelWrite

\* What a crash does to the files, to the letter: a claim or a marker is torn
\* only where there was none, a claim only under the marker of its launch.
LEMMA CrashFiles ==
    ASSUME Shape, Serial, NEW l \in Launchers, Crash(l)
    PROVE  /\ \A p \in Ports : \/ lock'[p] = lock[p]
                               \/ /\ lock[p] = None /\ lock'[p] = Torn
                                  /\ \E w \in WorkersOf(l) :
                                        pc[w] = "claim" /\ op[w].port = p
           /\ \A p \in Ports : \/ mark'[p] = mark[p]
                               \/ /\ mark[p] = None /\ mark'[p] = Torn
                                  /\ \E w \in WorkersOf(l) : pc[w] \in {"take", "same"}
           /\ up' = up \ {l} /\ l \in up /\ proc' = proc
           /\ \A w \in Workers : w \notin WorkersOf(l) => snap'[w] = snap[w]
           /\ lock' \in [Ports -> Claim \cup {None, Torn}]
           /\ mark' \in [Ports -> Marker \cup {None, Torn}]
<1>0. TypeOK'
    BY CrashEffects
<1>1. PICK T \in SUBSET TornLocks(l), S \in SUBSET TornMarks(l) :
          /\ lock' = [p \in Ports |-> IF p \in T THEN Torn ELSE lock[p]]
          /\ mark' = [p \in Ports |-> IF p \in S THEN Torn ELSE mark[p]]
    BY DEF Crash
<1>2. /\ up' = up \ {l} /\ l \in up /\ proc' = proc
      /\ \A w \in Workers : w \notin WorkersOf(l) => snap'[w] = snap[w]
    BY DEF Crash
<1>3. \A p \in T : /\ lock[p] = None
                   /\ \E w \in WorkersOf(l) : pc[w] = "claim" /\ op[w].port = p
    BY DEF TornLocks
<1>4. \A p \in S : /\ mark[p] = None
                   /\ \E w \in WorkersOf(l) : pc[w] \in {"take", "same"}
    BY DEF TornMarks
<1> QED BY <1>0, <1>1, <1>2, <1>3, <1>4 DEF TypeOK

\* A launch that is cut off leaves its port stuck, not its server unaccounted.
LEMMA CrashWorld ==
    ASSUME Shape, Serial, NEW l \in Launchers, Crash(l)
    PROVE  World'
<1>0. World /\ up \subseteq Launchers
    BY DEF Serial, Shape, TypeOK
<1>1. /\ \A p \in Ports : \/ lock'[p] = lock[p]
                          \/ lock[p] = None /\ lock'[p] = Torn /\ Unclaimed(p)
      /\ \A p \in Ports : mark[p] # None => mark'[p] # None
      /\ up' = up \ {l} /\ l \in up /\ proc' = proc
    BY CrashFiles DEF Unclaimed, WorkersOf
<1>2. \A p \in Ports : Unclaimed(p) => lock[p] = None /\ mark[p] # None
    BY DEF Serial, Point, PortAt, Unclaimed, InFlight
<1>3. \A p \in Ports : ReadLock(p)' = ReadLock(p) /\ ServersOn(p)' = ServersOn(p)
    BY <1>1, ConstantsAssumption DEF ReadLock, ServersOn
<1>4. AllAccounted'
  <2> SUFFICES ASSUME NEW p \in Ports
               PROVE  (Covered(p) \/ Unclaimed(p) \/ Stuck(p))'
      BY DEF AllAccounted
  <2>1. CASE Covered(p)
    BY <1>1, <1>3, <2>1 DEF Covered, ClaimOf, ReadLock
  <2>2. CASE Unclaimed(p)
    BY <1>0, <1>1, <1>2, <1>3, <2>2 DEF Stuck, ReadLock
  <2>3. CASE Stuck(p)
    BY <1>0, <1>1, <1>3, <2>3 DEF Stuck
  <2> QED BY <1>0, <2>1, <2>2, <2>3 DEF World, AllAccounted
<1>5. OneEach'
    BY <1>0, <1>3 DEF World, OneEach
<1>6. TornIsMarked'
    BY <1>0, <1>1, <1>2 DEF World, TornIsMarked
<1>7. KeptAreClaimed'
  <2> SUFFICES ASSUME NEW q \in Servers, proc[q].kept
               PROVE  ClaimOf(proc[q].port, q)'
      BY <1>1 DEF KeptAreClaimed, Servers
  <2>1. proc[q].port \in Ports /\ ClaimOf(proc[q].port, q)
    BY <1>0 DEF World, KeptAreClaimed, Shape, ProcessesOK, ProcessOK, Servers
  <2> QED BY <1>1, <1>3, <2>1 DEF ClaimOf, ReadLock
<1> QED BY <1>4, <1>5, <1>6, <1>7 DEF World

\* Nobody is left who relies on what a crash has changed.
LEMMA CrashSerial ==
    ASSUME Shape, Serial, Turns, NEW l \in Launchers, Crash(l)
    PROVE  Serial' /\ Turns'
<1>1. CrashEffect(l)
    BY CrashEffects
<1>2. Turns'
    BY <1>1 DEF CrashEffect, Turns
<1>3. ASSUME NEW v \in Workers PROVE Point(v)'
  <2>1. CASE pc'[v] = "idle"
    BY <2>1, IdlePoint
  <2>2. CASE pc'[v] # "idle"
    <3>1. v \notin WorkersOf(l) /\ pc'[v] = pc[v] /\ op'[v] = op[v]
      BY <1>1, <2>2 DEF CrashEffect
    <3>2. \A w \in WorkersOf(l) : pc[w] = "idle"
      BY <2>2, <3>1 DEF Turns, WorkersOf
    <3>3. /\ \A p \in Ports : lock'[p] = lock[p] /\ mark'[p] = mark[p]
          /\ lock' \in [Ports -> Claim \cup {None, Torn}]
          /\ snap'[v] = snap[v] /\ proc' = proc
      BY <3>1, <3>2, CrashFiles
    <3>4. lock' = lock
      BY <3>3 DEF Shape, TypeOK
    <3>5. \A p \in Ports : ServersOn(p)' \subseteq ServersOn(p)
      BY <3>3 DEF ServersOn
    <3> QED BY <3>1, <3>3, <3>4, <3>5, PointKept DEF Serial
  <2> QED BY <2>1, <2>2
<1> QED BY <1>2, <1>3, CrashWorld DEF Serial

\* One call at a time keeps Serial, whoever dies.
LEMMA TurnsSerial ==
    ASSUME Env \cap {"denied", "disk"} = {}
    PROVE  Shape /\ Turns /\ Serial /\ [SerialNext]_vars => Turns' /\ Serial'
<1> SUFFICES ASSUME Shape, Turns, Serial, SerialNext \/ UNCHANGED vars
             PROVE  Turns' /\ Serial'
    OBVIOUS
<1>1. ASSUME NEW w \in Workers, Step(w) \/ Call(w),
             \A v \in Workers \ {w} : pc[v] = "idle"
      PROVE  Turns' /\ Serial'
  <2>1. Serial'
    BY <1>1, StepSerial DEF Undisturbed
  <2>2. Turns'
    BY <1>1, StepAlone DEF Alone, Turns
  <2> QED BY <2>1, <2>2
<1>2. ASSUME NEW w \in Workers, Step(w) PROVE Turns' /\ Serial'
  <2>1. \A v \in Workers \ {w} : pc[v] = "idle"
    BY <1>2, StepNotIdle DEF Turns
  <2> QED BY <1>1, <1>2, <2>1
<1>3. CASE Environment \/ UNCHANGED vars
    BY <1>3, SerialEnvironment, EnvironmentQuiet DEF Turns
<1> QED BY <1>1, <1>2, <1>3, CrashSerial DEF SerialNext

\* The invariant of calls made one at a time, by launchers that may die.
LEMMA SerialSpecInvariant ==
    ASSUME Env \cap {"denied", "disk"} = {}
    PROVE  SerialSpec => [](Shape /\ Serial)
<1>1. Init => Turns
    BY DEF Init, Turns
<1>2. [SerialNext]_vars => [CrashNext]_vars
    BY DEF SerialNext, CrashNext, Next
<1>3. Shape /\ Turns /\ Serial /\ [SerialNext]_vars => Turns' /\ Serial'
    BY TurnsSerial
<1> QED BY <1>1, <1>2, <1>3, InitShape, InitSerial, CrashShapeNext, PTL DEF SerialSpec

\* Calls made one at a time, by launchers that may die at any step: each server
\* is claimed, being launched, or under the marker of the launch that died.
THEOREM SerialIsKept ==
    ASSUME Env \cap {"denied", "disk"} = {}
    PROVE  SerialSpec => []Serial
BY SerialSpecInvariant, PTL

\* So a server that was reported started keeps its claim as long as it lives;
THEOREM OrphansNeverReported ==
    ASSUME Env \cap {"denied", "disk"} = {}
    PROVE  SerialSpec => []OrphansWereNeverReported
<1>1. Serial => OrphansWereNeverReported
    BY DEF Serial, World, KeptAreClaimed, OrphansWereNeverReported
<1> QED BY <1>1, SerialSpecInvariant, PTL

\* and a success that is reported is claimed for the process of the verb.
THEOREM ReportedIsClaimed ==
    ASSUME Env \cap {"denied", "disk"} = {}
    PROVE  SerialSpec => []ReportsAreClaimed
<1>1. Serial => ReportsAreClaimed
    BY DEF Serial, Point, ReportAt, ReportsAreClaimed
<1> QED BY <1>1, SerialSpecInvariant, PTL

-----------------------------------------------------------------------------
(* What is running is in the config.                                        *)

\* Only delete_model takes a model out of the config.
LEMMA StoreEffect ==
    ASSUME NEW w \in Workers, Call(w) \/ Step(w), ~DeleteDrop(w)
    PROVE  store \subseteq store'
BY DEF Call, StartCall, StopCall, SwapCall, UpkeepCall, StartEnter,
   StopEnter, SwapEnter, SweepEnter, DeleteEnter, Add, CancelEnter, Step,
   LaunchStep, Spawn, SpawnFails, ClaimPort, ClaimLost, ClaimRaises,
   RaceCleanup, AwaitReady, AwaitFails, KillUnready, Unlock, Release,
   StartStep, StartClear, StartTake, StartRefused, StartPreflight,
   StartCancelled, StopStep, ClearAndReturn, Find, FindNothing, Terminate,
   TerminateMissed, TerminateDenied, Unclaim, SwapStep, SwapTake, SwapSame, SwapInProgress,
   SwapReclaim, SwapTakeRaises, SwapCancelled, UpkeepStep, ScanStale,
   ScanLive, ScanDone, CancelWrite, files

\* A step that spawns nothing leaves servers as they were, but for the one it
\* hands over.
LEMMA ServersEffect ==
    ASSUME Shape, NEW w \in Workers, Call(w) \/ Step(w), ~Spawn(w)
    PROVE  \A q \in Servers' :
              /\ q \in Servers
              /\ proc'[q].port = proc[q].port /\ proc'[q].model = proc[q].model
              /\ proc'[q].st = proc[q].st
              /\ \/ proc'[q].kept = proc[q].kept
                 \/ q = op[w].pid /\ AwaitReady(w)
<1>0. proc \in [Pids -> Process \cup {None}]
    BY DEF Shape, TypeOK
<1>1. proc' = proc \/ Kills(w) \/ Keeps(w)
    BY ProcessEffect
<1>2. \A q \in Servers' : /\ q \in Servers
              /\ proc'[q].port = proc[q].port /\ proc'[q].model = proc[q].model
              /\ proc'[q].st = proc[q].st
    BY <1>1, NoSpawnStep DEF NoSpawn, Servers
<1>3. CASE proc' = proc \/ Kills(w)
    BY <1>0, <1>2, <1>3 DEF Kills, Servers
<1>4. CASE Keeps(w) /\ ~AwaitReady(w)
  <2>1. proc' = proc \/ Kills(w)
    BY <1>4, LaunchingStep DEF Keeps, ClaimPort, ClaimLost, ClaimRaises, RaceCleanup,
       AwaitFails, KillUnready, KillOwn, Kills
  <2> QED BY <1>3, <2>1
<1>5. CASE Keeps(w) /\ AwaitReady(w)
    BY <1>0, <1>2, <1>5 DEF Keeps, Servers
<1> QED BY <1>1, <1>3, <1>4, <1>5

\* A verb goes on with the models it has looked up.
LEMMA ConfiguredMove ==
    ASSUME NEW w \in Workers, ConfiguredAt(w), store \subseteq store',
           pc'[w] \notin {"scan", "drop"}, op'[w].verb = op[w].verb,
           op'[w].model = op[w].model, op'[w].prev = op[w].prev,
           pc'[w] \in LaunchLabels \cup {"preflight"}
              => pc[w] \in LaunchLabels \cup {"preflight", "unclaim"},
           pc'[w] \in {"take", "find", "term", "unclaim"}
              => pc[w] \in {"take", "find", "term"},
           pc[w] = "unclaim" => op[w].verb # "start",
           pc[w] = "preflight" => op[w].verb = "start"
    PROVE  ConfiguredAt(w)'
<1>1. CASE op[w].verb = "start" /\ pc'[w] \in LaunchLabels \cup {"preflight"}
    BY <1>1 DEF ConfiguredAt
<1>2. CASE /\ op[w].verb = "swap"
           /\ pc'[w] \in LaunchLabels \cup {"take", "find", "term", "unclaim"}
  <2>1. pc[w] \in LaunchLabels \cup {"take", "find", "term", "unclaim"}
    BY <1>2 DEF LaunchLabels
  <2> QED BY <1>2, <2>1 DEF ConfiguredAt
<1> QED BY <1>1, <1>2 DEF ConfiguredAt

\* A verb that is over has nothing to look up.
LEMMA ReturnConfigured ==
    ASSUME Shape, NEW w \in Workers,
           Return(w) \/ pc'[w] \in {"idle", "write", "release", "clear", "same", "reclaim"}
    PROVE  ConfiguredAt(w)'
<1>1. pc'[w] \in {"idle", "write", "release", "clear", "same", "reclaim"}
    BY DEF Shape, TypeOK, Return, Goto
<1> QED BY <1>1 DEF ConfiguredAt, LaunchLabels

\* The launch, the stop and the swap of a verb are for these models.
LEMMA VerbConfigured ==
    ASSUME Shape, NEW w \in Workers, ConfiguredAt(w),
           LaunchStep(w) \/ StartStep(w) \/ StopStep(w) \/ SwapStep(w)
    PROVE  ConfiguredAt(w)'
<1>0. /\ op \in [Workers -> Frame] /\ pc \in [Workers -> Labels] /\ FrameOK(w)
    BY DEF Shape, TypeOK, FramesOK
<1>a. store \subseteq store'
    BY StoreEffect DEF Step, LaunchStep, StartStep, StopStep, SwapStep, DeleteDrop,
       Spawn, SpawnFails, ClaimPort, ClaimLost, ClaimRaises,
       RaceCleanup, AwaitReady, AwaitFails, KillUnready, Unlock, Release,
       StartClear, StartTake, StartRefused, StartPreflight,
       StartCancelled, ClearAndReturn, Find, FindNothing, Terminate,
       TerminateMissed, TerminateDenied, Unclaim, SwapTake, SwapSame, SwapInProgress,
       SwapReclaim, SwapTakeRaises, SwapCancelled
<1>b. ASSUME NEW out, Finish(w, out) PROVE ConfiguredAt(w)'
    BY <1>0, <1>b, ReturnConfigured DEF Finish, Goto
<1>c. ASSUME NEW label, Goto(w, label), op' = op,
             label \in LaunchLabels => pc[w] \in LaunchLabels \cup {"preflight"},
             label \in {"find", "term", "unclaim"} => pc[w] \in {"take", "find", "term"},
             label \notin {"preflight", "take", "scan", "drop"}
      PROVE  ConfiguredAt(w)'
  <2>1. pc'[w] = label
    BY <1>0, <1>c DEF Goto
  <2> QED BY <1>0, <1>a, <1>c, <2>1, ConfiguredMove DEF FrameOK, LaunchLabels
<1>d. ASSUME NEW out, AfterFailure(w, out), pc[w] \in LaunchLabels
      PROVE  ConfiguredAt(w)'
  <2>1. CASE ~WatchesCancel(w)
    BY <1>0, <1>d, <2>1, ReturnConfigured DEF AfterFailure, Goto
  <2>2. CASE WatchesCancel(w)
    <3>0. /\ pc'[w] = "launch"
          /\ op'[w] = [op[w] EXCEPT !.stage = "back", !.out = out, !.pid = None]
      BY <1>0, <1>d, <2>2 DEF AfterFailure, Goto
    <3>1. /\ op'[w].verb = op[w].verb
          /\ op'[w].model = op[w].model /\ op'[w].prev = op[w].prev
      BY <1>0, <3>0 DEF Frame
    <3>2. /\ pc[w] \notin {"unclaim", "preflight"}
          /\ pc'[w] \notin {"scan", "drop", "take", "find", "term", "unclaim"}
      BY <1>d, <3>0 DEF LaunchLabels
    <3> QED BY <1>a, <1>d, <3>0, <3>1, <3>2, ConfiguredMove
  <2> QED BY <2>1, <2>2
<1>1. CASE LaunchStep(w)
  <2>1. CASE Spawn(w) \/ KillUnready(w)
    <3>1. /\ op'[w].verb = op[w].verb /\ op'[w].model = op[w].model
          /\ op'[w].prev = op[w].prev /\ pc'[w] \in {"claim", "unlock"}
          /\ pc[w] \in {"launch", "kill"}
      BY <1>0, <2>1 DEF Spawn, KillUnready, Goto, Frame
    <3> QED BY <1>a, <3>1, ConfiguredMove DEF LaunchLabels
  <2>2. CASE ClaimPort(w) \/ ClaimLost(w) \/ AwaitFails(w)
    BY <1>c, <2>2 DEF ClaimPort, ClaimLost, AwaitFails, LaunchLabels
  <2>3. CASE SpawnFails(w) \/ RaceCleanup(w) \/ Unlock(w)
    BY <1>d, <2>3 DEF SpawnFails, RaceCleanup, Unlock, LaunchLabels
  <2>4. CASE ClaimRaises(w) \/ AwaitReady(w) \/ Release(w)
    BY <1>b, <2>4, ReturnConfigured DEF ClaimRaises, AwaitReady, Release
  <2> QED BY <1>1, <2>1, <2>2, <2>3, <2>4 DEF LaunchStep
<1>2. CASE StartStep(w)
  <2>1. CASE StartClear(w)
    BY <1>0, <2>1 DEF StartClear, Goto, ConfiguredAt, LaunchLabels
  <2>2. CASE StartTake(w)
    BY <1>0, <2>2 DEF StartTake, Goto, ConfiguredAt, LaunchLabels
  <2>3. CASE StartRefused(w) \/ StartPreflight(w) \/ StartCancelled(w)
    BY <1>b, <1>c, <2>3, ReturnConfigured
       DEF StartRefused, StartPreflight, StartCancelled, LaunchLabels
  <2> QED BY <1>2, <2>1, <2>2, <2>3 DEF StartStep
<1>3. CASE StopStep(w)
  <2>1. CASE ClearAndReturn(w) \/ FindNothing(w) \/ TerminateMissed(w) \/ TerminateDenied(w)
    BY <1>b, <2>1, ReturnConfigured
       DEF ClearAndReturn, FindNothing, TerminateMissed, TerminateDenied, StopFailed
  <2>2. CASE Find(w)
    <3>1. /\ op'[w].verb = op[w].verb /\ op'[w].model = op[w].model
          /\ op'[w].prev = op[w].prev /\ pc'[w] = "term" /\ pc[w] = "find"
      BY <1>0, <2>2 DEF Find, Goto, Frame
    <3> QED BY <1>a, <3>1, ConfiguredMove DEF LaunchLabels
  <2>3. CASE Terminate(w)
    BY <1>c, <2>3 DEF Terminate, LaunchLabels
  <2>4. CASE Unclaim(w) /\ ~Return(w)
    <3>1. /\ op'[w].verb = op[w].verb /\ op'[w].model = op[w].model
          /\ op'[w].prev = op[w].prev /\ pc'[w] = "launch" /\ pc[w] = "unclaim"
      BY <1>0, <2>4 DEF Unclaim, Goto, Frame
    <3> QED BY <1>0, <1>a, <3>1, ConfiguredMove DEF LaunchLabels, FrameOK
  <2> QED BY <1>3, <2>1, <2>2, <2>3, <2>4, ReturnConfigured DEF StopStep
<1>4. CASE SwapStep(w)
  <2>1. CASE SwapCancelled(w)
    <3>1. /\ op'[w].verb = op[w].verb /\ op'[w].model = op[w].model
          /\ op'[w].prev = op[w].prev /\ pc'[w] = "launch" /\ pc[w] = "launch"
      BY <1>0, <2>1 DEF SwapCancelled, Frame
    <3> QED BY <1>a, <3>1, ConfiguredMove DEF LaunchLabels
  <2>2. CASE SwapInProgress(w) /\ ~Return(w)
    BY <1>0, <2>2, ReturnConfigured DEF SwapInProgress, Goto
  <2>3. CASE SwapTake(w)
    BY <1>c, <2>3 DEF SwapTake, LaunchLabels
  <2> QED BY <1>4, <1>b, <2>1, <2>2, <2>3, ReturnConfigured
          DEF SwapStep, SwapSame, SwapReclaim, SwapTakeRaises
<1> QED BY <1>1, <1>2, <1>3, <1>4

\* delete_model drops a model once no port is left that might run it.
LEMMA UpkeepConfigured ==
    ASSUME Shape, Serial, NEW w \in Workers, ConfiguredAt(w), UpkeepStep(w),
           Undisturbed(w)
    PROVE  ConfiguredAt(w)'
<1>0. /\ op \in [Workers -> Frame] /\ pc \in [Workers -> Labels]
      /\ snap \in [Workers -> [Ports -> Claim \cup {None}]]
      /\ lock \in [Ports -> Claim \cup {None, Torn}]
      /\ World /\ Point(w) /\ ProcessesOK
    BY DEF Shape, TypeOK, Serial
<1>1. ASSUME NEW p \in Ports, ScanStale(w, p) PROVE ConfiguredAt(w)'
  <2>1. /\ pc[w] = "scan" /\ snap[w][p] # None /\ ~PidAlive(snap[w][p].pid)
        /\ snap' = [snap EXCEPT ![w][p] = None]
        /\ UNCHANGED <<proc, pc, op, store>>
    BY <1>1 DEF ScanStale
  <2>2. lock[p] = snap[w][p] /\ ReadLock(p) # None
    BY <1>0, <2>1, FilesAssumption DEF Point, ListingAt, ReadLock
  <2>3. Covered(p)
    BY <1>0, <2>1, <2>2, ClaimCovers
  <2>4. ServersOn(p) = {}
    BY <2>1, <2>2, <2>3, DeadClaimEmpty
  <2>5. \A q \in Servers : proc[q].port \in Ports /\ proc[q].port # p
    BY <1>0, <2>4 DEF ProcessesOK, ProcessOK, Servers, ServersOn
  <2>6. \A r \in Ports \ {p} : snap'[w][r] = snap[w][r]
    BY <1>0, <2>1
  <2> QED BY <1>0, <2>1, <2>5, <2>6 DEF ConfiguredAt, LaunchLabels, Servers
<1>2. ASSUME NEW p \in Ports, ScanLive(w, p) PROVE ConfiguredAt(w)'
  <2>1. CASE Return(w)
    BY <2>1, ReturnConfigured
  <2>2. CASE pc[w] = "scan" /\ op[w].verb = "sweep" /\ UNCHANGED <<pc, op>>
    BY <1>0, <2>2 DEF ConfiguredAt, LaunchLabels
  <2> QED BY <1>2, <2>1, <2>2 DEF ScanLive
<1>3. CASE ScanDone(w)
  <2>1. CASE Return(w)
    BY <2>1, ReturnConfigured
  <2>2. CASE /\ pc[w] = "scan" /\ op[w].verb # "sweep" /\ snap[w] = NoSnap
             /\ Goto(w, "drop") /\ op' = op
    <3>1. op[w].verb = "delete" /\ pc'[w] = "drop" /\ proc' = proc
      BY <1>0, <1>3, <2>2 DEF ConfiguredAt, Goto, ScanDone
    <3>2. \A q \in Servers : proc[q].port \in Ports
      BY <1>0 DEF ProcessesOK, ProcessOK, Servers
    <3>3. \A p \in Ports : snap[w][p] = None
      BY <2>2 DEF NoSnap
    <3>4. \A q \in Servers : proc[q].model # op[w].model
      BY <2>2, <3>1, <3>2, <3>3 DEF ConfiguredAt
    <3> QED BY <2>2, <3>1, <3>4 DEF ConfiguredAt, LaunchLabels, Servers
  <2> QED BY <1>3, <2>1, <2>2 DEF ScanDone
<1>4. CASE DeleteDrop(w) \/ CancelWrite(w)
    BY <1>4, ReturnConfigured DEF DeleteDrop, CancelWrite
<1> QED BY <1>1, <1>2, <1>3, <1>4 DEF UpkeepStep

\* A call looks its models up, and delete_model lists who runs the model.
LEMMA CallConfigured ==
    ASSUME Shape, Serial, ClaimMatchesProcess, up = Launchers, NEW w \in Workers,
           Call(w), Undisturbed(w)
    PROVE  ConfiguredAt(w)'
<1>0. /\ op \in [Workers -> Frame] /\ pc \in [Workers -> Labels]
      /\ snap \in [Workers -> [Ports -> Claim \cup {None}]]
      /\ World /\ ProcessesOK
    BY DEF Shape, TypeOK, Serial
<1>1. ASSUME NEW label \in {"take", "clear", "same", "find", "write"},
             NEW verb \in {"start", "stop", "swap", "cancel"},
             NEW p, NEW m, Enter(w, label, verb, p, m),
             verb = "swap" => label \in {"clear", "same"}
      PROVE  ConfiguredAt(w)'
  <2> DEFINE f == [NoFrame EXCEPT !.verb = verb, !.port = p, !.model = m]
  <2>1. pc'[w] = label /\ op'[w] = f
    BY <1>0, <1>1 DEF Enter, Goto
  <2>2. f.verb = verb
    BY DEF NoFrame
  <2> HIDE DEF f
  <2> QED BY <1>1, <2>1, <2>2 DEF ConfiguredAt, LaunchLabels
<1>2. ASSUME NEW p \in Ports, NEW m \in Models, StartEnter(w, p, m)
      PROVE  ConfiguredAt(w)'
    BY <1>1, <1>2 DEF StartEnter
<1>3. ASSUME NEW p \in Ports, StopEnter(w, p) \/ CancelEnter(w, p)
      PROVE  ConfiguredAt(w)'
    BY <1>1, <1>3 DEF StopEnter, CancelEnter
<1>4. ASSUME NEW p \in Ports, NEW m \in Models, SwapEnter(w, p, m)
      PROVE  ConfiguredAt(w)'
  <2>1. CASE /\ {m, lock[p].model} \subseteq store
             /\ pc' = [pc EXCEPT ![w] = "take"]
             /\ op' = [op EXCEPT ![w] =
                        [NoFrame EXCEPT !.verb = "swap", !.port = p,
                                        !.model = m, !.prev = lock[p].model]]
    <3>1. /\ op'[w].verb = "swap" /\ op'[w].model = m
          /\ op'[w].prev = lock[p].model /\ pc'[w] = "take" /\ store' = store
      BY <1>0, <1>4, <2>1 DEF NoFrame, SwapEnter, files
    <3> QED BY <2>1, <3>1 DEF ConfiguredAt, LaunchLabels
  <2> QED BY <1>1, <1>4, <2>1 DEF SwapEnter, Goto
<1>5. CASE SweepEnter(w)
  <2>1. pc'[w] = "scan" /\ op'[w].verb = "sweep"
    BY <1>0, <1>5 DEF SweepEnter, Enter, Goto, NoFrame
  <2> QED BY <2>1 DEF ConfiguredAt, LaunchLabels
<1>6. ASSUME NEW m \in Models, DeleteEnter(w, m) PROVE ConfiguredAt(w)'
  <2>1. /\ pc'[w] = "scan" /\ op'[w].verb = "delete" /\ op'[w].model = m
        /\ pc[w] = "idle" /\ proc' = proc
    BY <1>0, <1>6 DEF DeleteEnter, Enter, Goto, NoFrame, Idle
  <2>2. \A p \in Ports : snap'[w][p] =
            IF ReadLock(p) # None /\ lock[p].model = m THEN lock[p] ELSE None
    BY <1>0, <1>6 DEF DeleteEnter
  <2>3. ASSUME NEW q \in Servers, proc[q].model = m
        PROVE  snap'[w][proc[q].port] # None
    <3>1. proc[q].port \in Ports /\ q \in ServersOn(proc[q].port)
      BY <1>0 DEF ProcessesOK, ProcessOK, Servers, ServersOn
    <3>2. ~Unclaimed(proc[q].port) /\ ~Stuck(proc[q].port)
      BY <2>1 DEF Unclaimed, Undisturbed, Stuck
    <3>3. ClaimOf(proc[q].port, q)
      BY <1>0, <3>1, <3>2 DEF World, AllAccounted, Covered
    <3>4. lock[proc[q].port].model = m
      BY <2>3, <3>1, <3>3 DEF ClaimMatchesProcess
    <3> QED BY <2>2, <3>1, <3>3, <3>4 DEF ClaimOf, ReadLock
  <2> QED BY <2>1, <2>3 DEF ConfiguredAt, LaunchLabels, Servers
<1>7. ASSUME NEW m \in Models, Add(w, m) PROVE ConfiguredAt(w)'
    BY <1>7, ReturnConfigured DEF Add, Idle, local
<1> QED BY <1>2, <1>3, <1>4, <1>5, <1>6, <1>7
        DEF Call, StartCall, StopCall, SwapCall, UpkeepCall

\* What is handed over, and what stays, is in the config.
LEMMA RunningStep ==
    ASSUME Shape, Serial, ClaimMatchesProcess, Configured, NEW w \in Workers,
           Call(w) \/ Step(w), Undisturbed(w)
    PROVE  RunningIsConfigured'
<1>0. /\ op \in [Workers -> Frame] /\ proc \in [Pids -> Process \cup {None}]
      /\ Point(w) /\ FrameOK(w) /\ ConfiguredAt(w)
    BY DEF Shape, TypeOK, Serial, FramesOK, Configured
<1>1. CASE DeleteDrop(w)
    BY <1>0, <1>1
       DEF DeleteDrop, Configured, ConfiguredAt, RunningIsConfigured, Servers
<1>2. CASE Spawn(w)
    BY <1>0, <1>2 DEF Spawn, files, Fresh, Configured, RunningIsConfigured, Servers
<1>3. CASE ~DeleteDrop(w) /\ ~Spawn(w)
  <2> SUFFICES ASSUME NEW q \in Servers', proc'[q].kept
               PROVE  proc'[q].model \in store'
      BY DEF RunningIsConfigured
  <2>1. /\ q \in Servers /\ proc'[q].model = proc[q].model
        /\ store \subseteq store'
        /\ \/ proc'[q].kept = proc[q].kept
           \/ q = op[w].pid /\ AwaitReady(w)
    BY <1>3, ServersEffect, StoreEffect
  <2>2. CASE q = op[w].pid /\ AwaitReady(w)
    <3>1. /\ pc[w] = "await" /\ op[w].port \in Ports
          /\ op[w].verb \in {"start", "swap"} /\ Target(w) \in Models
      BY <1>0, <2>2 DEF AwaitReady, FrameOK, LaunchLabels, Target, Frame
    <3>2. lock[op[w].port] = [pid |-> q, model |-> Target(w)]
      BY <1>0, <2>2, <3>1 DEF Point, PortAt
    <3>3. lock[op[w].port] \in Claim
      BY <2>1, <3>1, <3>2 DEF Claim, Servers
    <3>4. ClaimOf(op[w].port, q)
      BY <3>2, <3>3, FilesAssumption DEF ClaimOf, ReadLock
    <3>5. proc[q].model = Target(w)
      BY <2>1, <3>1, <3>2, <3>4 DEF ClaimMatchesProcess
    <3>6. Target(w) \in store
      BY <1>0, <3>1 DEF ConfiguredAt, LaunchLabels, Target, FrameOK, Frame
    <3> QED BY <2>1, <3>5, <3>6
  <2> QED BY <2>1, <2>2 DEF Configured, RunningIsConfigured
<1> QED BY <1>1, <1>2, <1>3

\* One operator keeps what runs in the config.
LEMMA OperatorConfigured ==
    ASSUME NEW o \in Workers, OneOperator(o)
    PROVE  Shape /\ MarkersHeld /\ ClaimMatchesProcess /\ Undisturbed(o) /\ Serial
           /\ Configured /\ [Next]_vars => Configured'
<1> SUFFICES ASSUME Shape, MarkersHeld, ClaimMatchesProcess, Undisturbed(o), Serial,
                    Configured, Next \/ UNCHANGED vars
             PROVE  Configured'
    OBVIOUS
<1>0. up = Launchers /\ \A v \in Workers : ConfiguredAt(v)
    BY DEF MarkersHeld, Configured
<1>1. \A v \in Workers \ {o} : ConfiguredAt(v)'
  <2>1. \A v \in Workers \ {o} : pc'[v] \in {"idle", "write"}
    BY OperatorNext DEF Undisturbed
  <2> QED BY <2>1, ReturnConfigured
<1>2. CASE Call(o) \/ Step(o)
  <2>1. ConfiguredAt(o)'
    BY <1>0, <1>2, VerbConfigured, UpkeepConfigured, CallConfigured DEF Step
  <2>2. RunningIsConfigured'
    BY <1>2, RunningStep
  <2> QED BY <1>1, <2>1, <2>2 DEF Configured
<1>3. ASSUME NEW v \in Workers \ {o},
             CancelWrite(v) \/ \E p \in Ports : CancelEnter(v, p)
      PROVE  Configured'
  <2>1. UNCHANGED <<proc, store, snap>>
    BY <1>3 DEF CancelWrite, CancelEnter, files
  <2>2. pc'[o] = pc[o] /\ op'[o] = op[o]
    BY <1>3, StepAlone DEF Alone, Call, UpkeepCall, Step, UpkeepStep
  <2>3. ConfiguredAt(o)'
    BY <1>0, <2>1, <2>2 DEF ConfiguredAt, Servers
  <2> QED BY <1>1, <2>1, <2>3 DEF Configured, RunningIsConfigured, Servers
<1>4. CASE Environment \/ UNCHANGED vars
  <2>1. UNCHANGED <<store, pc, op, snap>>
    BY <1>4, EnvironmentQuiet
  <2>2. \A q \in Servers' : /\ q \in Servers /\ proc'[q].port = proc[q].port
                            /\ proc'[q].model = proc[q].model
                            /\ proc'[q].kept = proc[q].kept
    BY <1>4, EnvironmentServers
  <2>3. ConfiguredAt(o)'
    BY <1>0, <2>1, <2>2 DEF ConfiguredAt
  <2> QED BY <1>1, <2>1, <2>2, <2>3 DEF Configured, RunningIsConfigured
<1> QED BY <1>2, <1>3, <1>4, OperatorNext

\* Nothing runs at first.
LEMMA InitConfigured == Init => Configured
BY DEF Init, Configured, ConfiguredAt, RunningIsConfigured, Servers, LaunchLabels

\* With one operator a server that was reported started stays in the config
\* while it lives: delete_model finds every server of the model.
THEOREM OneOperatorRunsConfigured ==
    ASSUME NEW o \in Workers, OneOperator(o), Env \cap {"denied", "disk"} = {}
    PROVE  Spec => []RunningIsConfigured
<1>1. Init => Shape /\ MarkersHeld /\ MarkerMutex /\ ClaimMatchesProcess
              /\ Undisturbed(o) /\ Serial /\ Configured
    BY InitShape, InitUndisturbed, InitSerial, InitConfigured
       DEF Init, MarkersHeld, MarkerMutex, InFlight, ClaimMatchesProcess, Servers
<1>2. Shape /\ Undisturbed(o) /\ Serial /\ [Next]_vars
      => Undisturbed(o)' /\ Serial'
    BY OperatorSerial
<1>3. Shape /\ MarkersHeld /\ ClaimMatchesProcess /\ Undisturbed(o) /\ Serial
      /\ Configured /\ [Next]_vars => Configured'
    BY OperatorConfigured
<1>4. Configured => RunningIsConfigured
    BY DEF Configured
<1> QED BY <1>1, <1>2, <1>3, <1>4, ShapeNext, MutexNext, ClaimsNext, PTL DEF Spec

-----------------------------------------------------------------------------
(* No server exits by itself: what is reported is true.                     *)

\* Nothing but a server of its own port can make a server exit.
LEMMA NobodyExits ==
    ASSUME Shape, Serial, "exit" \notin Env, NEW q \in Pids, Exit(q)
    PROVE  FALSE
<1>1. proc[q] # None /\ proc[q].st = "loading" /\ Listening(proc[q].port)
    BY DEF Exit
<1>2. PICK r \in ServersOn(proc[q].port) : proc[r].st \in {"bound", "serving"}
    BY <1>1 DEF Listening
<1>3. q \in ServersOn(proc[q].port) /\ proc[q].port \in Ports
    BY <1>1 DEF ServersOn, Shape, ProcessesOK, ProcessOK
<1>4. r = q
    BY <1>2, <1>3 DEF Serial, World, OneEach
<1> QED BY <1>1, <1>2, <1>4

\* The processes are the same, but for how far they have come.
SameProcesses ==
    \A q \in Pids :
        /\ proc'[q] = None <=> proc[q] = None
        /\ proc[q] # None => /\ proc'[q].port = proc[q].port
                             /\ proc'[q].model = proc[q].model
                             /\ proc'[q].kept = proc[q].kept
                             /\ proc'[q].st = "alien" <=> proc[q].st = "alien"

\* Where servers do not exit, the environment takes none away.
LEMMA EnvironmentAlive ==
    ASSUME Shape, Serial, Env \cap {"exit", "reuse"} = {},
           Environment \/ UNCHANGED vars
    PROVE  SameProcesses
<1>0. proc \in [Pids -> Process \cup {None}]
    BY DEF Shape, TypeOK
<1>1. CASE UNCHANGED vars
    BY <1>1 DEF vars, SameProcesses
<1>2. ASSUME NEW q \in Pids, Bind(q) \/ Serve(q) PROVE SameProcesses
  <2>1. PICK st \in {"bound", "serving"} : proc' = [proc EXCEPT ![q].st = st]
    BY <1>2 DEF Bind, Serve
  <2>2. proc[q] \in Process /\ proc[q].st # "alien"
    BY <1>0, <1>2 DEF Bind, Serve
  <2> DEFINE s == [proc[q] EXCEPT !.st = st]
  <2>3. /\ s \in Process /\ s.port = proc[q].port /\ s.model = proc[q].model
        /\ s.kept = proc[q].kept /\ s.st # "alien"
    BY <2>1, <2>2 DEF Process
  <2>4. s # None /\ proc[q] # None
    BY <2>2, <2>3, FilesAssumption
  <2>5. proc' = [proc EXCEPT ![q] = s]
    BY <2>1
  <2> HIDE DEF s
  <2> QED BY <1>0, <2>2, <2>3, <2>4, <2>5 DEF SameProcesses
<1>3. \A q \in Pids : ~Exit(q) /\ ~Reuse(q)
    BY NobodyExits DEF Reuse
<1> QED BY <1>1, <1>2, <1>3 DEF Environment

\* A claim of a live server stays one.
LEMMA ClaimedAliveKept ==
    ASSUME Shape, NEW p \in Ports, UNCHANGED lock, ClaimedAlive(p),
           \A q \in Pids : PidAlive(q) => PidAlive(q)'
    PROVE  ClaimedAlive(p)'
<1>1. lock[p] \in Claim
    BY DEF Shape, TypeOK, ClaimedAlive, ReadLock
<1>2. lock[p].pid \in Pids
    BY <1>1 DEF Claim
<1> QED BY <1>2 DEF ClaimedAlive, ReadLock, PidAlive

\* What another worker has settled stays while no process ends.
LEMMA SettledKept ==
    ASSUME Shape, NEW v \in Workers, SettledAt(v), UNCHANGED lock,
           pc'[v] = pc[v], op'[v] = op[v],
           \A q \in Pids : PidAlive(q) => PidAlive(q)'
    PROVE  SettledAt(v)'
<1>1. pc[v] \in {"take", "find", "term", "same", "release"} => op[v].port \in Ports
    BY DEF Shape, FramesOK, FrameOK
<1>2. pc[v] = "term" => op[v].pid \in Pids
    BY DEF Shape, FramesOK, FrameOK
<1>3. /\ op[v].port \in Ports /\ ClaimedAlive(op[v].port) => ClaimedAlive(op[v].port)'
      /\ pc[v] = "term" /\ PidAlive(op[v].pid) => PidAlive(op[v].pid)'
    BY <1>2, ClaimedAliveKept DEF PidAlive
<1> QED BY <1>1, <1>3 DEF SettledAt

\* Most of a verb relies on no live server.
LEMMA NothingToSettle ==
    ASSUME NEW v \in Workers,
           pc'[v] \notin {"take", "find", "term", "same", "release"}
           \/ (pc'[v] \in {"take", "find"} /\ op'[v].verb # "swap")
    PROVE  SettledAt(v)'
BY DEF SettledAt

\* A worker that returns has nothing left to settle.
LEMMA ReturnSettled ==
    ASSUME Shape, NEW w \in Workers, Return(w)
    PROVE  SettledAt(w)'
<1>1. pc'[w] = "idle"
    BY DEF Shape, TypeOK, Return, Goto
<1> QED BY <1>1, NothingToSettle

\* A verb that has stopped, or never found, a server promises none.
LEMMA FinishSettled ==
    ASSUME Shape, NEW w \in Workers, NEW out \in Outcomes, Finish(w, out),
           out \notin {"rejected_stop_failed", "already_running", "started",
                       "swapped", "rolled_back"},
           out = "cancelled" => op[w].verb # "swap"
    PROVE  SettledAt(w)'
<1>1. pc'[w] = "release" /\ op'[w].out = out /\ op'[w].verb = op[w].verb
    BY DEF Shape, TypeOK, Finish, Goto, Frame
<1> QED BY <1>1 DEF SettledAt

\* Neither has one whose launch has failed.
LEMMA FailureSettled ==
    ASSUME Shape, NEW w \in Workers, NEW c \in BOOLEAN, NEW out,
           out = FailureOutcome(w, c), op[w].verb \in {"start", "swap"},
           AfterFailure(w, out)
    PROVE  SettledAt(w)'
<1>0. op \in [Workers -> Frame] /\ pc \in [Workers -> Labels]
    BY DEF Shape, TypeOK
<1>1. CASE WatchesCancel(w)
  <2>1. pc'[w] = "launch"
    BY <1>0, <1>1 DEF AfterFailure, Goto
  <2> QED BY <2>1, NothingToSettle
<1>2. CASE ~WatchesCancel(w)
  <2>1. /\ pc'[w] = "release"
        /\ op'[w] = [op[w] EXCEPT !.out = out, !.pid = None]
    BY <1>0, <1>2 DEF AfterFailure, Goto
  <2>2. op'[w].out = out /\ op[w].stage \in {"new", "back"}
    BY <1>0, <2>1 DEF Frame
  <2>3. out \in {"error", "failed"}
    BY <1>2, <2>2 DEF WatchesCancel, FailureOutcome
  <2> QED BY <2>1, <2>2, <2>3 DEF SettledAt
<1> QED BY <1>1, <1>2

\* The process a claim names, if it lives, is on the claim's port.
LEMMA ClaimedIsThere ==
    ASSUME Shape, ClaimMatchesProcess, NoStrangers, NEW p \in Ports, ClaimedAlive(p)
    PROVE  lock[p].pid \in ServersOn(p) /\ lock[p].pid \in Servers
           /\ ClaimOf(p, lock[p].pid) /\ proc[lock[p].pid].model = lock[p].model
<1>1. lock[p] \in Claim
    BY DEF Shape, TypeOK, ClaimedAlive, ReadLock
<1>2. lock[p].pid \in Pids
    BY <1>1 DEF Claim
<1>3. lock[p].pid \in Servers /\ ClaimOf(p, lock[p].pid)
    BY <1>2 DEF ClaimedAlive, PidAlive, NoStrangers, Servers, ClaimOf
<1> QED BY <1>2, <1>3 DEF ClaimMatchesProcess, ServersOn, Servers

\* The server a swap or a stop has looked up is there when it looks again.
LEMMA VerbSettled ==
    ASSUME Shape, Serial, ClaimMatchesProcess, NoStrangers, NEW w \in Workers,
           SettledAt(w), Step(w), ~CancelWrite(w), Env \cap {"denied", "disk"} = {}
    PROVE  SettledAt(w)'
<1>0. /\ op \in [Workers -> Frame] /\ pc \in [Workers -> Labels] /\ FrameOK(w)
      /\ lock \in [Ports -> Claim \cup {None, Torn}] /\ Point(w)
    BY DEF Shape, TypeOK, FramesOK, Serial
<1>a. ASSUME NEW label, Goto(w, label),
             label \notin {"take", "find", "term", "same", "release"}
      PROVE  SettledAt(w)'
  <2>1. pc'[w] = label
    BY <1>0, <1>a DEF Goto
  <2> QED BY <1>a, <2>1, NothingToSettle
<1>1. CASE LaunchStep(w)
  <2>1. CASE Spawn(w) \/ ClaimPort(w) \/ ClaimLost(w) \/ AwaitFails(w) \/ KillUnready(w)
    BY <1>a, <2>1 DEF Spawn, ClaimPort, ClaimLost, AwaitFails, KillUnready
  <2>2. CASE SpawnFails(w) \/ RaceCleanup(w)
    BY <1>0, <2>2, FailureSettled DEF SpawnFails, RaceCleanup, FrameOK, LaunchLabels
  <2>3. CASE Unlock(w)
    <3>1. PICK c \in BOOLEAN : op[w].out = FailureOutcome(w, c)
      BY <1>0, <2>3 DEF Unlock, Point, ReportAt
    <3> QED BY <1>0, <2>3, <3>1, FailureSettled DEF Unlock, FrameOK, LaunchLabels
  <2>4. CASE AwaitReady(w)
    <3> DEFINE out == CASE op[w].verb = "start" -> "started"
                        [] WatchesCancel(w)     -> "swapped"
                        [] OTHER                -> op[w].out
    <3>1. /\ pc[w] = "await" /\ pc'[w] = "release" /\ Keeps(w) /\ lock' = lock
          /\ op' = [op EXCEPT ![w].out = out]
      BY <1>0, <2>4 DEF AwaitReady, Finish, Goto, files, Keeps, PidAlive, FrameOK
    <3>2. op'[w].out = out /\ op'[w].port = op[w].port
      BY <1>0, <3>1 DEF Frame
    <3>3. out \in {"started", "swapped", "cancelled", "rolled_back"}
      <4>1. op[w].verb \in {"start", "swap"} /\ op[w].stage \in {"new", "back"}
        BY <1>0, <3>1 DEF FrameOK, LaunchLabels, Frame
      <4>2. op[w].stage = "back" => op[w].out \in {"cancelled", "rolled_back"}
        BY <1>0, <3>1 DEF Point, ReportAt
      <4> QED BY <4>1, <4>2 DEF WatchesCancel
    <3>4. ClaimedAlive(op[w].port)'
      <4>1. /\ op[w].port \in Ports /\ op[w].pid \in Pids
            /\ lock[op[w].port] = [pid |-> op[w].pid, model |-> Target(w)]
            /\ Target(w) \in Models
        BY <1>0, <3>1 DEF FrameOK, Point, PortAt, Target, LaunchLabels, Frame
      <4>2. lock[op[w].port] \in Claim
        BY <4>1 DEF Claim
      <4>3. proc'[op[w].pid] # None
        BY <3>1, <4>1, KeepsProcesses DEF Keeps
      <4> QED BY <3>1, <3>2, <4>1, <4>2, <4>3, FilesAssumption
              DEF ClaimedAlive, ReadLock, PidAlive
    <3> HIDE DEF out
    <3> QED BY <3>1, <3>2, <3>3, <3>4 DEF SettledAt
  <2> QED BY <1>1, <2>1, <2>2, <2>3, <2>4, ReturnSettled
          DEF LaunchStep, ClaimRaises, Release
<1>2. CASE StartStep(w)
  <2>1. CASE StartClear(w)
    BY <1>0, <2>1, NothingToSettle DEF StartClear, Goto
  <2>2. CASE StartTake(w) \/ StartRefused(w)
    BY <1>a, <2>2, ReturnSettled DEF StartTake, StartRefused
  <2>3. CASE StartPreflight(w) \/ StartCancelled(w)
    <3>1. op[w].verb = "start"
      BY <1>0, <2>3 DEF StartPreflight, StartCancelled, FrameOK
    <3> QED BY <1>a, <2>3, <3>1, FinishSettled
            DEF StartPreflight, StartCancelled, Outcomes
  <2> QED BY <1>2, <2>1, <2>2, <2>3 DEF StartStep
<1>3. CASE StopStep(w)
  <2>1. CASE ClearAndReturn(w)
    BY <2>1, ReturnSettled DEF ClearAndReturn
  <2>2. CASE Find(w)
    <3>1. PICK q \in ServersOn(op[w].port) : op' = [op EXCEPT ![w].pid = q]
      BY <2>2 DEF Find
    <3>2. pc'[w] = "term" /\ op'[w].pid = q /\ proc'[q] # None
      BY <1>0, <2>2, <3>1 DEF Find, Goto, Frame, ServersOn
    <3> QED BY <3>2 DEF SettledAt, PidAlive
  <2>3. CASE FindNothing(w)
    <3>1. CASE op[w].verb = "swap"
      <4>1. /\ pc'[w] = "release" /\ UNCHANGED <<lock, proc>>
            /\ op'[w].out = "rejected_stop_failed" /\ op'[w].port = op[w].port
            /\ op'[w].verb = "swap" /\ op'[w].prev = op[w].prev
        BY <1>0, <2>3, <3>1 DEF FindNothing, StopFailed, Finish, Goto, Frame, files
      <4>2. ClaimedAlive(op[w].port) /\ lock[op[w].port].model = op[w].prev
        BY <2>3, <3>1 DEF FindNothing, SettledAt
      <4> QED BY <4>1, <4>2 DEF SettledAt, ClaimedAlive, ReadLock, PidAlive
    <3> QED BY <1>0, <2>3, <3>1, ReturnSettled DEF FindNothing, StopFailed, FrameOK
  <2>4. CASE Terminate(w)
    BY <1>a, <2>4 DEF Terminate
  <2>5. ~TerminateMissed(w) /\ ~TerminateDenied(w)
    BY DEF TerminateMissed, TerminateDenied, SettledAt
  <2>6. CASE Unclaim(w)
    BY <1>a, <2>6, ReturnSettled DEF Unclaim
  <2> QED BY <1>3, <2>1, <2>2, <2>3, <2>4, <2>5, <2>6 DEF StopStep
<1>4. CASE SwapStep(w)
  <2>1. CASE SwapTake(w)
    <3>1. /\ pc[w] = "take" /\ op[w].verb = "swap" /\ pc'[w] = "find"
          /\ UNCHANGED <<lock, proc, op>>
      BY <1>0, <2>1 DEF SwapTake, Goto
    <3> QED BY <3>1 DEF SettledAt, ClaimedAlive, ReadLock, PidAlive
  <2>2. CASE SwapSame(w)
    <3>1. /\ pc[w] = "same" /\ pc'[w] = "release" /\ UNCHANGED <<lock, proc>>
          /\ op'[w].out = "already_running" /\ op'[w].port = op[w].port
          /\ op'[w].model = op[w].model
      BY <1>0, <2>2 DEF SwapSame, Finish, Goto, Frame
    <3> QED BY <3>1 DEF SettledAt, ClaimedAlive, ReadLock, PidAlive
  <2>3. CASE SwapCancelled(w)
    <3>1. pc'[w] = "launch"
      BY <2>3 DEF SwapCancelled
    <3> QED BY <3>1, NothingToSettle
  <2>4. CASE SwapInProgress(w)
    BY <1>a, <2>4, ReturnSettled DEF SwapInProgress
  <2> QED BY <1>4, <2>1, <2>2, <2>3, <2>4, ReturnSettled
          DEF SwapStep, SwapReclaim, SwapTakeRaises
<1>5. CASE UpkeepStep(w)
  <2>1. ASSUME NEW p \in Ports, ScanStale(w, p) \/ ScanLive(w, p)
        PROVE  SettledAt(w)'
    <3>1. CASE Return(w)
      BY <3>1, ReturnSettled
    <3>2. CASE pc'[w] = "scan"
      BY <3>2, NothingToSettle
    <3> QED BY <2>1, <3>1, <3>2 DEF ScanStale, ScanLive
  <2> QED BY <1>5, <1>a, <2>1, ReturnSettled
          DEF UpkeepStep, ScanDone, DeleteDrop
<1> QED BY <1>1, <1>2, <1>3, <1>4, <1>5 DEF Step

\* A call looks up a live server, or none.
LEMMA CallSettled ==
    ASSUME Shape, NEW w \in Workers, Call(w)
    PROVE  SettledAt(w)'
<1>0. op \in [Workers -> Frame] /\ pc \in [Workers -> Labels]
    BY DEF Shape, TypeOK
<1>1. ASSUME NEW label, NEW verb, NEW p, NEW m, Enter(w, label, verb, p, m)
      PROVE  /\ pc'[w] = label /\ op'[w].verb = verb /\ op'[w].port = p
             /\ op'[w].model = m
    BY <1>0, <1>1 DEF Enter, Goto, NoFrame
<1>2. ASSUME NEW p \in Ports, NEW m \in Models, StartEnter(w, p, m)
      PROVE  SettledAt(w)'
    BY <1>1, <1>2, NothingToSettle DEF StartEnter
<1>3. ASSUME NEW p \in Ports, StopEnter(w, p) \/ CancelEnter(w, p)
      PROVE  SettledAt(w)'
    BY <1>1, <1>3, NothingToSettle DEF StopEnter, CancelEnter
<1>4. ASSUME NEW p \in Ports, NEW m \in Models, SwapEnter(w, p, m)
      PROVE  SettledAt(w)'
  <2>1. ReadLock(p) # None /\ UNCHANGED <<lock, proc>>
    BY <1>4 DEF SwapEnter, files
  <2>2. CASE Enter(w, "clear", "swap", p, m)
    BY <1>1, <2>2, NothingToSettle
  <2>3. CASE /\ PidAlive(lock[p].pid) /\ lock[p].model = m
             /\ Enter(w, "same", "swap", p, m)
    <3>1. pc'[w] = "same" /\ op'[w].port = p /\ op'[w].model = m
      BY <1>1, <2>3
    <3> QED BY <2>1, <2>3, <3>1 DEF SettledAt, ClaimedAlive, ReadLock, PidAlive
  <2>4. CASE /\ PidAlive(lock[p].pid)
             /\ pc' = [pc EXCEPT ![w] = "take"]
             /\ op' = [op EXCEPT ![w] =
                        [NoFrame EXCEPT !.verb = "swap", !.port = p,
                                        !.model = m, !.prev = lock[p].model]]
    <3>1. pc'[w] = "take" /\ op'[w].port = p /\ op'[w].prev = lock[p].model
      BY <1>0, <2>4 DEF NoFrame
    <3> QED BY <2>1, <2>4, <3>1 DEF SettledAt, ClaimedAlive, ReadLock, PidAlive
  <2> QED BY <1>4, <2>2, <2>3, <2>4 DEF SwapEnter, Goto
<1>5. CASE SweepEnter(w) \/ \E m \in Models : DeleteEnter(w, m)
    BY <1>1, <1>5, NothingToSettle DEF SweepEnter, DeleteEnter
<1>6. ASSUME NEW m \in Models, Add(w, m) PROVE SettledAt(w)'
    BY <1>6, NothingToSettle DEF Add, Idle, local
<1> QED BY <1>2, <1>3, <1>4, <1>5, <1>6
        DEF Call, StartCall, StopCall, SwapCall, UpkeepCall

\* One operator on servers that live.
LEMMA OperatorSettled ==
    ASSUME NEW o \in Workers, OneOperator(o),
           Env \cap {"denied", "disk", "exit", "reuse"} = {}
    PROVE  Shape /\ ClaimMatchesProcess /\ Undisturbed(o) /\ Serial /\ Settled
           /\ [Next]_vars => Settled'
<1> SUFFICES ASSUME Shape, ClaimMatchesProcess, Undisturbed(o), Serial, Settled,
                    Next \/ UNCHANGED vars
             PROVE  Settled'
    OBVIOUS
<1>0. /\ proc \in [Pids -> Process \cup {None}] /\ NoStrangers
      /\ \A v \in Workers : SettledAt(v)
    BY DEF Shape, TypeOK, Settled
<1>1. \A v \in Workers \ {o} : SettledAt(v)'
  <2>1. \A v \in Workers \ {o} : pc'[v] \in {"idle", "write"}
    BY OperatorNext DEF Undisturbed
  <2> QED BY <2>1, NothingToSettle
<1>2. ASSUME NEW w \in Workers, Call(w) \/ Step(w) PROVE NoStrangers'
  <2>1. CASE Spawn(w)
    BY <1>0, <2>1 DEF Spawn, NoStrangers
  <2>2. CASE ~Spawn(w)
    BY <1>0, <1>2, <2>2, ProcessEffect, NoSpawnStep DEF NoSpawn, NoStrangers
  <2> QED BY <2>1, <2>2
<1>3. CASE Call(o) \/ Step(o)
  <2>1. CASE CancelWrite(o)
    BY <1>1, <1>2, <1>3, <2>1, ReturnSettled DEF CancelWrite, Settled
  <2>2. CASE ~CancelWrite(o)
    <3>1. SettledAt(o)'
      BY <1>0, <1>3, <2>2, VerbSettled, CallSettled
    <3> QED BY <1>1, <1>2, <1>3, <3>1 DEF Settled
  <2> QED BY <2>1, <2>2
<1>4. ASSUME NEW v \in Workers \ {o},
             CancelWrite(v) \/ \E p \in Ports : CancelEnter(v, p)
      PROVE  Settled'
  <2>1. Call(v) \/ Step(v)
    BY <1>4 DEF Call, UpkeepCall, Step, UpkeepStep
  <2>2. UNCHANGED <<proc, lock>> /\ pc'[o] = pc[o] /\ op'[o] = op[o]
    BY <1>4, <2>1, StepAlone DEF CancelWrite, CancelEnter, files, Alone
  <2>3. SettledAt(o)'
    BY <1>0, <2>2, SettledKept DEF PidAlive
  <2> QED BY <1>1, <1>2, <2>1, <2>3 DEF Settled
<1>5. CASE Environment \/ UNCHANGED vars
  <2>1. SameProcesses /\ UNCHANGED <<lock, pc, op>>
    BY <1>5, EnvironmentQuiet, EnvironmentAlive
  <2>2. SettledAt(o)'
    BY <1>0, <2>1, SettledKept DEF PidAlive, SameProcesses
  <2>3. NoStrangers'
    BY <1>0, <2>1 DEF SameProcesses, NoStrangers
  <2> QED BY <1>1, <2>2, <2>3 DEF Settled
<1> QED BY <1>3, <1>4, <1>5, OperatorNext

\* Only the spawn and the claim lead to where a server is waited for.
LEMMA WaitingSteps ==
    ASSUME Shape, NEW w \in Workers, Call(w) \/ Step(w), ~Spawn(w), ~ClaimPort(w)
    PROVE  pc'[w] \notin {"claim", "await"}
<1>0. pc \in [Workers -> Labels]
    BY DEF Shape, TypeOK
<1>1. CASE LaunchStep(w)
    BY <1>0, <1>1 DEF LaunchStep, SpawnFails, ClaimLost, ClaimRaises,
       RaceCleanup, AwaitReady, AwaitFails, KillUnready, Unlock, Release,
       AfterFailure, Finish, Return, Goto
<1>2. CASE StartStep(w) \/ StopStep(w)
    BY <1>0, <1>2 DEF StartStep, StartClear, StartTake, StartRefused, StartPreflight,
       StartCancelled, StopStep, ClearAndReturn, Find, FindNothing, Terminate,
       TerminateMissed, TerminateDenied, Unclaim, StopFailed, Finish, Return, Goto
<1>3. CASE SwapStep(w) \/ UpkeepStep(w)
    BY <1>0, <1>3 DEF SwapStep, SwapTake, SwapSame, SwapInProgress, SwapReclaim,
       SwapTakeRaises, SwapCancelled, UpkeepStep, ScanStale, ScanLive, ScanDone,
       DeleteDrop, CancelWrite, Finish, Return, Goto
<1>4. CASE Call(w)
    BY <1>0, <1>4 DEF Call, StartCall, StopCall, SwapCall, UpkeepCall, StartEnter,
       StopEnter, SwapEnter, SweepEnter, DeleteEnter, Add, CancelEnter, Idle,
       Enter, Goto, local
<1> QED BY <1>1, <1>2, <1>3, <1>4 DEF Step

\* What is handed over serves.
LEMMA StepServing ==
    ASSUME Shape, Serving, NEW w \in Workers, Call(w) \/ Step(w), "tail" \notin Env
    PROVE  /\ \A q \in Servers' : proc'[q].kept => proc'[q].st = "serving"
           /\ ServingAt(w)'
<1>0. /\ op \in [Workers -> Frame] /\ pc \in [Workers -> Labels]
      /\ proc \in [Pids -> Process \cup {None}] /\ FrameOK(w)
    BY DEF Shape, TypeOK, FramesOK
<1>1. CASE Spawn(w)
  <2>1. PICK q \in Fresh :
          /\ proc' = [proc EXCEPT ![q] =
                        [st |-> "loading", port |-> op[w].port,
                         model |-> Target(w), kept |-> FALSE]]
          /\ logs' = logs \ {<<Target(w), op[w].port>>}
          /\ op' = [op EXCEPT ![w].pid = q]
    BY <1>1 DEF Spawn
  <2>2. \A r \in Servers' : proc'[r].kept => proc'[r].st = "serving"
    BY <1>0, <2>1 DEF Fresh, Serving, Servers
  <2>3. Target(w)' = Target(w) /\ op'[w].port = op[w].port
    BY <1>0, <2>1 DEF Target, Frame
  <2> QED BY <2>1, <2>2, <2>3 DEF ServingAt
<1>2. CASE ClaimPort(w)
  <2>1. pc[w] = "claim" /\ UNCHANGED <<proc, logs, op>>
    BY <1>2 DEF ClaimPort
  <2> QED BY <2>1 DEF Serving, ServingAt, Servers, Target, PidAlive
<1>3. CASE ~Spawn(w) /\ ~ClaimPort(w)
  <2>1. ServingAt(w)'
    BY <1>3, WaitingSteps DEF ServingAt
  <2>2. ASSUME NEW q \in Servers', proc'[q].kept PROVE proc'[q].st = "serving"
    <3>1. /\ q \in Servers /\ proc'[q].st = proc[q].st
          /\ proc[q].kept \/ (q = op[w].pid /\ AwaitReady(w))
      BY <1>3, <2>2, ServersEffect
    <3> QED BY <3>1 DEF Serving, ServingAt, AwaitReady
  <2> QED BY <2>1, <2>2
<1> QED BY <1>1, <1>2, <1>3

\* A ready line is written by the one server of the port.
LEMMA EnvironmentServing ==
    ASSUME Shape, Serial, Serving, Env \cap {"exit", "reuse"} = {},
           Environment \/ UNCHANGED vars
    PROVE  Serving'
<1>0. /\ proc \in [Pids -> Process \cup {None}]
      /\ UNCHANGED <<pc, op>>
    BY EnvironmentQuiet DEF Shape, TypeOK
<1>1. ASSUME NEW q \in Pids, NEW st \in {"bound", "serving"},
             proc[q] # None, proc[q].st \in {"loading", "bound"},
             proc' = [proc EXCEPT ![q].st = st],
             logs' = logs \/ (/\ logs' = logs \cup {<<proc[q].model, proc[q].port>>}
                              /\ st = "serving")
      PROVE  Serving'
  <2>1. /\ \A r \in Pids \ {q} : proc'[r] = proc[r]
        /\ proc'[q].kept = proc[q].kept /\ proc'[q].st = st
        /\ proc'[q] # None /\ proc[q].st # "alien"
    <3> DEFINE s == [proc[q] EXCEPT !.st = st]
    <3>1. proc[q] \in Process
      BY <1>0, <1>1
    <3>2. s \in Process /\ s.kept = proc[q].kept /\ s.st = st
      BY <3>1 DEF Process
    <3>3. proc' = [proc EXCEPT ![q] = s]
      BY <1>1
    <3> HIDE DEF s
    <3> QED BY <1>0, <1>1, <3>2, <3>3, FilesAssumption
  <2>2. \A r \in Servers' : proc'[r].kept => proc'[r].st = "serving"
    BY <1>1, <2>1 DEF Serving, Servers
  <2>3. ASSUME NEW w \in Workers PROVE ServingAt(w)'
    <3> SUFFICES ASSUME pc[w] \in {"claim", "await"},
                        <<Target(w), op[w].port>> \in logs'
                 PROVE  proc'[op[w].pid] # None /\ proc'[op[w].pid].st = "serving"
        BY <1>0 DEF ServingAt, Target, PidAlive
    <3>0. op[w].port \in Ports /\ op[w].pid \in Pids
      BY DEF Shape, FramesOK, FrameOK
    <3>1. CASE <<Target(w), op[w].port>> \in logs
      BY <1>1, <2>1, <3>0, <3>1 DEF Serving, ServingAt, PidAlive
    <3>2. CASE st = "serving" /\ op[w].port = proc[q].port
      <4>1. q \in ServersOn(op[w].port)
        BY <1>1, <3>2 DEF ServersOn
      <4>2. q = op[w].pid
        BY <4>1 DEF Serial, Point, PortAt
      <4> QED BY <2>1, <3>2, <4>2
    <3> QED BY <1>1, <3>1, <3>2
  <2> QED BY <2>2, <2>3 DEF Serving
<1>2. CASE UNCHANGED vars
    BY <1>2 DEF vars, Serving, ServingAt, Servers, Target, PidAlive
<1>3. ASSUME NEW q \in Pids, Bind(q) \/ Serve(q) PROVE Serving'
    BY <1>1, <1>3 DEF Bind, Serve
<1>4. \A q \in Pids : ~Exit(q) /\ ~Reuse(q)
    BY NobodyExits DEF Reuse
<1> QED BY <1>2, <1>3, <1>4 DEF Environment

\* Where the log tail is the server's own, a ready server serves.
LEMMA OperatorServing ==
    ASSUME NEW o \in Workers, OneOperator(o),
           Env \cap {"exit", "reuse", "tail"} = {}
    PROVE  Shape /\ Undisturbed(o) /\ Serial /\ Serving /\ [Next]_vars => Serving'
<1> SUFFICES ASSUME Shape, Undisturbed(o), Serial, Serving, Next \/ UNCHANGED vars
             PROVE  Serving'
    OBVIOUS
<1>1. \A v \in Workers \ {o} : ServingAt(v)'
  <2>1. \A v \in Workers \ {o} : pc'[v] \in {"idle", "write"}
    BY OperatorNext DEF Undisturbed
  <2> QED BY <2>1 DEF ServingAt
<1>2. CASE Call(o) \/ Step(o)
    BY <1>1, <1>2, StepServing DEF Serving
<1>3. ASSUME NEW v \in Workers \ {o},
             CancelWrite(v) \/ \E p \in Ports : CancelEnter(v, p)
      PROVE  Serving'
  <2>1. Call(v) \/ Step(v)
    BY <1>3 DEF Call, UpkeepCall, Step, UpkeepStep
  <2>2. UNCHANGED <<proc, logs>> /\ pc'[o] = pc[o] /\ op'[o] = op[o]
    BY <1>3, <2>1, StepAlone DEF CancelWrite, CancelEnter, Alone
  <2>3. ServingAt(o)'
    BY <2>2 DEF Serving, ServingAt, Target, PidAlive
  <2> QED BY <1>1, <2>2, <2>3 DEF Serving, Servers
<1>4. CASE Environment \/ UNCHANGED vars
    BY <1>4, EnvironmentServing
<1> QED BY <1>2, <1>3, <1>4, OperatorNext

\* The server a report speaks of is there, and serves.
LEMMA ReportsTrue ==
    ASSUME NEW o \in Workers
    PROVE  Shape /\ ClaimMatchesProcess /\ NoLeak /\ Undisturbed(o) /\ Serial
           /\ Settled /\ Serving => Truthful
<1> SUFFICES ASSUME Shape, ClaimMatchesProcess, NoLeak, Undisturbed(o), Serial,
                    Settled, Serving, NEW w \in Workers, pc[w] = "release"
             PROVE  LET out == op[w].out  p == op[w].port  restored == op[w].prev IN
                    /\ out \in {"started", "swapped", "already_running"} =>
                          Serves(p, op[w].model)
                    /\ out \in {"rolled_back", "rejected_stop_failed"} =>
                          Serves(p, restored)
                    /\ out = "cancelled" /\ op[w].verb = "swap" => Serves(p, restored)
                    /\ out \in {"failed", "error"}
                       \/ (out = "cancelled" /\ op[w].verb = "start")
                          => ServersOn(p) = {} /\ lock[p] = None
    BY DEF Truthful
<1> DEFINE p == op[w].port
<1>0. p \in Ports /\ Point(w) /\ SettledAt(w) /\ NoStrangers
    BY DEF Shape, FramesOK, FrameOK, Serial, Settled
<1>1. ASSUME ClaimedAlive(p) PROVE Serves(p, lock[p].model)
  <2> DEFINE q == lock[p].pid
  <2>1. q \in ServersOn(p) /\ q \in Servers /\ ClaimOf(p, q)
    BY <1>0, <1>1, ClaimedIsThere
  <2>2. ~\E v \in Workers : InCharge(v, q)
    BY DEF InCharge, Undisturbed
  <2>3. proc[q].st = "serving"
    BY <2>1, <2>2 DEF NoLeak, Serving
  <2> QED BY <2>1, <2>3 DEF Serves
<1> QED BY <1>0, <1>1 DEF Point, ReportAt, SettledAt

\* Nothing is served at first, and nobody reports.
LEMMA InitSettled == Init => Settled /\ Serving
BY DEF Init, Settled, SettledAt, NoStrangers, Serving, ServingAt, Servers

\* With one operator, and servers that do not exit by themselves, every report
\* is true of the port when it is made: what is reported as running or restored
\* is claimed and serves, what has failed has left nothing.
THEOREM OneOperatorTruthful ==
    ASSUME NEW o \in Workers, OneOperator(o),
           Env \cap {"denied", "disk", "exit", "reuse", "tail"} = {}
    PROVE  Spec => []Truthful
<1>1. Init => Shape /\ ClaimMatchesProcess /\ NoLeak
              /\ Undisturbed(o) /\ Serial /\ Settled /\ Serving
    BY InitShape, InitUndisturbed, InitSerial, InitSettled
       DEF Init, ClaimMatchesProcess, NoLeak, Servers
<1>2. Shape /\ Undisturbed(o) /\ Serial /\ [Next]_vars
      => Undisturbed(o)' /\ Serial'
    BY OperatorSerial
<1>3. Shape /\ ClaimMatchesProcess /\ Undisturbed(o) /\ Serial /\ Settled
      /\ [Next]_vars => Settled'
    BY OperatorSettled
<1>4. Shape /\ Undisturbed(o) /\ Serial /\ Serving /\ [Next]_vars => Serving'
    BY OperatorServing
<1>5. Shape /\ NoLeak /\ [Next]_vars => NoLeak'
    BY NoLeakNext
<1>6. Shape /\ ClaimMatchesProcess /\ NoLeak /\ Undisturbed(o) /\ Serial
      /\ Settled /\ Serving => Truthful
    BY ReportsTrue
<1> QED BY <1>1, <1>2, <1>3, <1>4, <1>5, <1>6, ShapeNext, ClaimsNext, PTL DEF Spec

-----------------------------------------------------------------------------
(* To its caller a verb is one step.                                        *)

\* The verb goes on, with what it was asked for.
Within(w) ==
    /\ pc[w] # "idle" /\ pc'[w] # "idle"
    /\ op'[w].verb = op[w].verb /\ op'[w].port = op[w].port
    /\ op'[w].model = op[w].model /\ op'[w].prev = op[w].prev

\* A step of a verb ends it or leaves what it was asked for.
LEMMA StepFrame ==
    ASSUME Shape, NEW w \in Workers, Step(w)
    PROVE  Within(w) \/ (pc[w] # "idle" /\ pc'[w] = "idle" /\ op'[w] = NoFrame)
<1>0. op \in [Workers -> Frame] /\ pc \in [Workers -> Labels] /\ pc[w] # "idle"
    BY StepNotIdle DEF Shape, TypeOK
<1>a. ASSUME Return(w) PROVE pc'[w] = "idle" /\ op'[w] = NoFrame
    BY <1>0, <1>a DEF Return, Goto
<1>b. ASSUME NEW out, Finish(w, out) PROVE Within(w)
    BY <1>0, <1>b DEF Finish, Goto, Frame, Within
<1>c. ASSUME NEW label \in Labels \ {"idle"}, Goto(w, label), op' = op PROVE Within(w)
    BY <1>0, <1>c DEF Goto, Within
<1>d. ASSUME NEW out, AfterFailure(w, out) PROVE Within(w)
  <2>1. /\ pc'[w] \in {"launch", "release"}
        /\ \/ op'[w] = [op[w] EXCEPT !.stage = "back", !.out = out, !.pid = None]
           \/ op'[w] = [op[w] EXCEPT !.out = out, !.pid = None]
    BY <1>0, <1>d DEF AfterFailure, Goto
  <2> QED BY <1>0, <2>1 DEF Frame, Within
<1>1. CASE LaunchStep(w)
  <2>1. CASE Spawn(w) \/ KillUnready(w)
    BY <1>0, <2>1 DEF Spawn, KillUnready, Goto, Frame, Within
  <2>2. CASE ClaimPort(w) \/ ClaimLost(w) \/ AwaitFails(w)
    BY <1>c, <2>2 DEF ClaimPort, ClaimLost, AwaitFails, Labels
  <2>3. CASE SpawnFails(w) \/ RaceCleanup(w) \/ Unlock(w)
    BY <1>d, <2>3 DEF SpawnFails, RaceCleanup, Unlock
  <2> QED BY <1>0, <1>1, <1>a, <1>b, <2>1, <2>2, <2>3
          DEF LaunchStep, ClaimRaises, AwaitReady, Release
<1>2. CASE StartStep(w)
    BY <1>0, <1>2, <1>a, <1>b, <1>c DEF StartStep, StartClear, StartTake, StartRefused,
       StartPreflight, StartCancelled, Labels
<1>3. CASE StopStep(w)
  <2>1. CASE Find(w)
    BY <1>0, <2>1 DEF Find, Goto, Frame, Within
  <2>2. CASE Unclaim(w) /\ ~Return(w)
    BY <1>0, <2>2 DEF Unclaim, Goto, Frame, Within
  <2> QED BY <1>0, <1>3, <1>a, <1>b, <1>c, <2>1, <2>2
          DEF StopStep, ClearAndReturn, FindNothing, Terminate, TerminateMissed,
              TerminateDenied, StopFailed, Unclaim, Labels
<1>4. CASE SwapStep(w)
  <2>1. CASE SwapCancelled(w)
    BY <1>0, <2>1 DEF SwapCancelled, Frame, Within
  <2> QED BY <1>0, <1>4, <1>a, <1>b, <1>c, <2>1
          DEF SwapStep, SwapTake, SwapSame, SwapInProgress, SwapReclaim,
              SwapTakeRaises, Labels
<1>5. CASE UpkeepStep(w)
  <2>1. ASSUME NEW p \in Ports, ScanStale(w, p) \/ ScanLive(w, p)
        PROVE  Within(w) \/ Return(w)
    BY <1>0, <2>1 DEF ScanStale, ScanLive, Within
  <2> QED BY <1>0, <1>5, <1>a, <1>c, <2>1
          DEF UpkeepStep, ScanDone, DeleteDrop, CancelWrite, Labels
<1> QED BY <1>1, <1>2, <1>3, <1>4, <1>5 DEF Step

\* A call is for what it is asked for.
LEMMA CallFrame ==
    ASSUME Shape, NEW w \in Workers, Call(w)
    PROVE  /\ pc[w] = "idle" /\ UNCHANGED <<lock, proc>>
           /\ \/ UNCHANGED <<pc, op>>
              \/ /\ pc'[w] \in {"clear", "take", "same", "find", "scan", "write"}
                 /\ pc'[w] = "find" => op'[w].verb = "stop"
                 /\ op'[w].verb \in {"start", "swap", "stop", "sweep", "delete", "cancel"}
                 /\ op'[w].port \in Ports \cup {None}
                 /\ op'[w].model \in Models \cup {None}
                 /\ AskedAt(w)'
<1>0. op \in [Workers -> Frame] /\ pc \in [Workers -> Labels]
      /\ lock \in [Ports -> Claim \cup {None, Torn}]
    BY DEF Shape, TypeOK
<1>1. pc[w] = "idle" /\ UNCHANGED <<lock, proc>>
    BY DEF Call, StartCall, StopCall, SwapCall, UpkeepCall, StartEnter, StopEnter,
       SwapEnter, SweepEnter, DeleteEnter, Add, CancelEnter, Idle, files
<1> DEFINE Asks == /\ pc'[w] \in {"clear", "take", "same", "find", "scan", "write"}
                   /\ pc'[w] = "find" => op'[w].verb = "stop"
                   /\ op'[w].verb \in {"start", "swap", "stop", "sweep", "delete", "cancel"}
                   /\ op'[w].port \in Ports \cup {None}
                   /\ op'[w].model \in Models \cup {None}
                   /\ AskedAt(w)'
<1>2. ASSUME NEW label \in {"clear", "take", "same", "find", "scan", "write"},
             NEW verb \in {"start", "swap", "stop", "sweep", "delete", "cancel"},
             NEW p \in Ports \cup {None}, NEW m \in Models \cup {None},
             Enter(w, label, verb, p, m), label = "find" => verb = "stop",
             verb = "swap" => m \in Models
      PROVE  Asks
  <2>1. /\ pc'[w] = label /\ op'[w].verb = verb /\ op'[w].port = p
        /\ op'[w].model = m /\ op'[w].prev = None
    BY <1>0, <1>2 DEF Enter, Goto, NoFrame
  <2> QED BY <1>2, <2>1, ConstantsAssumption DEF AskedAt
<1>3. ASSUME NEW p \in Ports, NEW m \in Models, StartEnter(w, p, m) PROVE Asks
    BY <1>2, <1>3 DEF StartEnter
<1>4. ASSUME NEW p \in Ports, StopEnter(w, p) \/ CancelEnter(w, p) PROVE Asks
    BY <1>2, <1>4 DEF StopEnter, CancelEnter
<1>5. ASSUME NEW p \in Ports, NEW m \in Models, SwapEnter(w, p, m) PROVE Asks
  <2>1. CASE /\ lock[p].model # m
             /\ pc' = [pc EXCEPT ![w] = "take"]
             /\ op' = [op EXCEPT ![w] =
                        [NoFrame EXCEPT !.verb = "swap", !.port = p,
                                        !.model = m, !.prev = lock[p].model]]
    <3>1. /\ pc'[w] = "take" /\ op'[w].verb = "swap" /\ op'[w].port = p
          /\ op'[w].model = m /\ op'[w].prev = lock[p].model
      BY <1>0, <2>1 DEF NoFrame
    <3> QED BY <2>1, <3>1 DEF AskedAt
  <2> QED BY <1>2, <1>5, <2>1 DEF SwapEnter, Goto
<1>6. ASSUME SweepEnter(w) \/ \E m \in Models : DeleteEnter(w, m) PROVE Asks
  <2>1. CASE SweepEnter(w)
    BY <1>2, <2>1 DEF SweepEnter
  <2>2. ASSUME NEW m \in Models, DeleteEnter(w, m) PROVE Asks
    BY <1>2, <2>2 DEF DeleteEnter
  <2> QED BY <1>6, <2>1, <2>2
<1>7. ASSUME NEW m \in Models, Add(w, m) PROVE UNCHANGED <<pc, op>>
    BY <1>7 DEF Add, local
<1> QED BY <1>1, <1>3, <1>4, <1>5, <1>6, <1>7
        DEF Call, StartCall, StopCall, SwapCall, UpkeepCall

\* What a verb may displace is fixed when it is called.
LEMMA DisplacingNext == Shape /\ Displacing /\ [Next]_vars => Displacing'
<1> SUFFICES ASSUME Shape, Displacing, Next \/ UNCHANGED vars PROVE Displacing'
    OBVIOUS
<1>1. ASSUME NEW w \in Workers, Call(w) \/ Step(w) PROVE Displacing'
  <2>1. AskedAt(w)'
    <3>1. CASE Call(w)
      BY <3>1, CallFrame DEF Displacing, AskedAt
    <3>2. CASE Step(w)
      BY <3>2, StepFrame DEF Within, NoFrame, Displacing, AskedAt
    <3> QED BY <1>1, <3>1, <3>2
  <2>2. \A v \in Workers \ {w} : op'[v] = op[v]
    BY <1>1, StepAlone DEF Alone
  <2> QED BY <2>1, <2>2 DEF Displacing, AskedAt
<1>2. CASE Environment \/ UNCHANGED vars
    BY <1>2, EnvironmentQuiet DEF Displacing, AskedAt
<1> QED BY <1>1, <1>2 DEF Next

\* What a port holds by its lockfile; what o's caller sees on it.
Held(p) == IF ClaimedAlive(p) THEN lock[p].model ELSE None
View(o, p) == IF Deciding(o, p) THEN op[o].prev ELSE Held(p)

\* A port holds the same as long as its claim and the claimed process do.
LEMMA HeldSame ==
    ASSUME Shape, NEW p \in Ports,
           lock'[p] = lock[p] \/ (lock'[p] = None /\ ~ClaimedAlive(p)),
           \A q \in Pids : ClaimOf(p, q) => (proc'[q] = None <=> proc[q] = None)
    PROVE  Held(p)' = Held(p)
<1>1. ReadLock(p) # None => lock[p].pid \in Pids /\ ClaimOf(p, lock[p].pid)
    BY DEF Shape, TypeOK, ReadLock, Claim, ClaimOf
<1>2. CASE lock'[p] = lock[p]
    BY <1>1, <1>2 DEF Held, ClaimedAlive, ReadLock, PidAlive
<1>3. CASE lock'[p] = None /\ ~ClaimedAlive(p)
    BY <1>3 DEF Held, ClaimedAlive, ReadLock
<1> QED BY <1>2, <1>3

\* A port without servers, or without a claim, holds nothing.
LEMMA HeldEmpty ==
    ASSUME Shape, ClaimMatchesProcess, NoStrangers, NEW p \in Ports,
           ServersOn(p) = {} \/ lock[p] = None
    PROVE  ~ClaimedAlive(p) /\ Held(p) = None
BY ClaimedIsThere DEF Held, ClaimedAlive, ReadLock

\* A verb leaves the other ports alone, except for their dead claims.
LEMMA HeldElsewhere ==
    ASSUME Shape, Serial, ClaimMatchesProcess, NoStrangers, NEW w \in Workers,
           Step(w), NEW r \in Ports, r # op[w].port
    PROVE  Held(r)' = Held(r)
<1>0. /\ proc \in [Pids -> Process \cup {None}] /\ lock \in [Ports -> Claim \cup {None, Torn}]
      /\ FrameOK(w) /\ PidOK(w) /\ Point(w)
    BY DEF Shape, TypeOK, FramesOK, PidsOK, Serial
<1>1. lock'[r] = lock[r] \/ (lock'[r] = None /\ ~ClaimedAlive(r))
  <2>1. ASSUME NEW p \in Ports, ScanStale(w, p)
        PROVE  lock'[r] = lock[r] \/ (lock'[r] = None /\ ~ClaimedAlive(r))
    BY <1>0, <2>1
       DEF ScanStale, RemoveLock, Point, ListingAt, ClaimedAlive, PidAlive
  <2>2. CASE lock' = lock
    BY <2>2
  <2>3. ASSUME RemoveLock(op[w].port) PROVE lock'[r] = lock[r]
    BY <1>0, <2>3 DEF RemoveLock
  <2>4. CASE LaunchStep(w)
    <3>1. CASE ClaimPort(w)
      BY <1>0, <3>1 DEF ClaimPort
    <3> QED BY <2>2, <2>3, <2>4, <3>1 DEF LaunchStep, Spawn, SpawnFails, ClaimLost,
               ClaimRaises, RaceCleanup, AwaitReady, AwaitFails, KillUnready,
               Unlock, Release, files
  <2>5. CASE StartStep(w)
    BY <2>2, <2>3, <2>5 DEF StartStep, StartClear, StartTake, StartRefused,
       StartPreflight, StartCancelled, files
  <2>6. CASE StopStep(w)
    BY <2>2, <2>3, <2>6 DEF StopStep, ClearAndReturn, Find, FindNothing, Terminate,
       TerminateMissed, TerminateDenied, Unclaim, files
  <2>7. CASE SwapStep(w)
    BY <2>2, <2>7 DEF SwapStep, SwapTake, SwapSame, SwapInProgress, SwapReclaim,
       SwapTakeRaises, SwapCancelled, files
  <2>8. CASE UpkeepStep(w)
    BY <2>1, <2>2, <2>8 DEF UpkeepStep, ScanLive, ScanDone, DeleteDrop,
       CancelWrite, files
  <2> QED BY <2>4, <2>5, <2>6, <2>7, <2>8 DEF Step
<1>2. ASSUME NEW q \in Pids, ClaimOf(r, q)
      PROVE  proc'[q] = None <=> proc[q] = None
  <2>1. CASE Spawn(w)
    <3>1. PICK n \in Fresh : proc' = [proc EXCEPT ![n] =
                        [st |-> "loading", port |-> op[w].port,
                         model |-> Target(w), kept |-> FALSE]]
      BY <2>1 DEF Spawn
    <3>2. n # q
      BY <1>2 DEF Fresh, ClaimOf
    <3> QED BY <1>0, <3>1, <3>2
  <2>2. CASE Kills(w)
    <3>1. CASE op[w].pid # q
      BY <1>0, <2>2, <3>1 DEF Kills
    <3>2. CASE op[w].pid = q /\ proc[q] # None
      <4>1. proc[q].port = op[w].port /\ proc[q].port # r
        BY <1>0, <2>2, <3>2 DEF Kills, PidOK
      <4>2. q \in Servers
        BY <3>2 DEF NoStrangers, Servers
      <4> QED BY <1>2, <4>1, <4>2 DEF ClaimMatchesProcess
    <3>3. CASE op[w].pid = q /\ proc[q] = None
      BY <1>0, <2>2, <3>3 DEF Kills
    <3> QED BY <3>1, <3>2, <3>3
  <2>3. CASE Keeps(w)
    BY <2>3, KeepsProcesses
  <2> QED BY <2>1, <2>2, <2>3, ProcessEffect
<1> QED BY <1>1, <1>2, HeldSame

\* While a start or swap is deciding, its caller sees what was there before.
LEMMA DecidingView ==
    ASSUME NEW o \in Workers, Within(o), NEW p \in Ports,
           Deciding(o, p), Deciding(o, p)'
    PROVE  View(o, p)' = View(o, p)
BY DEF View, Within

\* What a step of a verb does to what its caller sees on its port p.
Started(o, p) ==
    /\ Within(o) /\ op[o].verb = "start" /\ View(o, p) = None
    /\ View(o, p)' = op[o].model
Swapped(o, p) ==
    /\ Within(o) /\ op[o].verb = "swap" /\ View(o, p) \notin {None, op[o].model}
    /\ View(o, p)' = op[o].model
Emptied(o, p) ==
    /\ Within(o) /\ op[o].verb \in {"stop", "swap"} /\ View(o, p) # None
    /\ View(o, p)' = None

\* A launch that failed goes on as the relaunch, or leaves an empty port.
LEMMA FailureView ==
    ASSUME Shape, NEW o \in Workers, AskedAt(o), Within(o), NEW out, AfterFailure(o, out),
           NEW p \in Ports, p = op[o].port, Deciding(o, p),
           op[o].verb \in {"start", "swap"},
           op[o].verb = "swap" => op[o].prev \in Models,
           Held(p)' = None
    PROVE  View(o, p)' = View(o, p) \/ Emptied(o, p)
<1>0. pc \in [Workers -> Labels]
    BY DEF Shape, TypeOK
<1>1. CASE pc'[o] = "launch"
  <2>1. Deciding(o, p)'
    BY <1>1 DEF Deciding, InFlight, Within
  <2> QED BY <2>1, DecidingView
<1>2. CASE pc'[o] = "release"
  <2>1. View(o, p)' = None /\ View(o, p) = op[o].prev
    BY <1>2 DEF View, Deciding, InFlight
  <2> QED BY <2>1, ConstantsAssumption DEF AskedAt, Emptied
<1> QED BY <1>0, <1>1, <1>2 DEF AfterFailure, Goto

\* Neither a step before the marker nor one after the report decides anything.
LEMMA UndecidedView ==
    ASSUME NEW o \in Workers, NEW p \in Ports, ~Deciding(o, p), ~Deciding(o, p)',
           Held(p)' = Held(p)
    PROVE  View(o, p)' = View(o, p)
BY DEF View

\* A port without a lockfile holds nothing after a step either.
LEMMA NothingHeld ==
    ASSUME NEW p \in Ports, lock'[p] = None
    PROVE  Held(p)' = None
BY DEF Held, ClaimedAlive, ReadLock

\* The launch of a start or a swap;
LEMMA LaunchView ==
    ASSUME Shape, Serial, NEW o \in Workers, AskedAt(o),
           LaunchStep(o), Env \cap {"denied", "disk"} = {}, NEW p \in Ports, p = op[o].port
    PROVE  View(o, p)' = View(o, p) \/ Started(o, p) \/ Swapped(o, p) \/ Emptied(o, p)
<1>0. /\ op \in [Workers -> Frame] /\ pc \in [Workers -> Labels] /\ FrameOK(o)
      /\ lock \in [Ports -> Claim \cup {None, Torn}] /\ Point(o)
    BY DEF Shape, TypeOK, FramesOK, Serial
<1>a. Within(o) \/ (pc[o] # "idle" /\ pc'[o] = "idle" /\ op'[o] = NoFrame)
    BY StepFrame DEF Step
<1>b. pc[o] \in LaunchLabels =>
          /\ Deciding(o, p) /\ op[o].verb \in {"start", "swap"}
          /\ op[o].verb = "swap" => op[o].prev \in Models
    BY <1>0 DEF Deciding, InFlight, LaunchLabels, FrameOK
<1>1. ASSUME pc[o] \in LaunchLabels, pc'[o] \in LaunchLabels
      PROVE  View(o, p)' = View(o, p)
  <2>1. Within(o)
    BY <1>1, <1>a DEF LaunchLabels
  <2>2. Deciding(o, p)'
    BY <1>1, <2>1 DEF Deciding, InFlight, LaunchLabels, Within
  <2> QED BY <1>1, <1>b, <2>1, <2>2, DecidingView
<1>2. CASE Spawn(o) \/ ClaimPort(o) \/ ClaimLost(o) \/ AwaitFails(o) \/ KillUnready(o)
  <2>1. pc[o] \in LaunchLabels /\ pc'[o] \in LaunchLabels
    BY <1>0, <1>2 DEF Spawn, ClaimPort, ClaimLost, AwaitFails, KillUnready, Goto,
       LaunchLabels
  <2> QED BY <1>1, <2>1
<1>3. CASE SpawnFails(o) \/ Unlock(o)
  <2>1. /\ pc[o] \in {"launch", "unlock"} /\ lock'[p] = None
        /\ \E out : AfterFailure(o, out)
    BY <1>0, <1>3 DEF SpawnFails, Unlock, RemoveLock, files, Point, PortAt
  <2>2. Within(o)
    BY <1>0, <1>a, <2>1 DEF AfterFailure, Goto
  <2>3. PICK out : AfterFailure(o, out)
    BY <2>1
  <2> QED BY <1>b, <2>1, <2>2, <2>3, FailureView, NothingHeld DEF LaunchLabels
<1>4. CASE AwaitReady(o)
  <2>1. /\ pc[o] = "await" /\ pc'[o] = "release" /\ Keeps(o) /\ lock' = lock
    BY <1>0, <1>4 DEF AwaitReady, Finish, Goto, files, Keeps, PidAlive, FrameOK
  <2>2. /\ lock[p] = [pid |-> op[o].pid, model |-> Target(o)]
        /\ op[o].pid \in Pids /\ Target(o) \in Models
    BY <1>0, <2>1 DEF FrameOK, Point, PortAt, Target, LaunchLabels, Frame
  <2>3. lock[p] \in Claim /\ proc'[op[o].pid] # None
    <3>1. lock[p] \in Claim
      BY <2>2 DEF Claim
    <3>2. PidAlive(op[o].pid)
      BY <1>4 DEF AwaitReady
    <3> QED BY <2>1, <2>2, <3>1, <3>2, KeepsProcesses DEF PidAlive
  <2>4. Held(p)' = Target(o)
    BY <2>1, <2>2, <2>3, FilesAssumption DEF Held, ClaimedAlive, ReadLock, PidAlive
  <2>5. View(o, p)' = Target(o) /\ View(o, p) = op[o].prev
    BY <1>b, <2>1, <2>4 DEF View, Deciding, LaunchLabels
  <2>6. op[o].stage \in {"new", "back"} /\ op[o].verb \in {"start", "swap"}
        /\ (op[o].verb = "start" => op[o].stage = "new")
        /\ (op[o].verb = "swap" => op[o].prev \in Models)
    BY <1>0, <1>b, <2>1 DEF Frame, FrameOK, LaunchLabels
  <2>7. Within(o)
    BY <1>a, <2>1
  <2> QED BY <2>5, <2>6, <2>7, ConstantsAssumption DEF Target, AskedAt, Started, Swapped
<1>5. CASE Release(o)
  <2>1. pc[o] = "release" /\ pc'[o] = "idle" /\ UNCHANGED <<lock, proc>>
    BY <1>0, <1>5 DEF Release, Return, Goto
  <2>2. ~Deciding(o, p) /\ ~Deciding(o, p)'
    BY <2>1 DEF Deciding, InFlight
  <2> QED BY <2>1, <2>2, UndecidedView, HeldSame
<1>6. ~RaceCleanup(o) /\ ~ClaimRaises(o)
    BY <1>0 DEF RaceCleanup, ClaimRaises, Point, PortAt
<1> QED BY <1>2, <1>3, <1>4, <1>5, <1>6 DEF LaunchStep

\* what a start does before it,
LEMMA StartView ==
    ASSUME Shape, Serial, ClaimMatchesProcess, NoStrangers, NEW o \in Workers,
           AskedAt(o), StartStep(o), NEW p \in Ports, p = op[o].port
    PROVE  View(o, p)' = View(o, p)
<1>0. /\ op \in [Workers -> Frame] /\ pc \in [Workers -> Labels] /\ FrameOK(o)
      /\ lock \in [Ports -> Claim \cup {None, Torn}] /\ Point(o)
    BY DEF Shape, TypeOK, FramesOK, Serial
<1>a. Within(o) \/ (pc[o] # "idle" /\ pc'[o] = "idle" /\ op'[o] = NoFrame)
    BY StepFrame DEF Step
<1>1. CASE StartClear(o)
  <2>1. /\ pc[o] = "clear" /\ pc'[o] = "take" /\ op'[o].verb = "start"
        /\ lock'[p] = None
    BY <1>0, <1>1 DEF StartClear, Goto, RemoveLock
  <2>2. Held(p) = None /\ Held(p)' = None
    BY <1>0, <2>1, HeldEmpty, NothingHeld DEF Point, PortAt
  <2>3. ~Deciding(o, p) /\ ~Deciding(o, p)'
    BY <2>1 DEF Deciding, InFlight
  <2> QED BY <2>2, <2>3, UndecidedView
<1>2. CASE StartTake(o)
  <2>1. /\ pc[o] = "take" /\ op[o].verb = "start" /\ pc'[o] = "preflight"
        /\ op' = op
    BY <1>0, <1>2 DEF StartTake, Goto
  <2>2. ReadLock(p) = None
    BY <1>0, <2>1 DEF Point, PortAt
  <2>3. Held(p) = None /\ ~Deciding(o, p) /\ Deciding(o, p)'
    BY <2>1, <2>2 DEF Held, ClaimedAlive, Deciding, InFlight
  <2> QED BY <2>1, <2>3 DEF View, AskedAt
<1>3. CASE StartRefused(o)
  <2>1. pc[o] = "take" /\ pc'[o] = "idle" /\ UNCHANGED <<lock, proc>>
        /\ op[o].verb = "start"
    BY <1>0, <1>3 DEF StartRefused, Return, Goto, files
  <2>2. ~Deciding(o, p) /\ ~Deciding(o, p)'
    BY <2>1 DEF Deciding, InFlight
  <2> QED BY <2>1, <2>2, UndecidedView, HeldSame
<1>4. CASE StartPreflight(o) \/ StartCancelled(o)
  <2>1. /\ pc[o] \in {"preflight", "launch"} /\ pc'[o] \in {"launch", "release"}
        /\ op[o].verb = "start" /\ UNCHANGED <<lock, proc>>
    BY <1>0, <1>4 DEF StartPreflight, StartCancelled, Goto, Finish, files, FrameOK
  <2>2. lock[p] = None /\ Deciding(o, p) /\ Within(o)
    BY <1>0, <1>a, <2>1 DEF Point, PortAt, Deciding, InFlight
  <2>3. CASE pc'[o] = "launch"
    <3>1. Deciding(o, p)'
      BY <2>2, <2>3 DEF Deciding, InFlight, Within
    <3> QED BY <2>2, <3>1, DecidingView
  <2>4. CASE pc'[o] = "release"
    BY <2>1, <2>2, <2>4, NothingHeld DEF View, Deciding, AskedAt
  <2> QED BY <2>1, <2>3, <2>4
<1> QED BY <1>1, <1>2, <1>3, <1>4 DEF StartStep

\* the stop,
LEMMA StopView ==
    ASSUME Shape, Serial, ClaimMatchesProcess, NoStrangers, NEW o \in Workers,
           SettledAt(o), Undisturbed(o), StopStep(o), "denied" \notin Env,
           NEW p \in Ports, p = op[o].port
    PROVE  View(o, p)' = View(o, p) \/ Emptied(o, p)
<1>0. /\ op \in [Workers -> Frame] /\ pc \in [Workers -> Labels] /\ FrameOK(o)
      /\ lock \in [Ports -> Claim \cup {None, Torn}] /\ Point(o)
      /\ proc \in [Pids -> Process \cup {None}]
    BY DEF Shape, TypeOK, FramesOK, Serial
<1>a. Within(o) \/ (pc[o] # "idle" /\ pc'[o] = "idle" /\ op'[o] = NoFrame)
    BY StepFrame DEF Step
<1>1. CASE ClearAndReturn(o)
  <2>1. pc[o] = "clear" /\ pc'[o] = "idle" /\ lock'[p] = None
    BY <1>0, <1>1 DEF ClearAndReturn, Return, Goto, RemoveLock
  <2>2. Held(p) = None /\ Held(p)' = None
    BY <1>0, <2>1, HeldEmpty, NothingHeld DEF Point, PortAt
  <2>3. ~Deciding(o, p) /\ ~Deciding(o, p)'
    BY <2>1 DEF Deciding, InFlight
  <2> QED BY <2>2, <2>3, UndecidedView
<1>2. ASSUME op[o].verb = "swap", pc[o] \in {"find", "term", "unclaim"},
             pc'[o] \in {"term", "unclaim", "launch"}
      PROVE  View(o, p)' = View(o, p)
  <2>1. Within(o)
    BY <1>2, <1>a
  <2>2. Deciding(o, p) /\ Deciding(o, p)'
    BY <1>2, <2>1 DEF Deciding, InFlight, Within
  <2> QED BY <2>1, <2>2, DecidingView
<1>3. ASSUME op[o].verb = "stop", pc[o] \in {"find", "term", "unclaim"},
             \/ Within(o) /\ pc'[o] \in {"term", "unclaim"}
             \/ pc'[o] = "idle"
      PROVE  ~Deciding(o, p) /\ ~Deciding(o, p)'
    BY <1>3 DEF Deciding, InFlight, Within
<1>4. CASE Find(o)
  <2>1. /\ pc[o] = "find" /\ pc'[o] = "term" /\ UNCHANGED <<lock, proc>>
        /\ op[o].verb \in {"stop", "swap"} /\ Within(o)
    BY <1>0, <1>4, <1>a DEF Find, Goto, files, FrameOK
  <2> QED BY <1>2, <1>3, <2>1, UndecidedView, HeldSame
<1>5. CASE FindNothing(o)
  <2>1. /\ pc[o] = "find" /\ op[o].verb \in {"stop", "swap"}
        /\ UNCHANGED <<lock, proc>>
    BY <1>0, <1>5 DEF FindNothing, FrameOK, files
  <2>2. CASE op[o].verb = "stop"
    <3>1. pc'[o] = "idle"
      BY <1>0, <1>5, <2>2 DEF FindNothing, StopFailed, Return, Goto
    <3> QED BY <1>3, <2>1, <2>2, <3>1, UndecidedView, HeldSame
  <2>3. CASE op[o].verb = "swap"
    <3>1. pc'[o] = "release" /\ Within(o)
      BY <1>0, <1>5, <1>a, <2>3 DEF FindNothing, StopFailed, Finish, Goto
    <3>2. Held(p) = op[o].prev
      BY <1>0, <2>1, <2>3 DEF SettledAt, Held
    <3>3. Held(p)' = Held(p)
      BY <2>1, HeldSame
    <3> QED BY <2>1, <2>3, <3>1, <3>2, <3>3 DEF View, Deciding, InFlight, Within
  <2> QED BY <2>1, <2>2, <2>3
<1>6. CASE Terminate(o)
  <2>1. /\ pc[o] = "term" /\ pc'[o] = "unclaim" /\ lock' = lock /\ op' = op
        /\ proc' = [proc EXCEPT ![op[o].pid] = None]
        /\ op[o].verb \in {"stop", "swap"} /\ op[o].pid \in Pids
    BY <1>0, <1>6 DEF Terminate, Goto, files, FrameOK
  <2>2. CASE op[o].verb = "stop"
    <3>1. ~Deciding(o, p) /\ ~Deciding(o, p)'
      BY <1>3, <2>1, <2>2 DEF Within
    <3>2. PidAlive(op[o].pid) /\ ReadLock(p) # None
      BY <1>0, <2>1 DEF SettledAt, Point, PortAt
    <3>3. op[o].pid \in ServersOn(p)
      BY <2>1, <3>2 DEF Shape, PidsOK, PidOK, PidAlive, ServersOn
    <3>4. Covered(p)
      BY <2>1, <3>2, ClaimCovers DEF Serial
    <3>5. lock[p].pid = op[o].pid /\ lock[p] \in Claim
      BY <1>0, <3>2, <3>3, <3>4 DEF Covered, ClaimOf, ReadLock
    <3>6. Held(p) \in Models
      BY <3>2, <3>5 DEF Held, ClaimedAlive, Claim
    <3>7. Held(p)' = None
      BY <1>0, <2>1, <3>5 DEF Held, ClaimedAlive, PidAlive
    <3>8. Within(o)
      BY <1>a, <2>1
    <3> QED BY <2>2, <3>1, <3>6, <3>7, <3>8, ConstantsAssumption DEF View, Emptied
  <2> QED BY <1>2, <2>1, <2>2
<1>7. ~TerminateMissed(o) /\ ~TerminateDenied(o)
    BY DEF TerminateMissed, TerminateDenied, SettledAt
<1>8. CASE Unclaim(o)
  <2>1. /\ pc[o] = "unclaim" /\ lock'[p] = None /\ op[o].verb \in {"stop", "swap"}
        /\ pc'[o] = IF op[o].verb = "stop" THEN "idle" ELSE "launch"
    BY <1>0, <1>8 DEF Unclaim, Return, Goto, RemoveLock, FrameOK
  <2>2. Held(p) = None /\ Held(p)' = None
    BY <1>0, <2>1, HeldEmpty, NothingHeld DEF Point, PortAt
  <2> QED BY <1>2, <1>3, <2>1, <2>2, UndecidedView
<1> QED BY <1>1, <1>4, <1>5, <1>6, <1>7, <1>8 DEF StopStep

\* the rest of the swap,
LEMMA SwapView ==
    ASSUME Shape, NEW o \in Workers, SettledAt(o), SwapStep(o),
           NEW p \in Ports, p = op[o].port
    PROVE  View(o, p)' = View(o, p)
<1>0. op \in [Workers -> Frame] /\ pc \in [Workers -> Labels] /\ FrameOK(o)
    BY DEF Shape, TypeOK, FramesOK
<1>1. CASE SwapTake(o)
  <2>1. /\ pc[o] = "take" /\ op[o].verb = "swap" /\ pc'[o] = "find"
        /\ UNCHANGED <<lock, proc, op>>
    BY <1>0, <1>1 DEF SwapTake, Goto
  <2>2. Held(p) = op[o].prev
    BY <2>1 DEF SettledAt, Held
  <2> QED BY <2>1, <2>2 DEF View, Deciding, InFlight
<1>2. CASE SwapCancelled(o)
  <2>1. pc[o] = "launch" /\ pc'[o] = "launch" /\ Within(o)
    BY <1>2, StepFrame DEF SwapCancelled, Step
  <2>2. Deciding(o, p) /\ Deciding(o, p)'
    BY <2>1 DEF Deciding, InFlight, Within
  <2> QED BY <2>1, <2>2, DecidingView
<1>3. CASE SwapSame(o) \/ SwapInProgress(o) \/ SwapReclaim(o) \/ SwapTakeRaises(o)
  <2>1. /\ pc[o] \in {"take", "same", "reclaim"} /\ UNCHANGED <<lock, proc>>
        /\ pc'[o] \in {"release", "reclaim", "idle"}
    BY <1>0, <1>3 DEF SwapSame, SwapInProgress, SwapReclaim, SwapTakeRaises,
       Finish, Return, Goto, files
  <2>2. ~Deciding(o, p) /\ ~Deciding(o, p)'
    BY <2>1 DEF Deciding, InFlight
  <2> QED BY <2>1, <2>2, UndecidedView, HeldSame
<1> QED BY <1>1, <1>2, <1>3 DEF SwapStep

\* and the sweep, which removes nothing that is alive.
LEMMA UpkeepView ==
    ASSUME Shape, Serial, NEW o \in Workers, UpkeepStep(o), NEW p \in Ports
    PROVE  View(o, p)' = View(o, p)
<1>0. /\ pc \in [Workers -> Labels] /\ Point(o)
      /\ lock \in [Ports -> Claim \cup {None, Torn}]
    BY DEF Shape, TypeOK, Serial
<1>1. /\ pc[o] \in {"scan", "drop", "write"} /\ pc'[o] \in {"scan", "drop", "idle"}
      /\ proc' = proc
    BY <1>0 DEF UpkeepStep, ScanStale, ScanLive, ScanDone, DeleteDrop, CancelWrite,
       Return, Goto
<1>2. lock'[p] = lock[p] \/ (lock'[p] = None /\ ~ClaimedAlive(p))
    BY <1>0 DEF UpkeepStep, ScanStale, ScanLive, ScanDone, DeleteDrop, CancelWrite,
       files, RemoveLock, Point, ListingAt, ClaimedAlive, PidAlive
<1>3. ~Deciding(o, p) /\ ~Deciding(o, p)'
    BY <1>1 DEF Deciding, InFlight
<1> QED BY <1>1, <1>2, <1>3, UndecidedView, HeldSame

\* A step of the operator's verb fills, replaces or empties its own port, or
\* leaves every port as its caller sees it.
LEMMA StepView ==
    ASSUME Shape, Serial, ClaimMatchesProcess, NEW o \in Workers, Undisturbed(o),
           Settled, Displacing, Step(o), Env \cap {"denied", "disk"} = {}
    PROVE  /\ \A r \in Ports \ {op[o].port} : View(o, r)' = View(o, r)
           /\ \A p \in Ports : p = op[o].port =>
                View(o, p)' = View(o, p) \/ Started(o, p) \/ Swapped(o, p) \/ Emptied(o, p)
<1>0. AskedAt(o) /\ SettledAt(o) /\ NoStrangers
    BY DEF Displacing, Settled
<1>1. ASSUME NEW r \in Ports \ {op[o].port} PROVE View(o, r)' = View(o, r)
  <2>1. Held(r)' = Held(r)
    BY <1>0, HeldElsewhere
  <2>2. op'[o].port = op[o].port \/ pc'[o] = "idle"
    BY StepFrame DEF Within
  <2>3. ~Deciding(o, r) /\ ~Deciding(o, r)'
    BY <2>2 DEF Deciding, InFlight
  <2> QED BY <2>1, <2>3, UndecidedView
<1>2. ASSUME NEW p \in Ports, p = op[o].port
      PROVE  View(o, p)' = View(o, p) \/ Started(o, p) \/ Swapped(o, p) \/ Emptied(o, p)
    BY <1>0, <1>2, LaunchView, StartView, StopView, SwapView, UpkeepView DEF Step
<1> QED BY <1>1, <1>2

\* What a port serves is what the operator sees: nobody else is deciding.
LEMMA ServedIsSeen ==
    ASSUME NEW o \in Workers
    PROVE  Undisturbed(o) => Served = [p \in Ports |-> View(o, p)]
<1> SUFFICES ASSUME Undisturbed(o), NEW p \in Ports
             PROVE  (IF \E w \in Workers : Deciding(w, p)
                     THEN op[CHOOSE w \in Workers : Deciding(w, p)].prev
                     ELSE IF ReadLock(p) # None /\ PidAlive(lock[p].pid)
                          THEN lock[p].model ELSE None) = View(o, p)
    BY DEF Served
<1>1. \A w \in Workers \ {o} : ~Deciding(w, p)
    BY DEF Undisturbed, Deciding, InFlight
<1>2. CASE Deciding(o, p)
  <2>1. (CHOOSE w \in Workers : Deciding(w, p)) = o
    BY <1>1, <1>2
  <2> QED BY <1>2, <2>1 DEF View
<1>3. CASE ~Deciding(o, p)
    BY <1>1, <1>3 DEF View, Held, ClaimedAlive
<1> QED BY <1>2, <1>3

\* The same after a step.
LEMMA ServedIsSeenNext ==
    ASSUME NEW o \in Workers
    PROVE  Undisturbed(o)' => Served' = [p \in Ports |-> View(o, p)']
<1> SUFFICES ASSUME Undisturbed(o)', NEW p \in Ports
             PROVE  (IF \E w \in Workers : Deciding(w, p)'
                     THEN op'[CHOOSE w \in Workers : Deciding(w, p)'].prev
                     ELSE IF ReadLock(p)' # None /\ PidAlive(lock[p].pid)'
                          THEN lock'[p].model ELSE None) = View(o, p)'
    BY DEF Served
<1>1. \A w \in Workers \ {o} : ~Deciding(w, p)'
    BY DEF Undisturbed, Deciding, InFlight
<1>2. CASE Deciding(o, p)'
  <2>1. (CHOOSE w \in Workers : Deciding(w, p)') = o
    BY <1>1, <1>2
  <2> QED BY <1>2, <2>1 DEF View
<1>3. CASE ~Deciding(o, p)'
    BY <1>1, <1>3 DEF View, Held, ClaimedAlive
<1> QED BY <1>2, <1>3

\* Nothing changes for the caller of a verb that stands still.
LEMMA ViewStands ==
    ASSUME Shape, NEW o \in Workers, pc'[o] = pc[o], op'[o] = op[o], lock' = lock,
           \A q \in Pids : proc'[q] = None <=> proc[q] = None, NEW p \in Ports
    PROVE  View(o, p)' = View(o, p)
<1>1. Held(p)' = Held(p)
    BY HeldSame
<1>2. Deciding(o, p)' <=> Deciding(o, p)
    BY DEF Deciding, InFlight
<1> QED BY <1>1, <1>2 DEF View

asks == [w \in Workers |-> Asked(w)]

\* Only w's call may begin or end with a step of w.
LEMMA AskedAlone ==
    ASSUME NEW w \in Workers, Alone(w)
    PROVE  asks' = [asks EXCEPT ![w] = Asked(w)']
BY DEF asks, Alone, Asked

\* A verb in progress is asked for.
LEMMA AskedInProgress ==
    ASSUME Shape, NEW w \in Workers, pc[w] # "idle"
    PROVE  /\ Asked(w) # None
           /\ Asked(w).verb = op[w].verb /\ Asked(w).port = op[w].port
           /\ Asked(w).model = op[w].model
<1>1. op[w] \in Frame
    BY DEF Shape, TypeOK
<1>2. Asked(w) = [verb |-> op[w].verb, port |-> op[w].port, model |-> op[w].model]
    BY DEF Asked
<1>3. Asked(w) \in [verb : Verbs \cup {"none"}, port : Ports \cup {None},
                    model : Models \cup {None}]
    BY <1>1, <1>2 DEF Frame
<1> QED BY <1>2, <1>3, AsksAssumption

\* A call is asked,
LEMMA CallAsks ==
    ASSUME Shape, NEW w \in Workers, Call(w), Served' = Served
    PROVE  Service!Ask(w) \/ UNCHANGED <<Served, asks>>
<1>0. Alone(w) /\ pc[w] = "idle"
    BY StepAlone, CallFrame
<1>1. asks' = [asks EXCEPT ![w] = Asked(w)'] /\ asks[w] = None
    BY <1>0, AskedAlone DEF asks, Asked
<1>2. CASE UNCHANGED <<pc, op>>
    BY <1>2 DEF asks, Asked
<1>3. CASE pc'[w] # "idle"
  <2>1. Asked(w)' = [verb |-> op'[w].verb, port |-> op'[w].port, model |-> op'[w].model]
    BY <1>3 DEF Asked
  <2>2. Asked(w)' \in Service!Call
    BY <1>0, <1>3, <2>1, CallFrame DEF Service!Call
  <2> QED BY <1>1, <2>2 DEF Service!Ask, asks
<1> QED BY <1>2, <1>3, CallFrame

\* and answered when its verb returns.
LEMMA ReturnAnswers ==
    ASSUME Shape, NEW w \in Workers, Step(w), pc'[w] = "idle", Served' = Served
    PROVE  Service!Answer(w)
<1>1. Alone(w) /\ pc[w] # "idle"
    BY StepAlone, StepNotIdle
<1>2. asks' = [asks EXCEPT ![w] = Asked(w)'] /\ asks[w] # None
    BY <1>1, AskedAlone, AskedInProgress DEF asks
<1>3. Asked(w)' = None
    BY DEF Asked
<1> QED BY <1>2, <1>3 DEF Service!Answer, asks

\* In between, a step of the operator is the verb's effect, or none.
LEMMA StepServes ==
    ASSUME Shape, Serial, ClaimMatchesProcess, NEW o \in Workers, Undisturbed(o),
           Undisturbed(o)', Settled, Displacing, Step(o), Env \cap {"denied", "disk"} = {}
    PROVE  Service!Next \/ UNCHANGED <<Served, asks>>
<1>0. /\ Served = [p \in Ports |-> View(o, p)]
      /\ Served' = [p \in Ports |-> View(o, p)']
      /\ Alone(o)
    BY ServedIsSeen, ServedIsSeenNext, StepAlone
<1>1. CASE ~Within(o)
  <2>1. Served' = Served
    BY <1>0, <1>1, StepView DEF Started, Swapped, Emptied
  <2>2. pc'[o] = "idle"
    BY <1>1, StepFrame
  <2> QED BY <2>1, <2>2, ReturnAnswers DEF Service!Next
<1>2. CASE Within(o)
  <2>1. asks' = asks
    <3>1. Asked(o)' = Asked(o)
      BY <1>2 DEF Within, Asked
    <3> QED BY <1>0, <3>1, AskedAlone DEF asks
  <2>2. /\ asks[o] # None /\ asks[o].verb = op[o].verb
        /\ asks[o].port = op[o].port /\ asks[o].model = op[o].model
    BY <1>2, AskedInProgress DEF Within, asks
  <2>3. CASE \A p \in Ports : View(o, p)' = View(o, p)
    BY <1>0, <2>1, <2>3
  <2>4. ASSUME NEW p \in Ports, p = op[o].port,
               Started(o, p) \/ Swapped(o, p) \/ Emptied(o, p)
        PROVE  Service!Next
    <3>1. Served' = [Served EXCEPT ![p] = View(o, p)'] /\ Served[p] = View(o, p)
      BY <1>0, <2>4, StepView
    <3>2. CASE Started(o, p)
      <4>1. Service!Fill(o, p)
        BY <2>1, <2>2, <2>4, <3>1, <3>2 DEF Started, Service!Fill, Service!Waits, asks
      <4> QED BY <4>1 DEF Service!Next
    <3>3. CASE Swapped(o, p)
      <4>1. Service!Replace(o, p)
        BY <2>1, <2>2, <2>4, <3>1, <3>3 DEF Swapped, Service!Replace, Service!Waits, asks
      <4> QED BY <4>1 DEF Service!Next
    <3>4. CASE Emptied(o, p)
      <4>1. Service!Vacate(o, p)
        BY <2>1, <2>2, <2>4, <3>1, <3>4 DEF Emptied, Service!Vacate, Service!Waits, asks
      <4> QED BY <4>1 DEF Service!Next
    <3> QED BY <2>4, <3>2, <3>3, <3>4
  <2> QED BY <2>3, <2>4, StepView
<1> QED BY <1>1, <1>2

\* Every step of the node is a step of the service, or none.
LEMMA ServiceStep ==
    ASSUME NEW o \in Workers, OneOperator(o),
           Env \cap {"denied", "disk", "exit", "reuse"} = {}
    PROVE  Shape /\ ClaimMatchesProcess /\ Undisturbed(o) /\ Serial /\ Settled
           /\ Displacing /\ [Next]_vars => [Service!Next]_<<Served, asks>>
<1> SUFFICES ASSUME Shape, ClaimMatchesProcess, Undisturbed(o), Serial, Settled,
                    Displacing, Next \/ UNCHANGED vars
             PROVE  Service!Next \/ UNCHANGED <<Served, asks>>
    OBVIOUS
<1>0. /\ Undisturbed(o)'
      /\ Served = [p \in Ports |-> View(o, p)]
      /\ Served' = [p \in Ports |-> View(o, p)']
    BY OperatorNext, ServedIsSeen, ServedIsSeenNext
<1>1. CASE Call(o)
  <2>1. ASSUME NEW p \in Ports PROVE View(o, p)' = View(o, p)
    <3>1. Held(p)' = Held(p)
      BY <1>1, CallFrame, HeldSame
    <3>2. ~Deciding(o, p) /\ ~Deciding(o, p)'
      BY <1>1, CallFrame DEF Deciding, InFlight
    <3> QED BY <3>1, <3>2, UndecidedView
  <2>2. Served' = Served
    BY <1>0, <2>1
  <2> QED BY <1>1, <2>2, CallAsks DEF Service!Next
<1>2. CASE Step(o)
    BY <1>0, <1>2, StepServes
<1>3. ASSUME NEW v \in Workers \ {o},
             CancelWrite(v) \/ \E p \in Ports : CancelEnter(v, p)
      PROVE  Service!Next \/ UNCHANGED <<Served, asks>>
  <2>1. Call(v) \/ (Step(v) /\ CancelWrite(v))
    BY <1>3 DEF Call, UpkeepCall, Step, UpkeepStep
  <2>2. UNCHANGED <<lock, proc>> /\ pc'[o] = pc[o] /\ op'[o] = op[o]
    BY <1>3, <2>1, StepAlone DEF CancelWrite, CancelEnter, Alone, files
  <2>3. Served' = Served
    BY <1>0, <2>2, ViewStands
  <2>4. CASE Call(v)
    BY <2>3, <2>4, CallAsks DEF Service!Next
  <2>5. CASE Step(v) /\ CancelWrite(v)
    <3>1. pc'[v] = "idle"
      BY <2>5 DEF CancelWrite, Return, Goto, Shape, TypeOK
    <3> QED BY <2>3, <2>5, <3>1, ReturnAnswers DEF Service!Next
  <2> QED BY <2>1, <2>4, <2>5
<1>4. CASE Environment \/ UNCHANGED vars
  <2>1. SameProcesses /\ UNCHANGED <<lock, pc, op>>
    BY <1>4, EnvironmentAlive, EnvironmentQuiet DEF vars
  <2>2. Served' = Served
    BY <1>0, <2>1, ViewStands DEF SameProcesses
  <2> QED BY <2>1, <2>2 DEF asks, Asked
<1> QED BY <1>1, <1>2, <1>3, <1>4, OperatorNext

\* At first no port serves and nobody asks.
LEMMA InitServes == Init => Displacing /\ Service!Init
<1> SUFFICES ASSUME Init PROVE Displacing /\ Service!Init
    OBVIOUS
<1>1. Displacing
    BY DEF Init, Displacing, AskedAt, NoFrame
<1>2. Served = [p \in Ports |-> None]
    BY DEF Init, Served, Deciding, InFlight, ReadLock
<1>3. [w \in Workers |-> Asked(w)] = [w \in Workers |-> None]
    BY DEF Init, Asked
<1> QED BY <1>1, <1>2, <1>3 DEF Service!Init

\* With one operator, any number of cancels, and servers that do not exit by
\* themselves, the verbs implement the port service: each start, swap and stop
\* takes effect on its port in one step of its call, or has none.
THEOREM OneOperatorIsServed ==
    ASSUME NEW o \in Workers, OneOperator(o),
           Env \cap {"denied", "disk", "exit", "reuse"} = {}
    PROVE  Spec => ImplementsService
<1>1. Init => Shape /\ ClaimMatchesProcess /\ Undisturbed(o) /\ Serial /\ Settled
              /\ Displacing /\ Service!Init
    BY InitShape, InitUndisturbed, InitSerial, InitSettled, InitServes
       DEF Init, ClaimMatchesProcess, Servers
<1>2. Shape /\ Undisturbed(o) /\ Serial /\ [Next]_vars
      => Undisturbed(o)' /\ Serial'
    BY OperatorSerial
<1>3. Shape /\ ClaimMatchesProcess /\ Undisturbed(o) /\ Serial /\ Settled
      /\ [Next]_vars => Settled'
    BY OperatorSettled
<1>4. Shape /\ ClaimMatchesProcess /\ Undisturbed(o) /\ Serial /\ Settled
      /\ Displacing /\ [Next]_vars
      => [Service!Next]_<<Served, [w \in Workers |-> Asked(w)]>>
    BY ServiceStep DEF asks
<1> QED BY <1>1, <1>2, <1>3, <1>4, ShapeNext, ClaimsNext, DisplacingNext, PTL
        DEF Spec, ImplementsService, Service!Spec

\* The whole invariant, of one operator over servers that live.
THEOREM OneOperatorInvariant ==
    ASSUME NEW o \in Workers, OneOperator(o),
           Env \cap {"denied", "disk", "exit", "reuse", "tail"} = {}
    PROVE  Spec => []OperatorInv
<1>1. Init => IInv /\ Undisturbed(o) /\ OperatorInv
    BY InitShape, InitUndisturbed, InitSerial, InitConfigured, InitSettled, InitServes
       DEF Init, MarkersHeld, MarkerMutex, InFlight, ClaimMatchesProcess, Servers,
           IInv, OperatorInv
<1>2. IInv /\ Undisturbed(o) /\ OperatorInv /\ [Next]_vars
      => Undisturbed(o)' /\ OperatorInv'
    BY OperatorSerial, OperatorConfigured, OperatorSettled, OperatorServing,
       DisplacingNext DEF IInv, OperatorInv
<1>3. IInv /\ [Next]_vars => IInv'
    BY ShapeNext, MutexNext, ClaimsNext DEF IInv
<1> QED BY <1>1, <1>2, <1>3, PTL DEF Spec
================================================================================

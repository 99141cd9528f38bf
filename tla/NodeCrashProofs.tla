---------------------------- MODULE NodeCrashProofs ----------------------------
(* What still holds when launcher processes die at any step: the shape of    *)
(* the verbs, the truth of claims, the strangers spared, and that a marker   *)
(* left behind can be told from one that is in use.                          *)
EXTENDS NodeCrash, NodeProofs

\* What a crash leaves: files as they were or torn, and idle workers.
CrashEffect(l) ==
    /\ \A p \in Ports : lock'[p] \in {lock[p], Torn}
    /\ \A p \in Ports : mark'[p] \in {mark[p], Torn}
    /\ \A w \in Workers :
          \/ w \in WorkersOf(l) /\ pc'[w] = "idle" /\ op'[w] = NoFrame
          \/ /\ w \notin WorkersOf(l)
             /\ pc'[w] = pc[w] /\ op'[w] = op[w] /\ seen'[w] = seen[w]
    /\ up' = up \ {l}
    /\ proc' = proc

\* A crash ends the workers of one launcher and leaves the rest as it is.
LEMMA CrashEffects ==
    ASSUME Shape, NEW l \in Launchers, Crash(l)
    PROVE  TypeOK' /\ CrashEffect(l)
<1>0. TypeOK
    BY DEF Shape
<1>1. PICK T \in SUBSET TornLocks(l), S \in SUBSET TornMarks(l) :
          /\ lock' = [p \in Ports |-> IF p \in T THEN Torn ELSE lock[p]]
          /\ mark' = [p \in Ports |-> IF p \in S THEN Torn ELSE mark[p]]
    BY DEF Crash
<1>2. /\ pc' = [w \in Workers |-> IF w \in WorkersOf(l) THEN "idle" ELSE pc[w]]
      /\ op' = [w \in Workers |-> IF w \in WorkersOf(l) THEN NoFrame ELSE op[w]]
      /\ snap' = [w \in Workers |-> IF w \in WorkersOf(l) THEN NoSnap ELSE snap[w]]
      /\ seen' = [w \in Workers |-> IF w \in WorkersOf(l) THEN None ELSE seen[w]]
      /\ up' = up \ {l} /\ UNCHANGED <<store, proc, logs>>
    BY DEF Crash
<1>3. \A p \in S : mark[p] = None
    BY DEF TornMarks
<1>4. NoSnap \in [Ports -> Claim \cup {None}] /\ "idle" \in Labels
    BY DEF NoSnap, Labels
<1>5. /\ lock' \in [Ports -> Claim \cup {None, Torn}]
      /\ mark' \in [Ports -> Marker \cup {None, Torn}]
    BY <1>0, <1>1 DEF TypeOK
<1>6. /\ pc' \in [Workers -> Labels]
      /\ op' \in [Workers -> Frame]
      /\ snap' \in [Workers -> [Ports -> Claim \cup {None}]]
      /\ seen' \in [Workers -> Marker \cup {None}]
    BY <1>0, <1>2, <1>4, NoFrameOK DEF TypeOK
<1>7. TypeOK'
    BY <1>0, <1>2, <1>5, <1>6 DEF TypeOK
<1>8. CrashEffect(l)
    BY <1>1, <1>2, <1>3 DEF CrashEffect
<1> QED BY <1>7, <1>8

\* A crash keeps the survivors in shape.
LEMMA CrashShape ==
    ASSUME Shape, NEW l \in Launchers, Crash(l)
    PROVE  Shape'
<1>0. TypeOK' /\ CrashEffect(l) /\ FramesOK /\ ProcessesOK /\ PidsOK
    BY CrashEffects DEF Shape
<1>1. FramesOK'
  <2> SUFFICES ASSUME NEW w \in Workers PROVE FrameOK(w)'
      BY DEF FramesOK
  <2>1. CASE pc'[w] = "idle" /\ op'[w] = NoFrame
    BY <2>1 DEF FrameOK, NoFrame, LaunchLabels
  <2>2. CASE pc'[w] = pc[w] /\ op'[w] = op[w] /\ seen'[w] = seen[w]
    BY <1>0, <2>2 DEF FramesOK, FrameOK
  <2> QED BY <1>0, <2>1, <2>2 DEF CrashEffect
<1>2. ProcessesOK'
    BY <1>0 DEF CrashEffect, ProcessesOK, ProcessOK
<1>3. PidsOK'
  <2> SUFFICES ASSUME NEW w \in Workers PROVE PidOK(w)'
      BY DEF PidsOK
  <2>1. CASE pc'[w] = "idle" /\ op'[w] = NoFrame
    BY <2>1 DEF PidOK
  <2>2. CASE pc'[w] = pc[w] /\ op'[w] = op[w]
    BY <1>0, <2>2 DEF CrashEffect, PidsOK, PidOK, Target
  <2> QED BY <1>0, <2>1, <2>2 DEF CrashEffect
<1> QED BY <1>0, <1>1, <1>2, <1>3 DEF Shape

\* Shape survives crashes and restarts.
LEMMA CrashShapeNext == Shape /\ [CrashNext]_vars => Shape'
BY ShapeNext, CrashShape DEF CrashNext

\* Every variable keeps its type when launchers die at any step.
THEOREM CrashTypeCorrect == CrashSpec => []TypeOK
<1>1. Shape => TypeOK
    BY DEF Shape
<1> QED BY <1>1, InitShape, CrashShapeNext, PTL DEF CrashSpec

\* A claim names the port and the model its live server runs, whatever the
\* launchers that died had begun.
THEOREM CrashClaimsAreTrue == CrashSpec => []ClaimMatchesProcess
<1>1. Init => ClaimMatchesProcess
    BY DEF Init, ClaimMatchesProcess, Servers
<1>2. Shape /\ ClaimMatchesProcess /\ [CrashNext]_vars => ClaimMatchesProcess'
  <2> SUFFICES ASSUME Shape, ClaimMatchesProcess, NEW l \in Launchers, Crash(l)
               PROVE  ClaimMatchesProcess'
      BY ClaimsNext DEF CrashNext
  <2>1. NoSpawn /\ \A p \in Ports : lock'[p] \in {lock[p], None, Torn}
    BY CrashEffects DEF CrashEffect, NoSpawn
  <2> QED BY <2>1, ClaimsKept
<1> QED BY <1>1, <1>2, InitShape, CrashShapeNext, PTL DEF CrashSpec

-----------------------------------------------------------------------------
\* A start or swap in flight stays so until its "finally" removes the marker.
LEMMA StaysInFlight ==
    ASSUME Shape, NEW w \in Workers, Call(w) \/ Step(w), InFlight(w)
    PROVE  \/ Release(w)
           \/ InFlight(w)' /\ op'[w].port = op[w].port /\ mark' = mark
<1>0. /\ pc \in [Workers -> Labels] /\ op \in [Workers -> Frame] /\ FrameOK(w)
    BY DEF Shape, TypeOK, FramesOK
<1>1. ~Call(w)
    BY DEF Call, StartCall, StopCall, SwapCall, UpkeepCall, StartEnter,
       StopEnter, SwapEnter, SweepEnter, DeleteEnter, Add, CancelEnter, Idle, InFlight
<1>2. ~UpkeepStep(w)
    BY DEF UpkeepStep, ScanStale, ScanLive, ScanDone, DeleteDrop, CancelWrite, InFlight
<1>3. ASSUME NEW out, AfterFailure(w, out), mark' = mark
      PROVE  InFlight(w)' /\ op'[w].port = op[w].port /\ mark' = mark
    BY <1>0, <1>3 DEF AfterFailure, Goto, Frame, InFlight
<1>4. ASSUME NEW out, Finish(w, out), mark' = mark
      PROVE  InFlight(w)' /\ op'[w].port = op[w].port /\ mark' = mark
    BY <1>0, <1>4 DEF Finish, Goto, Frame, InFlight
<1>5. CASE LaunchStep(w)
  <2>1. CASE Spawn(w) \/ ClaimPort(w) \/ ClaimLost(w) \/ AwaitFails(w) \/ KillUnready(w)
    BY <1>0, <2>1 DEF Spawn, ClaimPort, ClaimLost, AwaitFails, KillUnready, Goto,
       files, Frame, InFlight
  <2>2. CASE SpawnFails(w) \/ RaceCleanup(w) \/ Unlock(w)
    BY <1>3, <2>2 DEF SpawnFails, RaceCleanup, Unlock, files
  <2>3. CASE ClaimRaises(w) \/ AwaitReady(w)
    BY <1>4, <2>3 DEF ClaimRaises, AwaitReady, files
  <2> QED BY <1>5, <2>1, <2>2, <2>3 DEF LaunchStep
<1>6. CASE StartStep(w)
  <2>1. StartPreflight(w) \/ StartCancelled(w)
    BY <1>6 DEF StartStep, StartClear, StartTake, StartRefused, InFlight
  <2> QED BY <1>0, <1>4, <2>1
          DEF StartPreflight, StartCancelled, Goto, files, InFlight
<1>7. CASE StopStep(w)
  <2>1. CASE Find(w) \/ Terminate(w)
    BY <1>0, <2>1 DEF Find, Terminate, Goto, files, Frame, FrameOK, InFlight
  <2>2. CASE FindNothing(w) \/ TerminateMissed(w) \/ TerminateDenied(w)
    BY <1>4, <2>2 DEF FindNothing, TerminateMissed, TerminateDenied, StopFailed, files,
       InFlight
  <2>3. CASE Unclaim(w)
    BY <1>0, <2>3 DEF Unclaim, Goto, Frame, InFlight
  <2> QED BY <1>7, <2>1, <2>2, <2>3 DEF StopStep, ClearAndReturn, InFlight
<1>8. CASE SwapStep(w)
  <2>1. SwapCancelled(w)
    BY <1>8 DEF SwapStep, SwapTake, SwapSame, SwapInProgress, SwapReclaim,
       SwapTakeRaises, InFlight
  <2> QED BY <1>0, <2>1 DEF SwapCancelled, files, Frame, InFlight
<1> QED BY <1>1, <1>2, <1>5, <1>6, <1>7, <1>8 DEF Step

\* Who is not in flight makes a marker only by taking it, or by flagging one.
LEMMA OutOfFlight ==
    ASSUME Shape, NEW w \in Workers, Call(w) \/ Step(w), ~InFlight(w)
    PROVE  \/ mark' = mark
           \/ \E p \in Ports : ReleaseMarker(p)
           \/ Takes(w)
           \/ CancelWrite(w)
<1>0. FrameOK(w)
    BY DEF Shape, FramesOK
<1>1. CASE LaunchStep(w)
    BY <1>1 DEF LaunchStep, Spawn, SpawnFails, ClaimPort, ClaimLost, ClaimRaises,
       RaceCleanup, AwaitReady, AwaitFails, KillUnready, Unlock, Release, InFlight
<1>2. CASE StartStep(w)
  <2>1. CASE StartTake(w)
    BY <2>1, StartEffect, <1>0 DEF StartTake, FrameOK, Takes, Goto, InFlight, Shape, TypeOK
  <2> QED BY <1>2, <2>1 DEF StartStep, StartClear, StartRefused, StartPreflight,
             StartCancelled, files
<1>3. CASE StopStep(w)
    BY <1>3 DEF StopStep, ClearAndReturn, Find, FindNothing, Terminate,
       TerminateMissed, TerminateDenied, Unclaim, files
<1>4. CASE SwapStep(w)
  <2>0. pc \in [Workers -> Labels] /\ op \in [Workers -> Frame]
    BY DEF Shape, TypeOK
  <2>1. CASE SwapTake(w)
    BY <1>0, <2>0, <2>1 DEF SwapTake, FrameOK, Takes, Goto, InFlight
  <2>2. CASE SwapSame(w)
    BY <1>0, <2>0, <2>2 DEF SwapSame, FrameOK, Takes, Finish, Goto, Frame, InFlight
  <2>3. CASE SwapReclaim(w)
    BY <1>0, <2>3 DEF SwapReclaim, FrameOK
  <2> QED BY <1>4, <2>1, <2>2, <2>3 DEF SwapStep, SwapInProgress, SwapTakeRaises,
             SwapCancelled, files
<1>5. CASE UpkeepStep(w)
    BY <1>5 DEF UpkeepStep, ScanStale, ScanLive, ScanDone, DeleteDrop, files
<1>6. CASE Call(w)
    BY <1>6 DEF Call, StartCall, StopCall, SwapCall, UpkeepCall, StartEnter,
       StopEnter, SwapEnter, SweepEnter, DeleteEnter, Add, CancelEnter, files
<1> QED BY <1>1, <1>2, <1>3, <1>4, <1>5, <1>6 DEF Step

\* Nobody cancels.
NobodyCancels == \A w \in Workers : pc[w] # "write"

\* Where nobody is asked for a cancel, nobody is writing one.
LEMMA NoCancelNext ==
    ASSUME \A w \in Workers : "cancel" \notin Duties[w]
    PROVE  Shape /\ NobodyCancels /\ [CrashNext]_vars => NobodyCancels'
<1> SUFFICES ASSUME Shape, NobodyCancels, CrashNext \/ UNCHANGED vars
             PROVE  NobodyCancels'
    OBVIOUS
<1>0. pc \in [Workers -> Labels]
    BY DEF Shape, TypeOK
<1>1. ASSUME NEW w \in Workers, NEW label \in Labels \ {"write"},
             Goto(w, label)
      PROVE  NobodyCancels'
    BY <1>0, <1>1 DEF Goto, NobodyCancels
<1>2. CASE pc' = pc
    BY <1>2 DEF NobodyCancels
<1>3. ASSUME NEW w \in Workers, LaunchStep(w) PROVE NobodyCancels'
    BY <1>1, <1>3 DEF LaunchStep, Spawn, SpawnFails, ClaimPort, ClaimLost,
       ClaimRaises, RaceCleanup, AwaitReady, AwaitFails, KillUnready, Unlock,
       Release, AfterFailure, Finish, Return, Labels
<1>4. ASSUME NEW w \in Workers, StartStep(w) \/ StopStep(w) PROVE NobodyCancels'
    BY <1>1, <1>4 DEF StartStep, StartClear, StartTake, StartRefused,
       StartPreflight, StartCancelled, StopStep, ClearAndReturn, Find,
       FindNothing, Terminate, TerminateMissed, TerminateDenied, Unclaim, StopFailed,
       Finish, Return, Labels
<1>5. ASSUME NEW w \in Workers, SwapStep(w) PROVE NobodyCancels'
    BY <1>1, <1>2, <1>5 DEF SwapStep, SwapTake, SwapSame, SwapInProgress,
       SwapReclaim, SwapTakeRaises, SwapCancelled, Finish, Return, Labels
<1>6. ASSUME NEW w \in Workers, UpkeepStep(w) PROVE NobodyCancels'
    BY <1>1, <1>2, <1>6 DEF UpkeepStep, ScanStale, ScanLive, ScanDone, DeleteDrop,
       CancelWrite, Return, Labels
<1>7. ASSUME NEW w \in Workers, Call(w) PROVE NobodyCancels'
    BY <1>1, <1>2, <1>7 DEF Call, StartCall, StopCall, SwapCall, UpkeepCall,
       StartEnter, StopEnter, SwapEnter, SweepEnter, DeleteEnter, Add,
       CancelEnter, Idle, Enter, local, Labels
<1>8. ASSUME NEW l \in Launchers, Crash(l) PROVE NobodyCancels'
    BY <1>8, CrashEffects DEF CrashEffect, NobodyCancels
<1> QED BY <1>2, <1>3, <1>4, <1>5, <1>6, <1>7, <1>8, EnvironmentQuiet
        DEF CrashNext, Next, Step

\* No step of a verb ends a launcher.
LEMMA NobodyDies ==
    ASSUME NEW w \in Workers, Call(w) \/ Step(w) PROVE up' = up
BY DEF Call, StartCall, StopCall, SwapCall, UpkeepCall, StartEnter,
   StopEnter, SwapEnter, SweepEnter, DeleteEnter, Add, CancelEnter, Step,
   LaunchStep, Spawn, SpawnFails, ClaimPort, ClaimLost, ClaimRaises,
   RaceCleanup, AwaitReady, AwaitFails, KillUnready, Unlock, Release,
   StartStep, StartClear, StartTake, StartRefused, StartPreflight,
   StartCancelled, StopStep, ClearAndReturn, Find, FindNothing, Terminate,
   TerminateMissed, TerminateDenied, Unclaim, SwapStep, SwapTake, SwapSame, SwapInProgress,
   SwapReclaim, SwapTakeRaises, SwapCancelled, UpkeepStep, ScanStale,
   ScanLive, ScanDone, DeleteDrop, CancelWrite

\* A marker belongs to a verb in flight or to a dead launcher.
LEMMA MarkersNext ==
    Shape /\ NobodyCancels /\ StaleMarkersHaveDeadOwners /\ [CrashNext]_vars
    => StaleMarkersHaveDeadOwners'
<1> SUFFICES ASSUME Shape, NobodyCancels, StaleMarkersHaveDeadOwners,
                    CrashNext \/ UNCHANGED vars
             PROVE  StaleMarkersHaveDeadOwners'
    OBVIOUS
<1>0. mark \in [Ports -> Marker \cup {None, Torn}]
    BY DEF Shape, TypeOK
<1>1. ASSUME NEW w \in Workers, Call(w) \/ Step(w)
      PROVE  StaleMarkersHaveDeadOwners'
  <2>0. /\ Alone(w) /\ up' = up
        /\ \A v \in Workers \ {w} : InFlight(v) => (InFlight(v)' /\ op'[v].port = op[v].port)
    <3>1. Alone(w)
      BY <1>1, StepAlone
    <3>2. up' = up
      BY <1>1, NobodyDies
    <3> QED BY <3>1, <3>2 DEF Alone, InFlight
  <2>1. CASE mark' = mark /\ (InFlight(w) => (InFlight(w)' /\ op'[w].port = op[w].port))
    BY <1>0, <2>0, <2>1 DEF StaleMarkersHaveDeadOwners, ReadMark, Marker
  <2>2. ASSUME NEW p \in Ports, ReleaseMarker(p),
               InFlight(w) => op[w].port = p
        PROVE  StaleMarkersHaveDeadOwners'
    BY <1>0, <2>0, <2>2 DEF ReleaseMarker, StaleMarkersHaveDeadOwners, ReadMark, Marker
  <2>3. CASE Takes(w) /\ ~InFlight(w)
    BY <1>0, <2>0, <2>3 DEF Takes, TakeMarker, StaleMarkersHaveDeadOwners, ReadMark, Marker
  <2>4. CASE InFlight(w)
    <3>1. op[w].port \in Ports
      BY <2>4 DEF InFlight, Shape, FramesOK, FrameOK
    <3> QED BY <1>1, <2>1, <2>2, <2>4, <3>1, StaysInFlight DEF Release
  <2>5. CASE ~InFlight(w)
    BY <1>1, <2>1, <2>2, <2>3, <2>5, OutOfFlight DEF CancelWrite, NobodyCancels
  <2> QED BY <2>4, <2>5
<1>2. CASE Environment \/ UNCHANGED vars
  <2>1. UNCHANGED <<mark, up, pc, op>>
    BY <1>2, EnvironmentQuiet
  <2> QED BY <2>1 DEF StaleMarkersHaveDeadOwners, ReadMark, InFlight
<1>3. ASSUME NEW l \in Launchers, Crash(l) PROVE StaleMarkersHaveDeadOwners'
  <2>1. CrashEffect(l)
    BY <1>3, CrashEffects
  <2>2. ASSUME NEW p \in Ports, NEW w \in Workers,
               mark'[p] # None, mark'[p] # Torn, mark'[p].owner = w
        PROVE  LauncherOf[w] \notin up' \/ (InFlight(w)' /\ op'[w].port = p)
    <3>1. LauncherOf[w] \notin up \/ (InFlight(w) /\ op[w].port = p)
      BY <2>1, <2>2 DEF CrashEffect, StaleMarkersHaveDeadOwners, ReadMark
    <3>2. CASE w \in WorkersOf(l)
      BY <2>1, <3>2 DEF CrashEffect, WorkersOf
    <3>3. CASE w \notin WorkersOf(l)
      BY <2>1, <3>1, <3>3 DEF CrashEffect, InFlight
    <3> QED BY <3>2, <3>3
  <2>3. \A p \in Ports : mark'[p] \in Marker \cup {None, Torn}
    BY <1>0, <2>1 DEF CrashEffect
  <2> QED BY <2>2, <2>3 DEF StaleMarkersHaveDeadOwners, ReadMark, Marker
<1> QED BY <1>1, <1>2, <1>3 DEF CrashNext, Next

\* A marker that is no start's or swap's in flight names a dead launcher, for
\* any number of launchers and however often they die, unless somebody
\* cancels: a cancel may write a marker back after its release.
THEOREM MarkersAreExplained ==
    ASSUME \A w \in Workers : "cancel" \notin Duties[w]
    PROVE  CrashSpec => []StaleMarkersHaveDeadOwners
<1>1. Init => NobodyCancels /\ StaleMarkersHaveDeadOwners
    BY DEF Init, NobodyCancels, StaleMarkersHaveDeadOwners, ReadMark
<1>2. Shape /\ NobodyCancels /\ [CrashNext]_vars => NobodyCancels'
    BY NoCancelNext
<1> QED BY <1>1, <1>2, InitShape, CrashShapeNext, MarkersNext, PTL DEF CrashSpec
================================================================================

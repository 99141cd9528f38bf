------------------------------- MODULE NodeProofs -------------------------------
(* The safety properties of a node, for every number of ports, models, pids  *)
(* and workers, and whatever the environment may do.  Every proof asks what  *)
(* one step of one worker does: to its marker, to the claims, to the process *)
(* table.                                                                    *)
EXTENDS NodeInv, TLAPS

(* Shape is inductive: the local variables of every verb hold what its next  *)
(* steps use.  The safety properties rest on it.                             *)

\* A step of w touches no other worker's local variables ...
Alone(w) == \A v \in Workers \ {w} :
                pc'[v] = pc[v] /\ op'[v] = op[v] /\ seen'[v] = seen[v]
\* ... and starts no process.
NoSpawn == \A q \in Pids : proc'[q] # None =>
               /\ proc[q] # None
               /\ proc'[q].port = proc[q].port
               /\ proc'[q].model = proc[q].model
               /\ proc'[q].st = proc[q].st

\* What has to be shown of a step that starts no process, for Shape.
LEMMA StepShape ==
    ASSUME Shape, NEW w \in Workers, Alone(w), NoSpawn, TypeOK',
           FrameOK(w)', PidOK(w)'
    PROVE  Shape'
<1>1. FramesOK'
    BY DEF FramesOK, FrameOK, Alone, Shape
<1>2. ProcessesOK'
    BY DEF ProcessesOK, ProcessOK, NoSpawn, Shape
<1>3. PidsOK'
  <2> SUFFICES ASSUME NEW v \in Workers, v # w PROVE PidOK(v)'
      BY DEF PidsOK
  <2>1. FrameOK(v) /\ PidOK(v)
      BY DEF Shape, FramesOK, PidsOK
  <2> QED BY <2>1 DEF FrameOK, PidOK, NoSpawn, Alone, Target
<1> QED BY <1>1, <1>2, <1>3 DEF Shape

\* Assignments to one field of a frame give a frame.
LEMMA SetOut ==
    ASSUME op \in [Workers -> Frame], NEW w \in Workers, NEW o \in Outcomes,
           op' = [op EXCEPT ![w].out = o]
    PROVE  op' \in [Workers -> Frame]
BY DEF Frame

\* ... or the pid a verb works on.
LEMMA SetPid ==
    ASSUME op \in [Workers -> Frame], NEW w \in Workers,
           NEW q \in Pids \cup {None}, op' = [op EXCEPT ![w].pid = q]
    PROVE  op' \in [Workers -> Frame]
BY DEF Frame

\* A worker without a verb has a frame, and so has one that enters a verb.
LEMMA NoFrameOK == NoFrame \in Frame
BY DEF NoFrame, Frame, Verbs, Outcomes

\* A call starts with a well-formed frame.
LEMMA EnterFrame ==
    ASSUME NEW verb \in Verbs, NEW p \in Ports \cup {None},
           NEW m \in Models \cup {None}
    PROVE  [NoFrame EXCEPT !.verb = verb, !.port = p, !.model = m] \in Frame
BY DEF NoFrame, Frame, Verbs, Outcomes

\* The operations on the files keep them well-formed.
LEMMA TakeMarkerTyped ==
    ASSUME TypeOK, NEW w \in Workers, NEW p \in Ports, TakeMarker(w, p)
    PROVE  mark' \in [Ports -> Marker \cup {None, Torn}]
BY DEF TypeOK, TakeMarker, Marker

\* ... also after one is removed.
LEMMA ReleaseMarkerTyped ==
    ASSUME TypeOK, NEW p \in Ports, ReleaseMarker(p)
    PROVE  mark' \in [Ports -> Marker \cup {None, Torn}]
BY DEF TypeOK, ReleaseMarker

\* The same for the lockfiles.
LEMMA RemoveLockTyped ==
    ASSUME TypeOK, NEW p \in Ports, RemoveLock(p)
    PROVE  lock' \in [Ports -> Claim \cup {None, Torn}]
BY DEF TypeOK, RemoveLock

\* A claim that can be read is a claim.
LEMMA ReadLockTyped ==
    ASSUME TypeOK, NEW p \in Ports, ReadLock(p) # None
    PROVE  lock[p] \in Claim /\ ReadLock(p) = lock[p]
BY DEF TypeOK, ReadLock

\* A failed launch has an outcome.
LEMMA FailureOutcomes ==
    ASSUME NEW w, NEW c \in BOOLEAN PROVE FailureOutcome(w, c) \in Outcomes
BY DEF FailureOutcome, Outcomes

\* A node starts in shape.
LEMMA InitShape == Init => Shape
<1> SUFFICES ASSUME Init PROVE Shape
    OBVIOUS
<1> USE DEF Init
<1>1. TypeOK
    BY ConstantsAssumption
    DEF TypeOK, NoFrame, NoSnap, Frame, Labels, Outcomes, Verbs
<1>2. FramesOK
    BY ConstantsAssumption DEF FramesOK, FrameOK, NoFrame, LaunchLabels
<1>3. ProcessesOK
    BY DEF ProcessesOK, ProcessOK
<1>4. PidsOK
    BY DEF PidsOK, PidOK
<1> QED BY <1>1, <1>2, <1>3, <1>4 DEF Shape

\* Shape is kept by moving on to a label that the local variables are fit for,
LEMMA GotoShape ==
    ASSUME Shape, NEW w \in Workers, NEW label \in Labels, Goto(w, label),
           op' = op, FrameOK(w)', PidOK(w)', NoSpawn,
           lock' \in [Ports -> Claim \cup {None, Torn}],
           mark' \in [Ports -> Marker \cup {None, Torn}],
           proc' \in [Pids -> Process \cup {None}],
           UNCHANGED <<logs, store, up, snap, seen>>
    PROVE  Shape'
<1>1. TypeOK' /\ Alone(w)
    BY DEF Shape, TypeOK, Goto, Alone
<1> QED BY <1>1, StepShape

\* ... by deciding what to report,
LEMMA FinishShape ==
    ASSUME Shape, NEW w \in Workers, NEW out \in Outcomes, Finish(w, out),
           op[w].port \in Ports,
           mark' \in [Ports -> Marker \cup {None, Torn}],
           UNCHANGED <<lock, proc, logs, store, up, snap, seen>>
    PROVE  Shape'
<1> USE DEF Shape
<1>1. /\ pc' = [pc EXCEPT ![w] = "release"]
      /\ op' = [op EXCEPT ![w].out = out]
      /\ pc \in [Workers -> Labels] /\ op \in [Workers -> Frame]
    BY DEF Finish, Goto, TypeOK
<1>2. TypeOK'
    BY <1>1, SetOut DEF TypeOK, Labels
<1>3. Alone(w)
    BY <1>1 DEF Alone
<1>4. FrameOK(w)' /\ PidOK(w)'
    BY <1>1 DEF FrameOK, PidOK, LaunchLabels, FramesOK
<1> QED BY <1>2, <1>3, <1>4, StepShape DEF NoSpawn

\* ... by the end of a verb,
LEMMA ReturnShape ==
    ASSUME Shape, NEW w \in Workers, Return(w),
           NoSpawn, \A v \in Workers \ {w} : seen'[v] = seen[v],
           lock' \in [Ports -> Claim \cup {None, Torn}],
           mark' \in [Ports -> Marker \cup {None, Torn}],
           proc' \in [Pids -> Process \cup {None}],
           store' \subseteq Models, 
           snap' \in [Workers -> [Ports -> Claim \cup {None}]],
           seen' \in [Workers -> Marker \cup {None}],
           UNCHANGED <<logs, up>>
    PROVE  Shape'
<1> USE DEF Shape
<1>1. /\ pc' = [pc EXCEPT ![w] = "idle"] /\ op' = [op EXCEPT ![w] = NoFrame]
      /\ pc \in [Workers -> Labels] /\ op \in [Workers -> Frame]
    BY DEF Return, Goto, TypeOK
<1>2. TypeOK'
    BY <1>1, NoFrameOK DEF TypeOK, Labels
<1>3. Alone(w)
    BY <1>1 DEF Alone
<1>4. FrameOK(w)' /\ PidOK(w)'
    BY <1>1 DEF FrameOK, PidOK, LaunchLabels, NoFrame
<1> QED BY <1>2, <1>3, <1>4, StepShape

\* ... by the beginning of a verb,
LEMMA EnterShape ==
    ASSUME Shape, NEW w \in Workers, NEW label \in Labels, NEW verb \in Verbs,
           NEW p \in Ports \cup {None}, NEW m \in Models \cup {None},
           Enter(w, label, verb, p, m),
           verb \in {"start", "swap"} => m \in Models,
           label \notin {"idle", "scan", "drop"} => p \in Ports,
           label \in {"clear", "take", "same", "find", "scan", "write"},
           label = "take" => verb = "start",
           label = "find" => verb = "stop",
           label = "write" => seen'[w] # None,
           \A v \in Workers \ {w} : seen'[v] = seen[v],
           snap' \in [Workers -> [Ports -> Claim \cup {None}]],
           seen' \in [Workers -> Marker \cup {None}],
           UNCHANGED <<lock, mark, proc, logs, store, up>>
    PROVE  Shape'
<1> DEFINE f == [NoFrame EXCEPT !.verb = verb, !.port = p, !.model = m]
<1> USE DEF Shape
<1>1. /\ pc' = [pc EXCEPT ![w] = label] /\ op' = [op EXCEPT ![w] = f]
      /\ pc \in [Workers -> Labels] /\ op \in [Workers -> Frame]
    BY DEF Enter, Goto, TypeOK
<1>2. f \in Frame
    BY EnterFrame
<1>3. /\ f.verb = verb /\ f.port = p /\ f.model = m /\ f.stage = "new"
    BY DEF NoFrame
<1> HIDE DEF f
<1>4. TypeOK'
    BY <1>1, <1>2 DEF TypeOK
<1>5. Alone(w)
    BY <1>1 DEF Alone
<1>6. FrameOK(w)' /\ PidOK(w)'
    BY <1>1, <1>3 DEF FrameOK, PidOK, LaunchLabels
<1> QED BY <1>4, <1>5, <1>6, StepShape DEF NoSpawn

\* ... by a failed launch, which ends the verb or begins the relaunch,
LEMMA AfterFailureShape ==
    ASSUME Shape, NEW w \in Workers, pc[w] \in LaunchLabels,
           NEW out \in Outcomes, AfterFailure(w, out),
           NoSpawn, UNCHANGED seen,
           lock' \in [Ports -> Claim \cup {None, Torn}],
           proc' \in [Pids -> Process \cup {None}],
           UNCHANGED <<mark, store, logs, up, snap>>
    PROVE  Shape'
<1> USE DEF Shape
<1>1. /\ FrameOK(w) /\ pc \in [Workers -> Labels] /\ op \in [Workers -> Frame]
    BY DEF FramesOK, TypeOK
<1> DEFINE back == [op[w] EXCEPT !.stage = "back", !.out = out, !.pid = None]
           over == [op[w] EXCEPT !.out = out, !.pid = None]
<1>a. \/ /\ WatchesCancel(w)
         /\ pc' = [pc EXCEPT ![w] = "launch"] /\ op' = [op EXCEPT ![w] = back]
      \/ pc' = [pc EXCEPT ![w] = "release"] /\ op' = [op EXCEPT ![w] = over]
    BY DEF AfterFailure, Goto
<1>b. back \in Frame /\ over \in Frame
    BY <1>1 DEF Frame
<1>c. /\ back.verb = op[w].verb /\ back.port = op[w].port
      /\ back.model = op[w].model /\ back.prev = op[w].prev
      /\ over.verb = op[w].verb /\ over.port = op[w].port
      /\ over.model = op[w].model /\ over.prev = op[w].prev
      /\ over.stage = op[w].stage
    BY <1>1 DEF Frame
<1>2. pc' \in [Workers -> Labels] /\ op' \in [Workers -> Frame]
    BY <1>1, <1>a, <1>b DEF Labels
<1>3. TypeOK'
    BY <1>2 DEF TypeOK
<1>4. Alone(w)
    BY <1>1, <1>a DEF Alone
<1>5. FrameOK(w)'
  <2>1. /\ op'[w].verb = op[w].verb /\ op'[w].port = op[w].port
        /\ op'[w].model = op[w].model /\ op'[w].prev = op[w].prev
        /\ pc'[w] \in {"launch", "release"}
        /\ op'[w].stage = "back" => op[w].stage = "back" \/ op[w].verb = "swap"
    BY <1>1, <1>a, <1>c DEF WatchesCancel
  <2> QED BY <1>1, <2>1 DEF FrameOK, LaunchLabels
<1>6. PidOK(w)'
    BY <1>1, <1>a DEF PidOK
<1> QED BY <1>3, <1>4, <1>5, <1>6, StepShape

\* ... by the spawn, whose pid nobody has had in mind before,
LEMMA SpawnShape ==
    ASSUME Shape, NEW w \in Workers, Spawn(w)
    PROVE  Shape'
<1> USE DEF Shape
<1>1. PICK q \in Fresh, tail \in {FALSE} \cup {"tail" \in Env} :
          /\ proc' = [proc EXCEPT ![q] =
                        [st |-> "loading", port |-> op[w].port,
                         model |-> Target(w), kept |-> FALSE]]
          /\ logs' = IF tail THEN logs
                     ELSE logs \ {<<Target(w), op[w].port>>}
          /\ op' = [op EXCEPT ![w].pid = q]
    BY DEF Spawn
<1>2. /\ pc[w] = "launch" /\ pc' = [pc EXCEPT ![w] = "claim"]
      /\ UNCHANGED <<lock, mark, store, up, snap, seen>>
    BY DEF Spawn, Goto, files
<1>3. /\ q \in Pids /\ proc[q] = None
      /\ \A v \in Workers : op[v].pid # q
    BY DEF Fresh
<1>4. op[w].port \in Ports /\ Target(w) \in Models
    BY <1>2 DEF FramesOK, FrameOK, Target, LaunchLabels, TypeOK, Frame
<1>5. TypeOK'
  <2>1. proc' \in [Pids -> Process \cup {None}]
    BY <1>1, <1>3, <1>4 DEF TypeOK, Process
  <2>2. op' \in [Workers -> Frame]
    BY <1>1, <1>3, SetPid DEF TypeOK
  <2>3. logs' \subseteq Models \X Ports
    BY <1>1 DEF TypeOK
  <2>4. pc' \in [Workers -> Labels]
    BY <1>2 DEF TypeOK, Labels
  <2> QED BY <1>2, <2>1, <2>2, <2>3, <2>4 DEF TypeOK
<1>6. FramesOK'
    BY <1>1, <1>2, <1>3 DEF FramesOK, FrameOK, TypeOK, Frame, LaunchLabels
<1>7. ProcessesOK'
    BY <1>1, <1>3, <1>4 DEF ProcessesOK, ProcessOK, TypeOK
<1>8. PidsOK'
    BY <1>1, <1>2, <1>3 DEF PidsOK, PidOK, TypeOK, Frame, Target
<1> QED BY <1>5, <1>6, <1>7, <1>8

\* ... by the other steps of a launch,
LEMMA LaunchShape ==
    ASSUME Shape, NEW w \in Workers, LaunchStep(w), ~Spawn(w)
    PROVE  Shape'
<1> USE DEF Shape
<1>0. /\ TypeOK /\ FrameOK(w) /\ PidOK(w)
      /\ pc \in [Workers -> Labels] /\ op \in [Workers -> Frame] 
    BY DEF FramesOK, PidsOK, TypeOK
<1>1. CASE SpawnFails(w)
  <2>1. FailureOutcome(w, FALSE) \in Outcomes
    BY FailureOutcomes
  <2> QED BY <1>1, <2>1, AfterFailureShape DEF SpawnFails, TypeOK, NoSpawn, files, LaunchLabels
<1>2. CASE ClaimPort(w)
  <2> USE <1>2 DEF ClaimPort, Goto
  <2>1. op[w].pid \in Pids /\ Target(w) \in Models
    BY <1>0 DEF FrameOK, Target, LaunchLabels, Frame
  <2>2. TypeOK'
    BY <1>0, <2>1 DEF TypeOK, Claim, Labels
  <2>3. FrameOK(w)' /\ PidOK(w)'
    BY <1>0 DEF FrameOK, PidOK, LaunchLabels
  <2> QED BY <1>0, <2>2, <2>3, StepShape DEF Alone, NoSpawn
<1>3. CASE ClaimLost(w) \/ AwaitFails(w)
  <2>1. FrameOK(w)' /\ PidOK(w)'
    BY <1>0, <1>3 DEF ClaimLost, AwaitFails, Goto, files, FrameOK, PidOK, LaunchLabels
  <2> QED BY <1>0, <1>3, <2>1, GotoShape
          DEF ClaimLost, AwaitFails, files, NoSpawn, Labels, TypeOK
<1>4. CASE ClaimRaises(w)
    BY <1>0, <1>4, FinishShape
       DEF ClaimRaises, files, FrameOK, LaunchLabels, TypeOK, Outcomes
<1>5. CASE RaceCleanup(w)
  <2>1. FailureOutcome(w, FALSE) \in Outcomes
    BY FailureOutcomes
  <2>2. /\ proc' \in [Pids -> Process \cup {None}]
        /\ NoSpawn
    BY <1>0, <1>5 DEF RaceCleanup, KillOwn, TypeOK, NoSpawn
  <2> QED BY <1>5, <2>1, <2>2, AfterFailureShape DEF RaceCleanup, TypeOK, files, LaunchLabels
<1>6. CASE AwaitReady(w)
  <2> USE <1>6 DEF AwaitReady, Finish, Goto, files
  <2>1. op[w].pid \in Pids /\ proc[op[w].pid] \in Process
    BY <1>0 DEF FrameOK, PidAlive, TypeOK
  <2>2. proc' \in [Pids -> Process \cup {None}]
    BY <1>0, <2>1 DEF TypeOK, Process
  <2>3. NoSpawn
    BY <1>0, <2>1 DEF TypeOK, NoSpawn, PidAlive
  <2> DEFINE o == CASE op[w].verb = "start" -> "started"
                    [] WatchesCancel(w)     -> "swapped"
                    [] OTHER                -> op[w].out
  <2>a. o \in Outcomes
    BY <1>0 DEF Outcomes, Frame
  <2>b. op' \in [Workers -> Frame]
    BY <1>0, <2>a, SetOut
  <2>4. TypeOK'
    BY <1>0, <2>2, <2>b DEF TypeOK, Labels
  <2>5. FrameOK(w)' /\ PidOK(w)'
    BY <1>0 DEF FrameOK, PidOK, LaunchLabels
  <2> QED BY <1>0, <2>3, <2>4, <2>5, StepShape DEF Alone
<1>8. CASE KillUnready(w)
  <2>1. FailureOutcome(w, IsCancelled(op[w].port)) \in Outcomes
    BY FailureOutcomes DEF IsCancelled
  <2> USE <1>8 DEF KillUnready, KillOwn, Goto, files
  <2>2. op' \in [Workers -> Frame]
    BY <1>0, <2>1, SetOut
  <2>a. TypeOK'
    BY <1>0, <2>2 DEF TypeOK, Labels
  <2>3. FrameOK(w)' /\ PidOK(w)'
    BY <1>0 DEF FrameOK, PidOK, LaunchLabels
  <2>4. NoSpawn
    BY <1>0 DEF TypeOK, NoSpawn
  <2> QED BY <1>0, <2>a, <2>3, <2>4, StepShape DEF Alone
<1>9. CASE Unlock(w)
  <2>1. op[w].out \in Outcomes
    BY <1>0 DEF Frame
  <2>2. lock' \in [Ports -> Claim \cup {None, Torn}]
    BY <1>0, <1>9 DEF Unlock, RemoveLock, TypeOK
  <2> QED BY <1>9, <2>1, <2>2, AfterFailureShape DEF Unlock, TypeOK, NoSpawn, LaunchLabels
<1>10. CASE Release(w)
  <2>1. mark' \in [Ports -> Marker \cup {None, Torn}]
    BY <1>0, <1>10, ReleaseMarkerTyped DEF Release, FrameOK
  <2> QED BY <1>0, <1>10, <2>1, ReturnShape DEF Release, NoSpawn, TypeOK
<1> QED BY <1>1, <1>2, <1>3, <1>4, <1>5, <1>6, <1>8, <1>9, <1>10 DEF LaunchStep

\* ... by the steps of a start before its launch,
LEMMA StartShape ==
    ASSUME Shape, NEW w \in Workers, StartStep(w)
    PROVE  Shape'
<1>0. /\ TypeOK /\ FrameOK(w) /\ PidOK(w)
      /\ pc \in [Workers -> Labels] /\ op \in [Workers -> Frame]
    BY DEF Shape, FramesOK, PidsOK, TypeOK
<1>1. CASE StartClear(w)
  <2>1. FrameOK(w)' /\ PidOK(w)'
    BY <1>0, <1>1 DEF StartClear, Goto, FrameOK, PidOK, LaunchLabels
  <2>2. lock' \in [Ports -> Claim \cup {None, Torn}]
    BY <1>0, <1>1, RemoveLockTyped DEF StartClear, FrameOK
  <2> QED BY <1>0, <1>1, <2>1, <2>2, GotoShape DEF StartClear, NoSpawn, Labels, TypeOK
<1>2. CASE StartTake(w)
  <2>1. FrameOK(w)' /\ PidOK(w)'
    BY <1>0, <1>2 DEF StartTake, Goto, FrameOK, PidOK, LaunchLabels
  <2>2. mark' \in [Ports -> Marker \cup {None, Torn}]
    BY <1>0, <1>2, TakeMarkerTyped DEF StartTake, FrameOK
  <2> QED BY <1>0, <1>2, <2>1, <2>2, GotoShape DEF StartTake, NoSpawn, Labels, TypeOK
<1>3. CASE StartRefused(w)
    BY <1>0, <1>3, ReturnShape DEF StartRefused, files, NoSpawn, TypeOK
<1>4. CASE StartPreflight(w)
  <2>1. CASE Goto(w, "launch") /\ op' = op
    <3>1. FrameOK(w)' /\ PidOK(w)'
      BY <1>0, <1>4, <2>1 DEF StartPreflight, Goto, FrameOK, PidOK, LaunchLabels
    <3> QED BY <1>0, <1>4, <2>1, <3>1, GotoShape DEF StartPreflight, files, NoSpawn, Labels, TypeOK
  <2>2. ASSUME NEW out \in Outcomes, Finish(w, out) PROVE Shape'
    BY <1>0, <1>4, <2>2, FinishShape DEF StartPreflight, files, FrameOK, TypeOK
  <2> QED BY <1>4, <2>1, <2>2 DEF StartPreflight, Outcomes
<1>5. CASE StartCancelled(w)
    BY <1>0, <1>5, FinishShape DEF StartCancelled, files, FrameOK, TypeOK, Outcomes
<1> QED BY <1>1, <1>2, <1>3, <1>4, <1>5 DEF StartStep

\* ... by a stop that found nothing,
LEMMA StopFailedShape ==
    ASSUME Shape, NEW w \in Workers, NEW out \in Outcomes,
           StopFailed(w, out), op[w].port \in Ports,
           UNCHANGED <<lock, mark, proc, logs, store, up, snap, seen>>
    PROVE  Shape'
<1>1. TypeOK
    BY DEF Shape
<1>2. CASE Return(w)
    BY <1>1, <1>2, ReturnShape DEF TypeOK, NoSpawn
<1>3. CASE Finish(w, out)
    BY <1>1, <1>3, FinishShape DEF TypeOK
<1> QED BY <1>2, <1>3 DEF StopFailed

\* ... by the steps that stop a server,
LEMMA StopShape ==
    ASSUME Shape, NEW w \in Workers, StopStep(w)
    PROVE  Shape'
<1>0. /\ TypeOK /\ FrameOK(w) /\ PidOK(w)
      /\ pc \in [Workers -> Labels] /\ op \in [Workers -> Frame]
    BY DEF Shape, FramesOK, PidsOK, TypeOK
<1>1. CASE ClearAndReturn(w)
  <2>1. lock' \in [Ports -> Claim \cup {None, Torn}]
    BY <1>0, <1>1, RemoveLockTyped DEF ClearAndReturn, FrameOK
  <2> QED BY <1>0, <1>1, <2>1, ReturnShape DEF ClearAndReturn, NoSpawn, TypeOK
<1>2. CASE Find(w)
  <2>1. PICK q \in ServersOn(op[w].port) : op' = [op EXCEPT ![w].pid = q]
    BY <1>2 DEF Find
  <2>2. /\ q \in Pids /\ proc[q] # None /\ proc[q].port = op[w].port
        /\ pc' = [pc EXCEPT ![w] = "term"] /\ pc[w] = "find"
        /\ UNCHANGED <<lock, mark, proc, logs, store, up, snap, seen>>
    BY <1>2, <2>1 DEF Find, ServersOn, Goto, files
  <2>3. TypeOK'
    BY <1>0, <2>1, <2>2, SetPid DEF TypeOK, Labels
  <2>4. FrameOK(w)' /\ PidOK(w)' /\ Alone(w)
    BY <1>0, <2>1, <2>2 DEF FrameOK, PidOK, LaunchLabels, Alone, Frame
  <2> QED BY <2>2, <2>3, <2>4, StepShape DEF NoSpawn
<1>3. CASE FindNothing(w)
    BY <1>0, <1>3, StopFailedShape DEF FindNothing, files, FrameOK, Outcomes
<1>4. CASE Terminate(w)
  <2>1. /\ proc' \in [Pids -> Process \cup {None}]
        /\ NoSpawn
    BY <1>0, <1>4 DEF Terminate, TypeOK, NoSpawn
  <2>2. FrameOK(w)' /\ PidOK(w)'
    BY <1>0, <1>4 DEF Terminate, Goto, files, FrameOK, PidOK, LaunchLabels
  <2> QED BY <1>0, <1>4, <2>1, <2>2, GotoShape DEF Terminate, files, Labels, TypeOK
<1>5. CASE TerminateMissed(w)
    BY <1>0, <1>5, StopFailedShape DEF TerminateMissed, files, FrameOK, Outcomes
<1>7. CASE TerminateDenied(w)
    BY <1>0, <1>7, StopFailedShape DEF TerminateDenied, files, FrameOK, Outcomes
<1>6. CASE Unclaim(w)
  <2>1. lock' \in [Ports -> Claim \cup {None, Torn}]
    BY <1>0, <1>6, RemoveLockTyped DEF Unclaim, FrameOK
  <2>2. CASE Return(w)
    BY <1>0, <1>6, <2>1, <2>2, ReturnShape DEF Unclaim, NoSpawn, TypeOK
  <2>3. CASE /\ op[w].verb # "stop" /\ Goto(w, "launch")
             /\ op' = [op EXCEPT ![w].pid = None]
    <3>1. op' \in [Workers -> Frame]
      BY <1>0, <2>3, SetPid
    <3>2. TypeOK'
      BY <1>0, <1>6, <2>1, <2>3, <3>1 DEF Unclaim, TypeOK, Goto, Labels
    <3>3. FrameOK(w)' /\ PidOK(w)' /\ Alone(w)
      BY <1>0, <1>6, <2>3 DEF Unclaim, Goto, FrameOK, PidOK, LaunchLabels, Alone, Frame
    <3> QED BY <1>6, <3>2, <3>3, StepShape DEF Unclaim, NoSpawn
  <2> QED BY <1>6, <2>2, <2>3 DEF Unclaim
<1> QED BY <1>1, <1>2, <1>3, <1>4, <1>5, <1>6, <1>7 DEF StopStep

\* ... by the steps of a swap around its stop and launches,
LEMMA SwapShape ==
    ASSUME Shape, NEW w \in Workers, SwapStep(w)
    PROVE  Shape'
<1>0. /\ TypeOK /\ FrameOK(w) /\ PidOK(w)
      /\ pc \in [Workers -> Labels] /\ op \in [Workers -> Frame]
    BY DEF Shape, FramesOK, PidsOK, TypeOK
<1>1. CASE SwapTake(w)
  <2>1. FrameOK(w)' /\ PidOK(w)'
    BY <1>0, <1>1 DEF SwapTake, Goto, FrameOK, PidOK, LaunchLabels
  <2>2. mark' \in [Ports -> Marker \cup {None, Torn}]
    BY <1>0, <1>1, TakeMarkerTyped DEF SwapTake, FrameOK
  <2> QED BY <1>0, <1>1, <2>1, <2>2, GotoShape DEF SwapTake, NoSpawn, Labels, TypeOK
<1>2. CASE SwapSame(w)
  <2>1. op[w].port \in Ports /\ mark' \in [Ports -> Marker \cup {None, Torn}]
    BY <1>0, <1>2, TakeMarkerTyped DEF SwapSame, FrameOK
  <2> QED BY <1>2, <2>1, FinishShape DEF SwapSame, Outcomes
<1>3. CASE SwapInProgress(w)
  <2>1. CASE Goto(w, "reclaim") /\ op' = op
    <3>1. FrameOK(w)' /\ PidOK(w)'
      BY <1>0, <1>3, <2>1 DEF SwapInProgress, Goto, FrameOK, PidOK, LaunchLabels
    <3> QED BY <1>0, <1>3, <2>1, <3>1, GotoShape DEF SwapInProgress, files, NoSpawn, Labels, TypeOK
  <2>2. CASE Return(w)
    BY <1>0, <1>3, <2>2, ReturnShape DEF SwapInProgress, files, NoSpawn, TypeOK
  <2> QED BY <1>3, <2>1, <2>2 DEF SwapInProgress
<1>4. CASE SwapReclaim(w)
  <2>1. mark' \in [Ports -> Marker \cup {None, Torn}]
    BY <1>0, <1>4, ReleaseMarkerTyped DEF SwapReclaim, FrameOK
  <2> QED BY <1>0, <1>4, <2>1, ReturnShape DEF SwapReclaim, NoSpawn, TypeOK
<1>5. CASE SwapTakeRaises(w)
    BY <1>0, <1>5, ReturnShape DEF SwapTakeRaises, files, NoSpawn, TypeOK
<1>6. CASE SwapCancelled(w)
  <2> DEFINE f == [op[w] EXCEPT !.stage = "back", !.out = "cancelled"]
  <2>1. /\ op' = [op EXCEPT ![w] = f] /\ pc[w] = "launch" /\ op[w].verb = "swap"
        /\ UNCHANGED <<lock, mark, proc, logs, store, up, pc, snap, seen>>
    BY <1>6 DEF SwapCancelled, WatchesCancel, files
  <2>2. f \in Frame
    BY <1>0 DEF Frame, Outcomes
  <2>3. /\ f.verb = op[w].verb /\ f.port = op[w].port
        /\ f.model = op[w].model /\ f.prev = op[w].prev
    BY <1>0 DEF Frame
  <2> HIDE DEF f
  <2>4. TypeOK'
    BY <1>0, <2>1, <2>2 DEF TypeOK
  <2>5. FrameOK(w)' /\ PidOK(w)' /\ Alone(w)
    BY <1>0, <2>1, <2>3 DEF FrameOK, PidOK, LaunchLabels, Alone
  <2> QED BY <2>1, <2>4, <2>5, StepShape DEF NoSpawn
<1> QED BY <1>1, <1>2, <1>3, <1>4, <1>5, <1>6 DEF SwapStep

\* ... by the steps of the sweep, delete_model and request_cancel,
LEMMA UpkeepShape ==
    ASSUME Shape, NEW w \in Workers, UpkeepStep(w)
    PROVE  Shape'
<1>0. /\ TypeOK /\ FrameOK(w) /\ PidOK(w)
      /\ pc \in [Workers -> Labels] /\ op \in [Workers -> Frame]
    BY DEF Shape, FramesOK, PidsOK, TypeOK
<1>1. ASSUME NEW p \in Ports, ScanStale(w, p) PROVE Shape'
  <2>1. lock' \in [Ports -> Claim \cup {None, Torn}]
    BY <1>0, <1>1, RemoveLockTyped DEF ScanStale
  <2>2. TypeOK'
    BY <1>0, <1>1, <2>1 DEF ScanStale, TypeOK
  <2>3. FrameOK(w)' /\ PidOK(w)' /\ Alone(w)
    BY <1>0, <1>1 DEF ScanStale, FrameOK, PidOK, Alone, Target
  <2> QED BY <1>1, <2>2, <2>3, StepShape DEF ScanStale, NoSpawn
<1>2. ASSUME NEW p \in Ports, ScanLive(w, p) PROVE Shape'
  <2>1. CASE /\ snap' = [snap EXCEPT ![w][p] = None]
             /\ UNCHANGED <<pc, op>>
    <3>1. TypeOK'
      BY <1>0, <1>2, <2>1 DEF ScanLive, TypeOK, files
    <3>2. FrameOK(w)' /\ PidOK(w)' /\ Alone(w)
      BY <1>0, <1>2, <2>1 DEF ScanLive, FrameOK, PidOK, Alone, Target
    <3> QED BY <1>2, <3>1, <3>2, StepShape DEF ScanLive, NoSpawn, files
  <2>2. CASE snap' = [snap EXCEPT ![w] = NoSnap] /\ Return(w)
    <3>1. snap' \in [Workers -> [Ports -> Claim \cup {None}]]
      BY <1>0, <2>2 DEF NoSnap, TypeOK
    <3> QED BY <1>0, <1>2, <2>2, <3>1, ReturnShape DEF ScanLive, files, NoSpawn, TypeOK
  <2> QED BY <1>2, <2>1, <2>2 DEF ScanLive
<1>3. CASE ScanDone(w)
  <2>1. CASE Return(w)
    BY <1>0, <1>3, <2>1, ReturnShape DEF ScanDone, files, NoSpawn, TypeOK
  <2>2. CASE Goto(w, "drop") /\ op' = op
    <3>1. FrameOK(w)' /\ PidOK(w)'
      BY <1>0, <1>3, <2>2 DEF ScanDone, Goto, FrameOK, PidOK, LaunchLabels
    <3> QED BY <1>0, <1>3, <2>2, <3>1, GotoShape DEF ScanDone, files, NoSpawn, Labels, TypeOK
  <2> QED BY <1>3, <2>1, <2>2 DEF ScanDone
<1>4. CASE DeleteDrop(w)
    BY <1>0, <1>4, ReturnShape DEF DeleteDrop, NoSpawn, TypeOK
<1>5. CASE CancelWrite(w)
  <2>1. seen[w] \in Marker
    BY <1>0, <1>5 DEF CancelWrite, FrameOK, TypeOK
  <2>2. /\ mark' \in [Ports -> Marker \cup {None, Torn}]
        /\ seen' \in [Workers -> Marker \cup {None}]
    BY <1>0, <1>5, <2>1 DEF CancelWrite, TypeOK, Marker
  <2> QED BY <1>0, <1>5, <2>2, ReturnShape DEF CancelWrite, NoSpawn, TypeOK
<1> QED BY <1>1, <1>2, <1>3, <1>4, <1>5 DEF UpkeepStep

\* ... by every call of a verb,
LEMMA CallShape ==
    ASSUME Shape, NEW w \in Workers, Call(w)
    PROVE  Shape'
<1>0. /\ TypeOK /\ FrameOK(w) /\ PidOK(w)
      /\ pc \in [Workers -> Labels] /\ op \in [Workers -> Frame]
      /\ snap \in [Workers -> [Ports -> Claim \cup {None}]]
      /\ seen \in [Workers -> Marker \cup {None}]
    BY DEF Shape, FramesOK, PidsOK, TypeOK
<1>1. ASSUME NEW p \in Ports, NEW m \in Models, StartEnter(w, p, m) PROVE Shape'
  <2>1. PICK label \in {"take", "clear"} : Enter(w, label, "start", p, m)
    BY <1>1 DEF StartEnter
  <2> QED BY <1>0, <1>1, <2>1, EnterShape DEF StartEnter, files, Labels, Verbs
<1>2. ASSUME NEW p \in Ports, StopEnter(w, p) PROVE Shape'
  <2>1. PICK label \in {"find", "clear"} : Enter(w, label, "stop", p, None)
    BY <1>2 DEF StopEnter
  <2> QED BY <1>0, <1>2, <2>1, EnterShape DEF StopEnter, files, Labels, Verbs
<1>3. ASSUME NEW p \in Ports, NEW m \in Models, SwapEnter(w, p, m) PROVE Shape'
  <2>0. UNCHANGED <<lock, mark, proc, logs, store, up, snap, seen>>
    BY <1>3 DEF SwapEnter, files
  <2>1. ASSUME NEW label \in {"clear", "same"}, Enter(w, label, "swap", p, m)
        PROVE  Shape'
    BY <1>0, <2>0, <2>1, EnterShape DEF Labels, Verbs
  <2>2. CASE /\ Goto(w, "take") /\ lock[p].model \in store
             /\ op' = [op EXCEPT ![w] =
                        [NoFrame EXCEPT !.verb = "swap", !.port = p,
                                        !.model = m, !.prev = lock[p].model]]
    <3> DEFINE f == [NoFrame EXCEPT !.verb = "swap", !.port = p,
                                    !.model = m, !.prev = lock[p].model]
    <3>1. lock[p].model \in Models
      BY <1>0, <2>2 DEF TypeOK
    <3>2. f \in Frame
      BY <3>1 DEF NoFrame, Frame, Verbs, Outcomes
    <3>3. /\ f.verb = "swap" /\ f.port = p /\ f.model = m
          /\ f.prev \in Models /\ f.stage = "new"
      BY <3>1 DEF NoFrame
    <3>4. op' = [op EXCEPT ![w] = f] /\ pc' = [pc EXCEPT ![w] = "take"]
      BY <2>2 DEF Goto
    <3> HIDE DEF f
    <3>5. TypeOK'
      BY <1>0, <2>0, <3>2, <3>4 DEF TypeOK, Labels
    <3>6. FrameOK(w)' /\ PidOK(w)' /\ Alone(w)
      BY <1>0, <2>0, <3>3, <3>4 DEF FrameOK, PidOK, LaunchLabels, Alone
    <3> QED BY <2>0, <3>5, <3>6, StepShape DEF NoSpawn
  <2> QED BY <1>3, <2>1, <2>2 DEF SwapEnter
<1>4. CASE SweepEnter(w)
  <2>1. snap' \in [Workers -> [Ports -> Claim \cup {None}]]
    BY <1>0, <1>4, ReadLockTyped DEF SweepEnter, Listing
  <2> QED BY <1>0, <1>4, <2>1, EnterShape DEF SweepEnter, files, Labels, Verbs
<1>5. ASSUME NEW m \in Models, DeleteEnter(w, m) PROVE Shape'
  <2>1. snap' \in [Workers -> [Ports -> Claim \cup {None}]]
    BY <1>0, <1>5, ReadLockTyped DEF DeleteEnter
  <2> QED BY <1>0, <1>5, <2>1, EnterShape DEF DeleteEnter, files, Labels, Verbs
<1>6. ASSUME NEW m \in Models, Add(w, m) PROVE Shape'
  <2>1. TypeOK'
    BY <1>0, <1>6 DEF Add, TypeOK, local
  <2>2. FrameOK(w)' /\ PidOK(w)' /\ Alone(w)
    BY <1>0, <1>6 DEF Add, local, FrameOK, PidOK, Alone, Target
  <2> QED BY <1>6, <2>1, <2>2, StepShape DEF Add, NoSpawn
<1>7. ASSUME NEW p \in Ports, CancelEnter(w, p) PROVE Shape'
  <2>1. ReadMark(p) \in Marker
    BY <1>0, <1>7 DEF CancelEnter, ReadMark, TypeOK
  <2>2. /\ seen' \in [Workers -> Marker \cup {None}]
        /\ seen'[w] # None
    BY <1>0, <1>7, <2>1, FilesAssumption DEF CancelEnter
  <2> QED BY <1>0, <1>7, <2>2, EnterShape DEF CancelEnter, files, Labels, Verbs
<1> QED BY <1>1, <1>2, <1>3, <1>4, <1>5, <1>6, <1>7
        DEF Call, StartCall, StopCall, SwapCall, UpkeepCall

\* ... and by whatever servers and the system do.
LEMMA EnvironmentShape ==
    ASSUME Shape, Environment
    PROVE  Shape'
<1>0. /\ TypeOK /\ ProcessesOK /\ PidsOK /\ FramesOK
      /\ proc \in [Pids -> Process \cup {None}]
    BY DEF Shape, TypeOK
<1> PICK q \in Pids : Bind(q) \/ Serve(q) \/ Exit(q) \/ Reuse(q)
    BY DEF Environment
<1>1. /\ UNCHANGED <<lock, mark, store, up, pc, op, snap, seen>>
      /\ FramesOK'
    BY <1>0 DEF Bind, Serve, Exit, Reuse, files, local, FramesOK, FrameOK
<1>2. CASE Bind(q) \/ Serve(q)
  <2>1. PICK st \in {"bound", "serving"} :
           /\ proc[q] # None /\ proc[q].st # "alien"
           /\ proc' = [proc EXCEPT ![q].st = st]
           /\ logs' \in {logs, logs \cup {<<proc[q].model, proc[q].port>>}}
    BY <1>2 DEF Bind, Serve
  <2>2. proc[q] \in Process /\ proc[q].model \in Models /\ proc[q].port \in Ports
    BY <1>0, <2>1 DEF ProcessesOK, ProcessOK
  <2>3. proc' \in [Pids -> Process \cup {None}]
    BY <1>0, <2>1, <2>2 DEF Process
  <2>4. TypeOK'
    BY <1>0, <1>1, <2>1, <2>2, <2>3 DEF TypeOK
  <2>5. \A r \in Pids : proc'[r] # None =>
           /\ proc[r] # None
           /\ proc'[r].port = proc[r].port /\ proc'[r].model = proc[r].model
           /\ proc'[r].st = "alien" <=> proc[r].st = "alien"
    BY <1>0, <2>1, <2>2 DEF Process
  <2>6. ProcessesOK'
    BY <1>0, <2>5 DEF ProcessesOK, ProcessOK
  <2>7. PidsOK'
    BY <1>0, <1>1, <2>5 DEF PidsOK, PidOK, Target, FramesOK, FrameOK
  <2> QED BY <1>1, <2>4, <2>6, <2>7 DEF Shape
<1>3. CASE Exit(q)
  <2>1. proc' = [proc EXCEPT ![q] = None] /\ logs' = logs
    BY <1>3 DEF Exit
  <2>2. TypeOK'
    BY <1>0, <1>1, <2>1 DEF TypeOK
  <2>3. ProcessesOK'
    BY <1>0, <2>1 DEF ProcessesOK, ProcessOK
  <2>4. PidsOK'
    BY <1>0, <1>1, <2>1 DEF PidsOK, PidOK, Target, FramesOK, FrameOK
  <2> QED BY <1>1, <2>2, <2>3, <2>4 DEF Shape
<1>4. CASE Reuse(q)
  <2>1. /\ proc' = [proc EXCEPT ![q] = [st |-> "alien", port |-> None,
                                       model |-> None, kept |-> TRUE]]
        /\ logs' = logs /\ \A w \in Workers : op[w].pid # q
    BY <1>4 DEF Reuse
  <2>2. TypeOK'
    BY <1>0, <1>1, <2>1 DEF TypeOK, Process
  <2>3. ProcessesOK'
    BY <1>0, <2>1 DEF ProcessesOK, ProcessOK
  <2>4. PidsOK'
    BY <1>0, <1>1, <2>1 DEF PidsOK, PidOK, Target, FramesOK, FrameOK
  <2> QED BY <1>1, <2>2, <2>3, <2>4 DEF Shape
<1> QED BY <1>2, <1>3, <1>4

\* Shape is inductive.
LEMMA ShapeNext == Shape /\ [Next]_vars => Shape'
<1> SUFFICES ASSUME Shape, [Next]_vars PROVE Shape'
    OBVIOUS
<1>1. ASSUME NEW w \in Workers, Call(w) \/ Step(w) PROVE Shape'
    BY <1>1, CallShape, SpawnShape, LaunchShape, StartShape, StopShape,
       SwapShape, UpkeepShape DEF Step
<1>2. CASE UNCHANGED vars
    BY <1>2 DEF vars, Shape, TypeOK, FramesOK, FrameOK, ProcessesOK, ProcessOK,
       PidsOK, PidOK, Target
<1> QED BY <1>1, <1>2, EnvironmentShape DEF Next

\* At every point of every verb the local variables hold what its next steps
\* use, and a pid about to be signalled is nobody's or a server's of the port.
THEOREM ShapeInvariant == Spec => []Shape
BY InitShape, ShapeNext, PTL DEF Spec

\* The files, the processes and the workers' variables are well-formed.
THEOREM TypeCorrect == Spec => []TypeOK
<1>1. Shape => TypeOK
    BY DEF Shape
<1> QED BY <1>1, ShapeInvariant, PTL

-----------------------------------------------------------------------------
(* What a step does to the markers, the claims and the processes.           *)

\* What a step of w does to the markers, seen by everyone else.
Quiet(w) == mark' = mark /\ (InFlight(w)' => /\ InFlight(w)
                                             /\ op'[w].port = op[w].port)
Takes(w) == /\ op[w].port \in Ports
            /\ TakeMarker(w, op[w].port) /\ InFlight(w)'
            /\ op'[w].port = op[w].port
Leaves(w) == ReleaseMarker(op[w].port) /\ InFlight(w) /\ ~InFlight(w)'
Flags(w) == \E p \in Ports, m \in Marker :
                mark' = [mark EXCEPT ![p] = m] /\ ~InFlight(w)'
Effect(w) == /\ Alone(w) /\ up' = up
             /\ pc'[w] # "reclaim"
             /\ Quiet(w) \/ Takes(w) \/ Leaves(w) \/ Flags(w)

\* A launch keeps its marker until the "finally".
LEMMA LaunchEffect ==
    ASSUME Shape, NEW w \in Workers, LaunchStep(w)
    PROVE  Effect(w)
<1>0. /\ pc \in [Workers -> Labels] /\ op \in [Workers -> Frame] /\ FrameOK(w)
    BY DEF Shape, TypeOK, FramesOK
<1>1. CASE Release(w)
    BY <1>0, <1>1 DEF Release, Return, Goto, Effect, Alone, Leaves, InFlight
<1>2. ASSUME NEW label \in {"claim", "race", "await", "kill", "unlock",
                            "launch", "release"},
             Goto(w, label), op'[w].port = op[w].port, pc[w] \in LaunchLabels,
             \A v \in Workers \ {w} : op'[v] = op[v], UNCHANGED <<mark, up, seen>>
      PROVE  Effect(w)
    BY <1>0, <1>2 DEF Goto, Effect, Alone, Quiet, InFlight, LaunchLabels
<1>3. CASE Spawn(w)
    BY <1>0, <1>2, <1>3 DEF Spawn, files, Frame, LaunchLabels
<1>4. ASSUME NEW out, AfterFailure(w, out), pc[w] \in LaunchLabels,
             UNCHANGED <<mark, up, seen>>
      PROVE  Effect(w)
    BY <1>0, <1>2, <1>4 DEF AfterFailure, Frame
<1>5. CASE SpawnFails(w)
    BY <1>4, <1>5 DEF SpawnFails, files, LaunchLabels
<1>6. CASE ClaimPort(w) \/ ClaimLost(w) \/ AwaitFails(w)
    BY <1>2, <1>6 DEF ClaimPort, ClaimLost, AwaitFails, files, LaunchLabels
<1>7. ASSUME NEW out, Finish(w, out), pc[w] \in LaunchLabels,
             UNCHANGED <<mark, up, seen>>
      PROVE  Effect(w)
    BY <1>0, <1>2, <1>7 DEF Finish, Frame
<1>8. CASE ClaimRaises(w)
    BY <1>7, <1>8 DEF ClaimRaises, files, LaunchLabels
<1>9. CASE AwaitReady(w)
    BY <1>7, <1>9 DEF AwaitReady, files, LaunchLabels
<1>10. CASE RaceCleanup(w) \/ Unlock(w)
    BY <1>4, <1>10 DEF RaceCleanup, Unlock, files, LaunchLabels
<1>11. CASE KillUnready(w)
    BY <1>0, <1>2, <1>11 DEF KillUnready, files, Frame, LaunchLabels
<1> QED BY <1>1, <1>3, <1>5, <1>6, <1>8, <1>9, <1>10, <1>11 DEF LaunchStep

\* A start takes the marker or gives up.
LEMMA StartEffect ==
    ASSUME Shape, NEW w \in Workers, StartStep(w)
    PROVE  Effect(w)
<1>0. /\ pc \in [Workers -> Labels] /\ op \in [Workers -> Frame] /\ FrameOK(w)
    BY DEF Shape, TypeOK, FramesOK
<1>1. CASE StartClear(w)
    BY <1>0, <1>1 DEF StartClear, Goto, Effect, Alone, Quiet, InFlight
<1>2. CASE StartTake(w)
    BY <1>0, <1>2 DEF FrameOK, StartTake, Goto, Effect, Alone, Takes, InFlight
<1>3. CASE StartRefused(w)
    BY <1>0, <1>3 DEF StartRefused, Return, Goto, files, Effect, Alone, Quiet, InFlight
<1>4. CASE StartPreflight(w)
    BY <1>0, <1>4 DEF StartPreflight, Finish, Goto, files, Effect, Alone, Quiet, InFlight, Frame
<1>5. CASE StartCancelled(w)
    BY <1>0, <1>5 DEF StartCancelled, Finish, Goto, files, Effect, Alone, Quiet, InFlight, Frame
<1> QED BY <1>1, <1>2, <1>3, <1>4, <1>5 DEF StartStep

\* A stop leaves the markers alone, a swap's stop is under its marker.
LEMMA StopEffect ==
    ASSUME Shape, NEW w \in Workers, StopStep(w)
    PROVE  Effect(w)
<1>0. /\ pc \in [Workers -> Labels] /\ op \in [Workers -> Frame] /\ FrameOK(w)
    BY DEF Shape, TypeOK, FramesOK
<1>1. CASE ClearAndReturn(w)
    BY <1>0, <1>1 DEF ClearAndReturn, Return, Goto, Effect, Alone, Quiet, InFlight
<1>2. CASE Find(w)
    BY <1>0, <1>2 DEF Find, Goto, files, Effect, Alone, Quiet, InFlight, Frame
<1>3. ASSUME NEW out, StopFailed(w, out), pc[w] \in {"find", "term"}, UNCHANGED <<mark, up, seen>>
      PROVE  Effect(w)
    BY <1>0, <1>3 DEF FrameOK, StopFailed, Return, Finish, Goto, Effect, Alone, Quiet, InFlight, Frame
<1>4. CASE FindNothing(w) \/ TerminateMissed(w) \/ TerminateDenied(w)
    BY <1>3, <1>4 DEF FindNothing, TerminateMissed, TerminateDenied, files
<1>5. CASE Terminate(w)
    BY <1>0, <1>5 DEF Terminate, Goto, files, Effect, Alone, Quiet, InFlight
<1>6. CASE Unclaim(w)
    BY <1>0, <1>6 DEF FrameOK, Unclaim, Return, Goto, Effect, Alone, Quiet, InFlight, Frame
<1> QED BY <1>1, <1>2, <1>4, <1>5, <1>6 DEF StopStep

\* A swap takes the marker or gives up, and finds no stale one.
LEMMA SwapEffect ==
    ASSUME Shape, MarkersHeld, NEW w \in Workers, SwapStep(w)
    PROVE  Effect(w)
<1>0. /\ pc \in [Workers -> Labels] /\ op \in [Workers -> Frame] /\ FrameOK(w)
      /\ up = Launchers /\ pc[w] # "reclaim"
    BY DEF Shape, TypeOK, FramesOK, MarkersHeld
<1>1. CASE SwapTake(w)
    BY <1>0, <1>1 DEF FrameOK, SwapTake, Goto, Effect, Alone, Takes, InFlight
<1>2. CASE SwapSame(w)
    BY <1>0, <1>2 DEF FrameOK, SwapSame, Finish, Goto, Effect, Alone, Takes, InFlight, Frame
<1>3. CASE SwapInProgress(w)
  <2>1. ReadMark(op[w].port) # None =>
            LauncherOf[ReadMark(op[w].port).owner] \in up
    BY <1>0, <1>3, ConstantsAssumption
       DEF SwapInProgress, FrameOK, Shape, TypeOK, ReadMark, Marker
  <2>2. Return(w) /\ UNCHANGED <<mark, up, seen>>
    BY <1>3, <2>1 DEF SwapInProgress, files
  <2> QED BY <1>0, <1>3, <2>2 DEF SwapInProgress, Return, Goto, Effect, Alone, Quiet, InFlight
<1>4. CASE SwapReclaim(w)
    BY <1>0, <1>4 DEF SwapReclaim
<1>5. CASE SwapTakeRaises(w)
    BY <1>0, <1>5 DEF SwapTakeRaises, Return, Goto, files, Effect, Alone, Quiet, InFlight
<1>6. CASE SwapCancelled(w)
    BY <1>0, <1>6 DEF SwapCancelled, files, Effect, Alone, Quiet, InFlight, Frame
<1> QED BY <1>1, <1>2, <1>3, <1>4, <1>5, <1>6 DEF SwapStep

\* A cancel writes a marker and is not in flight.
LEMMA UpkeepEffect ==
    ASSUME Shape, NEW w \in Workers, UpkeepStep(w)
    PROVE  Effect(w)
<1>0. /\ pc \in [Workers -> Labels] /\ op \in [Workers -> Frame] /\ FrameOK(w)
      /\ seen \in [Workers -> Marker \cup {None}]
    BY DEF Shape, TypeOK, FramesOK
<1>1. ASSUME NEW p \in Ports, ScanStale(w, p) \/ ScanLive(w, p) PROVE Effect(w)
    BY <1>0, <1>1 DEF ScanStale, ScanLive, Return, Goto, files, Effect, Alone, Quiet, InFlight
<1>2. CASE ScanDone(w) \/ DeleteDrop(w)
    BY <1>0, <1>2 DEF ScanDone, DeleteDrop, Return, Goto, files, Effect, Alone, Quiet, InFlight
<1>3. CASE CancelWrite(w)
  <2>1. [seen[w] EXCEPT !.cancelled = TRUE] \in Marker /\ op[w].port \in Ports
    BY <1>0, <1>3 DEF CancelWrite, FrameOK, Marker
  <2> QED BY <1>0, <1>3, <2>1 DEF CancelWrite, Return, Goto, Effect, Alone, Flags, InFlight
<1> QED BY <1>1, <1>2, <1>3 DEF UpkeepStep

\* A call that begins is not in flight.
LEMMA CallEffect ==
    ASSUME Shape, NEW w \in Workers, Call(w)
    PROVE  Effect(w)
<1>0. /\ pc \in [Workers -> Labels] /\ op \in [Workers -> Frame]
      /\ seen \in [Workers -> Marker \cup {None}]
    BY DEF Shape, TypeOK
<1>1. ASSUME NEW p \in Ports, NEW m \in Models, StartEnter(w, p, m) \/ SwapEnter(w, p, m)
      PROVE Effect(w)
    BY <1>0, <1>1 DEF StartEnter, SwapEnter, Enter, Goto, files, Effect, Alone, Quiet, InFlight, NoFrame
<1>2. ASSUME NEW p \in Ports, StopEnter(w, p) \/ CancelEnter(w, p) PROVE Effect(w)
    BY <1>0, <1>2 DEF StopEnter, CancelEnter, Enter, Goto, files, Effect, Alone, Quiet, InFlight, NoFrame
<1>3. ASSUME NEW m \in Models, DeleteEnter(w, m) \/ SweepEnter(w) PROVE Effect(w)
    BY <1>0, <1>3 DEF DeleteEnter, SweepEnter, Enter, Goto, files, Effect, Alone, Quiet, InFlight
<1>4. CASE SweepEnter(w)
    BY <1>0, <1>4 DEF SweepEnter, Enter, Goto, files, Effect, Alone, Quiet, InFlight
<1>5. ASSUME NEW m \in Models, Add(w, m) PROVE Effect(w)
    BY <1>0, <1>5 DEF Add, Idle, local, Effect, Alone, Quiet, InFlight
<1> QED BY <1>1, <1>2, <1>3, <1>4, <1>5 DEF Call, StartCall, StopCall, SwapCall, UpkeepCall

\* None of these steps brings a second verb in flight.
LEMMA EffectMutex ==
    ASSUME Shape, MarkersHeld, MarkerMutex, NEW w \in Workers, Effect(w)
    PROVE  MarkersHeld' /\ MarkerMutex'
<1>0. /\ mark \in [Ports -> Marker \cup {None, Torn}] /\ FramesOK
    BY DEF Shape, TypeOK
<1>1. \A v \in Workers \ {w} : /\ pc'[v] = pc[v] /\ op'[v] = op[v]
                               /\ InFlight(v)' <=> InFlight(v)
    BY DEF Effect, Alone, InFlight
<1>2. \A v \in Workers : InFlight(v) => op[v].port \in Ports
    BY <1>0 DEF InFlight, FramesOK, FrameOK
<1>3. up' = Launchers /\ \A v \in Workers : pc'[v] # "reclaim"
    BY <1>1 DEF Effect, MarkersHeld
<1>4. CASE Quiet(w)
    BY <1>1, <1>3, <1>4 DEF Quiet, MarkersHeld, MarkerMutex
<1>5. CASE Takes(w)
  <2>1. \A v \in Workers \ {w} : InFlight(v) => op[v].port # op[w].port
    BY <1>5 DEF Takes, TakeMarker, MarkersHeld
  <2>2. \A p \in Ports : mark[p] # None => mark'[p] # None
    BY <1>0, <1>5, FilesAssumption DEF Takes, TakeMarker, Marker
  <2>3. mark'[op[w].port] # None
    <3>1. [owner |-> w, cancelled |-> FALSE] \in Marker
      BY DEF Marker
    <3>2. [owner |-> w, cancelled |-> FALSE] # None
      BY <3>1, FilesAssumption
    <3> QED BY <1>0, <1>5, <3>2 DEF Takes, TakeMarker
  <2> QED BY <1>1, <1>2, <1>3, <1>5, <2>1, <2>2, <2>3 DEF Takes, MarkersHeld, MarkerMutex
<1>6. CASE Leaves(w)
  <2>1. \A v \in Workers \ {w} : InFlight(v) => op[v].port # op[w].port
    BY <1>6 DEF Leaves, MarkerMutex
  <2> QED BY <1>0, <1>1, <1>2, <1>3, <1>6, <2>1 DEF Leaves, ReleaseMarker, MarkersHeld, MarkerMutex
<1>7. CASE Flags(w)
  <2>1. \A p \in Ports : mark[p] # None => mark'[p] # None
    BY <1>0, <1>7, FilesAssumption DEF Flags
  <2> QED BY <1>1, <1>2, <1>3, <1>7, <2>1 DEF Flags, MarkersHeld, MarkerMutex
<1> QED BY <1>4, <1>5, <1>6, <1>7 DEF Effect

\* Servers touch no file and no worker.
LEMMA EnvironmentQuiet ==
    ASSUME Environment \/ UNCHANGED vars
    PROVE  UNCHANGED <<lock, mark, store, up, pc, op, snap, seen>>
BY DEF Environment, Bind, Serve, Exit, Reuse, files, local, vars

\* The marker excludes inductively.
LEMMA MutexNext ==
    Shape /\ MarkersHeld /\ MarkerMutex /\ [Next]_vars
    => MarkersHeld' /\ MarkerMutex'
<1> SUFFICES ASSUME Shape, MarkersHeld, MarkerMutex, [Next]_vars
             PROVE  MarkersHeld' /\ MarkerMutex'
    OBVIOUS
<1>1. ASSUME NEW w \in Workers, Call(w) \/ Step(w)
      PROVE  MarkersHeld' /\ MarkerMutex'
  <2>1. Effect(w)
    BY <1>1, CallEffect, LaunchEffect, StartEffect, StopEffect, SwapEffect,
       UpkeepEffect DEF Step
  <2> QED BY <2>1, EffectMutex
<1>2. CASE Environment \/ UNCHANGED vars
  <2>1. UNCHANGED <<mark, up, pc, op>>
    BY <1>2, EnvironmentQuiet
  <2> QED BY <2>1 DEF MarkersHeld, MarkerMutex, InFlight
<1> QED BY <1>1, <1>2 DEF Next

\* At most one start or swap is in flight on a port, for any number of ports
\* and workers and any mix of verbs, cancels included, while launchers live.
THEOREM MarkerExcludes == Spec => []MarkerMutex
<1>1. Init => MarkersHeld /\ MarkerMutex
    BY DEF Init, MarkersHeld, MarkerMutex, InFlight
<1>2. Init /\ [][Next]_vars => [](MarkersHeld /\ MarkerMutex)
    BY <1>1, InitShape, ShapeInvariant, ShapeNext, MutexNext, PTL DEF Spec
<1> QED BY <1>2, PTL DEF Spec

\* What a step of w does to the process table, when it spawns nothing.
Kills(w) == /\ pc[w] \in {"race", "kill", "term"}
            /\ proc' = [proc EXCEPT ![op[w].pid] = None]
Keeps(w) == /\ pc[w] = "await" /\ op[w].pid \in Pids /\ proc[op[w].pid] # None
            /\ proc' = [proc EXCEPT ![op[w].pid].kept = TRUE]

\* A step kills the process it is about to signal, or marks its own as kept.
LEMMA ProcessEffect ==
    ASSUME Shape, NEW w \in Workers, Call(w) \/ Step(w), ~Spawn(w)
    PROVE  proc' = proc \/ Kills(w) \/ Keeps(w)
<1>0. FrameOK(w)
    BY DEF Shape, FramesOK
<1>1. CASE LaunchStep(w)
    BY <1>0, <1>1 DEF LaunchStep, SpawnFails, ClaimPort, ClaimLost, ClaimRaises,
       RaceCleanup, AwaitReady, AwaitFails, KillUnready, Unlock, Release,
       KillOwn, PidAlive, Kills, Keeps, FrameOK
<1>2. CASE StartStep(w)
    BY <1>2 DEF StartStep, StartClear, StartTake, StartRefused, StartPreflight,
       StartCancelled
<1>3. CASE StopStep(w)
    BY <1>3 DEF StopStep, ClearAndReturn, Find, FindNothing, Terminate,
       TerminateMissed, TerminateDenied, Unclaim, Kills
<1>4. CASE SwapStep(w)
    BY <1>4 DEF SwapStep, SwapTake, SwapSame, SwapInProgress, SwapReclaim,
       SwapTakeRaises, SwapCancelled
<1>5. CASE UpkeepStep(w)
    BY <1>5 DEF UpkeepStep, ScanStale, ScanLive, ScanDone, DeleteDrop, CancelWrite
<1>6. CASE Call(w)
    BY <1>6 DEF Call, StartCall, StopCall, SwapCall, UpkeepCall, StartEnter,
       StopEnter, SwapEnter, SweepEnter, DeleteEnter, Add, CancelEnter
<1> QED BY <1>1, <1>2, <1>3, <1>4, <1>5, <1>6 DEF Step

\* No claim is made or changed, some may be removed.
Unclaiming == \A p \in Ports : lock'[p] \in {lock[p], None}

\* Only ClaimPort makes a claim.
LEMMA ClaimEffect ==
    ASSUME Shape, NEW w \in Workers, Call(w) \/ Step(w), ~ClaimPort(w)
    PROVE  Unclaiming
<1>0. lock \in [Ports -> Claim \cup {None, Torn}]
    BY DEF Shape, TypeOK
<1>1. CASE lock' = lock
    BY <1>1 DEF Unclaiming
<1>2. ASSUME NEW p, RemoveLock(p) PROVE Unclaiming
    BY <1>0, <1>2 DEF RemoveLock, Unclaiming
<1>3. CASE LaunchStep(w)
    BY <1>1, <1>2, <1>3 DEF LaunchStep, Spawn, SpawnFails, ClaimLost, ClaimRaises,
       RaceCleanup, AwaitReady, AwaitFails, KillUnready, Unlock, Release, files
<1>4. CASE StartStep(w)
    BY <1>1, <1>2, <1>4 DEF StartStep, StartClear, StartTake, StartRefused,
       StartPreflight, StartCancelled, files
<1>5. CASE StopStep(w)
    BY <1>1, <1>2, <1>5 DEF StopStep, ClearAndReturn, Find, FindNothing, Terminate,
       TerminateMissed, TerminateDenied, Unclaim, files
<1>6. CASE SwapStep(w)
    BY <1>1, <1>6 DEF SwapStep, SwapTake, SwapSame, SwapInProgress, SwapReclaim,
       SwapTakeRaises, SwapCancelled, files
<1>7. CASE UpkeepStep(w)
    BY <1>1, <1>2, <1>7 DEF UpkeepStep, ScanStale, ScanLive, ScanDone, DeleteDrop,
       CancelWrite, files
<1>8. CASE Call(w)
    BY <1>1, <1>8 DEF Call, StartCall, StopCall, SwapCall, UpkeepCall, StartEnter,
       StopEnter, SwapEnter, SweepEnter, DeleteEnter, Add, CancelEnter, files
<1> QED BY <1>3, <1>4, <1>5, <1>6, <1>7, <1>8 DEF Step

\* Removing claims and processes leaves no false claim.
LEMMA ClaimsKept ==
    ASSUME Shape, ClaimMatchesProcess, NoSpawn,
           \A p \in Ports : lock'[p] \in {lock[p], None, Torn}
    PROVE  ClaimMatchesProcess'
BY DEF ClaimMatchesProcess, ClaimOf, ReadLock, Servers, NoSpawn

\* Reporting success changes nothing else about a process.
LEMMA KeepsProcesses ==
    ASSUME Shape, NEW w \in Workers, Keeps(w)
    PROVE  \A q \in Pids :
              /\ proc'[q] = None <=> proc[q] = None
              /\ proc[q] # None => /\ proc'[q].port = proc[q].port
                                  /\ proc'[q].model = proc[q].model
                                  /\ proc'[q].st = proc[q].st
                                  /\ proc'[q].kept \in {proc[q].kept, TRUE}
<1>1. proc \in [Pids -> Process \cup {None}] /\ proc[op[w].pid] \in Process
    BY DEF Shape, TypeOK, Keeps
<1>2. [proc[op[w].pid] EXCEPT !.kept = TRUE] \in Process
    BY <1>1 DEF Process
<1>3. [proc[op[w].pid] EXCEPT !.kept = TRUE] # None
    BY <1>2, FilesAssumption
<1>4. proc' = [proc EXCEPT ![op[w].pid] = [proc[op[w].pid] EXCEPT !.kept = TRUE]]
    BY DEF Keeps
<1> QED BY <1>1, <1>3, <1>4 DEF Keeps, Process

\* These steps start no process.
LEMMA NoSpawnStep ==
    ASSUME Shape, NEW w \in Workers, proc' = proc \/ Kills(w) \/ Keeps(w)
    PROVE  NoSpawn
<1>1. proc \in [Pids -> Process \cup {None}]
    BY DEF Shape, TypeOK
<1>2. CASE proc' = proc \/ Kills(w)
    BY <1>1, <1>2 DEF Kills, NoSpawn
<1>3. CASE Keeps(w)
    BY <1>3, KeepsProcesses DEF NoSpawn
<1> QED BY <1>2, <1>3

\* Claims stay true.
LEMMA ClaimsNext ==
    Shape /\ ClaimMatchesProcess /\ [Next]_vars => ClaimMatchesProcess'
<1> SUFFICES ASSUME Shape, ClaimMatchesProcess, [Next]_vars
             PROVE  ClaimMatchesProcess'
    OBVIOUS
<1>0. /\ TypeOK /\ FramesOK /\ PidsOK
      /\ proc \in [Pids -> Process \cup {None}]
    BY DEF Shape, TypeOK
<1>1. ASSUME NEW w \in Workers, Spawn(w) PROVE ClaimMatchesProcess'
  <2>1. PICK q \in Fresh :
           proc' = [proc EXCEPT ![q] =
                      [st |-> "loading", port |-> op[w].port,
                       model |-> Target(w), kept |-> FALSE]]
    BY <1>1 DEF Spawn
  <2>2. lock' = lock
    BY <1>1 DEF Spawn, files
  <2>3. q \in Pids /\ \A p \in Ports : ~ClaimOf(p, q)
    BY DEF Fresh, ClaimOf
  <2> QED BY <1>0, <2>1, <2>2, <2>3 DEF ClaimMatchesProcess, ClaimOf, ReadLock, Servers
<1>2. ASSUME NEW w \in Workers, ClaimPort(w) PROVE ClaimMatchesProcess'
  <2>1. /\ lock' = [lock EXCEPT ![op[w].port] =
                       [pid |-> op[w].pid, model |-> Target(w)]]
        /\ proc' = proc
    BY <1>2 DEF ClaimPort
  <2>2. proc[op[w].pid] # None => /\ proc[op[w].pid].port = op[w].port
                                  /\ proc[op[w].pid].model = Target(w)
    BY <1>0, <1>2 DEF PidsOK, PidOK, ClaimPort
  <2>3. lock \in [Ports -> Claim \cup {None, Torn}]
    BY <1>0 DEF TypeOK
  <2> QED BY <2>1, <2>2, <2>3 DEF ClaimMatchesProcess, ClaimOf, ReadLock, Servers
<1>3. ASSUME NEW w \in Workers, Call(w) \/ Step(w), ~Spawn(w), ~ClaimPort(w)
      PROVE  ClaimMatchesProcess'
    BY <1>3, ProcessEffect, ClaimEffect, NoSpawnStep, ClaimsKept DEF Unclaiming
<1>4. ASSUME NEW q \in Pids, Reuse(q) PROVE ClaimMatchesProcess'
    BY <1>0, <1>4 DEF Reuse, files, ClaimMatchesProcess, ClaimOf, ReadLock, Servers
<1>5. ASSUME NEW q \in Pids, Bind(q) \/ Serve(q) \/ Exit(q) PROVE ClaimMatchesProcess'
  <2>1. \A r \in Pids : proc'[r] # None =>
           /\ proc[r] # None
           /\ proc'[r].port = proc[r].port /\ proc'[r].model = proc[r].model
           /\ proc'[r].st # "alien" => proc[r].st # "alien"
    BY <1>0, <1>5 DEF Bind, Serve, Exit, Process
  <2>2. lock' = lock
    BY <1>5 DEF Bind, Serve, Exit, files
  <2> QED BY <2>1, <2>2 DEF ClaimMatchesProcess, ClaimOf, ReadLock, Servers
<1>6. CASE UNCHANGED vars
    BY <1>6 DEF vars, ClaimMatchesProcess, ClaimOf, ReadLock, Servers
<1> QED BY <1>1, <1>2, <1>3, <1>4, <1>5, <1>6 DEF Next, Step, LaunchStep, Environment

\* A claim names the port and the model its live server runs, also after a
\* rollback and however claims are cleared and rewritten under each other.
THEOREM ClaimsAreTrue == Spec => []ClaimMatchesProcess
<1>1. Init => ClaimMatchesProcess
    BY DEF Init, ClaimMatchesProcess, Servers
<1>2. Init /\ [][Next]_vars => []ClaimMatchesProcess
    BY <1>1, InitShape, ShapeNext, ClaimsNext, PTL
<1> QED BY <1>2 DEF Spec

\* A process with a pid that w is about to signal is a server.
LEMMA SignalsServers ==
    ASSUME Shape, NEW w \in Workers, Kills(w)
    PROVE  \A q \in Strangers : proc'[q] = proc[q]
<1>1. /\ FrameOK(w) /\ PidOK(w) /\ ProcessesOK
      /\ proc \in [Pids -> Process \cup {None}]
    BY DEF Shape, FramesOK, PidsOK, TypeOK
<1>2. op[w].pid \in Pids /\ op[w].port \in Ports
    BY <1>1 DEF FrameOK, Kills
<1>3. op[w].pid \notin Strangers
    BY <1>1, <1>2, ConstantsAssumption DEF PidOK, Kills, ProcessesOK, ProcessOK, Strangers
<1> QED BY <1>1, <1>3 DEF Kills, Strangers

\* A process that was given the pid of a dead server stays what it is.
LEMMA StrangersStay ==
    ASSUME Shape, Next PROVE Strangers \subseteq Strangers'
<1>0. proc \in [Pids -> Process \cup {None}]
    BY DEF Shape, TypeOK
<1>1. ASSUME NEW w \in Workers, Call(w) \/ Step(w), ~Spawn(w)
      PROVE  Strangers \subseteq Strangers'
  <2>1. CASE proc' = proc
    BY <2>1 DEF Strangers
  <2>2. CASE Kills(w)
    BY <2>2, SignalsServers DEF Strangers
  <2>3. CASE Keeps(w)
    BY <2>3, KeepsProcesses DEF Strangers
  <2> QED BY <1>1, <2>1, <2>2, <2>3, ProcessEffect
<1>2. ASSUME NEW w \in Workers, Spawn(w) PROVE Strangers \subseteq Strangers'
  <2>1. PICK q \in Fresh :
           proc' = [proc EXCEPT ![q] =
                      [st |-> "loading", port |-> op[w].port,
                       model |-> Target(w), kept |-> FALSE]]
    BY <1>2 DEF Spawn
  <2>2. q \notin Strangers
    BY DEF Fresh, Strangers
  <2> QED BY <1>0, <2>1, <2>2 DEF Strangers
<1>3. CASE Environment
  BY <1>0, <1>3 DEF Environment, Bind, Serve, Exit, Reuse, Strangers
<1> QED BY <1>1, <1>2, <1>3 DEF Next, Step, LaunchStep

\* No verb signals a process that was given the pid of a dead server.
THEOREM StrangersAreSpared == Spec => StrangersSpared
<1>1. Shape /\ [Next]_vars => [Strangers \subseteq Strangers']_vars
    BY StrangersStay
<1> QED BY <1>1, ShapeInvariant, PTL DEF Spec, StrangersSpared

\* A worker changes no other worker's variables.
LEMMA StepAlone ==
    ASSUME Shape, NEW w \in Workers, Call(w) \/ Step(w)
    PROVE  Alone(w)
<1>0. /\ pc \in [Workers -> Labels] /\ op \in [Workers -> Frame]
    BY DEF Shape, TypeOK
<1>1. CASE SwapStep(w)
    BY <1>0, <1>1 DEF SwapStep, SwapTake, SwapSame, SwapInProgress, SwapReclaim,
       SwapTakeRaises, SwapCancelled, Return, Finish, Goto, files, Alone
<1> QED BY <1>1, CallEffect, LaunchEffect, StartEffect, StopEffect, UpkeepEffect
        DEF Step, Effect

\* While w launches a server its only steps are those of the launch.
LEMMA LaunchingStep ==
    ASSUME NEW w \in Workers, Call(w) \/ Step(w),
           pc[w] \in {"claim", "race", "await", "kill"}
    PROVE  \/ ClaimPort(w) \/ ClaimLost(w) \/ ClaimRaises(w) \/ RaceCleanup(w)
           \/ AwaitReady(w) \/ AwaitFails(w) \/ KillUnready(w)
<1>1. ~StartStep(w)
    BY DEF StartStep, StartClear, StartTake, StartRefused, StartPreflight,
       StartCancelled
<1>2. ~StopStep(w)
    BY DEF StopStep, ClearAndReturn, Find, FindNothing, Terminate,
       TerminateMissed, TerminateDenied, Unclaim
<1>3. ~SwapStep(w)
    BY DEF SwapStep, SwapTake, SwapSame, SwapInProgress, SwapReclaim,
       SwapTakeRaises, SwapCancelled
<1>4. ~UpkeepStep(w)
    BY DEF UpkeepStep, ScanStale, ScanLive, ScanDone, DeleteDrop, CancelWrite
<1>5. ~Call(w)
    BY DEF Call, StartCall, StopCall, SwapCall, UpkeepCall, StartEnter,
       StopEnter, SwapEnter, SweepEnter, DeleteEnter, Add, CancelEnter, Idle
<1> QED BY <1>1, <1>2, <1>3, <1>4, <1>5
        DEF Step, LaunchStep, Spawn, SpawnFails, Unlock, Release

\* A worker stays in charge of its process until it reports it or stops it.
LEMMA InChargeEffect ==
    ASSUME Shape, NEW w \in Workers, Call(w) \/ Step(w),
           "disk" \notin Env, "denied" \notin Env
    PROVE  \A q \in Pids :
              InCharge(w, q) => \/ InCharge(w, q)'
                               \/ proc'[q] = None \/ proc'[q].kept
<1>0. /\ FrameOK(w) /\ pc \in [Workers -> Labels] /\ op \in [Workers -> Frame]
      /\ proc \in [Pids -> Process \cup {None}]
    BY DEF Shape, FramesOK, TypeOK
<1>1. SUFFICES ASSUME NEW q \in Pids, op[w].pid = q,
                      pc[w] \in {"claim", "race", "await", "kill"}
               PROVE  \/ InCharge(w, q)'
                      \/ proc'[q] = None \/ proc'[q].kept
    BY DEF InCharge
<1>3. CASE ClaimPort(w) \/ ClaimLost(w) \/ AwaitFails(w)
    BY <1>0, <1>1, <1>3 DEF ClaimPort, ClaimLost, AwaitFails, Goto, InCharge
<1>4. CASE RaceCleanup(w) \/ KillUnready(w)
    BY <1>0, <1>1, <1>4 DEF RaceCleanup, KillUnready, KillOwn
<1>5. CASE AwaitReady(w)
    BY <1>0, <1>1, <1>5 DEF AwaitReady, PidAlive, Process
<1> QED BY <1>1, <1>3, <1>4, <1>5, LaunchingStep DEF ClaimRaises

\* Leaks do not come about ...
LEMMA NoLeakNext ==
    ASSUME "disk" \notin Env, "denied" \notin Env
    PROVE  Shape /\ NoLeak /\ [Next]_vars => NoLeak'
<1> SUFFICES ASSUME Shape, NoLeak, [Next]_vars PROVE NoLeak'
    OBVIOUS
<1>0. /\ pc \in [Workers -> Labels] /\ op \in [Workers -> Frame]
      /\ proc \in [Pids -> Process \cup {None}]
    BY DEF Shape, TypeOK
<1>1. ASSUME NEW w \in Workers, Spawn(w) PROVE NoLeak'
  <2>1. PICK q \in Fresh :
           /\ proc' = [proc EXCEPT ![q] =
                         [st |-> "loading", port |-> op[w].port,
                          model |-> Target(w), kept |-> FALSE]]
           /\ op' = [op EXCEPT ![w].pid = q]
    BY <1>1 DEF Spawn
  <2>2. pc[w] = "launch" /\ pc' = [pc EXCEPT ![w] = "claim"]
    BY <1>1 DEF Spawn, Goto
  <2>3. InCharge(w, q)'
    BY <1>0, <2>1, <2>2 DEF InCharge
  <2>4. \A v \in Workers, r \in Pids : InCharge(v, r) => InCharge(v, r)'
    BY <1>0, <2>1, <2>2 DEF InCharge
  <2> QED BY <1>0, <2>1, <2>3, <2>4 DEF NoLeak, Servers
<1>2. ASSUME NEW w \in Workers, Call(w) \/ Step(w), ~Spawn(w), Alone(w)
      PROVE  NoLeak'
  <2>1. \A q \in Pids : proc'[q] # None =>
           /\ proc[q] # None /\ proc'[q].st = proc[q].st
           /\ proc'[q].kept \in {proc[q].kept, TRUE}
    <3>1. CASE proc' = proc \/ Kills(w)
      BY <1>0, <3>1 DEF Kills
    <3>2. CASE Keeps(w)
      BY <3>2, KeepsProcesses
    <3> QED BY <1>2, <3>1, <3>2, ProcessEffect
  <2>2. \A q \in Pids, v \in Workers :
           InCharge(v, q) => \/ InCharge(v, q)'
                            \/ proc'[q] = None \/ proc'[q].kept
    BY <1>2, InChargeEffect DEF Alone, InCharge
  <2> QED BY <2>1, <2>2 DEF NoLeak, Servers
<1>3. CASE Environment
  <2>1. UNCHANGED <<pc, op>>
    BY <1>3, EnvironmentQuiet
  <2>2. \A q \in Pids : proc'[q] # None /\ proc'[q].st # "alien" =>
           /\ proc[q] # None /\ proc[q].st # "alien"
           /\ proc'[q].kept = proc[q].kept
    BY <1>0, <1>3 DEF Environment, Bind, Serve, Exit, Reuse, Process
  <2> QED BY <2>1, <2>2 DEF NoLeak, Servers, InCharge
<1>4. CASE UNCHANGED vars
    BY <1>4 DEF vars, NoLeak, Servers, InCharge
<1>5. ASSUME NEW w \in Workers, Call(w) \/ Step(w), ~Spawn(w) PROVE Alone(w)
    BY <1>5, StepAlone
<1> QED BY <1>1, <1>2, <1>3, <1>4, <1>5 DEF Next, Step, LaunchStep

\* ... so that, where a lockfile can be created and a process signalled,
\* every live server was reported by a successful verb or belongs to a launch
\* in flight.
THEOREM NothingLeaks ==
    ASSUME "disk" \notin Env, "denied" \notin Env
    PROVE  Spec => []NoLeak
<1>1. Init => NoLeak
    BY DEF Init, NoLeak, Servers
<1>2. Init /\ [][Next]_vars => []NoLeak
    BY <1>1, InitShape, ShapeNext, NoLeakNext, PTL
<1> QED BY <1>2 DEF Spec

\* A server being launched is killed by its own verb or by a stop on its port.
THEOREM LaunchesUndisturbed == Spec => LaunchUndisturbed
<1> DEFINE A == \A w \in Workers :
          pc[w] = "await" /\ PidAlive(op[w].pid) /\ pc' # pc
          => \/ PidAlive(op[w].pid)'
             \/ \E v \in Workers : Stopping(v, op[w].port)
<1>1. Shape /\ MarkerMutex /\ [Next]_vars => [A]_vars
  <2> SUFFICES ASSUME Shape, MarkerMutex, Next, NEW w \in Workers,
                      pc[w] = "await", PidAlive(op[w].pid), pc' # pc,
                      ~PidAlive(op[w].pid)'
               PROVE  \E v \in Workers : Stopping(v, op[w].port)
      OBVIOUS
  <2>0. /\ pc \in [Workers -> Labels] /\ op \in [Workers -> Frame]
        /\ proc \in [Pids -> Process \cup {None}]
        /\ FrameOK(w) /\ PidOK(w) /\ op[w].pid \in Pids /\ proc[op[w].pid] # None
    BY DEF Shape, TypeOK, FramesOK, FrameOK, PidsOK, PidAlive
  <2>1. PICK v \in Workers : Call(v) \/ Step(v)
    BY EnvironmentQuiet DEF Next
  <2>2. v # w
    <3> SUFFICES ASSUME v = w PROVE FALSE
        OBVIOUS
    <3>1. AwaitReady(w) \/ AwaitFails(w)
      BY <2>1, LaunchingStep DEF ClaimPort, ClaimLost, ClaimRaises, RaceCleanup,
         KillUnready
    <3>2. CASE AwaitFails(w)
      BY <2>0, <3>2 DEF AwaitFails, PidAlive
    <3>3. CASE AwaitReady(w)
      <4>1. Keeps(w)
        BY <2>0, <3>3 DEF AwaitReady, Keeps
      <4>2. op'[w].pid = op[w].pid
        BY <2>0, <3>3 DEF AwaitReady, Finish, Frame
      <4> QED BY <2>0, <4>1, <4>2, KeepsProcesses DEF PidAlive
    <3> QED BY <3>1, <3>2, <3>3
  <2>3. op'[w] = op[w] /\ proc'[op[w].pid] = None
    BY <2>1, <2>2, StepAlone DEF Alone, PidAlive
  <2>4. ~Spawn(v)
    BY <2>0, <2>3 DEF Spawn, Fresh
  <2>5. Kills(v) /\ op[v].pid = op[w].pid
    BY <2>0, <2>1, <2>3, <2>4, ProcessEffect, KeepsProcesses DEF Kills
  <2>6. op[v].port = op[w].port /\ FrameOK(v)
    BY <2>0, <2>5 DEF Shape, FramesOK, PidsOK, PidOK, Kills
  <2>7. ~InFlight(v)
    BY <2>2, <2>6 DEF MarkerMutex, InFlight
  <2>8. Stopping(v, op[w].port)
    BY <2>5, <2>6, <2>7 DEF Kills, InFlight, FrameOK, Stopping
  <2> QED BY <2>8
<1> QED BY <1>1, ShapeInvariant, MarkerExcludes, PTL DEF Spec, LaunchUndisturbed

\* The inductive invariant behind all of this, also with any number of verbs.
THEOREM NodeInvariant == Spec => []IInv
<1>1. Init => IInv
    BY InitShape DEF Init, IInv, MarkersHeld, MarkerMutex, InFlight,
       ClaimMatchesProcess, Servers
<1>2. IInv /\ [Next]_vars => IInv'
    BY ShapeNext, MutexNext, ClaimsNext DEF IInv
<1> QED BY <1>1, <1>2, PTL DEF Spec
================================================================================

-------------------------------- MODULE Launch --------------------------------
(***************************************************************************)
(* The launch sequence start and swap share: spawn, claim the port with    *)
(* the lockfile, poll readiness, and on failure take the process and the   *)
(* claim down again.  operations/start.py has it inline, operations/       *)
(* swap.py in _launch_and_await_ready.  They differ in who looks at the    *)
(* cancel flag and in what follows a failure, and those differences are    *)
(* the operators WatchesCancel and AfterFailure.                           *)
(***************************************************************************)
EXTENDS NodeState

\* Faulty variant of Target: the rollback launches the requested model.
TargetRequested(w) == op[w].model

\* The model this launch is for: the one asked for, or the previous one.
Target(w) == IF op[w].stage = "new" THEN op[w].model ELSE op[w].prev

\* Only the launch of a swap's new model is given a cancel_check.
WatchesCancel(w) == op[w].verb = "swap" /\ op[w].stage = "new"

\* take_marker: O_EXCL creation.
TakeMarker(w, p) ==
    /\ mark[p] = None
    /\ mark' = [mark EXCEPT ![p] = [owner |-> w, cancelled |-> FALSE]]

\* release_marker: whatever the file says, it goes.
ReleaseMarker(p) == mark' = [mark EXCEPT ![p] = None]

\* The cancel flag is looked at right before the launch of a requested model
\* and not before the launch that restores the previous one.
Spawn(w) ==
    /\ pc[w] = "launch"
    /\ op[w].stage = "new" => ~IsCancelled(op[w].port)
    /\ \E q \in Fresh, tail \in {FALSE} \cup {"tail" \in Env} :
          /\ proc' = [proc EXCEPT ![q] =
                        [st |-> "loading", port |-> op[w].port,
                         model |-> Target(w), kept |-> FALSE]]
          /\ logs' = IF tail THEN logs
                     ELSE logs \ {<<Target(w), op[w].port>>}
          /\ op' = [op EXCEPT ![w].pid = q]
    /\ Goto(w, "claim")
    /\ UNCHANGED <<files, up, snap, seen>>

\* What a failed launch is reported as once cleanup is done.
FailureOutcome(w, cancelled) ==
    CASE op[w].verb = "start"  -> "error"
      [] op[w].stage = "back"  -> "failed"
      [] OTHER                 -> IF cancelled THEN "cancelled" ELSE "rolled_back"

\* A failed start ends; a failed swap relaunches the previous model, once.
AfterFailure(w, out) ==
    IF WatchesCancel(w)
    THEN /\ Goto(w, "launch")
         /\ op' = [op EXCEPT ![w] = [@ EXCEPT !.stage = "back", !.out = out,
                                              !.pid = None]]
    ELSE /\ Goto(w, "release")
         /\ op' = [op EXCEPT ![w] = [@ EXCEPT !.out = out, !.pid = None]]

\* Popen, the log directory or the extra arguments raise.
SpawnFails(w) ==
    /\ pc[w] = "launch"
    /\ op[w].stage = "new" => ~IsCancelled(op[w].port)
    /\ "spawn" \in Env \/ Fresh = {}
    /\ AfterFailure(w, FailureOutcome(w, FALSE))
    /\ UNCHANGED <<files, proc, logs, up, snap, seen>>

\* Faulty variants of ClaimPort: the claim names the requested model also
\* when the previous one is relaunched; it names the previous model.
ClaimPortRequested(w) ==
    /\ pc[w] = "claim" /\ lock[op[w].port] = None
    /\ lock' = [lock EXCEPT ![op[w].port] =
                    [pid |-> op[w].pid, model |-> op[w].model]]
    /\ Goto(w, "await")
    /\ UNCHANGED <<mark, store, proc, logs, up, op, snap, seen>>

ClaimPortPrevious(w) ==
    /\ pc[w] = "claim" /\ lock[op[w].port] = None
    /\ lock' = [lock EXCEPT ![op[w].port] =
                    [pid |-> op[w].pid, model |-> op[w].prev]]
    /\ Goto(w, "await")
    /\ UNCHANGED <<mark, store, proc, logs, up, op, snap, seen>>

\* write_lockfile: O_EXCL creation.
ClaimPort(w) ==
    /\ pc[w] = "claim" /\ lock[op[w].port] = None
    /\ lock' = [lock EXCEPT ![op[w].port] =
                    [pid |-> op[w].pid, model |-> Target(w)]]
    /\ Goto(w, "await")
    /\ UNCHANGED <<mark, store, proc, logs, up, op, snap, seen>>

\* FileExistsError: another writer holds the claim.
ClaimLost(w) ==
    /\ pc[w] = "claim" /\ lock[op[w].port] # None
    /\ Goto(w, "race")
    /\ UNCHANGED <<files, proc, logs, up, op, snap, seen>>

\* Any other OSError leaves through the "finally" that releases the marker.
ClaimRaises(w) ==
    /\ pc[w] = "claim" /\ "disk" \in Env
    /\ Finish(w, "raised")
    /\ UNCHANGED <<files, proc, logs, up, snap, seen>>

\* stop_server_by_pid on the worker's own process.  AccessDenied is caught
\* and logged: the process lives on and the clean-up continues.
KillOwn(w) == \/ proc' = [proc EXCEPT ![op[w].pid] = None]
              \/ "denied" \in Env /\ proc' = proc

\* Faulty variant of RaceCleanup: the loser does not stop its process.
RaceCleanupLeaking(w) ==
    /\ pc[w] = "race"
    /\ AfterFailure(w, FailureOutcome(w, FALSE))
    /\ UNCHANGED <<files, proc, logs, up, snap, seen>>

RaceCleanup(w) ==
    /\ pc[w] = "race"
    /\ KillOwn(w)
    /\ AfterFailure(w, FailureOutcome(w, FALSE))
    /\ UNCHANGED <<files, logs, up, snap, seen>>

\* wait_for_server_ready returns True: not cancelled, the child is running,
\* somebody listens on the port and this model's log tail shows a ready line.
AwaitReady(w) ==
    /\ pc[w] = "await"
    /\ WatchesCancel(w) => ~IsCancelled(op[w].port)
    /\ PidAlive(op[w].pid)
    /\ Listening(op[w].port)
    /\ <<Target(w), op[w].port>> \in logs
    /\ proc' = [proc EXCEPT ![op[w].pid].kept = TRUE]
    /\ Finish(w, CASE op[w].verb = "start" -> "started"
                   [] WatchesCancel(w)     -> "swapped"
                   [] OTHER                -> op[w].out)
    /\ UNCHANGED <<files, logs, up, snap, seen>>

\* Faulty variant of AwaitFails: the poll has no timeout.
AwaitFailsUntimed(w) ==
    /\ pc[w] = "await"
    /\ ~PidAlive(op[w].pid) \/ (WatchesCancel(w) /\ IsCancelled(op[w].port))
    /\ Goto(w, "kill")
    /\ UNCHANGED <<files, proc, logs, up, op, snap, seen>>

\* It returns False: cancelled, the child has exited, or the timeout.
AwaitFails(w) ==
    /\ pc[w] = "await"
    /\ Goto(w, "kill")
    /\ UNCHANGED <<files, proc, logs, up, op, snap, seen>>

\* The cancel flag is read again to tell a cancel from a timeout, then the
\* process is stopped.
KillUnready(w) ==
    /\ pc[w] = "kill"
    /\ KillOwn(w)
    /\ op' = [op EXCEPT ![w].out =
                 FailureOutcome(w, IsCancelled(op[w].port))]
    /\ Goto(w, "unlock")
    /\ UNCHANGED <<files, logs, up, snap, seen>>

\* remove_lockfile after a failed readiness poll.
Unlock(w) ==
    /\ pc[w] = "unlock"
    /\ RemoveLock(op[w].port)
    /\ AfterFailure(w, op[w].out)
    /\ UNCHANGED <<mark, store, proc, logs, up, snap, seen>>

\* The "finally" of start and swap.
Release(w) ==
    /\ pc[w] = "release"
    /\ ReleaseMarker(op[w].port)
    /\ Return(w)
    /\ UNCHANGED <<lock, store, proc, logs, up, snap, seen>>

LaunchStep(w) ==
    \/ Spawn(w) \/ SpawnFails(w)
    \/ ClaimPort(w) \/ ClaimLost(w) \/ ClaimRaises(w) \/ RaceCleanup(w)
    \/ AwaitReady(w) \/ AwaitFails(w) \/ KillUnready(w) \/ Unlock(w)
    \/ Release(w)
=============================================================================

--------------------------------- MODULE Stop ---------------------------------
(* operations/stop.py: the blocking stop, which is also the body of the      *)
(* background stop's thread, and stop_server_by_port, which swap shares.     *)
EXTENDS Launch

\* _reconcile_for_stop: nothing to do, a stale claim, or a live server.
StopEnter(w, p) ==
    /\ Idle(w, "stop")
    /\ LET claim == ReadLock(p)
       IN  /\ claim # None
           /\ Enter(w, IF PidAlive(claim.pid) THEN "find" ELSE "clear",
                    "stop", p, None)
    /\ UNCHANGED <<files, proc, logs, up, snap, seen>>

\* The stale claim is removed by name, and the call is over.  Swap's
\* pre-flight does the same with a stale claim (rejected_empty).
ClearAndReturn(w) ==
    /\ pc[w] = "clear" /\ op[w].verb \in {"stop", "swap"}
    /\ RemoveLock(op[w].port)
    /\ Return(w)
    /\ UNCHANGED <<mark, store, proc, logs, up, snap, seen>>

\* Faulty variant of Find: the claim is removed before the termination.
FindUnclaiming(w) ==
    /\ pc[w] = "find"
    /\ \E q \in ServersOn(op[w].port) : op' = [op EXCEPT ![w].pid = q]
    /\ RemoveLock(op[w].port)
    /\ Goto(w, "term")
    /\ UNCHANGED <<mark, store, proc, logs, up, snap, seen>>

\* Faulty variant of Find: it trusts the pid in the claim.
FindClaimed(w) ==
    /\ pc[w] = "find" /\ ReadLock(op[w].port) # None
    /\ op' = [op EXCEPT ![w].pid = lock[op[w].port].pid]
    /\ Goto(w, "term")
    /\ UNCHANGED <<files, proc, logs, up, snap, seen>>

\* find_server_by_port goes by argv: not by the claim that was read.
Find(w) ==
    /\ pc[w] = "find"
    /\ \E q \in ServersOn(op[w].port) : op' = [op EXCEPT ![w].pid = q]
    /\ Goto(w, "term")
    /\ UNCHANGED <<files, proc, logs, up, snap, seen>>

\* Nothing stopped, the claim is left: a stop is over, a swap ends with out.
StopFailed(w, out) ==
    IF op[w].verb = "stop" THEN Return(w) ELSE Finish(w, out)

\* No server, or one whose command line may not be read and which the scan
\* passes over: a stop reports an error, a swap that nothing has changed.
FindNothing(w) ==
    /\ pc[w] = "find" /\ (ServersOn(op[w].port) = {} \/ "unreadable" \in Env)
    /\ StopFailed(w, "rejected_stop_failed")
    /\ UNCHANGED <<files, proc, logs, up, snap, seen>>

\* Faulty variant of Terminate: SIGTERM without waiting for the exit.
TerminateUnwaited(w) ==
    /\ pc[w] = "term"
    /\ Goto(w, "unclaim")
    /\ UNCHANGED <<files, proc, logs, up, op, snap, seen>>

\* stop_server_by_pid: SIGTERM, the grace, SIGKILL; whatever has the pid by
\* now is what it reaches.
Terminate(w) ==
    /\ pc[w] = "term"
    /\ proc' = [proc EXCEPT ![op[w].pid] = None]
    /\ Goto(w, "unclaim")
    /\ UNCHANGED <<files, logs, up, op, snap, seen>>

\* NoSuchProcess before the signal: the pid found has exited meanwhile.
TerminateMissed(w) ==
    /\ pc[w] = "term" /\ ~PidAlive(op[w].pid)
    /\ StopFailed(w, "rejected_stop_failed")
    /\ UNCHANGED <<files, proc, logs, up, snap, seen>>

\* AccessDenied, which nobody catches here: the exception leaves the stop or,
\* through the "finally", the swap, and the server lives on.
TerminateDenied(w) ==
    /\ pc[w] = "term" /\ PidAlive(op[w].pid) /\ "denied" \in Env
    /\ StopFailed(w, "raised")
    /\ UNCHANGED <<files, proc, logs, up, snap, seen>>

\* remove_lockfile(port) after the termination.
Unclaim(w) ==
    /\ pc[w] = "unclaim"
    /\ RemoveLock(op[w].port)
    /\ IF op[w].verb = "stop"
       THEN Return(w)
       ELSE Goto(w, "launch") /\ op' = [op EXCEPT ![w].pid = None]
    /\ UNCHANGED <<mark, store, proc, logs, up, snap, seen>>

StopCall(w) == \E p \in Ports : StopEnter(w, p)

StopStep(w) == \/ ClearAndReturn(w) \/ Find(w) \/ FindNothing(w)
               \/ Terminate(w) \/ TerminateMissed(w) \/ TerminateDenied(w)
               \/ Unclaim(w)
=============================================================================

--------------------------------- MODULE Swap ---------------------------------
(* operations/swap.py: replace the model on an occupied port, or put the     *)
(* previous one back.  The launch of either model is module Launch, the      *)
(* stop of the old server is module Stop.                                    *)
EXTENDS Start, Stop

\* Phase 1.  A stale claim is cleared and the call refused; the same model is
\* an idempotent success once the marker was taken and released; otherwise
\* both models must be in the config, and the new one pass its checks.
SwapEnter(w, p, m) ==
    /\ Idle(w, "swap")
    /\ ReadLock(p) # None
    /\ LET claim == lock[p]
       IN  \/ /\ ~PidAlive(claim.pid)
              /\ Enter(w, "clear", "swap", p, m)
           \/ /\ PidAlive(claim.pid) /\ claim.model = m
              /\ Enter(w, "same", "swap", p, m)
           \/ /\ PidAlive(claim.pid) /\ claim.model # m
              /\ {m, claim.model} \subseteq store
              /\ Goto(w, "take")
              /\ op' = [op EXCEPT ![w] =
                          [NoFrame EXCEPT !.verb = "swap", !.port = p,
                                          !.model = m, !.prev = claim.model]]
    /\ UNCHANGED <<files, proc, logs, up, snap, seen>>

\* Faulty variant of SwapTake: the swap goes on without the marker.
SwapTakeNothing(w) ==
    /\ pc[w] = "take" /\ op[w].verb = "swap"
    /\ Goto(w, "find")
    /\ UNCHANGED <<files, proc, logs, up, op, snap, seen>>

\* Phase 2.
SwapTake(w) ==
    /\ pc[w] = "take" /\ op[w].verb = "swap"
    /\ TakeMarker(w, op[w].port)
    /\ Goto(w, "find")
    /\ UNCHANGED <<lock, store, proc, logs, up, op, snap, seen>>

\* Faulty variant of SwapSame: the marker is not released again.
SwapSameKept(w) ==
    /\ pc[w] = "same"
    /\ TakeMarker(w, op[w].port)
    /\ Return(w)
    /\ UNCHANGED <<lock, store, proc, logs, up, snap, seen>>

\* The same-model short cut takes the marker only to release it again.
SwapSame(w) ==
    /\ pc[w] = "same"
    /\ TakeMarker(w, op[w].port)
    /\ Finish(w, "already_running")
    /\ UNCHANGED <<lock, store, proc, logs, up, snap, seen>>

\* Faulty variant of SwapInProgress: a marker is cleared whoever holds it.
SwapInProgressForced(w) ==
    /\ pc[w] \in {"take", "same"} /\ op[w].verb = "swap"
    /\ mark[op[w].port] # None
    /\ Goto(w, "reclaim")
    /\ UNCHANGED <<files, proc, logs, up, op, snap, seen>>

\* _build_in_progress_result: a marker whose holder is dead is cleared, for
\* the benefit of the next caller; this call is refused either way.
SwapInProgress(w) ==
    /\ pc[w] \in {"take", "same"} /\ op[w].verb = "swap"
    /\ mark[op[w].port] # None
    /\ LET holder == ReadMark(op[w].port)
       IN  IF holder # None /\ LauncherOf[holder.owner] \notin up
           THEN Goto(w, "reclaim") /\ op' = op
           ELSE Return(w)
    /\ UNCHANGED <<files, proc, logs, up, snap, seen>>

SwapReclaim(w) ==
    /\ pc[w] = "reclaim"
    /\ ReleaseMarker(op[w].port)
    /\ Return(w)
    /\ UNCHANGED <<lock, store, proc, logs, up, snap, seen>>

\* The marker cannot be written: the exception leaves swap, nothing changed.
SwapTakeRaises(w) ==
    /\ pc[w] \in {"take", "same"} /\ op[w].verb = "swap"
    /\ "disk" \in Env
    /\ Return(w)
    /\ UNCHANGED <<files, proc, logs, up, snap, seen>>

\* The checkpoint between the stop of the old server and the launch of the
\* new one: the cancel turns the launch into the relaunch of the old model.
SwapCancelled(w) ==
    /\ pc[w] = "launch" /\ WatchesCancel(w)
    /\ IsCancelled(op[w].port)
    /\ op' = [op EXCEPT ![w] = [@ EXCEPT !.stage = "back", !.out = "cancelled"]]
    /\ UNCHANGED <<files, proc, logs, up, pc, snap, seen>>

SwapCall(w) == \E p \in Ports, m \in Models : SwapEnter(w, p, m)

SwapStep(w) == \/ SwapTake(w) \/ SwapSame(w) \/ SwapInProgress(w)
               \/ SwapReclaim(w) \/ SwapTakeRaises(w) \/ SwapCancelled(w)
=============================================================================

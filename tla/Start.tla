-------------------------------- MODULE Start --------------------------------
(* operations/start.py: launch a model on an empty port.                    *)
EXTENDS Launch

\* Faulty variant of StartEnter: the claim on the port is not looked at.
StartEnterUnchecked(w, p, m) ==
    /\ Idle(w, "start")
    /\ Enter(w, "take", "start", p, m)
    /\ UNCHANGED <<files, proc, logs, up, snap, seen>>

\* The claim is read and its pid looked up.  A live claim ends the call
\* (already_running, rejected_occupied); a dead one is cleared first.
StartEnter(w, p, m) ==
    /\ Idle(w, "start")
    /\ LET claim == ReadLock(p)
       IN  /\ claim # None => ~PidAlive(claim.pid)
           /\ Enter(w, IF claim = None THEN "take" ELSE "clear", "start", p, m)
    /\ UNCHANGED <<files, proc, logs, up, snap, seen>>

\* The stale claim is removed by name: not re-read, and not under the marker.
StartClear(w) ==
    /\ pc[w] = "clear" /\ op[w].verb = "start"
    /\ RemoveLock(op[w].port)
    /\ Goto(w, "take")
    /\ UNCHANGED <<mark, store, proc, logs, up, op, snap, seen>>

\* The model is looked up in the config and the marker taken.
StartTake(w) ==
    /\ pc[w] = "take" /\ op[w].verb = "start"
    /\ op[w].model \in store
    /\ TakeMarker(w, op[w].port)
    /\ Goto(w, "preflight")
    /\ UNCHANGED <<lock, store, proc, logs, up, op, snap, seen>>

\* Model not in the config, marker already there (no look at its holder), or
\* a marker that cannot be written: nothing has been changed.
StartRefused(w) ==
    /\ pc[w] = "take" /\ op[w].verb = "start"
    /\ \/ op[w].model \notin store
       \/ mark[op[w].port] # None
       \/ "disk" \in Env
    /\ Return(w)
    /\ UNCHANGED <<files, proc, logs, up, snap, seen>>

\* First checkpoint and the model-file check.
StartPreflight(w) ==
    /\ pc[w] = "preflight"
    /\ IF IsCancelled(op[w].port)
       THEN Finish(w, "cancelled")
       ELSE \/ Goto(w, "launch") /\ op' = op
            \/ "preflight" \in Env /\ Finish(w, "rejected_preflight")
    /\ UNCHANGED <<files, proc, logs, up, snap, seen>>

\* Second checkpoint: Spawn and SpawnFails are the other outcomes.
StartCancelled(w) ==
    /\ pc[w] = "launch" /\ op[w].verb = "start"
    /\ IsCancelled(op[w].port)
    /\ Finish(w, "cancelled")
    /\ UNCHANGED <<files, proc, logs, up, snap, seen>>

StartCall(w) == \E p \in Ports, m \in Models : StartEnter(w, p, m)

StartStep(w) == \/ StartClear(w) \/ StartTake(w) \/ StartRefused(w)
                \/ StartPreflight(w) \/ StartCancelled(w)
=============================================================================

-------------------------------- MODULE Upkeep --------------------------------
(* The verbs that look after the node's records: the sweep over stale claims *)
(* (operations/reconcile.py), delete_model (operations/delete.py), the       *)
(* config's add, and the cancel request (core/marker.py).                    *)
EXTENDS NodeState

\* list_lockfiles: the parseable claims; corrupt files are skipped.
Listing == [p \in Ports |-> ReadLock(p)]

\* reconcile_stale_lockfiles takes its listing.
SweepEnter(w) ==
    /\ Idle(w, "sweep")
    /\ snap' = [snap EXCEPT ![w] = Listing]
    /\ Enter(w, "scan", "sweep", None, None)
    /\ UNCHANGED <<files, proc, logs, up, seen>>

\* delete_model finds the model in the config and takes its listing.
DeleteEnter(w, m) ==
    /\ Idle(w, "delete") /\ m \in store
    /\ snap' = [snap EXCEPT ![w] =
                  [p \in Ports |-> IF ReadLock(p) # None /\ lock[p].model = m
                                   THEN lock[p] ELSE None]]
    /\ Enter(w, "scan", "delete", None, m)
    /\ UNCHANGED <<files, proc, logs, up, seen>>

\* Faulty variant of ScanStale: the dead claim is skipped, not removed.
ScanStaleKept(w, p) ==
    /\ pc[w] = "scan" /\ snap[w][p] # None
    /\ ~PidAlive(snap[w][p].pid)
    /\ snap' = [snap EXCEPT ![w][p] = None]
    /\ UNCHANGED <<files, proc, logs, up, pc, op, seen>>

\* A listed claim whose pid is dead: the port's file is removed, whatever it
\* says by now.
ScanStale(w, p) ==
    /\ pc[w] = "scan" /\ snap[w][p] # None
    /\ ~PidAlive(snap[w][p].pid)
    /\ RemoveLock(p)
    /\ snap' = [snap EXCEPT ![w][p] = None]
    /\ UNCHANGED <<mark, store, proc, logs, up, pc, op, seen>>

\* Faulty variant of ScanLive: delete_model passes over a live claim, too.
ScanLivePassing(w, p) ==
    /\ pc[w] = "scan" /\ snap[w][p] # None
    /\ PidAlive(snap[w][p].pid)
    /\ snap' = [snap EXCEPT ![w][p] = None]
    /\ UNCHANGED <<files, proc, logs, up, pc, op, seen>>

\* A listed claim whose pid is alive: the sweep passes over it, delete_model
\* gives up (rejected_in_use).
ScanLive(w, p) ==
    /\ pc[w] = "scan" /\ snap[w][p] # None
    /\ PidAlive(snap[w][p].pid)
    /\ IF op[w].verb = "sweep"
       THEN /\ snap' = [snap EXCEPT ![w][p] = None]
            /\ UNCHANGED <<pc, op>>
       ELSE /\ snap' = [snap EXCEPT ![w] = NoSnap]
            /\ Return(w)
    /\ UNCHANGED <<files, proc, logs, up, seen>>

\* The listing is worked off: a sweep is done, delete_model goes on.
ScanDone(w) ==
    /\ pc[w] = "scan" /\ snap[w] = NoSnap
    /\ IF op[w].verb = "sweep" THEN Return(w) ELSE Goto(w, "drop") /\ op' = op
    /\ UNCHANGED <<files, proc, logs, up, snap, seen>>

\* ConfigStore.remove_model
DeleteDrop(w) ==
    /\ pc[w] = "drop"
    /\ store' = store \ {op[w].model}
    /\ Return(w)
    /\ UNCHANGED <<lock, mark, proc, logs, up, snap, seen>>

\* ConfigStore.add_model
Add(w, m) ==
    /\ Idle(w, "add") /\ m \notin store
    /\ store' = store \cup {m}
    /\ UNCHANGED <<lock, mark, proc, logs, up, local>>

\* request_cancel reads the marker ...
CancelEnter(w, p) ==
    /\ Idle(w, "cancel") /\ ReadMark(p) # None
    /\ seen' = [seen EXCEPT ![w] = ReadMark(p)]
    /\ Enter(w, "write", "cancel", p, None)
    /\ UNCHANGED <<files, proc, logs, up, snap>>

\* ... and replaces the file with a flagged copy of what it read.
CancelWrite(w) ==
    /\ pc[w] = "write"
    /\ mark' = [mark EXCEPT ![op[w].port] = [seen[w] EXCEPT !.cancelled = TRUE]]
    /\ seen' = [seen EXCEPT ![w] = None]
    /\ Return(w)
    /\ UNCHANGED <<lock, store, proc, logs, up, snap>>

UpkeepCall(w) == \/ SweepEnter(w)
                 \/ \E m \in Models : DeleteEnter(w, m) \/ Add(w, m)
                 \/ \E p \in Ports : CancelEnter(w, p)

UpkeepStep(w) == \/ \E p \in Ports : ScanStale(w, p) \/ ScanLive(w, p)
                 \/ ScanDone(w) \/ DeleteDrop(w) \/ CancelWrite(w)
=============================================================================

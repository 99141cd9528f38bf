------------------------------ MODULE RemoteProofs ------------------------------
(* That no caller is told of a failure before a success, for every number of *)
(* callers and threads and every timeout that leaves the margin above the    *)
(* grace.                                                                    *)
EXTENDS Remote, TLAPS

JobOK(x) ==
    job[x] # None =>
        /\ \/ job[x].verb = "start" /\ job[x].step = "load"
           \/ job[x].verb = "stop" /\ job[x].step = "term"
           \/ job[x].verb = "swap"
        /\ job[x].verb = "swap" /\ job[x].step # "restore" => job[x].left \in Models
        /\ job[x].verb = "swap" /\ job[x].step = "term" => job[x].model \in Models
        /\ job[x].age <= Limit(job[x])

AskedOK(c) ==
    /\ call[c].at \in {"decide", "here", "sent"} =>
          /\ call[c].waited = 0
          /\ call[c].verb \in {"start", "swap"} => call[c].model \in Models
    /\ call[c].at = "wait" => call[c].waited <= Patience(call[c].verb)

\* The longest that the client of a job may have waited for it so far.
Elapsed(j) == IF j.verb = "swap" /\ j.step = "load" THEN Grace + j.age ELSE j.age

\* A job that can still succeed has its client waiting, and no longer than the
\* verb has been under way.
Linked(t) ==
    /\ job[t] # None /\ job[t].verb # "stop"
    /\ job[t].step # "restore" /\ job[t].caller # None
    => /\ call[job[t].caller].at = "wait" /\ call[job[t].caller].thread = t
       /\ call[job[t].caller].verb = job[t].verb
       /\ call[job[t].caller].waited <= Elapsed(job[t])

Answering(c) ==
    call[c].at = "wait" /\ call[c].thread # None =>
        job[call[c].thread] # None /\ job[call[c].thread].caller = c

\* Who executes its verb itself has decided to.
Here(c) == job[c] # None => call[c].at = "here"

RInv == /\ RemoteTypeOK
        /\ \A x \in Executors : JobOK(x)
        /\ \A c \in Callers : AskedOK(c) /\ Answering(c) /\ Here(c)
        /\ \A t \in Threads : Linked(t)

\* The timeouts are numbers, in the order the code gives them.
LEMMA Numbers ==
    /\ Control \in Nat /\ Grace \in Nat /\ Ready \in Nat /\ Margin \in Nat
    /\ Grace < Margin /\ Control < Ready /\ Ready > 0 /\ Margin > 0
BY RemoteAssumption

\* No call is a well-formed call.
LEMMA NoCallOK == NoCall \in Call
BY Numbers DEF NoCall, Call, Verbs

\* Nobody calls anybody at first.
LEMMA Initially == RemoteInit => RInv
<1> SUFFICES ASSUME RemoteInit PROVE RInv
    OBVIOUS
<1>1. RemoteTypeOK
    BY NoCallOK DEF RemoteInit, RemoteTypeOK, Executors
<1>2. /\ \A c \in Callers : call[c].at = "idle"
      /\ \A x \in Executors : job[x] = None
    BY DEF RemoteInit, NoCall
<1> QED BY <1>1, <1>2 DEF RInv, JobOK, AskedOK, Answering, Here, Linked,
                      Executors

-----------------------------------------------------------------------------
(* What the parts of the steps do to jobs and calls. *)

\* A job goes on to the next of its steps, or ends.
GoesOn(x) ==
    /\ \A y \in Executors \ {x} : job'[y] = job[y]
    /\ \/ job'[x] = None
       \/ /\ job[x].verb = "swap" /\ job'[x] # None
          /\ job'[x].verb = "swap" /\ job'[x].caller = job[x].caller
          /\ job'[x].age = 0
          /\ \/ job[x].step = "term" /\ job'[x].step = "load"
             \/ job[x].step = "load" /\ job'[x].step = "restore"

HostTyped ==
    /\ server' \in Server \cup {None} /\ marker' \in Executors \cup {None}
    /\ job' \in [Executors -> Job \cup {None}]

\* A verb goes on to its next step, or ends.
LEMMA AdvanceEffect ==
    ASSUME RInv, NEW x \in Executors, job[x] # None, Advances(x)
    PROVE  HostTyped /\ JobOK(x)' /\ GoesOn(x)
<1> USE DEF RInv, RemoteTypeOK
<1>0. /\ job[x] \in Job /\ JobOK(x) /\ server \in Server \cup {None}
      /\ None \notin Job /\ job \in [Executors -> Job \cup {None}]
    BY RemoteAssumption, NoneAssumption
<1>1. ASSUME Ends(x), server' \in Server \cup {None}
      PROVE  HostTyped /\ JobOK(x)' /\ GoesOn(x)
    BY <1>0, <1>1 DEF Ends, Frees, HostTyped, JobOK, GoesOn
<1>2. ASSUME NEW m \in Models PROVE Spawned(x, m) \in Server
    BY DEF Spawned, Server
<1>3. CASE Loaded(x)
  <2>1. server' \in Server \cup {None}
      BY <1>0, <1>3 DEF Loaded, Mine, Server
  <2> QED BY <1>1, <1>3, <2>1 DEF Loaded
<1>4. CASE Restored(x)
  <2>1. server' \in Server \cup {None}
      BY <1>0, <1>4 DEF Restored, Mine, Server
  <2> QED BY <1>1, <1>4, <2>1 DEF Restored
<1>5. CASE LoadFails(x)
  <2>1. CASE job[x].verb = "swap"
    <3> DEFINE next == [job[x] EXCEPT !.step = "restore", !.age = 0, !.left = None]
    <3>1. /\ job[x].step = "load" /\ server' = Spawned(x, job[x].left)
          /\ job' = [job EXCEPT ![x] = next] /\ UNCHANGED marker
        BY <1>5, <2>1 DEF LoadFails
    <3>2. job[x].left \in Models
        BY <1>0, <2>1, <3>1 DEF JobOK
    <3>3. /\ next \in Job /\ next # None
          /\ next.verb = "swap" /\ next.step = "restore"
          /\ next.age = 0 /\ next.caller = job[x].caller
      <4>1. 0 \in 0 .. Ready + Margin
          BY Numbers
      <4>2. next \in Job
          BY <1>0, <4>1 DEF Job
      <4> QED BY <1>0, <2>1, <4>2 DEF Job
    <3>4. HostTyped
        BY <1>0, <1>2, <3>1, <3>2, <3>3 DEF HostTyped
    <3>5. job'[x] = next
        BY <1>0, <3>1
    <3> HIDE DEF next
    <3>6. JobOK(x)'
        BY <3>3, <3>5, Numbers DEF JobOK, Limit
    <3>7. GoesOn(x)
        BY <1>0, <2>1, <3>1, <3>3, <3>5 DEF GoesOn
    <3> QED BY <3>4, <3>6, <3>7
  <2>2. CASE job[x].verb # "swap"
      BY <1>0, <1>1, <1>5, <2>2 DEF LoadFails
  <2> QED BY <2>1, <2>2
<1>6. CASE Terminated(x)
  <2>1. CASE job[x].verb = "swap"
    <3> DEFINE next == [job[x] EXCEPT !.step = "load", !.age = 0, !.model = None]
    <3>1. /\ job[x].step = "term" /\ server' = Spawned(x, job[x].model)
          /\ job' = [job EXCEPT ![x] = next] /\ UNCHANGED marker
        BY <1>6, <2>1 DEF Terminated
    <3>2. job[x].left \in Models /\ job[x].model \in Models
        BY <1>0, <2>1, <3>1 DEF JobOK
    <3>3. /\ next \in Job /\ next # None
          /\ next.verb = "swap" /\ next.step = "load"
          /\ next.age = 0 /\ next.caller = job[x].caller /\ next.left = job[x].left
      <4>1. 0 \in 0 .. Ready + Margin
          BY Numbers
      <4>2. next \in Job
          BY <1>0, <4>1 DEF Job
      <4> QED BY <1>0, <2>1, <4>2 DEF Job
    <3>4. HostTyped
        BY <1>0, <1>2, <3>1, <3>2, <3>3 DEF HostTyped
    <3>5. job'[x] = next
        BY <1>0, <3>1
    <3> HIDE DEF next
    <3>6. JobOK(x)'
        BY <3>2, <3>3, <3>5, Numbers DEF JobOK, Limit
    <3>7. GoesOn(x)
        BY <1>0, <2>1, <3>1, <3>3, <3>5 DEF GoesOn
    <3> QED BY <3>4, <3>6, <3>7
  <2>2. CASE job[x].verb # "swap"
      BY <1>0, <1>1, <1>6, <2>2 DEF Terminated
  <2> QED BY <2>1, <2>2
<1>7. CASE TerminationFails(x)
    BY <1>0, <1>1, <1>7 DEF TerminationFails
<1> QED BY <1>3, <1>4, <1>5, <1>6, <1>7 DEF Advances

\* A job that begins belongs to its caller and has just begun.
BeginsFor(x, c) ==
    /\ \A y \in Executors \ {x} : job'[y] = job[y]
    /\ job'[x] # None /\ job'[x].caller = c /\ job'[x].age = 0
    /\ job'[x].verb = call[c].verb /\ job'[x].step # "restore"
    /\ job'[x].verb # "delete"

\* A call that is taken up begins the job it asks for.
LEMMA WaitEffect ==
    ASSUME RInv, NEW x \in Executors, NEW c \in Callers, Waits(x, c),
           call[c].at \in {"here", "sent"}
    PROVE  HostTyped /\ JobOK(x)' /\ BeginsFor(x, c)
<1> USE DEF RInv, RemoteTypeOK
<1>0. /\ call[c] \in Call /\ server \in Server \cup {None}
      /\ job \in [Executors -> Job \cup {None}] /\ None \notin Job
      /\ None \notin Models /\ marker \in Executors \cup {None}
    BY RemoteAssumption, NoneAssumption
<1>1. call[c].verb \in {"start", "swap"} => call[c].model \in Models
    BY DEF AskedOK
<1>2. ASSUME NEW step \in {"term", "load"}, NEW left \in Models \cup {None},
             Begun(x, c, step, left)
      PROVE  /\ job' \in [Executors -> Job \cup {None}]
             /\ job'[x] \in Job /\ job'[x].verb = call[c].verb
             /\ job'[x].step = step /\ job'[x].age = 0 /\ job'[x].left = left
             /\ job'[x].model = IF left = None THEN None ELSE call[c].model
             /\ job'[x].caller = c
             /\ \A y \in Executors \ {x} : job'[y] = job[y]
  <2> DEFINE new == [verb |-> call[c].verb,
                     model |-> IF left = None THEN None ELSE call[c].model,
                     step |-> step, age |-> 0, left |-> left, caller |-> c]
  <2>1. new \in Job
      BY <1>0, <1>2, Numbers DEF Job, Call
  <2>2. job' = [job EXCEPT ![x] = new]
      BY <1>2 DEF Begun
  <2> QED BY <1>0, <2>1, <2>2
<1>3. CASE StartWaits(x, c)
  <2>1. /\ call[c].verb = "start" /\ server' \in Server /\ marker' = x
        /\ Begun(x, c, "load", None)
      BY <1>1, <1>3 DEF StartWaits, Spawned, Server
  <2>2. HostTyped
      BY <1>0, <1>2, <2>1 DEF HostTyped
  <2>3. JobOK(x)'
      BY <1>2, <2>1, Numbers DEF JobOK, Limit
  <2>4. BeginsFor(x, c)
      BY <1>0, <1>2, <2>1 DEF BeginsFor
  <2> QED BY <2>2, <2>3, <2>4
<1>4. CASE SwapWaits(x, c)
  <2>1. /\ call[c].verb = "swap" /\ marker' = x /\ UNCHANGED server
        /\ server.model \in Models /\ Begun(x, c, "term", server.model)
      BY <1>0, <1>4 DEF SwapWaits, Server
  <2> QED BY <1>0, <1>1, <1>2, <2>1, Numbers DEF HostTyped, JobOK, BeginsFor, Limit
<1>5. CASE StopWaits(x, c)
  <2>1. /\ call[c].verb = "stop" /\ UNCHANGED <<server, marker>>
        /\ Begun(x, c, "term", None)
      BY <1>5 DEF StopWaits
  <2> QED BY <1>0, <1>2, <2>1, Numbers DEF HostTyped, JobOK, BeginsFor, Limit
<1> QED BY <1>3, <1>4, <1>5 DEF Waits

-----------------------------------------------------------------------------
(* The steps. *)

\* The client of a job that can still succeed has patience left.
LEMMA Patient ==
    ASSUME RInv, NEW t \in Threads, job[t] # None, job[t].verb # "stop",
           job[t].step # "restore", job[t].caller # None
    PROVE  /\ call[job[t].caller].at = "wait" /\ call[job[t].caller].thread = t
           /\ call[job[t].caller].waited < Patience(call[job[t].caller].verb)
           /\ job[t].caller \in Callers
<1>1. /\ job[t] \in Job /\ JobOK(t) /\ Linked(t)
    BY DEF RInv, RemoteTypeOK, Executors
<1>2. job[t].caller \in Callers /\ job[t].age \in Nat
    BY <1>1, Numbers DEF Job
<1>3. call[job[t].caller].waited \in Nat
    BY <1>2, Numbers DEF RInv, RemoteTypeOK, Call
<1>4. Elapsed(job[t]) < Ready + Margin
    BY <1>1, <1>2, Numbers DEF JobOK, Elapsed, Limit
<1>5. Elapsed(job[t]) \in Nat
    BY <1>2, Numbers DEF Elapsed
<1>6. /\ call[job[t].caller].at = "wait" /\ call[job[t].caller].thread = t
      /\ call[job[t].caller].verb = job[t].verb
      /\ call[job[t].caller].waited <= Elapsed(job[t])
    BY <1>1 DEF Linked
<1>7. job[t].verb \in {"start", "swap"}
    BY <1>1 DEF JobOK
<1>8. Patience(call[job[t].caller].verb) = Ready + Margin
    BY <1>6, <1>7 DEF Patience
<1> QED BY <1>2, <1>3, <1>4, <1>5, <1>6, <1>8, Numbers

\* Callers and the threads of the agent are different workers.
LEMMA ThreadsApart ==
    /\ \A c \in Callers : c \in Executors /\ c \notin Threads /\ c # None
    /\ \A t \in Threads : t \in Executors /\ t \notin Callers /\ t # None
BY RemoteAssumption DEF Executors

\* A caller that no live job is linked to changes its call, and nothing else
\* happens: it asks, decides, is refused or gives up.
LEMMA CallStep ==
    ASSUME RInv, NEW c \in Callers, NEW new \in Call,
           call' = [call EXCEPT ![c] = new],
           UNCHANGED <<agent, server, marker, job>>,
           job[c] = None,
           \A t \in Threads : ~(job[t] # None /\ job[t].verb # "stop"
               /\ job[t].step # "restore" /\ job[t].caller = c),
           new.at # "wait",
           new.at \in {"decide", "here", "sent"} =>
               new.waited = 0 /\ (new.verb \in {"start", "swap"} => new.model \in Models)
    PROVE  RInv'
<1>1. RemoteTypeOK'
    BY DEF RInv, RemoteTypeOK
<1>2. call'[c] = new /\ \A d \in Callers \ {c} : call'[d] = call[d]
    BY DEF RInv, RemoteTypeOK
<1>3. \A x \in Executors : JobOK(x)'
    BY DEF RInv, JobOK
<1>4. \A d \in Callers : AskedOK(d)' /\ Answering(d)' /\ Here(d)'
  <2> SUFFICES ASSUME NEW d \in Callers
               PROVE  AskedOK(d)' /\ Answering(d)' /\ Here(d)'
      OBVIOUS
  <2>1. CASE d = c
      BY <1>2, <2>1 DEF AskedOK, Answering, Here
  <2>2. CASE d # c
      BY <1>2, <2>2 DEF RInv, AskedOK, Answering, Here
  <2> QED BY <2>1, <2>2
<1>5. \A t \in Threads : Linked(t)'
  <2> SUFFICES ASSUME NEW t \in Threads PROVE Linked(t)'
      OBVIOUS
  <2>1. job[t] # None => job[t].caller \in Callers \cup {None}
      BY ThreadsApart DEF RInv, RemoteTypeOK, Job
  <2> QED BY <1>2, <2>1 DEF RInv, Linked, Elapsed
<1> QED BY <1>1, <1>3, <1>4, <1>5 DEF RInv

\* A caller that asks, decides or gives up keeps the invariant ...
LEMMA CallSteps ==
    ASSUME RInv, NEW c \in Callers,
           Asks(c) \/ Decide(c) \/ GivesUp(c) \/ Refused(c)
    PROVE  RInv'
<1>0. /\ call[c] \in Call /\ AskedOK(c) /\ Here(c)
      /\ agent \in BOOLEAN /\ NoCall \in Call
    BY NoCallOK DEF RInv, RemoteTypeOK
<1>1. ASSUME NEW t \in Threads, job[t] # None, job[t].verb # "stop",
             job[t].step # "restore", job[t].caller = c
      PROVE  call[c].at = "wait" /\ call[c].waited < Patience(call[c].verb)
    BY <1>1, Patient, ThreadsApart
<1>2. call[c].at # "here" => job[c] = None
    BY <1>0 DEF Here
<1>3. ASSUME NEW v \in Verbs, NEW m \in Models \cup {None}, Ask(c, v, m),
             v \in {"start", "swap"} => m \in Models
      PROVE  RInv'
  <2> DEFINE new == [NoCall EXCEPT !.at = "decide", !.verb = v, !.model = m]
  <2>1. /\ new \in Call /\ new.at = "decide" /\ new.waited = 0
        /\ new.verb = v /\ new.model = m
      BY <1>0 DEF NoCall, Call, Verbs
  <2>2. /\ call[c].at = "idle" /\ call' = [call EXCEPT ![c] = new]
        /\ UNCHANGED <<agent, server, marker, job>>
      BY <1>3 DEF Ask
  <2> HIDE DEF new
  <2> QED BY <1>0, <1>1, <1>2, <1>3, <2>1, <2>2, CallStep
<1>4. ASSUME Asks(c) PROVE RInv'
    BY <1>3, <1>4 DEF Asks, Verbs
<1>5. ASSUME Decide(c) PROVE RInv'
  <2> PICK healthy \in Healthy :
          call' = [call EXCEPT ![c].at =
                      IF Delegates(c, healthy) THEN "sent" ELSE "here"]
      BY <1>5 DEF Decide
  <2> DEFINE new == [call[c] EXCEPT !.at =
                        IF Delegates(c, healthy) THEN "sent" ELSE "here"]
  <2>1. /\ call[c].at = "decide" /\ call' = [call EXCEPT ![c] = new]
        /\ UNCHANGED <<agent, server, marker, job>>
      BY <1>5 DEF Decide
  <2>2. /\ new \in Call /\ new.at \in {"sent", "here"}
        /\ new.waited = call[c].waited /\ new.verb = call[c].verb
        /\ new.model = call[c].model
      BY <1>0 DEF Call
  <2> HIDE DEF new
  <2>3. new.at \in {"sent", "here"} /\ new.waited = 0
        /\ (new.verb \in {"start", "swap"} => new.model \in Models)
      BY <1>0, <2>1, <2>2 DEF AskedOK
  <2> QED BY <1>0, <1>1, <1>2, <2>1, <2>2, <2>3, CallStep
<1>6. ASSUME call[c].at = "sent" \/
               (call[c].at = "wait" /\ call[c].waited >= Patience(call[c].verb)),
             Hears(c), UNCHANGED <<agent, server, marker, job>>
      PROVE  RInv'
  <2>1. \A t \in Threads : ~(job[t] # None /\ job[t].verb # "stop"
               /\ job[t].step # "restore" /\ job[t].caller = c)
    <3>1. call[c].waited \in Nat /\ Patience(call[c].verb) \in Nat
        BY <1>0, Numbers DEF Call, Patience
    <3> QED BY <1>1, <1>6, <3>1
  <2> QED BY <1>0, <1>2, <1>6, <2>1, CallStep DEF Hears, NoCall
<1> QED BY <1>4, <1>5, <1>6 DEF GivesUp, Refused

\* ... one that runs the verb itself does ...
LEMMA RunsHereKeeps ==
    ASSUME RInv, NEW c \in Callers, RunsHere(c)
    PROVE  RInv'
<1>0. /\ call[c].at = "here" /\ job[c] = None /\ UNCHANGED agent
      /\ c \in Executors /\ NoCall \in Call
    BY ThreadsApart, NoCallOK DEF RunsHere
<1>1. CASE Waits(c, c) /\ UNCHANGED call
  <2>1. HostTyped /\ JobOK(c)' /\ BeginsFor(c, c)
      BY <1>0, <1>1, WaitEffect
  <2>2. RemoteTypeOK'
      BY <1>0, <1>1, <2>1 DEF RInv, RemoteTypeOK, HostTyped
  <2>3. \A x \in Executors : JobOK(x)'
      BY <2>1 DEF RInv, JobOK, BeginsFor
  <2>4. \A d \in Callers : AskedOK(d)'
      BY <1>0, <1>1 DEF RInv, AskedOK
  <2>5. \A d \in Callers : Here(d)'
      BY <1>0, <1>1, <2>1, ThreadsApart DEF RInv, Here, BeginsFor
  <2>6. \A d \in Callers : call[d].thread \in Threads \cup {None}
      BY DEF RInv, RemoteTypeOK, Call
  <2>7. \A d \in Callers : Answering(d)'
      BY <1>1, <2>1, <2>6, ThreadsApart DEF RInv, Answering, BeginsFor
  <2>8. \A t \in Threads : Linked(t)'
      BY <1>1, <2>1, ThreadsApart DEF RInv, Linked, BeginsFor
  <2> QED BY <2>2, <2>3, <2>4, <2>5, <2>7, <2>8 DEF RInv
<1>2. CASE Hears(c) /\ UNCHANGED <<server, marker, job>>
  <2>1. \A t \in Threads : ~(job[t] # None /\ job[t].verb # "stop"
               /\ job[t].step # "restore" /\ job[t].caller = c)
      BY <1>0, Patient, ThreadsApart
  <2> QED BY <1>0, <1>2, <2>1, CallStep DEF Hears, NoCall, RInv, RemoteTypeOK
<1> QED BY <1>1, <1>2 DEF RunsHere

\* ... also while the verb goes on ...
LEMMA AdvancesHereKeeps ==
    ASSUME RInv, NEW c \in Callers, AdvancesHere(c)
    PROVE  RInv'
<1>0. /\ job[c] # None /\ UNCHANGED agent
      /\ c \in Executors /\ NoCall \in Call /\ call[c].at = "here"
    BY ThreadsApart, NoCallOK DEF AdvancesHere, RInv, Here
<1>1. HostTyped /\ JobOK(c)' /\ GoesOn(c)
    BY <1>0, AdvanceEffect DEF AdvancesHere
<1>2. /\ call' \in [Callers -> Call]
      /\ \A d \in Callers \ {c} : call'[d] = call[d]
      /\ \/ call'[c] = NoCall /\ job'[c] = None
         \/ call'[c] = call[c]
    BY <1>0 DEF AdvancesHere, Hears, RInv, RemoteTypeOK
<1>3. RemoteTypeOK'
    BY <1>0, <1>1, <1>2 DEF RInv, RemoteTypeOK, HostTyped
<1>4. \A x \in Executors : JobOK(x)'
    BY <1>1 DEF RInv, JobOK, GoesOn
<1>5. \A t \in Threads : job'[t] = job[t]
    BY <1>1, ThreadsApart DEF GoesOn
<1>6. \A d \in Callers : AskedOK(d)' /\ Here(d)' /\ Answering(d)'
  <2> SUFFICES ASSUME NEW d \in Callers
               PROVE  AskedOK(d)' /\ Here(d)' /\ Answering(d)'
      OBVIOUS
  <2>1. call[d].thread \in Threads \cup {None}
      BY DEF RInv, RemoteTypeOK, Call
  <2>2. CASE d # c
    <3>1. call'[d] = call[d] /\ job'[d] = job[d]
        BY <1>1, <1>2, <2>2, ThreadsApart DEF GoesOn
    <3> QED BY <1>0, <1>5, <2>1, <3>1 DEF RInv, AskedOK, Here, Answering
  <2>3. CASE d = c
      BY <1>0, <1>2, <2>3 DEF RInv, AskedOK, Here, Answering, NoCall
  <2> QED BY <2>2, <2>3
<1>7. \A t \in Threads : Linked(t)'
  <2> SUFFICES ASSUME NEW t \in Threads PROVE Linked(t)'
      OBVIOUS
  <2>1. ASSUME job[t] # None, job[t].verb # "stop", job[t].step # "restore",
               job[t].caller # None
        PROVE  job[t].caller \in Callers \ {c}
      BY <1>0, <2>1, Patient
  <2> QED BY <1>2, <1>5, <2>1 DEF RInv, Linked, Elapsed
<1> QED BY <1>3, <1>4, <1>6, <1>7 DEF RInv

\* ... a thread that takes a call does ...
LEMMA HandlesKeeps ==
    ASSUME RInv, NEW t \in Threads, NEW c \in Callers, Handles(t, c)
    PROVE  RInv'
<1>0. /\ call[c].at = "sent" /\ job[t] = None /\ UNCHANGED agent
      /\ t \in Executors /\ c \in Executors /\ t # c /\ t # None /\ c # None
      /\ call[c] \in Call /\ AskedOK(c) /\ NoCall \in Call
    BY ThreadsApart, NoCallOK DEF Handles, RInv, RemoteTypeOK
<1>a. job[c] = None
    BY <1>0 DEF RInv, Here
<1>b. \A u \in Threads : job[u] # None /\ job[u].verb # "stop"
         /\ job[u].step # "restore" => job[u].caller # c
    BY <1>0, Patient, ThreadsApart
<1>1. CASE Waits(t, c) /\ (IF call[c].verb = "stop" THEN Hears(c)
             ELSE call' = [call EXCEPT ![c] = [@ EXCEPT !.at = "wait", !.model = None,
                                                       !.thread = t]])
  <2> DEFINE new == IF call[c].verb = "stop" THEN NoCall
                    ELSE [call[c] EXCEPT !.at = "wait", !.model = None, !.thread = t]
  <2>1. HostTyped /\ JobOK(t)' /\ BeginsFor(t, c)
      BY <1>0, <1>1, WaitEffect
  <2>2. /\ new \in Call
        /\ \/ new = NoCall /\ call[c].verb = "stop"
           \/ /\ new.at = "wait" /\ new.thread = t /\ new.waited = 0
              /\ new.verb = call[c].verb
      BY <1>0 DEF Call, AskedOK
  <2>3. call' = [call EXCEPT ![c] = new]
      BY <1>0, <1>1 DEF Hears
  <2> HIDE DEF new
  <2>4. call'[c] = new /\ \A d \in Callers \ {c} : call'[d] = call[d]
      BY <2>3 DEF RInv, RemoteTypeOK
  <2>5. RemoteTypeOK'
      BY <1>0, <2>1, <2>2, <2>3 DEF RInv, RemoteTypeOK, HostTyped
  <2>6. \A x \in Executors : JobOK(x)'
      BY <2>1 DEF RInv, JobOK, BeginsFor
  <2>7. \A d \in Callers : AskedOK(d)' /\ Here(d)' /\ Answering(d)'
    <3> SUFFICES ASSUME NEW d \in Callers
                 PROVE  AskedOK(d)' /\ Here(d)' /\ Answering(d)'
        OBVIOUS
    <3>1. call[d].thread \in Threads \cup {None} /\ job'[d] = job[d]
        BY <2>1, ThreadsApart DEF RInv, RemoteTypeOK, Call, BeginsFor
    <3>2. CASE d # c
      <4>1. call[d].at = "wait" /\ call[d].thread # None => call[d].thread # t
          BY <1>0 DEF RInv, Answering
      <4>2. call[d].thread # None /\ call[d].thread # t =>
               job'[call[d].thread] = job[call[d].thread]
          BY <2>1, <3>1, ThreadsApart DEF BeginsFor
      <4> QED BY <1>0, <2>4, <3>1, <3>2, <4>1, <4>2
              DEF RInv, AskedOK, Here, Answering
    <3>3. CASE d = c
      <4>1. 0 <= Patience(new.verb)
          BY Numbers DEF Patience
      <4> QED BY <1>0, <1>a, <2>1, <2>2, <2>4, <3>1, <3>3, <4>1
              DEF AskedOK, Here, Answering, NoCall, BeginsFor
    <3> QED BY <3>2, <3>3
  <2>8. \A u \in Threads : Linked(u)'
    <3> SUFFICES ASSUME NEW u \in Threads PROVE Linked(u)'
        OBVIOUS
    <3>1. CASE u = t
      <4>1. 0 <= Elapsed(job'[t])
          BY <2>1, Numbers DEF Elapsed, BeginsFor
      <4> QED BY <1>0, <2>1, <2>2, <2>4, <3>1, <4>1 DEF Linked, BeginsFor
    <3>2. CASE u # t
      <4>1. job'[u] = job[u]
          BY <2>1, <3>2, ThreadsApart DEF BeginsFor
      <4>2. job[u] # None => job[u].caller \in Callers \cup {None}
          BY ThreadsApart DEF RInv, RemoteTypeOK, Job
      <4> QED BY <1>b, <2>4, <4>1, <4>2 DEF RInv, Linked, Elapsed
    <3> QED BY <3>1, <3>2
  <2> QED BY <2>5, <2>6, <2>7, <2>8 DEF RInv
<1>2. CASE Hears(c) /\ UNCHANGED <<server, marker, job>>
    BY <1>0, <1>a, <1>b, <1>2, CallStep DEF Hears, NoCall, RInv, RemoteTypeOK
<1> QED BY <1>1, <1>2 DEF Handles

\* ... a caller that hangs up ...
LEMMA DisconnectsKeeps ==
    ASSUME RInv, NEW c \in Callers, Disconnects(c)
    PROVE  RInv'
<1>0. PICK t \in Threads : t = call[c].thread
    BY DEF Disconnects, RInv, RemoteTypeOK, Call
<1>1. /\ call[c].at = "wait" /\ job[t] # None /\ job[t].caller = c
      /\ t \in Executors /\ call[c] \in Call /\ job[t] \in Job
    BY <1>0, ThreadsApart DEF Disconnects, RInv, RemoteTypeOK, Answering
<1> DEFINE newJob == [job[t] EXCEPT !.caller = None]
           newCall == [call[c] EXCEPT !.thread = None]
<1>2. /\ job' = [job EXCEPT ![t] = newJob] /\ call' = [call EXCEPT ![c] = newCall]
      /\ UNCHANGED <<agent, server, marker>>
    BY <1>0 DEF Disconnects
<1>3. /\ newJob \in Job /\ newJob # None /\ newJob.caller = None
      /\ newJob.verb = job[t].verb /\ newJob.step = job[t].step
      /\ newJob.age = job[t].age /\ newJob.left = job[t].left
      /\ newJob.model = job[t].model
  <2>1. newJob \in Job
      BY <1>1 DEF Job
  <2> QED BY <1>1, <2>1, NoneAssumption DEF Job
<1>4. /\ newCall \in Call /\ newCall.thread = None /\ newCall.at = "wait"
      /\ newCall.waited = call[c].waited /\ newCall.verb = call[c].verb
    BY <1>1 DEF Call
<1>5. \A x \in Executors \ {t} : job'[x] = job[x]
    BY <1>2 DEF RInv, RemoteTypeOK
<1>6. \A d \in Callers \ {c} : call'[d] = call[d]
    BY <1>2 DEF RInv, RemoteTypeOK
<1>7. job'[t] = newJob /\ call'[c] = newCall
    BY <1>1, <1>2 DEF RInv, RemoteTypeOK
<1> HIDE DEF newJob, newCall
<1>8. RemoteTypeOK'
    BY <1>2, <1>3, <1>4 DEF RInv, RemoteTypeOK
<1>9. \A x \in Executors : JobOK(x)'
  <2>1. JobOK(t)'
      BY <1>1, <1>3, <1>7 DEF RInv, JobOK, Limit
  <2> QED BY <1>5, <2>1 DEF RInv, JobOK, Limit
<1>10. \A d \in Callers : AskedOK(d)' /\ Here(d)' /\ Answering(d)'
  <2> SUFFICES ASSUME NEW d \in Callers
               PROVE  AskedOK(d)' /\ Here(d)' /\ Answering(d)'
      OBVIOUS
  <2>1. job'[d] = job[d] /\ call[d].thread \in Threads \cup {None}
      BY <1>1, <1>5, ThreadsApart DEF RInv, RemoteTypeOK, Call
  <2>2. CASE d # c
    <3>1. call'[d] = call[d] /\ (call[d].at = "wait" => call[d].thread # t)
        BY <1>1, <1>6, <2>2, ThreadsApart DEF RInv, Answering
    <3> QED BY <1>2, <1>5, <2>1, <2>2, <3>1, ThreadsApart
            DEF RInv, AskedOK, Here, Answering
  <2>3. CASE d = c
      BY <1>1, <1>2, <1>4, <1>7, <2>1, <2>3 DEF RInv, AskedOK, Here, Answering
  <2> QED BY <2>2, <2>3
<1>11. \A u \in Threads : Linked(u)'
  <2> SUFFICES ASSUME NEW u \in Threads PROVE Linked(u)'
      OBVIOUS
  <2>1. CASE u = t
      BY <1>3, <1>7, <2>1 DEF Linked
  <2>2. CASE u # t
    <3>1. job'[u] = job[u]
        BY <1>5, <2>2, ThreadsApart
    <3>2. job[u] # None /\ job[u].verb # "stop" /\ job[u].step # "restore"
             /\ job[u].caller # None => job[u].caller \in Callers \ {c}
        BY <1>0, <2>2, Patient
    <3> QED BY <1>6, <3>1, <3>2 DEF RInv, Linked, Elapsed
  <2> QED BY <2>1, <2>2
<1> QED BY <1>8, <1>9, <1>10, <1>11 DEF RInv

\* ... the verb of a thread that goes on, whoever waits for it ...
LEMMA AdvancesThereKeeps ==
    ASSUME RInv, NEW t \in Threads, AdvancesThere(t)
    PROVE  RInv'
<1>0. /\ job[t] # None /\ UNCHANGED agent /\ t \in Executors
      /\ JobOK(t) /\ job[t] \in Job
    BY ThreadsApart DEF AdvancesThere, RInv, RemoteTypeOK
<1>1. HostTyped /\ JobOK(t)' /\ GoesOn(t)
    BY <1>0, AdvanceEffect DEF AdvancesThere
<1>2. call' = [d \in Callers |->
          IF Awaits(d, t) /\ job'[t] = None THEN NoCall ELSE call[d]]
    BY DEF AdvancesThere
<1>3. RemoteTypeOK'
    BY <1>0, <1>1, <1>2, NoCallOK DEF RInv, RemoteTypeOK, HostTyped
<1>4. \A x \in Executors : JobOK(x)'
    BY <1>1 DEF RInv, JobOK, GoesOn
<1>5. \A d \in Callers : AskedOK(d)' /\ Here(d)' /\ Answering(d)'
  <2> SUFFICES ASSUME NEW d \in Callers
               PROVE  AskedOK(d)' /\ Here(d)' /\ Answering(d)'
      OBVIOUS
  <2>1. job'[d] = job[d] /\ call[d].thread \in Threads \cup {None}
      BY <1>1, ThreadsApart DEF RInv, RemoteTypeOK, Call, GoesOn
  <2>2. CASE Awaits(d, t) /\ job'[t] = None
    <3>1. call'[d] = NoCall /\ job[d] = None
        BY <1>2, <2>2 DEF Awaits, RInv, Here
    <3> QED BY <2>1, <3>1 DEF AskedOK, Here, Answering, NoCall
  <2>3. CASE ~(Awaits(d, t) /\ job'[t] = None)
    <3>1. call'[d] = call[d]
        BY <1>2, <2>3
    <3>2. Answering(d)'
      <4> SUFFICES ASSUME call[d].at = "wait", call[d].thread # None
                   PROVE  job'[call[d].thread] # None /\ job'[call[d].thread].caller = d
          BY <3>1 DEF Answering
      <4>1. job[call[d].thread] # None /\ job[call[d].thread].caller = d
          BY DEF RInv, Answering
      <4>2. CASE call[d].thread = t
          BY <1>1, <2>3, <4>1, <4>2 DEF Awaits, GoesOn
      <4>3. CASE call[d].thread # t
          BY <1>1, <2>1, <4>1, <4>3, ThreadsApart DEF GoesOn
      <4> QED BY <4>2, <4>3
    <3> QED BY <1>0, <2>1, <3>1, <3>2 DEF RInv, AskedOK, Here
  <2> QED BY <2>2, <2>3
<1>6. \A u \in Threads : Linked(u)'
  <2> SUFFICES ASSUME NEW u \in Threads, job'[u] # None, job'[u].verb # "stop",
                      job'[u].step # "restore", job'[u].caller # None
               PROVE  /\ call'[job'[u].caller].at = "wait"
                      /\ call'[job'[u].caller].thread = u
                      /\ call'[job'[u].caller].verb = job'[u].verb
                      /\ call'[job'[u].caller].waited <= Elapsed(job'[u])
      BY DEF Linked
  <2>1. CASE u = t
    <3>1. /\ job[t].verb = "swap" /\ job[t].step = "term" /\ job'[t].step = "load"
          /\ job'[t].verb = "swap" /\ job'[t].caller = job[t].caller /\ job'[t].age = 0
        BY <1>1, <2>1 DEF GoesOn
    <3>2. /\ call[job[t].caller].at = "wait" /\ call[job[t].caller].thread = t
          /\ call[job[t].caller].verb = "swap"
          /\ call[job[t].caller].waited <= job[t].age
          /\ job[t].caller \in Callers
        BY <2>1, <3>1, <1>0, Patient DEF RInv, Linked, Elapsed
    <3>3. call'[job[t].caller] = call[job[t].caller]
        BY <1>2, <2>1, <3>2
    <3>4. /\ job[t].age <= Grace /\ job[t].age \in Nat
          /\ call[job[t].caller].waited \in Nat
        BY <1>0, <3>1, <3>2, Numbers DEF JobOK, Limit, Job, Call, RInv, RemoteTypeOK
    <3> QED BY <2>1, <3>1, <3>2, <3>3, <3>4, Numbers DEF Elapsed
  <2>2. CASE u # t
    <3>1. job'[u] = job[u]
        BY <1>1, <2>2, ThreadsApart DEF GoesOn
    <3>2. /\ job[u].caller \in Callers /\ call[job[u].caller].thread = u
        BY <3>1, Patient
    <3>3. call'[job[u].caller] = call[job[u].caller]
        BY <1>2, <2>2, <3>2 DEF Awaits
    <3> QED BY <3>1, <3>3 DEF RInv, Linked
  <2> QED BY <2>1, <2>2
<1> QED BY <1>3, <1>4, <1>5, <1>6 DEF RInv

\* ... the clock ...
LEMMA TickKeeps ==
    ASSUME RInv, Tick
    PROVE  RInv'
<1>0. /\ \A x \in Executors : job[x] # None => job[x].age < Limit(job[x])
      /\ \A c \in Callers :
            call[c].at = "wait" => call[c].waited < Patience(call[c].verb)
      /\ job' = [x \in Executors |->
            IF job[x] = None THEN None ELSE [job[x] EXCEPT !.age = @ + 1]]
      /\ call' = [c \in Callers |->
            IF call[c].at = "wait" THEN [call[c] EXCEPT !.waited = @ + 1] ELSE call[c]]
      /\ UNCHANGED <<agent, server, marker>>
    BY DEF Tick
<1>1. ASSUME NEW x \in Executors, job[x] # None
      PROVE  /\ job'[x] \in Job /\ job'[x] # None /\ job'[x].age = job[x].age + 1
             /\ job[x].age \in Nat /\ job[x].age < Limit(job[x])
             /\ job'[x].verb = job[x].verb /\ job'[x].step = job[x].step
             /\ job'[x].model = job[x].model /\ job'[x].left = job[x].left
             /\ job'[x].caller = job[x].caller
  <2>1. job[x] \in Job /\ job[x].age < Limit(job[x])
      BY <1>0, <1>1 DEF RInv, RemoteTypeOK
  <2>2. job[x].age \in Nat /\ job[x].age + 1 \in 0 .. Ready + Margin
      BY <2>1, Numbers DEF Job, Limit
  <2> DEFINE new == [job[x] EXCEPT !.age = job[x].age + 1]
  <2>3. new \in Job
      BY <2>1, <2>2 DEF Job
  <2>4. job'[x] = new
      BY <1>0, <1>1
  <2> QED BY <2>1, <2>2, <2>3, <2>4, NoneAssumption DEF Job
<1>2. ASSUME NEW c \in Callers, call[c].at = "wait"
      PROVE  /\ call'[c] \in Call /\ call'[c].waited = call[c].waited + 1
             /\ call[c].waited \in Nat
             /\ call'[c].waited <= Patience(call[c].verb)
             /\ call'[c].at = "wait" /\ call'[c].verb = call[c].verb
             /\ call'[c].thread = call[c].thread
  <2>1. call[c] \in Call /\ call[c].waited < Patience(call[c].verb)
      BY <1>0, <1>2 DEF RInv, RemoteTypeOK
  <2>2. /\ call[c].waited \in Nat /\ call[c].waited + 1 \in 0 .. Ready + Margin
        /\ call[c].waited + 1 <= Patience(call[c].verb)
      BY <2>1, Numbers DEF Call, Patience
  <2> DEFINE new == [call[c] EXCEPT !.waited = call[c].waited + 1]
  <2>3. new \in Call
      BY <2>1, <2>2 DEF Call
  <2>4. call'[c] = new
      BY <1>0, <1>2
  <2> QED BY <1>2, <2>1, <2>2, <2>3, <2>4 DEF Call
<1>3. \A x \in Executors : job[x] = None => job'[x] = None
    BY <1>0
<1>4. \A c \in Callers : call[c].at # "wait" => call'[c] = call[c]
    BY <1>0
<1>5. RemoteTypeOK'
  <2>1. \A x \in Executors : job'[x] \in Job \cup {None}
      BY <1>1, <1>3
  <2>2. \A c \in Callers : call'[c] \in Call
      BY <1>2, <1>4 DEF RInv, RemoteTypeOK
  <2> QED BY <1>0, <2>1, <2>2 DEF RInv, RemoteTypeOK
<1>6. \A x \in Executors : JobOK(x)'
  <2> SUFFICES ASSUME NEW x \in Executors, job[x] # None PROVE JobOK(x)'
      BY <1>3 DEF JobOK
  <2>1. Limit(job'[x]) = Limit(job[x]) /\ Limit(job[x]) \in Nat
      BY <1>1, Numbers DEF Limit
  <2> QED BY <1>1, <2>1 DEF RInv, JobOK
<1>7. \A c \in Callers : AskedOK(c)'
    BY <1>0, <1>2, <1>4 DEF RInv, AskedOK
<1>8. \A c \in Callers : Here(c)'
    BY <1>3, <1>4, ThreadsApart DEF RInv, Here
<1>9. \A c \in Callers : Answering(c)'
  <2>1. \A c \in Callers : call[c].thread \in Threads \cup {None}
      BY DEF RInv, RemoteTypeOK, Call
  <2> QED BY <1>1, <1>2, <1>4, <2>1, ThreadsApart DEF RInv, Answering
<1>10. \A t \in Threads : Linked(t)'
  <2> SUFFICES ASSUME NEW t \in Threads, job[t] # None, job[t].verb # "stop",
                      job[t].step # "restore", job[t].caller # None
               PROVE  /\ call'[job[t].caller].at = "wait"
                      /\ call'[job[t].caller].thread = t
                      /\ call'[job[t].caller].verb = job[t].verb
                      /\ call'[job[t].caller].waited <= Elapsed(job'[t])
      BY <1>1, <1>3, ThreadsApart DEF Linked
  <2>1. /\ job[t].caller \in Callers /\ t \in Executors
        /\ call[job[t].caller].at = "wait" /\ call[job[t].caller].thread = t
        /\ call[job[t].caller].verb = job[t].verb
        /\ call[job[t].caller].waited <= Elapsed(job[t])
      BY Patient, ThreadsApart DEF RInv, Linked
  <2>2. /\ call'[job[t].caller].waited = call[job[t].caller].waited + 1
        /\ call[job[t].caller].waited \in Nat
      BY <1>2, <2>1
  <2>3. Elapsed(job'[t]) = Elapsed(job[t]) + 1 /\ Elapsed(job[t]) \in Nat
      BY <1>1, <2>1, Numbers DEF Elapsed
  <2> QED BY <1>2, <2>1, <2>2, <2>3
<1> QED BY <1>5, <1>6, <1>7, <1>8, <1>9, <1>10 DEF RInv

\* ... and the agent that dies or comes back.
LEMMA AgentKeeps ==
    ASSUME RInv, AgentDies \/ AgentComes \/ ServerExits
    PROVE  RInv'
<1>0. \A c \in Callers : call[c] \in Call /\ call[c].thread \in Threads \cup {None}
    BY DEF RInv, RemoteTypeOK, Call
<1>1. CASE AgentDies
  <2>1. /\ agent' = FALSE
        /\ job' = [x \in Executors |-> IF x \in Threads THEN None ELSE job[x]]
        /\ marker' = (IF marker \in Threads THEN None ELSE marker)
        /\ call' = [c \in Callers |->
              IF call[c].at = "wait" /\ call[c].thread # None THEN NoCall ELSE call[c]]
        /\ server' = IF server = None THEN None ELSE [server EXCEPT !.loading = FALSE]
      BY <1>1 DEF AgentDies
  <2>2. server' \in Server \cup {None}
      BY <2>1 DEF RInv, RemoteTypeOK, Server
  <2>3. RemoteTypeOK'
      BY <2>1, <2>2, NoCallOK DEF RInv, RemoteTypeOK
  <2>4. \A x \in Executors : JobOK(x)'
      BY <2>1 DEF RInv, JobOK
  <2>5. \A t \in Threads : Linked(t)'
      BY <2>1, ThreadsApart DEF Linked
  <2>6. \A c \in Callers : AskedOK(c)' /\ Answering(c)' /\ Here(c)'
      BY <2>1, ThreadsApart DEF RInv, AskedOK, Answering, Here, NoCall
  <2> QED BY <2>3, <2>4, <2>5, <2>6 DEF RInv
<1>2. CASE AgentComes \/ ServerExits
  <2>1. /\ agent' \in BOOLEAN
        /\ server' \in Server \cup {None}
        /\ UNCHANGED <<marker, call, job>>
      BY <1>2 DEF AgentComes, ServerExits, RInv, RemoteTypeOK
  <2> QED BY <2>1 DEF RInv, RemoteTypeOK, JobOK, AskedOK, Answering, Here,
                      Linked
<1> QED BY <1>1, <1>2

\* Every step keeps the invariant.
LEMMA RemoteStep == RInv /\ [RemoteNext]_remoteVars => RInv'
<1>1. ASSUME RInv, UNCHANGED remoteVars PROVE RInv'
    BY <1>1 DEF remoteVars, RInv, RemoteTypeOK, JobOK, AskedOK, Answering,
                Here, Linked
<1> QED
    BY <1>1, CallSteps, RunsHereKeeps, AdvancesHereKeeps, HandlesKeeps,
       DisconnectsKeeps, AdvancesThereKeeps, TickKeeps, AgentKeeps
    DEF RemoteNext, CallerStep, ThreadStep

(* Calls, jobs and answers stay in order, whatever dies or disconnects.      *)
THEOREM RemoteTypes == RemoteSpec => []RemoteTypeOK
<1>1. RInv => RemoteTypeOK
    BY DEF RInv
<1> QED BY <1>1, Initially, RemoteStep, PTL DEF RemoteSpec

(* No client gives up on a start or a swap that then succeeds: its timeout,  *)
(* the readiness timeout and a margin, covers the load and the termination   *)
(* before it as long as the margin exceeds the termination grace.            *)
THEOREM NoFailureIsFalse == RemoteSpec => NoFalseFailure
<1>1. ASSUME RInv
      PROVE  \A t \in Threads :
                job[t] # None /\ job[t].caller # None /\ job[t].verb # "stop"
                /\ Succeeds(t) => Awaits(job[t].caller, t)
    BY <1>1, Patient DEF Succeeds, Loaded, Awaits
<1>2. RInv /\ [RemoteNext]_remoteVars =>
         [\A t \in Threads :
             job[t] # None /\ job[t].caller # None /\ job[t].verb # "stop"
             /\ Succeeds(t) => Awaits(job[t].caller, t)]_remoteVars
    BY <1>1
<1> QED BY <1>2, Initially, RemoteStep, PTL DEF RemoteSpec, NoFalseFailure
================================================================================

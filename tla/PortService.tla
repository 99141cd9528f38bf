------------------------------ MODULE PortService ------------------------------
(* What a node promises a caller of its verbs, with no files, markers or     *)
(* processes: each port serves one model or nothing, and it changes only     *)
(* while a call that may change it is waited for, in one step.               *)
CONSTANTS Ports, Models, Workers, None
VARIABLES
    served,  \* [Ports -> Models \cup {None}]
    asked    \* [Workers -> the call the worker waits for, or None]

Call == [verb : {"start", "swap", "stop", "sweep", "delete", "cancel"},
         port : Ports \cup {None}, model : Models \cup {None}]

Init == /\ served = [p \in Ports |-> None]
        /\ asked = [w \in Workers |-> None]

Ask(w) == /\ asked[w] = None
          /\ \E c \in Call : asked' = [asked EXCEPT ![w] = c]
          /\ UNCHANGED served

Answer(w) == /\ asked[w] # None
             /\ asked' = [asked EXCEPT ![w] = None]
             /\ UNCHANGED served

\* w waits for the verb on port p.
Waits(w, verb, p) ==
    asked[w] # None /\ asked[w].verb = verb /\ asked[w].port = p

\* A start fills an empty port with its model and displaces nobody.
Fill(w, p) == /\ Waits(w, "start", p) /\ served[p] = None
              /\ served' = [served EXCEPT ![p] = asked[w].model]
              /\ UNCHANGED asked

\* A swap replaces another model with its own.
Replace(w, p) == /\ Waits(w, "swap", p)
                 /\ served[p] \notin {None, asked[w].model}
                 /\ served' = [served EXCEPT ![p] = asked[w].model]
                 /\ UNCHANGED asked

\* A stop empties a port; so does a swap that could not restore the old model.
Vacate(w, p) == /\ Waits(w, "stop", p) \/ Waits(w, "swap", p)
                /\ served[p] # None
                /\ served' = [served EXCEPT ![p] = None]
                /\ UNCHANGED asked

Next == \E w \in Workers :
           \/ Ask(w) \/ Answer(w)
           \/ \E p \in Ports : Fill(w, p) \/ Replace(w, p) \/ Vacate(w, p)

Spec == Init /\ [][Next]_<<served, asked>>
=============================================================================

----------------------------- MODULE ConsoleProofs -----------------------------
(* That the session of the UI stops, evicts, sees and reports what it should, *)
(* for every number of ports, models and processes.                          *)
EXTENDS Console, TLAPS

\* No two servers are on one port.
One == \A q, r \in Pids :
    table[q] # None /\ table[r] # None /\ table[q].port = table[r].port => q = r

\* What the state says of a port is what is there, unless the port changed
\* hands since the state was refreshed.
ViewOK == \A q \in Pids :
    /\ table[q] # None /\ table[q].port \notin moved
    /\ view.running[table[q].port] # None
    => table[q].model = view.running[table[q].port]

\* Own launches are in every list of servers that the next look may use.
MineOK == \A q \in mine :
    /\ table[q] # None
    /\ listed = None \/ q \in listed
    /\ Listing => walk.ports[q] # None

\* A server once reported is still remembered, or has a claim whose removal
\* would make it an orphan anew, and the cached walk neither lacks it nor takes
\* a claim of its pid's past for its own.
Remembered(q) ==
    audits[q] > 0 =>
        /\ audits[q] = 1
        /\ \/ found = None
           \/ /\ found[q] # None
              /\ found[q] = table[q].port \/ claim[found[q]] # q
        /\ \/ q \in observed
           \/ /\ claim[table[q].port] = q
              /\ found = None \/ found[q] = table[q].port

ReportsOK == \A q \in Pids : IF table[q] # None THEN Remembered(q) ELSE audits[q] < 2

Looking == at = "look" /\ stopping # None
Facts == One /\ MineOK /\ ReportsOK
CInv == ConsoleTypeOK /\ Facts /\ (~Looking => ViewOK)

\* The console opens with nothing on screen and nothing running.
LEMMA ConsoleStarts == ConsoleInit => CInv
<1> SUFFICES ASSUME ConsoleInit PROVE CInv
    OBVIOUS
<1>1. ConsoleTypeOK
    BY ConsoleAssumption DEF ConsoleInit, ConsoleTypeOK, Steps, Empty
<1>2. Facts /\ ViewOK
    BY DEF ConsoleInit, Facts, One, MineOK, ReportsOK, ViewOK
<1> QED BY <1>1, <1>2 DEF CInv

-----------------------------------------------------------------------------
(* Steps of the host and of verbs. *)

\* What becomes of servers and claims: a server that appears or goes is of a
\* port that moved, and one that loses its claim is as if new.
HostEffect ==
    /\ table' \in [Pids -> Server \cup {None}]
    /\ claim' \in [Ports -> Pids \cup {None}]
    /\ starts' \in 0 .. MaxStarts
    /\ moved' \subseteq Ports /\ moved \subseteq moved'
    /\ audits' \in [Pids -> 0 .. 2]
    /\ One'
    /\ \A r \in Pids : table'[r] = table[r] => audits'[r] \in {audits[r], 0}
    /\ \A r \in Pids : table'[r] # table[r] =>
          /\ table[r] # None => table[r].port \in moved'
          /\ table'[r] # None => table'[r].port \in moved' /\ audits'[r] = 0
          /\ table'[r] = None => audits'[r] = audits[r]
    /\ \A r \in Pids : table[r] # None /\ table'[r] = table[r] =>
          /\ claim[table[r].port] = r => claim'[table[r].port] = r \/ audits'[r] = 0
          /\ \A p \in Ports : claim'[p] = r => claim[p] = r \/ p = table[r].port

VerbEffect ==
    /\ HostEffect
    /\ mine' \subseteq Pids
    /\ listed' \in {listed, None} /\ found' \in {found, None}
    /\ \A r \in mine' : /\ table'[r] # None
                        /\ r \in mine \/ (~Listing /\ listed' = None)

\* A verb the console runs keeps the facts, and a right view right.
LEMMA VerbKeeps ==
    ASSUME ConsoleTypeOK, Facts, VerbEffect, UNCHANGED <<walk, view, observed>>
    PROVE  Facts' /\ (ViewOK => ViewOK')
<1>1. One'
    BY DEF VerbEffect, HostEffect
<1>2. MineOK'
    BY DEF VerbEffect, Facts, MineOK, Listing
<1>3. ReportsOK'
  <2> SUFFICES ASSUME NEW q \in Pids
               PROVE  IF table'[q] # None THEN Remembered(q)' ELSE audits'[q] < 2
      BY DEF ReportsOK
  <2>0. audits[q] \in 0 .. 2 /\ audits'[q] \in 0 .. 2
      BY DEF ConsoleTypeOK, VerbEffect, HostEffect
  <2>1. CASE table'[q] # table[q]
    <3>1. audits[q] < 2
        BY <2>0 DEF Facts, ReportsOK, Remembered
    <3> QED BY <2>0, <2>1, <3>1 DEF VerbEffect, HostEffect, Remembered
  <2>2. CASE table'[q] = table[q] /\ table[q] = None
      BY <2>2 DEF Facts, ReportsOK, VerbEffect, HostEffect
  <2>3. CASE table'[q] = table[q] /\ table[q] # None
    <3>1. Remembered(q) /\ audits'[q] \in {audits[q], 0}
        BY <2>3 DEF Facts, ReportsOK, VerbEffect, HostEffect
    <3>2. /\ claim[table[q].port] = q => claim'[table[q].port] = q \/ audits'[q] = 0
          /\ \A p \in Ports : claim'[p] = q => claim[p] = q \/ p = table[q].port
        BY <2>3 DEF VerbEffect, HostEffect
    <3>3. found = None \/ found[q] \in Ports \cup {None}
        BY DEF ConsoleTypeOK
    <3>4. found' = None \/ found' = found
        BY DEF VerbEffect
    <3> QED BY <2>3, <3>1, <3>2, <3>3, <3>4 DEF Remembered
  <2> QED BY <2>1, <2>2, <2>3
<1>4. ViewOK => ViewOK'
    BY DEF VerbEffect, HostEffect, ViewOK, ConsoleTypeOK
<1> QED BY <1>1, <1>2, <1>3, <1>4 DEF Facts

\* Servers end; claims change only where no live claim is.
LEMMA EndsEffect ==
    ASSUME ConsoleTypeOK, Facts, NEW dead \in SUBSET Live, Ends(dead),
           claim' \in [Ports -> Pids \cup {None}],
           \A p \in Ports : claim'[p] # claim[p] =>
              /\ claim'[p] = None
              /\ Claimed(p) => On(p) \subseteq dead
    PROVE  HostEffect
<1>1. /\ \A r \in Pids : table'[r] = IF r \in dead THEN None ELSE table[r]
      /\ table' \in [Pids -> Server \cup {None}]
      /\ moved' = moved \cup {table[r].port : r \in dead}
      /\ UNCHANGED <<starts, audits>>
    BY ConsoleAssumption DEF Ends, Replaces, ConsoleTypeOK
<1>2. \A r \in dead : r \in Pids /\ table[r] # None /\ table[r] \in Server
    BY DEF Live, ConsoleTypeOK
<1>3. moved' \subseteq Ports /\ moved \subseteq moved'
    BY <1>1, <1>2 DEF ConsoleTypeOK, Server
<1>4. One'
    BY <1>1 DEF Facts, One
<1>5. ASSUME NEW r \in Pids, table[r] # None, table'[r] = table[r]
      PROVE  /\ claim[table[r].port] = r => claim'[table[r].port] = r
             /\ \A p \in Ports : claim'[p] = r => claim[p] = r \/ p = table[r].port
  <2>1. table[r].port \in Ports /\ r \notin dead /\ r \in On(table[r].port) /\ r \in Live
      BY <1>1, <1>5 DEF ConsoleTypeOK, Server, On, Live
  <2>2. claim[table[r].port] = r => Claimed(table[r].port)
      BY <2>1 DEF Claimed
  <2> QED BY <2>1, <2>2, ConsoleAssumption
<1> QED BY <1>1, <1>2, <1>3, <1>4, <1>5 DEF HostEffect, ConsoleTypeOK

\* The servers of a port, if any, end, and another starts there.
LEMMA StartsEffect ==
    ASSUME ConsoleTypeOK, Facts, NEW p \in Ports, NEW q \in Pids, NEW m \in Models,
           Replaces(On(p), q, [port |-> p, model |-> m]),
           \/ UNCHANGED claim
           \/ claim' = [claim EXCEPT ![p] = q]
    PROVE  HostEffect /\ table'[q] # None /\ table[q] = None
<1> DEFINE s == [port |-> p, model |-> m]
<1>1. /\ q \notin Live /\ q # None /\ starts < MaxStarts
      /\ \A r \in Pids : table'[r] = IF r = q THEN s ELSE IF r \in On(p) THEN None
                                     ELSE table[r]
      /\ starts' = starts + 1
      /\ moved' = moved \cup {table[r].port : r \in On(p)} \cup {p}
      /\ audits' = [audits EXCEPT ![q] = 0]
    BY ConsoleAssumption DEF Replaces
<1>2. s \in Server /\ s # None /\ s.port = p
    BY NoServerIsNone DEF Server
<1>3. table[q] = None
    BY <1>1 DEF Live
<1>4. /\ table' \in [Pids -> Server \cup {None}]
      /\ claim' \in [Ports -> Pids \cup {None}]
      /\ starts' \in 0 .. MaxStarts
      /\ audits' \in [Pids -> 0 .. 2]
  <2>1. table' \in [Pids -> Server \cup {None}]
      BY <1>2 DEF Replaces, ConsoleTypeOK
  <2>2. starts' \in 0 .. MaxStarts
      BY <1>1, ConsoleAssumption DEF ConsoleTypeOK
  <2>3. claim' \in [Ports -> Pids \cup {None}]
      BY DEF ConsoleTypeOK
  <2>4. audits' \in [Pids -> 0 .. 2]
    <3>1. 0 \in 0 .. 2 /\ audits \in [Pids -> 0 .. 2]
        BY DEF ConsoleTypeOK
    <3> QED BY <1>1, <3>1
  <2> QED BY <2>1, <2>2, <2>3, <2>4
<1>5. moved' = moved \cup {p}
    BY <1>1 DEF On
<1>6. \A r \in Pids : table[r] # None /\ table[r].port = p => r \in On(p)
    BY DEF On, Live
<1>7. One'
    BY <1>1, <1>2, <1>6 DEF Facts, One
<1>8. \A r \in On(p) : r \in Pids /\ table[r].port = p /\ r # q
    BY <1>1 DEF On, Live
<1>9. \A r \in Pids : table'[r] # table[r] =>
          /\ table[r] # None => table[r].port \in moved'
          /\ table'[r] # None => table'[r].port \in moved' /\ audits'[r] = 0
          /\ table'[r] = None => audits'[r] = audits[r]
    BY <1>1, <1>2, <1>3, <1>5, <1>8 DEF ConsoleTypeOK
<1>10. \A r \in Pids : table[r] # None /\ table'[r] = table[r] =>
          /\ claim[table[r].port] = r => claim'[table[r].port] = r
          /\ \A x \in Ports : claim'[x] = r => claim[x] = r \/ x = table[r].port
  <2> SUFFICES ASSUME NEW r \in Pids, table[r] # None, table'[r] = table[r]
               PROVE  /\ claim[table[r].port] = r => claim'[table[r].port] = r
                      /\ \A x \in Ports : claim'[x] = r => claim[x] = r \/ x = table[r].port
      OBVIOUS
  <2>1. r # q /\ r \notin On(p)
      BY <1>1, <1>3
  <2>2. table[r].port # p /\ table[r].port \in Ports
      BY <1>6, <2>1 DEF ConsoleTypeOK, Server
  <2> QED BY <2>1, <2>2 DEF ConsoleTypeOK
<1>11. \A r \in Pids : table'[r] = table[r] => audits'[r] = audits[r]
    BY <1>1, <1>2, <1>3 DEF ConsoleTypeOK
<1>12. moved' \subseteq Ports /\ moved \subseteq moved'
    BY <1>5 DEF ConsoleTypeOK
<1> QED BY <1>1, <1>2, <1>3, <1>4, <1>7, <1>9, <1>10, <1>11, <1>12 DEF HostEffect

\* A start, a swap or a stop, by the session or its agent.
LEMMA StartVerbEffect ==
    ASSUME ConsoleTypeOK, Facts, NEW m \in Models, NEW p \in Ports, StartVerb(m, p)
    PROVE  VerbEffect /\ \A r \in Pids : table[r] # None => table'[r] = table[r]
<1>1. PICK q \in Pids, here \in BOOLEAN :
         /\ On(p) = {} /\ Replaces({}, q, [port |-> p, model |-> m]) /\ Claims(p, q)
         /\ Launches(q, here, {}) /\ Caches(here)
    BY DEF StartVerb
<1>2. HostEffect /\ table'[q] # None /\ table[q] = None
    BY <1>1, StartsEffect DEF Claims
<1>3. /\ mine' = (mine \ {}) \cup (IF here /\ ~Listing THEN {q} ELSE {})
      /\ IF here THEN listed' = None /\ found' = None ELSE UNCHANGED <<listed, found>>
    BY <1>1 DEF Launches, Caches, Purged, scans
<1>4. \A r \in Pids : table[r] # None => table'[r] = table[r]
    BY <1>1, <1>2 DEF Replaces
<1>5. \A r \in mine : r \in Pids /\ table[r] # None
    BY DEF Facts, MineOK, ConsoleTypeOK
<1> QED BY <1>2, <1>3, <1>4, <1>5 DEF VerbEffect, ConsoleTypeOK

\* The servers of a port are live and have that port.
LEMMA OnPort ==
    ASSUME NEW p \in Ports
    PROVE  On(p) \in SUBSET Live /\ \A r \in On(p) : r \in Pids /\ table[r].port = p
BY DEF On, Live

\* A swap touches the servers of its own port only ...
LEMMA SwapVerbEffect ==
    ASSUME ConsoleTypeOK, Facts, NEW m \in Models, NEW p \in Ports, SwapVerb(m, p)
    PROVE  VerbEffect /\ \A r \in Pids : table[r] # None /\ r \notin On(p) => table'[r] = table[r]
<1>1. PICK here \in BOOLEAN :
         /\ \/ \E q \in Pids \ Live, n \in {m} \cup ModelsOn(p) :
                 /\ Replaces(On(p), q, [port |-> p, model |-> n]) /\ Claims(p, q)
                 /\ Launches(q, here, On(p))
            \/ Ends(On(p)) /\ Claims(p, None) /\ mine' = mine \ On(p)
         /\ Caches(here)
    BY DEF SwapVerb
<1>2. listed' \in {listed, None} /\ found' \in {found, None} /\ (here => listed' = None)
    BY <1>1 DEF Caches, Purged, scans
<1>3. \A r \in mine : r \in Pids /\ table[r] # None
    BY DEF Facts, MineOK, ConsoleTypeOK
<1>4. CASE \E q \in Pids \ Live, n \in {m} \cup ModelsOn(p) :
                 /\ Replaces(On(p), q, [port |-> p, model |-> n]) /\ Claims(p, q)
                 /\ Launches(q, here, On(p))
  <2>1. PICK q \in Pids \ Live, n \in {m} \cup ModelsOn(p) :
           /\ Replaces(On(p), q, [port |-> p, model |-> n]) /\ Claims(p, q)
           /\ Launches(q, here, On(p))
      BY <1>4
  <2>2. n \in Models
      BY OnPort DEF ModelsOn, ConsoleTypeOK, Server, Live
  <2>3. HostEffect /\ table'[q] # None /\ table[q] = None
      BY <2>1, <2>2, StartsEffect DEF Claims
  <2>4. mine' = (mine \ On(p)) \cup (IF here /\ ~Listing THEN {q} ELSE {})
      BY <2>1 DEF Launches
  <2>5. \A r \in Pids : table[r] # None /\ r \notin On(p) => table'[r] = table[r]
      BY <2>1, <2>3 DEF Replaces
  <2> QED BY <1>2, <1>3, <2>1, <2>3, <2>4, <2>5 DEF VerbEffect, ConsoleTypeOK
<1>5. CASE Ends(On(p)) /\ Claims(p, None) /\ mine' = mine \ On(p)
  <2>1. claim' = [claim EXCEPT ![p] = None]
      BY <1>5 DEF Claims
  <2>2. HostEffect
      BY <1>5, <2>1, OnPort, EndsEffect DEF ConsoleTypeOK
  <2>3. \A r \in Pids : table[r] # None /\ r \notin On(p) => table'[r] = table[r]
      BY <1>5, ConsoleAssumption DEF Ends, Replaces
  <2> QED BY <1>2, <1>3, <1>5, <2>2, <2>3 DEF VerbEffect, ConsoleTypeOK
<1> QED BY <1>1, <1>4, <1>5

\* ... and so does a stop.
LEMMA StopVerbEffect ==
    ASSUME ConsoleTypeOK, Facts, NEW p \in Ports, StopVerb(p)
    PROVE  VerbEffect /\ \A r \in Pids : table[r] # None /\ r \notin On(p) => table'[r] = table[r]
<1>1. PICK here \in BOOLEAN :
         /\ IF Claimed(p)
            THEN Ends(On(p)) /\ mine' = mine \ On(p) /\ Caches(here)
            ELSE Ends({}) /\ UNCHANGED <<mine, scans>>
         /\ Claims(p, None)
    BY DEF StopVerb
<1>2. listed' \in {listed, None} /\ found' \in {found, None}
    BY <1>1 DEF Caches, Purged, scans
<1>3. \A r \in mine : r \in Pids /\ table[r] # None
    BY DEF Facts, MineOK, ConsoleTypeOK
<1>4. claim' = [claim EXCEPT ![p] = None]
    BY <1>1 DEF Claims
<1>5. CASE Claimed(p)
  <2>1. HostEffect
      BY <1>1, <1>4, <1>5, OnPort, EndsEffect DEF ConsoleTypeOK
  <2>2. \A r \in Pids : table[r] # None /\ r \notin On(p) => table'[r] = table[r]
      BY <1>1, <1>5, ConsoleAssumption DEF Ends, Replaces
  <2> QED BY <1>1, <1>2, <1>3, <1>5, <2>1, <2>2 DEF VerbEffect, ConsoleTypeOK
<1>6. CASE ~Claimed(p)
  <2>1. HostEffect
      BY <1>1, <1>4, <1>6, EndsEffect DEF ConsoleTypeOK
  <2>2. \A r \in Pids : table'[r] = table[r]
      BY <1>1, <1>6, ConsoleAssumption DEF Ends, Replaces, ConsoleTypeOK
  <2> QED BY <1>1, <1>2, <1>3, <1>6, <2>1, <2>2 DEF VerbEffect, ConsoleTypeOK
<1> QED BY <1>5, <1>6

\* What happens on the host behind the console is what a verb may do.
LEMMA HostStepEffect ==
    ASSUME ConsoleTypeOK, Facts, HostStep
    PROVE  VerbEffect /\ UNCHANGED <<config, scans, walk, session>>
<1>0. \A r \in mine : r \in Pids /\ table[r] # None
    BY DEF Facts, MineOK, ConsoleTypeOK
<1>1. CASE OtherSpawns
  <2>1. PICK q \in Pids, s \in Server :
           On(s.port) = {} /\ Replaces({}, q, s) /\ UNCHANGED <<claim, mine>>
      BY <1>1 DEF OtherSpawns
  <2>2. /\ s.port \in Ports /\ s.model \in Models
        /\ s = [port |-> s.port, model |-> s.model]
      BY DEF Server
  <2>3. HostEffect /\ table[q] = None
      BY <2>1, <2>2, StartsEffect
  <2>4. \A r \in Pids : table[r] # None => table'[r] = table[r]
      BY <2>1, <2>3 DEF Replaces
  <2> QED BY <1>0, <2>1, <2>3, <2>4 DEF HostStep, VerbEffect, scans, ConsoleTypeOK
<1>2. CASE OtherClaims
  <2>1. PICK q \in Live : /\ ~Claimed(table[q].port)
                          /\ claim' = [claim EXCEPT ![table[q].port] = q]
                          /\ UNCHANGED <<table, starts, moved, mine, audits>>
      BY <1>2 DEF OtherClaims
  <2>2. q \in Pids /\ table[q] \in Server /\ table[q].port \in Ports
      BY DEF Live, ConsoleTypeOK, Server
  <2>3. \A r \in Pids : table[r] # None => r \in Live
      BY DEF Live
  <2>4. \A r \in Pids : table[r] # None =>
          /\ claim[table[r].port] = r => claim'[table[r].port] = r
          /\ \A p \in Ports : claim'[p] = r => claim[p] = r \/ p = table[r].port
      BY <2>1, <2>2, <2>3 DEF Claimed, ConsoleTypeOK
  <2>5. HostEffect
      BY <2>1, <2>2, <2>4 DEF HostEffect, ConsoleTypeOK, Facts, One
  <2> QED BY <1>0, <2>1, <2>5 DEF HostStep, VerbEffect, scans, ConsoleTypeOK
<1>3. CASE Exits
  <2>1. PICK q \in Live : Ends({q}) /\ mine' = mine \ {q} /\ UNCHANGED claim
      BY <1>3 DEF Exits
  <2>2. HostEffect
      BY <2>1, EndsEffect DEF ConsoleTypeOK
  <2>3. \A r \in Pids \ {q} : table'[r] = table[r]
      BY <2>1, ConsoleAssumption DEF Ends, Replaces
  <2> QED BY <1>0, <2>1, <2>2, <2>3 DEF HostStep, VerbEffect, scans, ConsoleTypeOK
<1>4. CASE OtherUnclaims
  <2>1. PICK p \in Ports :
           /\ claim' = [claim EXCEPT ![p] = None]
           /\ audits' = [q \in Pids |->
                 IF q = claim[p] /\ q \in On(p) THEN 0 ELSE audits[q]]
           /\ UNCHANGED <<table, starts, moved, mine>>
      BY <1>4 DEF OtherUnclaims
  <2>2. \A r \in Pids : audits'[r] \in {audits[r], 0} /\ audits[r] \in 0 .. 2
      BY <2>1 DEF ConsoleTypeOK
  <2>3. audits' \in [Pids -> 0 .. 2]
    <3>1. \A r \in Pids : audits'[r] \in 0 .. 2
        BY <2>2
    <3> QED BY <2>1, <3>1
  <2>4. \A r \in Pids : table[r] # None =>
          /\ claim[table[r].port] = r => claim'[table[r].port] = r \/ audits'[r] = 0
          /\ \A x \in Ports : claim'[x] = r => claim[x] = r \/ x = table[r].port
    <3> SUFFICES ASSUME NEW r \in Pids, table[r] # None
                 PROVE  /\ claim[table[r].port] = r =>
                              claim'[table[r].port] = r \/ audits'[r] = 0
                        /\ \A x \in Ports : claim'[x] = r => claim[x] = r
        OBVIOUS
    <3>1. r # None /\ r \in Live /\ table[r].port \in Ports
        BY ConsoleAssumption DEF Live, ConsoleTypeOK, Server
    <3>2. \A x \in Ports : claim'[x] = r => claim[x] = r
        BY <2>1, <3>1 DEF ConsoleTypeOK
    <3>3. ASSUME claim[table[r].port] = r, claim'[table[r].port] # r
          PROVE  audits'[r] = 0
      <4>1. p = table[r].port
          BY <2>1, <3>1, <3>3 DEF ConsoleTypeOK
      <4> QED BY <2>1, <3>1, <3>3, <4>1 DEF On
    <3> QED BY <3>2, <3>3
  <2>5. HostEffect
      BY <2>1, <2>2, <2>3, <2>4 DEF HostEffect, ConsoleTypeOK, Facts, One
  <2> QED BY <1>0, <2>1, <2>5, <1>4 DEF HostStep, VerbEffect, scans, ConsoleTypeOK
<1> QED BY <1>1, <1>2, <1>3, <1>4 DEF HostStep

-----------------------------------------------------------------------------
(* A refresh. *)

\* A view built from live servers names the model of each.
LEMMA RunningIsTrue ==
    ASSUME ConsoleTypeOK, One, NEW pids \in SUBSET Pids
    PROVE  /\ Running(pids) \in [Ports -> Models \cup {None}]
           /\ \A q \in Pids : table[q] # None =>
                 /\ Running(pids)[table[q].port] # None =>
                       Running(pids)[table[q].port] = table[q].model
                 /\ q \in pids => Running(pids)[table[q].port] = table[q].model
<1>1. \A p \in Ports : Seen(pids, p) \subseteq Models
    BY DEF Seen, On, Live, ConsoleTypeOK, Server
<1>2. Running(pids) \in [Ports -> Models \cup {None}]
    BY <1>1 DEF Running
<1>3. ASSUME NEW q \in Pids, table[q] # None
      PROVE  /\ Running(pids)[table[q].port] # None =>
                   Running(pids)[table[q].port] = table[q].model
             /\ q \in pids => Running(pids)[table[q].port] = table[q].model
  <2> DEFINE p == table[q].port
  <2>1. p \in Ports /\ table[q].model \in Models
      BY <1>3 DEF ConsoleTypeOK, Server
  <2>2. On(p) = {q}
      BY <1>3 DEF On, Live, One
  <2>3. CASE q \in pids
    <3>1. Seen(pids, p) = {table[q].model}
        BY <2>2, <2>3 DEF Seen
    <3> QED BY <2>1, <3>1 DEF Running
  <2>4. CASE q \notin pids
    <3>1. Seen(pids, p) = {}
        BY <2>2, <2>4 DEF Seen
    <3> QED BY <2>1, <2>4, <3>1 DEF Running
  <2> QED BY <2>3, <2>4
<1> QED BY <1>2, <1>3

\* A refresh makes the view right and forgets the moved ports.
LEMMA RefreshEffect ==
    ASSUME ConsoleTypeOK, Facts, Refreshes
    PROVE  /\ Facts' /\ ViewOK'
           /\ view' \in [models : SUBSET Models, running : [Ports -> Models \cup {None}]]
           /\ listed' \in (SUBSET Pids) \cup {None}
           /\ found' \in [Pids -> Ports \cup {None}] \cup {None}
           /\ observed' \subseteq Pids /\ audits' \in [Pids -> 0 .. 2]
           /\ moved' = {} /\ mine' = {}
           /\ UNCHANGED <<table, claim, starts, config, walk, deleting, stopping>>
           /\ \A q \in mine : view'.running[table[q].port] = table[q].model
<1>0. /\ view' = [models |-> config, running |-> Running(Listed)]
      /\ listed' = Listed /\ found' = Found /\ observed' = Orphans
      /\ audits' = [q \in Pids |->
            IF q \in (Orphans \ observed) \cap Live /\ audits[q] < 2
            THEN audits[q] + 1 ELSE audits[q]]
      /\ moved' = {} /\ mine' = {}
      /\ UNCHANGED <<table, claim, starts, config, walk, deleting, stopping>>
    BY DEF Refreshes, Observed
<1>1. Listed \in SUBSET Pids /\ Found \in [Pids -> Ports \cup {None}]
  <2>1. Listed \in SUBSET Pids
      BY DEF Listed, Live, ConsoleTypeOK
  <2>2. \A q \in Live : q \in Pids /\ table[q].port \in Ports
      BY DEF Live, ConsoleTypeOK, Server
  <2>3. Found \in [Pids -> Ports \cup {None}]
      BY <2>2 DEF Found, Table, ConsoleTypeOK
  <2> QED BY <2>1, <2>3
<1>2. audits' \in [Pids -> 0 .. 2]
  <2>1. \A q \in Pids : audits[q] \in 0 .. 2
      BY DEF ConsoleTypeOK
  <2> QED BY <1>0, <2>1
<1>3. /\ Running(Listed) \in [Ports -> Models \cup {None}]
      /\ \A q \in Pids : table[q] # None =>
            /\ Running(Listed)[table[q].port] # None =>
                  Running(Listed)[table[q].port] = table[q].model
            /\ q \in Listed => Running(Listed)[table[q].port] = table[q].model
    BY <1>1, RunningIsTrue DEF Facts
<1>4. ViewOK'
    BY <1>0, <1>3 DEF ViewOK
<1>5. \A q \in mine : view'.running[table[q].port] = table[q].model
  <2>1. \A q \in mine : q \in Pids /\ table[q] # None /\ q \in Listed
      BY DEF Facts, MineOK, Listed, Live, ConsoleTypeOK
  <2> QED BY <1>0, <1>3, <2>1
<1>6. One' /\ MineOK'
    BY <1>0 DEF Facts, One, MineOK
<1>7. ReportsOK'
  <2> SUFFICES ASSUME NEW q \in Pids
               PROVE  IF table[q] # None THEN Remembered(q)' ELSE audits'[q] < 2
      BY <1>0 DEF ReportsOK
  <2>0. audits[q] \in 0 .. 2
      BY DEF ConsoleTypeOK
  <2>1. CASE table[q] = None
    <3>1. q \notin Live
        BY <2>1 DEF Live
    <3> QED BY <1>0, <2>1, <3>1 DEF Facts, ReportsOK
  <2>2. CASE table[q] # None
    <3>1. Remembered(q) /\ q \in Live
        BY <2>2 DEF Facts, ReportsOK, Live
    <3>2. q \in Orphans <=> Found[q] # None /\ claim[Found[q]] # q
        BY <3>1 DEF Orphans
    <3>3. Found[q] = IF found # None THEN found[q] ELSE table[q].port
        BY <3>1 DEF Found, Table
    <3>4. table[q].port # None
        BY <2>2, ConsoleAssumption DEF ConsoleTypeOK, Server
    <3>5. CASE audits[q] = 0 /\ audits'[q] = 0
        BY <2>2, <3>5 DEF Remembered
    <3>6. CASE audits[q] = 0 /\ audits'[q] # 0
      <4>1. q \in Orphans /\ audits'[q] = 1
          BY <1>0, <3>6
      <4> QED BY <1>0, <2>2, <3>2, <4>1 DEF Remembered
    <3>7. CASE audits[q] # 0
      <4>1. /\ audits[q] = 1
            /\ \/ found = None
               \/ /\ found[q] # None
                  /\ found[q] = table[q].port \/ claim[found[q]] # q
            /\ \/ q \in observed
               \/ /\ claim[table[q].port] = q
                  /\ found = None \/ found[q] = table[q].port
          BY <2>0, <3>1, <3>7 DEF Remembered
      <4>2. q \in Orphans => q \in observed
          BY <3>2, <3>3, <4>1
      <4>3. audits'[q] = 1
          BY <1>0, <4>1, <4>2
      <4>4. Found[q] # None /\ (Found[q] = table[q].port \/ claim[Found[q]] # q)
          BY <3>3, <3>4, <4>1
      <4>5. q \in Orphans \/ (claim[table[q].port] = q /\ Found[q] = table[q].port)
          BY <3>2, <4>4
      <4> QED BY <1>0, <4>3, <4>4, <4>5 DEF Remembered
    <3> QED BY <2>2, <3>5, <3>6, <3>7
  <2> QED BY <2>1, <2>2
<1>8. view' \in [models : SUBSET Models, running : [Ports -> Models \cup {None}]]
    BY <1>0, <1>3 DEF ConsoleTypeOK
<1>9. observed' \subseteq Pids
    BY <1>0 DEF Orphans
<1> QED BY <1>0, <1>1, <1>2, <1>4, <1>5, <1>6, <1>7, <1>8, <1>9 DEF Facts

-----------------------------------------------------------------------------
(* The steps. *)

\* A verb leaves the host well-formed.
LEMMA HostTypes ==
    ASSUME ConsoleTypeOK, VerbEffect
    PROVE  /\ table' \in [Pids -> Server \cup {None}]
           /\ claim' \in [Ports -> Pids \cup {None}]
           /\ listed' \in (SUBSET Pids) \cup {None}
           /\ found' \in [Pids -> Ports \cup {None}] \cup {None}
           /\ starts' \in 0 .. MaxStarts
           /\ moved' \subseteq Ports /\ mine' \subseteq Pids
           /\ audits' \in [Pids -> 0 .. 2]
BY DEF ConsoleTypeOK, VerbEffect, HostEffect

\* A verb that changes nothing does what a verb may do.
LEMMA UnavailingEffect ==
    ASSUME ConsoleTypeOK, Facts, Unavailing
    PROVE  VerbEffect
BY DEF Unavailing, host, scans, VerbEffect, HostEffect, ConsoleTypeOK, Facts, One,
       MineOK

\* A callback that has done its verb, or none.
LEMMA DispatchKeeps ==
    ASSUME CInv, at # "look", VerbEffect, Dispatched,
           evicting' \subseteq Flag, stopping' \in Models \cup {None}
    PROVE  CInv'
<1>1. ConsoleTypeOK'
    BY HostTypes DEF CInv, ConsoleTypeOK, Dispatched, Goto, Steps
<1>2. Facts' /\ (ViewOK => ViewOK')
    BY VerbKeeps DEF CInv, Dispatched
<1>3. ViewOK
    BY DEF CInv, Looking
<1> QED BY <1>1, <1>2, <1>3 DEF CInv

\* The verbs by which a callback can change servers.
LEMMA HandlesStopEffect ==
    ASSUME CInv, HandlesStop
    PROVE  /\ VerbEffect
           /\ \A q \in Pids : table[q] # None /\ table'[q] # table[q] =>
                 table[q].port \in Ports /\ view.running[table[q].port] = stopping
<1>1. CASE \E p \in Ports : view.running[p] = stopping /\ StopVerb(p)
  <2>1. PICK p \in Ports : view.running[p] = stopping /\ StopVerb(p)
      BY <1>1
  <2> QED BY <2>1, StopVerbEffect, OnPort DEF CInv
<1>2. CASE Unavailing
    BY <1>2, UnavailingEffect DEF CInv, Unavailing, host
<1> QED BY <1>1, <1>2 DEF HandlesStop

\* A start from the console takes no server away.
LEMMA StartClickedEffect ==
    ASSUME CInv, NEW m \in Models, NEW p \in Ports, StartClicked(m, p)
    PROVE  /\ VerbEffect
           /\ \A q \in Pids : table[q] # None => table'[q] = table[q]
<1>1. StartVerb(m, p) \/ Unavailing
    BY DEF StartClicked
<1> QED BY <1>1, StartVerbEffect, UnavailingEffect DEF CInv, Unavailing, host

\* A confirmed eviction takes away the server of its port only.
LEMMA ConfirmedEffect ==
    ASSUME CInv, NEW f \in Flag, EvictionConfirmed(f)
    PROVE  /\ VerbEffect
           /\ \A q \in Pids : table[q] # None /\ table'[q] # table[q] =>
                 table[q].port = f.port
<1>1. f.port \in Ports /\ f.model \in Models
    BY DEF Flag
<1>2. SwapVerb(f.model, f.port) \/ Unavailing
    BY DEF EvictionConfirmed
<1> QED BY <1>1, <1>2, SwapVerbEffect, UnavailingEffect, OnPort DEF CInv, Unavailing, host

\* Clicks that only move through the pages keep the invariant.
LEMMA QuietKeeps ==
    ASSUME CInv, UNCHANGED <<table, claim, starts, mine, audits, scans, walk, view, observed>>,
           UNCHANGED moved \/ (moved' = {} /\ Looking'),
           Looking => Looking',
           config' \subseteq Models, page' \in {"cards", "other"},
           evicting' \subseteq Flag, deleting' \subseteq Models,
           at' \in Steps, stopping' \in Models \cup {None}
    PROVE  CInv'
BY DEF CInv, scans, ConsoleTypeOK, Facts, One, MineOK, Listing, ReportsOK, Remembered, ViewOK

\* A refresh does, with whatever it clears.
LEMMA RefreshKeeps ==
    ASSUME CInv, Refreshes, page' \in {"cards", "other"}, evicting' \subseteq evicting,
           at' \in Steps
    PROVE  CInv'
<1>1. ConsoleTypeOK'
    BY RefreshEffect DEF CInv, ConsoleTypeOK
<1> QED BY <1>1, RefreshEffect DEF CInv

\* Another session walks ...
LEMMA WalksKeep ==
    ASSUME CInv, OtherWalks
    PROVE  CInv'
<1>1. /\ walk' \in Walk /\ walk'.ports = Table
      /\ UNCHANGED <<host, config, scans, session>>
  <2>1. \A q \in Live : table[q].port \in Ports
      BY DEF Live, CInv, ConsoleTypeOK, Server
  <2>2. Table \in [Pids -> Ports \cup {None}]
      BY <2>1 DEF Table
  <2> QED BY <2>2 DEF OtherWalks, Walk
<1>2. ConsoleTypeOK'
    BY <1>1 DEF CInv, ConsoleTypeOK, host, scans, session
<1>3. MineOK'
  <2>1. \A q \in mine : q \in Pids /\ table[q] # None /\ table[q].port # None
      BY ConsoleAssumption DEF CInv, Facts, MineOK, ConsoleTypeOK, Server
  <2>2. \A q \in mine : Table[q] # None
      BY <2>1 DEF Table, Live
  <2> QED BY <1>1, <2>2 DEF CInv, Facts, MineOK, host, scans
<1> QED BY <1>1, <1>2, <1>3 DEF CInv, Facts, One, ReportsOK, Remembered, ViewOK,
                                Looking, host, scans, session

\* ... caches the list it made ...
LEMMA ListsKeep ==
    ASSUME CInv, OtherLists
    PROVE  CInv'
<1>1. /\ Listing /\ walk' = None
      /\ listed' = {q \in Pids : walk.ports[q] # None}
      /\ UNCHANGED <<host, config, found, session>>
    BY DEF OtherLists, Listing
<1>2. ConsoleTypeOK'
    BY <1>1 DEF CInv, ConsoleTypeOK, host, session
<1>3. MineOK'
  <2>1. \A q \in mine : q \in Pids
      BY DEF CInv, ConsoleTypeOK
  <2> QED BY <1>1, <2>1 DEF CInv, Facts, MineOK, Listing, host
<1> QED BY <1>1, <1>2, <1>3 DEF CInv, Facts, One, ReportsOK, Remembered, ViewOK,
                                Looking, host, session

\* ... or the ports it found: of what it knew otherwise, the report is anew.
LEMMA FindsKeep ==
    ASSUME CInv, OtherFinds
    PROVE  CInv'
<1>0. ConsoleTypeOK /\ Facts
    BY DEF CInv
<1>1. /\ walk \in Walk /\ walk' = None /\ found' = walk.ports
      /\ audits' = [q \in Pids |->
            IF q \in Live /\ walk.ports[q] # table[q].port THEN 0 ELSE audits[q]]
      /\ UNCHANGED <<table, claim, starts, moved, mine, config, listed, session>>
    BY <1>0 DEF OtherFinds, ConsoleTypeOK
<1>2. walk.ports \in [Pids -> Ports \cup {None}] /\ None \notin Ports
    BY <1>1, ConsoleAssumption DEF Walk
<1>3. \A q \in Pids : audits[q] \in 0 .. 2 /\ audits'[q] \in {audits[q], 0}
    BY <1>0, <1>1 DEF ConsoleTypeOK
<1>4. ConsoleTypeOK'
  <2>1. \A q \in Pids : audits'[q] \in 0 .. 2
      BY <1>3
  <2>2. audits' \in [Pids -> 0 .. 2]
      BY <1>1, <2>1
  <2> QED BY <1>0, <1>1, <1>2, <2>2 DEF ConsoleTypeOK, session
<1>5. ReportsOK'
  <2> SUFFICES ASSUME NEW q \in Pids
               PROVE  IF table[q] # None THEN Remembered(q)' ELSE audits'[q] < 2
      BY <1>1 DEF ReportsOK
  <2>1. CASE table[q] = None
      BY <1>0, <1>3, <2>1 DEF Facts, ReportsOK
  <2>2. CASE table[q] # None /\ audits'[q] # 0
    <3>1. audits'[q] = audits[q] /\ walk.ports[q] = table[q].port
        BY <1>1, <2>2 DEF Live
    <3>2. table[q].port \in Ports
        BY <1>0, <2>2 DEF ConsoleTypeOK, Server
    <3>3. Remembered(q)
        BY <1>0, <2>2 DEF Facts, ReportsOK
    <3> QED BY <1>1, <1>2, <1>3, <2>2, <3>1, <3>2, <3>3 DEF Remembered, session
  <2>3. CASE table[q] # None /\ audits'[q] = 0
      BY <2>3 DEF Remembered
  <2> QED BY <2>1, <2>2, <2>3
<1>6. One' /\ MineOK' /\ (ViewOK => ViewOK') /\ UNCHANGED Looking
    BY <1>0, <1>1 DEF Facts, One, MineOK, Listing, ViewOK, Looking, session
<1> QED BY <1>4, <1>5, <1>6 DEF CInv, Facts

\* Every step of the console does.
LEMMA ConsoleStep ==
    ASSUME CInv, [ConsoleNext]_consoleVars
    PROVE  CInv'
<1>0. ConsoleTypeOK /\ Facts /\ evicting \subseteq Flag
    BY DEF CInv, ConsoleTypeOK
<1>1. CASE Reruns
    BY <1>0, <1>1, QuietKeeps DEF Reruns, Goto, Steps, host, ConsoleTypeOK, Looking
<1>2. ASSUME NEW m \in Models, StopClicked(m) PROVE CInv'
    BY <1>0, <1>2, QuietKeeps, ConsoleAssumption
       DEF StopClicked, Clickable, Goto, Steps, ConsoleTypeOK, Looking
<1>3. ASSUME NEW m \in Models, DeleteClicked(m) PROVE CInv'
    BY <1>0, <1>3, QuietKeeps DEF DeleteClicked, Clickable, Goto, Steps, host,
       ConsoleTypeOK, Looking
<1>4. ASSUME NEW m \in Models, DeleteAnswered(m) PROVE CInv'
    BY <1>0, <1>4, QuietKeeps DEF DeleteAnswered, Clickable, Goto, Steps, host,
       ConsoleTypeOK, Looking
<1>5. CASE Banner
    BY <1>0, <1>5, QuietKeeps DEF Banner, Goto, Steps, host, ConsoleTypeOK, Looking
<1>6. CASE Runs
    BY <1>0, <1>6, RefreshKeeps DEF Runs, Draws, Goto, Steps
<1>7. CASE ResolvesStop
    BY <1>0, <1>7, RefreshKeeps DEF ResolvesStop, Goto, Steps, ConsoleTypeOK
<1>8. CASE HandlesStop
    BY <1>0, <1>8, HandlesStopEffect, DispatchKeeps DEF HandlesStop
<1>9. ASSUME NEW m \in Models, NEW p \in Ports, StartClicked(m, p) PROVE CInv'
  <2>1. /\ at # "look" /\ Dispatched /\ stopping' \in Models \cup {None}
        /\ evicting' = evicting \/ evicting' = evicting \cup {[port |-> p, model |-> m]}
      BY <1>0, <1>9 DEF StartClicked, Clickable, ConsoleTypeOK
  <2>2. evicting' \subseteq Flag
      BY <1>0, <2>1 DEF Flag
  <2> QED BY <1>9, <2>1, <2>2, StartClickedEffect, DispatchKeeps
<1>10. ASSUME NEW f \in Flag, EvictionConfirmed(f) PROVE CInv'
    BY <1>0, <1>10, ConfirmedEffect, DispatchKeeps
       DEF EvictionConfirmed, Dialog, Clickable, ConsoleTypeOK
<1>11. ASSUME NEW f \in Flag, EvictionCancelled(f) PROVE CInv'
    BY <1>0, <1>11, UnavailingEffect, DispatchKeeps
       DEF EvictionCancelled, Dialog, Clickable, ConsoleTypeOK
<1>12. CASE HostStep
  <2>1. VerbEffect /\ UNCHANGED <<config, walk, session>>
      BY <1>0, <1>12, HostStepEffect
  <2>2. ConsoleTypeOK'
      BY <1>0, <2>1, HostTypes DEF ConsoleTypeOK, session
  <2>3. Facts' /\ (ViewOK => ViewOK')
      BY <1>0, <2>1, VerbKeeps DEF session
  <2> QED BY <2>1, <2>2, <2>3 DEF CInv, Looking, session
<1>13. CASE OtherEdits
    BY <1>0, <1>13, QuietKeeps DEF OtherEdits, host, session, ConsoleTypeOK, Looking
<1>14. CASE Expires
  <2>1. /\ listed' \in {listed, None} /\ found' \in {found, None}
        /\ UNCHANGED <<host, config, walk, session>>
      BY <1>14 DEF Expires
  <2>2. VerbEffect
      BY <1>0, <2>1 DEF host, VerbEffect, HostEffect, ConsoleTypeOK, Facts, One, MineOK
  <2>3. ConsoleTypeOK'
      BY <1>0, <2>1, <2>2, HostTypes DEF ConsoleTypeOK, session
  <2>4. Facts' /\ (ViewOK => ViewOK')
      BY <1>0, <2>1, <2>2, VerbKeeps DEF session
  <2> QED BY <2>1, <2>3, <2>4 DEF CInv, Looking, session
<1>15. CASE OtherWalks \/ OtherCaches
    BY <1>15, WalksKeep, ListsKeep, FindsKeep DEF OtherCaches
<1>16. CASE UNCHANGED consoleVars
    BY <1>16 DEF consoleVars, host, scans, session, CInv, ConsoleTypeOK, Facts, One,
                 MineOK, Listing, ReportsOK, Remembered, ViewOK, Looking
<1> QED
    BY <1>1, <1>2, <1>3, <1>4, <1>5, <1>6, <1>7, <1>8, <1>9, <1>10, <1>11, <1>12,
       <1>13, <1>14, <1>15, <1>16 DEF ConsoleNext, Click, Script

-----------------------------------------------------------------------------
(* The session's state, flags and history keep their types.                  *)
THEOREM ConsoleTypes == ConsoleSpec => []ConsoleTypeOK
<1>1. CInv => ConsoleTypeOK
    BY DEF CInv
<1> QED BY <1>1, ConsoleStarts, ConsoleStep, PTL DEF ConsoleSpec

(* A server is reported once for each time it became an orphan: its start,   *)
(* the removal of its claim, or a walk from before it that is cached late;   *)
(* whatever else the caches hold of the past of its pid.                     *)
THEOREM OrphansAreReportedOnce == ConsoleSpec => []OrphansReportedOnce
<1>1. CInv => OrphansReportedOnce
  <2> SUFFICES ASSUME CInv, NEW q \in Pids PROVE audits[q] < 2
      BY DEF OrphansReportedOnce
  <2>1. audits[q] \in 0 .. 2
      BY DEF CInv, ConsoleTypeOK
  <2> QED BY <2>1 DEF CInv, Facts, ReportsOK, Remembered
<1> QED BY <1>1, ConsoleStarts, ConsoleStep, PTL DEF ConsoleSpec

(* A stop toggle stops its model, or what took its port after the click.     *)
THEOREM StopsHit == ConsoleSpec => StopHitsItsModel
<1>1. ASSUME CInv, ConsoleNext, NEW q \in Live,
             stopping # None, stopping' = None, table'[q] = None
      PROVE  table[q].model = stopping \/ table[q].port \in moved
  <2>1. HandlesStop
    <3>1. \A m \in Models : m # None
        BY ConsoleAssumption
    <3>2. ~Reruns /\ \A m \in Models : /\ ~StopClicked(m) /\ ~DeleteClicked(m)
                                       /\ ~DeleteAnswered(m)
        BY <1>1, <3>1 DEF Reruns, StopClicked, DeleteClicked, DeleteAnswered
    <3>3. /\ \A m \in Models, p \in Ports : ~StartClicked(m, p)
          /\ \A f \in Flag : ~EvictionConfirmed(f) /\ ~EvictionCancelled(f)
        BY <1>1 DEF StartClicked, EvictionConfirmed, EvictionCancelled
    <3>4. ~Runs /\ ~Banner /\ ~ResolvesStop
        BY <1>1 DEF Runs, Banner, ResolvesStop, Refreshes
    <3>5. ~HostStep /\ ~OtherEdits /\ ~Expires /\ ~OtherWalks /\ ~OtherCaches
        BY <1>1 DEF HostStep, OtherEdits, Expires, OtherWalks, OtherCaches,
           OtherLists, OtherFinds, session
    <3> QED BY <1>1, <3>2, <3>3, <3>4, <3>5 DEF ConsoleNext, Click, Script
  <2>2. q \in Pids /\ table[q] # None /\ table'[q] # table[q]
      BY <1>1 DEF Live
  <2>3. view.running[table[q].port] = stopping
      BY <1>1, <2>1, <2>2, HandlesStopEffect
  <2>4. ViewOK
      BY <1>1, <2>1 DEF HandlesStop, CInv, Looking
  <2> QED BY <1>1, <2>2, <2>3, <2>4 DEF ViewOK
<1>2. CInv /\ [ConsoleNext]_consoleVars =>
         [\A q \in Live :
             stopping # None /\ stopping' = None /\ table'[q] = None
             => table[q].model = stopping \/ table[q].port \in moved]_consoleVars
    BY <1>1
<1> QED BY <1>2, ConsoleStarts, ConsoleStep, PTL DEF ConsoleSpec, StopHitsItsModel

(* No other click ends a server than the confirmation of a dialog that named *)
(* its model, or the port changed hands while the page was on the screen.    *)
THEOREM EvictionsAreConfirmed == ConsoleSpec => EvictsOnConsent
<1>1. ASSUME CInv, ConsoleNext, NEW q \in Live,
             at = "idle", at' # "idle", table'[q] # table[q]
      PROVE  \E f \in evicting \ evicting' :
                /\ f.port = table[q].port
                /\ view.running[f.port] = table[q].model \/ f.port \in moved
  <2>0. q \in Pids /\ table[q] # None
      BY DEF Live
  <2>1. Click
      BY <1>1 DEF ConsoleNext, Script, Runs, Banner, ResolvesStop, HandlesStop,
         HostStep, OtherEdits, Expires, OtherWalks, OtherCaches,
           OtherLists, OtherFinds, session
  <2>2. \A m \in Models : ~DeleteClicked(m) /\ ~DeleteAnswered(m) /\ ~StopClicked(m)
      BY <1>1 DEF DeleteClicked, DeleteAnswered, StopClicked, host
  <2>3. ~Reruns /\ \A f \in Flag : ~EvictionCancelled(f)
      BY <1>1 DEF Reruns, EvictionCancelled, Unavailing, host
  <2>4. \A m \in Models, p \in Ports : ~StartClicked(m, p)
      BY <1>1, <2>0, StartClickedEffect
  <2>5. PICK f \in Flag : EvictionConfirmed(f)
      BY <2>1, <2>2, <2>3, <2>4 DEF Click
  <2>6. table[q].port = f.port
      BY <1>1, <2>0, <2>5, ConfirmedEffect
  <2>7. f \in evicting \ evicting' /\ view.running[f.port] # None
      BY <2>5 DEF EvictionConfirmed, Dialog
  <2>8. ViewOK
      BY <1>1 DEF CInv, Looking
  <2> QED BY <2>0, <2>6, <2>7, <2>8 DEF ViewOK
<1>2. CInv /\ [ConsoleNext]_consoleVars =>
         [\A q \in Live :
             at = "idle" /\ at' # "idle" /\ table'[q] # table[q]
             => \E f \in evicting \ evicting' :
                   /\ f.port = table[q].port
                   /\ view.running[f.port] = table[q].model \/ f.port \in moved]_consoleVars
    BY <1>1
<1> QED BY <1>2, ConsoleStarts, ConsoleStep, PTL DEF ConsoleSpec, EvictsOnConsent

(* A launch of the session's own is in the state after the next refresh,     *)
(* whatever is cached.                                                       *)
THEOREM OwnLaunchesAreSeen == ConsoleSpec => OwnStartsAreSeen
<1>1. ASSUME CInv, ConsoleNext, NEW q \in mine, at = "look",
             at' = "then" \/ (at' = "idle" /\ page' = "cards")
      PROVE  view'.running[table[q].port] = table[q].model
  <2>1. Refreshes
    <3>1. ~Reruns /\ \A m \in Models : /\ ~StopClicked(m) /\ ~DeleteClicked(m)
                                       /\ ~DeleteAnswered(m)
        BY <1>1 DEF Reruns, StopClicked, DeleteClicked, DeleteAnswered, Clickable
    <3>2. /\ \A m \in Models, p \in Ports : ~StartClicked(m, p)
          /\ \A f \in Flag : ~EvictionConfirmed(f) /\ ~EvictionCancelled(f)
        BY <1>1 DEF StartClicked, EvictionConfirmed, EvictionCancelled, Dialog, Clickable
    <3>3. ~Banner /\ ~HandlesStop
        BY <1>1 DEF Banner, HandlesStop, Goto
    <3>4. ~HostStep /\ ~OtherEdits /\ ~Expires /\ ~OtherWalks /\ ~OtherCaches
        BY <1>1 DEF HostStep, OtherEdits, Expires, OtherWalks, OtherCaches,
           OtherLists, OtherFinds, session
    <3> QED BY <1>1, <3>1, <3>2, <3>3, <3>4 DEF ConsoleNext, Click, Script, Runs,
                                                ResolvesStop
  <2> QED BY <1>1, <2>1, RefreshEffect DEF CInv
<1>2. CInv /\ [ConsoleNext]_consoleVars =>
         [at = "look" /\ (at' = "then" \/ (at' = "idle" /\ page' = "cards")) =>
             \A q \in mine : view'.running[table[q].port] = table[q].model]_consoleVars
    BY <1>1
<1> QED BY <1>2, ConsoleStarts, ConsoleStep, PTL DEF ConsoleSpec, OwnStartsAreSeen
================================================================================

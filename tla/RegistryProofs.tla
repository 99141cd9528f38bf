---------------------------- MODULE RegistryProofs ----------------------------
(* That keys and tokens are where they belong when one process at a time     *)
(* writes the files, for every number of agents, launchers, nodes and keys.  *)
EXTENDS Registry, TLAPS

\* A token found in the file is the file's, and one is generated only while
\* the file has none; one agent starts at a time.
Fresh(g) == stage[g] \in {"empty", "write"}
TokensOK ==
    /\ \A g \in Agents :
          /\ stage[g] \in {"bind", "serving"} /\ token[g].filed =>
                token[g].value = FileToken /\ FileToken # Nil
          /\ Fresh(g) => /\ FileToken = Nil
                         /\ token[g].value \in AnyToken /\ token[g].value # Nil
    /\ \A g, h \in Agents :
          stage[g] \notin {"down", "serving"} /\ stage[h] \notin {"down", "serving"}
          => g = h

\* What is read from the token file is a token, or nothing.
LEMMA FileTokenTyped ==
    ASSUME TokenTypeOK
    PROVE  FileToken \in AnyToken \cup {Nil}
BY DEF TokenTypeOK, FileToken

\* At first no agent has a token and none is starting.
LEMMA TokensStart == TokenInit => TokenTypeOK /\ TokensOK
<1> SUFFICES ASSUME TokenInit PROVE TokenTypeOK /\ TokensOK
    OBVIOUS
<1>1. Tokens \subseteq AnyToken
    BY DEF AnyToken
<1>2. envFile \in Seq(Tokens \cup {Nil})
    BY TokenAssumption DEF TokenInit
<1>3. envFile \in Seq(AnyToken \cup {Nil})
    BY <1>1, <1>2
<1> QED BY <1>3 DEF TokenInit, TokenTypeOK, TokensOK, Fresh, Stages, Resolved, NoToken

\* Launches wait for each other.
LEMMA TokensNext ==
    ASSUME TokenTypeOK, TokensOK, (~Starting /\ AgentLaunch) \/ AgentProgress
    PROVE  TokenTypeOK' /\ TokensOK' /\ (FileToken # Nil => FileToken' = FileToken)
<1>0. Nil \notin AnyToken /\ FileToken \in AnyToken \cup {Nil}
    BY TokenAssumption, FileTokenTyped
<1>1. ASSUME NEW g \in Agents, NEW where1 \in {"bind", "empty", "down"},
             NEW v \in AnyToken \cup {Nil}, NEW filed \in BOOLEAN,
             Begins(g, where1, v, filed), UNCHANGED envFile,
             where1 # "down" => ~Starting,
             where1 = "bind" /\ filed => v = FileToken /\ FileToken # Nil,
             where1 = "empty" => FileToken = Nil /\ v # Nil
      PROVE  TokenTypeOK' /\ TokensOK' /\ FileToken' = FileToken
  <2>1. /\ \A h \in Agents : stage'[h] = IF h = g THEN where1 ELSE stage[h]
        /\ \A h \in Agents : token'[h] = IF h = g THEN [value |-> v, filed |-> filed]
                                         ELSE token[h]
        /\ stage' \in [Agents -> Stages] /\ token' \in [Agents -> Resolved]
      BY <1>1 DEF Begins, TokenTypeOK, Stages, Resolved
  <2>2. FileToken' = FileToken
      BY <1>1 DEF FileToken
  <2> QED BY <1>0, <1>1, <2>1, <2>2 DEF TokenTypeOK, TokensOK, Fresh, Starting
<1>2. ASSUME NEW g \in Agents, NEW env \in EnvValues, NEW onHost \in Hosts,
             NEW legacy \in BOOLEAN, AgentStarts(g, env, onHost, legacy), ~Starting
      PROVE  TokenTypeOK' /\ TokensOK' /\ FileToken' = FileToken
  <2>1. /\ env # Blank /\ UNCHANGED envFile
        /\ onHost = "lan" => env # Nil \/ FileToken # Nil
        /\ AgentFinds(g, env, onHost)
      BY <1>2 DEF AgentStarts, Startable
  <2>2. env # Nil => env \in AnyToken
      BY <2>1 DEF EnvValues, AnyToken
  <2>3. Minted[g] \in AnyToken
      BY DEF AnyToken
  <2>4. CASE env # Nil
      BY <1>1, <1>2, <2>1, <2>2, <2>4 DEF AgentFinds
  <2>5. CASE env = Nil /\ FileToken # Nil
      BY <1>0, <1>1, <1>2, <2>1, <2>5 DEF AgentFinds
  <2>6. CASE env = Nil /\ FileToken = Nil
      BY <1>0, <1>1, <1>2, <2>1, <2>3, <2>6 DEF AgentFinds
  <2> QED BY <2>4, <2>5, <2>6
<1>3. ASSUME NEW g \in Agents, TokenFileEmptied(g)
      PROVE  TokenTypeOK' /\ TokensOK' /\ FileToken = Nil
  <2>1. /\ FileToken = Nil /\ envFile' = <<>>
        /\ stage' = [stage EXCEPT ![g] = "write"] /\ UNCHANGED token
        /\ stage[g] = "empty"
      BY <1>3 DEF TokenFileEmptied, TokensOK, Fresh
  <2>2. FileToken' = Nil
      BY <2>1 DEF FileToken
  <2>3. TokenTypeOK'
      BY <2>1 DEF TokenTypeOK, Stages
  <2> QED BY <2>1, <2>2, <2>3 DEF TokenTypeOK, TokensOK, Fresh
<1>4. ASSUME NEW g \in Agents, TokenWritten(g)
      PROVE  TokenTypeOK' /\ TokensOK' /\ FileToken = Nil
  <2>1. /\ FileToken = Nil /\ envFile' = <<token[g].value>>
        /\ token[g].value \in AnyToken /\ token[g].value # Nil
        /\ stage' = [stage EXCEPT ![g] = "bind"] /\ UNCHANGED token
        /\ stage[g] = "write"
      BY <1>4 DEF TokenWritten, TokensOK, Fresh
  <2>2. FileToken' = token[g].value
      BY <2>1 DEF FileToken
  <2>3. TokenTypeOK'
    <3>1. envFile' \in Seq(AnyToken \cup {Nil})
        BY <2>1
    <3> QED BY <2>1, <3>1 DEF TokenTypeOK, Stages
  <2>4. \A h \in Agents : h # g => stage[h] \in {"down", "serving"}
      BY <2>1 DEF TokensOK
  <2>5. \A h \in Agents : stage'[h] = IF h = g THEN "bind" ELSE stage[h]
      BY <2>1 DEF TokenTypeOK
  <2> QED BY <2>1, <2>2, <2>3, <2>4, <2>5 DEF TokensOK, Fresh
<1>5. ASSUME NEW g \in Agents, AgentBinds(g) \/ AgentStops(g)
      PROVE  TokenTypeOK' /\ TokensOK' /\ FileToken' = FileToken
  <2>1. CASE Begins(g, "down", Nil, FALSE) /\ UNCHANGED envFile
      BY <1>1, <2>1
  <2>2. CASE /\ stage[g] = "bind" /\ stage' = [stage EXCEPT ![g] = "serving"]
             /\ UNCHANGED <<token, envFile>>
    <3>1. FileToken' = FileToken
        BY <2>2 DEF FileToken
    <3> QED BY <2>2, <3>1 DEF TokenTypeOK, TokensOK, Fresh, Stages
  <2> QED BY <1>5, <2>1, <2>2 DEF AgentBinds, AgentStops
<1> QED BY <1>2, <1>3, <1>4, <1>5 DEF AgentLaunch, AgentProgress

-----------------------------------------------------------------------------
\* A node's key, if there is one, was given for its name and its address.
Known(n, node) == node # Nil /\ node.key # Nil =>
                     <<n, node.addr, node.key>> \in given

Quiet(f) == where[f] \in {"out", "in"}
Saving(f) == where[f] \in {"save2", "save3", "save4"}
Settled == \A f \in Fronts : ~Saving(f)

OneBusy == \A f, h \in Fronts : ~Quiet(f) /\ ~Quiet(h) => f = h

\* The sidecar's key of a node is for the address that nodes.json has.
FilesKnown ==
    /\ \A n \in Names : nodesFile # Nil => Known(n, nodesFile[n])
    /\ \A n \in Names :
          (/\ Settled /\ nodesFile # Nil /\ nodesFile[n] # Nil /\ nodesFile[n].key = Nil
           /\ tokensFile # Nil /\ tokensFile[n] # Nil)
          => <<n, nodesFile[n].addr, tokensFile[n]>> \in given

CopiesKnown ==
    \A f \in Fronts, n \in Names :
        \/ Known(n, fleet[f][n])
        \/ n = Local /\ fleet[f][n].key = FileToken

Reading == \A f \in Fronts : where[f] = "tokens" =>
              \A n \in Names : fleet[f][n] = Read(n)

Written == \A f \in Fronts : where[f] \in {"save3", "save4"} =>
              /\ nodesFile # Nil
              /\ \A n \in Names : nodesFile[n] =
                    IF fleet[f][n] = Nil THEN Nil
                    ELSE [addr |-> fleet[f][n].addr, form |-> "good", key |-> Nil]

Saved == Settled /\ saved # Nil =>
            \A n \in Names \ {Local} : Stamped(Read(n), n) = saved[n]

RegInv == /\ RegistryTypeOK /\ TokensOK /\ OneBusy
          /\ FilesKnown /\ CopiesKnown /\ Reading /\ Written /\ Saved

\* "Nothing" is none of the things that are read or kept.
LEMMA NilApart == /\ Nil \notin Item /\ Nil \notin Node
                  /\ Nil \notin NodesFile /\ Nil \notin TokensFile
                  /\ Nil \notin AnyToken /\ Tokens \subseteq AnyToken
                  /\ Local \in Names
BY NilAssumption, TokenAssumption, RegistryAssumption DEF AnyToken

\* The registry starts with no front and a consistent file.
LEMMA RegistryStarts == RegistryInit => RegInv
<1> SUFFICES ASSUME RegistryInit PROVE RegInv
    OBVIOUS
<1>1. TokenTypeOK /\ TokensOK
    BY TokensStart DEF RegistryInit
<1>2. nodesFile \in [Names -> Item \cup {Nil}] /\ nodesFile # Nil
    BY RegistryAssumption, NilApart DEF RegistryInit, NodesFile
<1>3. RegistryTypeOK
    BY <1>1, <1>2, NilApart
    DEF RegistryTypeOK, RegistryInit, NodesFile, TokensFile, Fleet, NoFleet, Steps
<1>4. ASSUME NEW n \in Names PROVE Known(n, nodesFile[n])
  <2>1. SUFFICES ASSUME nodesFile[n] # Nil, nodesFile[n].key # Nil
                 PROVE  <<n, nodesFile[n].addr, nodesFile[n].key>> \in given
      BY DEF Known
  <2>2. nodesFile[n].addr \in Addrs /\ nodesFile[n].key \in Tokens
      BY <1>2, <2>1 DEF Item
  <2> DEFINE x == <<n, nodesFile[n].addr, nodesFile[n].key>>
  <2>3. x \in Names \X Addrs \X Tokens
      BY <2>2
  <2>4. x[1] = n /\ x[2] = nodesFile[n].addr /\ x[3] = nodesFile[n].key
      OBVIOUS
  <2> HIDE DEF x
  <2>5. x \in given
      BY <2>1, <2>3, <2>4 DEF RegistryInit
  <2> QED BY <2>5 DEF x
<1>5. FilesKnown
    BY <1>4 DEF FilesKnown, RegistryInit, NoFleet
<1>6. CopiesKnown
    BY DEF CopiesKnown, Known, RegistryInit, NoFleet
<1> QED BY <1>1, <1>3, <1>5, <1>6
        DEF RegInv, OneBusy, Quiet, Reading, Written, Saved, RegistryInit

\* Steps of the agents.
LEMMA AgentsKeep ==
    ASSUME RegInv, (~Starting /\ AgentLaunch) \/ AgentProgress, UNCHANGED registryVars
    PROVE  RegInv'
<1>1. TokenTypeOK' /\ TokensOK' /\ (FileToken # Nil => FileToken' = FileToken)
    BY TokensNext DEF RegInv, RegistryTypeOK
<1>2. RegistryTypeOK'
    BY <1>1 DEF RegInv, RegistryTypeOK, registryVars
<1>3. CopiesKnown'
    BY <1>1 DEF RegInv, CopiesKnown, Known, registryVars
<1>4. Saved'
    BY DEF RegInv, Saved, Settled, Saving, Stamped, Read, Valid, KeyOnFile, registryVars
<1>5. FilesKnown' /\ OneBusy' /\ Reading' /\ Written'
    BY DEF RegInv, FilesKnown, Known, Settled, Saving, OneBusy, Quiet, Reading, Read,
           Valid, Written, registryVars
<1> QED BY <1>1, <1>2, <1>3, <1>4, <1>5 DEF RegInv
-----------------------------------------------------------------------------
\* The tokens of the agents do not change with a step of a front.
LEMMA TokensFrame ==
    ASSUME TokenTypeOK, TokensOK, UNCHANGED tokenVars
    PROVE  TokenTypeOK' /\ TokensOK' /\ FileToken' = FileToken
<1>1. FileToken' = FileToken
    BY DEF tokenVars, FileToken
<1> QED BY <1>1 DEF tokenVars, TokenTypeOK, TokensOK, Fresh

\* What a front reads of a name is a node, or nothing.
LEMMA ReadTyped == ASSUME RegistryTypeOK, NEW n \in Names
                   PROVE  Read(n) \in Node \cup {Nil}
<1>1. CASE Valid(n)
  <2>1. nodesFile[n] \in Item
      BY <1>1 DEF Valid, RegistryTypeOK, NodesFile
  <2> QED BY <1>1, <2>1, NilApart DEF Read, Node, Item
<1> QED BY <1>1 DEF Read

\* A front that starts keeps the invariant ...
LEMMA StartKeeps ==
    ASSUME RegInv, NEW f \in Fronts, FrontStarts(f), ~Busy
    PROVE  RegInv'
<1>1. TokenTypeOK' /\ TokensOK' /\ FileToken' = FileToken
    BY TokensFrame DEF RegInv, RegistryTypeOK, FrontStarts
<1>2. /\ \A h \in Fronts : where'[h] = IF h = f THEN "tokens" ELSE where[h]
      /\ \A h \in Fronts : Quiet(h)
      /\ \A h \in Fronts, n \in Names :
            fleet'[h][n] = IF h = f THEN Read(n) ELSE fleet[h][n]
      /\ UNCHANGED <<nodesFile, tokensFile, given, saved>>
    BY DEF RegInv, RegistryTypeOK, FrontStarts, Goes, Busy, Quiet
<1>3. RegistryTypeOK'
  <2>1. [n \in Names |-> Read(n)] \in Fleet
      BY ReadTyped DEF Fleet, RegInv
  <2> QED BY <1>1, <2>1 DEF RegInv, RegistryTypeOK, FrontStarts, Goes, Steps
<1>4. Settled /\ Settled'
    BY <1>2 DEF Settled, Saving, Quiet
<1>5. FilesKnown' /\ Saved'
    BY <1>2, <1>4 DEF RegInv, FilesKnown, Known, Saved, Stamped, Read, Valid, KeyOnFile,
                      FrontStarts, tokenVars
<1>6. CopiesKnown'
  <2>1. \A n \in Names : Known(n, Read(n))
      BY NilApart DEF RegInv, FilesKnown, Known, Read, Valid
  <2> QED BY <1>1, <1>2, <2>1 DEF RegInv, CopiesKnown, Known
<1>7. OneBusy' /\ Reading' /\ Written'
    BY <1>2 DEF OneBusy, Quiet, Reading, Read, Valid, Written
<1> QED BY <1>1, <1>3, <1>5, <1>6, <1>7 DEF RegInv

\* ... one that loads the file does ...
LEMMA LoadKeeps ==
    ASSUME RegInv, NEW f \in Fronts, FrontLoads(f)
    PROVE  RegInv'
<1> DEFINE place == IF f \in migrated THEN "save1" ELSE "in"
<1>1. TokenTypeOK' /\ TokensOK' /\ FileToken' = FileToken
    BY TokensFrame DEF RegInv, RegistryTypeOK, FrontLoads
<1>2. /\ where[f] = "tokens" /\ where' = [where EXCEPT ![f] = place]
      /\ UNCHANGED <<nodesFile, tokensFile, given, saved>>
    BY DEF FrontLoads, Goes
<1>3. place \in {"save1", "in"}
    OBVIOUS
<1> HIDE DEF place
<1>4. /\ \A h \in Fronts : where'[h] = IF h = f THEN place ELSE where[h]
      /\ \A h \in Fronts : h # f => Quiet(h)
      /\ \A h \in Fronts, n \in Names :
            fleet'[h][n] = IF h = f THEN Stamped(fleet[f][n], n) ELSE fleet[h][n]
    BY <1>2 DEF RegInv, RegistryTypeOK, FrontLoads, OneBusy, Quiet
<1>5. \A n \in Names : fleet[f][n] = Read(n) /\ Read(n) \in Node \cup {Nil}
    BY <1>2, ReadTyped DEF RegInv, Reading
<1>6. \A n \in Names : KeyOnFile(n) \in AnyToken \cup {Nil}
    BY FileTokenTyped, NilApart
    DEF RegInv, RegistryTypeOK, KeyOnFile, ClientToken, TokensFile
<1>7. \A n \in Names : Stamped(fleet[f][n], n) \in Node \cup {Nil}
    BY <1>5, <1>6 DEF Stamped, Node
<1>8. RegistryTypeOK'
  <2>1. [n \in Names |-> Stamped(fleet[f][n], n)] \in Fleet
      BY <1>7 DEF Fleet
  <2> QED BY <1>1, <1>2, <1>3, <2>1 DEF RegInv, RegistryTypeOK, FrontLoads, Steps
<1>9. Settled /\ Settled'
    BY <1>2, <1>3, <1>4 DEF Settled, Saving, Quiet
<1>10. FilesKnown' /\ Saved'
    BY <1>2, <1>9 DEF RegInv, FilesKnown, Known, Saved, Stamped, Read, Valid, KeyOnFile
<1>11. \A n \in Names : \/ Known(n, Stamped(Read(n), n))
                        \/ n = Local /\ Stamped(Read(n), n).key = FileToken
  <2> SUFFICES ASSUME NEW n \in Names
               PROVE  \/ Known(n, Stamped(Read(n), n))
                      \/ n = Local /\ Stamped(Read(n), n).key = FileToken
      OBVIOUS
  <2>1. Known(n, Read(n))
      BY NilApart DEF RegInv, FilesKnown, Known, Read, Valid
  <2>2. CASE Read(n) = Nil \/ Read(n).key # Nil
      BY <2>1, <2>2 DEF Stamped
  <2>3. CASE Read(n) # Nil /\ Read(n).key = Nil
    <3>1. /\ Stamped(Read(n), n) = [Read(n) EXCEPT !.key = KeyOnFile(n)]
          /\ Stamped(Read(n), n).key = KeyOnFile(n)
          /\ Stamped(Read(n), n).addr = nodesFile[n].addr
          /\ nodesFile # Nil /\ nodesFile[n] # Nil /\ nodesFile[n].key = Nil
        BY <2>3 DEF Stamped, Read, Valid
    <3>2. CASE n = Local
        BY <3>1, <3>2 DEF KeyOnFile, ClientToken
    <3>3. CASE n # Local
        BY <1>9, <3>1, <3>3 DEF KeyOnFile, RegInv, FilesKnown, Known
    <3> QED BY <3>2, <3>3
  <2> QED BY <2>2, <2>3
<1>12. CopiesKnown'
    BY <1>1, <1>2, <1>4, <1>5, <1>11 DEF RegInv, CopiesKnown, Known
<1>13. OneBusy' /\ Reading' /\ Written'
    BY <1>2, <1>3, <1>4 DEF RegInv, OneBusy, Quiet, Reading, Read, Valid, Written
<1> QED BY <1>1, <1>8, <1>10, <1>12, <1>13 DEF RegInv

\* A change of one node of a copy, to one whose key is known or the agent's.
LEMMA EditKeeps ==
    ASSUME RegInv, NEW f \in Fronts, ~Busy, NEW n \in Names, NEW node \in Node \cup {Nil},
           Puts(f, n, node), UNCHANGED <<tokenVars, nodesFile, tokensFile, migrated, saved>>,
           given \subseteq given', given' \subseteq Names \X Addrs \X AnyToken,
           Known(n, node)' \/ (n = Local /\ node.key = FileToken)
    PROVE  RegInv'
<1>1. TokenTypeOK' /\ TokensOK' /\ FileToken' = FileToken
    BY TokensFrame DEF RegInv, RegistryTypeOK
<1>2. /\ \A h \in Fronts : where'[h] = IF h = f THEN "save1" ELSE where[h]
      /\ \A h \in Fronts : Quiet(h)
      /\ \A h \in Fronts, m \in Names :
            fleet'[h][m] = IF h = f /\ m = n THEN node ELSE fleet[h][m]
    BY DEF RegInv, RegistryTypeOK, Puts, Goes, Busy, Quiet, Fleet
<1>3. RegistryTypeOK'
    BY <1>1 DEF RegInv, RegistryTypeOK, Puts, Goes, Steps, Fleet
<1>4. Settled /\ Settled'
    BY <1>2 DEF Settled, Saving, Quiet
<1>5. FilesKnown'
    BY <1>4 DEF RegInv, FilesKnown, Known
<1>6. Saved'
    BY <1>4 DEF RegInv, Saved, Stamped, Read, Valid, KeyOnFile
<1>7. CopiesKnown'
    BY <1>1, <1>2 DEF RegInv, CopiesKnown, Known
<1>8. OneBusy' /\ Reading' /\ Written'
    BY <1>2 DEF OneBusy, Quiet, Reading, Written
<1> QED BY <1>1, <1>3, <1>5, <1>6, <1>7, <1>8 DEF RegInv

\* ... one that edits it, while nobody else saves ...
LEMMA EditsKeep ==
    ASSUME RegInv, NEW f \in Fronts, ~Busy, Edit(f)
    PROVE  RegInv'
<1>1. ASSUME NEW n \in Names, NEW a \in Addrs, NEW k \in Tokens \cup {Nil},
             NEW o \in BOOLEAN, AddNode(f, n, a, k, o)
      PROVE  RegInv'
  <2> DEFINE node == [addr |-> a, key |-> k]
  <2>1. node \in Node \cup {Nil} /\ node.addr = a /\ node.key = k
      BY NilApart DEF Node
  <2>2. Puts(f, n, node) /\ UNCHANGED <<tokenVars, nodesFile, tokensFile, migrated, saved>>
      BY <1>1 DEF AddNode
  <2>3. /\ given \subseteq given' /\ given' \subseteq Names \X Addrs \X AnyToken
        /\ k # Nil => <<n, a, k>> \in given'
      BY <1>1, NilApart DEF AddNode, RegInv, RegistryTypeOK
  <2> HIDE DEF node
  <2>4. Known(n, node)'
      BY <2>1, <2>3 DEF Known
  <2> QED BY <2>1, <2>2, <2>3, <2>4, EditKeeps
<1>2. ASSUME NEW n \in Names, RemoveNode(f, n)
      PROVE  RegInv'
  <2>1. Known(n, Nil)'
      BY DEF Known
  <2>2. given' \subseteq Names \X Addrs \X AnyToken
      BY <1>2 DEF RemoveNode, RegInv, RegistryTypeOK
  <2> QED BY <1>2, <2>1, <2>2, EditKeeps DEF RemoveNode
<1>3. ASSUME NEW a \in Addrs, FindsLocalAgent(f, a)
      PROVE  RegInv'
  <2> DEFINE node == [addr |-> a, key |-> ClientToken]
  <2>1. node \in Node \cup {Nil} /\ node.key = FileToken
      BY FileTokenTyped DEF Node, ClientToken, RegInv, RegistryTypeOK
  <2>2. /\ Puts(f, Local, node)
        /\ UNCHANGED <<tokenVars, nodesFile, tokensFile, migrated, given, saved>>
      BY <1>3 DEF FindsLocalAgent
  <2>3. given' \subseteq Names \X Addrs \X AnyToken
      BY <2>2 DEF RegInv, RegistryTypeOK
  <2> HIDE DEF node
  <2> QED BY <2>1, <2>2, <2>3, NilApart, EditKeeps
<1> QED BY <1>1, <1>2, <1>3 DEF Edit, CommandEdit, FormEdit, Adds, Removes

\* ... and one that ends.
LEMMA ExitKeeps ==
    ASSUME RegInv, NEW f \in Fronts, FrontExits(f)
    PROVE  RegInv'
<1>1. TokenTypeOK' /\ TokensOK' /\ FileToken' = FileToken
    BY TokensFrame DEF RegInv, RegistryTypeOK, FrontExits
<1>2. /\ \A h \in Fronts : where'[h] = IF h = f THEN "out" ELSE where[h]
      /\ where[f] = "in"
      /\ \A h \in Fronts, n \in Names :
            fleet'[h][n] = IF h = f THEN Nil ELSE fleet[h][n]
      /\ UNCHANGED <<nodesFile, tokensFile, given, saved>>
    BY DEF RegInv, RegistryTypeOK, FrontExits, Goes, NoFleet
<1>3. RegistryTypeOK'
    BY <1>1 DEF RegInv, RegistryTypeOK, FrontExits, Goes, Steps, Fleet, NoFleet
<1>4. Settled' <=> Settled
    BY <1>2 DEF Settled, Saving
<1>5. FilesKnown'
    BY <1>2, <1>4 DEF RegInv, FilesKnown, Known
<1>6. Saved'
    BY <1>2, <1>4 DEF RegInv, Saved, Stamped, Read, Valid, KeyOnFile
<1>7. CopiesKnown'
    BY <1>1, <1>2 DEF RegInv, CopiesKnown, Known
<1>8. OneBusy' /\ Reading' /\ Written'
    BY <1>2 DEF RegInv, OneBusy, Quiet, Reading, Read, Valid, Written
<1> QED BY <1>1, <1>3, <1>5, <1>6, <1>7, <1>8 DEF RegInv

\* What the steps of a save have in common: the copies stay as they are.
LEMMA SaveKeeps ==
    ASSUME RegInv, NEW f \in Fronts, NEW from \in {"save1", "save2", "save3", "save4"},
           NEW to \in {"save2", "save3", "save4", "in"},
           where[f] = from, Goes(f, to), UNCHANGED <<tokenVars, fleet, given>>,
           nodesFile' \in NodesFile \cup {Nil}, tokensFile' \in TokensFile \cup {Nil},
           migrated' \subseteq Fronts, saved' \in Fleet \cup {Nil}
    PROVE  /\ RegistryTypeOK' /\ TokensOK' /\ OneBusy' /\ CopiesKnown' /\ Reading'
           /\ \A h \in Fronts : where'[h] = IF h = f THEN to ELSE where[h]
           /\ \A h \in Fronts : h # f => Quiet(h)
           /\ Settled' <=> to = "in"
<1>1. TokenTypeOK' /\ TokensOK' /\ FileToken' = FileToken
    BY TokensFrame DEF RegInv, RegistryTypeOK
<1>2. /\ \A h \in Fronts : where'[h] = IF h = f THEN to ELSE where[h]
      /\ \A h \in Fronts : h # f => Quiet(h)
    BY DEF RegInv, RegistryTypeOK, Goes, OneBusy, Quiet
<1>3. RegistryTypeOK'
    BY <1>1 DEF RegInv, RegistryTypeOK, Goes, Steps
<1>4. Settled' <=> to = "in"
    BY <1>2 DEF Settled, Saving, Quiet
<1>5. OneBusy' /\ CopiesKnown' /\ Reading'
    BY <1>1, <1>2 DEF RegInv, OneBusy, Quiet, CopiesKnown, Known, Reading
<1> QED BY <1>1, <1>2, <1>3, <1>4, <1>5

\* Saving the nodes keeps the invariant, half-way and done ...
LEMMA NodesSaved ==
    ASSUME RegInv, NEW f \in Fronts, NodesEmptied(f) \/ NodesWritten(f)
    PROVE  RegInv'
<1>1. CASE NodesEmptied(f)
  <2>1. /\ RegistryTypeOK' /\ TokensOK' /\ OneBusy' /\ CopiesKnown' /\ Reading'
        /\ \A h \in Fronts : where'[h] = IF h = f THEN "save2" ELSE where[h]
        /\ \A h \in Fronts : h # f => Quiet(h)
        /\ ~Settled'
      BY <1>1, SaveKeeps DEF NodesEmptied, RegInv, RegistryTypeOK
  <2>2. FilesKnown' /\ Written' /\ Saved'
      BY <1>1, <2>1 DEF NodesEmptied, FilesKnown, Written, Saved, Quiet
  <2> QED BY <2>1, <2>2 DEF RegInv
<1>2. CASE NodesWritten(f)
  <2> DEFINE file == [n \in Names |-> IF fleet[f][n] = Nil THEN Nil
                  ELSE [addr |-> fleet[f][n].addr, form |-> "good", key |-> Nil]]
  <2>1. file \in NodesFile
    <3>1. \A n \in Names : fleet[f][n] # Nil => fleet[f][n].addr \in Addrs
        BY DEF RegInv, RegistryTypeOK, Fleet, Node
    <3> QED BY <3>1 DEF NodesFile, Item, Forms
  <2>2. nodesFile' = file
      BY <1>2 DEF NodesWritten
  <2>3. /\ RegistryTypeOK' /\ TokensOK' /\ OneBusy' /\ CopiesKnown' /\ Reading'
        /\ \A h \in Fronts : where'[h] = IF h = f THEN "save3" ELSE where[h]
        /\ \A h \in Fronts : h # f => Quiet(h)
        /\ ~Settled'
      BY <1>2, <2>1, <2>2, SaveKeeps DEF NodesWritten, RegInv, RegistryTypeOK
  <2>4. \A n \in Names : nodesFile'[n] # Nil => nodesFile'[n].key = Nil
      BY <2>2
  <2>5. FilesKnown' /\ Saved'
      BY <2>3, <2>4 DEF FilesKnown, Known, Saved
  <2>6. Written'
      BY <1>2, <2>1, <2>2, <2>3, NilApart DEF NodesWritten, Written, Quiet
  <2> QED BY <2>3, <2>5, <2>6 DEF RegInv
<1> QED BY <1>1, <1>2

\* ... and so does saving the tokens.
LEMMA TokensSaved ==
    ASSUME RegInv, NEW f \in Fronts, TokensEmptied(f) \/ TokensWritten(f)
    PROVE  RegInv'
<1>1. CASE TokensEmptied(f)
  <2>1. /\ RegistryTypeOK' /\ TokensOK' /\ OneBusy' /\ CopiesKnown' /\ Reading'
        /\ \A h \in Fronts : where'[h] = IF h = f THEN "save4" ELSE where[h]
        /\ \A h \in Fronts : h # f => Quiet(h)
        /\ ~Settled'
      BY <1>1, SaveKeeps DEF TokensEmptied, RegInv, RegistryTypeOK
  <2>2. FilesKnown' /\ Written' /\ Saved'
      BY <1>1, <2>1 DEF TokensEmptied, RegInv, FilesKnown, Known, Written, Saved, Quiet
  <2> QED BY <2>1, <2>2 DEF RegInv
<1>2. CASE TokensWritten(f)
  <2> DEFINE kept(n) == IF fleet[f][n] = Nil THEN Nil
                        ELSE [fleet[f][n] EXCEPT !.key = KeyOf(f, n)]
  <2>1. \A n \in Names : fleet[f][n] \in Node \cup {Nil}
      BY DEF RegInv, RegistryTypeOK, Fleet
  <2>2. \A n \in Names : KeyOf(f, n) \in AnyToken \cup {Nil}
      BY <2>1 DEF KeyOf, Node
  <2>3. \A n \in Names : kept(n) \in Node \cup {Nil}
      BY <2>1, <2>2 DEF Node
  <2>4. /\ tokensFile' = [n \in Names |-> KeyOf(f, n)]
        /\ saved' = [n \in Names |-> kept(n)]
        /\ migrated' \subseteq Fronts /\ UNCHANGED <<tokenVars, nodesFile, fleet, given>>
        /\ where[f] = "save4" /\ Goes(f, "in")
      BY <1>2 DEF TokensWritten, KeysToWrite, Finishes, RegInv, RegistryTypeOK
  <2>5. tokensFile' \in TokensFile
      BY <2>2, <2>4 DEF TokensFile
  <2>6. saved' \in Fleet
      BY <2>3, <2>4 DEF Fleet
  <2>7. /\ RegistryTypeOK' /\ TokensOK' /\ OneBusy' /\ CopiesKnown' /\ Reading'
        /\ \A h \in Fronts : where'[h] = IF h = f THEN "in" ELSE where[h]
        /\ \A h \in Fronts : h # f => Quiet(h)
      BY <2>4, <2>5, <2>6, SaveKeeps DEF RegInv, RegistryTypeOK
  <2>8. /\ nodesFile' = nodesFile /\ nodesFile # Nil
        /\ \A n \in Names : nodesFile[n] = IF fleet[f][n] = Nil THEN Nil
                  ELSE [addr |-> fleet[f][n].addr, form |-> "good", key |-> Nil]
        /\ tokensFile' # Nil /\ \A n \in Names : tokensFile'[n] = KeyOf(f, n)
      BY <2>4, <2>5, NilApart DEF RegInv, Written
  <2>9. ASSUME NEW n \in Names, nodesFile'[n] # Nil, tokensFile'[n] # Nil
        PROVE  <<n, nodesFile'[n].addr, tokensFile'[n]>> \in given'
    <3>1. /\ n # Local /\ fleet[f][n] # Nil /\ tokensFile'[n] = fleet[f][n].key
          /\ nodesFile'[n].addr = fleet[f][n].addr
      <4>1. nodesFile[n] # Nil /\ KeyOf(f, n) # Nil /\ tokensFile'[n] = KeyOf(f, n)
          BY <2>8, <2>9
      <4>2. n # Local /\ fleet[f][n] # Nil /\ KeyOf(f, n) = fleet[f][n].key
          BY <4>1 DEF KeyOf
      <4>3. nodesFile[n] = [addr |-> fleet[f][n].addr, form |-> "good", key |-> Nil]
          BY <2>8, <4>2
      <4> QED BY <2>8, <4>1, <4>2, <4>3
    <3> QED BY <2>4, <2>9, <3>1 DEF RegInv, CopiesKnown, Known
  <2>10. FilesKnown'
      BY <2>4, <2>8, <2>9 DEF RegInv, FilesKnown, Known
  <2>11. ASSUME NEW n \in Names, n # Local
         PROVE  Stamped(Read(n), n)' = saved'[n]
    <3>1. CASE fleet[f][n] = Nil
        BY <2>4, <2>8, <3>1 DEF Stamped, Read, Valid
    <3>2. CASE fleet[f][n] # Nil
      <4>1. fleet[f][n] \in Node /\ KeyOf(f, n) = fleet[f][n].key
          BY <2>1, <2>11, <3>2 DEF KeyOf
      <4>2. saved'[n] = fleet[f][n]
          BY <2>4, <3>2, <4>1 DEF Node
      <4>3. Read(n)' = [addr |-> fleet[f][n].addr, key |-> Nil]
        <5> DEFINE item == [addr |-> fleet[f][n].addr, form |-> "good", key |-> Nil]
        <5>1. item \in Item
            BY <4>1 DEF Node, Item, Forms
        <5>2. item # Nil
            BY <5>1, NilApart
        <5>3. nodesFile' # Nil /\ nodesFile'[n] = item
            BY <2>8, <3>2
        <5>4. item.addr = fleet[f][n].addr /\ item.form = "good" /\ item.key = Nil
            OBVIOUS
        <5> HIDE DEF item
        <5> QED BY <5>2, <5>3, <5>4 DEF Read, Valid
      <4>4. Read(n)' # Nil
          BY <4>1, <4>3, NilApart DEF Node
      <4>5. KeyOnFile(n)' = fleet[f][n].key
          BY <2>8, <2>11, <4>1 DEF KeyOnFile
      <4>6. Stamped(Read(n), n)' = [addr |-> fleet[f][n].addr, key |-> fleet[f][n].key]
          BY <4>3, <4>4, <4>5 DEF Stamped
      <4> QED BY <4>1, <4>2, <4>6 DEF Node
    <3> QED BY <3>1, <3>2
  <2>12. Saved'
      BY <2>11 DEF Saved
  <2>13. Written'
      BY <2>7 DEF Written, Quiet
  <2> QED BY <2>7, <2>10, <2>12, <2>13 DEF RegInv
<1> QED BY <1>1, <1>2

-----------------------------------------------------------------------------
\* Every step does while one front edits at a time.
LEMMA RegistryKeeps == RegInv /\ [OneByOneNext]_fleetVars => RegInv'
<1> SUFFICES ASSUME RegInv, [OneByOneNext]_fleetVars PROVE RegInv'
    OBVIOUS
<1>1. CASE /\ (~Starting /\ AgentLaunch) \/ AgentProgress
           /\ UNCHANGED registryVars
    BY <1>1, AgentsKeep
<1>2. ASSUME NEW f \in Fronts,
             \/ ~Busy /\ (FrontStarts(f) \/ Edit(f))
             \/ FrontExits(f) \/ FrontStep(f)
      PROVE  RegInv'
    BY <1>2, StartKeeps, EditsKeep, ExitKeeps, LoadKeeps, NodesSaved, TokensSaved
    DEF FrontStep
<1>3. CASE UNCHANGED fleetVars
  <2>1. TokenTypeOK' /\ TokensOK' /\ FileToken' = FileToken
      BY <1>3, TokensFrame DEF RegInv, RegistryTypeOK, fleetVars
  <2>2. RegistryTypeOK' /\ CopiesKnown'
      BY <1>3, <2>1 DEF RegInv, RegistryTypeOK, CopiesKnown, Known, fleetVars, registryVars
  <2>3. Saved'
      BY <1>3 DEF RegInv, Saved, Settled, Saving, Stamped, Read, Valid, KeyOnFile,
                  fleetVars, registryVars
  <2>4. FilesKnown' /\ OneBusy' /\ Reading' /\ Written'
      BY <1>3 DEF RegInv, FilesKnown, Known, Settled, Saving, OneBusy, Quiet, Reading,
                  Read, Valid, Written, fleetVars, registryVars
  <2> QED BY <2>1, <2>2, <2>3, <2>4 DEF RegInv
<1> QED BY <1>1, <1>2, <1>3 DEF OneByOneNext

\* What a single front at a time can rely on.
LEMMA RegistryInvariant == OneByOneSpec => []RegInv
<1> QED BY RegistryStarts, RegistryKeeps, PTL DEF OneByOneSpec

\* The files of the registry and the copies of every launcher stay what their
\* readers expect (remote/registry.py, core/agent_token.py).
THEOREM RegistryKeepsTypes == OneByOneSpec => []RegistryTypeOK
<1>1. RegInv => RegistryTypeOK
    BY DEF RegInv
<1> QED BY <1>1, RegistryInvariant, PTL

\* An agent that took its token from agent.env, or made it, serves with the
\* token that every other launcher of the machine finds there, whatever agents
\* were started and stopped before (resolve_agent_token).
THEOREM OneTokenForAll == OneByOneSpec => []AgentAndClientsAgree
<1>1. RegInv => AgentAndClientsAgree
    BY DEF RegInv, TokensOK, AgentAndClientsAgree, ClientToken
<1> QED BY <1>1, RegistryInvariant, PTL

\* No launcher sends a key to an address it was not given for, though one file
\* has the addresses, another the keys, and names are used again
\* (_save_node_tokens, _populate_remote_tokens).
THEOREM KeysStayHome == OneByOneSpec => []KeysGoWhereGiven
<1>1. RegInv => KeysGoWhereGiven
    BY DEF RegInv, CopiesKnown, Known, KeysGoWhereGiven
<1> QED BY <1>1, RegistryInvariant, PTL

\* What a launcher saved is what the next one loads (_save, _load).
THEOREM FleetSurvives == OneByOneSpec => []SavedFleetIsLoaded
<1>1. RegInv => SavedFleetIsLoaded
  <2>1. ~Busy => Settled
      BY DEF Busy, Settled, Saving
  <2> QED BY <2>1 DEF RegInv, Saved, SavedFleetIsLoaded
<1> QED BY <1>1, RegistryInvariant, PTL

\* The key a launcher has for the local agent is the token of the agent that
\* serves, unless an operator set either of them (_populate_local_token,
\* is_local_agent_ready).
THEOREM LocalKeysOpen == OneByOneSpec => []LocalKeyOpensAgent
<1>1. RegInv => LocalKeyOpensAgent
  <2> SUFFICES ASSUME RegInv, NEW f \in Fronts, NEW g \in Agents,
                      stage[g] = "serving", token[g].filed, fleet[f][Local] # Nil
               PROVE  \/ fleet[f][Local].key \in {Nil, token[g].value}
                      \/ <<Local, fleet[f][Local].addr, fleet[f][Local].key>> \in given
      BY DEF LocalKeyOpensAgent
  <2>1. token[g].value = FileToken
      BY DEF RegInv, TokensOK
  <2>2. Known(Local, fleet[f][Local]) \/ fleet[f][Local].key = FileToken
      BY NilApart DEF RegInv, CopiesKnown
  <2> QED BY <2>1, <2>2 DEF Known
<1> QED BY <1>1, RegistryInvariant, PTL
===============================================================================

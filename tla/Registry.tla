------------------------------- MODULE Registry -------------------------------
(* The registry of remote nodes (remote/registry.py).  Each launcher reads   *)
(* nodes.json and node_tokens.json when it starts, keeps a copy, and writes  *)
(* both files whole, in place and one after the other, whenever its copy     *)
(* changes.  The key of the node "local" is in neither: it is looked up in   *)
(* agent.env.                                                                *)
EXTENDS AgentToken

CONSTANTS
    Names,     \* names of nodes
    Local,     \* the name "local"
    Addrs,     \* hosts with their ports
    Fronts,    \* front-end processes: UI sessions and CLI commands
    Fleets     \* contents of nodes.json in the beginning

(* A node of a registry, and an entry of nodes.json: an "old" one has the    *)
(* port within the host or a local node called localhost, and perhaps its    *)
(* key; a "bad" one does not validate.                                       *)
Node == [addr : Addrs, key : AnyToken \cup {Nil}]
Forms == {"good", "old", "bad"}
Item == [addr : Addrs, form : Forms, key : Tokens \cup {Nil}]

ASSUME RegistryAssumption ==
    /\ Local \in Names
    /\ Fleets \subseteq [Names -> Item \cup {Nil}]

VARIABLES
    nodesFile,   \* [Names -> Item \cup {Nil}], or Nil while it is being written
    tokensFile,  \* [Names -> Tokens \cup {Nil}], or Nil while it is being written
    where,       \* [Fronts -> where the process is]
    fleet,       \* [Fronts -> its copy]
    migrated,    \* fronts whose load has changed an entry
    given,       \* keys given for a name and an address (history)
    saved        \* what was last saved, or Nil (history)

Steps == {"out", "tokens", "save1", "save2", "save3", "save4", "in"}
Fleet == [Names -> Node \cup {Nil}]
NodesFile == [Names -> Item \cup {Nil}]
TokensFile == [Names -> AnyToken \cup {Nil}]
NoFleet == [n \in Names |-> Nil]

ASSUME NilAssumption == Nil \notin Item \cup Node \cup NodesFile \cup TokensFile

registryVars == <<nodesFile, tokensFile, where, fleet, migrated, given, saved>>
fleetVars == <<tokenVars, registryVars>>

RegistryTypeOK ==
    /\ TokenTypeOK
    /\ nodesFile \in NodesFile \cup {Nil}
    /\ tokensFile \in TokensFile \cup {Nil}
    /\ where \in [Fronts -> Steps]
    /\ fleet \in [Fronts -> Fleet]
    /\ migrated \subseteq Fronts
    /\ given \subseteq Names \X Addrs \X AnyToken
    /\ saved \in Fleet \cup {Nil}

RegistryInit ==
    /\ TokenInit
    /\ nodesFile \in Fleets
    /\ tokensFile = NoFleet
    /\ where = [f \in Fronts |-> "out"]
    /\ fleet = [f \in Fronts |-> NoFleet]
    /\ migrated = {}
    /\ given = {x \in Names \X Addrs \X Tokens :
                   /\ nodesFile[x[1]] # Nil
                   /\ nodesFile[x[1]].addr = x[2] /\ nodesFile[x[1]].key = x[3]}
    /\ saved = Nil

-----------------------------------------------------------------------------
(* _load. *)

\* Nothing of a file that is being written, and no entry that is bad.
Valid(n) == nodesFile # Nil /\ nodesFile[n] # Nil /\ nodesFile[n].form # "bad"

Read(n) == IF Valid(n) THEN [addr |-> nodesFile[n].addr, key |-> nodesFile[n].key]
           ELSE Nil

Goes(f, place) == where' = [where EXCEPT ![f] = place]

FrontStarts(f) ==
    /\ where[f] = "out"
    /\ fleet' = [fleet EXCEPT ![f] = [n \in Names |-> Read(n)]]
    /\ migrated' = IF \E n \in Names : Valid(n) /\ nodesFile[n].form = "old"
                   THEN migrated \cup {f} ELSE migrated \ {f}
    /\ Goes(f, "tokens")
    /\ UNCHANGED <<tokenVars, nodesFile, tokensFile, given, saved>>

\* The key of a node that came without: from agent.env or from the sidecar.
KeyOnFile(n) == IF n = Local THEN ClientToken
                ELSE IF tokensFile = Nil THEN Nil ELSE tokensFile[n]

\* Faulty variant of Stamped: the sidecar is not read.
StampedLocal(node, n) == IF node = Nil \/ node.key # Nil THEN node
                         ELSE [node EXCEPT !.key = IF n = Local THEN ClientToken ELSE Nil]

Stamped(node, n) == IF node = Nil \/ node.key # Nil THEN node
                    ELSE [node EXCEPT !.key = KeyOnFile(n)]

\* _populate_local_token and _populate_remote_tokens.
FrontLoads(f) ==
    /\ where[f] = "tokens"
    /\ fleet' = [fleet EXCEPT ![f] = [n \in Names |-> Stamped(fleet[f][n], n)]]
    /\ Goes(f, IF f \in migrated THEN "save1" ELSE "in")
    /\ UNCHANGED <<tokenVars, nodesFile, tokensFile, migrated, given, saved>>

-----------------------------------------------------------------------------
(* add_node and remove_node, each of which saves. *)

Puts(f, n, node) == /\ fleet' = [fleet EXCEPT ![f][n] = node]
                    /\ Goes(f, "save1")

\* The CLI does not overwrite, the UI does: to add a node, or to change a key.
AddNode(f, n, a, k, overwrite) ==
    /\ where[f] = "in" /\ (fleet[f][n] = Nil \/ overwrite)
    /\ Puts(f, n, [addr |-> a, key |-> k])
    /\ given' = IF k = Nil THEN given ELSE given \cup {<<n, a, k>>}
    /\ UNCHANGED <<tokenVars, nodesFile, tokensFile, migrated, saved>>

RemoveNode(f, n) ==
    /\ where[f] = "in" /\ fleet[f][n] # Nil
    /\ Puts(f, n, Nil)
    /\ UNCHANGED <<tokenVars, nodesFile, tokensFile, migrated, given, saved>>

\* is_local_agent_ready: an agent answers that the registry does not know.
FindsLocalAgent(f, a) ==
    /\ where[f] = "in" /\ Serving /\ fleet[f][Local] = Nil
    /\ Puts(f, Local, [addr |-> a, key |-> ClientToken])
    /\ UNCHANGED <<tokenVars, nodesFile, tokensFile, migrated, given, saved>>

FrontExits(f) ==
    /\ where[f] = "in"
    /\ fleet' = [fleet EXCEPT ![f] = NoFleet]
    /\ migrated' = migrated \ {f}
    /\ Goes(f, "out")
    /\ UNCHANGED <<tokenVars, nodesFile, tokensFile, given, saved>>

-----------------------------------------------------------------------------
(* _save and _save_node_tokens: each file is emptied and then written. *)

NodesEmptied(f) ==
    /\ where[f] = "save1"
    /\ nodesFile' = Nil
    /\ Goes(f, "save2")
    /\ UNCHANGED <<tokenVars, tokensFile, fleet, migrated, given, saved>>

\* has_api_key is descriptive; the key itself is not written here.
NodesWritten(f) ==
    /\ where[f] = "save2"
    /\ nodesFile' = [n \in Names |->
          IF fleet[f][n] = Nil THEN Nil
          ELSE [addr |-> fleet[f][n].addr, form |-> "good", key |-> Nil]]
    /\ Goes(f, "save3")
    /\ UNCHANGED <<tokenVars, tokensFile, fleet, migrated, given, saved>>

KeyOf(f, n) == IF n = Local \/ fleet[f][n] = Nil THEN Nil ELSE fleet[f][n].key

\* The sidecar is written whole, so a key that is gone falls out of it.
KeysToWrite(f) == [n \in Names |-> KeyOf(f, n)]

Finishes(f) ==
    /\ saved' = [n \in Names |->
          IF fleet[f][n] = Nil THEN Nil ELSE [fleet[f][n] EXCEPT !.key = KeyOf(f, n)]]
    /\ migrated' = migrated \ {f}
    /\ Goes(f, "in")

\* Faulty variant of TokensEmptied: with no key to write the file stays.
TokensKept(f) ==
    /\ where[f] = "save3"
    /\ IF KeysToWrite(f) = NoFleet
       THEN tokensFile' = tokensFile /\ Finishes(f)
       ELSE tokensFile' = Nil /\ Goes(f, "save4") /\ UNCHANGED <<migrated, saved>>
    /\ UNCHANGED <<tokenVars, nodesFile, fleet, given>>

TokensEmptied(f) ==
    /\ where[f] = "save3"
    /\ tokensFile' = Nil
    /\ Goes(f, "save4")
    /\ UNCHANGED <<tokenVars, nodesFile, fleet, migrated, given, saved>>

TokensWritten(f) ==
    /\ where[f] = "save4"
    /\ tokensFile' = KeysToWrite(f)
    /\ Finishes(f)
    /\ UNCHANGED <<tokenVars, nodesFile, fleet, given>>

-----------------------------------------------------------------------------
Adds(f, overwrite) == \E n \in Names, a \in Addrs, k \in Tokens \cup {Nil} :
                         AddNode(f, n, a, k, overwrite)
Removes(f) == \E n \in Names : RemoveNode(f, n)

\* The commands of the CLI, and the form and the cards of the UI.
CommandEdit(f) == Adds(f, FALSE) \/ Removes(f)
FormEdit(f) == Adds(f, TRUE) \/ Removes(f)
Edit(f) == CommandEdit(f) \/ FormEdit(f) \/ \E a \in Addrs : FindsLocalAgent(f, a)

FrontStep(f) == \/ FrontLoads(f) \/ NodesEmptied(f) \/ NodesWritten(f)
                \/ TokensEmptied(f) \/ TokensWritten(f)

Busy == \E f \in Fronts : where[f] \notin {"out", "in"}

(* One process at a time has the files open: nothing in the code sees to it, *)
(* the operator does.  The copies of the others may still be old.            *)
OneByOneNext ==
    \/ /\ ~Starting /\ ~Busy /\ AgentLaunch
       /\ UNCHANGED registryVars
    \/ AgentProgress /\ UNCHANGED registryVars
    \/ \E f \in Fronts : \/ /\ ~Starting /\ ~Busy
                            /\ FrontStarts(f) \/ Edit(f)
                         \/ FrontExits(f) \/ FrontStep(f)
OneByOneSpec == RegistryInit /\ [][OneByOneNext]_fleetVars

-----------------------------------------------------------------------------
(* What a launcher loads, when nobody is saving, is what was saved last: two *)
(* files, one of them without keys, and a third for the local agent hold the *)
(* registry between them.                                                    *)
SavedFleetIsLoaded ==
    ~Busy /\ saved # Nil =>
        \A n \in Names \ {Local} : Stamped(Read(n), n) = saved[n]

(* A key goes to the address it was given for, though the sidecar knows only *)
(* the name and a name may be given to another address.                      *)
KeysGoWhereGiven ==
    \A f \in Fronts, n \in Names \ {Local} :
        LET node == fleet[f][n] IN
        where[f] = "in" /\ node # Nil =>
           (node.key # Nil => <<n, node.addr, node.key>> \in given)

(* A launcher that knows a key for the local agent knows the one that the    *)
(* agent demands, unless its operator gave the agent or the node another.    *)
LocalKeyOpensAgent ==
    \A f \in Fronts, g \in Agents :
        LET node == fleet[f][Local]
            mine == token[g].value IN
        (/\ stage[g] = "serving" /\ token[g].filed
         /\ where[f] = "in" /\ node # Nil)
        => node.key \in {Nil, mine} \/ <<Local, node.addr, node.key>> \in given
=============================================================================

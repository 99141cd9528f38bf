------------------------------ MODULE ConfigStore ------------------------------
(* config.json and the callers that read and edit it (core/config.py).       *)
(* Nobody owns the file: every surface loads all of it, changes its copy and *)
(* saves all of it, and a load may save as well, to migrate old entries.  A  *)
(* save writes a temporary file, named after the process and so shared by    *)
(* its threads, and renames it.  A file name refers to an inode, which a     *)
(* writer that has it open goes on writing after a rename.                   *)
EXTENDS Migration

CONSTANTS
    Names,     \* model names
    Bodies,    \* contents of an entry besides its migrated fields
    Editors,   \* threads of launcher processes that use the store
    Procs,     \* launcher processes
    ProcOf,    \* [Editors -> Procs]
    Asked,     \* [Editors -> SUBSET Calls], what each thread is asked for
    Inodes,    \* files that may exist at a time
    Seeds,     \* contents config.json may have in the beginning
    Faults,    \* which of {"disk", "crash"} may happen
    Nil,       \* no file, no entry
    Torn       \* what a file holds until its writer has finished

\* "load" stands for every read-only caller, "edit" for the form of the UI,
\* which adds or updates as its own load says.
Calls == {"load", "add", "update", "edit", "remove"}

Contents == [Names -> Entry(Bodies) \cup {Nil}]

ASSUME StoreAssumption ==
    /\ ProcOf \in [Editors -> Procs]
    /\ Asked \in [Editors -> SUBSET Calls]
    /\ Seeds \subseteq Contents /\ Inodes # {}
    /\ Torn \notin Contents
    /\ Nil \notin Entry(Bodies) \cup Inodes \cup Names \cup Procs \cup Bodies

VARIABLES
    text,     \* [Inodes -> contents, Torn until its writer has finished]
    config,   \* the inode config.json names, or Nil
    temp,     \* [Procs -> the inode config.{pid}.tmp names, or Nil]
    alive,    \* processes that have not died
    at,       \* [Editors -> Places], where the thread is
    call,     \* [Editors -> Call], what it is doing
    copy,     \* [Editors -> Contents], the models it has loaded
    fd,       \* [Editors -> the inode it has open for writing, or Nil]
    since     \* [Editors -> names others have changed since its load] (history)

\* The steps of save are "open", "dump", "swap" and "tidy"; "undo" is the
\* tidying of one that failed.
Places == {"idle", "read", "open", "dump", "swap", "tidy", "undo"}

\* migrating: the save under way is the rewrite of a load.
Call == [verb : Calls, name : Names \cup {Nil}, body : Bodies \cup {Nil},
         migrating : BOOLEAN]
NoCall == [verb |-> "load", name |-> Nil, body |-> Nil, migrating |-> FALSE]

storeVars == <<text, config, temp, alive, at, call, copy, fd, since>>
disk == <<text, config, temp>>

StoreTypeOK ==
    /\ text \in [Inodes -> Contents \cup {Torn}]
    /\ config \in Inodes \cup {Nil}
    /\ temp \in [Procs -> Inodes \cup {Nil}]
    /\ alive \subseteq Procs
    /\ at \in [Editors -> Places]
    /\ call \in [Editors -> Call]
    /\ copy \in [Editors -> Contents]
    /\ fd \in [Editors -> Inodes \cup {Nil}]
    /\ since \in [Editors -> SUBSET Names]

NoModels == [n \in Names |-> Nil]
Stored == IF config = Nil THEN NoModels ELSE text[config]

StoreInit ==
    /\ config \in {Nil, CHOOSE i \in Inodes : TRUE}
    /\ \E s \in Seeds :
          text = [i \in Inodes |-> IF i = config THEN s ELSE NoModels]
    /\ temp = [p \in Procs |-> Nil]
    /\ alive = Procs
    /\ at = [t \in Editors |-> "idle"]
    /\ call = [t \in Editors |-> NoCall]
    /\ copy = [t \in Editors |-> NoModels]
    /\ fd = [t \in Editors |-> Nil]
    /\ since = [t \in Editors |-> {}]

-----------------------------------------------------------------------------
(* Callers.  What they know of the store when they call may be out of date,  *)
(* so a model may be added that exists and one updated that does not.        *)

Ends(t) == /\ at' = [at EXCEPT ![t] = "idle"]
           /\ call' = [call EXCEPT ![t] = NoCall]
           /\ copy' = [copy EXCEPT ![t] = NoModels]

Requested(t, verb, n, b) ==
    /\ at[t] = "idle" /\ verb \in Asked[t] /\ ProcOf[t] \in alive
    /\ at' = [at EXCEPT ![t] = "read"]
    /\ call' = [call EXCEPT ![t] =
          [verb |-> verb, name |-> n, body |-> b, migrating |-> FALSE]]
    /\ UNCHANGED <<disk, alive, copy, fd, since>>

\* Every surface reads; the UI's form and the MCP tool add; the MCP tool
\* updates; the UI's edit form saves; delete_model and the CLI remove.
Reads(t) == Requested(t, "load", Nil, Nil)
Adds(t) == \E n \in Names, b \in Bodies : Requested(t, "add", n, b)
Updates(t) == \E n \in Names, b \in Bodies : Requested(t, "update", n, b)
SavesForm(t) == \E n \in Names, b \in Bodies : Requested(t, "edit", n, b)
Removes(t) == \E n \in Names : Requested(t, "remove", n, Nil)
Request(t) == Reads(t) \/ Adds(t) \/ Updates(t) \/ SavesForm(t) \/ Removes(t)

\* The entry a caller saves is a current one.
Current(b) == [mirror |-> [r \in Rules |-> Absent],
               extra |-> [r \in Rules |-> Absent],
               tokens |-> TRUE, list |-> FALSE, unknown |-> FALSE, body |-> b]

Edited(t, models) ==
    [models EXCEPT ![call[t].name] =
        IF call[t].verb = "remove" THEN Nil ELSE Current(call[t].body)]

(* What a caller does with the models it has loaded: the form goes on as one *)
(* of the other edits, with a load of its own; an update of a model that is  *)
(* not there raises, and a removal of one has nothing to do.                 *)
Continue(t, models) ==
    LET verb == call[t].verb
        Known == models[call[t].name] # Nil
    IN
    \/ /\ verb = "load" \/ (verb \in {"update", "remove"} /\ ~Known)
       /\ Ends(t)
    \/ /\ verb = "edit"
       /\ at' = [at EXCEPT ![t] = "read"]
       /\ call' = [call EXCEPT ![t].verb = IF Known THEN "update" ELSE "add",
                               ![t].migrating = FALSE]
       /\ UNCHANGED copy
    \/ /\ verb = "add" \/ (verb \in {"update", "remove"} /\ Known)
       /\ at' = [at EXCEPT ![t] = "open"]
       /\ call' = [call EXCEPT ![t].migrating = FALSE]
       /\ copy' = [copy EXCEPT ![t] = Edited(t, models)]

-----------------------------------------------------------------------------
(* load_with_errors. *)

Loaded == [n \in Names |->
              IF Stored[n] = Nil THEN Nil
              ELSE IF Quarantined(Stored[n]) THEN Nil ELSE Migrated(Stored[n])]
Errors == {n \in Names : Stored[n] # Nil /\ Quarantined(Stored[n])}
AnyDirty == \E n \in Names \ Errors : Stored[n] # Nil /\ Dirty(Stored[n])
Readable == config # Nil => text[config] # Torn
Begins(t) == since' = [since EXCEPT ![t] = {}]

\* The file is there and cannot be read, or is not JSON.
Unread == config # Nil /\ ("disk" \in Faults \/ ~Readable)

\* Faulty variant of LoadRaises: such a file is taken for an empty one.
LoadsNothing(t) ==
    /\ at[t] = "read" /\ Unread
    /\ Continue(t, NoModels)
    /\ Begins(t)
    /\ UNCHANGED <<disk, alive, fd>>

\* The load raises, and the call with it.
LoadRaises(t) ==
    /\ at[t] = "read" /\ Unread
    /\ Ends(t)
    /\ UNCHANGED <<disk, alive, fd, since>>

\* Faulty variant of Rewrites: a quarantined entry does not prevent it.
RewritesAlways == AnyDirty

\* An entry has changed in loading and none is quarantined.
Rewrites == AnyDirty /\ Errors = {}

LoadOnly(t) ==
    /\ at[t] = "read" /\ Readable /\ ~Rewrites
    /\ Continue(t, Loaded)
    /\ Begins(t)
    /\ UNCHANGED <<disk, alive, fd>>

LoadMigrates(t) ==
    /\ at[t] = "read" /\ Readable /\ Rewrites
    /\ at' = [at EXCEPT ![t] = "open"]
    /\ call' = [call EXCEPT ![t].migrating = TRUE]
    /\ copy' = [copy EXCEPT ![t] = Loaded]
    /\ Begins(t)
    /\ UNCHANGED <<disk, alive, fd>>

-----------------------------------------------------------------------------
(* save. *)

\* Faulty variant of TempName: one name for all processes.
FixedName(t) == CHOOSE p \in Procs : TRUE

\* The temporary file is named after the process.
TempName(t) == ProcOf[t]
Tmp(t) == temp[TempName(t)]
Unused(i) == /\ i # config /\ \A p \in Procs : temp[p] # i
             /\ \A t \in Editors : fd[t] # i

Goes(t, place) == at' = [at EXCEPT ![t] = place]

\* open(temp_path, "w") creates the file, or empties the one there is.
Open(t) ==
    /\ at[t] = "open"
    /\ \E i \in Inodes :
          /\ IF Tmp(t) = Nil THEN Unused(i) /\ i = CHOOSE j \in Inodes : Unused(j)
             ELSE i = Tmp(t)
          /\ text' = [text EXCEPT ![i] = Torn]
          /\ temp' = [temp EXCEPT ![TempName(t)] = i]
          /\ fd' = [fd EXCEPT ![t] = i]
    /\ Goes(t, "dump")
    /\ UNCHANGED <<config, alive, call, copy, since>>

\* Over what another thread wrote since the file was emptied, the shorter of
\* the two leaves a rest of the longer.
Dump(t) ==
    /\ at[t] = "dump"
    /\ \E c \in {copy[t]} \cup (IF text[fd[t]] = Torn THEN {} ELSE {Torn}) :
          text' = [text EXCEPT ![fd[t]] = c]
    /\ fd' = [fd EXCEPT ![t] = Nil]
    /\ Goes(t, "swap")
    /\ UNCHANGED <<config, temp, alive, call, copy, since>>

\* What llama-server would be launched with, before and after; with an entry
\* that cannot be loaded it is not launched at all.
Loadable(e) == e # Nil /\ ~Quarantined(e)
SameModel(e, f) ==
    \/ e = f
    \/ Loadable(e) /\ Loadable(f) /\ e.body = f.body /\ Argv(e) = Argv(f)

Differs(i) == {n \in Names : \/ ~Readable \/ text[i] = Torn
                             \/ ~SameModel(Stored[n], text[i][n])}

\* An inode that no name and no thread refers to is as good as a new one.
Freed(i) == IF i # Nil /\ \A t \in Editors : fd[t] # i
            THEN [text EXCEPT ![i] = NoModels] ELSE text

\* temp_path.replace(CONFIG_PATH).
Replace(t) ==
    /\ at[t] = "swap" /\ Tmp(t) # Nil
    /\ config' = Tmp(t)
    /\ temp' = [temp EXCEPT ![TempName(t)] = Nil]
    /\ since' = [u \in Editors |->
          IF u # t /\ at[u] \notin {"idle", "read"}
          THEN since[u] \cup Differs(Tmp(t)) ELSE since[u]]
    /\ text' = Freed(config)
    /\ Goes(t, "tidy")
    /\ UNCHANGED <<alive, call, copy, fd>>

\* Another thread of the process has renamed or removed the temporary file, or
\* the rename is an OSError.
ReplaceFails(t) ==
    /\ at[t] = "swap" /\ (Tmp(t) = Nil \/ "disk" \in Faults)
    /\ Goes(t, "undo")
    /\ UNCHANGED <<disk, alive, call, copy, fd, since>>

\* An OSError of the open or of the write.
SaveFails(t) ==
    /\ "disk" \in Faults /\ at[t] \in {"open", "dump"}
    /\ fd' = [fd EXCEPT ![t] = Nil]
    /\ Goes(t, "undo")
    /\ UNCHANGED <<disk, alive, call, copy, since>>

(* The "finally" of save, and what its caller makes of the outcome: a load   *)
(* goes on with the models it has read whether or not it could rewrite them, *)
(* an edit ends or raises.                                                   *)
Tidy(t) ==
    /\ at[t] \in {"tidy", "undo"}
    /\ temp' = [temp EXCEPT ![TempName(t)] = Nil]
    /\ text' = Freed(Tmp(t))
    /\ IF call[t].migrating THEN Continue(t, copy[t]) ELSE Ends(t)
    /\ since' = [since EXCEPT ![t] = IF at'[t] = "idle" THEN {} ELSE @]
    /\ UNCHANGED <<config, alive, fd>>

-----------------------------------------------------------------------------
\* A process dies and leaves its temporary file.
Dies(p) ==
    /\ "crash" \in Faults /\ p \in alive
    /\ alive' = alive \ {p}
    /\ at' = [t \in Editors |-> IF ProcOf[t] = p THEN "idle" ELSE at[t]]
    /\ call' = [t \in Editors |-> IF ProcOf[t] = p THEN NoCall ELSE call[t]]
    /\ copy' = [t \in Editors |-> IF ProcOf[t] = p THEN NoModels ELSE copy[t]]
    /\ fd' = [t \in Editors |-> IF ProcOf[t] = p THEN Nil ELSE fd[t]]
    /\ since' = [t \in Editors |-> IF ProcOf[t] = p THEN {} ELSE since[t]]
    /\ UNCHANGED disk

\* It is started again, with another pid: nobody looks at that file any more.
Restarts(p) ==
    /\ p \notin alive
    /\ alive' = alive \cup {p}
    /\ temp' = [temp EXCEPT ![p] = Nil]
    /\ text' = Freed(temp[p])
    /\ UNCHANGED <<config, at, call, copy, fd, since>>

StoreStep(t) == \/ LoadRaises(t) \/ LoadOnly(t) \/ LoadMigrates(t)
                \/ Open(t) \/ Dump(t) \/ Replace(t) \/ ReplaceFails(t)
                \/ SaveFails(t) \/ Tidy(t)

StoreNext == \/ \E t \in Editors : Request(t) \/ StoreStep(t)
             \/ \E p \in Procs : Dies(p) \/ Restarts(p)

StoreSpec == StoreInit /\ [][StoreNext]_storeVars

-----------------------------------------------------------------------------
(* A reader always finds a whole file, whoever is saving or has died while   *)
(* saving: the purpose of the temporary file and of the pid in its name.     *)
ConfigIsWhole == Readable

(* The rewrite of a load loses nothing: every entry that nobody else changed *)
(* since the load is still there and launches the same command line.  A load *)
(* is a read to its caller, who expects no harm from repeating it.           *)
MigrationPreserves ==
    [][\A t \in Editors :
          at[t] = "swap" /\ at'[t] = "tidy" /\ call[t].migrating =>
             \A n \in Names \ since[t] : SameModel(Stored[n], Stored'[n])]_storeVars

(* An edit changes the entry it is about, and of the others only those that  *)
(* somebody else has changed since it loaded the file, and the quarantined.  *)
EditsAreLocal ==
    [][\A t \in Editors :
          at[t] = "swap" /\ at'[t] = "tidy" /\ ~call[t].migrating =>
             \A n \in Names \ (since[t] \cup {call[t].name}) :
                \/ SameModel(Stored[n], Stored'[n])
                \/ Stored[n] # Nil /\ Quarantined(Stored[n])]_storeVars

(* An edit leaves the entries it is not about alone, those included that     *)
(* could not be loaded (config.py: rewriting would delete the very entries   *)
(* the operator has to hand-fix).                                            *)
EditsKeepQuarantined ==
    [][\A n \in Names :
          Stored[n] # Nil /\ Quarantined(Stored[n])
          /\ (\A t \in Editors : call[t].name # n)
          => Stored'[n] = Stored[n]]_storeVars
================================================================================

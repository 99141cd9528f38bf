------------------------------ MODULE StoreProofs ------------------------------
(* That a migration changes no command line, and that the config file is     *)
(* whole at every moment when each launcher process has one thread in it.    *)
EXTENDS StoreInv, TLAPS

\* Migrating an entry that is loadable gives an entry.
LEMMA MigratedIsEntry ==
    ASSUME NEW B, NEW e \in Entry(B), ~Quarantined(e)
    PROVE  Migrated(e) \in Entry(B)
<1>1. \A r \in Placed(e) : Emits(r, e.mirror[r]) =>
         Token(r, e.mirror[r]) \in Spelled
    BY DEF Quarantined, Unrenderable, Placed, Present, Emits, Token, Spelled,
           Entry, Rules, Values, Absent
<1>2. \A r \in Rules :
         (IF r \in Placed(e) /\ Emits(r, e.mirror[r])
          THEN Token(r, e.mirror[r]) ELSE e.extra[r]) \in Spelled \cup {Absent}
    BY <1>1 DEF Entry
<1> QED BY <1>2 DEF Migrated, Entry

(* An entry that is not quarantined launches llama-server with the same      *)
(* options after its migration as before (config.py: "byte-identical") if    *)
(* and only if it says what the options are that were always given: of one   *)
(* that left threads_batch, ubatch_size or flash_attn to its default the     *)
(* option is lost (config.py:59).                                            *)
THEOREM MigrationKeepsArgv ==
    ASSUME NEW B, NEW e \in Entry(B), ~Quarantined(e)
    PROVE  Argv(Migrated(e)) = Argv(e) <=> Complete(e)
<1>1. /\ e.mirror \in [Rules -> Values \cup {Absent}]
      /\ e.extra \in [Rules -> Spelled \cup {Absent}]
    BY DEF Entry
<1>2. \A r \in Rules : /\ Migrated(e).mirror[r] = Absent
                       /\ Migrated(e).extra[r] =
                             IF r \in Placed(e) /\ Emits(r, e.mirror[r])
                             THEN Token(r, e.mirror[r]) ELSE e.extra[r]
    BY DEF Migrated, Entry
<1>3. Present(Migrated(e)) = {}
    BY <1>2 DEF Present
\* Only an option that the entry neither spells nor has a field for can differ.
<1>4. ASSUME NEW r \in Rules
      PROVE  Effective(Migrated(e), r) = Effective(e, r)
                <=> ~(/\ e.extra[r] = Absent /\ e.mirror[r] = Absent
                      /\ r = "always" /\ Present(e) # {})
  <2>1. CASE e.extra[r] # Absent
      BY <1>2, <2>1 DEF Effective, Placed, Absent
  <2>2. CASE e.extra[r] = Absent /\ e.mirror[r] = Absent
    <3>1. Migrated(e).extra[r] = Absent /\ Migrated(e).mirror[r] = Absent
        BY <1>2, <2>2 DEF Placed, Present
    <3> QED BY <1>3, <2>2, <3>1 DEF Effective, Absent, Default
  <2>3. CASE e.extra[r] = Absent /\ e.mirror[r] # Absent
    <3>1. r \in Placed(e) /\ e.mirror[r] \in Values
        BY <1>1, <2>3 DEF Placed, Present
    <3>2. ~Unrenderable(r, e.mirror[r])
        BY <3>1 DEF Quarantined
    <3>3. Migrated(e).extra[r] = IF Emits(r, e.mirror[r])
                                 THEN Token(r, e.mirror[r]) ELSE Absent
        BY <1>2, <2>3, <3>1
    <3>4. Effective(Migrated(e), r) = Migrated(e).extra[r]
        BY <1>2, <1>3, <3>3, <3>2
           DEF Effective, Emits, Token, Unrenderable, Rules, Values, Absent
    <3> QED
        BY <2>3, <3>1, <3>2, <3>3, <3>4
        DEF Effective, Emits, Token, Unrenderable, Rules, Values, Absent
  <2> QED BY <2>1, <2>2, <2>3
<1> QED BY <1>4 DEF Argv, Complete, Rules

(* What has been migrated is neither migrated nor quarantined again: a       *)
(* second load finds nothing to rewrite.                                     *)
THEOREM MigrationIsDone ==
    ASSUME NEW B, NEW e \in Entry(B), ~Quarantined(e)
    PROVE  /\ ~Dirty(Migrated(e)) /\ ~Quarantined(Migrated(e))
           /\ Migrated(Migrated(e)) = Migrated(e)
<1>1. /\ Migrated(e) \in Entry(B)
      /\ ~Migrated(e).list /\ ~Migrated(e).unknown
      /\ \A r \in Rules : Migrated(e).mirror[r] = Absent
    BY MigratedIsEntry DEF Migrated, Entry, Quarantined
<1>2. Present(Migrated(e)) = {} /\ Placed(Migrated(e)) = {}
    BY <1>1 DEF Present, Placed
<1>3. ~Dirty(Migrated(e)) /\ ~Quarantined(Migrated(e))
    BY <1>1, <1>2 DEF Dirty, Quarantined
<1>4. Migrated(Migrated(e)) = Migrated(e)
    BY <1>1, <1>2 DEF Migrated, Entry
<1> QED BY <1>3, <1>4

-----------------------------------------------------------------------------
(* The file is whole: no two names refer to one inode, and a temporary file  *)
(* is torn exactly while its writer has it open.                             *)

\* One thread of each process uses the store.
OneThreadEach == \A t, u \in Editors : ProcOf[t] = ProcOf[u] => t = u

\* What is read from a readable file is contents of a store.
LEMMA LoadedIsContents ==
    ASSUME StoreTypeOK, Readable
    PROVE  Loaded \in Contents /\ NoModels \in Contents
<1>1. Stored \in Contents
    BY DEF Stored, StoreTypeOK, Readable, Contents, NoModels
<1>2. \A n \in Names : Stored[n] # Nil /\ ~Quarantined(Stored[n])
         => Migrated(Stored[n]) \in Entry(Bodies)
    BY <1>1, MigratedIsEntry DEF Contents
<1>3. Loaded \in Contents
    BY <1>2 DEF Loaded, Contents
<1> QED BY <1>3 DEF NoModels, Contents

\* An entry in the current format is an entry.
LEMMA CurrentIsEntry ==
    ASSUME NEW b \in Bodies
    PROVE  Current(b) \in Entry(Bodies)
BY DEF Current, Entry, Rules, Values, Spelled

\* An edit of contents gives contents.
LEMMA EditedIsContents ==
    ASSUME StoreTypeOK, CallOK, NEW t \in Editors, NEW models \in Contents,
           call[t].verb \in {"add", "update", "remove"}
    PROVE  Edited(t, models) \in Contents
<1>1. CASE call[t].verb = "remove"
    BY <1>1 DEF Edited, Contents
<1>2. CASE call[t].verb # "remove"
  <2>1. Current(call[t].body) \in Entry(Bodies)
      BY <1>2, CurrentIsEntry DEF CallOK
  <2> QED BY <1>2, <2>1 DEF Edited, Contents
<1> QED BY <1>1, <1>2

\* What a caller does next leaves its part of the state in order.
LEMMA ContinueOK ==
    ASSUME StoreTypeOK, CallOK, NEW t \in Editors, NEW models \in Contents,
           Continue(t, models)
    PROVE  /\ at' \in [Editors -> Places] /\ call' \in [Editors -> Call]
           /\ copy' \in [Editors -> Contents] /\ CallOK'
           /\ at'[t] \in {"idle", "read", "open"}
           /\ \A u \in Editors \ {t} : at'[u] = at[u]
<1> USE DEF StoreTypeOK, Call, Calls, Places
<1>1. CASE Ends(t)
    BY <1>1 DEF Ends, NoCall, NoModels, Contents, CallOK
<1>2. CASE /\ call[t].verb = "edit"
           /\ at' = [at EXCEPT ![t] = "read"]
           /\ \E v \in {"update", "add"} :
                 call' = [call EXCEPT ![t].verb = v, ![t].migrating = FALSE]
           /\ UNCHANGED copy
  <2>1. PICK v \in {"update", "add"} :
           call' = [call EXCEPT ![t].verb = v, ![t].migrating = FALSE]
      BY <1>2
  <2> DEFINE new == [call[t] EXCEPT !.verb = v, !.migrating = FALSE]
  <2>2. /\ call' = [call EXCEPT ![t] = new]
        /\ new.verb = v /\ new.name = call[t].name /\ new.body = call[t].body
      BY <2>1
  <2>3. new \in Call
      BY <2>1
  <2>5. call' \in [Editors -> Call]
      BY <2>2, <2>3
  <2>4. CallOK'
      BY <1>2, <2>2 DEF CallOK
  <2> QED BY <1>2, <2>5, <2>4
<1>3. CASE /\ call[t].verb \in {"add", "update", "remove"}
           /\ at' = [at EXCEPT ![t] = "open"]
           /\ call' = [call EXCEPT ![t].migrating = FALSE]
           /\ copy' = [copy EXCEPT ![t] = Edited(t, models)]
  <2>1. Edited(t, models) \in Contents
      BY <1>3, EditedIsContents
  <2> QED BY <1>3, <2>1 DEF CallOK
<1>4. \/ Ends(t)
      \/ /\ call[t].verb = "edit"
         /\ at' = [at EXCEPT ![t] = "read"]
         /\ \E v \in {"update", "add"} :
               call' = [call EXCEPT ![t].verb = v, ![t].migrating = FALSE]
         /\ UNCHANGED copy
      \/ /\ call[t].verb \in {"add", "update", "remove"}
         /\ at' = [at EXCEPT ![t] = "open"]
         /\ call' = [call EXCEPT ![t].migrating = FALSE]
         /\ copy' = [copy EXCEPT ![t] = Edited(t, models)]
    BY DEF Continue
<1> QED BY <1>1, <1>2, <1>3, <1>4

\* What remains to be shown of a step, once the types are settled.
FilesOK == Names1 /\ Writers /\ ConfigIsWhole

\* The file is whole at first and nobody has it open.
LEMMA WholeInit == StoreInit => WholeInv
<1> SUFFICES ASSUME StoreInit PROVE WholeInv
    OBVIOUS
<1>1. PICK s \in Seeds : text = [i \in Inodes |-> IF i = config THEN s ELSE NoModels]
    BY DEF StoreInit
<1>2. s \in Contents /\ NoModels \in Contents /\ Torn \notin Contents
    BY StoreAssumption DEF Contents, NoModels
<1>3. config \in Inodes \cup {Nil}
  <2>1. config = Nil \/ (config = CHOOSE i \in Inodes : TRUE)
      BY DEF StoreInit
  <2>2. (CHOOSE i \in Inodes : TRUE) \in Inodes
      BY StoreAssumption
  <2> QED BY <2>1, <2>2
<1> QED
    BY <1>1, <1>2, <1>3, StoreAssumption
    DEF StoreInit, WholeInv, StoreTypeOK, CallOK, Names1, Writers, ConfigIsWhole,
        Readable, NoCall, Call, Calls, Places

\* Inodes that are given back hold well-formed texts.
LEMMA FreedOK ==
    ASSUME StoreTypeOK, NEW i
    PROVE  Freed(i) \in [Inodes -> Contents \cup {Torn}]
BY DEF Freed, StoreTypeOK, NoModels, Contents

\* Files, copies and calls stay well-formed.
LEMMA TypesNext ==
    ASSUME StoreTypeOK, CallOK, [StoreNext]_storeVars
    PROVE  StoreTypeOK' /\ CallOK'
<1>1. ASSUME NEW t \in Editors, Request(t) PROVE StoreTypeOK' /\ CallOK'
  <2>1. PICK v \in Calls, n \in Names \cup {Nil}, b \in Bodies \cup {Nil} :
           /\ Requested(t, v, n, b)
           /\ v \in {"add", "update", "edit"} => b \in Bodies
      BY <1>1 DEF Request, Reads, Adds, Updates, SavesForm, Removes, Calls
  <2>2. [verb |-> v, name |-> n, body |-> b, migrating |-> FALSE] \in Call
      BY DEF Call
  <2> QED BY <2>1, <2>2 DEF Requested, disk, StoreTypeOK, CallOK, Places
<1>2. ASSUME NEW t \in Editors, LoadRaises(t) PROVE StoreTypeOK' /\ CallOK'
  <2>1. NoCall \in Call /\ NoModels \in Contents
      BY DEF NoCall, Call, Calls, NoModels, Contents
  <2> QED BY <1>2, <2>1 DEF LoadRaises, Ends, disk, StoreTypeOK, CallOK, Places, NoCall
<1>3. ASSUME NEW t \in Editors, LoadOnly(t) PROVE StoreTypeOK' /\ CallOK'
  <2>1. Loaded \in Contents /\ Continue(t, Loaded)
      BY <1>3, LoadedIsContents DEF LoadOnly
  <2>2. /\ at' \in [Editors -> Places] /\ call' \in [Editors -> Call]
        /\ copy' \in [Editors -> Contents] /\ CallOK'
      BY <2>1, ContinueOK
  <2> QED BY <1>3, <2>2 DEF LoadOnly, Begins, disk, StoreTypeOK
<1>4. ASSUME NEW t \in Editors, LoadMigrates(t) PROVE StoreTypeOK' /\ CallOK'
  <2>1. Loaded \in Contents
      BY <1>4, LoadedIsContents DEF LoadMigrates
  <2>2. [call[t] EXCEPT !.migrating = TRUE] \in Call
      BY DEF StoreTypeOK, Call
  <2>3. call' = [call EXCEPT ![t] = [call[t] EXCEPT !.migrating = TRUE]]
      BY <1>4 DEF LoadMigrates
  <2>4. call' \in [Editors -> Call] /\ CallOK'
      BY <2>2, <2>3 DEF StoreTypeOK, Call, CallOK
  <2> QED BY <1>4, <2>1, <2>4 DEF LoadMigrates, Begins, disk, StoreTypeOK, Places
<1>5. ASSUME NEW t \in Editors, Open(t) PROVE StoreTypeOK' /\ CallOK'
    BY <1>5 DEF Open, Goes, TempName, StoreTypeOK, CallOK, Places
<1>6. ASSUME NEW t \in Editors, Dump(t) PROVE StoreTypeOK' /\ CallOK'
    BY <1>6 DEF Dump, Goes, StoreTypeOK, CallOK, Places
<1>7. ASSUME NEW t \in Editors, Replace(t) PROVE StoreTypeOK' /\ CallOK'
  <2>1. config' \in Inodes \cup {Nil} /\ temp' \in [Procs -> Inodes \cup {Nil}]
      BY <1>7, StoreAssumption DEF Replace, Tmp, TempName, StoreTypeOK
  <2>2. since' \in [Editors -> SUBSET Names]
      BY <1>7 DEF Replace, Differs, StoreTypeOK
  <2>3. text' \in [Inodes -> Contents \cup {Torn}]
      BY <1>7, FreedOK DEF Replace
  <2> QED BY <1>7, <2>1, <2>2, <2>3 DEF Replace, Goes, StoreTypeOK, CallOK, Places
<1>8. ASSUME NEW t \in Editors, ReplaceFails(t) PROVE StoreTypeOK' /\ CallOK'
    BY <1>8 DEF ReplaceFails, Goes, disk, StoreTypeOK, CallOK, Places
<1>9. ASSUME NEW t \in Editors, SaveFails(t) PROVE StoreTypeOK' /\ CallOK'
    BY <1>9 DEF SaveFails, Goes, disk, StoreTypeOK, CallOK, Places
<1>10. ASSUME NEW t \in Editors, Tidy(t) PROVE StoreTypeOK' /\ CallOK'
  <2>1. /\ at' \in [Editors -> Places] /\ call' \in [Editors -> Call]
        /\ copy' \in [Editors -> Contents] /\ CallOK'
    <3>1. CASE Continue(t, copy[t])
        BY <3>1, ContinueOK DEF StoreTypeOK
    <3>2. CASE Ends(t)
        BY <3>2 DEF Ends, StoreTypeOK, CallOK, NoCall, Call, Calls, NoModels,
                    Contents, Places
    <3> QED BY <1>10, <3>1, <3>2 DEF Tidy
  <2>2. text' \in [Inodes -> Contents \cup {Torn}]
      BY <1>10, FreedOK DEF Tidy
  <2>3. since' \in [Editors -> SUBSET Names]
      BY <1>10 DEF Tidy, StoreTypeOK
  <2> QED BY <1>10, <2>1, <2>2, <2>3 DEF Tidy, TempName, StoreTypeOK
<1>11. ASSUME NEW p \in Procs, Dies(p) PROVE StoreTypeOK' /\ CallOK'
  <2>1. NoCall \in Call /\ NoModels \in Contents /\ NoCall.verb = "load"
      BY DEF NoCall, Call, Calls, NoModels, Contents
  <2> QED BY <1>11, <2>1 DEF Dies, disk, StoreTypeOK, CallOK, Places
<1>12. ASSUME NEW p \in Procs, Restarts(p) PROVE StoreTypeOK' /\ CallOK'
  <2>1. text' \in [Inodes -> Contents \cup {Torn}]
      BY <1>12, FreedOK DEF Restarts
  <2> QED BY <1>12, <2>1 DEF Restarts, StoreTypeOK, CallOK
<1>13. CASE UNCHANGED storeVars
    BY <1>13 DEF storeVars, StoreTypeOK, CallOK
<1> QED
    BY <1>1, <1>2, <1>3, <1>4, <1>5, <1>6, <1>7, <1>8, <1>9, <1>10, <1>11, <1>12,
       <1>13 DEF StoreNext, StoreStep

\* A step of one thread that touches no file.
LEMMA QuietFiles ==
    ASSUME WholeInv, NEW t \in Editors, UNCHANGED <<text, config, temp, alive, fd>>,
           at[t] \in {"idle", "read"}, at'[t] \in {"idle", "read", "open"},
           at[t] = "idle" => ProcOf[t] \in alive,
           \A u \in Editors \ {t} : at'[u] = at[u]
    PROVE  FilesOK'
BY DEF WholeInv, FilesOK, Names1, Writers, ConfigIsWhole, Readable

\* Inodes that are freed are none that a name or a thread refers to.
LEMMA FreedFile ==
    ASSUME WholeInv, NEW i, text' = Freed(i)
    PROVE  \A j \in Inodes : /\ text'[j] \in {text[j], NoModels}
                             /\ j # i \/ (\E t \in Editors : fd[t] = j) => text'[j] = text[j]
BY DEF Freed, WholeInv, StoreTypeOK

\* A save opens a temporary file of its own,
OpenedOn(t, i) ==
    /\ text' = [text EXCEPT ![i] = Torn]
    /\ temp' = [temp EXCEPT ![ProcOf[t]] = i]
    /\ fd' = [fd EXCEPT ![t] = i]
    /\ i # config
    /\ \A p \in Procs \ {ProcOf[t]} : temp[p] # i
    /\ \A u \in Editors \ {t} : fd[u] # i

\* Whoever opens the temporary file writes an inode that nobody else has.
LEMMA OpenFile ==
    ASSUME OneThreadEach, WholeInv, NEW t \in Editors, Open(t)
    PROVE  \E i \in Inodes : OpenedOn(t, i)
<1>0. StoreTypeOK /\ Names1 /\ Writers /\ ProcOf \in [Editors -> Procs]
    BY StoreAssumption DEF WholeInv
<1>1. PICK i \in Inodes :
         /\ IF Tmp(t) = Nil THEN Unused(i) ELSE i = Tmp(t)
         /\ text' = [text EXCEPT ![i] = Torn]
         /\ temp' = [temp EXCEPT ![ProcOf[t]] = i]
         /\ fd' = [fd EXCEPT ![t] = i]
    BY DEF Open, TempName
<1>2. /\ i # config
      /\ \A p \in Procs \ {ProcOf[t]} : temp[p] # i
      /\ \A u \in Editors \ {t} : fd[u] # i
  <2>1. CASE Tmp(t) = Nil
      BY <1>1, <2>1 DEF Unused
  <2>2. CASE Tmp(t) # Nil
      BY <1>0, <1>1, <2>2 DEF Tmp, TempName, Names1, Writers, OneThreadEach,
                              StoreTypeOK
  <2> QED BY <2>1, <2>2
<1> QED BY <1>1, <1>2 DEF OpenedOn

\* and writes the whole of its copy into it.
LEMMA DumpFile ==
    ASSUME WholeInv, NEW t \in Editors, Dump(t)
    PROVE  /\ at[t] = "dump" /\ fd[t] \in Inodes /\ fd[t] = temp[ProcOf[t]]
           /\ text' = [text EXCEPT ![fd[t]] = copy[t]]
           /\ copy[t] # Torn
           /\ fd' = [fd EXCEPT ![t] = Nil] /\ at' = [at EXCEPT ![t] = "swap"]
           /\ UNCHANGED <<config, temp, alive>>
<1>0. StoreTypeOK /\ Writers /\ Torn \notin Contents
    BY StoreAssumption DEF WholeInv
<1>1. at[t] = "dump" /\ fd[t] = temp[ProcOf[t]] /\ text[fd[t]] = Torn /\ fd[t] # Nil
    BY <1>0 DEF Dump, Writers
<1>2. fd[t] \in Inodes /\ copy[t] \in Contents
    BY <1>0, <1>1 DEF StoreTypeOK
<1>3. text' = [text EXCEPT ![fd[t]] = copy[t]]
    BY <1>1 DEF Dump
<1> QED BY <1>0, <1>1, <1>2, <1>3 DEF Dump, Goes

\* What is on disk, or about to be, stays in order.
LEMMA FilesNext ==
    ASSUME OneThreadEach, WholeInv, [StoreNext]_storeVars
    PROVE  FilesOK'
<1>0. /\ StoreTypeOK /\ CallOK /\ Names1 /\ Writers /\ ConfigIsWhole
      /\ Torn \notin Contents /\ NoModels \in Contents /\ Nil \notin Inodes
      /\ ProcOf \in [Editors -> Procs]
    BY StoreAssumption DEF WholeInv, NoModels, Contents
<1>1. ASSUME NEW t \in Editors, Request(t) PROVE FilesOK'
  <2>1. \E v, n, b : Requested(t, v, n, b)
      BY <1>1 DEF Request, Reads, Adds, Updates, SavesForm, Removes
  <2> QED BY <1>0, <2>1, QuietFiles DEF Requested, disk, StoreTypeOK
<1>2. ASSUME NEW t \in Editors, LoadRaises(t) PROVE FilesOK'
    BY <1>0, <1>2, QuietFiles DEF LoadRaises, Ends, disk, StoreTypeOK
<1>3. ASSUME NEW t \in Editors, LoadOnly(t) PROVE FilesOK'
  <2>1. Loaded \in Contents /\ Continue(t, Loaded)
      BY <1>0, <1>3, LoadedIsContents DEF LoadOnly
  <2>2. /\ at'[t] \in {"idle", "read", "open"}
        /\ \A u \in Editors \ {t} : at'[u] = at[u]
      BY <1>0, <2>1, ContinueOK
  <2> QED BY <1>0, <1>3, <2>2, QuietFiles DEF LoadOnly, disk
<1>4. ASSUME NEW t \in Editors, LoadMigrates(t) PROVE FilesOK'
    BY <1>0, <1>4, QuietFiles DEF LoadMigrates, disk, StoreTypeOK
<1>5. ASSUME NEW t \in Editors, Open(t) PROVE FilesOK'
  <2>1. PICK i \in Inodes : OpenedOn(t, i)
      BY <1>5, OpenFile
  <2>2. /\ text' = [text EXCEPT ![i] = Torn]
        /\ temp' = [temp EXCEPT ![ProcOf[t]] = i]
        /\ fd' = [fd EXCEPT ![t] = i]
        /\ i # config
        /\ \A p \in Procs \ {ProcOf[t]} : temp[p] # i
        /\ \A u \in Editors \ {t} : fd[u] # i
      BY <2>1 DEF OpenedOn
  <2>3. /\ at[t] = "open" /\ at' = [at EXCEPT ![t] = "dump"]
        /\ UNCHANGED <<config, alive>>
      BY <1>5 DEF Open, Goes
  <2>4. Names1'
      BY <1>0, <2>1, <2>2, <2>3 DEF Names1, StoreTypeOK
  <2>5. Writers'
    <3> SUFFICES ASSUME NEW u \in Editors
                 PROVE  /\ at'[u] = "dump" => /\ fd'[u] # Nil /\ fd'[u] = temp'[ProcOf[u]]
                                              /\ text'[fd'[u]] = Torn
                        /\ at'[u] # "dump" => fd'[u] = Nil
                        /\ at'[u] = "swap" => /\ temp'[ProcOf[u]] # Nil
                                              /\ text'[temp'[ProcOf[u]]] # Torn
                        /\ ProcOf[u] \notin alive' => at'[u] = "idle"
        BY DEF Writers
    <3>1. CASE u = t
        BY <1>0, <2>2, <2>3, <3>1 DEF StoreTypeOK, Writers
    <3>2. CASE u # t
        BY <1>0, <2>1, <2>2, <2>3, <3>2 DEF StoreTypeOK, Writers, OneThreadEach
    <3> QED BY <3>1, <3>2
  <2>6. ConfigIsWhole'
      BY <1>0, <2>1, <2>2, <2>3 DEF ConfigIsWhole, Readable, StoreTypeOK
  <2> QED BY <2>4, <2>5, <2>6 DEF FilesOK
<1>6. ASSUME NEW t \in Editors, Dump(t) PROVE FilesOK'
  <2>1. /\ at[t] = "dump" /\ fd[t] \in Inodes /\ fd[t] = temp[ProcOf[t]]
        /\ text' = [text EXCEPT ![fd[t]] = copy[t]]
        /\ copy[t] # Torn
        /\ fd' = [fd EXCEPT ![t] = Nil] /\ at' = [at EXCEPT ![t] = "swap"]
        /\ UNCHANGED <<config, temp, alive>>
    BY <1>6, DumpFile
  <2>2. \A u \in Editors \ {t} : temp[ProcOf[u]] # fd[t]
      BY <1>0, <2>1 DEF Names1, OneThreadEach
  <2>3. Names1' /\ ConfigIsWhole'
      BY <1>0, <2>1 DEF Names1, ConfigIsWhole, Readable, StoreTypeOK
  <2>4. Writers'
    <3>1. \A u \in Editors \ {t} : /\ at'[u] = at[u] /\ fd'[u] = fd[u]
                                   /\ at[u] = "dump" => fd[u] # fd[t]
      <4>1. \A u \in Editors \ {t} : at'[u] = at[u] /\ fd'[u] = fd[u]
          BY <1>0, <2>1 DEF StoreTypeOK
      <4>2. \A u \in Editors : at[u] = "dump" => fd[u] = temp[ProcOf[u]]
          BY <1>0 DEF Writers
      <4> QED BY <2>2, <4>1, <4>2
    <3>2. \A j \in Inodes : j # fd[t] => text'[j] = text[j]
        BY <1>0, <2>1 DEF StoreTypeOK
    <3>3. \A u \in Editors : /\ fd[u] \in Inodes \cup {Nil}
                             /\ temp[ProcOf[u]] \in Inodes \cup {Nil}
        BY <1>0 DEF StoreTypeOK
    <3>4. /\ at'[t] = "swap" /\ fd'[t] = Nil /\ text'[temp[ProcOf[t]]] = copy[t]
        BY <1>0, <2>1 DEF StoreTypeOK
    <3> QED BY <1>0, <2>1, <2>2, <3>1, <3>2, <3>3, <3>4 DEF Writers
  <2> QED BY <2>3, <2>4 DEF FilesOK
<1>7. ASSUME NEW t \in Editors, Replace(t) PROVE FilesOK'
  <2>1. /\ at[t] = "swap" /\ temp[ProcOf[t]] \in Inodes
        /\ config' = temp[ProcOf[t]] /\ text[config'] # Torn
        /\ temp' = [temp EXCEPT ![ProcOf[t]] = Nil]
        /\ at' = [at EXCEPT ![t] = "tidy"]
        /\ UNCHANGED <<alive, fd>>
      BY <1>0, <1>7 DEF Replace, Goes, Tmp, TempName, Writers, StoreTypeOK
  <2>2. /\ \A j \in Inodes \ {config} : text'[j] = text[j]
        /\ \A u \in Editors : fd[u] \in Inodes => text'[fd[u]] = text[fd[u]]
      BY <1>7, FreedFile DEF Replace
  <2>3. Names1'
      BY <1>0, <2>1 DEF Names1, StoreTypeOK
  <2>4. ConfigIsWhole'
      BY <1>0, <2>1, <2>2 DEF Names1, ConfigIsWhole, Readable
  <2>5. Writers'
    <3>1. \A u \in Editors \ {t} : temp'[ProcOf[u]] = temp[ProcOf[u]]
        BY <1>0, <2>1 DEF OneThreadEach, StoreTypeOK
    <3>2. \A u \in Editors : temp[ProcOf[u]] \in Inodes =>
             text'[temp[ProcOf[u]]] = text[temp[ProcOf[u]]]
        BY <1>0, <2>2 DEF Names1
    <3>3. \A u \in Editors : /\ fd[u] \in Inodes \cup {Nil}
                             /\ temp[ProcOf[u]] \in Inodes \cup {Nil}
        BY <1>0 DEF StoreTypeOK
    <3> QED BY <1>0, <2>1, <2>2, <3>1, <3>2, <3>3 DEF Writers, StoreTypeOK
  <2> QED BY <2>3, <2>4, <2>5 DEF FilesOK
<1>8. ASSUME NEW t \in Editors, ReplaceFails(t) PROVE FilesOK'
    BY <1>0, <1>8 DEF ReplaceFails, Goes, disk, FilesOK, Names1, Writers,
                      ConfigIsWhole, Readable, StoreTypeOK
<1>9. ASSUME NEW t \in Editors, SaveFails(t) PROVE FilesOK'
    BY <1>0, <1>9 DEF SaveFails, Goes, disk, FilesOK, Names1, Writers,
                      ConfigIsWhole, Readable, StoreTypeOK
<1>10. ASSUME NEW t \in Editors, Tidy(t) PROVE FilesOK'
  <2>1. /\ at[t] \in {"tidy", "undo"} /\ at'[t] \in {"idle", "read", "open"}
        /\ \A u \in Editors \ {t} : at'[u] = at[u]
    <3>1. CASE Continue(t, copy[t])
        BY <1>0, <1>10, <3>1, ContinueOK DEF StoreTypeOK, Tidy
    <3>2. CASE Ends(t)
        BY <1>0, <1>10, <3>2 DEF Ends, StoreTypeOK, Tidy
    <3> QED BY <1>10, <3>1, <3>2 DEF Tidy
  <2>2. /\ temp' = [temp EXCEPT ![ProcOf[t]] = Nil]
        /\ UNCHANGED <<config, alive, fd>>
      BY <1>10 DEF Tidy, TempName
  <2>3. /\ \A j \in Inodes : j # temp[ProcOf[t]] => text'[j] = text[j]
        /\ \A u \in Editors : fd[u] \in Inodes => text'[fd[u]] = text[fd[u]]
      BY <1>10, FreedFile DEF Tidy, Tmp, TempName
  <2>4. Names1'
      BY <1>0, <2>2 DEF Names1, StoreTypeOK
  <2>5. ConfigIsWhole'
      BY <1>0, <2>2, <2>3 DEF Names1, ConfigIsWhole, Readable, StoreTypeOK
  <2>6. Writers'
    <3>1. \A u \in Editors \ {t} : temp'[ProcOf[u]] = temp[ProcOf[u]]
        BY <1>0, <2>2 DEF OneThreadEach, StoreTypeOK
    <3>2. \A u \in Editors \ {t} : temp[ProcOf[u]] \in Inodes =>
             text'[temp[ProcOf[u]]] = text[temp[ProcOf[u]]]
        BY <1>0, <2>3 DEF Names1, OneThreadEach
    <3>3. \A u \in Editors : /\ fd[u] \in Inodes \cup {Nil}
                             /\ temp[ProcOf[u]] \in Inodes \cup {Nil}
        BY <1>0 DEF StoreTypeOK
    <3> QED BY <1>0, <2>1, <2>2, <2>3, <3>1, <3>2, <3>3 DEF Writers
  <2> QED BY <2>4, <2>5, <2>6 DEF FilesOK
<1>11. ASSUME NEW p \in Procs, Dies(p) PROVE FilesOK'
  <2>1. /\ at' = [t \in Editors |-> IF ProcOf[t] = p THEN "idle" ELSE at[t]]
        /\ fd' = [t \in Editors |-> IF ProcOf[t] = p THEN Nil ELSE fd[t]]
        /\ alive' = alive \ {p}
        /\ UNCHANGED <<text, config, temp>>
      BY <1>11 DEF Dies, disk
  <2> QED BY <1>0, <2>1 DEF FilesOK, Names1, Writers, ConfigIsWhole, Readable
<1>12. ASSUME NEW p \in Procs, Restarts(p) PROVE FilesOK'
  <2>1. /\ p \notin alive /\ alive' = alive \cup {p}
        /\ temp' = [temp EXCEPT ![p] = Nil]
        /\ UNCHANGED <<config, at, fd>>
      BY <1>12 DEF Restarts
  <2>2. /\ \A j \in Inodes : j # temp[p] => text'[j] = text[j]
        /\ \A u \in Editors : fd[u] \in Inodes => text'[fd[u]] = text[fd[u]]
      BY <1>12, FreedFile DEF Restarts
  <2>3. Names1'
      BY <1>0, <2>1 DEF Names1, StoreTypeOK
  <2>4. ConfigIsWhole'
      BY <1>0, <2>1, <2>2 DEF Names1, ConfigIsWhole, Readable, StoreTypeOK
  <2>5. Writers'
    <3>1. \A u \in Editors : at[u] = "swap" =>
             /\ temp'[ProcOf[u]] = temp[ProcOf[u]]
             /\ text'[temp[ProcOf[u]]] = text[temp[ProcOf[u]]]
      <4> SUFFICES ASSUME NEW u \in Editors, at[u] = "swap"
                   PROVE  /\ temp'[ProcOf[u]] = temp[ProcOf[u]]
                          /\ text'[temp[ProcOf[u]]] = text[temp[ProcOf[u]]]
          OBVIOUS
      <4>1. ProcOf[u] \in Procs /\ ProcOf[u] # p /\ temp[ProcOf[u]] \in Inodes
          BY <1>0, <2>1 DEF Writers, StoreTypeOK
      <4> QED BY <1>0, <2>1, <2>2, <4>1 DEF Names1, StoreTypeOK
    <3>2. \A u \in Editors : at[u] = "dump" =>
             /\ temp'[ProcOf[u]] = temp[ProcOf[u]]
             /\ text'[fd[u]] = text[fd[u]]
        BY <1>0, <2>1, <2>2 DEF Writers, StoreTypeOK
    <3> QED BY <1>0, <2>1, <3>1, <3>2 DEF Writers
  <2> QED BY <2>3, <2>4, <2>5 DEF FilesOK
<1>13. CASE UNCHANGED storeVars
    BY <1>0, <1>13 DEF storeVars, FilesOK, Names1, Writers, ConfigIsWhole, Readable
<1> QED
    BY <1>1, <1>2, <1>3, <1>4, <1>5, <1>6, <1>7, <1>8, <1>9, <1>10, <1>11, <1>12,
       <1>13 DEF StoreNext, StoreStep

(* Whatever number of threads a process has, the store keeps its types: every *)
(* load is of entries that migrate, every save of entries that load.         *)
THEOREM StoreKeepsTypes == StoreSpec => []StoreTypeOK
<1>1. StoreInit => StoreTypeOK /\ CallOK
    BY WholeInit DEF WholeInv
<1>2. StoreTypeOK /\ CallOK /\ [StoreNext]_storeVars => (StoreTypeOK /\ CallOK)'
    BY TypesNext
<1> QED BY <1>1, <1>2, PTL DEF StoreSpec

(* A reader always finds a whole file, however many processes edit it, fail  *)
(* to write and die, as long as one thread of each uses the store: the       *)
(* purpose of the pid in the name of the temporary file.                     *)
THEOREM ConfigStaysWhole ==
    ASSUME OneThreadEach
    PROVE  StoreSpec => []ConfigIsWhole
<1>1. StoreInit => WholeInv
    BY WholeInit
<1>2. WholeInv /\ [StoreNext]_storeVars => WholeInv'
    BY TypesNext, FilesNext DEF WholeInv, FilesOK
<1>3. WholeInv => ConfigIsWhole
    BY DEF WholeInv
<1> QED BY <1>1, <1>2, <1>3, PTL DEF StoreSpec

-----------------------------------------------------------------------------
(* No entry leaves out an option that was given without it, if none did in    *)
(* the beginning.                                                            *)

\* The file was written by a save, of this program or an earlier one.
SeedsSaved == \A s \in Seeds : Saved(s)

\* Nothing is missing in an empty store,
LEMMA NoneIsSaved == Saved(NoModels)
BY DEF Saved, NoModels

\* in what a load returns,
LEMMA LoadedIsSaved ==
    ASSUME StoreTypeOK, Readable
    PROVE  Saved(Loaded)
<1>1. Stored \in Contents
    BY DEF Stored, StoreTypeOK, Readable, Contents, NoModels
<1>2. ASSUME NEW n \in Names, Loaded[n] # Nil PROVE Complete(Loaded[n])
  <2>1. Loaded[n] = Migrated(Stored[n]) /\ Stored[n] \in Entry(Bodies)
      BY <1>1, <1>2 DEF Loaded, Contents
  <2>2. Migrated(Stored[n]).mirror = [r \in Rules |-> Absent]
      BY <2>1 DEF Migrated, Entry
  <2> QED BY <2>1, <2>2 DEF Complete, Present
<1> QED BY <1>2 DEF Saved

\* or in what a caller makes of it.
LEMMA ContinueSaved ==
    ASSUME StoreTypeOK, NEW t \in Editors, NEW models \in Contents, Saved(models),
           Continue(t, models) \/ Ends(t)
    PROVE  \A u \in Editors : copy'[u] = copy[u] \/ Saved(copy'[u])
<1>1. copy' \in {copy, [copy EXCEPT ![t] = NoModels],
                  [copy EXCEPT ![t] = Edited(t, models)]}
    BY DEF Continue, Ends
<1>2. Saved(Edited(t, models))
  <2> SUFFICES ASSUME NEW n \in Names, Edited(t, models)[n] # Nil
               PROVE  Complete(Edited(t, models)[n])
      BY DEF Saved
  <2>1. \/ Edited(t, models)[n] = models[n]
        \/ Edited(t, models)[n] = Current(call[t].body)
      BY DEF Edited, Contents
  <2>2. Complete(Current(call[t].body))
      BY DEF Complete, Present, Current
  <2> QED BY <2>1, <2>2 DEF Saved
<1> QED BY <1>1, <1>2, NoneIsSaved DEF StoreTypeOK

\* Every step writes what has been loaded, emptied or edited.
LEMMA CompleteNext ==
    ASSUME StoreTypeOK, AllComplete, [StoreNext]_storeVars
    PROVE  AllComplete'
<1>0. SUFFICES /\ \A i \in Inodes :
                     \/ text'[i] \in {text[i], Torn, NoModels}
                     \/ \E t \in Editors : text'[i] = copy[t]
               /\ \A u \in Editors : copy'[u] = copy[u] \/ Saved(copy'[u])
    BY NoneIsSaved DEF AllComplete
<1>1. CASE UNCHANGED <<text, copy>>
    BY <1>1
<1>2. ASSUME NEW i, text' = Freed(i)
      PROVE  \A j \in Inodes : text'[j] \in {text[j], NoModels}
    BY <1>2 DEF Freed, StoreTypeOK
<1>3. ASSUME NEW t \in Editors, Request(t) PROVE UNCHANGED <<text, copy>>
    BY <1>3 DEF Request, Reads, Adds, Updates, SavesForm, Removes, Requested, disk
<1>4. ASSUME NEW t \in Editors, LoadRaises(t) PROVE
         \A u \in Editors : copy'[u] = copy[u] \/ Saved(copy'[u])
    BY <1>4, NoneIsSaved DEF LoadRaises, Ends, StoreTypeOK
<1>5. ASSUME NEW t \in Editors, LoadOnly(t) PROVE
         \A u \in Editors : copy'[u] = copy[u] \/ Saved(copy'[u])
    BY <1>5, LoadedIsContents, LoadedIsSaved, ContinueSaved DEF LoadOnly
<1>6. ASSUME NEW t \in Editors, LoadMigrates(t) PROVE
         \A u \in Editors : copy'[u] = copy[u] \/ Saved(copy'[u])
    BY <1>6, LoadedIsSaved DEF LoadMigrates, StoreTypeOK
<1>7. ASSUME NEW t \in Editors, Open(t) \/ Dump(t) PROVE
         /\ \A i \in Inodes : \/ text'[i] \in {text[i], Torn}
                              \/ \E u \in Editors : text'[i] = copy[u]
         /\ UNCHANGED copy
    BY <1>7 DEF Open, Dump, StoreTypeOK
<1>8. ASSUME NEW t \in Editors, Tidy(t) PROVE
         \A u \in Editors : copy'[u] = copy[u] \/ Saved(copy'[u])
    BY <1>8, ContinueSaved DEF Tidy, AllComplete, StoreTypeOK
<1>9. ASSUME NEW p \in Procs, Dies(p) PROVE
         UNCHANGED text /\ \A u \in Editors : copy'[u] = copy[u] \/ Saved(copy'[u])
    BY <1>9, NoneIsSaved DEF Dies, disk
<1>10. ASSUME NEW t \in Editors, Replace(t) PROVE text' = Freed(config) /\ UNCHANGED copy
    BY <1>10 DEF Replace
<1>11. ASSUME NEW t \in Editors, ReplaceFails(t) \/ SaveFails(t)
       PROVE  UNCHANGED <<text, copy>>
    BY <1>11 DEF ReplaceFails, SaveFails, disk
<1>12. ASSUME NEW t \in Editors, LoadRaises(t) \/ LoadOnly(t) \/ LoadMigrates(t)
       PROVE  UNCHANGED text
    BY <1>12 DEF LoadRaises, LoadOnly, LoadMigrates, disk
<1>13. ASSUME NEW t \in Editors, Tidy(t) PROVE text' = Freed(Tmp(t))
    BY <1>13 DEF Tidy
<1>14. ASSUME NEW p \in Procs, Restarts(p) PROVE text' = Freed(temp[p]) /\ UNCHANGED copy
    BY <1>14 DEF Restarts
<1>15. CASE UNCHANGED storeVars
    BY <1>1, <1>15 DEF storeVars
<1> QED
    BY <1>1, <1>2, <1>3, <1>4, <1>5, <1>6, <1>7, <1>8, <1>9, <1>10, <1>11, <1>12,
       <1>13, <1>14, <1>15 DEF StoreNext, StoreStep

\* The file is complete in the beginning, and nothing has been loaded.
LEMMA CompleteInit ==
    ASSUME SeedsSaved, StoreInit
    PROVE  AllComplete
BY NoneIsSaved DEF SeedsSaved, StoreInit, AllComplete

-----------------------------------------------------------------------------
(* No save undoes what others have done, except in what it has not seen.    *)

\* To launch the same is an equivalence, and nothing that cannot be loaded
\* launches the same as anything else.
LEMMA SameModelRules ==
    ASSUME NEW e, NEW f, NEW g
    PROVE  /\ SameModel(e, e)
           /\ SameModel(e, f) => SameModel(f, e)
           /\ SameModel(e, f) /\ SameModel(f, g) => SameModel(e, g)
           /\ SameModel(e, f) /\ e # Nil /\ Quarantined(e) => f = e
BY DEF SameModel, Loadable

\* A load agrees with the file, but for what cannot be loaded.
LEMMA LoadAgrees ==
    ASSUME StoreTypeOK, Readable, AllComplete, NEW n \in Names, ~Lost(n)
    PROVE  SameModel(Stored[n], Loaded[n])
<1>1. Stored \in Contents
    BY DEF Stored, StoreTypeOK, Readable, Contents, NoModels
<1>2. CASE Stored[n] = Nil
    BY <1>2 DEF Loaded, SameModel
<1>3. CASE Stored[n] # Nil
  <2>1. /\ Stored[n] \in Entry(Bodies) /\ ~Quarantined(Stored[n])
        /\ Complete(Stored[n])
      BY <1>1, <1>3, NoneIsSaved DEF Contents, Lost, Stored, AllComplete, Saved,
         Readable, StoreTypeOK
  <2>2. Loaded[n] = Migrated(Stored[n])
      BY <2>1, <1>3 DEF Loaded
  <2>3. /\ Migrated(Stored[n]) \in Entry(Bodies)
        /\ ~Quarantined(Migrated(Stored[n]))
        /\ Argv(Migrated(Stored[n])) = Argv(Stored[n])
      BY <2>1, MigratedIsEntry, MigrationIsDone, MigrationKeepsArgv
  <2>4. Migrated(Stored[n]).body = Stored[n].body
      BY <2>1 DEF Migrated, Entry
  <2> QED BY <1>3, <2>1, <2>2, <2>3, <2>4, StoreAssumption DEF SameModel, Loadable
<1> QED BY <1>2, <1>3

\* A caller goes on with what it has loaded, edited in one entry.
LEMMA ContinueAgrees ==
    ASSUME StoreTypeOK, NEW t \in Editors, NEW models \in Contents, Continue(t, models),
           Stored' = Stored,
           \A n \in Names \ since'[t] : SameModel(Stored[n], models[n]) \/ Lost(n)
    PROVE  Written(t)' /\ Agrees(t)'
<1>1. at'[t] \in {"idle", "read", "open"}
    BY DEF Continue, Ends, StoreTypeOK
<1>2. CASE at'[t] = "open"
  <2>1. /\ call' = [call EXCEPT ![t].migrating = FALSE]
        /\ copy' = [copy EXCEPT ![t] = Edited(t, models)]
      BY <1>2 DEF Continue, Ends, StoreTypeOK
  <2>2. /\ ~call'[t].migrating /\ call'[t].name = call[t].name
        /\ copy'[t] = Edited(t, models)
      BY <2>1 DEF StoreTypeOK, Call
  <2>3. \A n \in Names \ {call[t].name} : copy'[t][n] = models[n]
      BY <2>2 DEF Edited, Contents
  <2> QED BY <1>2, <2>2, <2>3 DEF Written, Agrees, Mine, Lost
<1> QED BY <1>1, <1>2 DEF Written, Agrees

\* Who takes no step goes on to agree while the file stays as it is,
LEMMA OthersAgree ==
    ASSUME CopiesAgree, NEW u \in Editors, Stored' = Stored,
           at'[u] = at[u] /\ call'[u] = call[u] /\ copy'[u] = copy[u]
              /\ since'[u] = since[u],
           at[u] = "swap" => /\ temp'[ProcOf[u]] = temp[ProcOf[u]]
                             /\ text'[temp[ProcOf[u]]] = text[temp[ProcOf[u]]]
    PROVE  Written(u)' /\ Agrees(u)'
BY DEF CopiesAgree, Written, Agrees, Mine, Lost

\* and, when another replaces it, about what that has not changed.
LEMMA OthersReplaced ==
    ASSUME WholeInv, CopiesAgree, NEW u \in Editors, NEW i \in Inodes,
           text[i] # Torn, Stored' = text[i],
           at'[u] = at[u] /\ call'[u] = call[u] /\ copy'[u] = copy[u],
           at[u] \notin {"idle", "read"} => since'[u] = since[u] \cup Differs(i)
    PROVE  Agrees(u)'
<1> SUFFICES ASSUME at[u] \notin {"idle", "read"},
                    NEW n \in Names, n \notin since[u] \cup Differs(i) \cup Mine(u)
             PROVE  \/ SameModel(Stored'[n], copy[u][n])
                    \/ ~call[u].migrating /\ Stored'[n] # Nil /\ Quarantined(Stored'[n])
    BY DEF Agrees, Mine, Lost
<1>1. SameModel(Stored[n], Stored'[n])
    BY DEF Differs, WholeInv, ConfigIsWhole
<1>2. SameModel(Stored[n], copy[u][n]) \/ (~call[u].migrating /\ Lost(n))
    BY DEF CopiesAgree, Agrees
<1>3. CASE SameModel(Stored[n], copy[u][n])
    BY <1>1, <1>3, SameModelRules
<1>4. CASE ~call[u].migrating /\ Lost(n)
    BY <1>1, <1>4, SameModelRules DEF Lost
<1> QED BY <1>2, <1>3, <1>4

\* To empty a temporary file that has no name any more changes no other file.
LEMMA FreedKeeps ==
    ASSUME WholeInv, NEW p \in Procs, text' = Freed(temp[p]), config' = config,
           temp' = [temp EXCEPT ![p] = Nil]
    PROVE  /\ Stored' = Stored
           /\ \A q \in Procs \ {p} : temp[q] # Nil =>
                 /\ temp'[q] = temp[q] /\ text'[temp[q]] = text[temp[q]]
<1>1. \A j \in Inodes : j # temp[p] => text'[j] = text[j]
    BY FreedFile
<1>2. temp \in [Procs -> Inodes \cup {Nil}] /\ config \in Inodes \cup {Nil}
      /\ Nil \notin Inodes
    BY StoreAssumption DEF WholeInv, StoreTypeOK
<1>3. config # Nil => text'[config] = text[config]
    BY <1>1, <1>2 DEF WholeInv, Names1
<1> QED BY <1>1, <1>2, <1>3 DEF WholeInv, Names1, Stored

\* What a replacement leaves in config.json, and in the other temporary files.
LEMMA ReplacedFile ==
    ASSUME OneThreadEach, WholeInv, NEW t \in Editors, Replace(t)
    PROVE  /\ at[t] = "swap" /\ at' = [at EXCEPT ![t] = "tidy"]
           /\ UNCHANGED <<call, copy>>
           /\ temp[ProcOf[t]] \in Inodes /\ text[temp[ProcOf[t]]] # Torn
           /\ Stored' = text[temp[ProcOf[t]]]
           /\ \A u \in Editors \ {t} :
                 /\ at[u] \notin {"idle", "read"} =>
                       since'[u] = since[u] \cup Differs(temp[ProcOf[t]])
                 /\ temp[ProcOf[u]] # Nil =>
                       /\ temp'[ProcOf[u]] = temp[ProcOf[u]]
                       /\ text'[temp[ProcOf[u]]] = text[temp[ProcOf[u]]]
<1>0. /\ temp \in [Procs -> Inodes \cup {Nil}] /\ config \in Inodes \cup {Nil}
      /\ since \in [Editors -> SUBSET Names] /\ ProcOf \in [Editors -> Procs]
      /\ Nil \notin Inodes /\ Names1 /\ Writers
    BY StoreAssumption DEF WholeInv, StoreTypeOK
<1>1. /\ at[t] = "swap" /\ at' = [at EXCEPT ![t] = "tidy"]
      /\ UNCHANGED <<call, copy>>
      /\ temp[ProcOf[t]] \in Inodes /\ text[temp[ProcOf[t]]] # Torn
      /\ config' = temp[ProcOf[t]] /\ config # temp[ProcOf[t]]
      /\ temp' = [temp EXCEPT ![ProcOf[t]] = Nil]
    BY <1>0 DEF Replace, Goes, Tmp, TempName, Writers, Names1
<1>2. \A j \in Inodes : j # config => text'[j] = text[j]
    BY FreedFile DEF Replace
<1>3. Stored' = text[temp[ProcOf[t]]]
    BY <1>0, <1>1, <1>2 DEF Stored
<1>4. ASSUME NEW u \in Editors \ {t}
      PROVE  /\ at[u] \notin {"idle", "read"} =>
                   since'[u] = since[u] \cup Differs(temp[ProcOf[t]])
             /\ temp[ProcOf[u]] # Nil =>
                   /\ temp'[ProcOf[u]] = temp[ProcOf[u]]
                   /\ text'[temp[ProcOf[u]]] = text[temp[ProcOf[u]]]
    BY <1>0, <1>1, <1>2 DEF Replace, Tmp, TempName, Names1, OneThreadEach
<1> QED BY <1>1, <1>3, <1>4

\* A step of a thread that leaves the file as it is.
StoreQuiet(t) ==
    /\ Stored' = Stored
    /\ \A u \in Editors \ {t} :
          /\ at'[u] = at[u] /\ call'[u] = call[u] /\ copy'[u] = copy[u]
          /\ since'[u] = since[u]
          /\ at[u] = "swap" => /\ temp'[ProcOf[u]] = temp[ProcOf[u]]
                               /\ text'[temp[ProcOf[u]]] = text[temp[ProcOf[u]]]

\* A step that writes nothing keeps the copies in agreement.
LEMMA QuietAgrees ==
    ASSUME CopiesAgree, NEW t \in Editors, StoreQuiet(t), Written(t)' /\ Agrees(t)'
    PROVE  CopiesAgree'
<1>1. \A u \in Editors \ {t} : Written(u)' /\ Agrees(u)'
    BY OthersAgree DEF StoreQuiet
<1> QED BY <1>1 DEF CopiesAgree

\* The save goes on with the copy it has.
LEMMA SaveAgrees ==
    ASSUME CopiesAgree, NEW t \in Editors, Stored' = Stored,
           at[t] \notin {"idle", "read"}, UNCHANGED <<call, copy, since>>
    PROVE  Agrees(t)'
BY DEF CopiesAgree, Agrees, Mine, Lost

\* Every step does.
LEMMA CopiesNext ==
    ASSUME OneThreadEach, WholeInv, AllComplete, CopiesAgree, [StoreNext]_storeVars
    PROVE  CopiesAgree'
<1>0. /\ StoreTypeOK /\ Names1 /\ Writers /\ Readable /\ AllComplete
      /\ NoModels \in Contents /\ Nil \notin Inodes
      /\ ProcOf \in [Editors -> Procs]
    BY StoreAssumption DEF WholeInv, ConfigIsWhole, NoModels, Contents
<1>1. ASSUME NEW t \in Editors, Request(t) PROVE CopiesAgree'
  <2>1. PICK v, n, b : Requested(t, v, n, b)
      BY <1>1 DEF Request, Reads, Adds, Updates, SavesForm, Removes
  <2>2. StoreQuiet(t) /\ at'[t] = "read"
      BY <1>0, <2>1 DEF Requested, disk, StoreQuiet, Stored, StoreTypeOK
  <2> QED BY <2>2, QuietAgrees DEF Written, Agrees
<1>2. ASSUME NEW t \in Editors, LoadRaises(t) PROVE CopiesAgree'
  <2>1. StoreQuiet(t) /\ at'[t] = "idle"
      BY <1>0, <1>2 DEF LoadRaises, Ends, disk, StoreQuiet, Stored, StoreTypeOK
  <2> QED BY <2>1, QuietAgrees DEF Written, Agrees
<1>3. ASSUME NEW t \in Editors, NEW models, Continue(t, models)
      PROVE  \A u \in Editors \ {t} :
                at'[u] = at[u] /\ call'[u] = call[u] /\ copy'[u] = copy[u]
    BY <1>0, <1>3 DEF Continue, Ends, StoreTypeOK
<1>4. ASSUME NEW t \in Editors, LoadOnly(t) PROVE CopiesAgree'
  <2>1. Continue(t, Loaded) /\ Loaded \in Contents
      BY <1>0, <1>4, LoadedIsContents DEF LoadOnly
  <2>2. StoreQuiet(t) /\ since'[t] = {}
      BY <1>0, <1>3, <1>4, <2>1 DEF LoadOnly, Begins, disk, StoreQuiet, Stored, StoreTypeOK
  <2>3. Written(t)' /\ Agrees(t)'
      BY <1>0, <2>1, <2>2, LoadAgrees, ContinueAgrees DEF StoreQuiet
  <2> QED BY <2>2, <2>3, QuietAgrees
<1>5. ASSUME NEW t \in Editors, LoadMigrates(t) PROVE CopiesAgree'
  <2>1. /\ StoreQuiet(t) /\ at'[t] = "open" /\ copy'[t] = Loaded
      BY <1>0, <1>5 DEF LoadMigrates, Begins, disk, StoreQuiet, Stored, StoreTypeOK
  <2>2. \A n \in Names : SameModel(Stored[n], Loaded[n])
      BY <1>0, <1>5, LoadAgrees DEF LoadMigrates, Rewrites, Errors, Lost
  <2>3. Written(t)' /\ Agrees(t)'
      BY <2>1, <2>2 DEF Written, Agrees, StoreQuiet
  <2> QED BY <2>1, <2>3, QuietAgrees
<1>6. ASSUME NEW t \in Editors, Open(t) PROVE CopiesAgree'
  <2>1. PICK i \in Inodes : OpenedOn(t, i)
      BY <1>6, OpenFile
  <2>2. /\ at[t] = "open" /\ at' = [at EXCEPT ![t] = "dump"]
        /\ UNCHANGED <<config, call, copy, since>>
      BY <1>6 DEF Open, Goes
  <2>3. StoreQuiet(t)
      BY <1>0, <2>1, <2>2 DEF OpenedOn, StoreQuiet, Stored, StoreTypeOK, OneThreadEach,
                              Writers
  <2>4. Written(t)' /\ Agrees(t)'
      BY <1>0, <2>2, <2>3, SaveAgrees DEF Written, StoreQuiet, StoreTypeOK
  <2> QED BY <2>3, <2>4, QuietAgrees
<1>7. ASSUME NEW t \in Editors, Dump(t) PROVE CopiesAgree'
  <2>1. /\ at[t] = "dump" /\ fd[t] \in Inodes /\ fd[t] = temp[ProcOf[t]]
        /\ text' = [text EXCEPT ![fd[t]] = copy[t]]
        /\ at' = [at EXCEPT ![t] = "swap"]
        /\ UNCHANGED <<config, temp, call, copy, since>>
      BY <1>7, DumpFile DEF Dump
  <2>2. StoreQuiet(t)
      BY <1>0, <2>1 DEF StoreQuiet, Stored, StoreTypeOK, OneThreadEach, Names1
  <2>3. Written(t)' /\ Agrees(t)'
      BY <1>0, <2>1, <2>2, SaveAgrees DEF Written, StoreQuiet, StoreTypeOK
  <2> QED BY <2>2, <2>3, QuietAgrees
<1>8. ASSUME NEW t \in Editors, Replace(t) PROVE CopiesAgree'
  <2>1. \A u \in Editors \ {t} :
           at'[u] = at[u] /\ call'[u] = call[u] /\ copy'[u] = copy[u]
      BY <1>0, <1>8, ReplacedFile DEF StoreTypeOK
  <2>2. \A u \in Editors \ {t} : Agrees(u)'
      BY <1>8, <2>1, ReplacedFile, OthersReplaced
  <2>3. \A u \in Editors \ {t} : Written(u)'
      BY <1>0, <1>8, <2>1, ReplacedFile DEF CopiesAgree, Written, Writers
  <2>4. Written(t)' /\ Agrees(t)'
    <3>1. Stored' = copy[t] /\ copy' = copy /\ at'[t] = "tidy"
        BY <1>0, <1>8, ReplacedFile DEF CopiesAgree, Written, StoreTypeOK
    <3> QED BY <3>1, SameModelRules DEF Written, Agrees
  <2> QED BY <2>2, <2>3, <2>4 DEF CopiesAgree
<1>9. ASSUME NEW t \in Editors, ReplaceFails(t) \/ SaveFails(t) PROVE CopiesAgree'
  <2>1. /\ at[t] \in {"open", "dump", "swap"} /\ at' = [at EXCEPT ![t] = "undo"]
        /\ UNCHANGED <<text, config, temp, call, copy, since>>
      BY <1>9 DEF ReplaceFails, SaveFails, Goes, disk
  <2>2. StoreQuiet(t)
      BY <1>0, <2>1 DEF StoreQuiet, Stored, StoreTypeOK
  <2>3. Written(t)' /\ Agrees(t)'
      BY <1>0, <2>1, <2>2, SaveAgrees DEF Written, StoreQuiet, StoreTypeOK
  <2> QED BY <2>2, <2>3, QuietAgrees
<1>10. ASSUME NEW t \in Editors, Tidy(t) PROVE CopiesAgree'
  <2>1. /\ Stored' = Stored
        /\ \A q \in Procs \ {ProcOf[t]} : temp[q] # Nil =>
              /\ temp'[q] = temp[q] /\ text'[temp[q]] = text[temp[q]]
      BY <1>0, <1>10, FreedKeeps DEF Tidy, Tmp, TempName
  <2>2. \A u \in Editors \ {t} : since'[u] = since[u]
      BY <1>0, <1>10 DEF Tidy, StoreTypeOK
  <2>3. \A u \in Editors \ {t} :
           at'[u] = at[u] /\ call'[u] = call[u] /\ copy'[u] = copy[u]
      BY <1>0, <1>3, <1>10 DEF Tidy, Ends, StoreTypeOK
  <2>4. StoreQuiet(t)
      BY <1>0, <2>1, <2>2, <2>3 DEF StoreQuiet, Writers, OneThreadEach
  <2>5. CASE call[t].migrating /\ at'[t] # "idle"
    <3>1. Continue(t, copy[t]) /\ copy[t] \in Contents /\ since'[t] = since[t]
        BY <1>0, <1>10, <2>5 DEF Tidy, StoreTypeOK
    <3>2. \A n \in Names \ since[t] : SameModel(Stored[n], copy[t][n])
        BY <1>10, <2>5 DEF Tidy, CopiesAgree, Agrees, Mine
    <3> QED BY <1>0, <2>1, <2>4, <3>1, <3>2, ContinueAgrees, QuietAgrees
  <2>6. CASE at'[t] = "idle"
      BY <2>4, <2>6, QuietAgrees DEF Written, Agrees
  <2>7. call[t].migrating \/ at'[t] = "idle"
      BY <1>0, <1>10 DEF Tidy, Ends, StoreTypeOK
  <2> QED BY <2>5, <2>6, <2>7
<1>11. ASSUME NEW p \in Procs, Dies(p) PROVE CopiesAgree'
  <2>1. Stored' = Stored /\ UNCHANGED <<text, temp>>
      BY <1>11 DEF Dies, disk, Stored
  <2>2. ASSUME NEW u \in Editors PROVE Written(u)' /\ Agrees(u)'
    <3>1. CASE ProcOf[u] = p
        BY <1>11, <3>1 DEF Dies, Written, Agrees
    <3>2. CASE ProcOf[u] # p
        BY <1>11, <2>1, <3>2, OthersAgree DEF Dies
    <3> QED BY <3>1, <3>2
  <2> QED BY <2>2 DEF CopiesAgree
<1>12. ASSUME NEW p \in Procs, Restarts(p) PROVE CopiesAgree'
  <2>1. /\ Stored' = Stored /\ UNCHANGED <<at, call, copy, since>>
        /\ \A q \in Procs \ {p} : temp[q] # Nil =>
              /\ temp'[q] = temp[q] /\ text'[temp[q]] = text[temp[q]]
      BY <1>12, FreedKeeps DEF Restarts
  <2>2. \A u \in Editors : at[u] = "swap" => ProcOf[u] # p /\ temp[ProcOf[u]] # Nil
      BY <1>0, <1>12 DEF Restarts, Writers
  <2>3. \A u \in Editors : Written(u)' /\ Agrees(u)'
      BY <1>0, <2>1, <2>2, OthersAgree
  <2> QED BY <2>3 DEF CopiesAgree
<1>13. CASE UNCHANGED storeVars
    BY <1>13 DEF storeVars, CopiesAgree, Written, Agrees, Mine, Lost, Stored
<1> QED
    BY <1>1, <1>2, <1>4, <1>5, <1>6, <1>7, <1>8, <1>9, <1>10, <1>11, <1>12, <1>13
       DEF StoreNext, StoreStep

\* The whole invariant of the saves, one thread of each process in the store.
THEOREM SavesAreInOrder ==
    ASSUME OneThreadEach, SeedsSaved
    PROVE  StoreSpec => []StoreSafe
<1>1. StoreInit => StoreSafe
    BY WholeInit, CompleteInit DEF StoreSafe, CopiesAgree, Written, Agrees, StoreInit
<1>2. StoreSafe /\ [StoreNext]_storeVars => StoreSafe'
    BY TypesNext, FilesNext, CompleteNext, CopiesNext DEF StoreSafe, WholeInv, FilesOK
<1> QED BY <1>1, <1>2, PTL DEF StoreSpec

\* Only a replacement takes a save from its rename to its "finally".
LEMMA SwapsReplace ==
    ASSUME StoreTypeOK, StoreNext, NEW t \in Editors, at[t] = "swap", at'[t] = "tidy"
    PROVE  Replace(t)
<1>1. ASSUME NEW u \in Editors, Request(u) PROVE FALSE
  <2>1. PICK v, n, b : Requested(u, v, n, b)
      BY <1>1 DEF Request, Reads, Adds, Updates, SavesForm, Removes
  <2> QED BY <2>1 DEF Requested, StoreTypeOK
<1>2. ASSUME NEW u \in Editors, StoreStep(u) PROVE u = t /\ Replace(t)
    BY <1>2 DEF StoreStep, LoadRaises, LoadOnly, LoadMigrates, Open, Dump, Replace,
       ReplaceFails, SaveFails, Tidy, Continue, Ends, Goes, StoreTypeOK
<1>3. ASSUME NEW p \in Procs, Dies(p) \/ Restarts(p) PROVE FALSE
    BY <1>3 DEF Dies, Restarts
<1> QED BY <1>1, <1>2, <1>3 DEF StoreNext

\* What t writes to config.json is what it has loaded and edited.
LEMMA SwapWritesCopy ==
    ASSUME OneThreadEach, StoreSafe, NEW t \in Editors, Replace(t)
    PROVE  /\ Stored' = copy[t]
           /\ \A n \in Names \ (since[t] \cup Mine(t)) :
                 SameModel(Stored[n], Stored'[n]) \/ (~call[t].migrating /\ Lost(n))
BY ReplacedFile DEF StoreSafe, CopiesAgree, Written, Agrees

\* The rewrite of a load loses nothing that is in the file: whatever others have
\* not changed since launches what it launched before, from each of any number
\* of processes that save, fail and die at any step.  The entries are such as
\* a save has written: MigrationKeepsArgv says what becomes of others.
THEOREM MigrationsPreserve ==
    ASSUME OneThreadEach, SeedsSaved
    PROVE  StoreSpec => MigrationPreserves
<1> DEFINE A == \A t \in Editors :
          at[t] = "swap" /\ at'[t] = "tidy" /\ call[t].migrating =>
             \A n \in Names \ since[t] : SameModel(Stored[n], Stored'[n])
<1>1. StoreSafe /\ [StoreNext]_storeVars => [A]_storeVars
    BY SwapsReplace, SwapWritesCopy DEF StoreSafe, WholeInv, Mine
<1> QED BY <1>1, SavesAreInOrder, PTL DEF StoreSpec, MigrationPreserves

\* An edit loses nothing but what could not be loaded.
THEOREM EditsStayLocal ==
    ASSUME OneThreadEach, SeedsSaved
    PROVE  StoreSpec => EditsAreLocal
<1> DEFINE A == \A t \in Editors :
          at[t] = "swap" /\ at'[t] = "tidy" /\ ~call[t].migrating =>
             \A n \in Names \ (since[t] \cup {call[t].name}) :
                \/ SameModel(Stored[n], Stored'[n])
                \/ Stored[n] # Nil /\ Quarantined(Stored[n])
<1>1. StoreSafe /\ [StoreNext]_storeVars => [A]_storeVars
    BY SwapsReplace, SwapWritesCopy DEF StoreSafe, WholeInv, Mine, Lost
<1> QED BY <1>1, SavesAreInOrder, PTL DEF StoreSpec, EditsAreLocal
================================================================================

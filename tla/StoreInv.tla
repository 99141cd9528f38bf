-------------------------------- MODULE StoreInv --------------------------------
(* What the saves of several processes rely on while each process has one    *)
(* thread in the store: a temporary file is its writer's own, and the copy a *)
(* thread saves still agrees with the file, except in what others changed.   *)
EXTENDS ConfigStore

CallOK == \A t \in Editors :
    call[t].verb \in {"add", "update", "edit"} => call[t].body \in Bodies

\* No two names refer to one inode.
Names1 ==
    \A p \in Procs : temp[p] # Nil =>
        /\ temp[p] # config
        /\ \A q \in Procs : q # p => temp[q] # temp[p]

\* A temporary file is torn exactly while its writer has it open.
Writers ==
    \A t \in Editors :
        /\ at[t] = "dump" => /\ fd[t] # Nil /\ fd[t] = temp[ProcOf[t]]
                             /\ text[fd[t]] = Torn
        /\ at[t] # "dump" => fd[t] = Nil
        /\ at[t] = "swap" => /\ temp[ProcOf[t]] # Nil
                             /\ text[temp[ProcOf[t]]] # Torn
        /\ ProcOf[t] \notin alive => at[t] = "idle"

WholeInv == StoreTypeOK /\ CallOK /\ Names1 /\ Writers /\ ConfigIsWhole

\* What is about to replace config.json is what its writer has loaded and edited.
Written(t) == at[t] = "swap" => text[temp[ProcOf[t]]] = copy[t]

Lost(n) == Stored[n] # Nil /\ Quarantined(Stored[n])
Mine(t) == IF call[t].migrating THEN {} ELSE {call[t].name}

\* What t is going to write, or to go on with, agrees with what is stored: a
\* load that rewrites has found nothing quarantined.
Agrees(t) ==
    at[t] \notin {"idle", "read"} =>
        \A n \in Names \ (since[t] \cup Mine(t)) :
            \/ SameModel(Stored[n], copy[t][n])
            \/ ~call[t].migrating /\ Lost(n)

\* A rewrite has no edit in it yet.
CopiesAgree == \A t \in Editors : Written(t) /\ Agrees(t)

\* No entry leaves an option out that the program it was written for gave.
Saved(models) == \A n \in Names : models[n] # Nil => Complete(models[n])
AllComplete == /\ \A i \in Inodes : text[i] # Torn => Saved(text[i])
               /\ \A t \in Editors : Saved(copy[t])

StoreSafe == WholeInv /\ AllComplete /\ CopiesAgree
=================================================================================

----------------------------- MODULE MCConfigStore -----------------------------
(* Constants for the runs of module ConfigStore. *)
EXTENDS StoreInv, TLC

CONSTANTS e1, e2, m1, m2, x, c1, c2

\* Every thread is a process of its own.
Separate == [t \in Editors |-> IF t = e1 THEN c1 ELSE c2]
\* Two threads of the HTTP agent.
OneProcess == [t \in Editors |-> c1]
Editing == [t \in Editors |-> IF t = e1 THEN {"load", "edit"}
                              ELSE {"add", "update", "remove"}]
Deleting == [t \in Editors |-> {"remove"}]

\* An entry as it was before the migration: every field was always written.
Old(always, flag, truthy, set) ==
    [Current(x) EXCEPT !.mirror = [r \in Rules |->
        CASE r = "always" -> always [] r = "flag" -> flag
          [] r = "truthy" -> truthy [] r = "set" -> set]]

Spelt == [Old("scalar", "scalar", "null", "falsy")
          EXCEPT !.extra = [r \in Rules |->
              IF r \in {"flag", "set"} THEN "operator" ELSE Absent]]
Typical == Old("scalar", "falsy", "null", "falsy")
Broken == [Typical EXCEPT !.unknown = TRUE]

Seeded(e, f) == [n \in Names |-> IF n = m1 THEN e ELSE f]
\* Nothing but an unknown key.
Strange == [Current(x) EXCEPT !.unknown = TRUE]
Migratable == {Seeded(Typical, Spelt), Seeded(Typical, Broken),
               Seeded(Current(x), Strange)}
\* Written by hand: threads_batch and the like were left to their defaults.
Sparse == [Typical EXCEPT !.mirror["always"] = Absent]
HandWritten == {Seeded(Sparse, Current(x))}
OneBroken == {Seeded(Current(x), Broken)}
===============================================================================

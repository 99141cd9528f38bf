------------------------------- MODULE Migration -------------------------------
(* The migration of one persisted model entry (core/config.py): the fields   *)
(* that used to mirror llama-server flags are folded into extra_args when    *)
(* the entry is loaded.  A field is known by the rule that build_command     *)
(* emitted its flag by, the value of a field by what the rules tell apart.   *)
EXTENDS FiniteSets

\* "always": threads_batch, ubatch_size, flash_attn; "flag": no_mmap, mlock;
\* "truthy": threads, cache_type_k, ...; "set": batch_size, temperature, ...
Rules == {"always", "flag", "truthy", "set"}

\* "falsy" is a scalar such as 0 or False, "many" a list or an object that is
\* not empty.
Values == {"null", "falsy", "scalar", "many"}

\* What extra_args says of a flag: nothing, what the operator wrote, or the
\* bare flag or value that the migration appended.
Absent == "absent"
Spelled == {"operator", "bare", "falsy", "scalar"}
\* What build_command gave for a field of rule "always" that was not set.
Default == "default"

(* An entry of config.json.  mirror: the dropped fields it still carries;    *)
(* extra: the flags its extra_args spells, in any spelling; tokens: whether  *)
(* extra_args splits into shell tokens; list: whether it is a list; unknown: *)
(* whether a key is in none of the three tables; body: the other fields.     *)
Entry(Bodies) ==
    [mirror : [Rules -> Values \cup {Absent}],
     extra : [Rules -> Spelled \cup {Absent}],
     tokens : BOOLEAN, list : BOOLEAN, unknown : BOOLEAN, body : Bodies]

Present(e) == {r \in Rules : e.mirror[r] # Absent}

\* _field_should_emit, for the values it does not refuse.
Emits(r, v) == CASE r = "always" -> TRUE
                 [] r \in {"flag", "truthy"} -> v \in {"scalar", "many"}
                 [] r = "set" -> v # "null"

\* A field that has to be placed and cannot be rendered.
Unrenderable(r, v) ==
    \/ r = "always" /\ v \in {"null", "many"}
    \/ r \in {"truthy", "set"} /\ v = "many"

Placed(e) == {r \in Present(e) : e.extra[r] = Absent}

\* The entry raises ModelConfigLoadError, and is quarantined.
Quarantined(e) ==
    \/ e.unknown
    \/ Present(e) # {} /\ ~e.tokens
    \/ \E r \in Placed(e) : Unrenderable(r, e.mirror[r])

Token(r, v) == IF r = "flag" THEN "bare" ELSE v

Migrated(e) ==
    [e EXCEPT !.mirror = [r \in Rules |-> Absent],
              !.list = FALSE,
              !.extra = [r \in Rules |->
                  IF r \in Placed(e) /\ Emits(r, e.mirror[r])
                  THEN Token(r, e.mirror[r]) ELSE e.extra[r]]]

Dirty(e) == e.list \/ Present(e) # {}

(* What llama-server is given for the flag of rule r: the reference, from    *)
(* the rules by which build_command emitted the flags before the fields were *)
(* dropped; of a repeated option the operator's own spelling won.  An entry  *)
(* with a dropped field was written for that build_command, one with none is *)
(* read as written for the present one.                                      *)
Effective(e, r) ==
    CASE e.extra[r] # Absent -> e.extra[r]
      [] e.extra[r] = Absent /\ e.mirror[r] = Absent ->
            IF r = "always" /\ Present(e) # {} THEN Default ELSE Absent
      [] OTHER -> IF \/ r = "always"
                     \/ r \in {"flag", "truthy"} /\ e.mirror[r] # "null"
                                                 /\ e.mirror[r] # "falsy"
                     \/ r = "set" /\ e.mirror[r] # "null"
                  THEN IF r = "flag" THEN "bare" ELSE e.mirror[r]
                  ELSE Absent

Argv(e) == [r \in Rules |-> Effective(e, r)]

\* The entry says of the options that were always given what they are, as one
\* does that a save has written: it writes every field (ModelConfig.to_dict).
Complete(e) ==
    Present(e) # {} => e.mirror["always"] # Absent \/ e.extra["always"] # Absent
================================================================================

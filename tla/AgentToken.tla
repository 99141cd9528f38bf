------------------------------ MODULE AgentToken ------------------------------
(* The token an agent demands of its clients: how a starting agent finds or   *)
(* makes it, and how the other launchers of the machine look it up            *)
(* (core/agent_token.py, agent/server.py: run_agent).  agent.env is a         *)
(* sequence of lines, of which only the token lines matter here.              *)
EXTENDS Sequences, Naturals, FiniteSets

CONSTANTS
    Agents,      \* agent processes, all configured for one port
    Tokens,      \* tokens an operator may choose
    Minted,      \* [Agents -> the token each would generate]
    EnvFiles,    \* token lines agent.env may have in the beginning
    Nil          \* no value: also of a token line with nothing after the "="

\* LLAUNCHER_AGENT_TOKEN: unset, a token (on stdin, when it is "-"), or blanks.
Blank == "blank"
EnvValues == Tokens \cup {Nil, Blank}
Hosts == {"loopback", "lan"}
AnyToken == Tokens \cup {Minted[g] : g \in Agents}

ASSUME TokenAssumption ==
    /\ EnvFiles \subseteq Seq(Tokens \cup {Nil})
    /\ Nil \notin AnyToken \cup {Blank}

VARIABLES
    envFile,   \* the values of the token lines of agent.env
    stage,     \* [Agents -> where the process is]
    token      \* [Agents -> the token it enforces, and whether from a file]

Stages == {"down", "empty", "write", "bind", "serving"}
Resolved == [value : AnyToken \cup {Nil}, filed : BOOLEAN]
NoToken == [value |-> Nil, filed |-> FALSE]
tokenVars == <<envFile, stage, token>>

TokenTypeOK ==
    /\ envFile \in Seq(AnyToken \cup {Nil})
    /\ stage \in [Agents -> Stages]
    /\ token \in [Agents -> Resolved]

TokenInit ==
    /\ envFile \in EnvFiles
    /\ stage = [g \in Agents |-> "down"]
    /\ token = [g \in Agents |-> NoToken]

-----------------------------------------------------------------------------
\* parse_env_file: the last of the lines with the key wins.
FileToken == IF envFile = <<>> THEN Nil ELSE envFile[Len(envFile)]

\* resolve_agent_token(allow_generate=False), of a client with no override.
ClientToken == FileToken

\* The two checks of run_agent that come before the token is resolved.
Refused(env, legacy) ==
    \/ legacy /\ env = Nil
    \/ Len(envFile) > 1

\* create_app refuses a token of blanks.
Startable(env, host) ==
    /\ env # Blank
    /\ host = "lan" => (env # Nil \/ FileToken # Nil)

Begins(g, where, value, filed) ==
    /\ stage' = [stage EXCEPT ![g] = where]
    /\ token' = [token EXCEPT ![g] = [value |-> value, filed |-> filed]]

\* Faulty variant of AgentFinds: the file is asked for LAN agents only.
LooksOnLan(g, env, host) ==
    IF env # Nil THEN Begins(g, "bind", env, FALSE)
    ELSE IF host = "lan" THEN Begins(g, "bind", FileToken, TRUE)
    ELSE Begins(g, "empty", Minted[g], TRUE)

\* The environment, then the file, and at last a new token.
AgentFinds(g, env, host) ==
    IF env # Nil THEN Begins(g, "bind", env, FALSE)
    ELSE IF FileToken # Nil THEN Begins(g, "bind", FileToken, TRUE)
    ELSE Begins(g, "empty", Minted[g], TRUE)

AgentStarts(g, env, host, legacy) ==
    /\ stage[g] = "down"
    /\ ~Refused(env, legacy) /\ Startable(env, host)
    /\ AgentFinds(g, env, host)
    /\ UNCHANGED envFile

\* _generate_and_persist_token writes the file in place: it is empty first.
TokenFileEmptied(g) ==
    /\ stage[g] = "empty"
    /\ envFile' = <<>>
    /\ stage' = [stage EXCEPT ![g] = "write"]
    /\ UNCHANGED token

TokenWritten(g) ==
    /\ stage[g] = "write"
    /\ envFile' = <<token[g].value>>
    /\ stage' = [stage EXCEPT ![g] = "bind"]
    /\ UNCHANGED token

\* uvicorn gets the port, or finds it taken and the process exits.
AgentBinds(g) ==
    /\ stage[g] = "bind"
    /\ IF \E h \in Agents : stage[h] = "serving"
       THEN Begins(g, "down", Nil, FALSE)
       ELSE stage' = [stage EXCEPT ![g] = "serving"] /\ UNCHANGED token
    /\ UNCHANGED envFile

AgentStops(g) ==
    /\ stage[g] = "serving"
    /\ Begins(g, "down", Nil, FALSE)
    /\ UNCHANGED envFile

Starting == \E g \in Agents : stage[g] \notin {"down", "serving"}
Serving == \E g \in Agents : stage[g] = "serving"

AgentLaunch == \E g \in Agents, env \in EnvValues, host \in Hosts,
                  legacy \in BOOLEAN : AgentStarts(g, env, host, legacy)
AgentProgress == \E g \in Agents : \/ TokenFileEmptied(g) \/ TokenWritten(g)
                                   \/ AgentBinds(g) \/ AgentStops(g)

-----------------------------------------------------------------------------
(* The agent that serves, unless its operator gave it a token of its own,    *)
(* demands what the other launchers of the machine look up (the split-brain  *)
(* that agent_token.py keeps one live source against).                       *)
AgentAndClientsAgree ==
    \A g \in Agents :
        stage[g] = "serving" /\ token[g].filed => token[g].value = ClientToken
=============================================================================

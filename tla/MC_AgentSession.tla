-------------------------- MODULE MC_AgentSession --------------------------
(***************************************************************************)
(* Instances of AgentSession: claude on a connection that holds, with      *)
(* users that answer twice and wiggum mode; claude with every mishap of the*)
(* connection, the agent and the server; and codex.                        *)
(***************************************************************************)
EXTENDS AgentSession

CONSTANTS r1, r2

VARIABLE trouble   \* "calm", "faults" or "codex"

mcvars == <<vars, trouble>>

Shaken == INSTANCE AgentSession WITH
  Faults <- {"cut", "half_open", "parallel", "terminate", "shutdown", "stop",
             "not_found", "exit", "error", "wiggum"}
Codex == INSTANCE AgentSession WITH
  Agent <- "codex",
  Faults <- {"cut", "twice", "stop", "exit", "error", "wiggum", "plain"}

MCInit == Init /\ trouble \in {"calm", "faults", "codex"}

In(t, A) == trouble = t /\ A
Either(A, B, C) ==
  /\ UNCHANGED trouble
  /\ CASE trouble = "calm" -> A [] trouble = "faults" -> B [] trouble = "codex" -> C

MCNext ==
  \/ \E r \in Requests : Either(AgentAsks(r), Shaken!AgentAsks(r), Codex!AgentAsks(r))
  \/ Either(AgentStep, Shaken!AgentStep, Codex!AgentStep)
  \/ Either(TaskStep, Shaken!TaskStep, Codex!TaskStep)
  \/ Either(ReaderStep, Shaken!ReaderStep, Codex!ReaderStep)
  \/ Either(Mishap, Shaken!Mishap, Codex!Mishap)
  \/ Either(UserStep, Shaken!UserStep, Codex!UserStep)

MCFairness ==
  /\ WF_vars(In("calm", AgentStep)) /\ WF_vars(In("calm", TaskStep))
  /\ WF_vars(In("calm", ReaderStep))
  /\ WF_vars(In("faults", Shaken!AgentStep)) /\ WF_vars(In("faults", Shaken!TaskStep))
  /\ WF_vars(In("faults", Shaken!ReaderStep))
  /\ WF_vars(In("codex", Codex!AgentStep)) /\ WF_vars(In("codex", Codex!TaskStep))
  /\ WF_vars(In("codex", Codex!ReaderStep))
  /\ SF_vars(In("faults", Shaken!ConnectToBackend))
  /\ SF_vars(In("codex", Codex!ConnectToBackend))
  /\ \A r \in Requests : WF_vars(In("calm", UserAnswers(r)))

MCSpec == MCInit /\ [][MCNext]_mcvars /\ MCFairness

-----------------------------------------------------------------------------
Calm(P) == In("calm", P)

\* On a connection that holds a request is answered (as RequestIsAnswered), and
\* wiggum mode ends.
CalmWorkEnds ==
  /\ \A r \in Requests : Calm(r \in agent.asking) ~> Calm(r \notin agent.asking)
  /\ Calm(wiggum # 0) ~> Calm(wiggum = 0)
=============================================================================

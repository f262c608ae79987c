----------------------------- MODULE MCAgentRun -----------------------------
(***************************************************************************)
(* AgentRun with two models of one backend and one of another.             *)
(***************************************************************************)
EXTENDS AgentRun

ThreeModels == {"haiku", "sonnet", "codex"}

BackendOf == [haiku |-> "claude", sonnet |-> "claude", codex |-> "codex"]

ThreeSessions == {"s1", "s2", "x1"}

IssuerOf == [s1 |-> "claude", s2 |-> "claude", x1 |-> "codex"]

=============================================================================

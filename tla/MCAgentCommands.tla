-------------------------- MODULE MCAgentCommands --------------------------
(***************************************************************************)
(* Command execution on small instances.                                   *)
(***************************************************************************)
EXTENDS AgentCommands

CONSTANTS c1, c2

\* One bridge: ids are not reused.
UniqueIds == [c \in Commands |-> CASE c = c1 -> 1 [] c = c2 -> 2]

=============================================================================

------------------------------ MODULE MCAgentRoom ------------------------------
(***************************************************************************)
(* Two participants and two languages, of which one has a provider, and one*)
(* slot of each kind, so that sessions wait for each other.                *)
(***************************************************************************)
EXTENDS AgentRoom, TLC

CONSTANTS ann, ben, hi, en

MCPeople == {ann, ben}
MCLanguages == {hi, en}
MCSupported == {hi}

\* Participants that nothing distinguishes.
Participants == Permutations(MCPeople)

=============================================================================

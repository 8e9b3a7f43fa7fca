---------------------------- MODULE MCReplyCaps ----------------------------
(* Two or three handlers of one identity, with caps they can overrun.      *)
EXTENDS ReplyCaps, TLC

Symmetry == Permutations(Tasks)
============================================================================

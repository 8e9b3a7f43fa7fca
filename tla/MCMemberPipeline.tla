--------------------------- MODULE MCMemberPipeline ---------------------------
(***************************************************************************)
(* MemberPipeline with a message that came, or was claimed, twice.         *)
(***************************************************************************)
EXTENDS MemberPipeline, TLC

CONSTANTS m1, ann, j1, j2

OneMessage == m1 :> ann
Twice == j1 :> m1 @@ j2 :> m1

=============================================================================

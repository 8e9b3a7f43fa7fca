---------------------------- MODULE MCLiveMeetings ----------------------------
(***************************************************************************)
(* LiveMeetings with meetings of both rooms.                               *)
(***************************************************************************)
EXTENDS LiveMeetings, TLC

CONSTANTS o1, g1, g2, r1, r2

\* Requests are interchangeable, where only safety is checked.
RequestSymmetry == Permutations(Requests)

\* So are the meetings of the orgs.
OrgSymmetry == Permutations(Requests) \cup Permutations(Org)

=============================================================================

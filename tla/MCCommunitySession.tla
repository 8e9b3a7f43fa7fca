------------------------- MODULE MCCommunitySession --------------------------
(***************************************************************************)
(* CommunitySession with one identity, a webhook handler and a manual      *)
(* reply.                                                                  *)
(***************************************************************************)
EXTENDS CommunitySession, TLC

CONSTANTS i1, h1, m1

\* Every writer is about i1.
OneOwner == [w \in Writers |-> i1]

=============================================================================

---------------------------- MODULE MCIdentityTree ----------------------------
(***************************************************************************)
(* A client's root with a group below it, a group and a member that are    *)
(* still to be created, and three requests that may all overlap.           *)
(***************************************************************************)
EXTENDS IdentityTree

CONSTANTS office, other, more, member, r1, r2, r3

MCBorn == office :> <<office>> @@ other :> <<office, other>>
MCGroups == {office, other, more}
MCMembers == {member}
Symmetry == S!Permutations(Requests)

===============================================================================

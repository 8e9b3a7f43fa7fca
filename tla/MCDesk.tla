-------------------------------- MODULE MCDesk --------------------------------
(***************************************************************************)
(* One meeting of each room, one conversation, two numbers; requests of    *)
(* every kind about them.                                                  *)
(***************************************************************************)
EXTENDS Desk

CONSTANTS s1, s2, org, person, other, member, member2, orgUser, mo, mn, p1

MCPresent == mo :> {s1, person} @@ mn :> {orgUser, member}
MCLinkedAs == p1 :> person
T == INSTANCE TLC
Symmetry == T!Permutations(Requests)

===============================================================================

------------------------------- MODULE MCCredits -------------------------------
(***************************************************************************)
(* A group with a member and a room with an agent; three requests.         *)
(***************************************************************************)
EXTENDS Credits, TLC

CONSTANTS group, member, room, agent

MCBelow == {<<group, group>>, <<group, member>>, <<member, member>>}
MCCaps == member :> 2
MCRoomOf == agent :> room
MCRank == room :> 1 @@ agent :> 2 @@ member :> 3 @@ group :> 4
MCOpening == group :> 1 @@ member :> 1

===============================================================================

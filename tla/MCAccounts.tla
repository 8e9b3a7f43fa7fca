------------------------------ MODULE MCAccounts ------------------------------
(***************************************************************************)
(* Two addresses, of which one has accounts for three audiences; one       *)
(* application; two sessions; three requests.                              *)
(***************************************************************************)
EXTENDS Accounts

CONSTANTS e, f, app, s1, s2

MCFiledFor == app :> <<"client", e>>
MCOpened == {<<"staff", e>>, <<"client_staff", e>>, <<"org", e>>}
MCSessionOf == s1 :> <<"client_staff", e>> @@ s2 :> <<"org", e>>
T == INSTANCE TLC
Symmetry == T!Permutations(Requests) \cup T!Permutations(Phones)

===============================================================================

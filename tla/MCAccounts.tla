------------------------------ MODULE MCAccounts ------------------------------
(* Instances of Accounts for TLC.                                          *)
EXTENDS Accounts, TLC

CONSTANTS u1, u2, h1, h2, v1, v2, tosEn, tosFr, privacy

OneUserEach == (u1 :> h1) @@ (u2 :> h2)

(* The terms in two languages, then with a privacy policy added to them.   *)
OldAndNew ==
    {[version |-> v1, docs |-> {{tosEn, tosFr}}],
     [version |-> v2, docs |-> {{tosEn, tosFr}, {privacy}}]}

TokenSymmetry == Permutations(Token)
=============================================================================

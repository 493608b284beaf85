------------------------------ MODULE MCInvites ------------------------------
(* Instances of Invites for TLC.                                           *)
EXTENDS Invites, TLC

(* Tokens are drawn at random: only their equality matters.                *)
TokenSymmetry == Permutations(Token)
=============================================================================

--------------------------- MODULE MCReplication ----------------------------
(* Instances of Replication for TLC.                                       *)
EXTENDS ReplicationInvariants, TLC

CONSTANTS s1, s2, a1, a2, a3, m1, m2

(* Every address has its home at s1.                                       *)
AllAtS1 == [a \in Address |-> {s1}]

(* Every address may be bound at every Sydent.                             *)
Anywhere == [a \in Address |-> Server]

(* Requests from s1 may be late.                                           *)
FromS1 == {<<s1, s2>>}

(* The fourth write is the last one to be looked at.                       *)
ThreeWrites == clock <= 3

(* Only equality of mxids matters to the model.                            *)
MxidSymmetry == Permutations(Mxid)
=============================================================================

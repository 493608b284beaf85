------------------------ MODULE ReplicationRefinement ------------------------
(***************************************************************************)
(* Replication implements Directory.  The tables do not say which version  *)
(* of a binding a Sydent has reached when it answers with none, so two     *)
(* history variables are added: what each address was bound to, and the    *)
(* first version, at or after the one reached before, that explains the    *)
(* answer a Sydent gives.                                                  *)
(***************************************************************************)
EXTENDS ReplicationInvariants, Sequences

VARIABLES bound, reached

refinementVars == <<vars, bound, reached>>

RefinementInit ==
    /\ Init
    /\ bound = [a \in Address |-> <<>>]
    /\ reached = [s \in Server |-> [a \in Address |-> 0]]

(* The address that a step writes to a local table, if any                 *)
Written(s, a) == local'[s][a].id # local[s][a].id

(* If there is no such version, the Sydent has gone back: one past the end *)
(* stands for it.                                                          *)
Reach(h, n, m) ==
    LET fits == {k \in n..Len(h) : m = IF k = 0 THEN NoMxid ELSE h[k]}
    IN  IF fits = {} THEN Len(h) + 1 ELSE Min(fits)

RefinementNext ==
    /\ Next
    /\ bound' = [a \in Address |->
                   IF \E s \in Server : Written(s, a)
                   THEN Append(bound[a], local'[CHOOSE s \in Server : Written(s, a)][a].mxid)
                   ELSE bound[a]]
    /\ reached' = [s \in Server |-> [a \in Address |->
                     Reach(bound'[a], reached[s][a], getMxid(global'[s], a))]]

RefinementSpec == RefinementInit /\ [][RefinementNext]_refinementVars /\ Fairness

Answers == [s \in Server |-> [a \in Address |-> getMxid(global[s], a)]]

Abstract == INSTANCE Directory WITH history <- bound, view <- reached, answer <- Answers

(* Lookups at every Sydent only ever move forward in what the address was  *)
(* bound to, through refused batches, lost responses, retries and crashes: *)
(* nobody gets an answer older than one this Sydent has given before, and  *)
(* none that was never bound.  Given that each address has one home and    *)
(* that no request is processed after its sender gave up on it.            *)
ImplementsDirectory == Abstract!Spec

-----------------------------------------------------------------------------
(* The invariant of the refinement.  ver[a][i] is the version of address a *)
(* that its home had when it had issued the id i: what is in the local     *)
(* tables and under way is what its version says.                          *)
Versions(ver) ==
    /\ \A a \in Address :
          /\ ver[a][0] = 0
          /\ \A i \in Nat : ver[a][i] <= Len(bound[a])
          /\ \A i, j \in Nat : i <= j => ver[a][i] <= ver[a][j]
    /\ \A s \in Server, a \in Address : local[s][a].id # 0 =>
          Abstract!AnswerAt(bound[a], ver[a][local[s][a].id]) = local[s][a].mxid
    /\ \A s, p \in Server : \A x \in push[s][p].batch :
          Abstract!AnswerAt(bound[x.address], ver[x.address][x.id]) = x.mxid

(* applied[p][a] is the newest id of address a that p has stored, or for   *)
(* which it has deleted the rows of a: nothing older is under way to p,    *)
(* and p answers with it.                                                  *)
Applied(ver, applied) ==
    \A p \in Server, a \in Address :
        /\ applied[p][a] # 0 => \E s \in BindsAt[a] : applied[p][a] <= local[s][a].id
        /\ \A s \in Server : \A x \in push[s][p].batch :
              x.address = a => applied[p][a] <= x.id
        /\ \A r \in global[p] : r.address = a => r.originId <= applied[p][a]
        /\ getMxid(global[p], a) = Abstract!AnswerAt(bound[a], ver[a][applied[p][a]])
        /\ reached[p][a] <= ver[a][applied[p][a]]

RefinementInv ==
    /\ AckInv
    /\ bound \in [Address -> Seq(Mxid \cup {NoMxid})]
    /\ reached \in [Server -> [Address -> Nat]]
    /\ \E ver \in [Address -> [Nat -> Nat]], applied \in [Server -> [Address -> Nat]] :
          Versions(ver) /\ Applied(ver, applied)
=============================================================================

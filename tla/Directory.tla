------------------------------ MODULE Directory ------------------------------
(***************************************************************************)
(* What the Sydents of a deployment promise together, without tables, ids  *)
(* or batches: every address has a history of the user ids it was bound    *)
(* to, each Sydent answers lookups from a point of it, and that point      *)
(* never moves back.                                                       *)
(***************************************************************************)
EXTENDS Naturals, Sequences

CONSTANTS Server, Address, Mxid, NoMxid

VARIABLES
    history,  \* what each address was bound to; NoMxid is an unbind
    view,     \* the point of it that each Sydent has reached
    answer    \* the answers to lookups

vars == <<history, view, answer>>

AnswerAt(h, n) == IF n = 0 THEN NoMxid ELSE h[n]

Init ==
    /\ history = [a \in Address |-> <<>>]
    /\ view = [s \in Server |-> [a \in Address |-> 0]]
    /\ answer = [s \in Server |-> [a \in Address |-> NoMxid]]

(* One address is bound anew, or unbound.                                  *)
Assign ==
    \E a \in Address, m \in Mxid \cup {NoMxid} :
        history' = [history EXCEPT ![a] = Append(@, m)]

(* Any Sydent may catch up, with any address, by any distance.             *)
Next ==
    /\ Assign \/ UNCHANGED history
    /\ \A s \in Server, a \in Address : view'[s][a] \in view[s][a]..Len(history'[a])
    /\ answer' = [s \in Server |-> [a \in Address |->
                    AnswerAt(history'[a], view'[s][a])]]

Spec == Init /\ [][Next]_vars
=============================================================================

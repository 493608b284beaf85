------------------------ MODULE MCValidationSessions -------------------------
(* Instances of ValidationSessions for TLC.                                *)
EXTENDS ValidationSessions, TLC

CONSTANTS e1, E1

(* Two spellings of a mail address.                                        *)
FoldToE1 == [e \in Email |-> e1]

(* Of two session ids one is also the id of a token row, the other never.  *)
RowAndSid == {2, 9}

(* Only equality of client secrets matters to the model.                   *)
SecretSymmetry == Permutations(Secret)
=============================================================================

------------------------------ MODULE MCDatabase ------------------------------
(* An instance of CasefoldMigration for TLC: one address in up to three    *)
(* spellings, with an ASCII capital and with a sharp s.                    *)
EXTENDS CasefoldMigration, TLC

CONSTANTS strasse, Strasse, sharpS

FoldsAll == [a \in Address |-> strasse]

FoldsAscii == [a \in Address |-> IF a = sharpS THEN sharpS ELSE strasse]
=============================================================================

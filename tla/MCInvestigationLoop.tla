------------------------- MODULE MCInvestigationLoop -------------------------
(* Small instances of InvestigationLoop: a source that is read, a search that *)
(* finds something in it, and packages of every quality.                      *)
EXTENDS InvestigationLoop

CONSTANTS e1, e2, r1, s1, thin, hollow

MCHits     == [s \in Searches |-> Reads]
MCRelevant == [p \in Packages |-> IF p = thin THEN Reads ELSE {}]
=============================================================================

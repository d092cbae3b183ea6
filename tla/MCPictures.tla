----------------------------- MODULE MCPictures -----------------------------
(* Pictures with one file in the root and two in a directory of it.        *)
EXTENDS Pictures

MCFiles == [d \in {"/", "d"} |-> IF d = "/" THEN {"e"} ELSE {"x", "y"}]
MCMayMeasure == [f \in {"e", "x", "y"} |-> IF f = "x" THEN {-1, 2} ELSE {1}]
MCByName == <<"/", "d", "x", "y", "e">>
=============================================================================

--------------------------- MODULE MCCausalClock ---------------------------
(* An instance of CausalClock: a coordinator session x on n1 with a remote r  *)
(* on n2, and a client a on n2.                                             *)
EXTENDS CausalClock

MCNodeOf == [s \in Sessions |-> IF s = "x" THEN "n1" ELSE "n2"]
MCRemotes == [s \in Sessions |-> IF s = "x" THEN {"r"} ELSE {}]
=============================================================================

------------------------- MODULE MCBackgroundJobs -------------------------
(* Instances of BackgroundJobs for TLC. *)
EXTENDS BackgroundJobsInv

Move(g, s, t) == [group |-> g, source |-> s, target |-> t]

(* The second move needs the space the first frees; the third is           *)
(* independent of both and shares a node with the second.                  *)
FreesSpace ==
  [refTables |-> FALSE,
   moves |-> <<Move(1, "n1", "n2"), Move(2, "n3", "n1"), Move(3, "n3", "n4")>>]

(* Reference tables are copied first, then two moves of one group. *)
Colocated ==
  [refTables |-> TRUE, moves |-> <<Move(1, "n1", "n2"), Move(1, "n3", "n4")>>]

TwoPlans == {FreesSpace, Colocated}
=============================================================================

-------------------------- MODULE MCTwoPhaseCommit --------------------------
(* Instances of TwoPhaseCommit in which every transaction has one           *)
(* connection per worker.                                                   *)
EXTENDS TwoPhaseCommitInv, TwoPhaseCommitRefinement, TLC

MCGids == Xacts \X Workers
MCXactOf == [g \in MCGids |-> g[1]]
MCWorkerOf == [g \in MCGids |-> g[2]]

NodeSymmetry == Permutations(Workers)
XactSymmetry == Permutations(Xacts)
=============================================================================

-------------------------- MODULE MCDeadlockSearch --------------------------
(* All wait graphs over the given nodes, with every order of the lists.    *)
EXTENDS DeadlockSearch

MCWaitsForLists == {l \in BoundedSeq(TransactionNodes, Cardinality(TransactionNodes)) :
                      IsInjective(l)}
=============================================================================

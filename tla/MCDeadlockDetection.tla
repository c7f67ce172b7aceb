------------------------ MODULE MCDeadlockDetection ------------------------
(* A transaction is a triple of its node, number and timestamp, a local      *)
(* backend a pair of its node and a name, and so is a lock.                  *)
EXTENDS DeadlockDetection

MCInitiator == [p \in Xacts \cup Locals |-> p[1]]
MCBackend == [t \in Xacts |-> <<t[1], t[2] % 2>>]
MCNumber == [t \in Xacts |-> t[2]]
MCStamp == [t \in Xacts |-> t[3]]
MCLockNode == [l \in Locks |-> l[1]]

OnePerNode == {<<1, 1, 1>>, <<2, 2, 2>>}
SameNumber == OnePerNode \cup {<<1, 2, 3>>}
OneLocal == {<<1, "l">>}
TwoLocks == {<<1, "a">>, <<2, "b">>}

\* Larger instances, for the invariants alone: a shared vertex, a backend with two transactions.
TwoLocals == OneLocal \cup {<<1, "m">>}
OneAfterTheOther == OnePerNode \cup {<<1, 3, 3>>}
=============================================================================

---------------------- MODULE TwoPhaseCommitRefinement ----------------------
(***************************************************************************)
(* TwoPhaseCommit implements AtomicCommit.  The decision of a 2PC          *)
(* transaction is taken where its records become visible; without 2PC by   *)
(* the node it writes to.                                                  *)
(***************************************************************************)
EXTENDS TwoPhaseCommit

Participants(t) == {g \in GidsOf(t) : Participant(g)}

Decision(t) ==
  IF IF t \in use2PC \/ Participants(t) = {} THEN CommitDecided(t)
                                          ELSE \E g \in Participants(t) : wtx[g] = "committed"
    THEN "commit"
  ELSE IF \/ \E g \in Participants(t) : wtx[g] = "aborted"
          \/ AbortDecided(t) /\ (t \in use2PC \/ Participants(t) = {})
    THEN "abort"
  ELSE "undecided"

Site(g) ==
  IF ~Participant(g) THEN "none" ELSE IF wtx[g] = "open" THEN "working" ELSE wtx[g]

AC == INSTANCE AtomicCommit WITH
        Sites <- Gids,
        decision <- [t \in Xacts |-> Decision(t)],
        site <- [g \in Gids |-> Site(g)]

\* Coordinated transactions with their callbacks, messages, failures and recovery
\* implement atomic commitment: no step of any of them undoes a decision, resolves a
\* prepared transaction before it, or lets two nodes go different ways.
ImplementsAtomicCommit == AC!Spec
=============================================================================

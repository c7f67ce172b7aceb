------------------------- MODULE TwoPhaseCommitInv -------------------------
(***************************************************************************)
(* The inductive invariant of TwoPhaseCommit.  It says what each phase of  *)
(* the callbacks knows of the remote transactions, what a command in       *)
(* transit presupposes, and what recovery's sets P, A, T and Q still       *)
(* guarantee at each of its steps.                                         *)
(***************************************************************************)
EXTENDS TwoPhaseCommit

InProgressPhases == {"executing", "prepare", "commit_1pc", "checked"}
Resolvable == {"prepared", "committed", "aborted"}

\* The phase of a transaction, its status, its distributed transaction id and its outer
\* transaction go together.
XactOK(t) ==
  /\ phase[t] = "idle" => xact[t] = "none" /\ outer[t] = "none"
  /\ phase[t] \in InProgressPhases <=> xact[t] = "in_progress"
  /\ phase[t] = "post_commit" => xact[t] = "committed"
  /\ phase[t] = "post_abort" => xact[t] = "aborted"
  /\ phase[t] = "finished" => xact[t] \in {"committed", "aborted"}
  /\ (t \in active) <=> phase[t] \notin {"idle", "finished"}
  /\ outer[t] # "none" => t \in use2PC
  /\ outer[t] \in {"clog_committed", "committed"} => xact[t] = "committed" /\ phase[t] = "finished"
  /\ phase[t] = "commit_1pc" => t \notin use2PC
  /\ phase[t] = "prepare" => t \in use2PC

XactInv == \A t \in Xacts : XactOK(t)

\* What is known of a connection by how far its transaction is.
ConnOK(g) ==
  LET t == XactOf[g] IN
  /\ rstate[g] = "NOT_STARTED" =>
       /\ access[g] = {} /\ wtx[g] = "none" /\ chan[g] = "none"
       /\ g \notin wrote \cup critical \cup failed \cup rows
  /\ phase[t] = "idle" => rstate[g] = "NOT_STARTED"
  /\ phase[t] = "executing" => rstate[g] \in {"NOT_STARTED", "STARTED"} /\ g \notin rows
  /\ g \in wrote => g \in critical
  /\ "write" \in access[g] => g \in wrote
  /\ rstate[g] # "NOT_STARTED" /\ access[g] = {} => g \in wrote
  /\ g \notin critical <=> wtx[g] = "none"
  /\ g \notin critical => rstate[g] \notin {"PREPARING", "PREPARED"}
  /\ rstate[g] = "STARTED" =>
       /\ chan[g] = "none" /\ wtx[g] \in {"none", "open", "aborted"}
       /\ link[g] = "up" => wtx[g] = "open"
  /\ g \in wrote /\ t \notin use2PC => "write" \in access[g]
  /\ g \in critical \cap failed =>
       phase[t] \notin {"executing", "prepare"} /\ ~(phase[t] = "checked" /\ t \in use2PC)
  /\ phase[t] = "prepare" => rstate[g] \in {"NOT_STARTED", "STARTED", "PREPARING", "PREPARED"}
  /\ g \in critical \cap failed /\ rstate[g] \in {"STARTED", "PREPARED"} =>
       phase[t] \in {"post_abort", "finished"}

ConnInv == \A g \in Gids : ConnOK(g)

\* Without 2PC at most one connection of a transaction is written over.
OneWriter == EveryWriteChecked =>
  \A g, h \in Gids :
    XactOf[g] = XactOf[h] /\ XactOf[g] \notin use2PC
      /\ "write" \in access[g] /\ "write" \in access[h] => g = h

\* What a command or response in transit presupposes.
ChanOK(g) ==
  LET t == XactOf[g] IN
  /\ chan[g] = "PREPARE" =>
       /\ wtx[g] = "open" /\ Participant(g) /\ t \in use2PC /\ g \in rows
       /\ \/ xact[t] = "aborted"
          \/ phase[t] = "prepare" /\ rstate[g] = "PREPARING"
  /\ chan[g] = "COMMIT" =>
       /\ wtx[g] = "open" /\ phase[t] \notin {"idle", "executing", "prepare"}
       /\ Participant(g) => t \notin use2PC /\ phase[t] # "checked" /\ xact[t] # "committed"
  /\ chan[g] = "COMMIT_PREPARED" => CommitDecided(t)
  /\ chan[g] = "ROLLBACK_PREPARED" => xact[t] = "aborted"
  /\ chan[g] = "ROLLBACK" => xact[t] = "aborted" \/ g \notin critical
  /\ chan[g] = "PREPARE" => rstate[g] \in {"PREPARING", "ABORTED"}
  /\ chan[g] = "COMMIT" => rstate[g] = "1PC_COMMITTING"
  /\ chan[g] = "ROLLBACK" => rstate[g] \in {"1PC_ABORTING", "ABORTED"}
  /\ chan[g] = "COMMIT_PREPARED" => rstate[g] = "2PC_COMMITTING"
  /\ chan[g] = "ROLLBACK_PREPARED" => rstate[g] \in {"2PC_ABORTING", "ABORTED"}
  /\ rstate[g] = "PREPARED" => chan[g] = "none"
  /\ chan[g] = "ok" /\ rstate[g] = "PREPARING" /\ t \in active => wtx[g] = "prepared"
  /\ chan[g] = "ok" /\ rstate[g] \in {"1PC_COMMITTING", "2PC_COMMITTING"} => wtx[g] = "committed"

ChanInv == \A g \in Gids : ChanOK(g)

\* What the coordinator's view of a remote transaction says about the node.
RemoteOK(g) ==
  LET t == XactOf[g] IN
  /\ rstate[g] = "PREPARED" /\ phase[t] \in {"prepare", "checked", "post_commit"} => wtx[g] = "prepared"
  /\ rstate[g] = "COMMITTED" => wtx[g] = "committed"
  /\ phase[t] = "commit_1pc" =>
       rstate[g] \in {"NOT_STARTED", "STARTED", "1PC_COMMITTING", "COMMITTED"} \/ g \notin critical
  /\ Participant(g) /\ t \in use2PC /\ phase[t] \in {"checked", "post_commit"} =>
       rstate[g] \in {"PREPARED", "2PC_COMMITTING", "COMMITTED"}
  /\ Participant(g) /\ t \in use2PC /\ phase[t] = "checked" => rstate[g] = "PREPARED"
  /\ Participant(g) /\ t \notin use2PC /\ phase[t] = "checked" => wtx[g] = "committed"

RemoteInv == \A g \in Gids : RemoteOK(g)

\* The part of a transaction on a node and the decision.
OutcomeOK(g) ==
  LET t == XactOf[g] IN
  /\ wtx[g] = "prepared" => Participant(g) /\ t \in use2PC /\ g \in rows \ deletes
                            /\ phase[t] \notin {"idle", "executing"}
  /\ g \in rows => Participant(g) /\ t \in use2PC
  /\ g \in deletes => CommitDecided(t) /\ wtx[g] = "committed"
  /\ Participant(g) /\ t \in use2PC /\ wtx[g] = "committed" => CommitDecided(t)
  /\ Participant(g) /\ t \in use2PC /\ xact[t] = "committed" /\ outer[t] # "aborted" =>
       wtx[g] \in {"prepared", "committed"}
  /\ Participant(g) /\ t \in use2PC /\ xact[t] = "committed" => wtx[g] \in Resolvable
  /\ Participant(g) /\ t \notin use2PC /\ xact[t] = "committed" => wtx[g] = "committed"

OutcomeInv == \A g \in Gids : OutcomeOK(g)

\* Where recovery is and what it holds there.
RecoveryControl ==
  /\ rpc \in {"idle", "next"} => P = {} /\ A = {} /\ T = {} /\ Q = {} /\ scanned = {}
  /\ rpc = "A" => T = {} /\ Q = {}
  /\ rpc = "Q" => Q = {}
  /\ rpc \in {"Q", "records", "outer_in_progress", "outer_ended", "aborts"} => scanned = Xacts
  /\ rpc = "aborts" => T = {}
  /\ rpc = "idle" => deletes = {}
  /\ rpc \in {"outer_in_progress", "outer_ended"} => cur \in T /\ outer[XactOf[cur]] # "none" /\ number[XactOf[cur]] \notin A
  /\ rpc = "outer_ended" => outer[XactOf[cur]] \in {"committed", "aborted"}
  /\ \A g \in P \cup T \cup Q : WorkerOf[g] = rw

\* What P, A, T and Q tell about a transaction.
RecoveryOK(g) ==
  LET t == XactOf[g] IN
  /\ g \in P => wtx[g] \in Resolvable /\ phase[t] \notin {"idle", "executing"} /\ g \in rows
  /\ g \in P /\ t \in scanned /\ number[t] \notin A => phase[t] = "finished"
  /\ g \in T => xact[t] = "committed" /\ g \in rows
  /\ g \in T \ Q /\ rpc \in {"records", "outer_in_progress", "outer_ended"} => wtx[g] # "prepared"
  /\ g \in P /\ number[t] \notin A /\ xact[t] = "committed"
       /\ rpc \in {"Q", "records", "outer_in_progress", "outer_ended", "aborts"} => g \in T \/ outer[t] = "aborted"

RecoveryInv == \A g \in Gids : RecoveryOK(g)

IInv ==
  /\ TypeOK /\ XactInv /\ ConnInv /\ OneWriter /\ ChanInv /\ RemoteInv /\ OutcomeInv
  /\ RecoveryControl /\ RecoveryInv
=============================================================================

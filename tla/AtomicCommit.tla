---------------------------- MODULE AtomicCommit ----------------------------
(***************************************************************************)
(* What distributed transactions promise: the nodes a transaction writes   *)
(* to (its sites) reach one outcome, the transaction's decision.  There    *)
(* are no messages, records or recovery here; TwoPhaseCommit implements    *)
(* this specification.                                                     *)
(***************************************************************************)
CONSTANTS Xacts, Sites, XactOf

VARIABLES decision, site

vars == <<decision, site>>

Decisions == {"undecided", "commit", "abort"}
SiteStates == {"none", "working", "prepared", "committed", "aborted"}

SitesOf(t) == {s \in Sites : XactOf[s] = t}

Init ==
  /\ decision = [t \in Xacts |-> "undecided"]
  /\ site = [s \in Sites |-> "none"]

\* The transaction writes at s for the first time.
Enlist(s) ==
  /\ site[s] = "none" /\ decision[XactOf[s]] # "commit"
  /\ site' = [site EXCEPT ![s] = "working"]
  /\ UNCHANGED decision

\* A site may still prepare after the transaction was aborted: the request was in transit.
Prepare(s) ==
  /\ site[s] = "working" /\ decision[XactOf[s]] # "commit"
  /\ site' = [site EXCEPT ![s] = "prepared"]
  /\ UNCHANGED decision

DecideCommit(t) ==
  /\ decision[t] = "undecided"
  /\ \A s \in SitesOf(t) : site[s] \in {"none", "prepared"}
  /\ decision' = [decision EXCEPT ![t] = "commit"]
  /\ UNCHANGED site

CommitSite(s) ==
  /\ site[s] = "prepared" /\ decision[XactOf[s]] = "commit"
  /\ site' = [site EXCEPT ![s] = "committed"]
  /\ UNCHANGED decision

\* Without two-phase commit the only site decides for the transaction.
OnePhaseCommit(s) ==
  /\ site[s] = "working" /\ decision[XactOf[s]] = "undecided"
  /\ \A r \in SitesOf(XactOf[s]) \ {s} : site[r] = "none"
  /\ site' = [site EXCEPT ![s] = "committed"]
  /\ decision' = [decision EXCEPT ![XactOf[s]] = "commit"]

\* Several at once when a node restarts.
DecideAbort(ts) ==
  /\ \A t \in ts : decision[t] = "undecided"
  /\ decision' = [t \in Xacts |-> IF t \in ts THEN "abort" ELSE decision[t]]
  /\ UNCHANGED site

\* A site that is not prepared may give up on its own, which dooms the transaction; a
\* prepared one waits for the decision.
AbortSites(ss) ==
  /\ \A s \in ss : \/ site[s] = "working" /\ decision[XactOf[s]] # "commit"
                   \/ site[s] = "prepared" /\ decision[XactOf[s]] = "abort"
  /\ site' = [s \in Sites |-> IF s \in ss THEN "aborted" ELSE site[s]]
  /\ decision' = [t \in Xacts |-> IF SitesOf(t) \cap ss # {} THEN "abort" ELSE decision[t]]

Next ==
  \/ \E s \in Sites : Enlist(s) \/ Prepare(s) \/ CommitSite(s) \/ OnePhaseCommit(s)
  \/ \E t \in Xacts : DecideCommit(t)
  \/ \E ts \in SUBSET Xacts : DecideAbort(ts)
  \/ \E ss \in SUBSET Sites : AbortSites(ss)

Spec == Init /\ [][Next]_vars
=============================================================================

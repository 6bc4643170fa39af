------------------------------- MODULE Rollout -------------------------------
(***************************************************************************)
(* Model rollouts (swarm/coordinator.ts, /orchestration, and the loop of   *)
(* swarm/worker-runner.ts): the coordinator notes which model an agent is  *)
(* to use, a heartbeat takes the note to the agent, the agent installs the *)
(* model, reports its progress and acknowledges.  Status and ack name the  *)
(* agent, not the rollout, so they are booked on whatever rollout is noted *)
(* when they arrive.  Every booking is also written to the database, with  *)
(* a time limit after which nobody waits but the write may still land.     *)
(***************************************************************************)
EXTENDS Naturals, FiniteSets

CONSTANTS
    Rollouts,    \* rollout ids, each used once
    NoRollout,
    MaxLost      \* bound on lost acknowledgements

ASSUME RolloutAssumption == NoRollout \notin Rollouts /\ MaxLost \in Nat

VARIABLES
    noted,       \* agentOrchestration of the agent: rollout and pending
    statusOf,    \* ollamaRollouts: status of each rollout
    stored,      \* ollama_rollouts in the database
    writes,      \* writes on their way to the database
    agentAt,     \* what the agent is doing
    installing,  \* the rollout whose model the agent is installing
    lost         \* acknowledgements lost so far

rvars == << noted, statusOf, stored, writes, agentAt, installing, lost >>

Final == {"applied", "failed"}

(* upsertRollout: the memory at once, the database some time.              *)
UpsertRollout(r, status) ==
    /\ statusOf' = [statusOf EXCEPT ![r] = status]
    /\ writes' = writes \union {[rollout |-> r, status |-> status]}

RolloutInit ==
    /\ noted = [rollout |-> NoRollout, pending |-> FALSE]
    /\ statusOf = [r \in Rollouts |-> "none"] /\ stored = [r \in Rollouts |-> "none"]
    /\ writes = {}
    /\ agentAt = "idle" /\ installing = NoRollout /\ lost = 0

(* POST /orchestration/agents/:agentId/ollama-install for an agent seen    *)
(* lately: the note replaces an earlier one.                               *)
RequestRollout(r) ==
    /\ statusOf[r] = "none" /\ stored[r] = "none"
    /\ noted' = [rollout |-> r, pending |-> TRUE]
    /\ UpsertRollout(r, "requested")
    /\ UNCHANGED << stored, agentAt, installing, lost >>

(* A heartbeat brings a pending note to the agent.                         *)
SeeRollout ==
    /\ agentAt = "idle" /\ noted.pending
    /\ agentAt' = "install" /\ installing' = noted.rollout
    /\ UNCHANGED << noted, statusOf, stored, writes, lost >>

(* POST /orchestration/agents/:agentId/status, best effort, any number of  *)
(* times while the agent installs.                                         *)
ReportStatus ==
    /\ agentAt \in {"install", "warn"} /\ noted.rollout # NoRollout
    /\ UpsertRollout(noted.rollout, "in_progress")
    /\ UNCHANGED << noted, stored, agentAt, installing, lost >>

(* Faulty variant of Installed: a failure is not acknowledged.             *)
InstalledSilently(ok) ==
    /\ agentAt = "install"
    /\ agentAt' = IF ok THEN "ack" ELSE "idle"
    /\ UNCHANGED << noted, statusOf, stored, writes, installing, lost >>

(* The installation succeeds or fails.                                     *)
Installed(ok) ==
    /\ agentAt = "install"
    /\ agentAt' = IF ok THEN "ack" ELSE "nack"
    /\ UNCHANGED << noted, statusOf, stored, writes, installing, lost >>

(* POST /orchestration/agents/:agentId/ack at the coordinator.             *)
AckTakes(ok) ==
    /\ noted' = [noted EXCEPT !.pending = FALSE]
    /\ UpsertRollout(noted.rollout, IF ok THEN "applied" ELSE "failed")

(* The ack is answered, or the coordinator knows of no rollout (404).      *)
Ack ==
    /\ agentAt \in {"ack", "nack"}
    /\ IF noted.rollout = NoRollout THEN UNCHANGED << noted, statusOf, writes >>
       ELSE AckTakes(agentAt = "ack")
    /\ agentAt' = "idle" /\ installing' = NoRollout
    /\ UNCHANGED << stored, lost >>

(* All retries of the ack fail, taken or not.  After a success the agent   *)
(* sends one more status.                                                  *)
AckLost ==
    /\ agentAt \in {"ack", "nack"} /\ noted.rollout # NoRollout
    /\ lost < MaxLost /\ lost' = lost + 1
    /\ AckTakes(agentAt = "ack") \/ UNCHANGED << noted, statusOf, writes >>
    /\ agentAt' = IF agentAt = "ack" THEN "warn" ELSE "idle"
    /\ UNCHANGED << stored, installing >>

AfterWarning ==
    /\ agentAt = "warn"
    /\ agentAt' = "idle" /\ installing' = NoRollout
    /\ UNCHANGED << noted, statusOf, stored, writes, lost >>

(* A write lands, or is given up; earlier ones may land later.             *)
WriteLands(w) ==
    /\ w \in writes
    /\ writes' = writes \ {w}
    /\ stored' \in {stored, [stored EXCEPT ![w.rollout] = w.status]}
    /\ UNCHANGED << noted, statusOf, agentAt, installing, lost >>

(* The agent restarts.                                                     *)
RolloutAgentRestarts ==
    /\ agentAt # "idle" /\ lost < MaxLost /\ lost' = lost + 1
    /\ agentAt' = "idle" /\ installing' = NoRollout
    /\ UNCHANGED << noted, statusOf, stored, writes >>

(* The coordinator restarts: its notes are gone, the audit table stays.    *)
RolloutCoordinatorRestarts ==
    /\ noted' = [rollout |-> NoRollout, pending |-> FALSE]
    /\ statusOf' = [r \in Rollouts |-> "none"]
    /\ writes' = {}
    /\ UNCHANGED << stored, agentAt, installing, lost >>

RolloutNext ==
    \/ \E r \in Rollouts : RequestRollout(r)
    \/ SeeRollout \/ ReportStatus \/ Ack \/ AckLost \/ AfterWarning
    \/ \E ok \in BOOLEAN : Installed(ok)
    \/ \E w \in writes : WriteLands(w)
    \/ RolloutAgentRestarts \/ RolloutCoordinatorRestarts

(* The agent's loop goes on; its calls get through in the end.             *)
RolloutFairness ==
    /\ WF_rvars(SeeRollout) /\ WF_rvars(Ack) /\ WF_rvars(AfterWarning)
    /\ WF_rvars(\E ok \in BOOLEAN : Installed(ok))

RolloutSpec == RolloutInit /\ [][RolloutNext]_rvars /\ RolloutFairness

-----------------------------------------------------------------------------
(* As long as heartbeats ask the agent to install, no record says that the *)
(* rollout is over: not the memory, nor a write under way, nor the table,  *)
(* however late reports are booked and writes land.                        *)
PendingIsOpen ==
    noted.pending =>
      /\ noted.rollout \in Rollouts
      /\ statusOf[noted.rollout] \in {"requested", "in_progress"}
      /\ stored[noted.rollout] \notin Final
      /\ \A w \in writes : w.rollout = noted.rollout => w.status \notin Final

(* A requested rollout does not stay pending: although acks are lost and   *)
(* the agent restarts, it is taken up again until it is acknowledged.      *)
RolloutSettles == noted.pending ~> ~noted.pending

=============================================================================

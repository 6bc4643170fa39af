----------------------------- MODULE ControlPlane -----------------------------
(***************************************************************************)
(* The control plane (control-plane/server.ts): staged rollouts of a model *)
(* over the agents it knows, kept in two tables that every request reads   *)
(* and writes row by row.  The agents themselves are only in memory, in    *)
(* the order they came.                                                    *)
(* One rollout is modelled: rollouts share nothing but the agents.         *)
(***************************************************************************)
EXTENDS Naturals, FiniteSets, Sequences, SequencesExt

CONSTANTS
    CpAgents,        \* agents
    CpCalls,         \* requests that may be under way together
    CanaryPercent,   \* canaryPercent of the rollout
    BatchSize,       \* batchSize
    FailurePercent   \* rollbackOnFailurePercent

ASSUME CpAssumption ==
    /\ CanaryPercent \in 1 .. 100 /\ FailurePercent \in 1 .. 100
    /\ BatchSize \in Nat \ {0}

VARIABLES
    cpAgents,   \* agents: the agents in memory, in order of arrival
    stage,      \* stage of the rollout policy's row
    states,     \* agent_rollout_states: from agents to "failed" or "going" (any other status)
    cpCall,     \* requests on the rollout under way
    covered     \* agents that finished promotions to "full" had to reach (history)

cvars == << cpAgents, stage, states, cpCall, covered >>

IdleCall == [at |-> "idle"]
CanaryCount(n) == LET part == (n * CanaryPercent + 99) \div 100 IN IF part < 1 THEN 1 ELSE part
NextStage == [canary |-> "batch", batch |-> "full"]
FirstOf(s, n) == SubSeq(s, 1, IF Len(s) < n THEN Len(s) ELSE n)

ControlPlaneInit ==
    /\ cpAgents = << >> /\ stage = "none" /\ states = [a \in {} |-> "going"]
    /\ cpCall = [i \in CpCalls |-> IdleCall] /\ covered = {}

Goes(i, call) == cpCall' = [cpCall EXCEPT ![i] = call]
WriteState(a, s) == states' = [b \in DOMAIN states \union {a} |-> IF b = a THEN s ELSE states[b]]

-----------------------------------------------------------------------------
(* POST /agents/upsert of an agent that is new; of a known one, its mode   *)
(* or its model, changes nothing a rollout looks at.                       *)
UpsertAgent(a) ==
    /\ ~Contains(cpAgents, a)
    /\ cpAgents' = Append(cpAgents, a)
    /\ UNCHANGED << stage, states, cpCall, covered >>

(* POST /rollouts: the policy is stored, then the canaries are chosen.     *)
CreateRollout(i) ==
    /\ cpCall[i] = IdleCall /\ stage = "none"
    /\ stage' = "canary" /\ Goes(i, [at |-> "select"])
    /\ UNCHANGED << cpAgents, states, covered >>

SelectCanaries(i) ==
    /\ cpCall[i].at = "select"
    /\ Goes(i, [at |-> "write", todo |-> FirstOf(cpAgents, CanaryCount(Len(cpAgents))), status |-> "going", due |-> {}])
    /\ UNCHANGED << cpAgents, stage, states, covered >>

(* POST /rollouts/:id/promote reads the policy.                            *)
ReadPolicy(i) ==
    /\ cpCall[i] = IdleCall /\ stage \in DOMAIN NextStage
    /\ Goes(i, [at |-> "gate", stage |-> NextStage[stage]])
    /\ UNCHANGED << cpAgents, stage, states, covered >>

(* The health check: too many of the agents enrolled so far have failed.   *)
Unhealthy ==
    LET failed == Cardinality({a \in DOMAIN states : states[a] = "failed"})
    IN  DOMAIN states # {} /\ failed * 100 >= FailurePercent * Cardinality(DOMAIN states)

HealthGate(i) ==
    /\ cpCall[i].at = "gate"
    /\ Goes(i, IF Unhealthy THEN IdleCall ELSE [cpCall[i] EXCEPT !.at = "stage"])
    /\ UNCHANGED << cpAgents, stage, states, covered >>

WriteStage(i) ==
    /\ cpCall[i].at = "stage"
    /\ stage' = cpCall[i].stage /\ Goes(i, [cpCall[i] EXCEPT !.at = "list"])
    /\ UNCHANGED << cpAgents, states, covered >>

(* Faulty variant of ToEnroll: a batch, at whatever stage.                 *)
ToEnrollBatch(to, remaining) == FirstOf(remaining, BatchSize)

(* Who is enrolled at a stage, of the agents that are not yet.             *)
ToEnroll(to, remaining) == IF to = "full" THEN remaining ELSE FirstOf(remaining, BatchSize)

(* The agents without a row, in the order they came.                       *)
InOrder(agents) ==
    \A p, q \in DOMAIN agents : p < q =>
      \E i, j \in DOMAIN cpAgents : i < j /\ cpAgents[i] = agents[p] /\ cpAgents[j] = agents[q]
Remaining == {agents \in SetToSeqs(ToSet(cpAgents) \ DOMAIN states) : InOrder(agents)}

ListEnrolled(i) ==
    /\ cpCall[i].at = "list"
    /\ \E remaining \in Remaining :
         Goes(i, [at |-> "write", todo |-> ToEnroll(cpCall[i].stage, remaining), status |-> "going",
                  due |-> IF cpCall[i].stage = "full" THEN ToSet(cpAgents) ELSE {}])
    /\ UNCHANGED << cpAgents, stage, states, covered >>

(* POST /rollouts/:id/rollback, of a rollout in any stage.                 *)
Rollback(i) ==
    /\ cpCall[i] = IdleCall /\ stage # "none"
    /\ stage' = "rolled_back" /\ Goes(i, [at |-> "listAll"])
    /\ UNCHANGED << cpAgents, states, covered >>

ListAll(i) ==
    /\ cpCall[i].at = "listAll"
    /\ Goes(i, [at |-> "write", status |-> "failed", due |-> {},
                todo |-> SetToSeq({a \in DOMAIN states : states[a] # "failed"})])
    /\ UNCHANGED << cpAgents, stage, states, covered >>

(* The rows are written one by one; after the last the request is answered. *)
WriteRow(i) ==
    /\ cpCall[i].at = "write" /\ cpCall[i].todo # << >>
    /\ WriteState(Head(cpCall[i].todo), cpCall[i].status)
    /\ Goes(i, [cpCall[i] EXCEPT !.todo = Tail(@)])
    /\ UNCHANGED << cpAgents, stage, covered >>

CallEnds(i) ==
    /\ cpCall[i].at = "write" /\ cpCall[i].todo = << >>
    /\ Goes(i, IdleCall) /\ covered' = covered \union cpCall[i].due
    /\ UNCHANGED << cpAgents, stage, states >>

(* POST /rollouts/:id/agents/:agentId/status, of any agent.                *)
AgentStatus(a, s) ==
    /\ stage # "none" /\ WriteState(a, s)
    /\ UNCHANGED << cpAgents, stage, cpCall, covered >>

(* The control plane restarts: requests and agents are gone.               *)
CpRestart ==
    /\ cpCall' = [i \in CpCalls |-> IdleCall] /\ cpAgents' = << >>
    /\ UNCHANGED << stage, states, covered >>

ControlPlaneNext ==
    \/ CpRestart
    \/ \E a \in CpAgents : UpsertAgent(a) \/ \E s \in {"going", "failed"} : AgentStatus(a, s)
    \/ \E i \in CpCalls :
         \/ CreateRollout(i) \/ SelectCanaries(i) \/ ReadPolicy(i) \/ HealthGate(i) \/ WriteStage(i)
         \/ ListEnrolled(i) \/ Rollback(i) \/ ListAll(i) \/ WriteRow(i) \/ CallEnds(i)

ControlPlaneSpec == ControlPlaneInit /\ [][ControlPlaneNext]_cvars

-----------------------------------------------------------------------------
(* A promotion to "full" that was answered has enrolled every agent the    *)
(* control plane knew, whoever else was enrolling, reporting or rolling    *)
(* back at the time.                                                       *)
FullReachesAll == covered \subseteq DOMAIN states

=============================================================================

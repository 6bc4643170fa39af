---------------------------- MODULE MCSwarmQueue ----------------------------
(* Instances of SwarmQueue for TLC: two agents with different capabilities *)
(* and a workload with plain, dependent and tenant subtasks.               *)
EXTENDS SwarmQueue, TLC

CONSTANTS a1, a2, p1, p2, m1

MCAgents == {a1, a2}
MCProjects == {p1, p2}
MCModels == {m1}

(* a1 is a sandboxed machine; a2 has no sandbox, runs model m1, is at the  *)
(* small-tasks power level and uses envelopes.                             *)
MCCapsOf ==
    (a1 :> { [sandbox |-> TRUE, power |-> "full", activeModel |-> NoModel, x25519 |-> FALSE] })
    @@
    (a2 :> { [sandbox |-> FALSE, power |-> "small", activeModel |-> m1, x25519 |-> TRUE] })

Plain == [big |-> FALSE, dependsOn |-> {}]
Big == [big |-> TRUE, dependsOn |-> {}]
After(D) == [big |-> FALSE, dependsOn |-> D]

MCRequests ==
    { [project |-> p1, priority |-> 1, requestedModel |-> NoModel,
       tenant |-> FALSE, delayed |-> TRUE, parts |-> <<Plain, After({1})>>],
      [project |-> p2, priority |-> 2, requestedModel |-> m1,
       tenant |-> TRUE, delayed |-> FALSE, parts |-> <<Big>>],
      [project |-> p2, priority |-> 1, requestedModel |-> NoModel,
       tenant |-> FALSE, delayed |-> FALSE, parts |-> <<After({1, 2})>>] }
=============================================================================

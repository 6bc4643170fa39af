----------------------------- MODULE MCProgress -----------------------------
(***************************************************************************)
(* What must eventually happen, side by side: queued subtasks get done,    *)
(* subtasks offered over the mesh get done, rollouts settle.  The parts    *)
(* share no state, so a behaviour is one of one part: "part" says which.   *)
(* In the first state only the loops of the workers    *)
(* are ready to run, so only their fairness has to be lifted when they are *)
(* not the part looked at; agents of the mesh are then all alive.          *)
(***************************************************************************)
EXTENDS SwarmWork, MeshTasks, Rollout, TLC

CONSTANTS a1, a2, p1, c1, c2, s1, r1, r2

MCProjects == {p1}

(* One worker with envelopes and one without, and one plain task.          *)
Able == [sandbox |-> TRUE, power |-> "full", activeModel |-> NoModel, x25519 |-> TRUE]
MCCapsOf ==
    [a \in Agents |-> {IF a = a1 THEN Able ELSE [Able EXCEPT !.sandbox = FALSE, !.x25519 = FALSE]}]
Task(parts) ==
    [project |-> p1, priority |-> 1, requestedModel |-> NoModel, tenant |-> FALSE,
     delayed |-> FALSE, parts |-> parts]
Part(D) == [big |-> FALSE, dependsOn |-> D]
MCOneTask == {Task(<< Part({}) >>)}

MCHome == s1 :> c1

VARIABLE part

progressVars == << workVars, meshVars, rvars, part >>

ProgressInit ==
    /\ part \in {"work", "mesh", "rollout"}
    /\ WorkInit /\ MeshInit /\ RolloutInit
    /\ part # "mesh" => alive = Coordinators

ProgressNext ==
    /\ UNCHANGED part
    /\ \/ part = "work" /\ WorkNext /\ UNCHANGED << meshVars, rvars >>
       \/ part = "mesh" /\ MeshNext /\ UNCHANGED << workVars, rvars >>
       \/ part = "rollout" /\ RolloutNext /\ UNCHANGED << workVars, meshVars >>

ProgressFairness ==
    /\ part = "work" => Fairness
    /\ MeshFairness /\ RolloutFairness

ProgressSpec == ProgressInit /\ [][ProgressNext]_progressVars /\ ProgressFairness
=============================================================================

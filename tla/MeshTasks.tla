----------------------------- MODULE MeshTasks ------------------------------
(***************************************************************************)
(* Work sharing between coordinators over the gossip mesh: task_offer,     *)
(* task_claim and result_announce (handleMeshIngest in                     *)
(* swarm/coordinator.ts), the deduplication of gossip messages             *)
(* (mesh/protocol.ts) and the forwarding of results to the coordinator a   *)
(* task came from (POST /result).                                          *)
(*                                                                         *)
(* SwarmQueue models one coordinator in detail and its peers as messages   *)
(* out of nowhere.  Here every coordinator is reduced to what the messages *)
(* act on: the place of each subtask in its queue, whether it has heard    *)
(* from an agent in the last 30 s, what its agents are executing.          *)
(*                                                                         *)
(* A broadcast is one message per peer.  Gossip may arrive late, out of    *)
(* order, twice (an HTTP call that timed out is relayed again) or never;   *)
(* a receiver ignores ids it has seen.  A message that is lost, or that    *)
(* outlives its TTL, is one that is never received.  A forwarded result is *)
(* one plain HTTP call, made once.  Coordinators do not restart here: a    *)
(* restart loses the in-memory queue, and nothing in the code recovers it. *)
(***************************************************************************)
EXTENDS Naturals

CONSTANTS
    Coordinators,   \* coordinator ids
    Subtasks,       \* subtask ids
    Home,           \* the coordinator each subtask is submitted to
    MaxPayments     \* bound at which the count of payments saturates

ASSUME MeshAssumption ==
    /\ Home \in [Subtasks -> Coordinators]
    /\ MaxPayments \in Nat \ {0}

VARIABLES
    submitted,  \* subtasks /submit has accepted
    place,      \* where each coordinator's queue has each subtask
    alive,      \* coordinators that heard from an agent in the last 30 s
    working,    \* <<c, s>>: an agent of c is executing s
    outputs,    \* completedOutputs of each coordinator's dependency tracker
    foreign,    \* keys of each coordinator's taskOriginMap
    gossip,     \* gossip messages sent so far
    seenIds,    \* messages each coordinator has accepted
    forwards,   \* result calls under way to the coordinator of origin
    payments    \* history: accrueCredits calls per coordinator and subtask

meshVars == << submitted, place, alive, working, outputs, foreign, gossip,
           seenIds, forwards, payments >>

Message == [ type : {"task_offer", "task_claim", "result_announce"},
             id : Subtasks, from : Coordinators, to : Coordinators ]

Places == {"none", "delayed", "queued", "claimed"}

(* mesh.broadcast: one message to every other coordinator.                 *)
Broadcast(type, c, s) ==
    { [type |-> type, id |-> s, from |-> c, to |-> d] : d \in Coordinators \ {c} }

-----------------------------------------------------------------------------
MeshInit ==
    /\ submitted = {}
    /\ place = [c \in Coordinators |-> [s \in Subtasks |-> "none"]]
    /\ alive \in SUBSET Coordinators
    /\ working = {}
    /\ outputs = [c \in Coordinators |-> {}]
    /\ foreign = [c \in Coordinators |-> {}]
    /\ gossip = {}
    /\ seenIds = [c \in Coordinators |-> {}]
    /\ forwards = {}
    /\ payments = [c \in Coordinators |-> [s \in Subtasks |-> 0]]

(* POST /submit with mesh peers: local agents wait for the claim delay.    *)
MeshSubmit(s) ==
    /\ s \notin submitted
    /\ submitted' = submitted \union {s}
    /\ place' = [place EXCEPT ![Home[s]][s] = "delayed"]
    /\ gossip' = gossip \union Broadcast("task_offer", Home[s], s)
    /\ UNCHANGED << alive, working, outputs, foreign, seenIds, forwards, payments >>

DelayEnds(c, s) ==
    /\ place[c][s] = "delayed"
    /\ place' = [place EXCEPT ![c][s] = "queued"]
    /\ UNCHANGED << submitted, alive, working, outputs, foreign, gossip, seenIds,
                    forwards, payments >>

(* Agents fall silent, or send a heartbeat again.                          *)
AgentsGone(c) ==
    /\ c \in alive
    /\ alive' = alive \ {c}
    /\ UNCHANGED << submitted, place, working, outputs, foreign, gossip, seenIds,
                    forwards, payments >>

AgentsBack(c) ==
    /\ c \notin alive
    /\ alive' = alive \union {c}
    /\ UNCHANGED << submitted, place, working, outputs, foreign, gossip, seenIds,
                    forwards, payments >>

-----------------------------------------------------------------------------

(* validateMessage: a message is taken once.                               *)
Accept(m) ==
    /\ m \in gossip
    /\ m \notin seenIds[m.to]
    /\ seenIds' = [seenIds EXCEPT ![m.to] = @ \union {m}]

(* task_offer: taken on when some agent is alive, and announced to all     *)
(* with a task_claim.  enqueueSubtask ignores an id it has in its queue.   *)
TaskOffer(m) ==
    LET c == m.to
    IN  /\ m.type = "task_offer"
        /\ Accept(m)
        /\ IF c \in alive
             THEN /\ place' = [place EXCEPT ![c][m.id] = IF @ = "none" THEN "queued" ELSE @]
                  /\ foreign' = [foreign EXCEPT ![c] = @ \union {m.id}]
                  /\ gossip' = gossip \union Broadcast("task_claim", c, m.id)
             ELSE UNCHANGED << place, foreign, gossip >>
        /\ UNCHANGED << submitted, alive, working, outputs, forwards, payments >>

(* markRemoteClaimed: an unclaimed item is dropped.                        *)
Drop(c, s) ==
    place' = [place EXCEPT ![c][s] = IF @ = "claimed" THEN @ ELSE "none"]

(* task_claim: dropped when no local agent is alive, else kept so that     *)
(* local agents "can still race for it via /pull".                         *)
TaskClaim(m) ==
    /\ m.type = "task_claim"
    /\ Accept(m)
    /\ IF m.to \in alive THEN UNCHANGED place ELSE Drop(m.to, m.id)
    /\ UNCHANGED << submitted, alive, working, outputs, foreign, gossip, forwards, payments >>

ResultAnnounce(m) ==
    /\ m.type = "result_announce"
    /\ Accept(m)
    /\ Drop(m.to, m.id)
    /\ UNCHANGED << submitted, alive, working, outputs, foreign, gossip, forwards, payments >>

-----------------------------------------------------------------------------
(* POST /pull.  A worker sends a heartbeat just before it pulls.           *)
MeshPull(c, s) ==
    /\ c \in alive
    /\ place[c][s] = "queued"
    /\ place' = [place EXCEPT ![c][s] = "claimed"]
    /\ working' = working \union {<<c, s>>}
    /\ UNCHANGED << submitted, alive, outputs, foreign, gossip, seenIds, forwards, payments >>

(* Faulty variant of Requeue: stale claims are left alone.                 *)
RequeueNot(c, s) ==
    /\ c \in alive
    /\ place[c][s] = "claimed"
    /\ UNCHANGED meshVars

(* requeueStale, at the heartbeat of an agent.                             *)
Requeue(c, s) ==
    /\ c \in alive
    /\ place[c][s] = "claimed"
    /\ place' = [place EXCEPT ![c][s] = "queued"]
    /\ UNCHANGED << submitted, alive, working, outputs, foreign, gossip, seenIds,
                    forwards, payments >>

(* The agent crashes or gives up.                                          *)
AgentFails(c, s) ==
    /\ <<c, s>> \in working
    /\ working' = working \ {<<c, s>>}
    /\ UNCHANGED << submitted, place, alive, outputs, foreign, gossip, seenIds,
                    forwards, payments >>

(* POST /result at c for s: the item leaves the queue and is paid for if   *)
(* it was there, the output is recorded, the result goes home if the task  *)
(* came from a peer, and all peers are told, under a new message id even   *)
(* if they were told before.                                               *)
MeshComplete(c, s) ==
    /\ place' = [place EXCEPT ![c][s] = "none"]
    /\ payments' = [payments EXCEPT ![c][s] =
                  IF place[c][s] # "none" /\ @ < MaxPayments THEN @ + 1 ELSE @]
    /\ outputs' = [outputs EXCEPT ![c] = @ \union {s}]
    /\ foreign' = [foreign EXCEPT ![c] = @ \ {s}]
    /\ gossip' = gossip \union Broadcast("result_announce", c, s)
    /\ seenIds' = [d \in Coordinators |-> seenIds[d] \ Broadcast("result_announce", c, s)]

MeshResult(c, s) ==
    /\ <<c, s>> \in working
    /\ working' = working \ {<<c, s>>}
    /\ MeshComplete(c, s)
    /\ forwards' = IF s \in foreign[c] THEN forwards \union {<<c, s>>} ELSE forwards
    /\ UNCHANGED << submitted, alive >>

(* The forwarded result arrives: the same handler at home.                 *)
ForwardedResult(c, s) ==
    /\ <<c, s>> \in forwards
    /\ forwards' = forwards \ {<<c, s>>}
    /\ MeshComplete(Home[s], s)
    /\ UNCHANGED << submitted, alive, working >>

(* The call fails: "result_forward_failed" is logged.                      *)
ForwardFails(c, s) ==
    /\ <<c, s>> \in forwards
    /\ forwards' = forwards \ {<<c, s>>}
    /\ UNCHANGED << submitted, place, alive, working, outputs, foreign, gossip,
                    seenIds, payments >>

-----------------------------------------------------------------------------
Receive(m) == TaskOffer(m) \/ TaskClaim(m) \/ ResultAnnounce(m)

MeshNext ==
    \/ \E s \in Subtasks : MeshSubmit(s)
    \/ \E c \in Coordinators : AgentsGone(c) \/ AgentsBack(c)
    \/ \E m \in gossip : Receive(m)
    \/ \E c \in Coordinators, s \in Subtasks :
         \/ DelayEnds(c, s) \/ MeshPull(c, s) \/ Requeue(c, s) \/ AgentFails(c, s)
         \/ MeshResult(c, s) \/ ForwardedResult(c, s) \/ ForwardFails(c, s)

MeshSafetySpec == MeshInit /\ [][MeshNext]_meshVars

(* A step in which nobody fails or falls silent.                           *)
MeshHealthy ==
    \/ \E s \in Subtasks : MeshSubmit(s)
    \/ \E c \in Coordinators : AgentsBack(c)
    \/ \E m \in gossip : Receive(m)
    \/ \E c \in Coordinators, s \in Subtasks :
         \/ DelayEnds(c, s) \/ MeshPull(c, s) \/ MeshResult(c, s) \/ ForwardedResult(c, s)
         \/ Requeue(c, s) /\ <<c, s>> \notin working

(* Time passes, agents come back, pull, and finish what they run; the      *)
(* network and the machines are not broken for good.                       *)
MeshFairness ==
    /\ \A c \in Coordinators : WF_meshVars(AgentsBack(c))
    /\ \A c \in Coordinators, s \in Subtasks :
         /\ WF_meshVars(DelayEnds(c, s))
         /\ WF_meshVars(MeshPull(c, s))
         /\ WF_meshVars(Requeue(c, s) /\ <<c, s>> \notin working)
         /\ WF_meshVars(MeshResult(c, s))
         /\ WF_meshVars(ForwardedResult(c, s))
    /\ <>[][MeshHealthy]_meshVars

MeshSpec == MeshSafetySpec /\ MeshFairness

-----------------------------------------------------------------------------
(* Every variable has its type, and what is queued was submitted.          *)
MeshTypeOK ==
    /\ submitted \subseteq Subtasks
    /\ place \in [Coordinators -> [Subtasks -> Places]]
    /\ \A c \in Coordinators : \A s \in Subtasks \ submitted : place[c][s] = "none"
    /\ alive \subseteq Coordinators
    /\ working \subseteq Coordinators \X submitted
    /\ outputs \in [Coordinators -> SUBSET submitted]
    /\ foreign \in [Coordinators -> SUBSET submitted]
    /\ gossip \subseteq Message
    /\ seenIds \in [Coordinators -> SUBSET Message]
    /\ forwards \subseteq Coordinators \X submitted
    /\ payments \in [Coordinators -> [Subtasks -> 0..MaxPayments]]

(* No coordinator pays twice for a subtask, however gossip, local results  *)
(* and forwarded results overlap: once completed, a subtask does not come  *)
(* back into the queue of the coordinator that completed it.               *)
PaidOnceEach == \A c \in Coordinators, s \in Subtasks : payments[c][s] <= 1

(* Every submitted subtask is executed in the end, at home or by the peer. *)
SubmittedGetsDone ==
    \A s \in Subtasks : s \in submitted ~> \E c \in Coordinators : s \in outputs[c]

=============================================================================

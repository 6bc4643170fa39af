------------------------------ MODULE MeshPeer ------------------------------
(***************************************************************************)
(* Agents and phones as peers of the mesh: the peer table of a node, how   *)
(* it is built at a seed, exchanged with the other nodes and emptied of    *)
(* silent ones (mesh/mesh-peer.ts with mesh/mesh-http-server.ts, and       *)
(* MeshPeerController.swift of the phone).  An agent sends through a       *)
(* GossipMesh, which keeps its own list of peers and gives up on those     *)
(* that do not answer; a phone sends to everyone in its table.  Sockets    *)
(* and relays are in Gossip.  A post ends delivered or failed, and it      *)
(* fails before the receiver took the message, or after (a timeout).       *)
(*                                                                         *)
(* A second state machine is the work that reaches agents by gossip        *)
(* (worker-runner.ts): on task_offer an agent queues the subtask,          *)
(* broadcasts its claim and, when the broadcast has ended, remembers the   *)
(* subtask as claimed; on task_claim it removes the subtask from its       *)
(* queue; its loop takes the queue from the front.  Handlers and loop      *)
(* interleave at their awaits, messages overtake each other, are lost, and *)
(* an offer may come twice (a post that timed out after it was handled is  *)
(* relayed as well).                                                       *)
(***************************************************************************)
EXTENDS Naturals, Sequences, FiniteSets, SequencesExt, TLC

CONSTANTS
    MeshAgents, MeshPhones,
    SeedOf,       \* the node each node bootstraps from (itself: a seed)
    Mortals,      \* the nodes that may crash
    PeerTtl,      \* peerTtlMs
    SkipAfter,    \* NAT_DETECTION_THRESHOLD
    DropAfter,    \* MAX_CONSECUTIVE_FAILURES
    MaxEntries,   \* MAX_PEER_EXCHANGE_ENTRIES
    MaxSent,      \* bound on broadcasts
    MeshWorkers,  \* agents that take work
    MeshOffers,   \* subtasks offered by a coordinator
    MaxCopies,    \* copies of an offer that reach one agent
    NoOffer

MeshNodes == MeshAgents \union MeshPhones

ASSUME MeshPeerAssumption ==
    /\ MeshAgents \intersect MeshPhones = {} /\ SeedOf \in [MeshNodes -> MeshNodes]
    /\ Mortals \subseteq MeshNodes
    /\ {PeerTtl, SkipAfter, DropAfter, MaxEntries, MaxSent, MaxCopies} \subseteq Nat
    /\ NoOffer \notin MeshOffers

VARIABLES
    heard,      \* when each node has last seen each peer of its table; 0: not in the table
    reach,      \* peers of the GossipMesh of each agent
    missed,     \* its failureCounts
    skipped,    \* its natPeers
    stage,      \* "off", "new", "seeded", "learned" or "running"
    posts,      \* posts under way
    sent        \* broadcasts so far

mpvars == << heard, reach, missed, skipped, stage, posts, sent >>
sending == << missed, skipped, posts, sent >>

(* lastSeenMs counted down from the present: Now just seen, 1 longer ago   *)
(* than the time to live, which is as far as the code tells times apart.   *)
Now == PeerTtl + 2
Older(h) == [p \in MeshNodes |-> IF h[p] > 1 THEN h[p] - 1 ELSE h[p]]

None == [p \in MeshNodes |-> 0]
Table(n) == {p \in MeshNodes : heard[n][p] > 0}

MeshPeerInit ==
    /\ heard = [n \in MeshNodes |-> None] /\ reach = [n \in MeshNodes |-> {}]
    /\ missed = [n \in MeshNodes |-> None] /\ skipped = [n \in MeshNodes |-> {}]
    /\ stage = [n \in MeshNodes |-> IF SeedOf[n] = n THEN "running" ELSE "new"]
    /\ posts = {} /\ sent = 0

-----------------------------------------------------------------------------
(* addPeer at each node of the peers in entered[n], with the time they are *)
(* entered with; an agent tells its GossipMesh too.                        *)
HeardWith(entered) ==
    [n \in MeshNodes |-> [p \in MeshNodes |->
        IF p # n /\ entered[n][p] > 0 THEN entered[n][p] ELSE heard[n][p]]]
ReachWith(entered) ==
    [n \in MeshNodes |-> reach[n] \union
        IF n \in MeshPhones THEN {} ELSE {p \in MeshNodes \ {n} : entered[n][p] > 0}]

AddPeers(entered) == heard' = HeardWith(entered) /\ reach' = ReachWith(entered)

Nothing == [n \in MeshNodes |-> None]

(* handleRegisterPeer at the nodes of S, for n.                            *)
RegisterAt(S, n) == [m \in MeshNodes |-> IF m \in S THEN [None EXCEPT ![n] = Now] ELSE None]

(* bootstrap, steps 1 and 2: the seed is up; registering with it throws or *)
(* the seed is added.                                                      *)
BootSeed(n) ==
    /\ stage[n] = "new" /\ stage[SeedOf[n]] # "off"
    /\ AddPeers([RegisterAt({SeedOf[n]}, n) EXCEPT ![n][SeedOf[n]] = Now])
    /\ stage' = [stage EXCEPT ![n] = "seeded"]
    /\ UNCHANGED << sending >>

(* The seed does not answer, or fails in step 1 or 2: the loop goes on,    *)
(* there is no retry.                                                      *)
BootFails(n) ==
    /\ stage[n] = "new" /\ stage' = [stage EXCEPT ![n] = "running"]
    /\ UNCHANGED << heard, reach, sending >>

(* Step 3: everyone the seed knows is entered as seen now; a failure is    *)
(* not fatal.                                                              *)
BootLearn(n) ==
    /\ stage[n] = "seeded" /\ stage' = [stage EXCEPT ![n] = "learned"]
    /\ \/ /\ stage[SeedOf[n]] # "off"
          /\ AddPeers([Nothing EXCEPT
                          ![n] = [p \in MeshNodes |-> IF p \in Table(SeedOf[n]) THEN Now ELSE 0]])
       \/ UNCHANGED << heard, reach >>
    /\ UNCHANGED << sending >>

(* Step 4: register with each of them, whichever answer.                   *)
BootRegister(n) ==
    /\ stage[n] = "learned" /\ stage' = [stage EXCEPT ![n] = "running"]
    /\ \E S \in SUBSET {p \in Table(n) \ {SeedOf[n]} : stage[p] # "off"} : AddPeers(RegisterAt(S, n))
    /\ UNCHANGED << sending >>

-----------------------------------------------------------------------------
(* The entries of an exchange: the MaxEntries seen last.                   *)
Listed(n) == {S \in SUBSET Table(n) :
                 /\ Cardinality(S) = IF Cardinality(Table(n)) < MaxEntries THEN Cardinality(Table(n)) ELSE MaxEntries
                 /\ \A p \in S, q \in Table(n) \ S : heard[n][p] >= heard[n][q]}

Receivers(n) == IF n \in MeshPhones THEN Table(n) ELSE reach[n] \ skipped[n]

(* broadcastPeerExchange.  Posts time out before the next exchange.        *)
Exchange(n) ==
    /\ stage[n] = "running" /\ \A c \in posts : c.from # n \/ c.list = None
    /\ sent < MaxSent /\ sent' = sent + 1
    /\ \E S \in Listed(n) :
         posts' = posts \union {[from |-> n, to |-> d, list |-> [p \in MeshNodes |-> IF p \in S THEN heard[n][p] ELSE 0]]
                                : d \in Receivers(n)}
    /\ UNCHANGED << heard, reach, missed, skipped, stage >>

(* Another broadcast, which may overlap with the exchange.                 *)
OtherBroadcast(n) ==
    /\ stage[n] = "running" /\ \A c \in posts : c.from # n \/ c.list # None
    /\ sent < MaxSent /\ sent' = sent + 1
    /\ posts' = posts \union {[from |-> n, to |-> d, list |-> None] : d \in Receivers(n)}
    /\ UNCHANGED << heard, reach, missed, skipped, stage >>

(* handlePeerExchange: the time a peer was last seen travels with it, but  *)
(* an agent enters a peer it does not know as seen now.                    *)
EnteredAs(d, p, t) ==
    CASE t = 0 -> 0
      [] p \in Table(d) -> IF t > heard[d][p] THEN t ELSE heard[d][p]
      [] OTHER -> IF d \in MeshAgents THEN Now ELSE t

(* handleIngest: a known sender has been seen now.                         *)
Ingested(c) ==
    [Nothing EXCEPT ![c.to] = [p \in MeshNodes |->
        IF p = c.from /\ p \in Table(c.to) THEN Now ELSE EnteredAs(c.to, p, c.list[p])]]

(* The failures of the peer at the sender are forgotten, the mark is not.  *)
Delivered(c) ==
    /\ c \in posts /\ stage[c.to] # "off" /\ AddPeers(Ingested(c)) /\ posts' = posts \ {c}
    /\ missed' = [missed EXCEPT ![c.from][c.to] = 0]
    /\ UNCHANGED << skipped, stage, sent >>

(* recordFailure, also for a peer that left the table meanwhile: first the *)
(* peer is skipped, then it is dropped, from the GossipMesh only.  A phone *)
(* counts no failures.                                                     *)
Failed(c) ==
    LET n == c.from  d == c.to
        count == IF n \in MeshAgents THEN missed[n][d] + 1 ELSE 0
        drop == count >= DropAfter IN
    /\ c \in posts /\ posts' = posts \ {c}
    /\ \E entered \in {Nothing} \union {Ingested(e) : e \in {x \in {c} : stage[d] # "off"}} :
          /\ heard' = HeardWith(entered)
          /\ reach' = [ReachWith(entered) EXCEPT ![n] = IF drop THEN @ \ {d} ELSE @]
    /\ missed' = [missed EXCEPT ![n][d] = IF drop THEN 0 ELSE count]
    /\ skipped' = [skipped EXCEPT ![n] =
                      IF drop THEN @ \ {d} ELSE IF count >= SkipAfter THEN @ \union {d} ELSE @]
    /\ UNCHANGED << stage, sent >>

-----------------------------------------------------------------------------
Stale(n) == {p \in Table(n) : heard[n][p] = 1}

(* Faulty variant of ReachAfter: the GossipMesh keeps who is evicted.      *)
ReachAfterKeeps(n, gone) == reach[n]

ReachAfter(n, gone) == reach[n] \ gone

(* The eviction timer.                                                     *)
EvictStale(n) ==
    /\ stage[n] = "running" /\ Stale(n) # {}
    /\ heard' = [heard EXCEPT ![n] = [p \in MeshNodes |-> IF p \in Stale(n) THEN 0 ELSE @[p]]]
    /\ reach' = [reach EXCEPT ![n] = ReachAfter(n, Stale(n))]
    /\ missed' = [missed EXCEPT ![n] = [p \in MeshNodes |-> IF p \in Stale(n) THEN 0 ELSE @[p]]]
    /\ skipped' = [skipped EXCEPT ![n] = @ \ Stale(n)]
    /\ UNCHANGED << stage, posts, sent >>

MeshTick == /\ heard' = [n \in MeshNodes |-> Older(heard[n])]
            /\ posts' = {[c EXCEPT !.list = Older(@)] : c \in posts}
            /\ UNCHANGED << reach, missed, skipped, stage, sent >>

(* The process ends and is started again with nothing; its posts may still *)
(* arrive.                                                                 *)
Dies(n) ==
    /\ stage[n] # "off" /\ n \in Mortals
    /\ stage' = [stage EXCEPT ![n] = "off"] /\ heard' = [heard EXCEPT ![n] = None]
    /\ reach' = [reach EXCEPT ![n] = {}] /\ missed' = [missed EXCEPT ![n] = None]
    /\ skipped' = [skipped EXCEPT ![n] = {}] /\ posts' = {c \in posts : c.from # n}
    /\ UNCHANGED sent

Starts(n) ==
    /\ stage[n] = "off" /\ stage' = [stage EXCEPT ![n] = IF SeedOf[n] = n THEN "running" ELSE "new"]
    /\ UNCHANGED << heard, reach, sending >>

MeshPeerNext ==
    \/ MeshTick
    \/ \E n \in MeshNodes :
          \/ BootSeed(n) \/ BootFails(n) \/ BootLearn(n) \/ BootRegister(n)
          \/ Exchange(n) \/ OtherBroadcast(n) \/ EvictStale(n) \/ Dies(n) \/ Starts(n)
    \/ \E c \in posts : Delivered(c) \/ Failed(c)

MeshPeerSpec == MeshPeerInit /\ [][MeshPeerNext]_mpvars

-----------------------------------------------------------------------------
(* An agent gossips only to peers of its table, so that a silent one gets  *)
(* nothing more once it is evicted, whatever exchanges, registrations and  *)
(* failures of overlapping posts came in which order.                      *)
GossipIsKnown == \A n \in MeshAgents : reach[n] \subseteq Table(n)

-----------------------------------------------------------------------------
VARIABLES
    toArrive,    \* copies of each offer under way to each agent
    claiming,    \* handlers of task_offer that await their broadcast
    claimedSet,  \* meshClaimedTasks
    taskQueue,   \* meshTaskQueue
    claimMsgs,   \* task_claim messages under way: from, to, subtask
    runningOne,  \* the mesh subtask an agent runs
    queuedBy,    \* history: the agents that queued each subtask
    reportedBy   \* history: the agents that ran it and announced its result

mwvars == << toArrive, claiming, claimedSet, taskQueue, claimMsgs, runningOne, queuedBy, reportedBy >>

MeshWorkInit ==
    /\ toArrive = [a \in MeshWorkers |-> [t \in MeshOffers |-> MaxCopies]]
    /\ claiming = [a \in MeshWorkers |-> [t \in MeshOffers |-> 0]]
    /\ claimedSet = [a \in MeshWorkers |-> {}] /\ taskQueue = [a \in MeshWorkers |-> << >>]
    /\ claimMsgs = {} /\ runningOne = [a \in MeshWorkers |-> NoOffer]
    /\ queuedBy = [t \in MeshOffers |-> {}] /\ reportedBy = [t \in MeshOffers |-> {}]

Claims(a, t) == {<< a, b, t >> : b \in MeshWorkers \ {a}}

-----------------------------------------------------------------------------

OfferTaken(a, t, taken) ==
    IF taken THEN /\ taskQueue' = [taskQueue EXCEPT ![a] = Append(@, t)]
                  /\ claiming' = [claiming EXCEPT ![a][t] = @ + 1]
                  /\ queuedBy' = [queuedBy EXCEPT ![t] = @ \union {a}]
                  /\ claimMsgs' = claimMsgs \union Claims(a, t)
             ELSE UNCHANGED << taskQueue, claiming, queuedBy, claimMsgs >>

(* task_offer; an offer that is malformed or of the agent's own is not     *)
(* taken, whichever the state.                                             *)
TaskOffer(a, t) ==
    /\ toArrive[a][t] > 0 /\ toArrive' = [toArrive EXCEPT ![a][t] = @ - 1]
    /\ \E wellFormed \in BOOLEAN : OfferTaken(a, t, wellFormed /\ t \notin claimedSet[a])
    /\ UNCHANGED << claimedSet, runningOne, reportedBy >>

ClaimBroadcast(a, t) ==
    /\ claiming[a][t] > 0 /\ claiming' = [claiming EXCEPT ![a][t] = @ - 1]
    /\ claimedSet' = [claimedSet EXCEPT ![a] = @ \union {t}]
    /\ UNCHANGED << toArrive, taskQueue, claimMsgs, runningOne, queuedBy, reportedBy >>

(* findIndex and splice: the first entry of the subtask.                   *)
WithoutFirst(q, t) ==
    LET at == {i \in DOMAIN q : q[i] = t} IN
    IF at = {} THEN q ELSE RemoveAt(q, CHOOSE i \in at : \A j \in at : i <= j)

(* task_claim of another agent.                                            *)
TaskClaim(a, b, t) ==
    /\ << a, b, t >> \in claimMsgs /\ claimMsgs' = claimMsgs \ {<< a, b, t >>}
    /\ taskQueue' = [taskQueue EXCEPT ![b] = WithoutFirst(@, t)]
    /\ UNCHANGED << toArrive, claiming, claimedSet, runningOne, queuedBy, reportedBy >>

MessageLost ==
    \/ \E a \in MeshWorkers, t \in MeshOffers :
          /\ toArrive[a][t] > 0 /\ toArrive' = [toArrive EXCEPT ![a][t] = @ - 1]
          /\ UNCHANGED << claiming, claimedSet, taskQueue, claimMsgs, runningOne, queuedBy, reportedBy >>
    \/ \E c \in claimMsgs :
          /\ claimMsgs' = claimMsgs \ {c}
          /\ UNCHANGED << toArrive, claiming, claimedSet, taskQueue, runningOne, queuedBy, reportedBy >>

-----------------------------------------------------------------------------
(* The loop, when the coordinator has no work for the agent.               *)
RunMeshTask(a) ==
    /\ runningOne[a] = NoOffer /\ taskQueue[a] # << >>
    /\ runningOne' = [runningOne EXCEPT ![a] = Head(taskQueue[a])]
    /\ taskQueue' = [taskQueue EXCEPT ![a] = Tail(@)]
    /\ UNCHANGED << toArrive, claiming, claimedSet, claimMsgs, queuedBy, reportedBy >>

(* result_announce to the mesh, and /result if the coordinator answers.    *)
AnnounceResult(a) ==
    /\ runningOne[a] # NoOffer
    /\ reportedBy' = [reportedBy EXCEPT ![runningOne[a]] = @ \union {a}]
    /\ runningOne' = [runningOne EXCEPT ![a] = NoOffer]
    /\ UNCHANGED << toArrive, claiming, claimedSet, taskQueue, claimMsgs, queuedBy >>

(* A pass of the loop that finds nothing.                                  *)
NothingQueued(a) == runningOne[a] = NoOffer /\ taskQueue[a] = << >> /\ UNCHANGED mwvars

MeshWorkNext ==
    \/ MessageLost
    \/ \E a \in MeshWorkers : RunMeshTask(a) \/ AnnounceResult(a) \/ NothingQueued(a)
    \/ \E a \in MeshWorkers, t \in MeshOffers :
          TaskOffer(a, t) \/ ClaimBroadcast(a, t) \/ \E b \in MeshWorkers : TaskClaim(a, b, t)

MeshWorkSpec == MeshWorkInit /\ [][MeshWorkNext]_mwvars

-----------------------------------------------------------------------------
Holds(a, t) == t \in ToSet(taskQueue[a]) \/ runningOne[a] = t \/ a \in reportedBy[t]

(* "Handle task_claim: remove tasks claimed by other peers": once the      *)
(* messages about a subtask have settled, some agent that queued it has it *)
(* or has run it.                                                          *)
WorkedSomewhere == \A t \in MeshOffers :
    /\ queuedBy[t] # {}
    /\ \A a \in MeshWorkers : toArrive[a][t] = 0 /\ claiming[a][t] = 0
    /\ \A c \in claimMsgs : c[3] # t
    => \E a \in MeshWorkers : Holds(a, t)
=============================================================================

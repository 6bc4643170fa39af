----------------------------- MODULE RobotQueue -----------------------------
(***************************************************************************)
(* The bounty queue for robots (swarm/robot-queue.ts) and its HTTP routes  *)
(* (swarm/robot-routes.ts): a client escrows sats for a task, a robot with *)
(* the required capabilities claims it, submits a proof, and the client    *)
(* settles or disputes.  Settled rewards accrue to the robot until they    *)
(* are swept to its payout address.                                        *)
(*                                                                         *)
(* Next is the class under any sequence of calls.  RouteNext is what the   *)
(* coordinator really does with it: no route and no timer calls            *)
(* markFunded, expireStale or markSwept.                                   *)
(***************************************************************************)
EXTENDS Naturals, Sequences, FiniteSets

CONSTANTS
    Robots,         \* agent ids of robots
    NoRobot,        \* "claimedBy" of a task nobody has claimed
    Capabilities,   \* capability tags
    Amounts,        \* sats a client may put in escrow
    FeeBps,         \* coordinatorFeeBps
    MaxTasks        \* bound on the tasks ever created

ASSUME RobotAssumption ==
    /\ NoRobot \notin Robots
    /\ Amounts \subseteq Nat
    /\ FeeBps \in 0..10000
    /\ MaxTasks \in Nat

VARIABLES
    agents,     \* registered robots
    caps,       \* capabilities of each robot
    counts,     \* successCount and failureCount of each robot
    tasks,      \* every task created so far; its index is its id
    earnings    \* the ledger of rewards, in the order they accrued

vars == << agents, caps, counts, tasks, earnings >>

Statuses == {"pending_funding", "funded", "claimed", "proof_submitted",
             "settled", "disputed", "expired"}

Task == [ needs : SUBSET Capabilities, escrowSats : Nat, rewardSats : Nat,
          coordinatorFeeSats : Nat, status : Statuses,
          claimedBy : Robots \union {NoRobot}, late : BOOLEAN ]

Entry == [ agent : Robots, task : 1..MaxTasks, sats : Nat, status : {"accrued", "swept"} ]

(* computeIntentFee *)
FeeSats(amount) == (amount * FeeBps) \div 10000
NetSats(amount) == IF FeeSats(amount) < amount THEN amount - FeeSats(amount) ELSE 0

-----------------------------------------------------------------------------
Init ==
    /\ agents = {}
    /\ caps = [r \in Robots |-> {}]
    /\ counts = [r \in Robots |-> [success |-> 0, failure |-> 0]]
    /\ tasks = << >>
    /\ earnings = << >>

(* POST /robot/agents/register.  A robot that registers again keeps its    *)
(* success and failure counts.                                             *)
RegisterAgent(r) ==
    /\ agents' = agents \union {r}
    /\ \E c \in SUBSET Capabilities : caps' = [caps EXCEPT ![r] = c]
    /\ UNCHANGED << counts, tasks, earnings >>

(* Faulty variant of CreateTask: the reward is the whole escrow.           *)
CreateTaskGross(amount, needs) ==
    /\ Len(tasks) < MaxTasks
    /\ tasks' = Append(tasks,
         [ needs |-> needs, escrowSats |-> amount, rewardSats |-> amount,
           coordinatorFeeSats |-> FeeSats(amount), status |-> "pending_funding",
           claimedBy |-> NoRobot, late |-> FALSE ])
    /\ UNCHANGED << agents, caps, counts, earnings >>

(* POST /robot/tasks, once the Lightning node has made the invoice.        *)
CreateTask(amount, needs) ==
    /\ Len(tasks) < MaxTasks
    /\ tasks' = Append(tasks,
         [ needs |-> needs, escrowSats |-> amount, rewardSats |-> NetSats(amount),
           coordinatorFeeSats |-> FeeSats(amount), status |-> "pending_funding",
           claimedBy |-> NoRobot, late |-> FALSE ])
    /\ UNCHANGED << agents, caps, counts, earnings >>

(* Meant for the moment the escrow invoice is paid; markFunded itself does *)
(* not look at the payment.                                                *)
MarkFunded(t) ==
    /\ tasks[t].status = "pending_funding"
    /\ tasks' = [tasks EXCEPT ![t].status = "funded"]
    /\ UNCHANGED << agents, caps, counts, earnings >>

(* POST /robot/tasks/:taskId/claim *)
ClaimTask(t, r) ==
    /\ tasks[t].status = "funded"
    /\ r \in agents
    /\ tasks[t].needs \subseteq caps[r]
    /\ tasks' = [tasks EXCEPT ![t].status = "claimed", ![t].claimedBy = r]
    /\ UNCHANGED << agents, caps, counts, earnings >>

(* The timeout of a claimed task passes.                                   *)
TimePasses(t) ==
    /\ tasks[t].status = "claimed"
    /\ tasks' = [tasks EXCEPT ![t].late = TRUE]
    /\ UNCHANGED << agents, caps, counts, earnings >>

(* POST /robot/tasks/:taskId/proof: accepted late too, until expireStale   *)
(* has run.                                                                *)
SubmitProof(t, r) ==
    /\ tasks[t].status = "claimed"
    /\ tasks[t].claimedBy = r
    /\ tasks' = [tasks EXCEPT ![t].status = "proof_submitted"]
    /\ UNCHANGED << agents, caps, counts, earnings >>

(* POST /robot/tasks/:taskId/settle *)
SettleTask(t) ==
    LET r == tasks[t].claimedBy
    IN  /\ tasks[t].status = "proof_submitted"
        /\ tasks' = [tasks EXCEPT ![t].status = "settled"]
        /\ earnings' = Append(earnings, [agent |-> r, task |-> t,
                                         sats |-> tasks[t].rewardSats, status |-> "accrued"])
        /\ counts' = [counts EXCEPT ![r].success = @ + 1]
        /\ UNCHANGED << agents, caps >>

(* POST /robot/tasks/:taskId/dispute *)
DisputeTask(t) ==
    /\ tasks[t].status = "proof_submitted"
    /\ tasks' = [tasks EXCEPT ![t].status = "disputed"]
    /\ UNCHANGED << agents, caps, counts, earnings >>

Expiring == { t \in DOMAIN tasks : tasks[t].status = "claimed" /\ tasks[t].late }

ExpireStale ==
    /\ Expiring # {}
    /\ tasks' = [ t \in DOMAIN tasks |-> IF t \in Expiring
                    THEN [tasks[t] EXCEPT !.status = "expired"] ELSE tasks[t] ]
    /\ counts' = [ r \in Robots |->
                     [counts[r] EXCEPT !.failure =
                        @ + Cardinality({ t \in Expiring : tasks[t].claimedBy = r })] ]
    /\ UNCHANGED << agents, caps, earnings >>

MarkSwept(r) ==
    /\ \E k \in DOMAIN earnings : earnings[k].agent = r /\ earnings[k].status = "accrued"
    /\ earnings' = [ k \in DOMAIN earnings |-> IF earnings[k].agent = r
                       THEN [earnings[k] EXCEPT !.status = "swept"] ELSE earnings[k] ]
    /\ UNCHANGED << agents, caps, counts, tasks >>

-----------------------------------------------------------------------------
RouteNext ==
    \/ \E r \in Robots : RegisterAgent(r)
    \/ \E amount \in Amounts, needs \in SUBSET Capabilities : CreateTask(amount, needs)
    \/ \E t \in DOMAIN tasks :
         \/ TimePasses(t) \/ SettleTask(t) \/ DisputeTask(t)
         \/ \E r \in Robots : ClaimTask(t, r) \/ SubmitProof(t, r)

Next ==
    \/ RouteNext
    \/ \E t \in DOMAIN tasks : MarkFunded(t)
    \/ ExpireStale
    \/ \E r \in Robots : MarkSwept(r)

Spec == Init /\ [][Next]_vars

-----------------------------------------------------------------------------

(* No sats appear or disappear: what a client put in escrow is the fee     *)
(* plus the reward, and the ledger holds the reward of every settled task  *)
(* exactly once, for the robot that claimed it, and nothing else.          *)
LedgerMatchesTasks ==
    /\ \A t \in DOMAIN tasks :
         /\ tasks[t].escrowSats = tasks[t].coordinatorFeeSats + tasks[t].rewardSats
         /\ tasks[t].status = "settled" <=> \E k \in DOMAIN earnings : earnings[k].task = t
    /\ \A k \in DOMAIN earnings :
         /\ earnings[k].agent = tasks[earnings[k].task].claimedBy
         /\ earnings[k].sats = tasks[earnings[k].task].rewardSats
         /\ \A l \in DOMAIN earnings : earnings[k].task = earnings[l].task => k = l

TasksWith(s, r) == { t \in DOMAIN tasks : tasks[t].status = s /\ tasks[t].claimedBy = r }

(* A robot's counters are the tasks it brought to an end: its successes    *)
(* are the settled ones it had claimed, its failures those that expired    *)
(* in its hands; a dispute counts as neither, and registering again        *)
(* neither forgets nor repeats any.                                        *)
CountsMatchTasks ==
    \A r \in Robots :
      /\ counts[r].success = Cardinality(TasksWith("settled", r))
      /\ counts[r].failure = Cardinality(TasksWith("expired", r))

(* Ledger and counters say what happened to the tasks, and nothing else.   *)
RobotBooksAgree == LedgerMatchesTasks /\ CountsMatchTasks

=============================================================================

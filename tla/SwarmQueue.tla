----------------------------- MODULE SwarmQueue -----------------------------
(***************************************************************************)
(* The work queue of one coordinator: the in-memory SwarmQueue             *)
(* (swarm/queue.ts), the SubtaskDepTracker (swarm/subtask-deps.ts) and the *)
(* coordinator handlers that drive them: POST /submit, /register,          *)
(* /heartbeat, /pull and /result, and the gossip handler that drops a      *)
(* subtask a peer coordinator took.                                        *)
(*                                                                         *)
(* The environment is open: any agent may pull at any time and may post a  *)
(* result for any id at any time, because /result checks neither that the  *)
(* subtask exists nor that the reporter holds its claim.  What is proved   *)
(* here therefore holds for every behaviour of the workers.                *)
(*                                                                         *)
(* Each handler is one action up to its first await that follows a state   *)
(* change; /pull continues after its awaits in Seal or SealFails, /result  *)
(* in Accrue or AccrueFails.                                               *)
(* Wall-clock time appears only as saturating ages, advanced by Tick.      *)
(***************************************************************************)
EXTENDS Naturals, Sequences, FiniteSets

CONSTANTS
    Agents,         \* agent ids
    NoAgent,        \* "claimedBy" of an unclaimed item; owner of no key
    Projects,       \* project ids
    Models,         \* model names an agent may have active
    NoModel,        \* no requested model, no active model
    Labels,         \* names of subtasks the decomposer made up itself
    CapsOf,         \* for every agent, the capability records it may report
    Requests,       \* decomposed task requests that reach /submit
    ClaimTimeout,   \* ticks after which a claim is stale (30 s)
    ClaimDelay,     \* ticks a subtask waits for peers before local claims (3 s)
    MaxSubtasks     \* bound on the subtasks ever created

(* What the decomposer returned for one task, with the task's metadata.    *)
Parts == [big : BOOLEAN, dependsOn : SUBSET (1..MaxSubtasks \union Labels)]

Request ==
    [ project : Projects, priority : Nat, requestedModel : Models \union {NoModel},
      tenant : BOOLEAN, delayed : BOOLEAN, parts : Seq(Parts) ]

(* The capability record kept per agent: sandboxMode # "none", the verdict *)
(* of the power policy, the active model, whether it registered an X25519  *)
(* key.                                                                    *)
Capability ==
    [ sandbox : BOOLEAN, power : {"none", "small", "full"},
      activeModel : Models \union {NoModel}, x25519 : BOOLEAN ]

Ids == 1..MaxSubtasks
Names == Ids \union Labels

ASSUME ConstantsAssumption ==
    /\ NoAgent \notin Agents
    /\ NoModel \notin Models
    /\ ClaimTimeout \in Nat
    /\ ClaimDelay \in Nat
    /\ MaxSubtasks \in Nat
    /\ Requests \subseteq Request
    /\ CapsOf \in [Agents -> SUBSET Capability]
    /\ Labels \intersect Ids = {}

VARIABLES
    subtasks,         \* every subtask created so far; its index is its id
    tasks,            \* SwarmQueue.tasks: the array of queue items
    projectCompleted, \* SwarmQueue.projectCompleted
    pending,          \* depTracker.pending: the ids held back
    completedOutputs, \* keys of depTracker.completedOutputs
    capability,       \* agentCapabilities, for the registered agents
    registered,       \* keys of agentCapabilities
    blacklisted,      \* agents with an active blacklist record
    envelopeKey,      \* envelopeSharedKeys: whose key a subtask was sent under
    sealing,          \* /pull handlers between claim and envelope
    accruing,         \* /result handlers between completion and accrueCredits
    rewards,          \* history: accrueCredits calls per subtask
    remote            \* history: ids dropped because a peer took them

vars == << subtasks, tasks, projectCompleted, pending, completedOutputs,
           capability, registered, blacklisted, envelopeKey, sealing,
           accruing, rewards, remote >>

queueVars == << subtasks, tasks, projectCompleted, pending, completedOutputs >>
agentVars == << capability, registered, blacklisted >>
keyVars == << envelopeKey, sealing >>
creditVars == << accruing, rewards >>

-----------------------------------------------------------------------------
Item == [ id : Ids, claimedBy : Agents \union {NoAgent},
          age : 0..(ClaimTimeout + 1), delay : 0..ClaimDelay ]

Subtask ==
    [ project : Projects, priority : Nat, requestedModel : Models \union {NoModel},
      tenant : BOOLEAN, delayed : BOOLEAN, big : BOOLEAN, dependsOn : SUBSET Names ]

Created == 1..Len(subtasks)
IdsOf(q) == { q[i].id : i \in DOMAIN q }
Queued == IdsOf(tasks)
Distinct(q) == \A i, j \in DOMAIN q : q[i].id = q[j].id => i = j
Unclaimed(item) == item.claimedBy = NoAgent

(* now - claimedAt > claimTimeoutMs *)
Stale(item) == ~Unclaimed(item) /\ item.age > ClaimTimeout

Cleared(item) ==
    [id |-> item.id, claimedBy |-> NoAgent, age |-> 0, delay |-> item.delay]

(* Array.prototype.splice(i, 1) *)
Splice(s, i) == [j \in 1..(Len(s) - 1) |-> IF j < i THEN s[j] ELSE s[j + 1]]

(* The ascending enumeration of a finite set of ids.  Ids are handed out   *)
(* in creation order, so this is the iteration order of the pending map.   *)
InOrder(S) ==
    { f \in [1..Cardinality(S) -> S] :
        /\ \A i, j \in 1..Cardinality(S) : i < j => f[i] < f[j]
        /\ \A s \in S : \E i \in 1..Cardinality(S) : f[i] = s }

(* enqueueSubtask for the ids of "order", one after the other.             *)
NewItems(order, known) ==
    [ i \in DOMAIN order |->
        [ id |-> order[i], claimedBy |-> NoAgent, age |-> 0,
          delay |-> IF known[order[i]].delayed THEN ClaimDelay ELSE 0 ] ]

-----------------------------------------------------------------------------
Init ==
    /\ subtasks = << >>
    /\ tasks = << >>
    /\ projectCompleted = [p \in Projects |-> 0]
    /\ pending = {}
    /\ completedOutputs = {}
    /\ capability \in [Agents -> Capability]
    /\ \A a \in Agents : capability[a] \in CapsOf[a]
    /\ registered = {}
    /\ blacklisted = {}
    /\ envelopeKey = [s \in Ids |-> NoAgent]
    /\ sealing = {}
    /\ accruing = {}
    /\ rewards = [s \in Ids |-> 0]
    /\ remote = {}

(* evaluateAndEnforce: behaviour monitoring may blacklist the agent.       *)
EvaluateAndEnforce(a) == blacklisted' \in { blacklisted, blacklisted \union {a} }

(* POST /register, past activation: a blacklisted agent is turned away.    *)
(* The new capability record has no active model until a heartbeat names   *)
(* one.                                                                    *)
Register(a) ==
    /\ a \notin blacklisted
    /\ \E c \in CapsOf[a] :
         capability' = [capability EXCEPT ![a] = [c EXCEPT !.activeModel = NoModel]]
    /\ registered' = registered \union {a}
    /\ EvaluateAndEnforce(a)
    /\ UNCHANGED << queueVars, keyVars, creditVars, remote >>

(* Faulty variant of RequeueStale: claims are never given up.              *)
RequeueStaleNever(q) == q

(* SwarmQueue.requeueStale *)
RequeueStale(q) == [i \in DOMAIN q |-> IF Stale(q[i]) THEN Cleared(q[i]) ELSE q[i]]

(* POST /heartbeat: the only place where stale claims are swept.  It       *)
(* reports power, sandbox and model, but no X25519 key.                    *)
Heartbeat(a) ==
    /\ a \in registered \ blacklisted
    /\ \E c \in CapsOf[a] :
         capability' = [capability EXCEPT ![a] = [c EXCEPT !.x25519 = capability[a].x25519]]
    /\ tasks' = RequeueStale(tasks)
    /\ UNCHANGED << subtasks, projectCompleted, pending, completedOutputs,
                    registered, blacklisted, keyVars, creditVars, remote >>

(* POST /submit, after decomposition: fresh ids, then every subtask with a *)
(* dependsOn is held and every other is enqueued.  The ids are drawn after *)
(* the decomposer answered, so dependsOn can name earlier subtasks and the *)
(* decomposer's own labels, never a subtask of the same batch; hence the   *)
(* cycle check finds nothing to enqueue early.                             *)
Submit(r) ==
    LET first == Len(subtasks)
        new == [ i \in 1..Len(r.parts) |->
                   [ project |-> r.project, priority |-> r.priority,
                     requestedModel |-> r.requestedModel, tenant |-> r.tenant,
                     delayed |-> r.delayed, big |-> r.parts[i].big,
                     dependsOn |-> r.parts[i].dependsOn ] ]
        ids == (first + 1)..(first + Len(r.parts))
        held == { s \in ids : r.parts[s - first].dependsOn # {} }
    IN  /\ first + Len(r.parts) <= MaxSubtasks
        /\ \A i \in DOMAIN r.parts :
             r.parts[i].dependsOn \intersect Ids \subseteq 1..first
        /\ subtasks' = subtasks \o new
        /\ pending' = pending \union held
        /\ \E order \in InOrder((ids \ held) \ Queued) :
             tasks' = tasks \o NewItems(order, subtasks')
        /\ UNCHANGED << projectCompleted, completedOutputs, agentVars,
                        keyVars, creditVars, remote >>

(* Faulty variant of RemoteClaimed: claimed items are dropped too.         *)
RemoteClaimedAnyway(i) ==
    /\ remote' = remote \union {tasks[i].id}
    /\ tasks' = Splice(tasks, i)
    /\ UNCHANGED << subtasks, projectCompleted, pending, completedOutputs,
                    agentVars, keyVars, creditVars >>

(* markRemoteClaimed: a peer's task_claim or result_announce drops the     *)
(* subtask unless a local agent has claimed it.                            *)
RemoteClaimed(i) ==
    /\ Unclaimed(tasks[i])
    /\ remote' = remote \union {tasks[i].id}
    /\ tasks' = Splice(tasks, i)
    /\ UNCHANGED << subtasks, projectCompleted, pending, completedOutputs,
                    agentVars, keyVars, creditVars >>

-----------------------------------------------------------------------------
Eligible == { i \in DOMAIN tasks : Unclaimed(tasks[i]) /\ tasks[i].delay = 0 }

(* Model match first: the pool is the matching items when there are any.   *)
Pool(model) ==
    LET matching == { i \in Eligible : /\ model # NoModel
                                       /\ subtasks[tasks[i].id].requestedModel = model }
    IN  IF matching # {} THEN matching ELSE Eligible

(* The scan of claim() keeps item i over a later candidate j, or replaces  *)
(* an earlier j by i: fewest completions of the project, then highest      *)
(* priority, then array order.                                             *)
Preferred(i, j) ==
    LET m == subtasks[tasks[i].id]
        n == subtasks[tasks[j].id]
    IN  \/ projectCompleted[m.project] < projectCompleted[n.project]
        \/ /\ projectCompleted[m.project] = projectCompleted[n.project]
           /\ \/ m.priority > n.priority
              \/ m.priority = n.priority /\ i < j

(* POST /pull, the sandbox and the small-task filter: the claimed item is  *)
(* handed back to the queue when the agent may not run it.                 *)
MayRun(a, s) ==
    /\ subtasks[s].tenant => capability[a].sandbox
    /\ capability[a].power = "small" => ~subtasks[s].big

(* POST /pull passes its early returns for agent a and claim() picks i.    *)
Claims(a, i) ==
    /\ a \in registered \ blacklisted
    /\ capability[a].power # "none"
    /\ i \in Pool(capability[a].activeModel)
    /\ \A j \in Pool(capability[a].activeModel) \ {i} : Preferred(i, j)

Assign(a, i) ==
    /\ Claims(a, i)
    /\ MayRun(a, tasks[i].id)
    /\ tasks' = [tasks EXCEPT ![i].claimedBy = a, ![i].age = 0]

(* POST /pull up to the await that stores the claim's ledger record.  The  *)
(* answer for an agent with an X25519 key still has to be sealed; any      *)
(* other agent is answered without a further change of state, whether the  *)
(* record is stored or not.  (An unusable X25519 key counts as none.)      *)
Pull(a, i) ==
    /\ Assign(a, i)
    /\ sealing' = IF capability[a].x25519 THEN sealing \union {<<tasks[i].id, a>>}
                                          ELSE sealing
    /\ UNCHANGED << subtasks, projectCompleted, pending, completedOutputs,
                    agentVars, envelopeKey, creditVars, remote >>

(* The rest of /pull: the key of the new envelope replaces the subtask's   *)
(* earlier key, whatever has happened to the subtask meanwhile, and keys   *)
(* of other subtasks that outlived their TTL are dropped.                  *)
Seal(a, s) ==
    /\ <<s, a>> \in sealing
    /\ sealing' = sealing \ {<<s, a>>}
    /\ \E expired \in SUBSET (Ids \ {s}) :
         envelopeKey' = [ t \in Ids |-> IF t = s THEN a
                                        ELSE IF t \in expired THEN NoAgent
                                        ELSE envelopeKey[t] ]
    /\ UNCHANGED << queueVars, agentVars, creditVars, remote >>

(* Storing the ledger record throws: 500, the claim stands.                *)
SealFails(a, s) ==
    /\ <<s, a>> \in sealing
    /\ sealing' = sealing \ {<<s, a>>}
    /\ UNCHANGED << queueVars, agentVars, envelopeKey, creditVars, remote >>

-----------------------------------------------------------------------------
(* Faulty variant of Released: "some" for "every".                         *)
ReleasedBySome(s) ==
    { d \in pending : subtasks[d].dependsOn \intersect (completedOutputs \union {s}) # {} }

(* recordCompletionAndRelease: what is released once s has completed.      *)
Released(s) == { d \in pending : subtasks[d].dependsOn \subseteq completedOutputs \union {s} }

(* Faulty variant of Complete: the item stays in the array.                *)
CompleteKeepsItem(s) ==
    /\ UNCHANGED projectCompleted
    /\ \E order \in InOrder(Released(s) \ Queued) :
         tasks' = tasks \o NewItems(order, subtasks)

(* SwarmQueue.complete: the item leaves the array whoever had claimed it.  *)
Complete(s) ==
    IF s \in Queued
      THEN \E i \in DOMAIN tasks :
             /\ tasks[i].id = s
             /\ projectCompleted' = [projectCompleted EXCEPT ![subtasks[s].project] = @ + 1]
             /\ \E order \in InOrder(Released(s) \ (Queued \ {s})) :
                  tasks' = Splice(tasks, i) \o NewItems(order, subtasks)
      ELSE /\ UNCHANGED projectCompleted
           /\ \E order \in InOrder(Released(s) \ Queued) :
                tasks' = tasks \o NewItems(order, subtasks)

(* POST /result from agent a for id s, in the clear or encrypted under the *)
(* key of a's envelope.  Decryption consumes the key, before the blacklist *)
(* check; a result under another key, or under none, is refused.           *)
Decrypts(a, s, encrypted) == encrypted => s \in Ids /\ envelopeKey[s] = a

ConsumeKey(s, encrypted) ==
    IF encrypted THEN envelopeKey' = [envelopeKey EXCEPT ![s] = NoAgent]
                 ELSE UNCHANGED envelopeKey

Result(a, s, encrypted) ==
    /\ Decrypts(a, s, encrypted)
    /\ a \notin blacklisted
    /\ ConsumeKey(s, encrypted)
    /\ Complete(s)
    /\ EvaluateAndEnforce(a)
    /\ completedOutputs' = completedOutputs \union {s}
    /\ pending' = pending \ Released(s)
    /\ accruing' = IF s \in Queued THEN accruing \union {<<s, a>>} ELSE accruing
    /\ UNCHANGED << subtasks, capability, registered, sealing, rewards, remote >>

(* The same request from a blacklisted agent: 403, but the key is gone.    *)
ResultRefused(a, s) ==
    /\ a \in blacklisted
    /\ Decrypts(a, s, TRUE)
    /\ ConsumeKey(s, TRUE)
    /\ UNCHANGED << queueVars, agentVars, sealing, creditVars, remote >>

(* The rest of /result once the ledger record is stored: accrueCredits,    *)
(* run only when the subtask was still in the queue.                       *)
Accrue(s, a) ==
    /\ <<s, a>> \in accruing
    /\ accruing' = accruing \ {<<s, a>>}
    /\ rewards' = [rewards EXCEPT ![s] = @ + 1]
    /\ UNCHANGED << queueVars, agentVars, keyVars, remote >>

(* persistLedgerRecord throws: the handler ends with an error.             *)
AccrueFails(s, a) ==
    /\ <<s, a>> \in accruing
    /\ accruing' = accruing \ {<<s, a>>}
    /\ UNCHANGED << queueVars, agentVars, keyVars, rewards, remote >>

-----------------------------------------------------------------------------
(* A blacklist record arrives (report or gossip), or runs out.             *)
Blacklist(a) ==
    /\ blacklisted' = IF a \in blacklisted THEN blacklisted \ {a} ELSE blacklisted \union {a}
    /\ UNCHANGED << queueVars, capability, registered, keyVars, creditVars, remote >>

Older(item) ==
    [ id |-> item.id, claimedBy |-> item.claimedBy,
      age |-> IF Unclaimed(item) \/ item.age > ClaimTimeout THEN item.age ELSE item.age + 1,
      delay |-> IF item.delay > 0 THEN item.delay - 1 ELSE 0 ]

(* Time passes: claims grow older, claim delays run down.                  *)
Tick ==
    /\ tasks' = [i \in DOMAIN tasks |-> Older(tasks[i])]
    /\ UNCHANGED << subtasks, projectCompleted, pending, completedOutputs,
                    agentVars, keyVars, creditVars, remote >>

Next ==
    \/ \E r \in Requests : Submit(r)
    \/ \E a \in Agents :
         \/ Register(a)
         \/ Heartbeat(a)
         \/ Blacklist(a)
         \/ \E i \in DOMAIN tasks : Pull(a, i)
         \/ \E s \in Names, encrypted \in BOOLEAN : Result(a, s, encrypted)
         \/ \E s \in Ids : ResultRefused(a, s) \/ Seal(a, s) \/ SealFails(a, s)
         \/ \E s \in Ids : Accrue(s, a) \/ AccrueFails(s, a)
    \/ \E i \in DOMAIN tasks : RemoteClaimed(i)
    \/ Tick

Spec == Init /\ [][Next]_vars

-----------------------------------------------------------------------------
(* Every variable has its type, and the queue, the held set and the ids    *)
(* given up name only subtasks that /submit created.                       *)
TypeOK ==
    /\ subtasks \in Seq(Subtask)
    /\ Len(subtasks) <= MaxSubtasks
    /\ tasks \in Seq(Item)
    /\ Queued \subseteq Created
    /\ projectCompleted \in [Projects -> Nat]
    /\ pending \subseteq Created
    /\ completedOutputs \subseteq Names
    /\ capability \in [Agents -> Capability]
    /\ registered \subseteq Agents
    /\ blacklisted \subseteq Agents
    /\ envelopeKey \in [Ids -> Agents \union {NoAgent}]
    /\ sealing \subseteq Ids \X Agents
    /\ accruing \subseteq Ids \X Agents
    /\ rewards \in [Ids -> Nat]
    /\ remote \subseteq Created

(* A subtask is paid for at most once however many results, duplicates or  *)
(* late answers /result receives for it: it is paid only by the handler    *)
(* that takes it out of the queue.                                         *)
RewardedOnce ==
    \A s \in Ids :
      /\ rewards[s] <= 1
      /\ rewards[s] = 1 => \A a \in Agents : <<s, a>> \notin accruing
      /\ \A a, b \in Agents : <<s, a>> \in accruing /\ <<s, b>> \in accruing => a = b

(* A subtask reaches the queue, and so a worker, only after a result for   *)
(* every subtask it depends on has been recorded.                          *)
DependenciesFirst ==
    \A s \in Queued : subtasks[s].dependsOn \subseteq completedOutputs

(* No subtask is ever lost or duplicated by requeueing, releasing and      *)
(* completing: each one is held, or queued once, or has a result, or was   *)
(* given up to a peer coordinator, and it is never both held and queued.   *)
NothingLost ==
    /\ \A s \in Created : s \in pending \union Queued \union completedOutputs \union remote
    /\ pending \intersect Queued = {}
    /\ Distinct(tasks)

(* A subtask nobody has been paid for, nor is about to be.                 *)
Unpaid(s) == rewards[s] = 0 /\ \A a \in Agents : <<s, a>> \notin accruing

(* As long as a subtask can still enter or leave the queue, no payment for *)
(* it exists: what keeps RewardedOnce inductive.                           *)
OpenIsUnpaid ==
    \A s \in Ids : (s \notin Created \/ s \in pending \/ s \in Queued) => Unpaid(s)

(* The queue as a whole.  No subtask is lost, queued twice or both held    *)
(* and queued; none is queued before what it depends on has a result; none *)
(* is paid for twice, and none that a worker may still be given is paid    *)
(* for at all, however pulls, results, repeats, peers and lost rewards     *)
(* come in between.                                                        *)
QueueInv ==
    /\ TypeOK
    /\ NothingLost
    /\ DependenciesFirst
    /\ OpenIsUnpaid
    /\ RewardedOnce

(* What a step does to the live claims: each stays with its holder, unless *)
(* the subtask is completed.                                               *)
LeaseKept ==
    \A i \in DOMAIN tasks :
      (~Unclaimed(tasks[i]) /\ tasks[i].age <= ClaimTimeout) =>
         \/ tasks[i].id \in completedOutputs'
         \/ \E j \in DOMAIN tasks' : /\ tasks'[j].id = tasks[i].id
                                     /\ tasks'[j].claimedBy = tasks[i].claimedBy

(* A claim younger than the timeout is a lease: until the subtask is       *)
(* completed, no pull, heartbeat sweep, release or gossip message takes it *)
(* away from its holder.                                                   *)
LeaseHonoured == [][LeaseKept]_vars

(* The life of a subtask as the queue, the held set and the /result        *)
(* handlers under way show it.                                             *)
Life == INSTANCE SubtaskLife WITH
    held <- pending,
    open <- Queued,
    closed <- Created \ (pending \union Queued),
    due <- { s \in Ids : \E a \in Agents : <<s, a>> \in accruing },
    paid <- rewards

(* The queue keeps its promise: whatever agents pull, report, repeat or    *)
(* abandon, and whatever peers announce, each subtask is opened once,      *)
(* closed once and for good, and rewarded at most once, after its result.  *)
LivesOnce == Life!LifeSpec

=============================================================================

----------------------------- MODULE WorkProofs -----------------------------
(***************************************************************************)
(* The work of the swarm: the queue of one coordinator, for every set of   *)
(* agents, projects and requests, every timeout and every number of        *)
(* subtasks, the workers around it, the tasks that a mesh of coordinators  *)
(* shares, and the rollouts a worker installs, for any number of each.     *)
(***************************************************************************)
EXTENDS SwarmWork, MeshTasks, Rollout, FiniteSetTheorems, SequenceTheorems, TLAPS

-----------------------------------------------------------------------------
(***************************************************************************)
(* The queue. QueueInv is inductive as it stands; leases, and what         *)
(* SubtaskLife promises of each subtask, follow from what single steps do  *)
(* to the items of the array.                                              *)
(***************************************************************************)
(* Splicing item i out of the array drops its id and nothing else.         *)
LEMMA SpliceIds ==
    ASSUME NEW q \in Seq(Item), Distinct(q), NEW i \in DOMAIN q
    PROVE  /\ Splice(q, i) \in Seq(Item)
           /\ Distinct(Splice(q, i))
           /\ IdsOf(Splice(q, i)) = IdsOf(q) \ {q[i].id}
           /\ \A k \in DOMAIN q \ {i} : \E j \in DOMAIN Splice(q, i) : Splice(q, i)[j] = q[k]
<1> DEFINE r == Splice(q, i)
<1>1. Len(q) \in Nat /\ DOMAIN q = 1..Len(q) /\ \A k \in 1..Len(q) : q[k] \in Item
  OBVIOUS
<1>2. DOMAIN r = 1..(Len(q) - 1)
  BY DEF Splice
<1>3. \A j \in DOMAIN r : r[j] = q[IF j < i THEN j ELSE j + 1]
  BY <1>1, <1>2 DEF Splice
<1>4. r \in Seq(Item)
  BY <1>1, <1>3 DEF Splice
<1>5. \A k \in DOMAIN q \ {i} : \E j \in DOMAIN r : r[j] = q[k]
  <2> TAKE k \in DOMAIN q \ {i}
  <2>1. CASE k < i
    BY <1>1, <1>2, <1>3, <2>1
  <2>2. CASE k > i
    <3>1. k - 1 \in DOMAIN r /\ r[k - 1] = q[k]
      BY <1>1, <1>2, <1>3, <2>2
    <3> QED BY <3>1
  <2> QED BY <1>1, <2>1, <2>2
<1>6. \A j \in DOMAIN r : \E k \in DOMAIN q \ {i} : r[j] = q[k]
  BY <1>1, <1>2, <1>3
<1>7. Distinct(r)
  BY <1>1, <1>2, <1>3 DEF Distinct
<1>8. IdsOf(r) = IdsOf(q) \ {q[i].id}
  BY <1>5, <1>6 DEF IdsOf, Distinct
<1> QED BY <1>4, <1>5, <1>7, <1>8

(* Enqueueing ids that are not in the array adds exactly those ids.        *)
LEMMA EnqueueIds ==
    ASSUME NEW q \in Seq(Item), Distinct(q),
           NEW S \in SUBSET Ids, S \intersect IdsOf(q) = {},
           NEW order \in InOrder(S),
           NEW known, \A s \in S : known[s].delayed \in BOOLEAN
    PROVE  LET r == q \o NewItems(order, known)
           IN  /\ r \in Seq(Item)
               /\ Distinct(r)
               /\ IdsOf(r) = IdsOf(q) \union S
               /\ \A k \in DOMAIN q : k \in DOMAIN r /\ r[k] = q[k]
<1> DEFINE n == Cardinality(S)
           new == NewItems(order, known)
           r == q \o new
<1>1. n \in Nat
  <2>1. IsFiniteSet(Ids)
    BY FS_Interval, ConstantsAssumption DEF Ids
  <2>2. IsFiniteSet(S)
    BY <2>1, FS_Subset
  <2> QED BY <2>2, FS_CardinalityType
<1>2. /\ order \in [1..n -> S]
      /\ \A i, j \in 1..n : i < j => order[i] < order[j]
      /\ \A s \in S : \E i \in 1..n : order[i] = s
  BY DEF InOrder
<1>3. /\ DOMAIN new = 1..n
      /\ \A i \in 1..n : new[i].id = order[i] /\ new[i] \in Item
  <2>1. DOMAIN order = 1..n /\ \A i \in 1..n : order[i] \in S
    BY <1>2
  <2>2. DOMAIN new = 1..n
    BY <2>1 DEF NewItems
  <2> SUFFICES ASSUME NEW i \in 1..n
               PROVE  new[i].id = order[i] /\ new[i] \in Item
    BY <2>2
  <2>3. new[i] = [ id |-> order[i], claimedBy |-> NoAgent, age |-> 0,
                   delay |-> IF known[order[i]].delayed THEN ClaimDelay ELSE 0 ]
    BY <2>1 DEF NewItems
  <2>4. (IF known[order[i]].delayed THEN ClaimDelay ELSE 0) \in 0..ClaimDelay
    BY ConstantsAssumption
  <2>5. 0 \in 0..(ClaimTimeout + 1) /\ order[i] \in Ids
    BY <2>1, ConstantsAssumption
  <2> QED BY <2>3, <2>4, <2>5 DEF Item
<1>4. new \in Seq(Item) /\ Len(new) = n
  <2>1. new = [i \in 1..n |-> new[i]]
    BY <1>3 DEF NewItems
  <2> QED BY <1>1, <1>3, <2>1
<1>5. /\ r \in Seq(Item)
      /\ DOMAIN r = 1..(Len(q) + n)
      /\ \A k \in 1..Len(q) : r[k] = q[k]
      /\ \A k \in 1..n : r[Len(q) + k] = new[k]
  BY <1>1, <1>4
<1>6. \A i, j \in 1..n : order[i] = order[j] => i = j
  <2> SUFFICES ASSUME NEW i \in 1..n, NEW j \in 1..n, order[i] = order[j], i # j
               PROVE  FALSE
    OBVIOUS
  <2>1. order[i] \in Nat /\ order[j] \in Nat
    <3>1. order[i] \in Ids /\ order[j] \in Ids
      BY <1>2
    <3> QED BY <3>1, ConstantsAssumption DEF Ids
  <2>2. i < j \/ j < i
    BY <1>1
  <2> QED BY <1>2, <2>1, <2>2
<1>7. \A k \in DOMAIN r : k \in 1..Len(q) \/ (k - Len(q) \in 1..n /\ r[k] = new[k - Len(q)])
  BY <1>1, <1>5
<1>8. Distinct(r)
  <2> SUFFICES ASSUME NEW i \in DOMAIN r, NEW j \in DOMAIN r, r[i].id = r[j].id
               PROVE  i = j
    BY DEF Distinct
  <2>1. CASE i \in 1..Len(q) /\ j \in 1..Len(q)
    BY <1>5, <2>1 DEF Distinct
  <2>2. CASE i \in 1..Len(q) /\ j \notin 1..Len(q)
    <3>1. r[i].id \in IdsOf(q)
      <4>1. i \in DOMAIN q /\ r[i] = q[i]
        BY <1>5, <2>2
      <4> HIDE DEF r
      <4> QED BY <4>1 DEF IdsOf
    <3>2. r[j].id \in S
      BY <1>2, <1>3, <1>7, <2>2
    <3> QED BY <3>1, <3>2
  <2>3. CASE i \notin 1..Len(q) /\ j \in 1..Len(q)
    <3>1. r[j].id \in IdsOf(q)
      <4>1. j \in DOMAIN q /\ r[j] = q[j]
        BY <1>5, <2>3
      <4> HIDE DEF r
      <4> QED BY <4>1 DEF IdsOf
    <3>2. r[i].id \in S
      BY <1>2, <1>3, <1>7, <2>3
    <3> QED BY <3>1, <3>2
  <2>4. CASE i \notin 1..Len(q) /\ j \notin 1..Len(q)
    <3>1. order[i - Len(q)] = order[j - Len(q)]
      BY <1>3, <1>7, <2>4
    <3>2. i - Len(q) = j - Len(q)
      BY <1>6, <1>7, <2>4, <3>1
    <3> QED BY <1>1, <1>5, <3>2
  <2> QED BY <2>1, <2>2, <2>3, <2>4
<1>9. IdsOf(r) = IdsOf(q) \union S
  <2>1. ASSUME NEW x \in IdsOf(r) PROVE x \in IdsOf(q) \union S
    <3>1. PICK k \in DOMAIN r : x = r[k].id
      BY DEF IdsOf
    <3>2. CASE k \in 1..Len(q)
      <4>1. k \in DOMAIN q /\ r[k] = q[k]
        BY <1>5, <3>2
      <4> HIDE DEF r
      <4> QED BY <3>1, <4>1 DEF IdsOf
    <3>3. CASE k \notin 1..Len(q)
      BY <1>2, <1>3, <1>7, <3>1, <3>3
    <3> QED BY <3>2, <3>3
  <2>2. ASSUME NEW x \in IdsOf(q) PROVE x \in IdsOf(r)
    BY <1>1, <1>5 DEF IdsOf
  <2>3. ASSUME NEW x \in S PROVE x \in IdsOf(r)
    <3>1. PICK i \in 1..n : order[i] = x
      BY <1>2
    <3>2. Len(q) + i \in DOMAIN r /\ r[Len(q) + i].id = x
      BY <1>1, <1>3, <1>5, <3>1
    <3> QED BY <3>2 DEF IdsOf
  <2> QED BY <2>1, <2>2, <2>3
<1> QED BY <1>1, <1>5, <1>8, <1>9

-----------------------------------------------------------------------------
(* Rewriting the items without touching their ids keeps the set of ids.    *)
LEMMA RewriteIds ==
    ASSUME NEW q \in Seq(Item), Distinct(q), NEW r,
           DOMAIN r = DOMAIN q,
           r = [i \in DOMAIN q |-> r[i]],
           \A i \in DOMAIN q : r[i] \in Item /\ r[i].id = q[i].id
    PROVE  r \in Seq(Item) /\ Distinct(r) /\ IdsOf(r) = IdsOf(q)
<1>1. DOMAIN q = 1..Len(q) /\ Len(q) \in Nat
  OBVIOUS
<1>2. r \in Seq(Item)
  BY <1>1
<1>3. Distinct(r)
  BY DEF Distinct
<1>4. IdsOf(r) = IdsOf(q)
  BY DEF IdsOf
<1> QED BY <1>2, <1>3, <1>4

(* A step that leaves the life of every subtask as it is.                 *)
Quiet ==
    /\ Queued' = Queued
    /\ UNCHANGED << subtasks, pending, accruing, rewards >>

(* An agent handler that leaves the queue, the credits and the history of  *)
(* the ids alone preserves the invariant.                                  *)
LEMMA QuietStep ==
    ASSUME QueueInv,
           subtasks' = subtasks, pending' = pending,
           tasks' \in Seq(Item), Distinct(tasks'), IdsOf(tasks') = IdsOf(tasks),
           projectCompleted' = projectCompleted,
           completedOutputs' = completedOutputs, remote' = remote,
           accruing' = accruing, rewards' = rewards,
           capability' \in [Agents -> Capability],
           registered' \subseteq Agents, blacklisted' \subseteq Agents,
           envelopeKey' \in [Ids -> Agents \union {NoAgent}],
           sealing' \subseteq Ids \X Agents
    PROVE  QueueInv' /\ Quiet
<1>1. TypeOK'
  BY DEF QueueInv, TypeOK, Created, Queued
<1>2. NothingLost'
  BY DEF QueueInv, NothingLost, Created, Queued
<1>3. DependenciesFirst'
  BY DEF QueueInv, DependenciesFirst, Queued
<1>4. OpenIsUnpaid'
  BY DEF QueueInv, OpenIsUnpaid, Unpaid, Created, Queued
<1>5. RewardedOnce'
  BY DEF QueueInv, RewardedOnce
<1>6. Quiet
  BY DEF Quiet, Queued
<1> QED BY <1>1, <1>2, <1>3, <1>4, <1>5, <1>6 DEF QueueInv

LEMMA InitInv == Init => QueueInv
<1> SUFFICES ASSUME Init PROVE QueueInv
  OBVIOUS
<1> USE DEF Init
<1>1. subtasks = << >> /\ tasks = << >> /\ Len(subtasks) = 0 /\ DOMAIN tasks = {}
  OBVIOUS
<1>2. Queued = {} /\ Created = {}
  BY <1>1 DEF Queued, IdsOf, Created
<1>3. TypeOK
  BY <1>1, <1>2, ConstantsAssumption DEF TypeOK
<1>4. NothingLost /\ DependenciesFirst
  BY <1>1, <1>2 DEF NothingLost, DependenciesFirst, Distinct
<1>5. OpenIsUnpaid /\ RewardedOnce
  BY DEF OpenIsUnpaid, Unpaid, RewardedOnce
<1> QED BY <1>3, <1>4, <1>5 DEF QueueInv

-----------------------------------------------------------------------------
(* One lemma per handler.                                                  *)

LEMMA RegisterInv == ASSUME QueueInv, NEW a \in Agents, Register(a) PROVE QueueInv' /\ Quiet
<1>1. capability' \in [Agents -> Capability]
  <2>1. PICK c \in CapsOf[a] :
          capability' = [capability EXCEPT ![a] = [c EXCEPT !.activeModel = NoModel]]
    BY DEF Register
  <2>2. c \in Capability
    BY <2>1, ConstantsAssumption
  <2>3. [c EXCEPT !.activeModel = NoModel] \in Capability
    BY <2>2 DEF Capability
  <2> QED BY <2>1, <2>3 DEF QueueInv, TypeOK
<1>2. /\ tasks \in Seq(Item) /\ Distinct(tasks)
      /\ registered' \subseteq Agents /\ blacklisted' \subseteq Agents
  BY DEF Register, EvaluateAndEnforce, QueueInv, TypeOK, NothingLost
<1> QED BY <1>1, <1>2, QuietStep DEF Register, QueueInv, TypeOK, queueVars, keyVars, creditVars

LEMMA ClearedItem ==
    ASSUME NEW x \in Item
    PROVE  Cleared(x) \in Item /\ Cleared(x).id = x.id
BY ConstantsAssumption DEF Cleared, Item

LEMMA HeartbeatInv == ASSUME QueueInv, NEW a \in Agents, Heartbeat(a) PROVE QueueInv' /\ Quiet
<1>1. capability' \in [Agents -> Capability]
  <2>1. PICK c \in CapsOf[a] :
          capability' = [capability EXCEPT ![a] = [c EXCEPT !.x25519 = capability[a].x25519]]
    BY DEF Heartbeat
  <2>2. c \in Capability /\ capability[a] \in Capability
    BY <2>1, ConstantsAssumption DEF QueueInv, TypeOK
  <2>3. [c EXCEPT !.x25519 = capability[a].x25519] \in Capability
    BY <2>2 DEF Capability
  <2> QED BY <2>1, <2>3 DEF QueueInv, TypeOK
<1>2. tasks \in Seq(Item) /\ Distinct(tasks) /\ tasks' = RequeueStale(tasks)
  BY DEF Heartbeat, QueueInv, TypeOK, NothingLost
<1>3. /\ DOMAIN tasks' = DOMAIN tasks
      /\ tasks' = [i \in DOMAIN tasks |-> tasks'[i]]
      /\ \A i \in DOMAIN tasks : tasks'[i] = IF Stale(tasks[i]) THEN Cleared(tasks[i]) ELSE tasks[i]
  BY <1>2 DEF RequeueStale
<1>4. \A i \in DOMAIN tasks : tasks'[i] \in Item /\ tasks'[i].id = tasks[i].id
  BY <1>2, <1>3, ClearedItem
<1>5. tasks' \in Seq(Item) /\ Distinct(tasks') /\ IdsOf(tasks') = IdsOf(tasks)
  BY <1>2, <1>3, <1>4, RewriteIds
<1> QED BY <1>1, <1>5, QuietStep DEF Heartbeat, QueueInv, TypeOK, keyVars, creditVars

LEMMA OlderItem ==
    ASSUME NEW x \in Item
    PROVE  Older(x) \in Item /\ Older(x).id = x.id /\ Older(x).claimedBy = x.claimedBy
<1> DEFINE age == IF Unclaimed(x) \/ x.age > ClaimTimeout THEN x.age ELSE x.age + 1
           delay == IF x.delay > 0 THEN x.delay - 1 ELSE 0
<1>1. Older(x) = [id |-> x.id, claimedBy |-> x.claimedBy, age |-> age, delay |-> delay]
  BY DEF Older
<1>2. age \in 0..(ClaimTimeout + 1) /\ delay \in 0..ClaimDelay
  BY ConstantsAssumption DEF Item
<1> QED BY <1>1, <1>2 DEF Item

LEMMA TickInv == ASSUME QueueInv, Tick PROVE QueueInv' /\ Quiet
<1>1. tasks \in Seq(Item) /\ Distinct(tasks)
  BY DEF QueueInv, TypeOK, NothingLost
<1>2. /\ DOMAIN tasks' = DOMAIN tasks
      /\ tasks' = [i \in DOMAIN tasks |-> tasks'[i]]
      /\ \A i \in DOMAIN tasks : tasks'[i] = Older(tasks[i])
  BY DEF Tick
<1>3. \A i \in DOMAIN tasks : tasks'[i] \in Item /\ tasks'[i].id = tasks[i].id
  BY <1>1, <1>2, OlderItem
<1>4. tasks' \in Seq(Item) /\ Distinct(tasks') /\ IdsOf(tasks') = IdsOf(tasks)
  BY <1>1, <1>2, <1>3, RewriteIds
<1> QED BY <1>4, QuietStep DEF Tick, QueueInv, TypeOK, agentVars, keyVars, creditVars

LEMMA BlacklistInv == ASSUME QueueInv, NEW a \in Agents, Blacklist(a) PROVE QueueInv' /\ Quiet
<1>1. blacklisted' \subseteq Agents
  BY DEF Blacklist, QueueInv, TypeOK
<1>2. tasks \in Seq(Item) /\ Distinct(tasks)
  BY DEF QueueInv, TypeOK, NothingLost
<1> QED BY <1>1, <1>2, QuietStep DEF Blacklist, QueueInv, TypeOK, queueVars, keyVars, creditVars

LEMMA PullInv ==
    ASSUME QueueInv, NEW a \in Agents, NEW i \in DOMAIN tasks, Pull(a, i)
    PROVE  QueueInv' /\ Quiet
<1>1. tasks \in Seq(Item) /\ Distinct(tasks)
  BY DEF QueueInv, TypeOK, NothingLost
<1>2. tasks' = [tasks EXCEPT ![i].claimedBy = a, ![i].age = 0]
  BY DEF Pull, Assign
<1>3. /\ DOMAIN tasks' = DOMAIN tasks
      /\ tasks' = [j \in DOMAIN tasks |-> tasks'[j]]
      /\ \A j \in DOMAIN tasks : tasks'[j] = IF j = i THEN [tasks[i] EXCEPT !.claimedBy = a, !.age = 0]
                                                      ELSE tasks[j]
  BY <1>1, <1>2
<1>4. \A j \in DOMAIN tasks : tasks'[j] \in Item /\ tasks'[j].id = tasks[j].id
  <2>1. tasks[i] \in Item
    BY <1>1
  <2>2. [tasks[i] EXCEPT !.claimedBy = a]
          = [id |-> tasks[i].id, claimedBy |-> a, age |-> tasks[i].age, delay |-> tasks[i].delay]
    BY <2>1 DEF Item
  <2>3. tasks'[i] = [id |-> tasks[i].id, claimedBy |-> a, age |-> 0, delay |-> tasks[i].delay]
    BY <1>3, <2>2
  <2>4. tasks'[i] \in Item /\ tasks'[i].id = tasks[i].id
    BY <2>1, <2>3, ConstantsAssumption DEF Item
  <2> QED BY <1>1, <1>3, <2>4
<1>5. tasks' \in Seq(Item) /\ Distinct(tasks') /\ IdsOf(tasks') = IdsOf(tasks)
  BY <1>1, <1>3, <1>4, RewriteIds
<1>6. sealing' \subseteq Ids \X Agents
  <2>1. tasks[i] \in Item
    BY <1>1
  <2>2. tasks[i].id \in Ids
    BY <2>1 DEF Item
  <2> QED BY <2>2 DEF Pull, QueueInv, TypeOK
<1> QED BY <1>5, <1>6, QuietStep DEF Pull, QueueInv, TypeOK, agentVars, keyVars, creditVars

LEMMA SealInv ==
    ASSUME QueueInv, NEW a \in Agents, NEW s \in Ids, Seal(a, s) \/ SealFails(a, s)
    PROVE  QueueInv' /\ Quiet
<1>1. envelopeKey' \in [Ids -> Agents \union {NoAgent}]
  BY DEF Seal, SealFails, QueueInv, TypeOK
<1>2. tasks \in Seq(Item) /\ Distinct(tasks) /\ sealing' \subseteq Ids \X Agents
  BY DEF Seal, SealFails, QueueInv, TypeOK, NothingLost
<1> QED BY <1>1, <1>2, QuietStep DEF Seal, SealFails, QueueInv, TypeOK, queueVars, agentVars, keyVars, creditVars

LEMMA ResultRefusedInv ==
    ASSUME QueueInv, NEW a \in Agents, NEW s \in Ids, ResultRefused(a, s) PROVE QueueInv' /\ Quiet
<1>1. envelopeKey' \in [Ids -> Agents \union {NoAgent}]
  BY DEF ResultRefused, ConsumeKey, QueueInv, TypeOK
<1>2. tasks \in Seq(Item) /\ Distinct(tasks)
  BY DEF QueueInv, TypeOK, NothingLost
<1> QED BY <1>1, <1>2, QuietStep DEF ResultRefused, QueueInv, TypeOK, queueVars, agentVars, keyVars, creditVars

LEMMA AccrueInv ==
    ASSUME QueueInv, NEW a \in Agents, NEW s \in Ids, Accrue(s, a) \/ AccrueFails(s, a) PROVE QueueInv'
<1> USE DEF Accrue, AccrueFails, queueVars, agentVars, keyVars
<1>1. /\ UNCHANGED <<subtasks, tasks, pending, completedOutputs, remote, projectCompleted,
                     capability, registered, blacklisted, envelopeKey, sealing>>
      /\ <<s, a>> \in accruing
      /\ accruing' = accruing \ {<<s, a>>}
      /\ rewards' = rewards \/ rewards' = [rewards EXCEPT ![s] = @ + 1]
  OBVIOUS
<1>2. rewards[s] = 0 /\ ~(s \notin Created \/ s \in pending \/ s \in Queued)
  BY <1>1 DEF QueueInv, TypeOK, OpenIsUnpaid, Unpaid, RewardedOnce
<1> HIDE DEF Accrue, AccrueFails, queueVars, agentVars, keyVars
<1>0. rewards \in [Ids -> Nat]
  BY DEF QueueInv, TypeOK
<1>3. rewards' \in [Ids -> Nat] /\ \A t \in Ids \ {s} : rewards'[t] = rewards[t]
  BY <1>0, <1>1
<1>4. rewards'[s] \in {0, 1}
  BY <1>0, <1>1, <1>2
<1>5. TypeOK'
  BY <1>1, <1>3 DEF QueueInv, TypeOK, Created, Queued
<1>6. NothingLost' /\ DependenciesFirst'
  BY <1>1 DEF QueueInv, NothingLost, DependenciesFirst, Created, Queued
<1>7. OpenIsUnpaid'
  BY <1>1, <1>2, <1>3 DEF QueueInv, OpenIsUnpaid, Unpaid, Created, Queued
<1>8. RewardedOnce'
  BY <1>1, <1>2, <1>3, <1>4 DEF QueueInv, TypeOK, RewardedOnce
<1> QED BY <1>5, <1>6, <1>7, <1>8 DEF QueueInv

LEMMA RemoteClaimedInv ==
    ASSUME QueueInv, NEW i \in DOMAIN tasks, RemoteClaimed(i)
    PROVE  QueueInv' /\ Queued' = Queued \ {tasks[i].id} /\ tasks[i].id \in Queued
<1> USE DEF RemoteClaimed, agentVars, keyVars, creditVars
<1>1. tasks \in Seq(Item) /\ Distinct(tasks)
  BY DEF QueueInv, TypeOK, NothingLost
<1>2. /\ tasks' \in Seq(Item) /\ Distinct(tasks')
      /\ IdsOf(tasks') = IdsOf(tasks) \ {tasks[i].id}
  BY <1>1, SpliceIds
<1>3. tasks[i].id \in Queued
  BY DEF Queued, IdsOf
<1>4. TypeOK'
  BY <1>2, <1>3 DEF QueueInv, TypeOK, Created, Queued
<1>5. NothingLost' /\ DependenciesFirst'
  BY <1>2, <1>3 DEF QueueInv, NothingLost, DependenciesFirst, Created, Queued
<1>6. OpenIsUnpaid' /\ RewardedOnce'
  BY <1>2 DEF QueueInv, OpenIsUnpaid, RewardedOnce, Unpaid, Created, Queued
<1>7. Queued' = Queued \ {tasks[i].id}
  BY <1>2 DEF Queued
<1> QED BY <1>3, <1>4, <1>5, <1>6, <1>7 DEF QueueInv

(* When every item survives, possibly rewritten, under its id and holder,  *)
(* the live claims are kept.                                               *)
LEMMA KeptInPlace ==
    ASSUME DOMAIN tasks \subseteq DOMAIN tasks',
           \A i \in DOMAIN tasks : tasks'[i].id = tasks[i].id,
           \A i \in DOMAIN tasks :
             (~Unclaimed(tasks[i]) /\ tasks[i].age <= ClaimTimeout)
                => tasks'[i].claimedBy = tasks[i].claimedBy
    PROVE  LeaseKept
BY DEF LeaseKept

(* Appending leaves the claimed items in place.                            *)
LEMMA SubmitInv ==
    ASSUME QueueInv, NEW r \in Requests, Submit(r)
    PROVE  /\ QueueInv' /\ LeaseKept
           /\ \E ids \in SUBSET (Ids \ Created) : \E held \in SUBSET ids :
                /\ Created' = Created \union ids
                /\ pending' = pending \union held
                /\ Queued' = Queued \union (ids \ held)
<1> DEFINE first == Len(subtasks)
           n == Len(r.parts)
           new == [ i \in 1..Len(r.parts) |->
                      [ project |-> r.project, priority |-> r.priority,
                        requestedModel |-> r.requestedModel, tenant |-> r.tenant,
                        delayed |-> r.delayed, big |-> r.parts[i].big,
                        dependsOn |-> r.parts[i].dependsOn ] ]
           ids == (first + 1)..(first + n)
           held == { s \in ids : r.parts[s - first].dependsOn # {} }
<1>1. /\ first + n <= MaxSubtasks
      /\ subtasks' = subtasks \o new
      /\ pending' = pending \union held
      /\ UNCHANGED << projectCompleted, completedOutputs, capability, registered,
                      blacklisted, envelopeKey, sealing, accruing, rewards, remote >>
  BY DEF Submit, agentVars, keyVars, creditVars
<1>2. PICK order \in InOrder((ids \ held) \ Queued) : tasks' = tasks \o NewItems(order, subtasks')
  BY DEF Submit
<1>3. /\ r \in Request /\ n \in Nat /\ first \in Nat
      /\ subtasks \in Seq(Subtask) /\ tasks \in Seq(Item) /\ Distinct(tasks)
      /\ \A i \in 1..n : r.parts[i] \in Parts
  BY ConstantsAssumption DEF QueueInv, TypeOK, NothingLost, Request
<1>4. \A i \in 1..n : new[i] \in Subtask
  BY <1>3 DEF Request, Parts, Subtask, Names, Ids
<1>5. new \in Seq(Subtask) /\ Len(new) = n
  <2>1. new \in [1..n -> Subtask]
    BY <1>4
  <2> HIDE DEF new
  <2> QED BY <1>3, <2>1
<1>6. /\ subtasks' \in Seq(Subtask)
      /\ Len(subtasks') = first + n
      /\ \A s \in 1..first : subtasks'[s] = subtasks[s]
      /\ \A i \in 1..n : subtasks'[first + i] = new[i]
  <2> HIDE DEF new
  <2>1. /\ subtasks \o new \in Seq(Subtask)
        /\ Len(subtasks \o new) = Len(subtasks) + Len(new)
        /\ \A i \in 1..(Len(subtasks) + Len(new)) :
             (subtasks \o new)[i] = IF i <= Len(subtasks) THEN subtasks[i]
                                                          ELSE new[i - Len(subtasks)]
    BY <1>3, <1>5, ConcatProperties
  <2>2. /\ \A s \in 1..Len(subtasks) : (subtasks \o new)[s] = subtasks[s]
        /\ \A i \in 1..Len(new) : (subtasks \o new)[Len(subtasks) + i] = new[i]
    BY <1>3, <1>5, <2>1
  <2> QED BY <1>1, <1>5, <2>1, <2>2
<1>7. \A s \in ids : subtasks'[s].dependsOn = r.parts[s - first].dependsOn
  <2> TAKE s \in ids
  <2>1. s - first \in 1..n /\ s = first + (s - first)
    BY <1>3
  <2>2. subtasks'[s] = new[s - first]
    BY <1>6, <2>1
  <2> QED BY <2>1, <2>2
<1>8. Created' = Created \union ids /\ ids \intersect Created = {} /\ ids \subseteq Ids
  BY <1>1, <1>3, <1>6, ConstantsAssumption DEF Created, Ids
<1>9. ids \intersect Queued = {} /\ ids \intersect pending = {} /\ Created \subseteq Ids
  BY <1>8, ConstantsAssumption DEF QueueInv, TypeOK, Created, Ids
<1>10. /\ tasks' \in Seq(Item) /\ Distinct(tasks')
       /\ Queued' = Queued \union (ids \ held)
       /\ \A k \in DOMAIN tasks : k \in DOMAIN tasks' /\ tasks'[k] = tasks[k]
  <2> DEFINE S == (ids \ held) \ Queued
  <2>1. S \in SUBSET Ids /\ S \intersect IdsOf(tasks) = {} /\ S = ids \ held
    BY <1>8, <1>9 DEF Queued
  <2>2. \A s \in S : subtasks'[s].delayed \in BOOLEAN
    <3>1. \A s \in 1..Len(subtasks') : subtasks'[s] \in Subtask
      BY <1>6
    <3> QED BY <1>3, <1>6, <3>1 DEF Subtask
  <2> HIDE DEF S
  <2>3. /\ tasks \o NewItems(order, subtasks') \in Seq(Item)
        /\ Distinct(tasks \o NewItems(order, subtasks'))
        /\ IdsOf(tasks \o NewItems(order, subtasks')) = IdsOf(tasks) \union S
        /\ \A k \in DOMAIN tasks : /\ k \in DOMAIN (tasks \o NewItems(order, subtasks'))
                                   /\ (tasks \o NewItems(order, subtasks'))[k] = tasks[k]
    <3>1. order \in InOrder(S)
      BY <1>2 DEF S
    <3> HIDE DEF ids, held
    <3> QED BY <1>3, <2>1, <2>2, <3>1, EnqueueIds
  <2> QED BY <1>2, <2>1, <2>3 DEF Queued
<1>11. held \subseteq ids
  OBVIOUS
<1>12. TypeOK'
  <2>1. pending' \subseteq Created' /\ Queued' \subseteq Created' /\ remote' \subseteq Created'
    BY <1>1, <1>8, <1>10, <1>11 DEF QueueInv, TypeOK
  <2> QED BY <1>1, <1>6, <1>10, <2>1 DEF QueueInv, TypeOK
<1>13. NothingLost'
  <2> HIDE DEF ids, held
  <2> QED BY <1>1, <1>8, <1>9, <1>10, <1>11 DEF QueueInv, NothingLost
<1>14. DependenciesFirst'
  <2>1. \A s \in Queued : subtasks'[s] = subtasks[s]
    BY <1>6 DEF QueueInv, TypeOK, Created
  <2>2. \A s \in ids \ held : subtasks'[s].dependsOn = {}
    BY <1>7
  <2> HIDE DEF ids, held
  <2> QED BY <1>1, <1>10, <2>1, <2>2 DEF QueueInv, DependenciesFirst
<1>15. OpenIsUnpaid'
  <2> HIDE DEF ids, held
  <2> QED BY <1>1, <1>8, <1>10, <1>11 DEF QueueInv, OpenIsUnpaid, Unpaid
<1>16. RewardedOnce'
  BY <1>1 DEF QueueInv, RewardedOnce
<1>17. LeaseKept
  BY <1>10, KeptInPlace
<1> HIDE DEF ids, held
<1> QED BY <1>1, <1>8, <1>10, <1>11, <1>12, <1>13, <1>14, <1>15, <1>16, <1>17 DEF QueueInv

LEMMA ResultInv ==
    ASSUME QueueInv, NEW a \in Agents, NEW s \in Names, NEW encrypted \in BOOLEAN,
           Result(a, s, encrypted)
    PROVE  /\ QueueInv' /\ LeaseKept
           /\ Queued' = (Queued \ {s}) \union Released(s) /\ Created' = Created
<1>1. /\ Complete(s)
      /\ completedOutputs' = completedOutputs \union {s}
      /\ pending' = pending \ Released(s)
      /\ accruing' = IF s \in Queued THEN accruing \union {<<s, a>>} ELSE accruing
      /\ UNCHANGED << subtasks, capability, registered, sealing, rewards, remote >>
      /\ blacklisted' \in { blacklisted, blacklisted \union {a} }
  BY DEF Result, EvaluateAndEnforce
<1>2. envelopeKey' \in [Ids -> Agents \union {NoAgent}]
  BY DEF Result, ConsumeKey, QueueInv, TypeOK
<1>3. /\ tasks \in Seq(Item) /\ Distinct(tasks)
      /\ Queued \subseteq Created /\ pending \subseteq Created /\ Created \subseteq Ids
      /\ pending \intersect Queued = {}
  BY ConstantsAssumption DEF QueueInv, TypeOK, NothingLost, Created, Ids
<1>4. Released(s) \subseteq pending
  BY DEF Released
<1>5. \A d \in Created : subtasks[d] \in Subtask /\ subtasks[d].delayed \in BOOLEAN
  <2>1. \A d \in Created : subtasks[d] \in Subtask
    BY DEF QueueInv, TypeOK, Created
  <2> QED BY <2>1 DEF Subtask
<1>6. /\ tasks' \in Seq(Item) /\ Distinct(tasks')
      /\ IdsOf(tasks') = (IdsOf(tasks) \ {s}) \union Released(s)
      /\ projectCompleted' \in [Projects -> Nat]
      /\ \A k \in DOMAIN tasks : tasks[k].id # s => \E j \in DOMAIN tasks' : tasks'[j] = tasks[k]
  <2>1. CASE s \in Queued
    <3>1. PICK i \in DOMAIN tasks :
             /\ tasks[i].id = s
             /\ projectCompleted' = [projectCompleted EXCEPT ![subtasks[s].project] = @ + 1]
             /\ \E order \in InOrder(Released(s) \ (Queued \ {s})) :
                  tasks' = Splice(tasks, i) \o NewItems(order, subtasks)
      BY <1>1, <2>1 DEF Complete
    <3>2. PICK order \in InOrder(Released(s) \ (Queued \ {s})) :
             tasks' = Splice(tasks, i) \o NewItems(order, subtasks)
      BY <3>1
    <3> DEFINE q == Splice(tasks, i)
               S == Released(s) \ (Queued \ {s})
    <3>3. /\ q \in Seq(Item) /\ Distinct(q) /\ IdsOf(q) = IdsOf(tasks) \ {s}
          /\ \A k \in DOMAIN tasks \ {i} : \E j \in DOMAIN q : q[j] = tasks[k]
      BY <1>3, <3>1, SpliceIds
    <3>4. /\ S = Released(s) /\ S \in SUBSET Ids /\ S \intersect IdsOf(q) = {}
          /\ \A d \in S : subtasks[d].delayed \in BOOLEAN
      BY <1>3, <1>4, <1>5, <3>3 DEF Queued
    <3>5. projectCompleted' \in [Projects -> Nat]
      <4>1. subtasks[s].project \in Projects /\ projectCompleted \in [Projects -> Nat]
        BY <1>3, <1>5, <2>1 DEF QueueInv, TypeOK, Subtask
      <4>2. projectCompleted[subtasks[s].project] + 1 \in Nat
        BY <4>1
      <4> QED BY <3>1, <4>1, <4>2
    <3> HIDE DEF q, S
    <3>6. /\ q \o NewItems(order, subtasks) \in Seq(Item)
          /\ Distinct(q \o NewItems(order, subtasks))
          /\ IdsOf(q \o NewItems(order, subtasks)) = IdsOf(q) \union S
          /\ \A j \in DOMAIN q : /\ j \in DOMAIN (q \o NewItems(order, subtasks))
                                 /\ (q \o NewItems(order, subtasks))[j] = q[j]
      BY <3>2, <3>3, <3>4, EnqueueIds DEF S
    <3>7. \A k \in DOMAIN tasks : tasks[k].id # s => \E j \in DOMAIN tasks' : tasks'[j] = tasks[k]
      BY <3>1, <3>2, <3>3, <3>6 DEF q
    <3> QED BY <3>2, <3>3, <3>4, <3>5, <3>6, <3>7 DEF q
  <2>2. CASE s \notin Queued
    <3>1. PICK order \in InOrder(Released(s) \ Queued) :
             tasks' = tasks \o NewItems(order, subtasks)
      BY <1>1, <2>2 DEF Complete
    <3>2. projectCompleted' \in [Projects -> Nat]
      BY <1>1, <2>2 DEF Complete, QueueInv, TypeOK
    <3> DEFINE S == Released(s) \ Queued
    <3>3. /\ S = Released(s) /\ S \in SUBSET Ids /\ S \intersect IdsOf(tasks) = {}
          /\ \A d \in S : subtasks[d].delayed \in BOOLEAN
      BY <1>3, <1>4, <1>5 DEF Queued
    <3> HIDE DEF S
    <3>4. /\ tasks \o NewItems(order, subtasks) \in Seq(Item)
          /\ Distinct(tasks \o NewItems(order, subtasks))
          /\ IdsOf(tasks \o NewItems(order, subtasks)) = IdsOf(tasks) \union S
          /\ \A j \in DOMAIN tasks : /\ j \in DOMAIN (tasks \o NewItems(order, subtasks))
                                     /\ (tasks \o NewItems(order, subtasks))[j] = tasks[j]
      BY <1>3, <3>1, <3>3, EnqueueIds DEF S
    <3> QED BY <2>2, <3>1, <3>2, <3>3, <3>4 DEF Queued
  <2> QED BY <2>1, <2>2
<1>7. Queued' = (Queued \ {s}) \union Released(s) /\ Created' = Created
  BY <1>1, <1>6 DEF Queued, Created
<1>8. TypeOK'
  <2>1. pending' \subseteq Created' /\ Queued' \subseteq Created'
    BY <1>1, <1>3, <1>4, <1>7
  <2>2. accruing' \subseteq Ids \X Agents
    BY <1>1, <1>3 DEF QueueInv, TypeOK
  <2> QED BY <1>1, <1>2, <1>6, <1>7, <2>1, <2>2 DEF QueueInv, TypeOK
<1>9. NothingLost'
  BY <1>1, <1>3, <1>4, <1>6, <1>7 DEF QueueInv, NothingLost
<1>10. DependenciesFirst'
  BY <1>1, <1>7 DEF QueueInv, DependenciesFirst, Released
<1>11. s \in Queued => s \in Ids /\ Unpaid(s) /\ s \notin Queued' /\ s \notin pending' /\ s \in Created
  BY <1>1, <1>3, <1>4, <1>7 DEF QueueInv, OpenIsUnpaid
<1>12. OpenIsUnpaid'
  BY <1>1, <1>3, <1>4, <1>7, <1>11 DEF QueueInv, OpenIsUnpaid, Unpaid
<1>13. RewardedOnce'
  BY <1>1, <1>11 DEF QueueInv, RewardedOnce, Unpaid
<1>14. LeaseKept
  BY <1>1, <1>6 DEF LeaseKept
<1> QED BY <1>7, <1>8, <1>9, <1>10, <1>12, <1>13, <1>14 DEF QueueInv

-----------------------------------------------------------------------------
LEMMA NextInv == QueueInv /\ [Next]_vars => QueueInv'
<1> SUFFICES ASSUME QueueInv, [Next]_vars PROVE QueueInv'
  OBVIOUS
<1>1. ASSUME NEW r \in Requests, Submit(r) PROVE QueueInv'
  BY <1>1, SubmitInv
<1>2. ASSUME NEW a \in Agents, Register(a) \/ Heartbeat(a) \/ Blacklist(a) PROVE QueueInv'
  BY <1>2, RegisterInv, HeartbeatInv, BlacklistInv
<1>3. ASSUME NEW a \in Agents, NEW i \in DOMAIN tasks, Pull(a, i) PROVE QueueInv'
  BY <1>3, PullInv
<1>4. ASSUME NEW a \in Agents, NEW s \in Names, NEW encrypted \in BOOLEAN,
             Result(a, s, encrypted)
      PROVE  QueueInv'
  BY <1>4, ResultInv
<1>5. ASSUME NEW a \in Agents, NEW s \in Ids,
             \/ ResultRefused(a, s) \/ Seal(a, s) \/ SealFails(a, s)
             \/ Accrue(s, a) \/ AccrueFails(s, a)
      PROVE  QueueInv'
  BY <1>5, ResultRefusedInv, SealInv, AccrueInv
<1>6. ASSUME NEW i \in DOMAIN tasks, RemoteClaimed(i) PROVE QueueInv'
  BY <1>6, RemoteClaimedInv
<1>7. ASSUME Tick PROVE QueueInv'
  BY <1>7, TickInv
<1>8. ASSUME UNCHANGED vars PROVE QueueInv'
  <2>1. tasks \in Seq(Item) /\ Distinct(tasks)
    BY DEF QueueInv, TypeOK, NothingLost
  <2> QED BY <1>8, <2>1, QuietStep DEF vars, QueueInv, TypeOK
<1> QED BY <1>1, <1>2, <1>3, <1>4, <1>5, <1>6, <1>7, <1>8 DEF Next

(* The inductive invariant holds in every reachable state.                 *)
THEOREM Invariance == Spec => []QueueInv
BY InitInv, NextInv, PTL DEF Spec

(* Type correctness of the coordinator's queue state, for all constants.   *)
THEOREM TypeCorrect == Spec => []TypeOK
<1>1. QueueInv => TypeOK
  BY DEF QueueInv
<1> QED BY <1>1, Invariance, PTL

(* /result pays for a subtask at most once, whatever the workers send.     *)
THEOREM PaysOnce == Spec => []RewardedOnce
<1>1. QueueInv => RewardedOnce
  BY DEF QueueInv
<1> QED BY <1>1, Invariance, PTL

(* Requeueing, releasing and completing lose and duplicate no subtask.     *)
THEOREM LosesNothing == Spec => []NothingLost
<1>1. QueueInv => NothingLost
  BY DEF QueueInv
<1> QED BY <1>1, Invariance, PTL

(* No subtask is claimable before its dependencies have results.           *)
THEOREM HoldsBack == Spec => []DependenciesFirst
<1>1. QueueInv => DependenciesFirst
  BY DEF QueueInv
<1> QED BY <1>1, Invariance, PTL

-----------------------------------------------------------------------------
LEMMA PullKeepsLease ==
    ASSUME QueueInv, NEW a \in Agents, NEW i \in DOMAIN tasks, Pull(a, i)
    PROVE  LeaseKept
<1>1. tasks \in Seq(Item)
  BY DEF QueueInv, TypeOK
<1>2. Unclaimed(tasks[i]) /\ tasks' = [tasks EXCEPT ![i].claimedBy = a, ![i].age = 0]
  BY DEF Pull, Assign, Claims, Pool, Eligible
<1>3. /\ DOMAIN tasks' = DOMAIN tasks
      /\ \A j \in DOMAIN tasks \ {i} : tasks'[j] = tasks[j]
  BY <1>1, <1>2
<1>4. tasks'[i].id = tasks[i].id
  <2>1. tasks[i] \in Item
    BY <1>1
  <2>2. [tasks[i] EXCEPT !.claimedBy = a]
          = [id |-> tasks[i].id, claimedBy |-> a, age |-> tasks[i].age, delay |-> tasks[i].delay]
    BY <2>1 DEF Item
  <2> QED BY <1>1, <1>2, <2>1, <2>2
<1> QED BY <1>2, <1>3, <1>4, KeptInPlace

LEMMA RewriteKeepsLease ==
    ASSUME QueueInv, Tick \/ \E a \in Agents : Heartbeat(a) PROVE LeaseKept
<1>1. \A i \in DOMAIN tasks : tasks[i] \in Item
  BY DEF QueueInv, TypeOK
<1>2. CASE Tick
  <2>1. DOMAIN tasks' = DOMAIN tasks /\ \A i \in DOMAIN tasks : tasks'[i] = Older(tasks[i])
    BY <1>2 DEF Tick
  <2>2. \A i \in DOMAIN tasks : tasks'[i].id = tasks[i].id /\ tasks'[i].claimedBy = tasks[i].claimedBy
    BY <1>1, <2>1, OlderItem
  <2> QED BY <2>1, <2>2, KeptInPlace
<1>3. ASSUME NEW a \in Agents, Heartbeat(a) PROVE LeaseKept
  <2>1. /\ DOMAIN tasks' = DOMAIN tasks
        /\ \A i \in DOMAIN tasks : tasks'[i] = IF Stale(tasks[i]) THEN Cleared(tasks[i]) ELSE tasks[i]
    BY <1>3 DEF Heartbeat, RequeueStale
  <2>2. \A i \in DOMAIN tasks : tasks'[i].id = tasks[i].id
    BY <1>1, <2>1, ClearedItem
  <2>3. \A i \in DOMAIN tasks : tasks[i].age <= ClaimTimeout => ~Stale(tasks[i])
    BY <1>1, ConstantsAssumption DEF Stale, Item
  <2> QED BY <2>1, <2>2, <2>3, KeptInPlace
<1> QED BY <1>2, <1>3

LEMMA RemoteClaimedKeepsLease ==
    ASSUME QueueInv, NEW i \in DOMAIN tasks, RemoteClaimed(i) PROVE LeaseKept
<1>1. /\ tasks \in Seq(Item) /\ Distinct(tasks)
      /\ Unclaimed(tasks[i]) /\ tasks' = Splice(tasks, i)
  BY DEF QueueInv, TypeOK, NothingLost, RemoteClaimed
<1>2. \A k \in DOMAIN tasks \ {i} : \E j \in DOMAIN tasks' : tasks'[j] = tasks[k]
  BY <1>1, SpliceIds
<1> QED BY <1>1, <1>2 DEF LeaseKept

(* While a claim is fresh only its holder, or a result, can end it.        *)
THEOREM LeasesAreHonoured == Spec => LeaseHonoured
<1>1. ASSUME QueueInv, Next PROVE LeaseKept
  <2>1. ASSUME NEW r \in Requests, Submit(r) PROVE LeaseKept
    BY <1>1, <2>1, SubmitInv
  <2>2. ASSUME NEW a \in Agents, NEW s \in Names, NEW encrypted \in BOOLEAN,
               Result(a, s, encrypted)
        PROVE  LeaseKept
    BY <1>1, <2>2, ResultInv
  <2>3. ASSUME NEW a \in Agents, NEW i \in DOMAIN tasks, Pull(a, i)
        PROVE  LeaseKept
    BY <1>1, <2>3, PullKeepsLease
  <2>4. ASSUME NEW i \in DOMAIN tasks, RemoteClaimed(i) PROVE LeaseKept
    BY <1>1, <2>4, RemoteClaimedKeepsLease
  <2>5. ASSUME Tick \/ \E a \in Agents : Heartbeat(a) PROVE LeaseKept
    BY <1>1, <2>5, RewriteKeepsLease
  <2>6. ASSUME UNCHANGED tasks PROVE LeaseKept
    BY <2>6, KeptInPlace
  <2>7. ASSUME NEW a \in Agents, Register(a) \/ Blacklist(a) PROVE UNCHANGED tasks
    BY <2>7 DEF Register, Blacklist, queueVars
  <2>8. ASSUME NEW a \in Agents, NEW s \in Ids,
               \/ ResultRefused(a, s) \/ Seal(a, s) \/ SealFails(a, s)
               \/ Accrue(s, a) \/ AccrueFails(s, a)
        PROVE  UNCHANGED tasks
    BY <2>8 DEF ResultRefused, Seal, SealFails, Accrue, AccrueFails, queueVars
  <2> QED BY <1>1, <2>1, <2>2, <2>3, <2>4, <2>5, <2>6, <2>7, <2>8 DEF Next
<1>2. QueueInv /\ [Next]_vars => [LeaseKept]_vars
  BY <1>1
<1> QED BY <1>2, Invariance, PTL DEF Spec, LeaseHonoured

-----------------------------------------------------------------------------
(* SwarmQueue implements SubtaskLife: one lemma for each kind of step that *)
(* is visible there; all other handlers are quiet.                         *)
Due == { s \in Ids : \E a \in Agents : <<s, a>> \in accruing }
Closed == Created \ (pending \union Queued)

LEMMA QuietLife == ASSUME Quiet PROVE UNCHANGED Life!lifeVars
BY DEF Quiet, Life!lifeVars, Created

LEMMA SubmitLife == ASSUME QueueInv, NEW r \in Requests, Submit(r) PROVE Life!LifeNext
<1>1. PICK ids \in SUBSET (Ids \ Created) : \E held \in SUBSET ids :
        /\ Created' = Created \union ids
        /\ pending' = pending \union held
        /\ Queued' = Queued \union (ids \ held)
  BY SubmitInv
<1>2. PICK held \in SUBSET ids :
        /\ Created' = Created \union ids
        /\ pending' = pending \union held
        /\ Queued' = Queued \union (ids \ held)
  BY <1>1
<1>3. pending \subseteq Created /\ Queued \subseteq Created
  BY DEF QueueInv, TypeOK
<1>4. Closed' = Closed /\ Due' = Due /\ rewards' = rewards
  BY <1>1, <1>2, <1>3 DEF Closed, Due, Submit, creditVars
<1>5. Life!Accept(held, ids \ held)
  BY <1>2, <1>4 DEF Life!Accept, Closed, Due
<1>6. held \in SUBSET Life!Unknown /\ ids \ held \in SUBSET (Life!Unknown \ held)
  BY <1>1, <1>2, <1>3 DEF Life!Unknown
<1> QED BY <1>5, <1>6 DEF Life!LifeNext

LEMMA ResultLife ==
    ASSUME QueueInv, NEW a \in Agents, NEW s \in Names, NEW encrypted \in BOOLEAN,
           Result(a, s, encrypted)
    PROVE  Life!LifeNext
<1>1. /\ Queued' = (Queued \ {s}) \union Released(s) /\ Created' = Created
      /\ pending' = pending \ Released(s) /\ rewards' = rewards
      /\ accruing' = IF s \in Queued THEN accruing \union {<<s, a>>} ELSE accruing
  BY ResultInv DEF Result
<1>2. /\ Released(s) \in SUBSET pending
      /\ pending \intersect Queued = {} /\ Queued \subseteq Created /\ Created \subseteq Ids
      /\ pending \subseteq Created
  BY ConstantsAssumption DEF Released, QueueInv, TypeOK, NothingLost, Created, Ids
<1>3. CASE s \in Queued
  <2>1. Closed' = Closed \union {s}
    BY <1>1, <1>2, <1>3 DEF Closed
  <2>2. Due' = Due \union {s}
    BY <1>1, <1>2, <1>3 DEF Due
  <2>3. PICK R : R = Released(s)
    OBVIOUS
  <2>4. Life!Finish(s, R)
    BY <1>1, <2>1, <2>2, <2>3 DEF Life!Finish, Closed, Due
  <2> QED BY <1>2, <1>3, <2>3, <2>4 DEF Life!LifeNext
<1>4. CASE s \notin Queued
  <2>1. Closed' = Closed /\ Due' = Due
    BY <1>1, <1>2, <1>4 DEF Closed, Due
  <2>2. Queued' = Queued \union Released(s)
    BY <1>1, <1>4
  <2>3. Life!Release(Released(s))
    BY <1>1, <2>1, <2>2 DEF Life!Release, Closed, Due
  <2> QED BY <1>2, <2>3 DEF Life!LifeNext
<1> QED BY <1>3, <1>4

LEMMA RemoteClaimedLife ==
    ASSUME QueueInv, NEW i \in DOMAIN tasks, RemoteClaimed(i) PROVE Life!LifeNext
<1>1. Queued' = Queued \ {tasks[i].id} /\ tasks[i].id \in Queued
  BY RemoteClaimedInv
<1>2. UNCHANGED << subtasks, pending, accruing, rewards >>
  BY DEF RemoteClaimed, creditVars
<1>3. Queued \subseteq Created /\ pending \intersect Queued = {} /\ Created' = Created
  BY <1>2 DEF QueueInv, TypeOK, NothingLost, Created
<1>4. Closed' = Closed \union {tasks[i].id}
  BY <1>1, <1>2, <1>3 DEF Closed
<1>5. Life!GiveUp(tasks[i].id)
  BY <1>1, <1>2, <1>4 DEF Life!GiveUp, Closed
<1> QED BY <1>1, <1>5 DEF Life!LifeNext

(* Only one /result handler is about to pay for a subtask, so the reward   *)
(* is no longer due when it ends.                                          *)
LEMMA AccrueLife ==
    ASSUME QueueInv, NEW a \in Agents, NEW s \in Ids, Accrue(s, a) \/ AccrueFails(s, a)
    PROVE  Life!LifeNext
<1>1. /\ <<s, a>> \in accruing /\ accruing' = accruing \ {<<s, a>>}
      /\ UNCHANGED << subtasks, tasks, pending >>
      /\ rewards' = rewards \/ rewards' = [rewards EXCEPT ![s] = @ + 1]
  BY DEF Accrue, AccrueFails, queueVars
<1>2. \A b \in Agents : <<s, b>> \in accruing => b = a
  BY <1>1 DEF QueueInv, RewardedOnce
<1>3. s \in Due /\ Due' = Due \ {s}
  BY <1>1, <1>2 DEF Due
<1>4. Queued' = Queued /\ Created' = Created
  BY <1>1 DEF Queued, Created
<1>5. Life!Reward(s) \/ Life!LoseReward(s)
  BY <1>1, <1>3, <1>4 DEF Life!Reward, Life!LoseReward, Due
<1> QED BY <1>3, <1>5 DEF Life!LifeNext, Due

(* The coordinator's queue implements the life of a subtask.               *)
THEOREM QueueImplementsLife == Spec => LivesOnce
<1>1. Init => Life!LifeInit
  <2> SUFFICES ASSUME Init PROVE Life!LifeInit
    OBVIOUS
  <2>1. Queued = {} /\ Created = {}
    BY DEF Init, Queued, IdsOf, Created
  <2> QED BY <2>1 DEF Init, Life!LifeInit
<1>2. QueueInv /\ [Next]_vars => [Life!LifeNext]_(Life!lifeVars)
  <2> SUFFICES ASSUME QueueInv, [Next]_vars PROVE Life!LifeNext \/ UNCHANGED Life!lifeVars
    OBVIOUS
  <2>1. ASSUME NEW r \in Requests, Submit(r) PROVE Life!LifeNext
    BY <2>1, SubmitLife
  <2>2. ASSUME NEW a \in Agents, Register(a) \/ Heartbeat(a) \/ Blacklist(a) PROVE Quiet
    BY <2>2, RegisterInv, HeartbeatInv, BlacklistInv
  <2>3. ASSUME NEW a \in Agents, NEW i \in DOMAIN tasks, Pull(a, i) PROVE Quiet
    BY <2>3, PullInv
  <2>4. ASSUME NEW a \in Agents, NEW s \in Names, NEW encrypted \in BOOLEAN,
               Result(a, s, encrypted)
        PROVE  Life!LifeNext
    BY <2>4, ResultLife
  <2>5. ASSUME NEW a \in Agents, NEW s \in Ids, ResultRefused(a, s) \/ Seal(a, s) \/ SealFails(a, s)
        PROVE  Quiet
    BY <2>5, ResultRefusedInv, SealInv
  <2>6. ASSUME NEW a \in Agents, NEW s \in Ids, Accrue(s, a) \/ AccrueFails(s, a)
        PROVE  Life!LifeNext
    BY <2>6, AccrueLife
  <2>7. ASSUME NEW i \in DOMAIN tasks, RemoteClaimed(i) PROVE Life!LifeNext
    BY <2>7, RemoteClaimedLife
  <2>8. ASSUME Tick PROVE Quiet
    BY <2>8, TickInv
  <2>9. ASSUME UNCHANGED vars PROVE Quiet
    BY <2>9 DEF vars, Quiet, Queued, IdsOf
  <2> QED BY <2>1, <2>2, <2>3, <2>4, <2>5, <2>6, <2>7, <2>8, <2>9, QuietLife DEF Next
<1> QED BY <1>1, <1>2, Invariance, PTL DEF Spec, LivesOnce, Life!LifeSpec

-----------------------------------------------------------------------------
(***************************************************************************)
(* Workers. SwarmWork puts a crashing, retrying worker and a network that  *)
(* loses calls around the coordinator, and nothing they do gets past what  *)
(* SwarmQueue allows an agent to do: every step of the composition is a    *)
(* step of SwarmQueue or leaves its variables alone. It takes an invariant *)
(* of the workers: what they post, buffer and wait for is a subtask. So    *)
(* the composition keeps every promise of the queue.                       *)
(***************************************************************************)
(* A worker in one of these has a subtask at hand.                         *)
Busy == {"waiting", "running", "posting"}

(* A result under way, or in the buffer, is of a subtask.                  *)
Sent == [ id : Ids, seal : {"plain", "sealed", "obsolete"} ]

(* What a worker has is a subtask, and so is what it buffers.              *)
WorkersInv ==
    /\ phase \in [Agents -> Phases]
    /\ current \in [Agents -> Payload]
    /\ \A a \in Agents : phase[a] \in Busy => current[a].id \in Ids
    /\ buffer \in [Agents -> Seq(Sent)]

(* Which subtask a payload is of does not change when its key does.        *)
LEMMA OutdateKeepsId ==
    ASSUME NEW p \in Payload, NEW s
    PROVE  /\ Outdate(p, s) \in Payload /\ Outdate(p, s).id = p.id
           /\ p \in Sent => Outdate(p, s) \in Sent
BY DEF Outdate, Payload, Sent

(* A new envelope leaves results in the buffers.                           *)
LEMMA OutdateBuffersType ==
    ASSUME WorkersInv, NEW s, OutdateBuffers(s) PROVE buffer' \in [Agents -> Seq(Sent)]
<1> SUFFICES ASSUME NEW b \in Agents
             PROVE  [k \in DOMAIN buffer[b] |-> Outdate(buffer[b][k], s)] \in Seq(Sent)
  BY DEF OutdateBuffers
<1>1. PICK q \in Seq(Sent) : q = buffer[b]
  BY DEF WorkersInv
<1>2. \A k \in DOMAIN q : Outdate(q[k], s) \in Sent
  <2> TAKE k \in DOMAIN q
  <2>1. q[k] \in Sent
    OBVIOUS
  <2>2. q[k] \in Payload
    BY <2>1 DEF Sent, Payload
  <2> QED BY <2>1, <2>2, OutdateKeepsId
<1>3. [k \in DOMAIN q |-> Outdate(q[k], s)] \in Seq(Sent)
  BY <1>2
<1> QED BY <1>1, <1>3

(* So does putting a result into a buffer.                                 *)
LEMMA BufferedType ==
    ASSUME NEW q \in Seq(Sent), NEW p \in Sent PROVE Buffered(q, p) \in Seq(Sent)
<1>1. CASE Rows(q, p) = {}
  BY <1>1 DEF Buffered
<1>2. CASE Rows(q, p) # {}
  <2>1. PICK k \in DOMAIN q : Buffered(q, p) = Append(Splice(q, k), p)
    BY <1>2 DEF Buffered, Rows
  <2>2. Splice(q, k) \in Seq(Sent)
    BY DEF Splice
  <2> QED BY <2>1, <2>2
<1> QED BY <1>1, <1>2

(* Subtasks, payloads and results.                                         *)
LEMMA WorkTypes ==
    /\ Ids \subseteq Names
    /\ NoPayload \in Payload
    /\ Sent \subseteq Payload
    /\ \A p \in Payload : p.id \in Ids => p \in Sent
BY DEF Names, NoPayload, Payload, Sent

(* A worker's call that is handled is a step of the coordinator.           *)
LEMMA DeliverIsResult ==
    ASSUME NEW a \in Agents, NEW p \in Sent, Deliver(a, p) PROVE Next
<1>1. p.id \in Names
  BY WorkTypes DEF Sent
<1>2. CASE p.seal = "sealed"
  <2>1. Result(a, p.id, TRUE)
    BY <1>2 DEF Deliver, Result, Decrypts, ConsumeKey
  <2> QED BY <1>1, <2>1 DEF Next
<1>3. CASE p.seal # "sealed"
  <2>1. Result(a, p.id, FALSE)
    BY <1>3 DEF Deliver, Result, Decrypts, ConsumeKey
  <2> QED BY <1>1, <2>1 DEF Next
<1> QED BY <1>2, <1>3

(* A worker that gives up what it has, starts over; one that goes on has   *)
(* what it had.                                                            *)
LEMMA FreedWorker ==
    ASSUME WorkersInv, NEW a \in Agents, Goto(a, "register"),
           current' = [current EXCEPT ![a] = NoPayload] \/ current' = current,
           buffer' \in [Agents -> Seq(Sent)]
    PROVE  WorkersInv'
BY WorkTypes DEF WorkersInv, Goto, Phases, Busy

LEMMA MovedWorker ==
    ASSUME WorkersInv, NEW a \in Agents, NEW p \in Phases, Goto(a, p),
           p \in Busy => phase[a] \in Busy,
           UNCHANGED << current, buffer >>
    PROVE  WorkersInv'
BY DEF WorkersInv, Goto, Busy

LEMMA WorkersStay ==
    ASSUME WorkersInv, UNCHANGED << phase, current >>, buffer' \in [Agents -> Seq(Sent)]
    PROVE  WorkersInv'
BY DEF WorkersInv

(* Registering, heartbeats, calls that fail, and running.                  *)
LEMMA CallStep ==
    ASSUME QueueInv, WorkersInv, NEW a \in Agents,
           \/ WRegister(a) \/ WHeartbeat(a) \/ WCallLost(a)
           \/ WPullUnanswered(a) \/ WPullNothing(a) \/ WRun(a) \/ WCrash(a)
    PROVE  [Next]_vars /\ WorkersInv'
<1> USE DEF Phases, Busy
<1>10. buffer \in [Agents -> Seq(Sent)]
  BY DEF WorkersInv
<1>1. CASE WRegister(a)
  <2>1. Next
    BY <1>1 DEF WRegister, Next
  <2>2. WorkersInv'
    BY <1>1, MovedWorker DEF WRegister
  <2> QED BY <2>1, <2>2
<1>2. CASE WHeartbeat(a)
  <2>1. Next
    BY <1>2 DEF WHeartbeat, Next
  <2>2. WorkersInv'
    BY <1>2, MovedWorker DEF WHeartbeat
  <2> QED BY <2>1, <2>2
<1>3. CASE WCallLost(a)
  BY <1>10, <1>3, FreedWorker DEF WCallLost, CallFails
<1>4. CASE WPullUnanswered(a)
  <2>1. WorkersInv'
    BY <1>10, <1>4, FreedWorker DEF WPullUnanswered, CallFails
  <2>2. CASE \E i \in DOMAIN tasks : Pull(a, i)
    BY <2>1, <2>2 DEF Next
  <2>3. CASE UNCHANGED vars
    BY <2>1, <2>3
  <2>4. CASE phase[a] = "waiting" /\ SealFails(a, current[a].id)
    BY <2>1, <2>4 DEF Next, WorkersInv
  <2> QED BY <1>4, <2>1, <2>2, <2>3, <2>4 DEF WPullUnanswered
<1>5. CASE WPullNothing(a)
  BY <1>10, <1>5, FreedWorker DEF WPullNothing
<1>6. CASE WRun(a)
  BY <1>6, MovedWorker DEF WRun
<1>7. CASE WCrash(a)
  BY <1>10, <1>7, FreedWorker DEF WCrash
<1> QED BY <1>1, <1>2, <1>3, <1>4, <1>5, <1>6, <1>7

(* A worker gets a task, in the clear or in an envelope.                   *)
LEMMA TaskStep ==
    ASSUME QueueInv, WorkersInv, NEW a \in Agents, WPull(a) \/ WEnvelope(a)
    PROVE  Next /\ WorkersInv'
<1>1. CASE WPull(a)
  <2>1. PICK i \in DOMAIN tasks :
          Pull(a, i) /\ current' = [current EXCEPT ![a] = [id |-> tasks[i].id, seal |-> "plain"]]
    BY <1>1 DEF WPull
  <2>2. tasks[i].id \in Ids
    <3>1. tasks \in Seq(Item)
      BY DEF QueueInv, TypeOK
    <3>2. tasks[i] \in Item
      BY <3>1
    <3> QED BY <3>2 DEF Item
  <2>3. current'[a].id \in Ids /\ current' \in [Agents -> Payload]
    BY <2>1, <2>2 DEF WorkersInv, Payload
  <2>4. WorkersInv'
    BY <1>1, <2>1, <2>3 DEF WPull, WorkersInv, Goto, Phases, Busy
  <2> QED BY <2>1, <2>4 DEF Next
<1>2. CASE WEnvelope(a)
  <2> DEFINE s == current[a].id
  <2>1. s \in Ids /\ Seal(a, s) /\ OutdateBuffers(s)
    BY <1>2 DEF WEnvelope, NewEnvelope, WorkersInv, Busy
  <2> HIDE DEF s
  <2>2. current' = [b \in Agents |-> IF b = a THEN [id |-> s, seal |-> "sealed"] ELSE Outdate(current[b], s)]
    BY <1>2 DEF WEnvelope, s
  <2>3. \A b \in Agents : current'[b] \in Payload /\ current'[b].id = current[b].id
    BY <2>1, <2>2, OutdateKeepsId DEF WorkersInv, Payload, s
  <2>4. buffer' \in [Agents -> Seq(Sent)]
    BY <2>1, OutdateBuffersType
  <2>5. WorkersInv'
    <3>1. current' \in [Agents -> Payload]
      BY <2>2, <2>3
    <3> QED BY <1>2, <2>3, <2>4, <3>1 DEF WEnvelope, WorkersInv, Goto, Phases, Busy
  <2> QED BY <2>1, <2>5 DEF Next
<1> QED BY <1>1, <1>2

(* A worker posts a result, keeps it, or flushes its buffer.               *)
LEMMA ResultStep ==
    ASSUME WorkersInv, NEW a \in Agents,
           \/ WPost(a) \/ WPostUnanswered(a) \/ WPostFails(a)
           \/ WFlushDone(a) \/ WFlushHead(a) \/ WFlushStops(a)
    PROVE  [Next]_vars /\ WorkersInv'
<1>10. buffer \in [Agents -> Seq(Sent)]
  BY DEF WorkersInv
<1>11. phase[a] = "posting" => current[a] \in Sent
  BY WorkTypes DEF WorkersInv, Busy
<1>1. CASE WPost(a)
  BY <1>10, <1>11, <1>1, DeliverIsResult, FreedWorker DEF WPost
<1>2. ASSUME phase[a] = "posting", KeepForRetry(a) PROVE WorkersInv'
  <2>1. buffer' \in [Agents -> Seq(Sent)]
    BY <1>10, <1>11, <1>2, BufferedType DEF KeepForRetry
  <2> QED BY <1>2, <2>1, FreedWorker DEF KeepForRetry
<1>3. CASE WPostUnanswered(a)
  BY <1>11, <1>2, <1>3, DeliverIsResult DEF WPostUnanswered
<1>4. CASE WPostFails(a)
  BY <1>2, <1>4 DEF WPostFails
<1>5. CASE WFlushDone(a) \/ WFlushStops(a)
  BY <1>10, <1>5, FreedWorker DEF WFlushDone, WFlushStops
<1>6. CASE WFlushHead(a)
  <2>1. buffer[a] \in Seq(Sent) /\ buffer[a] # << >>
    BY <1>10, <1>6 DEF WFlushHead
  <2>2. Head(buffer[a]) \in Sent /\ Tail(buffer[a]) \in Seq(Sent)
    BY <2>1
  <2>3. buffer' \in [Agents -> Seq(Sent)]
    BY <1>10, <1>6, <2>2 DEF WFlushHead
  <2> QED BY <1>6, <2>2, <2>3, DeliverIsResult, WorkersStay DEF WFlushHead
<1> QED BY <1>1, <1>3, <1>4, <1>5, <1>6

(* A handler whose worker has gone ends.                                   *)
LEMMA OrphanStep ==
    ASSUME WorkersInv, NEW a \in Agents, NEW s \in Ids, SealOrphan(a, s) \/ SealOrphanFails(a, s)
    PROVE  Next /\ WorkersInv'
<1>1. CASE SealOrphan(a, s)
  <2>1. Seal(a, s) /\ OutdateBuffers(s) /\ current' = [b \in Agents |-> Outdate(current[b], s)] /\ phase' = phase
    BY <1>1 DEF SealOrphan, NewEnvelope
  <2>2. \A b \in Agents : current'[b] \in Payload /\ current'[b].id = current[b].id
    BY <2>1, OutdateKeepsId DEF WorkersInv
  <2>3. current' \in [Agents -> Payload]
    BY <2>1, <2>2
  <2>4. buffer' \in [Agents -> Seq(Sent)]
    BY <2>1, OutdateBuffersType
  <2>5. WorkersInv'
    BY <2>1, <2>2, <2>3, <2>4 DEF WorkersInv
  <2> QED BY <2>1, <2>5 DEF Next
<1>2. CASE SealOrphanFails(a, s)
  <2>1. WorkersInv'
    BY <1>2 DEF SealOrphanFails, workerVars, WorkersInv
  <2> QED BY <1>2, <2>1 DEF SealOrphanFails, Next
<1> QED BY <1>1, <1>2

(* Every step of workers and coordinator is one of the coordinator alone,  *)
(* or leaves it as it is.                                                  *)
LEMMA WorkStep == QueueInv /\ WorkersInv /\ [WorkNext]_workVars => [Next]_vars /\ WorkersInv'
<1> SUFFICES ASSUME QueueInv, WorkersInv, [WorkNext]_workVars PROVE [Next]_vars /\ WorkersInv'
  OBVIOUS
<1>1. CASE Coordinator
  <2>1. WorkersInv'
    BY <1>1 DEF Coordinator, workerVars, WorkersInv
  <2> QED BY <1>1, <2>1 DEF Coordinator, Next
<1>2. CASE Orphans
  BY <1>2, OrphanStep DEF Orphans
<1>3. ASSUME NEW a \in Agents, Worker(a) PROVE [Next]_vars /\ WorkersInv'
  BY <1>3, CallStep, TaskStep, ResultStep DEF Worker
<1>4. CASE UNCHANGED workVars
  BY <1>4 DEF workVars, workerVars, WorkersInv
<1> QED BY <1>1, <1>2, <1>3, <1>4 DEF WorkNext

(* Workers that register, pull, run, post and flush over calls that get    *)
(* lost drive the coordinator through steps of SwarmQueue only.            *)
THEOREM WorkImplementsQueue == WorkSpec => Spec
<1>1. WorkInit => Init /\ QueueInv /\ WorkersInv
  <2> SUFFICES ASSUME WorkInit PROVE WorkersInv
    BY InitInv DEF WorkInit
  <2> QED BY WorkTypes DEF WorkInit, WorkersInv, Phases, Busy
<1>2. QueueInv /\ WorkersInv /\ [WorkNext]_workVars => [Next]_vars /\ (QueueInv /\ WorkersInv)'
  BY WorkStep, NextInv
<1> QED BY <1>1, <1>2, PTL DEF WorkSpec, Spec

(* With crashing workers and lost calls, too, no subtask is lost, released *)
(* early or paid for twice, and each lives once.                           *)
THEOREM WorkKeepsPromises == WorkSpec => []QueueInv /\ LivesOnce
BY WorkImplementsQueue, Invariance, QueueImplementsLife, PTL

-----------------------------------------------------------------------------
(***************************************************************************)
(* Tasks of the mesh. PaidOnceEach is not inductive: a coordinator that    *)
(* paid for a subtask must not find it in its queue again. It could come   *)
(* back by an offer, so a coordinator that has, or has paid for, a subtask *)
(* accepts no offer of it any more (OfferSpent), which rests on where      *)
(* offers come from (OffersFromHome).                                      *)
(***************************************************************************)
Offer(c, s) == [type |-> "task_offer", id |-> s, from |-> Home[s], to |-> c]

(* Offers of a subtask are sent by its home, to others.                    *)
OffersFromHome ==
    \A m \in gossip : m.type = "task_offer" =>
      /\ m = Offer(m.to, m.id)
      /\ m.to # Home[m.id]
      /\ m.id \in submitted

(* A coordinator that has a subtask in its queue, or has paid for it, has  *)
(* seen the offer of it, unless it is the subtask's home.                  *)
OfferSpent ==
    \A c \in Coordinators, s \in Subtasks :
      place[c][s] # "none" \/ payments[c][s] > 0 =>
        /\ s \in submitted
        /\ c # Home[s] => Offer(c, s) \in seenIds[c]

(* What was paid for is not in the queue.                                  *)
PaidIsGone ==
    \A c \in Coordinators, s \in Subtasks : payments[c][s] > 0 => place[c][s] = "none"

TasksInv == MeshTypeOK /\ OffersFromHome /\ OfferSpent /\ PaidIsGone /\ PaidOnceEach

-----------------------------------------------------------------------------
(* A broadcast is a set of messages from the sender to the others.         *)
LEMMA BroadcastType ==
    ASSUME NEW type \in {"task_offer", "task_claim", "result_announce"},
           NEW c \in Coordinators, NEW s \in Subtasks
    PROVE  /\ Broadcast(type, c, s) \subseteq Message
           /\ \A m \in Broadcast(type, c, s) :
                m.type = type /\ m.id = s /\ m.from = c /\ m.to # c
  BY DEF Broadcast, Message

(* The initial state satisfies the invariant.                              *)
LEMMA TasksInitInv == MeshInit => TasksInv
  <1> SUFFICES ASSUME MeshInit PROVE TasksInv
    OBVIOUS
  <1>1. MeshTypeOK
    BY MeshAssumption DEF MeshInit, MeshTypeOK, Places
  <1>2. OffersFromHome
    BY DEF MeshInit, OffersFromHome
  <1>3. OfferSpent /\ PaidIsGone /\ PaidOnceEach
    BY DEF MeshInit, OfferSpent, PaidIsGone, PaidOnceEach
  <1> QED
    BY <1>1, <1>2, <1>3 DEF TasksInv

(* POST /submit keeps the invariant: nobody has the new subtask yet.       *)
LEMMA MeshSubmitInv == ASSUME TasksInv, NEW s \in Subtasks, MeshSubmit(s) PROVE TasksInv'
  <1> USE DEF TasksInv
  <1>0. Home[s] \in Coordinators
    BY MeshAssumption
  <1>1. MeshTypeOK'
    <2>1. gossip' \subseteq Message
      BY <1>0, BroadcastType DEF MeshSubmit, MeshTypeOK
    <2>2. place' \in [Coordinators -> [Subtasks -> Places]]
      BY <1>0 DEF MeshSubmit, MeshTypeOK, Places
    <2>3. \A c \in Coordinators : \A t \in Subtasks \ submitted' : place'[c][t] = "none"
      BY <1>0 DEF MeshSubmit, MeshTypeOK
    <2> QED
      BY <2>1, <2>2, <2>3 DEF MeshSubmit, MeshTypeOK
  <1>2. OffersFromHome'
    <2> SUFFICES ASSUME NEW m \in gossip', m.type = "task_offer"
                 PROVE  m = Offer(m.to, m.id) /\ m.to # Home[m.id] /\ m.id \in submitted'
      BY DEF OffersFromHome, Offer
    <2>1. CASE m \in gossip
      BY <2>1 DEF OffersFromHome, MeshSubmit
    <2>2. CASE m \in Broadcast("task_offer", Home[s], s)
      BY <2>2, <1>0 DEF Broadcast, Offer, MeshSubmit
    <2> QED
      BY <2>1, <2>2 DEF MeshSubmit
  <1>3. OfferSpent' /\ PaidIsGone' /\ PaidOnceEach'
    BY <1>0 DEF MeshSubmit, OfferSpent, PaidIsGone, PaidOnceEach, Offer, MeshTypeOK
  <1> QED
    BY <1>1, <1>2, <1>3

(* Steps inside one coordinator's queue keep the invariant.                *)
LEMMA LocalInv ==
    ASSUME TasksInv, NEW c \in Coordinators, NEW s \in Subtasks,
           \/ DelayEnds(c, s) \/ MeshPull(c, s) \/ Requeue(c, s)
           \/ AgentFails(c, s) \/ ForwardFails(c, s)
    PROVE  TasksInv'
  <1> USE DEF TasksInv
  <1>1. CASE DelayEnds(c, s)
    BY <1>1 DEF DelayEnds, MeshTypeOK, Places, OffersFromHome, OfferSpent,
                PaidIsGone, PaidOnceEach, Offer
  <1>2. CASE MeshPull(c, s)
    <2>1. MeshTypeOK'
      <3>1. s \in submitted
        BY <1>2 DEF MeshPull, MeshTypeOK
      <3> QED
        BY <1>2, <3>1 DEF MeshPull, MeshTypeOK, Places
    <2>2. OffersFromHome' /\ OfferSpent' /\ PaidIsGone' /\ PaidOnceEach'
      BY <1>2 DEF MeshPull, MeshTypeOK, OffersFromHome, OfferSpent, PaidIsGone, PaidOnceEach, Offer
    <2> QED
      BY <2>1, <2>2
  <1>3. CASE Requeue(c, s)
    BY <1>3 DEF Requeue, MeshTypeOK, Places, OffersFromHome, OfferSpent,
                PaidIsGone, PaidOnceEach, Offer
  <1>4. CASE AgentFails(c, s)
    BY <1>4 DEF AgentFails, MeshTypeOK, OffersFromHome, OfferSpent,
                PaidIsGone, PaidOnceEach, Offer
  <1>5. CASE ForwardFails(c, s)
    BY <1>5 DEF ForwardFails, MeshTypeOK, OffersFromHome, OfferSpent,
                PaidIsGone, PaidOnceEach, Offer
  <1> QED
    BY <1>1, <1>2, <1>3, <1>4, <1>5

(* Agents that come and go keep the invariant.                             *)
LEMMA AgentsInv ==
    ASSUME TasksInv, NEW c \in Coordinators, AgentsGone(c) \/ AgentsBack(c)
    PROVE  TasksInv'
  BY DEF AgentsGone, AgentsBack, TasksInv, MeshTypeOK, OffersFromHome, OfferSpent,
         PaidIsGone, PaidOnceEach, Offer

(* task_offer keeps the invariant: the offer is not yet seen, so the       *)
(* receiver has neither the subtask nor a payment for it.                  *)
LEMMA TaskOfferInv == ASSUME TasksInv, NEW m \in gossip, TaskOffer(m) PROVE TasksInv'
  <1> USE DEF TasksInv
  <1>0. /\ m \in Message /\ m.to \in Coordinators /\ m.id \in Subtasks
        /\ m = Offer(m.to, m.id) /\ m.to # Home[m.id] /\ m.id \in submitted
        /\ m \notin seenIds[m.to]
    BY DEF MeshTypeOK, Message, OffersFromHome, TaskOffer, Accept
  <1>1. place[m.to][m.id] = "none" /\ ~(payments[m.to][m.id] > 0)
    BY <1>0 DEF OfferSpent
  <1>2. Broadcast("task_claim", m.to, m.id) \subseteq Message
    BY <1>0, BroadcastType
  <1>3. seenIds' = [seenIds EXCEPT ![m.to] = @ \union {m}]
    BY DEF TaskOffer, Accept
  <1>4. CASE m.to \in alive
    <2>1. /\ place' = [place EXCEPT ![m.to][m.id] = "queued"]
          /\ foreign' = [foreign EXCEPT ![m.to] = @ \union {m.id}]
          /\ gossip' = gossip \union Broadcast("task_claim", m.to, m.id)
      BY <1>0, <1>1, <1>4 DEF TaskOffer, MeshTypeOK
    <2>2. MeshTypeOK'
      <3>1. place' \in [Coordinators -> [Subtasks -> Places]]
        BY <1>0, <2>1 DEF MeshTypeOK, Places
      <3>2. \A c \in Coordinators : \A t \in Subtasks \ submitted' : place'[c][t] = "none"
        BY <1>0, <2>1 DEF MeshTypeOK, TaskOffer
      <3>3. foreign' \in [Coordinators -> SUBSET submitted']
        BY <1>0, <2>1 DEF MeshTypeOK, TaskOffer
      <3>4. seenIds' \in [Coordinators -> SUBSET Message]
        BY <1>0, <1>3 DEF MeshTypeOK
      <3> QED
        BY <1>2, <2>1, <3>1, <3>2, <3>3, <3>4 DEF MeshTypeOK, TaskOffer
    <2>3. OffersFromHome'
      BY <1>0, <2>1, BroadcastType DEF OffersFromHome, Offer, TaskOffer
    <2>4. OfferSpent' /\ PaidIsGone' /\ PaidOnceEach'
      <3>1. OfferSpent'
        BY <1>0, <1>3, <2>1 DEF OfferSpent, Offer, TaskOffer, MeshTypeOK
      <3>2. PaidIsGone' /\ PaidOnceEach'
        BY <1>0, <1>1, <2>1 DEF PaidIsGone, PaidOnceEach, TaskOffer, MeshTypeOK
      <3> QED
        BY <3>1, <3>2
    <2> QED
      BY <2>2, <2>3, <2>4
  <1>5. CASE m.to \notin alive
    <2>1. UNCHANGED << place, foreign, gossip, submitted, payments >>
      BY <1>5 DEF TaskOffer
    <2>2. MeshTypeOK'
      BY <1>0, <1>3, <2>1 DEF TaskOffer, MeshTypeOK
    <2>3. OffersFromHome' /\ OfferSpent' /\ PaidIsGone' /\ PaidOnceEach'
      BY <1>0, <1>3, <2>1 DEF OffersFromHome, OfferSpent, PaidIsGone, PaidOnceEach,
                              Offer, MeshTypeOK
    <2> QED
      BY <2>2, <2>3
  <1> QED
    BY <1>4, <1>5

(* task_claim and result_announce keep the invariant: they only drop.      *)
LEMMA DropInv ==
    ASSUME TasksInv, NEW m \in gossip, TaskClaim(m) \/ ResultAnnounce(m)
    PROVE  TasksInv'
  <1> USE DEF TasksInv
  <1>0. m \in Message /\ m.to \in Coordinators /\ m.id \in Subtasks
    BY DEF MeshTypeOK, Message
  <1>1. /\ seenIds' = [seenIds EXCEPT ![m.to] = @ \union {m}]
        /\ UNCHANGED << submitted, alive, working, outputs, foreign, gossip, forwards, payments >>
    BY DEF TaskClaim, ResultAnnounce, Accept
  <1>2. /\ place' \in [Coordinators -> [Subtasks -> Places]]
        /\ \A c \in Coordinators, s \in Subtasks : place'[c][s] \in {place[c][s], "none"}
    <2>1. CASE UNCHANGED place
      BY <2>1 DEF MeshTypeOK
    <2>2. CASE Drop(m.to, m.id)
      <3> DEFINE q == IF place[m.to][m.id] = "claimed" THEN place[m.to][m.id] ELSE "none"
      <3>1. place' = [place EXCEPT ![m.to][m.id] = q] /\ q \in Places
        BY <1>0, <2>2 DEF Drop, MeshTypeOK, Places
      <3>2. q \in {place[m.to][m.id], "none"}
        OBVIOUS
      <3> HIDE DEF q
      <3> QED
        BY <1>0, <3>1, <3>2 DEF MeshTypeOK
    <2> QED
      BY <2>1, <2>2 DEF TaskClaim, ResultAnnounce
  <1>3. MeshTypeOK'
    BY <1>0, <1>1, <1>2 DEF MeshTypeOK
  <1>4. OffersFromHome'
    BY <1>1 DEF OffersFromHome, Offer
  <1>5. OfferSpent'
    BY <1>0, <1>1, <1>2 DEF OfferSpent, Offer, MeshTypeOK
  <1>6. PaidIsGone' /\ PaidOnceEach'
    BY <1>1, <1>2 DEF PaidIsGone, PaidOnceEach
  <1> QED
    BY <1>3, <1>4, <1>5, <1>6

(* POST /result, from an agent or forwarded, keeps the invariant: a queued *)
(* subtask was not paid for, and leaves the queue.                         *)
LEMMA CompleteInv ==
    ASSUME TasksInv, NEW c \in Coordinators, NEW s \in submitted, MeshComplete(c, s),
           UNCHANGED << submitted, alive >>,
           working' \subseteq working,
           forwards' \subseteq Coordinators \X submitted
    PROVE  TasksInv'
  <1> USE DEF TasksInv
  <1>0. s \in Subtasks
    BY DEF MeshTypeOK
  <1>1. /\ place' \in [Coordinators -> [Subtasks -> Places]]
        /\ \A d \in Coordinators, t \in Subtasks :
             place'[d][t] = IF d = c /\ t = s THEN "none" ELSE place[d][t]
    BY <1>0 DEF MeshComplete, MeshTypeOK, Places
  <1>2. /\ payments' \in [Coordinators -> [Subtasks -> 0..MaxPayments]]
        /\ \A d \in Coordinators, t \in Subtasks :
             \/ payments'[d][t] = payments[d][t]
             \/ /\ d = c /\ t = s /\ place[d][t] # "none"
                /\ payments'[d][t] = payments[d][t] + 1
    <2>1. payments[c][s] \in 0..MaxPayments /\ MaxPayments \in Nat
      BY <1>0, MeshAssumption DEF MeshTypeOK
    <2> DEFINE n == IF place[c][s] # "none" /\ payments[c][s] < MaxPayments
                      THEN payments[c][s] + 1 ELSE payments[c][s]
    <2>2. n \in 0..MaxPayments
      BY <2>1
    <2>3. payments' = [payments EXCEPT ![c][s] = n]
      BY <1>0 DEF MeshComplete, MeshTypeOK
    <2>4. payments \in [Coordinators -> [Subtasks -> 0..MaxPayments]]
      BY DEF MeshTypeOK
    <2>5. payments' \in [Coordinators -> [Subtasks -> 0..MaxPayments]]
      <3> HIDE DEF n
      <3> QED
        BY <1>0, <2>2, <2>3, <2>4
    <2>6. \A d \in Coordinators, t \in Subtasks :
            payments'[d][t] = IF d = c /\ t = s THEN n ELSE payments[d][t]
      <3> HIDE DEF n
      <3> QED
        BY <1>0, <2>3, <2>4
    <2> QED
      BY <2>5, <2>6
  <1>3. \A d \in Coordinators : \A m \in seenIds[d] : m.type = "task_offer" => m \in seenIds'[d]
    BY <1>0, BroadcastType DEF MeshComplete, MeshTypeOK
  <1>4. MeshTypeOK'
    <2>1. gossip' \subseteq Message /\ seenIds' \in [Coordinators -> SUBSET Message]
      BY <1>0, BroadcastType DEF MeshComplete, MeshTypeOK
    <2>2. outputs' \in [Coordinators -> SUBSET submitted]
      BY DEF MeshComplete, MeshTypeOK
    <2>3. foreign' \in [Coordinators -> SUBSET submitted]
      BY DEF MeshComplete, MeshTypeOK
    <2>4. \A d \in Coordinators : \A t \in Subtasks \ submitted : place'[d][t] = "none"
      BY <1>1 DEF MeshTypeOK
    <2> QED
      BY <1>1, <1>2, <2>1, <2>2, <2>3, <2>4 DEF MeshTypeOK
  <1>5. OffersFromHome'
    <2> SUFFICES ASSUME NEW m \in gossip', m.type = "task_offer"
                 PROVE  m = Offer(m.to, m.id) /\ m.to # Home[m.id] /\ m.id \in submitted
      BY DEF OffersFromHome, Offer
    <2>1. m \in gossip
      BY <1>0, BroadcastType DEF MeshComplete
    <2> QED
      BY <2>1 DEF OffersFromHome
  <1>6. OfferSpent'
    <2> SUFFICES ASSUME NEW d \in Coordinators, NEW t \in Subtasks,
                        place'[d][t] # "none" \/ payments'[d][t] > 0
                 PROVE  t \in submitted /\ (d # Home[t] => Offer(d, t) \in seenIds'[d])
      BY DEF OfferSpent, Offer
    <2>1. place[d][t] # "none" \/ payments[d][t] > 0
      BY <1>1, <1>2
    <2>2. t \in submitted /\ (d # Home[t] => Offer(d, t) \in seenIds[d])
      BY <2>1 DEF OfferSpent
    <2> QED
      BY <1>3, <2>2 DEF Offer
  <1>7. PaidIsGone'
    BY <1>1, <1>2 DEF PaidIsGone
  <1>8. PaidOnceEach'
    <2> SUFFICES ASSUME NEW d \in Coordinators, NEW t \in Subtasks
                 PROVE  payments'[d][t] <= 1
      BY DEF PaidOnceEach
    <2>1. payments[d][t] \in Nat /\ payments[d][t] <= 1
      BY DEF PaidOnceEach, MeshTypeOK
    <2>2. place[d][t] # "none" => payments[d][t] = 0
      BY <2>1 DEF PaidIsGone
    <2> QED
      BY <1>2, <2>1, <2>2
  <1> QED
    BY <1>4, <1>5, <1>6, <1>7, <1>8

LEMMA MeshResultInv ==
    ASSUME TasksInv, NEW c \in Coordinators, NEW s \in Subtasks,
           MeshResult(c, s) \/ ForwardedResult(c, s)
    PROVE  TasksInv'
  <1>1. CASE MeshResult(c, s)
    <2>1. s \in submitted
      BY <1>1 DEF MeshResult, TasksInv, MeshTypeOK
    <2>2. forwards' \subseteq Coordinators \X submitted /\ working' \subseteq working
      BY <1>1, <2>1 DEF MeshResult, TasksInv, MeshTypeOK
    <2> QED
      BY <1>1, <2>1, <2>2, CompleteInv DEF MeshResult
  <1>2. CASE ForwardedResult(c, s)
    <2>1. s \in submitted /\ Home[s] \in Coordinators
      BY <1>2, MeshAssumption DEF ForwardedResult, TasksInv, MeshTypeOK
    <2>2. forwards' \subseteq Coordinators \X submitted /\ working' \subseteq working
      BY <1>2, <2>1 DEF ForwardedResult, TasksInv, MeshTypeOK
    <2> QED
      BY <1>2, <2>1, <2>2, CompleteInv DEF ForwardedResult
  <1> QED
    BY <1>1, <1>2

-----------------------------------------------------------------------------
(* The invariant holds in every state of the mesh.                         *)
THEOREM TasksInvariance == MeshSafetySpec => []TasksInv
  <1>1. ASSUME TasksInv, [MeshNext]_meshVars PROVE TasksInv'
    <2>1. CASE UNCHANGED meshVars
      BY <1>1, <2>1 DEF meshVars, TasksInv, MeshTypeOK, OffersFromHome, OfferSpent, PaidIsGone,
                        PaidOnceEach, Offer
    <2>2. CASE MeshNext
      <3>1. ASSUME NEW s \in Subtasks, MeshSubmit(s) PROVE TasksInv'
        BY <1>1, <3>1, MeshSubmitInv
      <3>2. ASSUME NEW c \in Coordinators, AgentsGone(c) \/ AgentsBack(c) PROVE TasksInv'
        BY <1>1, <3>2, AgentsInv
      <3>3. ASSUME NEW m \in gossip, Receive(m) PROVE TasksInv'
        BY <1>1, <3>3, TaskOfferInv, DropInv DEF Receive
      <3>4. ASSUME NEW c \in Coordinators, NEW s \in Subtasks,
                   \/ DelayEnds(c, s) \/ MeshPull(c, s) \/ Requeue(c, s) \/ AgentFails(c, s)
                   \/ MeshResult(c, s) \/ ForwardedResult(c, s) \/ ForwardFails(c, s)
            PROVE  TasksInv'
        BY <1>1, <3>4, LocalInv, MeshResultInv
      <3> QED
        BY <2>2, <3>1, <3>2, <3>3, <3>4 DEF MeshNext
    <2> QED
      BY <1>1, <2>1, <2>2
  <1> QED
    BY <1>1, TasksInitInv, PTL DEF MeshSafetySpec

(* No coordinator pays twice for a subtask, whatever the gossip does       *)
(* (accrueCredits in POST /result, validateMessage, enqueueSubtask).       *)
THEOREM MeshPaysOnce == MeshSpec => []PaidOnceEach
  <1>1. TasksInv => PaidOnceEach
    BY DEF TasksInv
  <1> QED
    BY <1>1, TasksInvariance, PTL DEF MeshSpec

-----------------------------------------------------------------------------
(***************************************************************************)
(* Rollouts. A report or a write about an earlier rollout must not close   *)
(* the one that is noted: what is on its way to the table was in memory,   *)
(* and a rollout is noted once (WritesWereBooked).                         *)
(***************************************************************************)
RolloutStatus == {"none", "requested", "in_progress", "applied", "failed"}

WritesWereBooked == \A w \in writes : statusOf[w.rollout] # "none"

RolloutTypes ==
    /\ noted \in [rollout : Rollouts \union {NoRollout}, pending : BOOLEAN]
    /\ statusOf \in [Rollouts -> RolloutStatus] /\ stored \in [Rollouts -> RolloutStatus]
    /\ writes \subseteq [rollout : Rollouts, status : RolloutStatus \ {"none"}]

OpenInv == RolloutTypes /\ WritesWereBooked /\ PendingIsOpen

(* Booking a status for a rollout, whoever does it.                        *)
LEMMA BookingKeeps ==
    ASSUME OpenInv, NEW r \in Rollouts, NEW status \in RolloutStatus \ {"none"},
           UpsertRollout(r, status), UNCHANGED stored,
           noted' \in [rollout : Rollouts \union {NoRollout}, pending : BOOLEAN],
           noted'.pending => status \in {"requested", "in_progress"} /\ noted'.rollout = r,
           noted'.pending => stored[r] \notin Final /\ \A w \in writes : w.rollout = r => w.status \notin Final
    PROVE  OpenInv'
<1>1. /\ statusOf' = [statusOf EXCEPT ![r] = status]
      /\ writes' = writes \union {[rollout |-> r, status |-> status]}
  BY DEF UpsertRollout
<1>2. RolloutTypes'
  BY <1>1 DEF OpenInv, RolloutTypes
<1>3. WritesWereBooked'
  BY <1>1 DEF OpenInv, RolloutTypes, WritesWereBooked
<1>4. PendingIsOpen'
  BY <1>1 DEF OpenInv, RolloutTypes, PendingIsOpen, Final
<1> QED BY <1>2, <1>3, <1>4 DEF OpenInv

(* For any rollouts, losses, late writes and restarts: what heartbeats     *)
(* still ask for is nowhere recorded as over (agentOrchestration.pending   *)
(* against upsertRollout).                                                 *)
THEOREM PendingRolloutsAreOpen == RolloutSpec => []PendingIsOpen
<1>1. RolloutInit => OpenInv
  BY DEF RolloutInit, OpenInv, RolloutTypes, WritesWereBooked, PendingIsOpen, RolloutStatus
<1>2. OpenInv /\ [RolloutNext]_rvars => OpenInv'
  <2> SUFFICES ASSUME OpenInv, [RolloutNext]_rvars PROVE OpenInv'
    OBVIOUS
  <2>1. ASSUME NEW r \in Rollouts, RequestRollout(r) PROVE OpenInv'
    <3>1. /\ statusOf[r] = "none" /\ stored[r] = "none"
          /\ noted' = [rollout |-> r, pending |-> TRUE]
          /\ UpsertRollout(r, "requested") /\ UNCHANGED stored
      BY <2>1 DEF RequestRollout
    <3>2. \A w \in writes : w.rollout # r
      BY <3>1 DEF OpenInv, WritesWereBooked
    <3> QED BY <3>1, <3>2, BookingKeeps DEF RolloutStatus, Final
  <2>2. CASE ReportStatus
    <3>1. /\ noted.rollout \in Rollouts /\ UNCHANGED << noted, stored >>
          /\ UpsertRollout(noted.rollout, "in_progress")
      BY <2>2 DEF ReportStatus, OpenInv, RolloutTypes
    <3>2. noted.pending => /\ stored[noted.rollout] \notin Final
                           /\ \A w \in writes : w.rollout = noted.rollout => w.status \notin Final
      BY DEF OpenInv, PendingIsOpen
    <3>3. noted' \in [rollout : Rollouts \union {NoRollout}, pending : BOOLEAN]
      BY <3>1 DEF OpenInv, RolloutTypes
    <3> QED BY <3>1, <3>2, <3>3, BookingKeeps DEF RolloutStatus
  <2>3. ASSUME NEW ok \in BOOLEAN, AckTakes(ok), noted.rollout # NoRollout, UNCHANGED stored
        PROVE  OpenInv'
    <3>1. /\ noted.rollout \in Rollouts /\ UpsertRollout(noted.rollout, IF ok THEN "applied" ELSE "failed")
          /\ noted' \in [rollout : Rollouts \union {NoRollout}, pending : BOOLEAN]
          /\ ~noted'.pending
      BY <2>3 DEF AckTakes, OpenInv, RolloutTypes
    <3>2. (IF ok THEN "applied" ELSE "failed") \in RolloutStatus \ {"none"}
      BY DEF RolloutStatus
    <3> QED BY <2>3, <3>1, <3>2, BookingKeeps
  <2>4. ASSUME NEW w \in writes, WriteLands(w) PROVE OpenInv'
    <3>1. /\ writes' = writes \ {w} /\ UNCHANGED << noted, statusOf >>
          /\ stored' = stored \/ stored' = [stored EXCEPT ![w.rollout] = w.status]
      BY <2>4 DEF WriteLands
    <3>2. w.rollout \in Rollouts /\ w.status \in RolloutStatus
      BY DEF OpenInv, RolloutTypes
    <3>3. RolloutTypes' /\ WritesWereBooked'
      BY <3>1, <3>2 DEF OpenInv, RolloutTypes, WritesWereBooked
    <3>4. PendingIsOpen'
      BY <3>1, <3>2 DEF OpenInv, RolloutTypes, PendingIsOpen
    <3> QED BY <3>3, <3>4 DEF OpenInv
  <2>5. CASE RolloutCoordinatorRestarts
    BY <2>5 DEF RolloutCoordinatorRestarts, OpenInv, RolloutTypes, WritesWereBooked, PendingIsOpen,
                RolloutStatus
  <2>6. ASSUME UNCHANGED << noted, statusOf, stored, writes >> PROVE OpenInv'
    BY <2>6 DEF OpenInv, RolloutTypes, WritesWereBooked, PendingIsOpen
  <2>7. CASE Ack
    <3>1. (agentAt = "ack") \in BOOLEAN
      OBVIOUS
    <3> QED BY <2>3, <2>6, <2>7, <3>1 DEF Ack
  <2>8. CASE AckLost
    <3>1. (agentAt = "ack") \in BOOLEAN
      OBVIOUS
    <3> QED BY <2>3, <2>6, <2>8, <3>1 DEF AckLost
  <2>9. CASE \/ SeeRollout \/ AfterWarning \/ RolloutAgentRestarts
             \/ \E ok \in BOOLEAN : Installed(ok)
             \/ UNCHANGED rvars
    BY <2>6, <2>9 DEF SeeRollout, AfterWarning, RolloutAgentRestarts, Installed, rvars
  <2> QED BY <2>1, <2>2, <2>4, <2>5, <2>7, <2>8, <2>9 DEF RolloutNext
<1>3. OpenInv => PendingIsOpen
  BY DEF OpenInv
<1> QED BY <1>1, <1>2, <1>3, PTL DEF RolloutSpec
=============================================================================

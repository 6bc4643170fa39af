# EdgeCoder: a TLA+ verification project

EdgeCoder is a swarm of coding agents.  Coordinators hold queues of subtasks,
agents pull and execute them, credits pay for the work, Lightning payments buy
credits, coordinators and agents share work over gossip meshes and Bluetooth,
and a portal, a control plane and several clients stand around them.  This
directory models the parts where order, failure and repetition matter, checks
them with TLC and proves the central ones with TLAPS.  Paths below are relative
to the repository (`src/src/...` is its TypeScript source).  `PROJECT.json`
names, for every definition, the source lines it stands for.

## 1. Inventory

| Component | State | Operations | What is hard about it | What makes it correct |
|---|---|---|---|---|
| Swarm work queue (`swarm/queue.ts`, `swarm/subtask-deps.ts`) | array of items with claim and claim time, completions per project, held subtasks, recorded outputs | enqueue, claim, complete, requeue, requeueStale, markRemoteClaimed, hold, release | results from anyone at any time, stale claims, releases in any order | nothing lost or duplicated, dependencies first, live claims kept |
| Coordinator task handlers (`/register`, `/heartbeat`, `/submit`, `/pull`, `/result`) | the queue, capabilities, envelope keys, blacklist | one HTTP handler each | handlers interleave at every await; writes fail halfway | one reward per subtask, every subtask finishes |
| Worker runner (`swarm/worker-runner.ts`, `db/sqlite-store.ts`) | loop position, online flag, `pending_results`, outbound rows | register, heartbeat, pull, run, post, buffer, flush; mesh, direct and Bluetooth work | lost requests and answers, restarts | every subtask gets done, nothing is paid twice |
| Payment intents (`coordinator.ts`, `economy/lightning.ts`) | intents in memory and Postgres, settled references | create, webhook, confirm, poller, reconcile, settle | five awaits per settlement, four paths into it, restarts | what is settled was credited, and once under its reference |
| Credits (`credits/*.ts`, Bluetooth sync) | balances, contribution rows, offline transactions | submit, spend, accrue, sync | read-then-write, retries, two statements per reward | bounded overdraft, synced means settled |
| Issuance, prices, anchoring (`economy/*.ts`, `ledger/*.ts`) | epochs, votes, allocations, quotes, anchors, checkpoints | propose, vote, commit, sign, anchor, pay out | several coordinators on one database, policies that change meanwhile | a quorum behind every final value |
| Robot task queue (`swarm/robot-queue.ts`) | robots, tasks, earnings | register, create, fund, claim, prove, settle, dispute, expire | long call sequences, rounding | earnings equal settled rewards, counters what was settled and expired |
| Coordinator mesh (`mesh/gossip.ts`, `mesh/protocol.ts`, `handleMeshIngest`) | peers, sockets, seen ids, task origins | broadcast, ingest, relay, register, forward results | copies by several ways, loss, NAT | a message is taken once, a shared subtask is done |
| Agent mesh: tunnels and direct work (`coordinator.ts`) | tunnels, offers, connected agents | connect, accept, relay, close, offer, result | sweeps race with use, lost answers | whoever is connected has a tunnel |
| Agent peer mesh (`mesh/mesh-peer.ts`, `MeshPeerController.swift`) | peer table, gossip table, offered subtasks | bootstrap, exchange, evict, offer, claim | eviction against exchange, crossing claims | both tables agree |
| Security (`security/*.ts`) | nonces, windows, strikes, blacklist and its log | verify, record, strike, ban, gossip, load | copies, time edges, loading at start | no replay, bans are earned and hold |
| Rollout orchestration (`coordinator.ts`, worker) | rollouts per agent | request, see, install, acknowledge | late or repeated reports, restarts | a rollout settles |
| Escalation (`/escalate`, resolver) | status per task, human queue | escalate, resolve, review, callback | stages of several requests overlap | a poller never waits for nobody |
| Portal (`portal/*.ts`) | users, sessions, secrets, nodes, DNS rows, wallets, conversations | log in, link, enrol, approve, validate, set up, chat | requests overlap, calls are fire-and-forget | secrets act once, rows agree |
| Control plane, handshake, inference, admission | rollouts, sessions, counters, projections | promote, review, decompose, register | row-by-row writes, late answers, outages, ledgers taken over from peers | a promotion reaches all, an ended session stays ended, whoever is known was vouched for |
| Agent loop and executor (`agent/base.ts`, `executor/*.ts`) | iterations of a task, child processes | plan, write, check, run, reflect | a killed client leaves its container running | only checked code of the current iteration runs |
| Model router, local models, IDE agent (`model/*.ts`, `apps/ide/*`) | load counter, pulls, approvals | route, swap, pull, approve, edit | streams break, timeouts race approvals | nothing runs unapproved, counters do not leak |
| Chat pages (`portal/server.ts`, `desktop/src/pages/ChatView.svelte`, `EditorChatPanel.svelte`) | active conversation, thread, list, abort controller | send, stop, switch, delete, load, sign out | handlers go on after the user has gone elsewhere | a page that refuses questions accepts them again |
| iOS, editor proxy, desktop (`ios/`, `bluetooth/`, `desktop/`) | models and files, continuations, loops, callbacks, child process | activate, download, send, start, pause, restart | callbacks, timers and cancellations | one resume, one loop, one agent |
| Power policy; dashboards | none | pure functions, HTML | | see section 7 |

How they interact: agents and clients call the coordinator over signed HTTP;
the coordinator calls the inference service, Postgres, the Lightning node and
its peers; peers answer with gossip and, for results of shared tasks, with a
plain HTTP call.  The portal and the control plane call the coordinator and
each other, mostly without waiting for the outcome.  Phones and desktops run
the same worker protocol and, without a coordinator, exchange tasks over
Bluetooth.  Node runs a handler without interruption up to an await, Swift's
main actor likewise; a step of these models is the code between two awaits that
matter.

## 2. Modules

Every module has its state as variables, an `Init`, one action per handler,
callback or step, a next-state relation and a specification.  Components that
share no state are checked side by side: the MC module of a group has a
variable `part` and a behaviour is one of one component, so that TLC explores
the union of their state spaces and not the product.

| Module | Code | State and actions |
|---|---|---|
| `SwarmQueue` | `swarm/queue.ts`, `subtask-deps.ts`, the five task handlers | `tasks`, `pending`, `completedOutputs`, `capability`, `envelopeKey`, `blacklisted`; `Register`, `Heartbeat`, `Submit`, `Pull`, `Result`, `RemoteClaimed`; `Seal`, `SealFails`, `Accrue`, `AccrueFails` for what follows an await |
| `SubtaskLife` | abstract | what the queue promises about one subtask |
| `SwarmWork` (EXTENDS `SwarmQueue`) | `worker-runner.ts`, `sqlite-store.ts` | the workers' loops: position, payload, online flag, buffer; lost calls, lost answers, crashes |
| `PaymentIntents` | payment handlers, `lightning.ts` | an intent in memory and in the store, each handler's position in `settleIntent`; rejected writes, restart |
| `PurchaseLife` | abstract | what a purchase of credits promises: offered, then credited, then shown as settled |
| `MeshTasks` | task messages of `handleMeshIngest` | a shared subtask at each coordinator; offers, claims, results, forwarding |
| `Gossip` | `mesh/gossip.ts`, `mesh/protocol.ts` | peer tables, sockets, relay, seen ids |
| `RobotQueue` | `swarm/robot-queue.ts`, routes | `Next`: any sequence of calls; `RouteNext`: those a route makes |
| `Credits` | `credits/*.ts`, `/submit`, `/credits/ble-sync` | statements of spend and reward as steps, both stores, the offline ledger's rows |
| `Issuance`, `StatsLedger` | `economy/*.ts`, `ledger/*.ts` | epochs, votes and anchors, and the negotiation of prices by a weighted median; checkpoints and signatures |
| `AgentAuth`, `Blacklist` | `security/*.ts` | the steps of a signature check; ban records, log and start, and a second state machine for the windows, rules and strikes of behaviour monitoring |
| `AgentMesh`, `Rollout`, `Escalation` | `coordinator.ts`, worker | tunnels and direct work; installs and acks; stages of an escalation |
| `PortalAuth`, `PortalNodes`, `Chat`, `WebChat` | `portal/*.ts` | accounts and secrets, and in its second part the wallet's phrases; enrolment and DNS; conversations and forwarded chats; the chat page in the browser |
| `Admission`, `ControlPlane`, `Handshake`, `Inference` | `/register`, `control-plane/*.ts`, `handshake/*.ts`, `inference/*.ts` | coordinators with and without a portal, what they store, project and take over from each other; rollouts row by row; sessions; counters |
| `Router`, `IdeAgent`, `AgentLoop` | `model/*.ts`, `apps/ide/*.ts`, `agent/*.ts`, `executor/*.ts` | load and streams, and swaps and pulls of models; approvals and tools; iterations, checks and children of a task |
| `BleOutbound`, `MeshPeer` | `mesh/ble/*.ts`, `mesh-peer.ts`, the worker's handlers | radio, peers, retries, rows; peer and gossip tables, and offers and claims of subtasks between agents |
| `IosBle`, `IosRuntime`, `IdeBle`, `Desktop`, `ChatPanel` | Swift, Rust and Svelte clients | the continuation and its timers; loops and tasks, and the models and their files; callbacks and chunks; the agent and its monitor; the chat panels |

The proofs are in `WorkProofs`, `EconomyProofs`, `CoordinatorProofs`,
`DevicesProofs`, `ServicesProofs` and `PortalProofs`, one per group of modules.

### Abstractions

* Names, prompts, outputs and messages are model values; a body is what
  decisions look at (size class, tenant flag, model, dependencies).
* Signatures and envelopes are perfect: they are modelled by who can open or
  sign what.
* Times are ages or ticks that saturate one past the limit they are compared
  with, so that "just before", "at" and "after" the limit are distinct.
* In `SwarmQueue` the environment is open: any agent pulls at any time and
  posts any result for any id, because `/result` checks neither that the
  subtask exists nor that the reporter holds it.  A random id is a number.
* In `MeshTasks` a broadcast is one message per peer that stays available: it
  may arrive late, in any order, again (and is then refused by `seenIds`), or
  never.  `Gossip` shows what that memory of ids really guarantees.
* A retried request of a worker is refused because its nonce was used, so a
  retry inside `post()` is the failure of the call.
* Services that are not in the repository (Ollama, bitcoind, the Lightning
  node, registrars, OAuth providers) answer anything their callers handle; the
  definitions for them are marked external in the map.

## 3. Runs

| Run | Result | What it shows |
|---|---|---|
| `swarm_queue` | pass | `SwarmQueue` with 2 agents, 3 subtasks and 3 requests: its inductive invariant `QueueInv`, the leases (`LeaseHonoured`), and that it implements `SubtaskLife` (`LivesOnce`) |
| `progress` | pass | liveness of `SwarmWork`, `MeshTasks` and `Rollout` under fairness |
| `payments_end` | pass | liveness of `PaymentIntents` under fairness: every intent ends (`IntentsEnd`) |
| `economy` | pass | `PaymentIntents`, also that it implements `PurchaseLife` (`BooksFollowCredits`); `RobotQueue`; `PortalAuth` with the wallets, `PortalNodes`, `Chat`, `Escalation` |
| `coordinator` | pass | `AgentAuth`, `Blacklist` with behaviour monitoring, `StatsLedger`, `Issuance` with the prices, `AgentMesh`, `Gossip` |
| `services` | pass | `Admission`, `ControlPlane`, `Handshake`, `Inference`, `Router` with the local models, `IdeAgent`, `AgentLoop`, `WebChat` |
| `devices` | pass | `BleOutbound`, `Credits`, `IosBle`, `IosRuntime` with the models, `IdeBle`, `MeshPeer`, `Desktop`, `ChatPanel` |
| `payment_minted_once` | violation | overlapping settlement updates with different references credit twice |
| `blacklist_chain` | violation | a peer's record becomes the head of the local chain without linking to it; the stored log does not verify |
| `ide_approvals` | violation | the end of one chat's connection rejects the waiting approvals of all chats |
| `mesh_claims` | violation | two agents drop an offered subtask on each other's claim; nobody runs it |
| `desktop_history` | violation | a question asked before the desktop app has found its backend is dropped when the last conversation is shown; its answer is stored there without it |

### What the properties say

*Queue and workers.*  `QueueInv`: a subtask is held, queued once, completed or
given to a peer, and never both held and queued; it is queued only after its
dependencies have results; it is paid at most once, by the handler that takes
it out of the queue, and what a worker may still be given is unpaid.  A claim
younger than the timeout is a lease (`LeaseHonoured`).  Under fairness a queued
subtask is completed (`QueuedGetsDone`), also when workers crash and answers
are lost, because the heartbeat's sweep hands out stale claims again.

*Money.*  `PayInv`: what is shown as settled was credited, and a reference
mints once per life of the process; only what was offered is credited, and the
books never go back to "created" (`BooksFollowCredits`).  That it was paid is
not promised: `/confirm` and the webhook believe whoever holds the mesh token,
and the mock provider, the default, calls every invoice settled.  Every intent
ends (`IntentsEnd`), although a poisoned reference may abort tick after tick.  `spendCredits` can overdraw an
account, but by at most one credit for each other overlapping request, and what
a worker marks as synced was settled on both sides (`CreditsSafe`, the
conjunction of `OverdrawIsBounded` and `SyncedIsSettled`).  A final epoch has its quorum (`FinalHasQuorum`), the
agreed price is a median (`PriceIsMedian`), the robots' ledger holds exactly
the rewards of the settled tasks and their counters the numbers of those
settled and expired (`RobotBooksAgree`, the conjunction of `LedgerMatchesTasks`
and `CountsMatchTasks`).

*Coordinator.*  A copy of an accepted request is refused at whatever time it
comes (`ReplayRefused`; copies checked at the same moment both pass); a ban is
earned within one window of strikes and holds against older records
(`BanIsEarned`, `BanHolds`); a commit has its signatures (`CommitBacked`);
whoever counts another as connected shares a tunnel with it
(`ConnectedOverTunnel`); a message is taken in once within the memory of ids
(`TakenOnce`).  Two coordinators finish the subtask they share
(`SubmittedGetsDone`); a requested rollout settles (`RolloutSettles`).

*Portal and services.*  Links, states, tokens and challenges act once
(`SecretsActOnce`); a node is active exactly when approved and verified although
five statements write the flag (`ActiveExactly`); a phrase that was replaced has
to be acknowledged anew (`AckIsForThisPhrase`; `AccountsSafe` is both); an answer follows its question
(`AnswersFollowQuestions`); an escalation that says "processing" has a request
at work (`ProcessingHasRequest`).  Whom a coordinator knows, some coordinator
once took in on its own merits: by the portal's word, from loopback, with the
mesh token of a peer, as announced over the mesh, or because it has no portal;
records passed on between ledgers, outages and late writes make nobody known
(`KnownWereVouched`).  A promotion to "full" reaches everyone known
(`FullReachesAll`); an ended session stays ended (`FinalStays`); a signed call
of the inference service acts once (`InfReplayRefused`); the router's counter is
its load (`CountIsLoad`); an accepted approval takes effect
(`ApprovalTakesEffect`); the tracker shows no pull that is over
(`TrackerSettles`); the code that runs for a task is that of one iteration and
has passed the check (`OneAttemptRuns`); while the portal's chat page refuses
questions, the one that will open it again is being streamed
(`StreamingIsLive`).

*Devices.*  A task sent over Bluetooth is paid at most once, not before it is
handed out and always when its row says completed; a restart between payment and
row, or a row that cannot be written, may leave one that is paid and says sent
or failed (`PaidAtMostOnce`).  A model has at most one entry in the phone's
registry, with its file unless the app died while deleting it, although removals
fail silently and the app may die between file and registry
(`OneEntryWithFile`); a continuation is resumed once (`ResumedOnce`); one loop
lives (`OneLiveLoop`); a call to the editor's proxy gets its own answer or an
error (`OwnAnswer`); the desktop holds the one agent its session has alive
(`OneAgentHeld`); a chat panel that shows a
stream can be stopped (`StreamingCanStop`).  That gossip goes to known peers
(`GossipIsKnown`) and that a rollout that agents are still asked to install is
nowhere recorded as over (`PendingIsOpen`) is proved and in no run.

### Bounds

Each bound is a named constant of the module, set in the cfg.  They are the
least at which the interesting case happens: two handlers or calls that race
(`Procs`, `Requests`, `Swaps`, `Sends`, `MaxAdmitting`, `MaxWriting`), a third where two must be
followed by one more (`RtRequests`, `HsSessions`, `Secrets`, which differ only
by name and are issued in one order, `IssuedInOrder` in `MCEconomy`); two
intents, so that an older one's poisoned reference can block a newer one; three
nodes in `Gossip`, so that a relay lies between two, and `SeenLimit = 1` with
two messages, so that the memory overflows; time limits of one or two ticks
with a horizon beyond them (`MaxNow`, `MaxTime`).  `Admission` has two coordinators, one with a portal and
one without, and one agent, which each of the two may come to know first by
itself or through the other.  In `economy` the two handlers of `PaymentIntents`
are symmetric (`ProcsAlike`): none of its invariants tells the poller apart.
`Desktop` ends with the session numbered `MaxSessions`, where `MCDevices` lets
it stutter.  `MaxSubtasks =
3` with two agents lets a dependent part, its dependency and an unrelated
subtask of another tenant meet with two claims alive; one subtask is enough for
the liveness of the worker loop, whose workers interact through its claim and
key.  `MaxFaults`, `MaxLost`, `MaxStarts` bound how often calls and processes
fail; `MaxOps`, `MaxEvents`, `MaxCalls` cap histories; `MaxRecords = 4` is an
event, the signatures of two coordinators and their commit; heads of the stats
ledger, which no other step looks at, are anchored in a part of their own
(`AnchorRecords`); `MaxSent = 1` keeps
`MeshPeer`, which no property of `devices` is about, small.  Deadlock is checked
in every run.

### Fairness

Liveness assumes weak fairness of what Node's event loop keeps going: workers'
loops, handlers past an await, the poller and the passing of time.  The
environment's hypothesis is separate: failures end at some time
(`<>[][Healthy]_vars`, `PayHealthy`, `MeshHealthy`; `MaxLost` in `Rollout`),
after any number of crashes, losses and rejected writes.  In `MCProgress` the
fairness of the workers is assumed only when the workers are the part looked
at, since in the other parts their loops stand still.

### Faulty variants

Next to some definitions stands a variant with a plausible slip ("Faulty
variant of ...").  Replacing the definition by it makes TLC report the property
named in `PROJECT.json` ("mutants"), which shows that the property depends on
those lines of the code.

## 4. Where the code and its documents differ

Five disagreements are runs of their own (`findings`).  Others were met on the
way:

* the webhook credits an expired intent, although "Expired intents are
  reconciled and not minted" (`src/site-docs/economy/settlement-lifecycle.md`);
* two coordinators run a shared subtask although gossip is timely and a claim
  delay "prevents duplicate task execution"
  (`src/site-docs/guide/architecture-deep-dive.md`);
* a result that was "buffered for retry" (`worker-runner.ts`, line 927) is retried only after an
  offline period;
* two slow envelope workers replace each other's key for ever, so that
  `QueuedGetsDone` is checked with one of them;
* what is anchored is the newest stats record, not the newest "finalized
  checkpoint" (`src/site-docs/economy/bitcoin-anchoring.md`).

Behaviour that no document contradicts, for example: `/submit` holds a subtask
whose dependencies have all completed until another result arrives; one failed
forward loses a result for its home; a failed write after `/result` loses the
reward, and a decomposer's error after `/submit` the credit; with three
coordinators two claimants may drop a subtask for each other; a vote that
arrives early makes an epoch final before its allocations are written; copies
of one signed request that are checked at the same moment all pass; no route or
timer calls `markFunded`; nothing calls `enqueueOutboundTask`.

## 5. Refinement

`SubtaskLife` is what a client of the queue may rely on: a subtask is accepted
(held or open), a held one is opened, an open one is closed once and for good
by its first result or by a peer, and only a result makes a reward due, which is
paid once or lost.  `SwarmQueue` instantiates it as `Life`: held is `pending`,
open the ids in the array, closed what has left it, due the rewards that wait
in `accruing`, paid the history `rewards`.  `LivesOnce` is the abstract
specification under this mapping.  TLC checks it on the instance of
`swarm_queue`; the theorem `QueueImplementsLife` proves it for all constants.

`PurchaseLife` is what a customer may rely on when buying credits: an invoice is
credited only after it was offered, under the Lightning node's own reference once
as long as the coordinator remembers it, and the books show it as settled only
after a credit, and as pending never again.  It leaves open what the code leaves
open: whether a payment came is the word of whoever reports it; a settlement under another reference is not recognised as a repetition, a
restart forgets (`Forget`), and the books may end at "expired" for what was
settled, when a loop that read the intent before goes on.  `PaymentIntents`
instantiates it as `Purchase`, with the store as the books.  TLC checks it in
`economy`; `IntentsImplementPurchase` proves it.

`SwarmWork` in turn implements `SwarmQueue`, without a mapping because it
extends that module: every step of its workers, of the network between and of
the handlers that outlive their callers is a step `SwarmQueue` allows, or leaves
the coordinator alone (`WorkImplementsQueue`).  So whatever is proved of the
queue holds with crashing workers and lost calls (`WorkKeepsPromises`).

## 6. Proofs

Every invariant and every action property of the passing runs is a theorem, for
all values of the constants that satisfy the modules' named assumptions.  TLC checks the property on a small instance;
what the table names as the strengthening is what makes it inductive.

| Theorem (module) | Property | What is added, and why the property alone is not enough |
|---|---|---|
| `Invariance` (WorkProofs) | `QueueInv` | is inductive; see below |
| `LeasesAreHonoured` | `LeaseHonoured` | `QueueInv`: a splice of an array without duplicates removes one id |
| `QueueImplementsLife` | `LivesOnce` | `QueueInv`; one lemma per handler that is a step of `SubtaskLife`, all others are `Quiet` and stutter |
| `WorkImplementsQueue`, `WorkKeepsPromises` | `Spec`, `QueueInv` | `WorkersInv`: what a worker waits for, runs, posts and buffers is a subtask, so that its call is one of `SwarmQueue`'s |
| `MeshPaysOnce` | `PaidOnceEach` | `OffersFromHome`, `OfferSpent`, `PaidIsGone`: a repeated offer cannot bring back a subtask that was paid for |
| `PendingRolloutsAreOpen` | `PendingIsOpen` | `OpenInv`, `WritesWereBooked`: what is on its way to the table was in memory before, and a rollout is noted only once |
| `PayInvariance` (EconomyProofs) | `PayInv` | is inductive: `PastCredit` (who is past the credit write has credited) and `RefsReserved` (a reference about to credit is in `settledTxRefs`) |
| `IntentsImplementPurchase` | `BooksFollowCredits` | `PayInv` and `PurchaseInv`: a handler acts some steps after it has read; what it works on, and all that memory and store show, had been offered |
| `LedgerIsExact` | `LedgerMatchesTasks`, a part of `RobotBooksAgree` | `EntriesHaveTasks`, `ClaimedHasRobot`; `FeeSplit` is the arithmetic of `computeIntentFee` |
| `CountsAreExact`, `RobotBooksAreExact` | `RobotBooksAgree` | `RobotInv`; cardinalities: settling adds one task to those its robot has settled, expiry adds the union of two disjoint sets |
| `BooksAreSound` | `CreditsSafe` | `BooksInv`: a submission between its two statements (`Spending`) still has its credit, so an account's balance plus the number of those submissions is not negative; `BatchOk`: in a sync under way each transaction is settled, refused or still to come |
| `ReplaysAreRefused` (CoordinatorProofs) | `ReplayRefused` | `HeldWhileFresh` and `StampsAreNear`: one skew ahead when the nonce is stored and one behind when the copy comes, hence `NonceTtl >= 2 * MaxSkew` |
| `BansHold` | `BanHolds` | `Backed`: the record a ban rests on is the latest logged one about that agent; `LoadingOk`: while a coordinator starts, its log is the rows gone through, in the order of time |
| `BansAreEarned` | `BanIsEarned` | `StrikesInv`: a strike on the account is an entry of the log of strikes, so those in the window are among the log's |
| `CommitsAreBacked` | `CommitBacked` | `LedgerInv`: signatures counted some steps ago are of the finaliser's checkpoint, and records are never taken away |
| `FinalRestsOnQuorum` | `FinalHasQuorum` | `FinalizerOk`, `RecordOk`: whom a finaliser counted had decided in favour of its epoch, and decisions stay |
| `PricesAreMedians` | `PriceIsMedian` | `PricesInv`: types; `WeightedMedianIsMedian` about the loop of `weightedMedian`, see below |
| `NoHalfConnection` | `ConnectedOverTunnel` | `MeshInv`: an invite under way is of its pair's tunnel, if that is still there |
| `TakenAgainOnlyAfterOverflow` | `TakenOnce` | `LastTaken`: the remembered ids are the last ones taken in, all different, as many as fit |
| `TakenOnceWithinMemory` | | `RoomForAll`: of all repetitions one would end first (`LeastMember`); between its two ends all ids were taken, so that another one ends before it |
| `ResumesOnce` (DevicesProofs) | `ResumedOnce` | `SlotWaits`: the call in the slot is one that waits |
| `OneLoop` | `OneLiveLoop` | `LoopInv`: a loop that has not started was not cancelled |
| `EntriesHaveFiles` | `OneEntryWithFile` | `RegInv`: a file that is missing under its entry was taken by a death, which also ended all downloads of the model |
| `AnswersAreOwn` | `OwnAnswer` | `OwnInv`, `ParsesAsLastChunk`: what parses when a chunk comes is a message of that chunk's request |
| `PaidOnceAtMost` | `PaidAtMostOnce` | `PaidInv`: the loop waits only for a task that was handed out and is not paid yet, and a row is completed only between its payment and the next task |
| `AgentsAreHeld` | `OneAgentHeld` | `AgentsInv`: while the window is open only the monitor spawns, and only when no child is held |
| `GossipStaysKnown` | `GossipIsKnown` | `EnteringKeeps`: both tables are entered alike |
| `BusyPanelCanStop` | `StreamingCanStop` | `PanelInv`, `MountInv`: the stream listens to the controller of the panel's own question |
| `EndedForGood` (ServicesProofs) | `FinalStays` | `StaleIsOpen`: the sweep changes open sessions only |
| `InferenceReplaysRefused` | `InfReplayRefused` | `RememberedWhileGood`: a nonce is forgotten only after its stamp has run out of the skew |
| `OnlyVouchedAreKnown` | `KnownWereVouched` | `KnownInv`: calls let in, records in ledgers and records on their way that approve an agent all rest on vouching |
| `LoadIsCounted` | `CountIsLoad` | `LoadInv`, with the lemmas about cardinalities of a set that gains or loses one request |
| `TrackerNeverStuck` | `TrackerSettles` | `PullsInv`: the shared tracker is running only while a pull is |
| `FullReaches` | `FullReachesAll` | `RolloutInv`: each agent to be covered has a row or is still on the list; `RemainingIsAll` |
| `OneCheckedAttempt` | `OneAttemptRuns` | `ChildOk`: a child belongs to the iteration its task is at, which has passed the check |
| `PageReopens` | `StreamingIsLive` | `PageInv`: a page that refuses questions has the controller of one that is streamed |
| `ApprovedIsCarriedOut` | `ApprovalTakesEffect` | `PendingWaits`: a pending approval is that of the call its chat waits with |
| `AcksAreForThisPhrase` (PortalProofs) | `AckIsForThisPhrase` | types: phrase and acknowledgement are one row |
| `ProcessingIsWorkedOn` | `ProcessingHasRequest` | the stages a request passes while its row says "processing" |
| `AnswersFollow` | `AnswersFollowQuestions` | `ChatInv`: a chat under way has its question in the conversation, if that is still there, and no answer yet |
| `NoSecretActsTwice` | `SecretsActOnce` | `SecretsInv`: only a live secret can be used up, and it has not been |
| `AccountsAreSafe` | `AccountsSafe` | the two theorems `NoSecretActsTwice` and `AcksAreForThisPhrase` together |
| `NodesAreActiveExactly` | `ActiveExactly` | `NodesInv`: who was read as verified some steps ago still is |

`TypeCorrect`, `PaysOnce`, `LosesNothing`, `HoldsBack`, `SettledMeansMinted`
and `RefsMintOnce` are the parts of `QueueInv` and `PayInv` a reader may look
for.

*The queue.*  `QueueInv` is the conjunction of `TypeOK`, `NothingLost`,
`DependenciesFirst`, `RewardedOnce` and `OpenIsUnpaid` (a subtask that is held
or queued has been neither paid nor is about to be).  `RewardedOnce` alone is
not inductive: a queued subtask that had been paid before would be paid again;
that it cannot be queued needs `OpenIsUnpaid`, whose preservation under release
and requeue needs that held and queued ids are disjoint and that the array has
no id twice (`NothingLost`).  `/submit` and `/result` rest on lemmas about
`Splice`, `NewItems` and `InOrder`: what ids a concatenation or a removal
leaves, and that it stays free of duplicates.

*Bans after a restart.*  That a ban holds in memory is no invariant by itself:
after a restart a coordinator bans on what it loads.  The rows come in the order
of their time and each is applied as it comes, so the argument has to say that
the log of a coordinator that loads is a prefix of the rows it will have seen,
and that the last row about an agent is the latest (`LastBacks`).  The
exception the property makes, for records that come by gossip while the rows
are loaded, is where the code does let an older record win.

*Overdrafts.*  With Postgres two statements, a check and a write, stand between
a request and its debit.  The invariant counts the submissions that have
checked and not yet written; each of them had seen a credit, and none of the
others can take more than one.

*Prices.*  That `weightedMedian` returns a median is no matter of steps but of
what a sorted list and a running sum are, for lists of any length, so it needs
induction.  The library's induction rules take a predicate and cannot be used
with the provers at hand; `CoordinatorProofs` does the induction with sets: the
exceptions, if there were any, would have a least member (`LeastMember`, from
the fact that `<` on the natural numbers is well-founded), and a step up from
the number below it makes a contradiction (`Induction`).  From it follow that
the running sum exists (`SumExists`), that weights of disjoint sets of positions
add up (`WeightsAdd`) and that every list of quotes has an order by value
(`AllSort`).  `PriceOrder` chooses any such order: which of two equal quotes
comes first makes no difference to the price.

*Assumptions.*  Most say only that a bound is a number and that a null value is
not a member of its set.  Three are about the code's parameters:
`NonceTtl >= 2 * MaxSkew` (`AuthAssumption`), `InfTtl > 2 * InfSkew`
(`InfAssumption`), both true of the code's defaults, and `FeeBps <= 10000`
(`RobotAssumption`).  Some sets are finite (`Requests` of `Credits`, `Issuers`,
`RtRequests`) because a property counts their elements.  TLC evaluates all of
them in the runs.

*Only model-checked.*  The four liveness properties (`SubmittedGetsDone`,
`QueuedGetsDone`, `IntentsEnd`, `RolloutSettles`), as fairness and `ENABLED` are
outside the prover's reach; of `Rollout` only the safety is proved.  The
properties of the violation runs, which are false.

## 7. Not modelled

* Cryptography, what code does in its sandbox, the rules of the executor's
  subset checks, and the formats of Bluetooth packets.
* Dashboards, pages and views, and statements that only read.
* The anchor proxy and the bitcoind provider behind it: a rate limit and a
  chain of calls of an external wallet.
* The thresholds of the power policy and the amounts of issuance: pure
  arithmetic that no step of another component depends on; the verdict or the
  row they end in is an input.
* The earnings projection of the stats ledger, which only a summary reads (the
  node status projection, which registration reads, is in `Admission`).
* The control plane's gateway: it forwards an administrator's requests, or
  stores accounts, members and wallets one statement after another; no step of
  another component waits for what it keeps.
* The desktop's project commands: they are synchronous, run one after another
  on the main thread and share no state with the agent's monitor.
* An escalation resolver whose `maxRetries` is undefined, as it is when
  `ESCALATION_MAX_RETRIES` is not set (the spread of the configuration undoes the
  default, so that its loop tries nothing), and its path from an unexpected
  exception to "failed".
* Workers that also submit: `Credits` keeps `Owners` and `Workers` apart,
  although the phone's chat submits under its agent's id.
* A docker client that ends before its container for another reason than the
  timeout (`AgentLoop`), and the awaits between the check and the assignment in
  which the chat page restores its last conversation (`ChatPanel`), which would
  make the race of `desktop_history` wider.
* The worker's loop with all its kinds of work at once: each kind is in the
  module of its subsystem, and their product is beyond TLC.
* A restart of a coordinator loses the in-memory queue; nothing in the code
  recovers it, so the queue has no such step.

## 8. Plan

1. `MeshTasks` over `Gossip`: the first lets a coordinator remember every id it
   has seen, and `TakenOnceWithinMemory` says when the memory of the second is
   as good; a refinement would make the two one argument.
2. `Rollout` with the operator's view: as status and ack name the agent and not
   the rollout, an acknowledgement of an earlier rollout closes the one noted
   now before the agent has taken it up, and after an acknowledgement whose
   answer was lost the agent's last status turns an applied rollout into one in
   progress.

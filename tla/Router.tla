-------------------------------- MODULE Router --------------------------------
(***************************************************************************)
(* IntelligentRouter (model/router.ts) under overlapping requests of the   *)
(* IDE provider (apps/ide/provider-server.ts): a request goes to a nearby  *)
(* device, else to the local Ollama, else to the swarm, else to the        *)
(* offline stub.  A streamed chat occupies Ollama until the provider has   *)
(* passed the whole stream on.                                             *)
(***************************************************************************)
EXTENDS Naturals, FiniteSets

CONSTANTS
    RtRequests,   \* requests to the router
    LocalCap,     \* localConcurrencyCap
    SwarmEnabled, \* meshAuthToken is set
    MaxPolls      \* polls for a swarm result before the deadline

ASSUME RtAssumption == IsFiniteSet(RtRequests) /\ LocalCap \in Nat \ {0} /\ SwarmEnabled \in BOOLEAN /\ MaxPolls \in Nat

VARIABLES
    req,       \* where each request is
    active,    \* activeConcurrent
    slow,      \* the latency estimate is above its threshold
    samples,   \* latency samples, up to the three it takes
    swarmTasks \* swarm tasks: "running", "done" or none

rvars == << req, active, slow, samples, swarmTasks >>

RouterInit ==
    /\ req = [r \in RtRequests |-> [at |-> "new", stream |-> FALSE, polls |-> 0]]
    /\ active = 0 /\ slow = FALSE /\ samples = 0
    /\ swarmTasks = [r \in RtRequests |-> "none"]

Steps(r, from, to) == /\ req[r].at = from
                      /\ req' = [req EXCEPT ![r].at = to]

(* route or routeChat begins; only a chat can be streamed.                 *)
RouteArrives(r, stream) ==
    /\ req[r].at = "new"
    /\ req' = [req EXCEPT ![r] = [at |-> "bluetooth", stream |-> stream, polls |-> 0]]
    /\ UNCHANGED << active, slow, samples, swarmTasks >>

(* A device is near and its proxy answers, or not.                         *)
AskBluetooth(r, answers) ==
    /\ Steps(r, "bluetooth", IF answers THEN "answered" ELSE "viable")
    /\ UNCHANGED << active, slow, samples, swarmTasks >>

(* isLocalViable looks at the load and the latency, then asks for health.  *)
IsLocalViable(r) ==
    /\ Steps(r, "viable", IF active >= LocalCap \/ slow THEN "swarm" ELSE "health")
    /\ UNCHANGED << active, slow, samples, swarmTasks >>

Health(r, healthy) ==
    /\ Steps(r, "health", IF healthy THEN "local" ELSE "swarm")
    /\ active' = IF healthy THEN active + 1 ELSE active
    /\ UNCHANGED << slow, samples, swarmTasks >>

(* LatencyTracker: the estimate means nothing before three samples.        *)
Record(isSlow) ==
    /\ samples' = IF samples < 3 THEN samples + 1 ELSE samples
    /\ slow' = (samples' = 3 /\ isSlow)

Less(n) == IF n = 0 THEN 0 ELSE n - 1

(* Ollama answers a request that is not streamed.                          *)
LocalAnswers(r, isSlow) ==
    /\ ~req[r].stream /\ Steps(r, "local", "answered")
    /\ Record(isSlow) /\ active' = Less(active)
    /\ UNCHANGED swarmTasks

(* Faulty variant of LocalFails: a failed call stays counted.              *)
LocalFailsCounted(r) ==
    /\ Steps(r, "local", "swarm")
    /\ UNCHANGED << active, slow, samples, swarmTasks >>

(* Ollama fails; the request goes on to the swarm.                         *)
LocalFails(r) ==
    /\ Steps(r, "local", "swarm")
    /\ active' = Less(active)
    /\ UNCHANGED << slow, samples, swarmTasks >>

(* Of a streamed chat the answer's body is handed to the provider, which   *)
(* calls recordStreamComplete when it ends, with or without its done flag, *)
(* or breaks off.                                                          *)
StreamBegins(r) ==
    /\ req[r].stream /\ Steps(r, "local", "streaming")
    /\ UNCHANGED << active, slow, samples, swarmTasks >>

RecordStreamComplete(r, isSlow) ==
    /\ Steps(r, "streaming", "answered")
    /\ Record(isSlow) /\ active' = Less(active)
    /\ UNCHANGED swarmTasks

(* runViaSwarm: submit, then poll until a result or the deadline; without  *)
(* a mesh token the swarm is passed over.                                  *)
SwarmSubmit(r, accepted) ==
    /\ accepted => SwarmEnabled
    /\ Steps(r, "swarm", IF accepted THEN "polling" ELSE "stub")
    /\ swarmTasks' = IF accepted THEN [swarmTasks EXCEPT ![r] = "running"] ELSE swarmTasks
    /\ UNCHANGED << active, slow, samples >>

SwarmWorks(r) ==
    /\ swarmTasks[r] = "running" /\ swarmTasks' = [swarmTasks EXCEPT ![r] = "done"]
    /\ UNCHANGED << req, active, slow, samples >>

(* A poll finds the result, or does not (yet, or is lost).                 *)
SwarmPoll(r) ==
    /\ req[r].at = "polling"
    /\ req' = [req EXCEPT ![r] =
                 IF req[r].polls = MaxPolls THEN [@ EXCEPT !.at = "stub"] ELSE [@ EXCEPT !.polls = req[r].polls + 1]]
    /\ UNCHANGED << active, slow, samples, swarmTasks >>

SwarmResult(r) ==
    /\ swarmTasks[r] = "done" /\ Steps(r, "polling", "answered")
    /\ UNCHANGED << active, slow, samples, swarmTasks >>

(* The stub always answers.                                                *)
Stub(r) ==
    /\ Steps(r, "stub", "answered")
    /\ UNCHANGED << active, slow, samples, swarmTasks >>

(* The IDE asks again.                                                     *)
NextRequest(r) ==
    /\ Steps(r, "answered", "new") /\ swarmTasks' = [swarmTasks EXCEPT ![r] = "none"]
    /\ UNCHANGED << active, slow, samples >>

RouterNext ==
    \E r \in RtRequests :
      \/ IsLocalViable(r) \/ LocalFails(r) \/ StreamBegins(r) \/ SwarmWorks(r) \/ SwarmPoll(r)
      \/ SwarmResult(r) \/ Stub(r) \/ NextRequest(r)
      \/ \E b \in BOOLEAN : \/ RouteArrives(r, b) \/ AskBluetooth(r, b) \/ Health(r, b) \/ LocalAnswers(r, b)
                            \/ RecordStreamComplete(r, b) \/ SwarmSubmit(r, b)

RouterSpec == RouterInit /\ [][RouterNext]_rvars

-----------------------------------------------------------------------------
(* The counter by which requests are turned away from Ollama is the number *)
(* of those Ollama is busy with, failures and broken streams included: it  *)
(* neither leaks, which would close the local route for good, nor runs low. *)
CountIsLoad == active = Cardinality({r \in RtRequests : req[r].at \in {"local", "streaming"}})

-----------------------------------------------------------------------------
(***************************************************************************)
(* Which model a node runs: the swap of the active model (model/swap.ts,   *)
(* model/swap-routes.ts), the pulls it starts in the background with the   *)
(* one tracker they share (model/pull-tracker.ts), and the installer that  *)
(* brings Ollama and a model onto the machine (model/ollama-installer.ts). *)
(* Ollama itself is external: it may stop at any time, and its user may    *)
(* remove models.                                                          *)
(***************************************************************************)
CONSTANTS
    MdModels,    \* models
    FirstModel,  \* the model a node is configured with
    NoPull,
    Swaps,       \* requests to swap that may be under way together
    Installs,    \* installations that may be under way together
    MaxWaits     \* readiness checks before the installer gives up

ASSUME MdAssumption == FirstModel \in MdModels /\ NoPull \notin MdModels /\ MaxWaits \in Nat

VARIABLES
    binary,      \* the ollama program is on the machine
    serving,     \* ollama serve answers
    present,     \* models Ollama has
    activeModel, \* the node's active model
    swap,        \* swaps under way: the model whose pull was asked for
    pulls,       \* pulls that are streaming
    tracker,     \* PullTracker.current
    install      \* installations under way

ovars == << binary, serving, present, activeModel, swap, pulls, tracker, install >>

IdleInstall == [at |-> "idle", model |-> NoPull, waits |-> 0]

ModelsInit ==
    /\ binary = FALSE /\ serving = FALSE /\ present = {}
    /\ activeModel = FirstModel
    /\ swap = [i \in Swaps |-> NoPull] /\ pulls = {} /\ tracker = [model |-> NoPull, failed |-> FALSE]
    /\ install = [j \in Installs |-> IdleInstall]

Gets(m) == present' = present \union {m}

(* Ollama stops or is started by hand; a model is removed.                 *)
OllamaChanges ==
    /\ \/ serving' = ~serving /\ (serving' => binary) /\ UNCHANGED present
       \/ \E m \in present : present' = present \ {m} /\ UNCHANGED serving
    /\ UNCHANGED << binary, activeModel, swap, pulls, tracker, install >>

-----------------------------------------------------------------------------

(* What swapModel reports as active.                                       *)
SwapActive(m) == IF m \in present THEN m ELSE activeModel

(* POST /model/swap: a model Ollama has becomes active, of another a pull  *)
(* is started.  With Ollama down the answer is an error.                   *)
SwapModel(i, m) ==
    /\ swap[i] = NoPull /\ serving
    /\ activeModel' = SwapActive(m)
    /\ swap' = IF m \in present THEN swap ELSE [swap EXCEPT ![i] = m]
    /\ tracker' = IF m \in present THEN tracker ELSE [model |-> m, failed |-> FALSE]
    /\ UNCHANGED << binary, serving, present, pulls, install >>

(* Faulty variant of FailPull: only what is streaming can fail.            *)
FailPullStreaming(m) == tracker' = [tracker EXCEPT !.failed = tracker.model # NoPull /\ m \in pulls]

FailPull(m) == tracker' = [tracker EXCEPT !.failed = tracker.model # NoPull]

(* The answer to the request for the pull: its stream, or a failure.       *)
PullAnswered(i, ok) ==
    /\ swap[i] # NoPull /\ swap' = [swap EXCEPT ![i] = NoPull]
    /\ IF ok /\ serving THEN pulls' = pulls \union {swap[i]} /\ UNCHANGED tracker
                        ELSE FailPull(swap[i]) /\ UNCHANGED pulls
    /\ UNCHANGED << binary, serving, present, activeModel, install >>

(* processStreamingPull: the stream ends, with the model, cut short, or    *)
(* with an error.  Whatever pull it was, the tracker's one entry is        *)
(* completed or failed.                                                    *)
StreamEnds(m, how) ==
    /\ m \in pulls /\ pulls' = pulls \ {m}
    /\ IF how = "pulled" THEN Gets(m) ELSE UNCHANGED present
    /\ IF how = "error" THEN FailPull(m) ELSE tracker' = [model |-> NoPull, failed |-> FALSE]
    /\ UNCHANGED << binary, serving, activeModel, swap, install >>

-----------------------------------------------------------------------------
To(j, at) == install' = [install EXCEPT ![j].at = at]
Keep == UNCHANGED << activeModel, swap, pulls, tracker >>

(* ensureOllamaModelInstalled begins (not on iOS, and only when asked to). *)
EnsureBegins(j, m) ==
    /\ install[j] = IdleInstall
    /\ install' = [install EXCEPT ![j] = [at |-> "binary", model |-> m, waits |-> 0]]
    /\ UNCHANGED << binary, serving, present >> /\ Keep

(* Install the program if it is missing, and look again.                   *)
InstallBinary(j, works) ==
    /\ install[j].at = "binary"
    /\ binary' = (binary \/ works)
    /\ IF binary' THEN To(j, "serve") ELSE install' = [install EXCEPT ![j] = IdleInstall]
    /\ UNCHANGED << serving, present >> /\ Keep

(* Start the server unless it answers, and wait for it.                    *)
StartServe(j) ==
    /\ install[j].at = "serve"
    /\ To(j, IF serving THEN "pull" ELSE "wait")
    /\ UNCHANGED << binary, serving, present >> /\ Keep

WaitReady(j) ==
    /\ install[j].at = "wait"
    /\ \/ serving' = TRUE /\ To(j, "pull")
       \/ /\ UNCHANGED serving
          /\ install' = [install EXCEPT ![j] =
                           IF @.waits = MaxWaits THEN IdleInstall ELSE [@ EXCEPT !.waits = @ + 1]]
    /\ UNCHANGED << binary, present >> /\ Keep

(* ollama pull; a failure is thrown to the caller.                         *)
RunPull(j, ok) ==
    /\ install[j].at = "pull"
    /\ IF ok /\ serving THEN Gets(install[j].model) ELSE UNCHANGED present
    /\ install' = [install EXCEPT ![j] = IdleInstall]
    /\ UNCHANGED << binary, serving >> /\ Keep

ModelsNext ==
    \/ OllamaChanges
    \/ \E m \in MdModels : (\E i \in Swaps : SwapModel(i, m)) \/ (\E j \in Installs : EnsureBegins(j, m))
    \/ \E m \in pulls, how \in {"pulled", "cut", "error"} : StreamEnds(m, how)
    \/ \E j \in Installs : StartServe(j) \/ WaitReady(j)
    \/ \E ok \in BOOLEAN : \/ \E i \in Swaps : PullAnswered(i, ok)
                           \/ \E j \in Installs : InstallBinary(j, ok) \/ RunPull(j, ok)

ModelsSpec == ModelsInit /\ [][ModelsNext]_ovars

-----------------------------------------------------------------------------

(* When no pull is under way any more none is shown as running: although   *)
(* overlapping pulls complete and fail each other's entry, the last one to *)
(* end leaves the tracker empty or failed.                                 *)
TrackerSettles ==
    pulls = {} /\ (\A i \in Swaps : swap[i] = NoPull) => tracker.model = NoPull \/ tracker.failed
=============================================================================

------------------------------ MODULE IosRuntime ------------------------------
(***************************************************************************)
(* SwarmRuntimeController, the agent of the iPhone: a loop registers,      *)
(* sends heartbeats and works on subtasks, while the user starts, pauses,  *)
(* stops and registers anew.  All of it is on the main actor, so a step    *)
(* here is what runs between two awaits.  A loop that is cancelled goes on *)
(* to its next check of isCancelled; inference cannot be interrupted.      *)
(***************************************************************************)
EXTENDS Naturals, FiniteSets

CONSTANTS
    Loops,           \* runs of runtimeLoop
    PhoneSubs,       \* subtasks of the coordinator
    OfflineAfter,    \* heartbeat failures after which the phone is offline
    NoSub

ASSUME IosRuntimeAssumption == OfflineAfter \in Nat \ {0} /\ NoSub \notin PhoneSubs

VARIABLES
    rt,          \* state
    starting,    \* calls of start that wait for discoverCoordinators
    loopAt,      \* where each loop is
    cancelled,   \* loops whose task was cancelled
    holds,       \* subtask each loop is working on
    rereg,       \* where reregisterAgent is
    meshTok, regTok,
    beatFails, phoneOffline, bleOn,
    processing,  \* isProcessingTask
    subAt,       \* at the coordinator: "queued", "handed" or "answered"
    counted      \* subtasks counted in tasksCompleted or tasksFailed

ipvars == << rt, starting, loopAt, cancelled, holds, rereg, meshTok, regTok, beatFails, phoneOffline, bleOn,
             processing, subAt, counted >>
tokens == << meshTok, regTok >>
beats  == << beatFails, phoneOffline >>
work   == << processing, subAt, counted, holds >>

IosRuntimeInit ==
    /\ rt = "stopped" /\ starting = 0 /\ loopAt = [l \in Loops |-> "none"] /\ cancelled = {}
    /\ holds = [l \in Loops |-> NoSub] /\ rereg = "no" /\ meshTok = FALSE /\ regTok = FALSE
    /\ beatFails = 0 /\ phoneOffline = FALSE /\ bleOn = FALSE
    /\ processing = FALSE /\ subAt = [s \in PhoneSubs |-> "queued"] /\ counted = {}

Live(l) == loopAt[l] \notin {"none", "ended"} /\ l \notin cancelled
To(l, at) == loopAt' = [loopAt EXCEPT ![l] = at]

-----------------------------------------------------------------------------
(* start, up to its await: the loop runs and the state says so.            *)
RuntimeStart(l) ==
    /\ rt # "running" /\ loopAt[l] = "none"
    /\ cancelled' = cancelled \union {k \in Loops : Live(k)} /\ To(l, "top")
    /\ rt' = "running" /\ starting' = starting + 1
    /\ UNCHANGED << rereg, tokens, beats, bleOn, work >>

(* The rest of start, whatever the user did meanwhile.                     *)
StartGoesOn ==
    /\ starting > 0 /\ starting' = starting - 1 /\ bleOn' = TRUE
    /\ UNCHANGED << rt, loopAt, cancelled, rereg, tokens, beats, work >>

(* Faulty variant of CancelsTask: the task is let go without a cancel.     *)
LetsGo == UNCHANGED cancelled

(* runtimeTask?.cancel() of pause and stop.                                *)
CancelsTask == cancelled' = cancelled \union {l \in Loops : Live(l)}

RuntimePause ==
    /\ rt = "running" /\ rt' = "paused" /\ CancelsTask
    /\ UNCHANGED << starting, loopAt, rereg, tokens, beats, bleOn, work >>

RuntimeStop ==
    /\ rt # "stopped" /\ rt' = "stopped" /\ CancelsTask /\ bleOn' = FALSE
    /\ UNCHANGED << starting, loopAt, rereg, tokens, beats, work >>

-----------------------------------------------------------------------------
(* The top of the loop: with a mesh token registerAgent returns at once.   *)
LoopTop(l) ==
    /\ loopAt[l] = "top"
    /\ To(l, IF l \in cancelled THEN "ended" ELSE IF meshTok THEN "beating" ELSE "registering")
    /\ UNCHANGED << rt, starting, cancelled, rereg, tokens, beats, bleOn, work >>

(* An answer to /register.  After an enrollment error both tokens go and   *)
(* the node enrolls again; any other failure is tried again.               *)
RegisterAgent(how) ==
    CASE how = "issued" -> meshTok' = TRUE /\ UNCHANGED regTok
      [] how = "enrollment" -> meshTok' = FALSE /\ regTok' = FALSE
      [] OTHER -> UNCHANGED tokens

RegisterAnswered(l, how) ==
    /\ loopAt[l] = "registering" /\ RegisterAgent(how)
    /\ To(l, CASE how = "enrollment" -> "enrolling" [] how = "failed" -> "top" [] OTHER -> "beating")
    /\ UNCHANGED << rt, starting, cancelled, rereg, beats, bleOn, work >>

EnsureEnrollment(ok) == regTok' = (regTok \/ ok) /\ UNCHANGED meshTok

LoopEnrolled(l, ok) ==
    /\ loopAt[l] = "enrolling" /\ EnsureEnrollment(ok) /\ To(l, "top")
    /\ UNCHANGED << rt, starting, cancelled, rereg, beats, bleOn, work >>

(* sendHeartbeat: failures in a row make the phone offline (the count is   *)
(* kept up to OfflineAfter here); an unauthorized one drops the token.     *)
SendHeartbeat(how) ==
    IF how = "ok" THEN beatFails' = 0 /\ phoneOffline' = FALSE /\ UNCHANGED meshTok
    ELSE /\ beatFails' = IF beatFails < OfflineAfter THEN beatFails + 1 ELSE beatFails
         /\ phoneOffline' = (beatFails + 1 >= OfflineAfter)
         /\ meshTok' = (meshTok /\ how # "unauthorized")

LoopBeats(l, how) ==
    /\ loopAt[l] = "beating" /\ SendHeartbeat(how) /\ To(l, "poll")
    /\ UNCHANGED << rt, starting, cancelled, rereg, regTok, bleOn, work >>

-----------------------------------------------------------------------------
(* A turn of the polls between two heartbeats: nothing without a ready     *)
(* model or while a task is being processed.                               *)
PollStarts(l) ==
    /\ loopAt[l] = "poll" /\ l \notin cancelled /\ ~processing /\ To(l, "pulling")
    /\ UNCHANGED << rt, starting, cancelled, rereg, tokens, beats, bleOn, work >>

PollsEnd(l) ==
    /\ loopAt[l] = "poll" /\ To(l, "top")
    /\ UNCHANGED << rt, starting, cancelled, rereg, tokens, beats, bleOn, work >>

PulledTask(l, s) ==
    /\ loopAt[l] = "pulling" /\ subAt[s] = "queued" /\ subAt' = [subAt EXCEPT ![s] = "handed"]
    /\ processing' = TRUE /\ holds' = [holds EXCEPT ![l] = s] /\ To(l, "inferring")
    /\ UNCHANGED << rt, starting, cancelled, rereg, tokens, beats, bleOn, counted >>

(* No subtask, or an error; the answer with a subtask may be what is lost. *)
PullYieldsNone(l, error) ==
    /\ loopAt[l] = "pulling" /\ To(l, "poll")
    /\ processing' = (processing /\ ~error)
    /\ subAt' \in {subAt} \union IF error THEN {[subAt EXCEPT ![s] = "handed"] : s \in {t \in PhoneSubs : subAt[t] = "queued"}}
                                          ELSE {}
    /\ UNCHANGED << rt, starting, cancelled, rereg, tokens, beats, bleOn, counted, holds >>

InferenceEnds(l) ==
    /\ loopAt[l] = "inferring" /\ To(l, "posting")
    /\ UNCHANGED << rt, starting, cancelled, rereg, tokens, beats, bleOn, work >>

(* The catch clauses of pollAndExecuteTask.                                *)
ResultCaught == processing' = FALSE

(* /result is answered, or throws: also when the loop was cancelled, and   *)
(* then the coordinator may have the result all the same.                  *)
ResultPosted(l, taken, answered) ==
    /\ loopAt[l] = "posting" /\ (answered => taken)
    /\ subAt' = IF taken THEN [subAt EXCEPT ![holds[l]] = "answered"] ELSE subAt
    /\ IF answered THEN counted' = counted \union {holds[l]} /\ processing' = FALSE
                   ELSE ResultCaught /\ UNCHANGED counted
    /\ holds' = [holds EXCEPT ![l] = NoSub] /\ To(l, "poll")
    /\ UNCHANGED << rt, starting, cancelled, rereg, tokens, beats, bleOn >>

-----------------------------------------------------------------------------
(* reregisterAgent: both tokens go, then enrollment, registration and a    *)
(* heartbeat if the runtime is running.                                    *)
ReregisterStart ==
    /\ rereg = "no" /\ rereg' = "enrolling" /\ meshTok' = FALSE /\ regTok' = FALSE
    /\ UNCHANGED << rt, starting, loopAt, cancelled, beats, bleOn, work >>

ReregisterEnrolled(ok) ==
    /\ rereg = "enrolling" /\ EnsureEnrollment(ok)
    /\ rereg' = CASE ~regTok' -> "no" [] ~meshTok -> "registering" [] rt = "running" -> "beating" [] OTHER -> "no"
    /\ UNCHANGED << rt, starting, loopAt, cancelled, beats, bleOn, work >>

ReregisterAnswered(how) ==
    /\ rereg = "registering" /\ RegisterAgent(how)
    /\ rereg' = CASE how = "enrollment" -> "again" [] how # "failed" /\ rt = "running" -> "beating" [] OTHER -> "no"
    /\ UNCHANGED << rt, starting, loopAt, cancelled, beats, bleOn, work >>

ReregisterEnds(ok, how) ==
    /\ \/ rereg = "again" /\ EnsureEnrollment(ok) /\ UNCHANGED beats
       \/ rereg = "beating" /\ SendHeartbeat(how) /\ UNCHANGED regTok
    /\ rereg' = "no"
    /\ UNCHANGED << rt, starting, loopAt, cancelled, bleOn, work >>

RegisterAnswers  == {"issued", "accepted", "enrollment", "failed"}
HeartbeatAnswers == {"ok", "unauthorized", "failed"}

IosRuntimeNext ==
    \/ StartGoesOn \/ RuntimePause \/ RuntimeStop \/ ReregisterStart
    \/ \E l \in Loops : \/ RuntimeStart(l) \/ LoopTop(l) \/ PollStarts(l) \/ PollsEnd(l) \/ InferenceEnds(l)
                        \/ \E how \in RegisterAnswers : RegisterAnswered(l, how)
                        \/ \E how \in HeartbeatAnswers : LoopBeats(l, how)
                        \/ \E s \in PhoneSubs : PulledTask(l, s)
                        \/ \E b \in BOOLEAN : LoopEnrolled(l, b) \/ PullYieldsNone(l, b) \/ \E c \in BOOLEAN : ResultPosted(l, b, c)
    \/ \E how \in RegisterAnswers : ReregisterAnswered(how)
    \/ \E b \in BOOLEAN : ReregisterEnrolled(b) \/ \E how \in HeartbeatAnswers : ReregisterEnds(b, how)

IosRuntimeSpec == IosRuntimeInit /\ [][IosRuntimeNext]_ipvars

-----------------------------------------------------------------------------
(* One loop runs when the runtime says it is running and none otherwise:   *)
(* pausing and starting again while the old loop awaits leaves no second.  *)
OneLiveLoop == Cardinality({l \in Loops : Live(l)}) = IF rt = "running" THEN 1 ELSE 0

-----------------------------------------------------------------------------
(***************************************************************************)
(* The models of an iPhone: LocalModelManager keeps a registry of          *)
(* downloaded files and loads one of them into llama.cpp, and              *)
(* BLEMeshManager advertises a model to the devices nearby.  All of it     *)
(* runs on the main actor; only a download awaits, so whatever the user    *)
(* does meanwhile happens between its start and its end.                   *)
(***************************************************************************)
CONSTANTS
    PhoneModels,   \* the catalog
    Downloads,     \* calls of downloadModel
    NoModel

ASSUME IosModelsAssumption == NoModel \notin PhoneModels

VARIABLES
    mmState,       \* state of LocalModelManager
    mmSelected,    \* selectedModel, as saved under activeModelKey
    registry,      \* installedModels: model -> number of entries
    paths,         \* models whose stored localPath is of this installation
    files,         \* files in the models directory
    loaded,        \* what llama.cpp holds
    downloading,   \* call -> model it downloads, or NoModel
    halfDeleted,   \* history: models whose entry outlived their file, as
                   \* the app died inside deleteModel
    advertised,    \* model in the identity characteristic, or NoModel
    runtimeOn      \* the runtime has given the mesh manager an agent id

mmvars == << mmState, mmSelected, registry, paths, files, loaded, downloading, halfDeleted,
             advertised, runtimeOn >>
modelStore == << registry, paths, files, halfDeleted >>

InstalledIds == {m \in PhoneModels : registry[m] > 0}

IosModelsInit ==
    /\ mmState = "notInstalled" /\ mmSelected = NoModel /\ loaded = NoModel
    /\ registry = [m \in PhoneModels |-> 0] /\ paths = {} /\ files = {} /\ halfDeleted = {}
    /\ downloading = [d \in Downloads |-> NoModel]
    /\ advertised = NoModel /\ runtimeOn = FALSE

-----------------------------------------------------------------------------

(* The new model does not load: the previous one is loaded again, by the   *)
(* path that was stored for it.                                            *)
AfterFailedLoad(m) == /\ loaded' = IF mmSelected \in InstalledIds \intersect files \intersect paths
                                   THEN mmSelected ELSE NoModel
                      /\ UNCHANGED mmSelected

(* activate: modelSwapStarted stops advertising, the old model is          *)
(* unloaded; with the new one modelDidChange advertises again.  loadModel  *)
(* may throw.                                                              *)
Activate(m, loads) ==
    /\ m \in InstalledIds /\ (loads => m \in files)
    /\ IF loads THEN /\ mmSelected' = m /\ loaded' = m /\ mmState' = "ready"
                     /\ advertised' = IF runtimeOn THEN m ELSE NoModel
                ELSE AfterFailedLoad(m) /\ mmState' = "error" /\ advertised' = NoModel
    /\ UNCHANGED << modelStore, downloading, runtimeOn >>

-----------------------------------------------------------------------------
(* The library lists what the registry does not hold, so a model whose     *)
(* download is on its way is offered again.                                *)
StartDownload(d, m) ==
    /\ downloading[d] = NoModel /\ m \notin InstalledIds
    /\ downloading' = [downloading EXCEPT ![d] = m] /\ mmState' = "downloading"
    /\ UNCHANGED << mmSelected, modelStore, loaded, advertised, runtimeOn >>

(* The network fails, or a file of this name is there: state is not reset. *)
DownloadThrows(d) ==
    /\ downloading[d] # NoModel /\ downloading' = [downloading EXCEPT ![d] = NoModel]
    /\ UNCHANGED << mmState, mmSelected, modelStore, loaded, advertised, runtimeOn >>

ChecksumMismatch(d) ==
    /\ downloading[d] # NoModel /\ downloading' = [downloading EXCEPT ![d] = NoModel]
    /\ mmState' = "error"
    /\ UNCHANGED << mmSelected, modelStore, loaded, advertised, runtimeOn >>

(* Faulty variant of Arrives: an existing file is replaced.                *)
ArrivesOver(m) == TRUE

(* moveItem throws when the destination exists.                            *)
Arrives(m) == m \notin files

DownloadEnds(d) ==
    LET m == downloading[d] IN
    /\ m # NoModel /\ Arrives(m)
    /\ downloading' = [downloading EXCEPT ![d] = NoModel]
    /\ files' = files \union {m} /\ registry' = [registry EXCEPT ![m] = @ + 1]
    /\ paths' = paths \union {m} /\ mmState' = "ready"
    /\ UNCHANGED << mmSelected, loaded, halfDeleted, advertised, runtimeOn >>

(* downloadTask is never set: the button changes the state alone.          *)
CancelDownload ==
    /\ mmState = "downloading" /\ mmState' = IF InstalledIds = {} THEN "notInstalled" ELSE "ready"
    /\ UNCHANGED << mmSelected, modelStore, loaded, downloading, advertised, runtimeOn >>

(* deleteModel, up to the removal of the file ...                          *)
Deselects(m) == mmSelected' = IF mmSelected = m THEN NoModel ELSE mmSelected

(* ... which may fail: the entry goes all the same.  What is advertised    *)
(* stays.                                                                  *)
DeleteModel(m, removed) ==
    /\ m \in InstalledIds /\ Deselects(m)
    /\ IF mmSelected = m THEN loaded' = NoModel /\ mmState' = "notInstalled" ELSE UNCHANGED << loaded, mmState >>
    /\ files' = IF removed THEN files \ {m} ELSE files
    /\ registry' = [registry EXCEPT ![m] = 0] /\ halfDeleted' = halfDeleted \ {m}
    /\ UNCHANGED << paths, downloading, advertised, runtimeOn >>

-----------------------------------------------------------------------------
(* start and stop of the runtime, the radio being on.                      *)
AdvertiseOnStart ==
    /\ ~runtimeOn /\ runtimeOn' = TRUE /\ advertised' = mmSelected
    /\ UNCHANGED << mmState, mmSelected, modelStore, loaded, downloading >>

StopsAdvertising ==
    /\ runtimeOn /\ runtimeOn' = FALSE /\ advertised' = NoModel
    /\ UNCHANGED << mmState, mmSelected, modelStore, loaded, downloading >>

(* The app is launched again, perhaps after a reinstall that moved its     *)
(* container; the saved model is loaded.                                   *)
Launches(moved, loads) ==
    /\ downloading' = [d \in Downloads |-> NoModel] /\ advertised' = NoModel /\ runtimeOn' = FALSE
    /\ paths' = IF moved THEN {} ELSE paths
    /\ loads => mmSelected' \in files'
    /\ loaded' = IF loads THEN mmSelected' ELSE NoModel
    /\ mmState' = IF mmSelected' = NoModel THEN "notInstalled" ELSE IF loads THEN "ready" ELSE "error"

Relaunch(moved, loads) ==
    UNCHANGED << mmSelected, registry, files, halfDeleted >> /\ Launches(moved, loads)

(* The app dies between moveItem and saveRegistry: a file nobody lists ... *)
DiesAfterMove(d, moved, loads) ==
    /\ downloading[d] # NoModel /\ Arrives(downloading[d])
    /\ files' = files \union {downloading[d]}
    /\ UNCHANGED << mmSelected, registry, halfDeleted >> /\ Launches(moved, loads)

(* ... or between removeItem and saveRegistry: an entry without its file.  *)
DiesAfterRemoval(m, moved, loads) ==
    /\ m \in InstalledIds /\ Deselects(m)
    /\ files' = files \ {m} /\ halfDeleted' = halfDeleted \union {m}
    /\ UNCHANGED registry /\ Launches(moved, loads)

Deaths(moved, loads) ==
    \/ Relaunch(moved, loads)
    \/ \E d \in Downloads : DiesAfterMove(d, moved, loads)
    \/ \E m \in PhoneModels : DiesAfterRemoval(m, moved, loads)

IosModelsNext ==
    \/ CancelDownload \/ AdvertiseOnStart \/ StopsAdvertising
    \/ \E b \in BOOLEAN : \/ \E loads \in BOOLEAN : Deaths(b, loads)
                          \/ \E m \in PhoneModels : Activate(m, b) \/ DeleteModel(m, b)
    \/ \E m \in PhoneModels, d \in Downloads : StartDownload(d, m)
    \/ \E d \in Downloads : DownloadThrows(d) \/ ChecksumMismatch(d) \/ DownloadEnds(d)

IosModelsSpec == IosModelsInit /\ [][IosModelsNext]_mmvars

-----------------------------------------------------------------------------

(* A model has at most one registry entry, and the entry has its file      *)
(* unless the app died inside deleteModel: downloads of one model that     *)
(* overlap, deletions during a download, removals that fail and deaths     *)
(* between the file and the registry included.  The converse does not      *)
(* hold: a file nobody lists stays, and keeps its model from being         *)
(* downloaded again.                                                       *)
OneEntryWithFile ==
    \A m \in PhoneModels :
      registry[m] <= 1 /\ (registry[m] = 1 => m \in files \union halfDeleted)
=============================================================================

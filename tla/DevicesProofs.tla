--------------------------- MODULE DevicesProofs ----------------------------
(***************************************************************************)
(* Phones, desktops and IDEs: for any number of calls, tasks, models,      *)
(* peers, panels and questions.                                            *)
(***************************************************************************)
EXTENDS IosBle, IosRuntime, IdeBle, BleOutbound, Desktop, MeshPeer, ChatPanel,
        FiniteSetTheorems, TLAPS

-----------------------------------------------------------------------------
(***************************************************************************)
(* iPhone over Bluetooth. The continuation of a call is resumed once:      *)
(* whoever finds a call in the slot resumes it, so the slot must hold one  *)
(* that waits (SlotWaits).                                                 *)
(***************************************************************************)
(* The call in the slot is one that waits: what keeps ResumedOnce          *)
(* inductive, for whoever finds a call in the slot resumes it.             *)
SlotWaits == cont = NoSend \/ (cont \in Sends /\ sendState[cont] = "waiting")

ResumeInv ==
    /\ sendState \in [Sends -> {"new", "waiting", "returned"}]
    /\ returns \in [Sends -> Nat]
    /\ SlotWaits
    /\ ResumedOnce

(* Resuming the call in the slot, if there is one, keeps the invariant.    *)
LEMMA TakeAndResumeInv ==
    ASSUME ResumeInv, TakeAndResume
    PROVE  ResumeInv'
<1> USE IosBleAssumption DEF ResumeInv, SlotWaits, ResumedOnce
<1>1. CASE cont = NoSend
  BY <1>1 DEF TakeAndResume
<1>2. CASE cont # NoSend
  BY <1>2 DEF TakeAndResume, Resumed
<1> QED BY <1>1, <1>2

(* A call that starts takes the slot, or returns at once when its peer is  *)
(* not reachable.                                                          *)
LEMMA SendTaskInv ==
    ASSUME ResumeInv, NEW c \in Sends, NEW p \in SendPeers, SendTask(c, p)
    PROVE  ResumeInv'
<1> USE IosBleAssumption DEF ResumeInv, SlotWaits, ResumedOnce, SendTask
<1>1. CASE p \in reachable
  BY <1>1
<1>2. CASE p \notin reachable
  BY <1>2 DEF Resumed
<1> QED BY <1>1, <1>2

(* For any number of calls, peers and connections the continuation of a    *)
(* call is resumed once, whichever of its answer, its failures and the     *)
(* timers comes first.                                                     *)
THEOREM ResumesOnce == IosBleSpec => []ResumedOnce
<1>1. IosBleInit => ResumeInv
  BY IosBleAssumption DEF IosBleInit, ResumeInv, SlotWaits, ResumedOnce
<1>2. ResumeInv /\ [IosBleNext]_ibvars => ResumeInv'
  <2> SUFFICES ASSUME ResumeInv, [IosBleNext]_ibvars PROVE ResumeInv'
    OBVIOUS
  <2>1. ASSUME UNCHANGED << sendState, returns, cont >> PROVE ResumeInv'
    BY <2>1 DEF ResumeInv, SlotWaits, ResumedOnce
  <2>2. CASE WriteOutboundTask
    BY <2>1, <2>2 DEF WriteOutboundTask
  <2>3. CASE DidFailToWrite
    BY <2>3, TakeAndResumeInv DEF DidFailToWrite, WriteFailed
  <2>4. ASSUME NEW p \in SendPeers,
               DidDiscover(p) \/ ParsePeerIdentity(p) \/ \E b \in BOOLEAN : DidDisconnect(p, b)
        PROVE  ResumeInv'
    BY <2>1, <2>4 DEF DidDiscover, ParsePeerIdentity, DidDisconnect
  <2>5. ASSUME NEW p \in SendPeers, DidFailToConnect(p) PROVE ResumeInv'
    BY <2>5, TakeAndResumeInv DEF DidFailToConnect
  <2>6. ASSUME NEW c \in Sends, SendTimeout(c) PROVE ResumeInv'
    BY <2>6, TakeAndResumeInv DEF SendTimeout, TimerFires
  <2>7. ASSUME NEW w \in working, HandleOutboundTaskResponse(w) PROVE ResumeInv'
    <3>1. CASE partial
      BY <2>1, <2>7, <3>1 DEF HandleOutboundTaskResponse
    <3>2. CASE ~partial
      BY <2>7, <3>2, TakeAndResumeInv DEF HandleOutboundTaskResponse
    <3> QED BY <3>1, <3>2
  <2>8. CASE UNCHANGED ibvars
    BY <2>1, <2>8 DEF ibvars
  <2> QED BY <2>2, <2>3, <2>4, <2>5, <2>6, <2>7, <2>8, SendTaskInv DEF IosBleNext
<1>3. ResumeInv => ResumedOnce
  BY DEF ResumeInv
<1> QED BY <1>1, <1>2, <1>3, PTL DEF IosBleSpec

-----------------------------------------------------------------------------
(***************************************************************************)
(* iPhone runtime. At most one agent loop is live, and exactly one while   *)
(* the runtime runs (LoopInv): a loop that has not started was not         *)
(* cancelled, so a start always makes one.                                 *)
(***************************************************************************)
LiveLoops == {l \in Loops : Live(l)}

(* Where a loop that runs may be.                                          *)
Inside == {"top", "registering", "enrolling", "beating", "poll", "pulling", "inferring", "posting"}

(* A loop that has not started was not cancelled, so that it will live.    *)
LoopInv ==
    /\ loopAt \in [Loops -> Inside \union {"none", "ended"}]
    /\ \A l \in Loops : l \in cancelled => loopAt[l] # "none"
    /\ IF rt = "running" THEN \E l \in Loops : LiveLoops = {l} ELSE LiveLoops = {}

(* Loop l moves on, and ends only when it was cancelled.                   *)
MovesOn(l) ==
    /\ loopAt[l] \in Inside
    /\ \/ \E at \in Inside : To(l, at)
       \/ l \in cancelled /\ To(l, "ended")
    /\ UNCHANGED << rt, cancelled >>

(* A step inside a loop neither starts nor ends a live one.                *)
LEMMA LoopStepInv ==
    ASSUME LoopInv, NEW l \in Loops, MovesOn(l)
    PROVE  LoopInv'
<1>1. PICK at \in Inside \union {"ended"} : loopAt' = [loopAt EXCEPT ![l] = at] /\ (at = "ended" => l \in cancelled)
  BY DEF MovesOn, To, Inside
<1>2. \A k \in Loops : Live(k)' <=> Live(k)
  BY <1>1 DEF LoopInv, Live, MovesOn, Inside
<1>3. LiveLoops' = LiveLoops
  BY <1>2 DEF LiveLoops
<1>4. loopAt' \in [Loops -> Inside \union {"none", "ended"}]
  BY <1>1 DEF LoopInv
<1>5. \A k \in Loops : k \in cancelled' => loopAt'[k] # "none"
  BY <1>1 DEF LoopInv, MovesOn, Inside
<1> QED BY <1>3, <1>4, <1>5 DEF LoopInv, MovesOn

(* A loop starts when the runtime does not run: it is the only live one.   *)
LEMMA StartInv ==
    ASSUME LoopInv, NEW l \in Loops, RuntimeStart(l)
    PROVE  LoopInv'
<1>1. LiveLoops = {} /\ loopAt[l] = "none" /\ l \notin cancelled
  BY DEF LoopInv, RuntimeStart
<1>2. /\ cancelled' = cancelled /\ rt' = "running"
      /\ loopAt' = [loopAt EXCEPT ![l] = "top"]
  BY <1>1 DEF RuntimeStart, To, LiveLoops
<1>3. \A k \in Loops : Live(k)' <=> Live(k) \/ k = l
  BY <1>1, <1>2 DEF LoopInv, Live
<1>4. LiveLoops' = {l}
  BY <1>1, <1>3 DEF LiveLoops
<1>5. loopAt' \in [Loops -> Inside \union {"none", "ended"}]
  BY <1>2 DEF LoopInv, Inside
<1>6. \A k \in Loops : k \in cancelled' => loopAt'[k] # "none"
  BY <1>1, <1>2 DEF LoopInv
<1> QED BY <1>2, <1>4, <1>5, <1>6 DEF LoopInv

(* Pausing and stopping leave no live loop.                                *)
LEMMA CancelInv ==
    ASSUME LoopInv, CancelsTask, rt' # "running", UNCHANGED loopAt
    PROVE  LoopInv'
<1>1. cancelled' = cancelled \union LiveLoops
  BY DEF CancelsTask, LiveLoops
<1>2. \A k \in Loops : ~Live(k)'
  BY <1>1 DEF Live, LiveLoops
<1>3. LiveLoops' = {}
  BY <1>2 DEF LiveLoops
<1> QED BY <1>1, <1>3 DEF LoopInv, LiveLoops, Live

(* Every step keeps the invariant, one case for each group of actions.     *)
LEMMA LoopInvStep == LoopInv /\ [IosRuntimeNext]_ipvars => LoopInv'
<1> SUFFICES ASSUME LoopInv, [IosRuntimeNext]_ipvars PROVE LoopInv'
  OBVIOUS
<1>1. ASSUME UNCHANGED << rt, loopAt, cancelled >> PROVE LoopInv'
  BY <1>1 DEF LoopInv, LiveLoops, Live
<1>2. CASE StartGoesOn \/ ReregisterStart
  BY <1>1, <1>2 DEF StartGoesOn, ReregisterStart
<1>3. CASE RuntimePause \/ RuntimeStop
  <2>1. rt' # "running" /\ CancelsTask /\ UNCHANGED loopAt
    BY <1>3 DEF RuntimePause, RuntimeStop
  <2> QED BY <2>1, CancelInv
<1>4. ASSUME NEW l \in Loops, RuntimeStart(l) PROVE LoopInv'
  BY <1>4, StartInv
<1>5. ASSUME NEW l \in Loops, LoopTop(l) PROVE LoopInv'
  <2>1. MovesOn(l)
    BY <1>5 DEF LoopTop, MovesOn, Inside
  <2> QED BY <2>1, LoopStepInv
<1>6. ASSUME NEW l \in Loops, PollStarts(l) \/ PollsEnd(l) \/ InferenceEnds(l) PROVE LoopInv'
  <2>1. MovesOn(l)
    BY <1>6 DEF PollStarts, PollsEnd, InferenceEnds, MovesOn, Inside
  <2> QED BY <2>1, LoopStepInv
<1>7. ASSUME NEW l \in Loops, NEW how \in RegisterAnswers, RegisterAnswered(l, how) PROVE LoopInv'
  <2>1. MovesOn(l)
    BY <1>7 DEF RegisterAnswered, RegisterAnswers, MovesOn, Inside
  <2> QED BY <2>1, LoopStepInv
<1>8. ASSUME NEW l \in Loops, NEW how \in HeartbeatAnswers, LoopBeats(l, how) PROVE LoopInv'
  <2>1. MovesOn(l)
    BY <1>8 DEF LoopBeats, MovesOn, Inside
  <2> QED BY <2>1, LoopStepInv
<1>9. ASSUME NEW l \in Loops, NEW s \in PhoneSubs, PulledTask(l, s) PROVE LoopInv'
  <2>1. MovesOn(l)
    BY <1>9 DEF PulledTask, MovesOn, Inside
  <2> QED BY <2>1, LoopStepInv
<1>10. ASSUME NEW l \in Loops, NEW b \in BOOLEAN, NEW c \in BOOLEAN,
              LoopEnrolled(l, b) \/ PullYieldsNone(l, b) \/ ResultPosted(l, b, c)
       PROVE  LoopInv'
  <2>1. MovesOn(l)
    BY <1>10 DEF LoopEnrolled, PullYieldsNone, ResultPosted, MovesOn, Inside
  <2> QED BY <2>1, LoopStepInv
<1>11. ASSUME NEW how \in RegisterAnswers, ReregisterAnswered(how) PROVE LoopInv'
  BY <1>1, <1>11 DEF ReregisterAnswered
<1>12. ASSUME NEW b \in BOOLEAN, NEW how \in HeartbeatAnswers, ReregisterEnrolled(b) \/ ReregisterEnds(b, how)
       PROVE  LoopInv'
  BY <1>1, <1>12 DEF ReregisterEnrolled, ReregisterEnds
<1>13. CASE UNCHANGED ipvars
  BY <1>1, <1>13 DEF ipvars
<1>14. ASSUME NEW l \in Loops,
              \/ RuntimeStart(l) \/ LoopTop(l) \/ PollStarts(l) \/ PollsEnd(l) \/ InferenceEnds(l)
              \/ \E how \in RegisterAnswers : RegisterAnswered(l, how)
              \/ \E how \in HeartbeatAnswers : LoopBeats(l, how)
              \/ \E s \in PhoneSubs : PulledTask(l, s)
              \/ \E b \in BOOLEAN : LoopEnrolled(l, b) \/ PullYieldsNone(l, b) \/ \E c \in BOOLEAN : ResultPosted(l, b, c)
       PROVE  LoopInv'
  BY <1>4, <1>5, <1>6, <1>7, <1>8, <1>9, <1>10, <1>14
<1> QED BY <1>2, <1>3, <1>11, <1>12, <1>13, <1>14 DEF IosRuntimeNext, HeartbeatAnswers

(* However often the user starts, pauses and stops, and wherever the old   *)
(* loops wait, a running runtime has one loop and any other has none.      *)
THEOREM OneLoop == IosRuntimeSpec => []OneLiveLoop
<1>1. IosRuntimeInit => LoopInv
  BY DEF IosRuntimeInit, LoopInv, LiveLoops, Live, Inside
<1>2. LoopInv => OneLiveLoop
  BY FS_EmptySet, FS_Singleton DEF LoopInv, OneLiveLoop, LiveLoops
<1> QED BY <1>1, <1>2, LoopInvStep, PTL DEF IosRuntimeSpec

-----------------------------------------------------------------------------
(***************************************************************************)
(* Models of an iPhone. A second entry could only come from a download     *)
(* that ends while its model has an entry: then the file is there and      *)
(* stops it, unless a death took the file alone, and that ended the        *)
(* downloads too (RegInv).                                                 *)
(***************************************************************************)
RegInv ==
    /\ DOMAIN registry = PhoneModels /\ downloading \in [Downloads -> PhoneModels \union {NoModel}]
    /\ \A m \in PhoneModels :
         /\ registry[m] \in {0, 1}
         /\ registry[m] = 1 /\ m \notin files =>
              m \in halfDeleted /\ \A d \in Downloads : downloading[d] # m

(* Whatever is downloaded twice, deleted meanwhile or cut off by the death *)
(* of the app, a model has one registry entry at most, and the entry has   *)
(* its file unless the app died while deleting it.                         *)
THEOREM EntriesHaveFiles == IosModelsSpec => []OneEntryWithFile
<1> USE IosModelsAssumption
<1>1. IosModelsInit => RegInv
  BY DEF IosModelsInit, RegInv
<1>2. RegInv /\ [IosModelsNext]_mmvars => RegInv'
  <2> SUFFICES ASSUME RegInv, [IosModelsNext]_mmvars PROVE RegInv'
    OBVIOUS
  <2>1. ASSUME UNCHANGED << registry, files, halfDeleted >>,
               downloading' \in [Downloads -> PhoneModels \union {NoModel}],
               \A d \in Downloads : \/ downloading'[d] = downloading[d]
                                    \/ downloading'[d] = NoModel
                                    \/ downloading'[d] \notin InstalledIds
        PROVE  RegInv'
    BY <2>1 DEF RegInv, InstalledIds
  <2>2. CASE CancelDownload \/ AdvertiseOnStart \/ StopsAdvertising \/ UNCHANGED mmvars
    BY <2>1, <2>2 DEF CancelDownload, AdvertiseOnStart, StopsAdvertising, mmvars, modelStore, RegInv
  <2>3. ASSUME NEW b \in BOOLEAN, NEW loads \in BOOLEAN, Deaths(b, loads) PROVE RegInv'
    <3>1. registry' = registry /\ downloading' = [d \in Downloads |-> NoModel]
      BY <2>3 DEF Deaths, Relaunch, DiesAfterMove, DiesAfterRemoval, Launches
    <3>2. PICK M \in SUBSET PhoneModels : files \ M \subseteq files' /\ halfDeleted \union M \subseteq halfDeleted'
      <4>1. CASE Relaunch(b, loads) \/ \E d \in Downloads : DiesAfterMove(d, b, loads)
        BY <4>1, {} \in SUBSET PhoneModels DEF Relaunch, DiesAfterMove
      <4>2. ASSUME NEW m \in PhoneModels, DiesAfterRemoval(m, b, loads)
            PROVE  \E M \in SUBSET PhoneModels : files \ M \subseteq files' /\ halfDeleted \union M \subseteq halfDeleted'
        <5>1. files' = files \ {m} /\ halfDeleted' = halfDeleted \union {m} /\ {m} \in SUBSET PhoneModels
          BY <4>2 DEF DiesAfterRemoval
        <5> QED BY <5>1
      <4> QED BY <2>3, <4>1, <4>2 DEF Deaths
    <3> QED BY <3>1, <3>2 DEF RegInv
  <2>4. ASSUME NEW m \in PhoneModels, NEW b \in BOOLEAN, Activate(m, b) PROVE RegInv'
    BY <2>1, <2>4 DEF Activate, modelStore, RegInv
  <2>5. ASSUME NEW m \in PhoneModels, NEW b \in BOOLEAN, DeleteModel(m, b) PROVE RegInv'
    <3>1. /\ registry' = [registry EXCEPT ![m] = 0] /\ UNCHANGED downloading
          /\ files \ {m} \subseteq files' /\ halfDeleted' = halfDeleted \ {m}
      BY <2>5 DEF DeleteModel
    <3> QED BY <3>1 DEF RegInv
  <2>6. ASSUME NEW m \in PhoneModels, NEW d \in Downloads, StartDownload(d, m) PROVE RegInv'
    BY <2>1, <2>6 DEF StartDownload, modelStore, RegInv
  <2>7. ASSUME NEW d \in Downloads, DownloadThrows(d) \/ ChecksumMismatch(d) PROVE RegInv'
    BY <2>1, <2>7 DEF DownloadThrows, ChecksumMismatch, modelStore, RegInv
  <2>8. ASSUME NEW d \in Downloads, DownloadEnds(d) PROVE RegInv'
    <3>1. PICK m \in PhoneModels : m = downloading[d]
      BY <2>8 DEF DownloadEnds, RegInv
    <3>2. /\ m \notin files /\ registry[m] = 0 /\ files' = files \union {m} /\ UNCHANGED halfDeleted
          /\ registry' = [registry EXCEPT ![m] = registry[m] + 1]
          /\ downloading' = [downloading EXCEPT ![d] = NoModel]
      BY <2>8, <3>1 DEF DownloadEnds, Arrives, RegInv
    <3> QED BY <3>2 DEF RegInv
  <2> QED BY <2>2, <2>3, <2>4, <2>5, <2>6, <2>7, <2>8 DEF IosModelsNext
<1>3. RegInv => OneEntryWithFile
  BY DEF RegInv, OneEntryWithFile
<1> QED BY <1>1, <1>2, <1>3, PTL DEF IosModelsSpec

-----------------------------------------------------------------------------
(***************************************************************************)
(* IDE over Bluetooth. A call that has returned has one result, its own    *)
(* answer or an error, and before that none (OwnInv): a buffer that parses *)
(* when a chunk comes is a message of that chunk's request                 *)
(* (ParsesAsLastChunk).                                                    *)
(***************************************************************************)
Pieces == [of : Calls, part : {1, 2}]

(* A call has one result, its own answer or an error, once it returned,    *)
(* and none before.                                                        *)
OwnInv ==
    /\ DOMAIN callAt = Calls /\ DOMAIN result = Calls /\ responseBuffer \in Seq(Pieces)
    /\ \A c \in Calls :
         IF callAt[c] = "returned" THEN result[c] = {"error"} \/ result[c] = {c} ELSE result[c] = {}

(* Calls that wait return, with an error or each with its own answer.      *)
LEMMA ReturnsOnce ==
    ASSUME OwnInv, NEW C \in SUBSET Waiting, NEW r, Returns(C, r), responseBuffer' \in Seq(Pieces),
           \A c \in C : r = "error" \/ r = c
    PROVE  OwnInv'
<1>1. ASSUME NEW c \in C PROVE callAt'[c] = "returned" /\ (result'[c] = {"error"} \/ result'[c] = {c})
  <2>1. c \in Calls /\ result[c] = {} /\ result'[c] = result[c] \union {r} /\ callAt'[c] = "returned"
    BY DEF OwnInv, Waiting, Returns
  <2> QED BY <2>1
<1>2. ASSUME NEW c \in Calls \ C PROVE callAt'[c] = callAt[c] /\ result'[c] = result[c]
  BY DEF Returns
<1>3. DOMAIN callAt' = Calls /\ DOMAIN result' = Calls
  BY DEF Returns
<1> QED BY <1>1, <1>2, <1>3 DEF OwnInv

(* A buffer that parses after a chunk came is a message of that chunk's    *)
(* request.                                                                *)
LEMMA ParsesAsLastChunk ==
    ASSUME NEW buffer \in Seq(Pieces), NEW piece \in Pieces, NEW d \in Parses(Append(buffer, piece))
    PROVE  d = piece.of
<1>1. Append(buffer, piece) = Chunks(d)
  BY DEF Parses
<1>2. Len(Chunks(d)) = 2 /\ Chunks(d)[2] = [of |-> d, part |-> 2]
  BY DEF Chunks
<1> HIDE DEF Pieces
<1>3. Len(Append(buffer, piece)) = Len(buffer) + 1 /\ Append(buffer, piece)[Len(buffer) + 1] = piece
        /\ Len(buffer) \in Nat
  OBVIOUS
<1>4. Len(buffer) + 1 = 2
  BY <1>1, <1>2, <1>3
<1>5. piece = [of |-> d, part |-> 2]
  BY <1>1, <1>2, <1>3, <1>4
<1> QED BY <1>5

(* A chunk that is notified goes to the slot that listens, and only a last *)
(* chunk ends it.                                                          *)
LEMMA NotifiesKeepsOwn ==
    ASSUME OwnInv, NEW c \in Calls, NotifiesChunk(c)
    PROVE  OwnInv'
<1>1. CASE link # "ready"
  BY <1>1 DEF NotifiesChunk, OwnInv
<1>2. CASE link = "ready"
  <2> DEFINE piece == Chunks(c)[IF phoneAt[c] = "inferring" THEN 1 ELSE 2]
             buffer == Append(responseBuffer, piece)
  <2>1. piece \in Pieces /\ piece.of = c
    BY DEF Chunks, Pieces
  <2>2. \A d \in Parses(buffer) : d = c
    BY <2>1, ParsesAsLastChunk DEF OwnInv
  <2>3. Returns(Completes(Parses(buffer)) \intersect Waiting, c)
    BY <1>2 DEF NotifiesChunk
  <2>4. responseBuffer' = IF Parses(buffer) # {} THEN << >> ELSE buffer
    BY <1>2 DEF NotifiesChunk
  <2> HIDE DEF piece
  <2>5. buffer \in Seq(Pieces)
    <3> HIDE DEF Pieces
    <3> QED BY <2>1 DEF OwnInv
  <2>6. responseBuffer' \in Seq(Pieces)
    BY <2>4, <2>5
  <2> HIDE DEF buffer
  <2>7. PICK C \in SUBSET Waiting : C = Completes(Parses(buffer)) \intersect Waiting
    OBVIOUS
  <2>8. \A d \in C : c = d
    BY <2>2, <2>7 DEF Completes
  <2> QED BY <2>3, <2>6, <2>7, <2>8, ReturnsOnce
<1> QED BY <1>1, <1>2

(* Every call returns once, with the answer to its own prompt or an error. *)
THEOREM AnswersAreOwn == IdeBleSpec => []OwnAnswer
<1>1. IdeBleInit => OwnInv
  BY DEF IdeBleInit, OwnInv, Pieces
<1>2. OwnInv /\ [IdeBleNext]_jvars => OwnInv'
  <2> SUFFICES ASSUME OwnInv, [IdeBleNext]_jvars PROVE OwnInv'
    OBVIOUS
  <2>1. ASSUME UNCHANGED << callAt, result, responseBuffer >> PROVE OwnInv'
    BY <2>1 DEF OwnInv
  <2>2. CASE Connects \/ DiscoversCharacteristics \/ PowersOff \/ PowersOn \/ ReceivesWrite
             \/ UNCHANGED jvars
    BY <2>1, <2>2 DEF Connects, DiscoversCharacteristics, PowersOff, PowersOn, ReceivesWrite, jvars
  <2>3. CASE Disconnects
    <3>1. PICK C \in SUBSET Waiting : C = registered \intersect Waiting
      OBVIOUS
    <3>2. Returns(C, "error") /\ responseBuffer' \in Seq(Pieces)
      BY <2>3, <3>1 DEF Disconnects
    <3> QED BY <3>2, ReturnsOnce
  <2>4. ASSUME NEW c \in Calls, HandleGenerate(c) PROVE OwnInv'
    BY <2>4 DEF HandleGenerate, OwnInv
  <2>5. ASSUME NEW c \in Calls, SendRequest(c) PROVE OwnInv'
    <3>1. CASE link = "ready"
      BY <2>1, <2>5, <3>1 DEF SendRequest
    <3>2. CASE link # "ready"
      <4>1. PICK C \in SUBSET Waiting : C = {c} \intersect Waiting
        OBVIOUS
      <4>2. Returns(C, "error") /\ responseBuffer' \in Seq(Pieces)
        BY <2>5, <3>2, <4>1 DEF SendRequest, OwnInv
      <4> QED BY <4>2, ReturnsOnce
    <3> QED BY <3>1, <3>2
  <2>6. ASSUME NEW c \in Calls, GenerateTimesOut(c) PROVE OwnInv'
    <3>1. PICK C \in SUBSET Waiting : C = {c}
      BY <2>6 DEF GenerateTimesOut
    <3>2. Returns(C, "error") /\ responseBuffer' \in Seq(Pieces)
      BY <2>6, <3>1 DEF GenerateTimesOut, OwnInv
    <3> QED BY <3>2, ReturnsOnce
  <2>7. ASSUME NEW c \in Calls, NotifiesChunk(c) PROVE OwnInv'
    BY <2>7, NotifiesKeepsOwn
  <2> QED BY <2>2, <2>3, <2>4, <2>5, <2>6, <2>7 DEF IdeBleNext
<1>3. OwnInv => OwnAnswer
  <2> SUFFICES ASSUME OwnInv, NEW c \in Calls
               PROVE  /\ result[c] \subseteq {"error", c}
                      /\ Cardinality(result[c]) = IF callAt[c] = "returned" THEN 1 ELSE 0
    BY DEF OwnAnswer
  <2>1. Cardinality({"error"}) = 1 /\ Cardinality({c}) = 1 /\ Cardinality({}) = 0
    BY FS_Singleton, FS_EmptySet
  <2> QED BY <2>1 DEF OwnInv
<1> QED BY <1>1, <1>2, <1>3, PTL DEF IdeBleSpec

-----------------------------------------------------------------------------
(***************************************************************************)
(* Outbound tasks over Bluetooth. The loop waits only for a task that was  *)
(* handed out and is not paid yet (PaidInv), so an answer cannot pay for   *)
(* another one; a row is completed only between its payment and the next   *)
(* task.                                                                   *)
(***************************************************************************)
Under(t) == {x \in txs : x.task = t}
PaidOnce(t) == \E x : Under(t) = {x}

(* The loop's own task was handed out and has no payment before its        *)
(* answer, and one after it.                                               *)
PaidInv ==
    /\ DOMAIN outRow = OutTasks /\ DOMAIN send = {"at", "ask", "task", "peers"}
    /\ send.at \in {"route", "send", "wait", "paid"} => send.task \in OutTasks /\ outRow[send.task] = "sent"
    /\ send.at \in {"route", "send", "wait"} => Under(send.task) = {}
    /\ send.at = "paid" => PaidOnce(send.task)
    /\ \A t \in OutTasks : /\ outRow[t] \in {"none", "queued"} => Under(t) = {}
                           /\ outRow[t] = "completed" => PaidOnce(t)
                           /\ Under(t) = {} \/ PaidOnce(t)

(* Nothing is paid, and the rows go on without one more completed.         *)
LEMMA NothingPaid ==
    ASSUME PaidInv, UNCHANGED txs, DOMAIN outRow' = OutTasks,
           DOMAIN send' = {"at", "ask", "task", "peers"},
           \A t \in OutTasks : \/ outRow'[t] = outRow[t]
                               \/ outRow[t] = "none" /\ outRow'[t] = "queued"
                               \/ outRow'[t] \in {"sent", "failed"}
                               \/ PaidOnce(t) /\ outRow'[t] = "completed",
           send'.at = "paid" => send.at = "paid" /\ send'.task = send.task /\ outRow'[send.task] = "sent",
           send'.at \in {"route", "send", "wait"} =>
             send'.task \in OutTasks /\ outRow'[send'.task] = "sent" /\ Under(send'.task) = {}
    PROVE  PaidInv'
<1>1. \A t : {x \in txs' : x.task = t} = Under(t)
  BY DEF Under
<1>2. send'.at \in {"route", "send", "wait"} => {x \in txs' : x.task = send'.task} = {}
  BY <1>1
<1>3. send'.at = "paid" => \E y : {x \in txs' : x.task = send'.task} = {y}
  <2> SUFFICES ASSUME send'.at = "paid" PROVE \E y : {x \in txs' : x.task = send'.task} = {y}
    OBVIOUS
  <2>1. PICK t : t = send.task
    OBVIOUS
  <2>2. send'.task = t /\ PaidOnce(t)
    BY <2>1 DEF PaidInv
  <2>3. PICK y : Under(t) = {y}
    BY <2>2 DEF PaidOnce
  <2>4. {x \in txs' : x.task = t} = {y}
    BY <1>1, <2>3
  <2> QED BY <2>2, <2>4
<1>4. ASSUME NEW t \in OutTasks
      PROVE  /\ outRow'[t] \in {"none", "queued"} => Under(t) = {}
             /\ outRow'[t] = "completed" => PaidOnce(t)
             /\ Under(t) = {} \/ PaidOnce(t)
  BY DEF PaidInv
<1>5. \A t \in OutTasks :
        /\ outRow'[t] \in {"none", "queued"} => {x \in txs' : x.task = t} = {}
        /\ outRow'[t] = "completed" => \E y : {x \in txs' : x.task = t} = {y}
        /\ {x \in txs' : x.task = t} = {} \/ \E y : {x \in txs' : x.task = t} = {y}
  BY <1>1, <1>4 DEF PaidOnce
<1>6. send'.at \in {"route", "send", "wait", "paid"} => send'.task \in OutTasks /\ outRow'[send'.task] = "sent"
  BY DEF PaidInv
<1> QED BY <1>2, <1>3, <1>5, <1>6 DEF PaidInv, Under, PaidOnce

(* The loop goes on with what it has, or with nothing.                     *)
LEMMA LoopGoesOn ==
    ASSUME PaidInv, UNCHANGED << txs, outRow >>, DOMAIN send' = {"at", "ask", "task", "peers"},
           \/ send'.at \notin {"route", "send", "wait", "paid"}
           \/ /\ send.at \in {"route", "send", "wait"} /\ send'.at \in {"route", "send", "wait"}
              /\ send'.task = send.task
    PROVE  PaidInv'
BY NothingPaid DEF PaidInv

(* Nothing happens to the loop and its rows.                               *)
LEMMA LoopStays ==
    ASSUME PaidInv, UNCHANGED << txs, outRow, send >>
    PROVE  PaidInv'
BY DEF PaidInv, Under, PaidOnce

(* An answer pays only the task the loop waits for, which was handed out   *)
(* and not yet paid.                                                       *)
LEMMA AnswerPaysOnce ==
    ASSUME PaidInv, NEW e, NEW ok \in BOOLEAN, NEW recorded \in BOOLEAN, PeerFinishes(e, ok, recorded)
    PROVE  PaidInv'
<1>0. UNCHANGED outRow
  BY DEF PeerFinishes
<1>1. CASE ~(send.at = "wait" /\ Head(send.peers) = e.peer)
  BY <1>0, <1>1, LoopStays DEF PeerFinishes
<1>2. CASE send.at = "wait" /\ Head(send.peers) = e.peer /\ ~(ok /\ recorded)
  <2>1. /\ \/ send' = [send EXCEPT !.at = "send", !.peers = Tail(send.peers)]
           \/ send' = [send EXCEPT !.at = "send", !.peers = << >>]
        /\ UNCHANGED txs
    BY <1>2 DEF PeerFinishes, AfterAnswer
  <2>2. /\ DOMAIN send' = {"at", "ask", "task", "peers"}
        /\ send'.at = "send" /\ send'.task = send.task
    BY <2>1 DEF PaidInv
  <2> QED BY <1>0, <1>2, <2>1, <2>2, LoopGoesOn
<1>3. CASE send.at = "wait" /\ Head(send.peers) = e.peer /\ ok /\ recorded
  <2> DEFINE paid == [task |-> send.task, provider |-> e.peer, of |-> e.task]
  <2>1. send' = [send EXCEPT !.at = "paid", !.peers = << >>] /\ txs' = txs \union {paid}
    BY <1>3 DEF PeerFinishes, AfterAnswer
  <2>2. paid.task = send.task
    OBVIOUS
  <2> HIDE DEF paid
  <2>3. /\ send.task \in OutTasks /\ Under(send.task) = {} /\ outRow[send.task] = "sent"
        /\ DOMAIN send' = {"at", "ask", "task", "peers"} /\ send'.at = "paid" /\ send'.task = send.task
    BY <1>3, <2>1 DEF PaidInv
  <2>4. {x \in txs' : x.task = send.task} = {paid}
    BY <2>1, <2>2, <2>3 DEF Under
  <2>5. ASSUME NEW t \in OutTasks, t # send.task PROVE {x \in txs' : x.task = t} = Under(t)
    BY <2>1, <2>2, <2>5 DEF Under
  <2>6. ASSUME NEW t \in OutTasks
        PROVE  /\ outRow'[t] \in {"none", "queued"} => {x \in txs' : x.task = t} = {}
               /\ outRow'[t] = "completed" => \E y : {x \in txs' : x.task = t} = {y}
               /\ {x \in txs' : x.task = t} = {} \/ \E y : {x \in txs' : x.task = t} = {y}
    <3>1. CASE t = send.task
      <4>1. {x \in txs' : x.task = t} = {paid}
        BY <2>4, <3>1
      <4> QED BY <1>0, <2>3, <3>1, <4>1
    <3>2. CASE t # send.task
      BY <1>0, <2>5, <3>2 DEF PaidInv, PaidOnce
    <3> QED BY <3>1, <3>2
  <2>7. \E y : {x \in txs' : x.task = send'.task} = {y}
    <3>1. {x \in txs' : x.task = send'.task} = {paid}
      BY <2>3, <2>4
    <3> QED BY <3>1
  <2> QED BY <1>0, <2>3, <2>6, <2>7 DEF PaidInv, Under, PaidOnce
<1> QED BY <1>1, <1>2, <1>3

(* Each task is paid for at most once, once if its row says completed, and *)
(* not before it was handed out.                                           *)
THEOREM PaidOnceAtMost == BleSpec => []PaidAtMostOnce
<1>1. BleInit => PaidInv
  BY DEF BleInit, PaidInv, AtTop, Under, PaidOnce
<1>2. PaidInv /\ [BleNext]_blevars => PaidInv'
  <2> SUFFICES ASSUME PaidInv, [BleNext]_blevars PROVE PaidInv'
    OBVIOUS
  <2>1. CASE GoOffline \/ RoundEnds \/ LoopThrows \/ BleRestart \/ UNCHANGED blevars
    <3>1. UNCHANGED << txs, outRow >> /\ (send' = send \/ send' = AtTop)
      BY <2>1 DEF GoOffline, RoundEnds, LoopThrows, BleRestart, blevars
    <3>2. CASE send' = send
      BY <3>1, <3>2, LoopStays
    <3>3. CASE send' = AtTop
      <4>1. DOMAIN send' = {"at", "ask", "task", "peers"} /\ send'.at = "top"
        BY <3>3 DEF AtTop
      <4> QED BY <3>1, <4>1, LoopGoesOn
    <3> QED BY <3>1, <3>2, <3>3
  <2>2. CASE ClaimNextOutbound
    <3>1. PICK p : \/ send' = [send EXCEPT !.ask = Tail(send.ask)] /\ UNCHANGED outRow
                   \/ \E t \in QueuedFor(p) :
                        /\ outRow' = [outRow EXCEPT ![t] = "sent"]
                        /\ send' = [send EXCEPT !.ask = Tail(send.ask), !.at = "route", !.task = t]
      BY <2>2 DEF ClaimNextOutbound
    <3>2. CASE send' = [send EXCEPT !.ask = Tail(send.ask)] /\ UNCHANGED outRow
      <4>1. DOMAIN send' = {"at", "ask", "task", "peers"} /\ send'.at = "ask" /\ UNCHANGED txs
        BY <2>2, <3>2 DEF ClaimNextOutbound, PaidInv
      <4> QED BY <3>2, <4>1, LoopGoesOn
    <3>3. ASSUME NEW t \in QueuedFor(p), outRow' = [outRow EXCEPT ![t] = "sent"],
                 send' = [send EXCEPT !.ask = Tail(send.ask), !.at = "route", !.task = t]
          PROVE  PaidInv'
      <4>1. t \in OutTasks /\ outRow[t] = "queued" /\ Under(t) = {}
        BY DEF QueuedFor, PaidInv
      <4>2. UNCHANGED txs
        BY <2>2 DEF ClaimNextOutbound
      <4> QED BY <3>3, <4>1, <4>2, NothingPaid DEF PaidInv
    <3> QED BY <3>1, <3>2, <3>3
  <2>3. CASE RouteTask
    <3>1. PICK peers : send' = [send EXCEPT !.at = "send", !.peers = peers]
      BY <2>3 DEF RouteTask
    <3> QED BY <2>3, <3>1, LoopGoesOn DEF RouteTask, PaidInv
  <2>4. CASE ConnectFails
    <3>1. send' = [send EXCEPT !.peers = Tail(send.peers)]
      BY <2>4 DEF ConnectFails
    <3> QED BY <2>4, <3>1, LoopGoesOn DEF ConnectFails, PaidInv
  <2>5. CASE SendTaskRequest
    BY <2>5, LoopGoesOn DEF SendTaskRequest, PaidInv
  <2>6. CASE TimesOutOrDrops
    <3>1. send' = [send EXCEPT !.at = "send", !.peers = Tail(send.peers)]
      BY <2>6 DEF TimesOutOrDrops
    <3> QED BY <2>6, <3>1, LoopGoesOn DEF TimesOutOrDrops, PaidInv
  <2>7. CASE FailOutbound
    <3>1. /\ send.task \in OutTasks /\ outRow[send.task] = "sent" /\ UNCHANGED txs
          /\ outRow' = [outRow EXCEPT ![send.task] = "failed"]
          /\ send' = [send EXCEPT !.at = "ask", !.task = NoTask]
      BY <2>7 DEF FailOutbound, PaidInv
    <3> QED BY <3>1, NothingPaid DEF PaidInv
  <2>8. ASSUME NEW p \in BlePeers, NEW b \in BOOLEAN, HandleDiscovery(p) \/ GrowsStale(p)
               \/ IdentityRead(p, b)
        PROVE  PaidInv'
    <3>1. CASE HandleDiscovery(p)
      BY <3>1, LoopStays DEF HandleDiscovery
    <3>2. CASE GrowsStale(p)
      BY <3>2, LoopStays DEF GrowsStale
    <3>3. CASE IdentityRead(p, b)
      BY <3>3, LoopStays DEF IdentityRead
    <3> QED BY <2>8, <3>1, <3>2, <3>3
  <2>9. ASSUME NEW t \in OutTasks, EnqueueOutboundTask(t) PROVE PaidInv'
    <3>1. UNCHANGED << txs, send >> /\ outRow' = [outRow EXCEPT ![t] = "queued"] /\ outRow[t] = "none"
      BY <2>9 DEF EnqueueOutboundTask
    <3>2. \A u \in OutTasks : outRow[u] = "sent" => outRow'[u] = "sent"
      BY <3>1 DEF PaidInv
    <3> QED BY <3>1, <3>2, NothingPaid DEF PaidInv
  <2>10. ASSUME NEW b \in BOOLEAN, OfflineRound(b) PROVE PaidInv'
    <3>1. PICK order : send' = [AtTop EXCEPT !.at = "ask", !.ask = order]
      BY <2>10 DEF OfflineRound
    <3>2. send' = [at |-> "ask", ask |-> order, task |-> NoTask, peers |-> << >>]
      BY <3>1 DEF AtTop
    <3> QED BY <2>10, <3>2, LoopGoesOn DEF OfflineRound, PaidInv
  <2>11. ASSUME NEW e \in atPeer, NEW b \in BOOLEAN, NEW c \in BOOLEAN, PeerFinishes(e, b, c) PROVE PaidInv'
    BY <2>11, AnswerPaysOnce
  <2>12. ASSUME NEW b \in BOOLEAN, CompleteOutbound(b) PROVE PaidInv'
    <3>1. PICK status \in {"completed", "failed"} :
            /\ send.task \in OutTasks /\ PaidOnce(send.task) /\ UNCHANGED txs
            /\ outRow' = [outRow EXCEPT ![send.task] = status]
            /\ send' = [send EXCEPT !.at = "ask", !.task = NoTask]
      BY <2>12 DEF CompleteOutbound, PaidInv
    <3> QED BY <3>1, NothingPaid DEF PaidInv
  <2> QED
    <3>1. ASSUME NEW p \in BlePeers, HandleDiscovery(p) \/ GrowsStale(p) PROVE PaidInv'
      BY <2>8, <3>1
    <3> QED BY <2>1, <2>2, <2>3, <2>4, <2>5, <2>6, <2>7, <2>8, <2>9, <2>10, <2>11, <2>12, <3>1 DEF BleNext
<1>3. PaidInv => PaidAtMostOnce
  <2> SUFFICES ASSUME PaidInv, NEW t \in OutTasks
               PROVE  /\ Cardinality(Under(t)) <= 1
                      /\ outRow[t] \in {"none", "queued"} => Cardinality(Under(t)) = 0
                      /\ outRow[t] = "completed" => Cardinality(Under(t)) = 1
    BY DEF PaidAtMostOnce, Under
  <2>1. Cardinality({}) = 0 /\ \A x : Cardinality({x}) = 1
    BY FS_EmptySet, FS_Singleton
  <2>2. CASE Under(t) = {}
    BY <2>1, <2>2 DEF PaidInv, PaidOnce
  <2>3. CASE PaidOnce(t)
    <3>1. Cardinality(Under(t)) = 1
      BY <2>1, <2>3 DEF PaidOnce
    <3>2. outRow[t] \in {"none", "queued"} => Under(t) = {}
      BY DEF PaidInv
    <3> QED BY <2>1, <3>1, <3>2
  <2> QED BY <2>2, <2>3 DEF PaidInv
<1> QED BY <1>1, <1>2, <1>3, PTL DEF BleSpec

-----------------------------------------------------------------------------
(***************************************************************************)
(* Desktop. While the window is open only the monitor spawns, and only     *)
(* when no child is held (AgentsInv).                                      *)
(***************************************************************************)
(* The agents of the session, and what the monitor knows of them.          *)
AgentsInv ==
    /\ session \in Nat /\ living \subseteq 1 .. MaxAgents
    /\ DOMAIN ofSession = 1 .. MaxAgents
    /\ \A p \in 1 .. MaxAgents : ofSession[p] \in Nat /\ ofSession[p] <= session
    /\ watch \in {"pausing", "spawned"} => child = NoAgent
    /\ window = "open" /\ watch # "spawned" => spawning = NoAgent
    /\ OneAgentHeld

(* At the start there is no agent.                                         *)
LEMMA AgentsStart == DesktopInit => AgentsInv
BY DEF DesktopInit, AgentsInv, OneAgentHeld

(* Every step of the window, the monitor and the agents keeps at most one  *)
(* agent held.                                                             *)
LEMMA AgentsGoOn ==
    ASSUME AgentsInv, [DesktopNext]_devars
    PROVE  AgentsInv'
<1> USE DesktopAssumption
<1>1. CASE UNCHANGED devars
  BY <1>1 DEF AgentsInv, OneAgentHeld, devars
<1>2. CASE OpenWindow
  <2>1. CASE UNCHANGED << spawned, living, ofSession >>
    BY <1>2, <2>1 DEF OpenWindow, AgentsInv, OneAgentHeld
  <2>2. CASE \E p \in 1 .. MaxAgents : Spawn(p, session + 1) /\ child' = p
    <3>1. PICK p \in 1 .. MaxAgents : Spawn(p, session + 1) /\ child' = p
      BY <2>2
    <3>2. watch' \notin {"pausing", "spawned"} /\ spawning' = NoAgent /\ session' = session + 1
      BY <1>2, <3>1, NoAgent \notin Nat DEF OpenWindow
    <3>3. /\ living' = living \union {p} /\ ofSession' = [ofSession EXCEPT ![p] = session + 1]
          /\ child' = p
      BY <3>1 DEF Spawn
    <3>4. session \in Nat /\ session' \in Nat /\ session' = session + 1 /\ session < session + 1
      BY <3>2 DEF AgentsInv
    <3>5. \A q \in 1 .. MaxAgents : ofSession'[q] \in Nat /\ ofSession'[q] <= session'
                                    /\ (q # p => ofSession'[q] # session')
      BY <3>3, <3>4 DEF AgentsInv
    <3> QED BY <3>2, <3>3, <3>4, <3>5 DEF AgentsInv, OneAgentHeld
  <2> QED BY <1>2, <2>1, <2>2 DEF OpenWindow
<1>3. CASE CloseWindow
  BY <1>3 DEF CloseWindow, AgentsInv, OneAgentHeld
<1>4. ASSUME NEW p \in living, AgentBinds(p) \/ AgentEnds(p) PROVE AgentsInv'
  BY <1>4 DEF AgentBinds, AgentEnds, AgentsInv, OneAgentHeld
<1>5. CASE MonitorSees
  BY <1>5 DEF MonitorSees, Exited, AgentsInv, OneAgentHeld
<1>6. CASE MonitorSkips
  BY <1>6 DEF MonitorSkips, AgentsInv, OneAgentHeld
<1>7. CASE MonitorSpawns
  <2>1. CASE UNCHANGED << spawned, living, ofSession, spawning >>
    BY <1>7, <2>1 DEF MonitorSpawns, AgentsInv, OneAgentHeld
  <2>2. CASE \E p \in 1 .. MaxAgents : Spawn(p, session) /\ spawning' = p
    <3>1. PICK p \in 1 .. MaxAgents : Spawn(p, session) /\ spawning' = p
      BY <2>2
    <3>2. /\ living' = living \union {p} /\ ofSession' = [ofSession EXCEPT ![p] = session]
          /\ watch' = "spawned" /\ watch = "pausing" /\ UNCHANGED << session, window, child >>
      BY <1>7, <3>1 DEF Spawn, MonitorSpawns
    <3>3. session \in Nat /\ \A q \in 1 .. MaxAgents : ofSession'[q] \in Nat /\ ofSession'[q] <= session'
                             /\ (q # p => ofSession'[q] = ofSession[q])
      BY <3>2 DEF AgentsInv
    <3>4. child = NoAgent /\ (window = "open" => spawning = NoAgent)
      BY <3>2 DEF AgentsInv
    <3>5. living \subseteq 1 .. MaxAgents
      BY DEF AgentsInv
    <3>6. OneAgentHeld'
      <4> SUFFICES ASSUME window = "open", NEW q \in living', ofSession'[q] = session
                   PROVE  q = p
        BY <3>1, <3>2 DEF OneAgentHeld
      <4>1. CASE q # p
        <5>1. q \in living /\ ofSession[q] = session /\ q \in 1 .. MaxAgents
          BY <3>2, <3>3, <3>5, <4>1
        <5> QED BY <3>4, <5>1 DEF AgentsInv, OneAgentHeld
      <4> QED BY <4>1
    <3> QED BY <3>1, <3>2, <3>3, <3>5, <3>6 DEF AgentsInv
  <2> QED BY <1>7, <2>1, <2>2 DEF MonitorSpawns
<1>8. CASE MonitorStores
  BY <1>8 DEF MonitorStores, AgentsInv, OneAgentHeld
<1> QED BY <1>1, <1>2, <1>3, <1>4, <1>5, <1>6, <1>7, <1>8 DEF DesktopNext

(* For any number of restarts and sessions, the session's agents that run  *)
(* are held by the application.                                            *)
THEOREM AgentsAreHeld == DesktopSpec => []OneAgentHeld
<1>1. AgentsInv => OneAgentHeld
  BY DEF AgentsInv
<1> QED BY <1>1, AgentsStart, AgentsGoOn, PTL DEF DesktopSpec

-----------------------------------------------------------------------------
(***************************************************************************)
(* Mesh of agents. A peer an agent may gossip to is one its table knows:   *)
(* the two are entered alike, in an order the code chooses                 *)
(* (EnteringKeeps).                                                        *)
(***************************************************************************)
Times == [MeshNodes -> Nat]

(* An agent's list of peers to gossip to lies within its peer table.       *)
PeersInv ==
    /\ heard \in [MeshNodes -> Times] /\ DOMAIN reach = MeshNodes
    /\ \A c \in posts : c.from \in MeshNodes /\ c.to \in MeshNodes /\ c.list \in Times
    /\ GossipIsKnown

(* Never, and now, are times.                                              *)
LEMMA NoneIsTimes == None \in Times /\ Nothing \in [MeshNodes -> Times] /\ Now \in Nat
BY MeshPeerAssumption DEF None, Nothing, Times, Now

(* Peers are entered in table and list alike.                              *)
LEMMA EnteringKeeps ==
    ASSUME PeersInv, NEW entered \in [MeshNodes -> Times],
           heard' = HeardWith(entered), DOMAIN reach' = MeshNodes,
           \A n \in MeshNodes : reach'[n] \subseteq ReachWith(entered)[n],
           \A c \in posts' : c.from \in MeshNodes /\ c.to \in MeshNodes /\ c.list \in Times
    PROVE  PeersInv'
<1>1. heard' \in [MeshNodes -> Times]
  BY DEF HeardWith, PeersInv, Times
<1>2. ASSUME NEW n \in MeshAgents PROVE reach'[n] \subseteq Table(n)'
  <2> SUFFICES ASSUME NEW p \in reach'[n] PROVE p \in MeshNodes /\ heard'[n][p] > 0
    BY DEF Table
  <2>1. n \in MeshNodes /\ n \notin MeshPhones
    BY MeshPeerAssumption DEF MeshNodes
  <2>2. ReachWith(entered)[n] = reach[n] \union {q \in MeshNodes \ {n} : entered[n][q] > 0}
    BY <2>1 DEF ReachWith
  <2>3. p \in reach[n] \/ (p \in MeshNodes \ {n} /\ entered[n][p] > 0)
    BY <2>1, <2>2
  <2>4. reach[n] \subseteq Table(n)
    BY DEF PeersInv, GossipIsKnown
  <2>5. p \in MeshNodes /\ heard'[n][p] = IF p # n /\ entered[n][p] > 0 THEN entered[n][p] ELSE heard[n][p]
    BY <2>1, <2>3, <2>4 DEF HeardWith, Table
  <2> QED BY <2>1, <2>3, <2>4, <2>5 DEF Table
<1> QED BY <1>1, <1>2 DEF PeersInv, GossipIsKnown

(* Peers that are added leave what is known of the others.                 *)
LEMMA AddingKeeps ==
    ASSUME PeersInv, NEW entered \in [MeshNodes -> Times], AddPeers(entered),
           \A c \in posts' : c.from \in MeshNodes /\ c.to \in MeshNodes /\ c.list \in Times
    PROVE  PeersInv'
BY EnteringKeeps DEF AddPeers, ReachWith

(* A step that changes neither table keeps the invariant.                  *)
LEMMA TablesStay ==
    ASSUME PeersInv, UNCHANGED << heard, reach >>,
           \A c \in posts' : c.from \in MeshNodes /\ c.to \in MeshNodes /\ c.list \in Times
    PROVE  PeersInv'
BY DEF PeersInv, GossipIsKnown, Table

(* A table that was ingested has times.                                    *)
LEMMA IngestedIsTimes ==
    ASSUME PeersInv, NEW c \in posts
    PROVE  Ingested(c) \in [MeshNodes -> Times]
<1>1. c.to \in MeshNodes /\ c.list \in Times
  BY DEF PeersInv
<1>2. \A p \in MeshNodes : EnteredAs(c.to, p, c.list[p]) \in Nat
  BY <1>1, NoneIsTimes DEF EnteredAs, PeersInv, Times
<1>3. [p \in MeshNodes |-> IF p = c.from /\ p \in Table(c.to) THEN Now ELSE EnteredAs(c.to, p, c.list[p])] \in Times
  BY <1>2, NoneIsTimes DEF Times
<1> QED BY <1>1, <1>3, NoneIsTimes DEF Ingested

(* An agent gossips only to peers of its table.                            *)
THEOREM GossipStaysKnown == MeshPeerSpec => []GossipIsKnown
<1>1. MeshPeerInit => PeersInv
  BY NoneIsTimes DEF MeshPeerInit, PeersInv, GossipIsKnown, MeshNodes
<1>2. PeersInv /\ [MeshPeerNext]_mpvars => PeersInv'
  <2> SUFFICES ASSUME PeersInv, [MeshPeerNext]_mpvars PROVE PeersInv'
    OBVIOUS
  <2>1. \A c \in posts : c.from \in MeshNodes /\ c.to \in MeshNodes /\ c.list \in Times
    BY DEF PeersInv
  <2>2. ASSUME NEW n \in MeshNodes, BootSeed(n) PROVE PeersInv'
    <3>1. SeedOf[n] \in MeshNodes
      BY MeshPeerAssumption
    <3>2. RegisterAt({SeedOf[n]}, n) \in [MeshNodes -> Times]
      BY NoneIsTimes DEF RegisterAt, Times
    <3>3. [RegisterAt({SeedOf[n]}, n) EXCEPT ![n][SeedOf[n]] = Now] \in [MeshNodes -> Times]
      BY <3>1, <3>2, NoneIsTimes DEF Times
    <3> QED BY <2>1, <2>2, <3>3, AddingKeeps DEF BootSeed, sending
  <2>3. ASSUME NEW n \in MeshNodes, BootFails(n) \/ Starts(n) PROVE PeersInv'
    BY <2>1, <2>3, TablesStay DEF BootFails, Starts, sending
  <2>4. ASSUME NEW n \in MeshNodes, BootLearn(n) PROVE PeersInv'
    <3>1. [Nothing EXCEPT ![n] = [p \in MeshNodes |-> IF p \in Table(SeedOf[n]) THEN Now ELSE 0]] \in [MeshNodes -> Times]
      BY NoneIsTimes DEF Times
    <3> QED BY <2>1, <2>4, <3>1, AddingKeeps, TablesStay DEF BootLearn, sending
  <2>5. ASSUME NEW n \in MeshNodes, BootRegister(n) PROVE PeersInv'
    <3>1. PICK S : AddPeers(RegisterAt(S, n))
      BY <2>5 DEF BootRegister
    <3>2. RegisterAt(S, n) \in [MeshNodes -> Times]
      BY NoneIsTimes DEF RegisterAt, Times
    <3> QED BY <2>1, <2>5, <3>1, <3>2, AddingKeeps DEF BootRegister, sending
  <2>6. ASSUME NEW n \in MeshNodes, Exchange(n) \/ OtherBroadcast(n) PROVE PeersInv'
    <3>1. Receivers(n) \subseteq MeshNodes
      <4>1. n \in MeshPhones \/ n \in MeshAgents
        BY DEF MeshNodes
      <4> QED BY <4>1 DEF Receivers, Table, PeersInv, GossipIsKnown
    <3>2. \A S : [p \in MeshNodes |-> IF p \in S THEN heard[n][p] ELSE 0] \in Times
      BY DEF PeersInv, Times
    <3>3. \A c \in posts' : c.from \in MeshNodes /\ c.to \in MeshNodes /\ c.list \in Times
      <4>1. PICK list \in Times : posts' = posts \union {[from |-> n, to |-> d, list |-> list] : d \in Receivers(n)}
        BY <2>6, <3>2, NoneIsTimes DEF Exchange, OtherBroadcast
      <4> QED BY <2>1, <3>1, <4>1
    <3> QED BY <2>6, <3>3, TablesStay DEF Exchange, OtherBroadcast
  <2>7. ASSUME NEW n \in MeshNodes, EvictStale(n) PROVE PeersInv'
    <3>1. PICK gone : gone = Stale(n)
      OBVIOUS
    <3>2. /\ heard' = [heard EXCEPT ![n] = [p \in MeshNodes |-> IF p \in gone THEN 0 ELSE heard[n][p]]]
          /\ reach' = [reach EXCEPT ![n] = reach[n] \ gone] /\ UNCHANGED posts
      BY <2>7, <3>1 DEF EvictStale, ReachAfter
    <3>3. heard' \in [MeshNodes -> Times]
      BY <3>2 DEF PeersInv, Times
    <3>4. ASSUME NEW m \in MeshAgents, NEW p \in reach'[m] PROVE p \in MeshNodes /\ heard'[m][p] > 0
      <4>1. m \in MeshNodes
        BY DEF MeshNodes
      <4>2. p \in reach[m] /\ (m = n => p \notin gone)
        BY <3>2, <3>4, <4>1 DEF PeersInv
      <4>3. p \in MeshNodes /\ heard[m][p] > 0
        BY <4>2 DEF PeersInv, GossipIsKnown, Table
      <4> QED BY <3>2, <4>1, <4>2, <4>3 DEF PeersInv
    <3> QED BY <2>1, <3>2, <3>3, <3>4 DEF PeersInv, GossipIsKnown, Table
  <2>8. CASE MeshTick
    <3>1. \A h \in Times : Older(h) \in Times /\ \A p \in MeshNodes : h[p] > 0 => Older(h)[p] > 0
      BY DEF Older, Times
    <3>2. heard' \in [MeshNodes -> Times] /\ \A n \in MeshNodes, p \in MeshNodes : heard[n][p] > 0
            => heard'[n][p] > 0
      BY <2>8, <3>1 DEF MeshTick, PeersInv
    <3>3. \A c \in posts' : c.from \in MeshNodes /\ c.to \in MeshNodes /\ c.list \in Times
      <4> SUFFICES ASSUME NEW c \in posts, NEW d, d = [c EXCEPT !.list = Older(c.list)]
                   PROVE  d.from \in MeshNodes /\ d.to \in MeshNodes /\ d.list \in Times
        BY <2>8 DEF MeshTick
      <4> QED BY <2>1, <3>1
    <3>4. \A n \in MeshAgents : n \in MeshNodes
      BY DEF MeshNodes
    <3> QED BY <2>8, <3>2, <3>3, <3>4 DEF MeshTick, PeersInv, GossipIsKnown, Table
  <2>9. ASSUME NEW n \in MeshNodes, Dies(n) PROVE PeersInv'
    <3>1. heard' = [heard EXCEPT ![n] = None] /\ reach' = [reach EXCEPT ![n] = {}]
            /\ posts' \subseteq posts
      BY <2>9 DEF Dies
    <3>2. \A m \in MeshAgents : m \in MeshNodes
      BY DEF MeshNodes
    <3> QED BY <2>1, <3>1, <3>2, NoneIsTimes DEF PeersInv, GossipIsKnown, Table
  <2>10. ASSUME NEW c \in posts, Delivered(c) PROVE PeersInv'
    BY <2>1, <2>10, IngestedIsTimes, AddingKeeps DEF Delivered
  <2>11. ASSUME NEW c \in posts, Failed(c) PROVE PeersInv'
    <3>1. PICK entered \in {Nothing, Ingested(c)}, drop \in BOOLEAN :
             /\ heard' = HeardWith(entered)
             /\ reach' = [ReachWith(entered) EXCEPT
                           ![c.from] = IF drop THEN ReachWith(entered)[c.from] \ {c.to}
                                       ELSE ReachWith(entered)[c.from]]
             /\ posts' = posts \ {c}
      BY <2>11 DEF Failed
    <3>2. entered \in [MeshNodes -> Times]
      BY <3>1, IngestedIsTimes, NoneIsTimes
    <3>3. DOMAIN reach' = MeshNodes /\ \A n \in MeshNodes : reach'[n] \subseteq ReachWith(entered)[n]
      BY <3>1 DEF ReachWith
    <3> QED BY <2>1, <3>1, <3>2, <3>3, EnteringKeeps
  <2>12. CASE UNCHANGED mpvars
    BY <2>1, <2>12, TablesStay DEF mpvars
  <2> QED BY <2>2, <2>3, <2>4, <2>5, <2>6, <2>7, <2>8, <2>9, <2>10, <2>11, <2>12 DEF MeshPeerNext
<1>3. PeersInv => GossipIsKnown
  BY DEF PeersInv
<1> QED BY <1>1, <1>2, <1>3, PTL DEF MeshPeerSpec

-----------------------------------------------------------------------------
(***************************************************************************)
(* Chat panel. A busy panel has a question in progress whose controller is *)
(* the panel's, and the stream listens to the signal of that controller    *)
(* (PanelInv); questions are asked only of the mounted panel (MountInv).   *)
(***************************************************************************)
(* The controller of a panel is there exactly while it streams, and belongs*)
(* to a question asked on it; the signal of a handler is that of a question*)
(* of the same panel.                                                      *)
BusyPanel(i) ==
    /\ streaming[i] => /\ abortCtl[i] \in Questions
                       /\ InProgress(abortCtl[i]) /\ asking[abortCtl[i]].panel = i
    /\ abortCtl[i] # NoQuestion => streaming[i]

SignalOk(q) ==
    asking[q].signal # NoQuestion =>
      /\ asking[q].signal \in Questions /\ asking[asking[q].signal].at # "unasked"
      /\ asking[asking[q].signal].panel = asking[q].panel

PanelInv ==
    /\ DOMAIN streaming = Panels /\ DOMAIN abortCtl = Panels
    /\ \A i \in Panels : streaming[i] \in BOOLEAN
    /\ DOMAIN asking = Questions /\ \A q \in Questions : DOMAIN asking[q] = {"at", "panel", "signal"}
    /\ \A i \in Panels : BusyPanel(i)
    /\ \A q \in Questions : SignalOk(q) /\ (asking[q].at # "unasked" => asking[q].panel \in Panels)

(* The panels are numbered as they are mounted.                            *)
MountInv == mounts \in Nat /\ mounted \in {0} \union Panels

(* A handler goes on without touching what its panel shows as busy.        *)
LEMMA HandlerGoesOn ==
    ASSUME PanelInv, NEW q \in Questions, NEW at \in {"ensured", "stream", "saving"}, NEW signal,
           InProgress(q), signal = asking[q].signal
             \/ (signal \in Questions /\ asking[signal].at # "unasked"
                                                        /\ asking[signal].panel = asking[q].panel),
           asking' = [asking EXCEPT ![q].at = at, ![q].signal = signal], UNCHANGED << streaming,
             abortCtl >>
    PROVE  PanelInv'
<1>1. /\ DOMAIN asking' = Questions /\ \A p \in Questions : DOMAIN asking'[p] = {"at", "panel", "signal"}
      /\ \A p \in Questions \ {q} : asking'[p] = asking[p]
      /\ asking'[q].at = at /\ asking'[q].panel = asking[q].panel /\ asking'[q].signal = signal
  BY DEF PanelInv
<1>2. \A p \in Questions : /\ asking'[p].panel = asking[p].panel
                           /\ InProgress(p) => InProgress(p)'
                           /\ asking[p].at # "unasked" => asking'[p].at # "unasked"
  BY <1>1 DEF InProgress
<1>3. \A i \in Panels : BusyPanel(i)'
  BY <1>2 DEF PanelInv, BusyPanel
<1>4. ASSUME NEW p \in Questions PROVE SignalOk(p)'
  BY <1>1, <1>2 DEF PanelInv, SignalOk
<1>5. ASSUME NEW p \in Questions, asking'[p].at # "unasked" PROVE asking'[p].panel \in Panels
  BY <1>1, <1>2, <1>5 DEF PanelInv, InProgress
<1> QED BY <1>1, <1>3, <1>4, <1>5 DEF PanelInv

(* Handlers of one panel end, and its input opens.                         *)
LEMMA HandlersEnd ==
    ASSUME PanelInv, NEW i, NEW Q \in SUBSET Questions,
           \A q \in Q : asking[q].panel = i /\ InProgress(q),
           DOMAIN asking' = Questions, \A p \in Questions \ Q : asking'[p] = asking[p],
           \A q \in Q : asking'[q] = [asking[q] EXCEPT !.at = "over", !.signal = NoQuestion],
           Finally(i) \/ (Q = {} /\ UNCHANGED << streaming, abortCtl >>)
    PROVE  PanelInv'
<1>1. \A q \in Q : /\ DOMAIN asking'[q] = {"at", "panel", "signal"} /\ asking'[q].at = "over"
                   /\ asking'[q].panel = asking[q].panel /\ asking'[q].signal = NoQuestion
  <2> SUFFICES ASSUME NEW q \in Q
               PROVE  /\ DOMAIN asking'[q] = {"at", "panel", "signal"} /\ asking'[q].at = "over"
                      /\ asking'[q].panel = asking[q].panel /\ asking'[q].signal = NoQuestion
    OBVIOUS
  <2>1. DOMAIN asking[q] = {"at", "panel", "signal"}
          /\ asking'[q] = [asking[q] EXCEPT !.at = "over", !.signal = NoQuestion]
    BY DEF PanelInv
  <2> QED BY <2>1
<1>2. /\ DOMAIN streaming' = Panels /\ DOMAIN abortCtl' = Panels
      /\ \A j \in Panels : streaming'[j] \in BOOLEAN
      /\ \A j \in Panels : \/ streaming'[j] = FALSE /\ abortCtl'[j] = NoQuestion
                           \/ streaming'[j] = streaming[j] /\ abortCtl'[j] = abortCtl[j]
                                /\ (j # i \/ Q = {})
  BY DEF PanelInv, Finally
<1>3. ASSUME NEW j \in Panels PROVE BusyPanel(j)'
  <2>1. CASE streaming'[j] = FALSE /\ abortCtl'[j] = NoQuestion
    BY <2>1 DEF BusyPanel
  <2>2. CASE streaming'[j] = streaming[j] /\ abortCtl'[j] = abortCtl[j] /\ (j # i \/ Q = {})
    <3>1. BusyPanel(j)
      BY DEF PanelInv
    <3>2. streaming[j] => abortCtl[j] \in Questions \ Q
      BY <2>2, <3>1 DEF BusyPanel
    <3> QED BY <2>2, <3>1, <3>2 DEF BusyPanel, InProgress
  <2> QED BY <1>2, <2>1, <2>2
<1>4. ASSUME NEW p \in Questions PROVE SignalOk(p)'
  <2>1. CASE p \in Q
    BY <1>1, <2>1 DEF SignalOk
  <2>2. CASE p \notin Q
    <3>1. asking'[p] = asking[p] /\ SignalOk(p)
      BY <2>2 DEF PanelInv
    <3>2. \A s \in Questions : asking[s].at # "unasked" => asking'[s].at # "unasked"
            /\ asking'[s].panel = asking[s].panel
      BY <1>1
    <3> QED BY <3>1, <3>2 DEF SignalOk
  <2> QED BY <2>1, <2>2
<1>5. ASSUME NEW p \in Questions, asking'[p].at # "unasked" PROVE asking'[p].panel \in Panels
  BY <1>1, <1>5 DEF PanelInv, InProgress
<1> QED BY <1>1, <1>2, <1>3, <1>4, <1>5 DEF PanelInv

(* The handler of a question ends: the panel is free again.                *)
LEMMA OverStep ==
    ASSUME PanelInv, NEW q \in Questions, InProgress(q), Over(q), Finally(asking[q].panel)
    PROVE  PanelInv'
<1> DEFINE Q == {q}
<1>1. /\ DOMAIN asking' = Questions /\ \A p \in Questions \ Q : asking'[p] = asking[p]
      /\ \A p \in Q : asking'[p] = [asking[p] EXCEPT !.at = "over", !.signal = NoQuestion]
  BY DEF PanelInv, Over
<1>2. Q \in SUBSET Questions /\ \A p \in Q : asking[p].panel = asking[q].panel /\ InProgress(p)
  OBVIOUS
<1>3. PICK i : i = asking[q].panel
  OBVIOUS
<1> HIDE DEF Q
<1> QED BY <1>1, <1>2, <1>3, HandlersEnd

(* Leaving a conversation: only handlers of this panel are aborted.        *)
LEMMA AbortStep ==
    ASSUME PanelInv, NEW i \in Panels, AbortStream(i),
           \/ Finally(i)
           \/ ~(streaming[i] /\ StreamOf(i) # {}) /\ UNCHANGED << streaming, abortCtl >>
    PROVE  PanelInv'
<1>1. CASE streaming[i] /\ abortCtl[i] # NoQuestion
  <2>1. /\ StreamOf(i) \in SUBSET Questions
        /\ \A q \in StreamOf(i) : asking[q].panel = i /\ InProgress(q)
    BY <1>1 DEF StreamOf, PanelInv, SignalOk, BusyPanel, InProgress
  <2>2. /\ DOMAIN asking' = Questions /\ \A p \in Questions \ StreamOf(i) : asking'[p] = asking[p]
        /\ \A p \in StreamOf(i) : asking'[p] = [asking[p] EXCEPT !.at = "over", !.signal = NoQuestion]
    BY <1>1, <2>1 DEF AbortStream
  <2>3. Finally(i) \/ (StreamOf(i) = {} /\ UNCHANGED << streaming, abortCtl >>)
    BY <1>1
  <2>4. PICK Q \in SUBSET Questions : Q = StreamOf(i)
    BY <2>1
  <2> QED BY <2>1, <2>2, <2>3, <2>4, HandlersEnd
<1>2. CASE ~(streaming[i] /\ abortCtl[i] # NoQuestion)
  <2>1. DOMAIN asking' = Questions /\ \A p \in Questions : asking'[p] = asking[p]
    BY <1>2 DEF AbortStream, PanelInv
  <2> DEFINE Q == {}
  <2>2. Q \in SUBSET Questions /\ Q = {}
    OBVIOUS
  <2> HIDE DEF Q
  <2> QED BY <2>1, <2>2, HandlersEnd
<1> QED BY <1>1, <1>2

(* A question takes a panel that is not busy.                              *)
LEMMA AskStep ==
    ASSUME PanelInv, MountInv, NEW q \in Questions, Ask(q)
    PROVE  PanelInv'
<1>1. PICK i : i = mounted
  OBVIOUS
<1>2. PICK at \in {"ensure", "stream"} :
             asking' = [asking EXCEPT ![q] = [at |-> at, panel |-> i, signal |-> q]]
  BY <1>1 DEF Ask
<1>3. /\ DOMAIN asking' = Questions /\ \A p \in Questions : DOMAIN asking'[p] = {"at", "panel", "signal"}
      /\ \A p \in Questions \ {q} : asking'[p] = asking[p]
      /\ asking'[q].at = at /\ asking'[q].panel = i /\ asking'[q].signal = q
  BY <1>2 DEF PanelInv
<1>4. /\ asking[q].at = "unasked" /\ i \in Panels
      /\ streaming' = [streaming EXCEPT ![i] = TRUE] /\ abortCtl' = [abortCtl EXCEPT ![i] = q]
  BY <1>1 DEF Ask, MountInv
<1>5. ASSUME NEW j \in Panels PROVE BusyPanel(j)'
  <2>1. CASE j = i
    BY <1>3, <1>4, <2>1 DEF BusyPanel, PanelInv, InProgress
  <2>2. CASE j # i
    <3>1. BusyPanel(j) /\ streaming'[j] = streaming[j] /\ abortCtl'[j] = abortCtl[j]
      BY <1>4, <2>2 DEF PanelInv
    <3>2. streaming[j] => abortCtl[j] # q
      BY <1>4, <3>1 DEF BusyPanel, InProgress
    <3> QED BY <1>3, <3>1, <3>2 DEF BusyPanel, InProgress
  <2> QED BY <2>1, <2>2
<1>6. ASSUME NEW p \in Questions PROVE SignalOk(p)'
  <2>1. CASE p = q
    BY <1>3, <2>1 DEF SignalOk
  <2>2. CASE p # q
    <3>1. SignalOk(p) /\ asking'[p] = asking[p]
      BY <1>3, <2>2 DEF PanelInv
    <3> QED BY <1>3, <1>4, <3>1 DEF SignalOk
  <2> QED BY <2>1, <2>2
<1> QED BY <1>3, <1>4, <1>5, <1>6 DEF PanelInv

(* The stream of a question opens with the signal of its own controller.   *)
LEMMA OpenStep ==
    ASSUME PanelInv, NEW q \in Questions, OpenStream(q)
    PROVE  PanelInv'
<1>1. InProgress(q)
  BY DEF OpenStream, InProgress
<1>2. CASE Over(q) /\ Finally(asking[q].panel)
  BY <1>1, <1>2, OverStep
<1>3. CASE ~(Over(q) /\ Finally(asking[q].panel))
  <2>1. PICK i : i = asking[q].panel
    OBVIOUS
  <2>2. /\ abortCtl[i] \in Questions
        /\ asking' = [asking EXCEPT ![q].at = "stream", ![q].signal = abortCtl[i]]
        /\ UNCHANGED << streaming, abortCtl >>
    BY <1>3, <2>1 DEF OpenStream, Catch
  <2>3. i \in Panels /\ BusyPanel(i)
    BY <1>1, <2>1 DEF PanelInv, InProgress
  <2>4. asking[abortCtl[i]].at # "unasked" /\ asking[abortCtl[i]].panel = asking[q].panel
    BY <2>1, <2>2, <2>3, ChatPanelAssumption DEF BusyPanel, InProgress
  <2> QED BY <1>1, <2>2, <2>4, HandlerGoesOn
<1> QED BY <1>2, <1>3

(* However the user leaves, signs out or asks while old handlers go on, a  *)
(* panel that is busy has a question of its own in progress, for any       *)
(* number of questions, conversations and panels.                          *)
THEOREM BusyPanelCanStop == ChatPanelSpec => []StreamingCanStop
<1>1. ChatPanelInit => PanelInv /\ MountInv
  BY ChatPanelAssumption DEF ChatPanelInit, PanelInv, MountInv, BusyPanel, SignalOk, Unasked
<1>2. MountInv /\ [ChatPanelNext]_cpvars => MountInv'
  <2> SUFFICES ASSUME MountInv, [ChatPanelNext]_cpvars PROVE MountInv'
    OBVIOUS
  <2>1. UNCHANGED << mounts, mounted >> => MountInv'
    BY DEF MountInv
  <2>2. Mount \/ Unmount => MountInv'
    BY ChatPanelAssumption DEF Mount, Unmount, MountInv, Panels
  <2> QED BY <2>1, <2>2
          DEF ChatPanelNext, NewChat, Leave, tab, cpvars, ShowNew, ShowLoaded, Restore, Ask, PortalCreated,
              OpenStream, SendFails, Answered, SendEnds, LoadConversation, DeleteConversation
<1>3. PanelInv /\ MountInv /\ [ChatPanelNext]_cpvars => PanelInv'
  <2> SUFFICES ASSUME PanelInv, MountInv, [ChatPanelNext]_cpvars PROVE PanelInv'
    OBVIOUS
  <2>1. ASSUME UNCHANGED << streaming, abortCtl, asking >> PROVE PanelInv'
    BY <2>1 DEF PanelInv, BusyPanel, SignalOk, InProgress
  <2>2. ASSUME NEW i \in Panels, Finally(i), UNCHANGED asking PROVE PanelInv'
    <3> DEFINE Q == {}
    <3>1. Q \in SUBSET Questions /\ DOMAIN asking' = Questions /\ \A p \in Questions :
            asking'[p] = asking[p]
          /\ \A q \in Q : FALSE
      BY <2>2 DEF PanelInv
    <3> HIDE DEF Q
    <3> QED BY <2>2, <3>1, HandlersEnd
  <2>3. CASE Mount \/ Unmount \/ UNCHANGED cpvars
    BY <2>1, <2>3 DEF Mount, Unmount, cpvars
  <2>4. ASSUME NEW to, NEW c, Leave(to, c) PROVE PanelInv'
    <3>1. PICK i \in Panels : i = mounted
      BY <2>4 DEF Leave, MountInv
    <3>2. AbortStream(i) /\ IF streaming[i]
            /\ StreamOf(i) # {} THEN Finally(i) ELSE UNCHANGED << streaming, abortCtl >>
      BY <2>4, <3>1 DEF Leave
    <3> QED BY <3>2, AbortStep
  <2>5. CASE NewChat
    <3>1. CASE mounted # 0 /\ AbortStream(mounted) /\ BecomesNew(mounted)
      <4>1. PICK i \in Panels : i = mounted
        BY <3>1 DEF MountInv
      <4> QED BY <3>1, <4>1, AbortStep DEF BecomesNew
    <3> QED BY <2>4, <2>5, <3>1 DEF NewChat
  <2>6. ASSUME NEW i \in Panels, ShowNew(i) PROVE PanelInv'
    BY <2>2, <2>6 DEF ShowNew, BecomesNew
  <2>7. ASSUME NEW i \in Panels, ShowLoaded(i) PROVE PanelInv'
    BY <2>1, <2>2, <2>7 DEF ShowLoaded
  <2>8. ASSUME NEW i, NEW c, NEW r, Restore(i, c, r) \/ DeleteConversation(c) PROVE PanelInv'
    BY <2>1, <2>8 DEF Restore, DeleteConversation
  <2>9. ASSUME NEW q \in Questions, PortalCreated(q) \/ Answered(q) PROVE PanelInv'
    <3>1. PICK at \in {"ensured", "saving"} : asking' = [asking EXCEPT ![q].at = at]
      BY <2>9 DEF PortalCreated, Answered
    <3>2. asking' = [asking EXCEPT ![q].at = at, ![q].signal = asking[q].signal]
      BY <3>1 DEF PanelInv
    <3>3. InProgress(q) /\ UNCHANGED << streaming, abortCtl >>
      BY <2>9 DEF PortalCreated, Answered, InProgress
    <3> QED BY <3>2, <3>3, HandlerGoesOn
  <2>10. ASSUME NEW q \in Questions, SendFails(q) \/ SendEnds(q) PROVE PanelInv'
    BY <2>10, OverStep DEF SendFails, Catch, SendEnds, InProgress
  <2>11. ASSUME NEW c, LoadConversation(c) PROVE PanelInv'
    BY <2>4, <2>11 DEF LoadConversation
  <2> QED BY <2>3, <2>5, <2>6, <2>7, <2>8, <2>9, <2>10, <2>11, AskStep, OpenStep DEF ChatPanelNext
<1>4. PanelInv => StreamingCanStop
  BY ChatPanelAssumption DEF PanelInv, BusyPanel, StreamingCanStop
<1> QED BY <1>1, <1>2, <1>3, <1>4, PTL DEF ChatPanelSpec
=============================================================================

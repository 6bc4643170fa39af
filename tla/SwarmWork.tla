----------------------------- MODULE SwarmWork ------------------------------
(***************************************************************************)
(* The workers' main loop (swarm/worker-runner.ts) composed with the       *)
(* coordinator of SwarmQueue over HTTP calls that may be lost, or answered *)
(* too late.  One loop iteration of a worker that is online is: register,  *)
(* heartbeat, pull, run, post the result.  A result that cannot be posted  *)
(* goes to the local pending_results table, which is flushed when the      *)
(* worker comes back from offline mode.                                    *)
(*                                                                         *)
(* Requests are signed once per call, so post()'s own retry of a request   *)
(* whose answer was lost is refused as a replayed nonce; it counts as the  *)
(* failure of the call.                                                    *)
(*                                                                         *)
(* Peers and blacklisting are left out here: RemoteClaimed and Blacklist   *)
(* take no steps and monitoring does not trip.  So is the payment that     *)
(* follows a result, which no worker waits for.                            *)
(***************************************************************************)
EXTENDS SwarmQueue

CONSTANTS
    OfflineThreshold,   \* consecutive failures before offline mode (3)
    NoTask              \* the worker is not working on a subtask

ASSUME WorkAssumption == OfflineThreshold \in Nat \ {0} /\ NoTask \notin Ids

VARIABLES
    phase,      \* where the loop of each worker is
    current,    \* the payload it works on: subtask id and encryption
    online,     \* coordinatorOnline
    failures,   \* consecutiveFailures
    buffer      \* pending_results, oldest first

workerVars == << phase, current, online, failures, buffer >>
workVars == << vars, workerVars >>

Phases == {"register", "heartbeat", "pull", "waiting", "running", "posting", "flush"}

(* How a result will be sent: in the clear, under the key the coordinator  *)
(* still has for the envelope, or under a key that a later envelope for    *)
(* the same subtask has replaced or that was used up.                      *)
Payload == [ id : Ids \union {NoTask}, seal : {"plain", "sealed", "obsolete"} ]

NoPayload == [id |-> NoTask, seal |-> "plain"]

WorkInit ==
    /\ Init
    /\ phase = [a \in Agents |-> "register"]
    /\ current = [a \in Agents |-> NoPayload]
    /\ online = [a \in Agents |-> TRUE]
    /\ failures = [a \in Agents |-> 0]
    /\ buffer = [a \in Agents |-> << >>]

Goto(a, p) == phase' = [phase EXCEPT ![a] = p]

(* The catch block of the loop: after enough failures in a row the worker  *)
(* goes offline.  While it is offline a failed probe just ends.            *)
CallFails(a) ==
    /\ Goto(a, "register")
    /\ failures' = [failures EXCEPT ![a] = IF online[a] THEN @ + 1 ELSE @]
    /\ online' = [online EXCEPT ![a] = @ /\ failures[a] + 1 < OfflineThreshold]
    /\ current' = [current EXCEPT ![a] = NoPayload]
    /\ UNCHANGED buffer

-----------------------------------------------------------------------------
(* The record that the probe of an offline worker leaves lacks the X25519  *)
(* key and the sandbox mode; the loop registers again before it pulls.     *)
WRegister(a) ==
    /\ phase[a] = "register"
    /\ Register(a)
    /\ UNCHANGED blacklisted
    /\ Goto(a, "heartbeat")
    /\ UNCHANGED << current, online, failures, buffer >>

(* A heartbeat resets the failure count; one that ends an offline period   *)
(* is followed by flushPendingResults, any other by /pull.                 *)
WHeartbeat(a) ==
    /\ phase[a] = "heartbeat"
    /\ Heartbeat(a)
    /\ Goto(a, IF online[a] THEN "pull" ELSE "flush")
    /\ online' = [online EXCEPT ![a] = TRUE]
    /\ failures' = [failures EXCEPT ![a] = 0]
    /\ UNCHANGED << current, buffer >>

(* A /register, /heartbeat or /pull request is lost on the way.            *)
WCallLost(a) ==
    /\ phase[a] \in {"register", "heartbeat", "pull"}
    /\ CallFails(a)
    /\ UNCHANGED vars

(* A new envelope for s makes results sealed for an earlier one useless.   *)
Outdate(p, s) == IF p.id = s /\ p.seal = "sealed" THEN [p EXCEPT !.seal = "obsolete"] ELSE p

OutdateBuffers(s) ==
    buffer' = [b \in Agents |-> [k \in DOMAIN buffer[b] |-> Outdate(buffer[b][k], s)]]

(* Envelope keys live an hour: a key is not swept away while a worker runs *)
(* the subtask or posts its result.                                        *)
KeysOutliveRuns(s) ==
    \A b \in Agents : (current[b].seal = "sealed" /\ current[b].id # s)
      => envelopeKey'[current[b].id] = envelopeKey[current[b].id]

(* /pull makes the envelope of s for a.                                    *)
NewEnvelope(a, s) ==
    /\ Seal(a, s)
    /\ KeysOutliveRuns(s)
    /\ OutdateBuffers(s)

WPull(a) ==
    /\ phase[a] = "pull"
    /\ \E i \in DOMAIN tasks :
         /\ Pull(a, i)
         /\ current' = [current EXCEPT ![a] = [id |-> tasks[i].id, seal |-> "plain"]]
    /\ Goto(a, IF capability[a].x25519 THEN "waiting" ELSE "running")
    /\ UNCHANGED << online, failures, buffer >>

(* The envelope arrives and is opened.                                     *)
WEnvelope(a) ==
    LET s == current[a].id
    IN  /\ phase[a] = "waiting"
        /\ NewEnvelope(a, s)
        /\ current' = [ b \in Agents |-> IF b = a THEN [id |-> s, seal |-> "sealed"]
                                                  ELSE Outdate(current[b], s) ]
        /\ Goto(a, "running")
        /\ UNCHANGED << online, failures >>

(* The coordinator assigned a subtask but its answer never arrives: lost   *)
(* with a task in the clear, given up on while the envelope is made, or a  *)
(* 500 instead of the envelope.                                            *)
WPullUnanswered(a) ==
    /\ CallFails(a)
    /\ \/ /\ phase[a] = "pull" /\ ~capability[a].x25519
          /\ \E i \in DOMAIN tasks : Pull(a, i)
       \/ phase[a] = "waiting" /\ UNCHANGED vars
       \/ phase[a] = "waiting" /\ SealFails(a, current[a].id)

(* A /pull handler whose worker has gone makes its envelope all the same,  *)
(* or fails.                                                               *)
Orphaned(a, s) == ~(phase[a] = "waiting" /\ current[a].id = s)

SealOrphan(a, s) ==
    /\ Orphaned(a, s)
    /\ NewEnvelope(a, s)
    /\ current' = [b \in Agents |-> Outdate(current[b], s)]
    /\ UNCHANGED << phase, online, failures >>

SealOrphanFails(a, s) ==
    /\ Orphaned(a, s)
    /\ SealFails(a, s)
    /\ UNCHANGED workerVars

(* Nothing to do, or the item claim() picked is not for this agent.        *)
WPullNothing(a) ==
    /\ phase[a] = "pull"
    /\ \A i \in DOMAIN tasks : Claims(a, i) => ~MayRun(a, tasks[i].id)
    /\ Goto(a, "register")
    /\ UNCHANGED << vars, current, online, failures, buffer >>

(* worker.runSubtask returns, successfully or not.                         *)
WRun(a) ==
    /\ phase[a] = "running"
    /\ Goto(a, "posting")
    /\ UNCHANGED << vars, current, online, failures, buffer >>

-----------------------------------------------------------------------------
(* /result as it acts on this payload; the reporter is not blacklisted.    *)
Accepted(a, p) == p.seal = "plain" \/ (p.seal = "sealed" /\ envelopeKey[p.id] = a)

Deliver(a, p) ==
    /\ Accepted(a, p)
    /\ UNCHANGED blacklisted
    /\ Result(a, p.id, p.seal = "sealed")

(* enqueuePendingResult: INSERT OR REPLACE, keyed by the subtask, of which *)
(* there is one row at most.                                               *)
Rows(q, p) == {k \in DOMAIN q : q[k].id = p.id}
Buffered(q, p) ==
    Append(IF Rows(q, p) = {} THEN q ELSE Splice(q, CHOOSE k \in Rows(q, p) : TRUE), p)

WPost(a) ==
    /\ phase[a] = "posting"
    /\ Deliver(a, current[a])
    /\ Goto(a, "register")
    /\ current' = [current EXCEPT ![a] = NoPayload]
    /\ UNCHANGED << online, failures, buffer >>

KeepForRetry(a) ==
    /\ buffer' = [buffer EXCEPT ![a] = Buffered(@, current[a])]
    /\ current' = [current EXCEPT ![a] = NoPayload]
    /\ Goto(a, "register")
    /\ UNCHANGED << online, failures >>

(* The coordinator handled the result but the answer was lost.             *)
WPostUnanswered(a) ==
    /\ phase[a] = "posting"
    /\ Deliver(a, current[a])
    /\ KeepForRetry(a)

(* The request was lost, or the result could not be decrypted.             *)
WPostFails(a) ==
    /\ phase[a] = "posting"
    /\ KeepForRetry(a)
    /\ UNCHANGED vars

-----------------------------------------------------------------------------
(* flushPendingResults: oldest first, stopping at the first failure.       *)
WFlushDone(a) ==
    /\ phase[a] = "flush"
    /\ buffer[a] = << >>
    /\ Goto(a, "register")
    /\ UNCHANGED << vars, current, online, failures, buffer >>

WFlushHead(a) ==
    /\ phase[a] = "flush"
    /\ buffer[a] # << >>
    /\ Deliver(a, Head(buffer[a]))
    /\ buffer' = [buffer EXCEPT ![a] = Tail(@)]
    /\ UNCHANGED << phase, current, online, failures >>

WFlushStops(a) ==
    /\ phase[a] = "flush"
    /\ buffer[a] # << >>
    /\ Goto(a, "register")
    /\ UNCHANGED << vars, current, online, failures, buffer >>

(* The worker process restarts; only the sqlite file survives.             *)
WCrash(a) ==
    /\ Goto(a, "register")
    /\ current' = [current EXCEPT ![a] = NoPayload]
    /\ online' = [online EXCEPT ![a] = TRUE]
    /\ failures' = [failures EXCEPT ![a] = 0]
    /\ UNCHANGED << vars, buffer >>

-----------------------------------------------------------------------------
Coordinator ==
    /\ \/ \E r \in Requests : Submit(r)
       \/ Tick
    /\ UNCHANGED workerVars

Orphans == \E a \in Agents, s \in Ids : SealOrphan(a, s) \/ SealOrphanFails(a, s)

Worker(a) ==
    \/ WRegister(a) \/ WHeartbeat(a) \/ WCallLost(a)
    \/ WPull(a) \/ WEnvelope(a) \/ WPullUnanswered(a) \/ WPullNothing(a) \/ WRun(a)
    \/ WPost(a) \/ WPostUnanswered(a) \/ WPostFails(a)
    \/ WFlushDone(a) \/ WFlushHead(a) \/ WFlushStops(a)
    \/ WCrash(a)

WorkNext == Coordinator \/ Orphans \/ \E a \in Agents : Worker(a)

(* A step in which no call, no answer and no process is lost.              *)
Healthy ==
    \/ Coordinator
    \/ \E a \in Agents, s \in Ids : SealOrphan(a, s)
    \/ \E a \in Agents :
         \/ WRegister(a) \/ WHeartbeat(a)
         \/ WPull(a) \/ WEnvelope(a) \/ WPullNothing(a) \/ WRun(a)
         \/ WPost(a) \/ (WPostFails(a) /\ ~Accepted(a, current[a]))
         \/ WFlushDone(a) \/ WFlushHead(a)
         \/ (WFlushStops(a) /\ ~Accepted(a, Head(buffer[a])))

(* The loop of a worker never stops, handlers run to their end, time       *)
(* passes, and the network, the store and the machines are not broken for  *)
(* good.                                                                   *)
Fairness ==
    /\ WF_workVars(Tick /\ UNCHANGED workerVars)
    /\ \A a \in Agents : WF_workVars(Worker(a))
    /\ WF_workVars(Orphans)
    /\ <>[][Healthy]_workVars

WorkSpec == WorkInit /\ [][WorkNext]_workVars /\ Fairness

-----------------------------------------------------------------------------

(* A queued subtask is eventually completed although workers crash, calls  *)
(* get lost, claims go stale and results arrive late, because /heartbeat   *)
(* hands stale claims out again.                                           *)
QueuedGetsDone == \A s \in Ids : s \in Queued ~> s \in completedOutputs
=============================================================================

----------------------------- MODULE BleOutbound -----------------------------
(***************************************************************************)
(* Work a macOS worker sends to devices nearby while it is cut off from    *)
(* the coordinator: NobleBLETransport finds peers and talks to them,       *)
(* BLEMeshManager routes a task to the best of them, and the loop of       *)
(* worker-runner.ts takes tasks from outbound_task_queue.  The loop awaits *)
(* every task, so one is on its way at a time; peers finish when they do.  *)
(***************************************************************************)
EXTENDS Naturals, FiniteSets, Sequences, SequencesExt

CONSTANTS
    BlePeers,    \* devices that advertise the service
    OutTasks,    \* rows of outbound_task_queue
    Target,      \* the target_agent_id of each
    MaxRetries,  \* peers tried for one task
    NoTask

ASSUME BleAssumption == Target \in [OutTasks -> BlePeers] /\ MaxRetries \in Nat \ {0} /\ NoTask \notin OutTasks

VARIABLES
    offline,     \* the loop is in its offline mode
    scanning,    \* the scan is wanted
    radio,       \* the scan is running
    known,       \* peers: from agents to "fresh", or "stale" after 60 s unseen
    identified,  \* identifiedPeripherals
    identifying, \* connectedPeripherals: identity reads under way
    outRow,      \* status of each row
    send,        \* what the loop is doing
    atPeer,      \* requests that a peer is working on
    txs          \* transactions recorded in the offline ledger

blevars == << offline, scanning, radio, known, identified, identifying, outRow, send, atPeer, txs >>
peerVars == << known, identified, identifying >>

AtTop == [at |-> "top", ask |-> << >>, task |-> NoTask, peers |-> << >>]

BleInit ==
    /\ offline = FALSE /\ scanning = TRUE /\ radio = TRUE
    /\ known = [p \in {} |-> "fresh"] /\ identified = {} /\ identifying = {}
    /\ outRow = [t \in OutTasks |-> "none"] /\ send = AtTop
    /\ atPeer = {} /\ txs = {}

Orders(S) == {s \in [1 .. Cardinality(S) -> S] : IsInjective(s)}

-----------------------------------------------------------------------------
(* handleDiscovery: of a peripheral it has identified only the time is     *)
(* renewed, of one in the list; another is connected to for its identity.  *)
Seen(p) == [q \in DOMAIN known |-> IF q = p THEN "fresh" ELSE known[q]]

HandleDiscovery(p) ==
    /\ radio
    /\ IF p \in identified
       THEN known' = Seen(p) /\ UNCHANGED identifying
       ELSE identifying' = identifying \union {p} /\ UNCHANGED known
    /\ UNCHANGED << offline, scanning, radio, identified, outRow, send, atPeer, txs >>

IdentityRead(p, ok) ==
    /\ p \in identifying /\ identifying' = identifying \ {p}
    /\ IF ok THEN /\ known' = [q \in DOMAIN known \union {p} |-> IF q = p THEN "fresh" ELSE known[q]]
                  /\ identified' = identified \union {p}
             ELSE UNCHANGED << known, identified >>
    /\ UNCHANGED << offline, scanning, radio, outRow, send, atPeer, txs >>

(* A peer has not been seen for a minute.                                  *)
GrowsStale(p) ==
    /\ p \in DOMAIN known /\ known' = [known EXCEPT ![p] = "stale"]
    /\ UNCHANGED << offline, scanning, radio, identified, identifying, outRow, send, atPeer, txs >>

(* discoveredPeers, and evictStale of the router, drop the stale ones.     *)
FreshPeers == {p \in DOMAIN known : known[p] = "fresh"}
DropStale == known' = [p \in FreshPeers |-> "fresh"] /\ UNCHANGED << identified, identifying >>

-----------------------------------------------------------------------------
(* Something queues a task for a peer.                                     *)
EnqueueOutboundTask(t) ==
    /\ outRow[t] = "none" /\ outRow' = [outRow EXCEPT ![t] = "queued"]
    /\ UNCHANGED << offline, scanning, radio, peerVars, send, atPeer, txs >>

(* setOffline starts or stops the scan.                                    *)
SetOffline(off) == offline' = off /\ scanning' = off /\ radio' = off

GoOffline ==
    /\ send.at = "top" /\ ~offline /\ SetOffline(TRUE)
    /\ UNCHANGED << peerVars, outRow, send, atPeer, txs >>

(* A round in offline mode: the probe may find the coordinator again, and  *)
(* the peers of that moment are asked for all the same.                    *)
OfflineRound(probe) ==
    /\ send.at = "top" /\ offline
    /\ IF probe THEN SetOffline(FALSE) ELSE UNCHANGED << offline, scanning, radio >>
    /\ DropStale
    /\ \E order \in Orders(FreshPeers) : send' = [AtTop EXCEPT !.at = "ask", !.ask = order]
    /\ UNCHANGED << outRow, atPeer, txs >>

QueuedFor(p) == {t \in OutTasks : outRow[t] = "queued" /\ Target[t] = p}

(* claimNextOutbound, for each of these peers.                             *)
ClaimNextOutbound ==
    /\ send.at = "ask" /\ send.ask # << >>
    /\ LET p == Head(send.ask) IN
         \/ /\ QueuedFor(p) = {} /\ send' = [send EXCEPT !.ask = Tail(@)] /\ UNCHANGED outRow
         \/ \E t \in QueuedFor(p) :
              /\ outRow' = [outRow EXCEPT ![t] = "sent"]
              /\ send' = [send EXCEPT !.ask = Tail(@), !.at = "route", !.task = t]
    /\ UNCHANGED << offline, scanning, radio, peerVars, atPeer, txs >>

RoundEnds ==
    /\ send.at = "ask" /\ send.ask = << >> /\ send' = AtTop
    /\ UNCHANGED << offline, scanning, radio, peerVars, outRow, atPeer, txs >>

(* routeTask: the best peers by cost; other token or too costly, and a     *)
(* peer is left out.  The row's target is not asked for.                   *)
RouteTask ==
    /\ send.at = "route" /\ DropStale
    /\ \E S \in SUBSET FreshPeers : \E order \in Orders(S) :
         send' = [send EXCEPT !.at = "send", !.peers = SubSeq(order, 1, IF Len(order) < MaxRetries THEN Len(order) ELSE MaxRetries)]
    /\ UNCHANGED << offline, scanning, radio, outRow, atPeer, txs >>

(* cleanup: the scan goes on if it was wanted when the task began.         *)
Resumes == radio' = scanning

(* Connecting, or finding the characteristics, fails: the next peer.       *)
ConnectFails ==
    /\ send.at = "send" /\ send.peers # << >>
    /\ send' = [send EXCEPT !.peers = Tail(@)] /\ Resumes
    /\ UNCHANGED << offline, scanning, peerVars, outRow, atPeer, txs >>

(* sendTaskRequest stops the scan, connects, subscribes and writes.        *)
SendTaskRequest ==
    /\ send.at = "send" /\ send.peers # << >>
    /\ radio' = FALSE /\ send' = [send EXCEPT !.at = "wait"]
    /\ atPeer' = atPeer \union {[task |-> send.task, peer |-> Head(send.peers)]}
    /\ UNCHANGED << offline, scanning, peerVars, outRow, txs >>

(* Nothing for 90 s, or the link breaks; the peer works on.                *)
TimesOutOrDrops ==
    /\ send.at = "wait"
    /\ send' = [send EXCEPT !.at = "send", !.peers = Tail(@)] /\ Resumes
    /\ UNCHANGED << offline, scanning, peerVars, outRow, atPeer, txs >>

(* Faulty variant of AfterAnswer: routeTask goes on to the next peer.      *)
AfterAnswerGoesOn(ok, recorded) == [send EXCEPT !.at = "send", !.peers = Tail(@)]

(* A completed answer is recorded in the ledger and ends routeTask; if the *)
(* ledger throws, no other peer is asked.  A failed one leads to the next. *)
AfterAnswer(ok, recorded) ==
    IF ok THEN [send EXCEPT !.at = IF recorded THEN "paid" ELSE "send", !.peers = << >>]
          ELSE [send EXCEPT !.at = "send", !.peers = Tail(@)]

(* handleIncomingTaskRequest at the peer ends and notifies whoever has     *)
(* subscribed by now.  The requester takes what comes for the answer: it   *)
(* does not compare requestId.                                             *)
PeerFinishes(e, ok, recorded) ==
    /\ e \in atPeer /\ atPeer' = atPeer \ {e}
    /\ IF send.at = "wait" /\ Head(send.peers) = e.peer
       THEN /\ send' = AfterAnswer(ok, recorded) /\ Resumes
            /\ txs' = IF ok /\ recorded
                      THEN txs \union {[task |-> send.task, provider |-> e.peer, of |-> e.task]}
                      ELSE txs
       ELSE UNCHANGED << send, radio, txs >>
    /\ UNCHANGED << offline, scanning, peerVars, outRow >>

(* completeOutbound, after the ledger was written; if it throws, the row   *)
(* fails although it was paid.                                             *)
CompleteOutbound(written) ==
    /\ send.at = "paid"
    /\ outRow' = [outRow EXCEPT ![send.task] = IF written THEN "completed" ELSE "failed"]
    /\ send' = [send EXCEPT !.at = "ask", !.task = NoTask]
    /\ UNCHANGED << offline, scanning, radio, peerVars, atPeer, txs >>

(* No peer completed the task, or the ledger threw.                        *)
FailOutbound ==
    /\ send.at = "send" /\ send.peers = << >>
    /\ outRow' = [outRow EXCEPT ![send.task] = "failed"]
    /\ send' = [send EXCEPT !.at = "ask", !.task = NoTask]
    /\ UNCHANGED << offline, scanning, radio, peerVars, atPeer, txs >>

(* failOutbound throws as well: the row stays sent, the loop begins again. *)
LoopThrows ==
    /\ send.at = "paid" \/ (send.at = "send" /\ send.peers = << >>)
    /\ send' = AtTop
    /\ UNCHANGED << offline, scanning, radio, peerVars, outRow, atPeer, txs >>

(* The worker restarts, after any write; rows and ledger are on disk.      *)
BleRestart ==
    /\ offline' = FALSE /\ scanning' = TRUE /\ radio' = TRUE
    /\ known' = [p \in {} |-> "fresh"] /\ identified' = {} /\ identifying' = {}
    /\ send' = AtTop
    /\ UNCHANGED << outRow, atPeer, txs >>

BleNext ==
    \/ GoOffline \/ ClaimNextOutbound \/ RoundEnds \/ RouteTask \/ ConnectFails \/ SendTaskRequest
    \/ TimesOutOrDrops \/ FailOutbound \/ LoopThrows \/ BleRestart
    \/ \E p \in BlePeers : HandleDiscovery(p) \/ GrowsStale(p)
    \/ \E t \in OutTasks : EnqueueOutboundTask(t)
    \/ \E b \in BOOLEAN : OfflineRound(b) \/ \E p \in BlePeers : IdentityRead(p, b)
    \/ \E b \in BOOLEAN : CompleteOutbound(b)
    \/ \E e \in atPeer, b \in BOOLEAN, c \in BOOLEAN : PeerFinishes(e, b, c)

BleSpec == BleInit /\ [][BleNext]_blevars

-----------------------------------------------------------------------------
(* A task is paid for at most once however many peers have worked on it,   *)
(* never before it was handed out, and always when its row says completed: *)
(* late answers, retries at other peers and restarts change none of it.  A *)
(* row that says sent or failed may have been paid, by a worker that then  *)
(* restarted or could not write the row.                                   *)
PaidAtMostOnce ==
    \A t \in OutTasks :
      LET payments == Cardinality({x \in txs : x.task = t})
      IN  /\ payments <= 1
          /\ outRow[t] \in {"none", "queued"} => payments = 0
          /\ outRow[t] = "completed" => payments = 1

=============================================================================

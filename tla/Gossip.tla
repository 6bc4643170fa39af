------------------------------- MODULE Gossip -------------------------------
(***************************************************************************)
(* Gossip between coordinators: the peer table and the three ways a        *)
(* message travels (mesh/gossip.ts: an open WebSocket, HTTP, a relay), the *)
(* memory of message ids (mesh/protocol.ts), and at the receiver           *)
(* handleMeshIngest with its fan-out, relay, registration and bootstrap    *)
(* (swarm/coordinator.ts).  Calls are lost, time out after they were       *)
(* handled, and overlap, so that copies of a message come by several ways. *)
(* Message effects other than the exchange of peers are in MeshTasks and   *)
(* Blacklist.                                                              *)
(***************************************************************************)
EXTENDS Naturals, Sequences, FiniteSets, SequencesExt

CONSTANTS
    GNodes,         \* coordinators
    Msgs,           \* message ids, each broadcast once
    Sender,         \* who broadcasts each message
    Exchanges,      \* the messages that are peer exchanges
    Seeds,          \* <<c, d>>: c bootstraps from d
    Dials,          \* <<c, d>>: d, behind a NAT, dials c
    SeenLimit,      \* SEEN_CACHE_LIMIT
    NatAfter,       \* NAT_DETECTION_THRESHOLD
    EvictAfter,     \* MAX_CONSECUTIVE_FAILURES
    MaxFaults       \* bound on failed calls and lost connections

ASSUME GossipAssumption ==
    /\ Sender \in [Msgs -> GNodes] /\ Exchanges \subseteq Msgs
    /\ Seeds \subseteq GNodes \X GNodes /\ Dials \subseteq GNodes \X GNodes
    /\ {SeenLimit, NatAfter, EvictAfter, MaxFaults} \subseteq Nat

VARIABLES
    peersOf,     \* peers of each mesh
    sockets,     \* <<c, d>>: d holds a WebSocket to c
    failures,    \* failureCounts
    natted,      \* natPeers
    payload,     \* peers listed in each exchange that was broadcast
    broadcasted, \* messages broadcast so far
    copies,      \* copies under way: message, receiver, way, and who sent it
    seen,        \* seenIds in the order of insertion
    taken,       \* history: ids each node took in under the sender's key since it started
    faults       \* faults so far

gvars == << peersOf, sockets, failures, natted, payload, broadcasted, copies, seen, taken, faults >>
linkVars == << sockets, failures, natted >>

GossipInit ==
    /\ peersOf = [c \in GNodes |-> {}] /\ sockets = {}
    /\ failures = [c \in GNodes |-> [d \in GNodes |-> 0]]
    /\ natted = [c \in GNodes |-> {}]
    /\ payload = [m \in Msgs |-> {}] /\ broadcasted = {} /\ copies = {}
    /\ seen = [c \in GNodes |-> << >>] /\ taken = [c \in GNodes |-> << >>]
    /\ faults = 0

Copy(m, d, way, by) == [msg |-> m, to |-> d, way |-> way, by |-> by]

-----------------------------------------------------------------------------
(* bootstrapPeerMesh at c: d answers /identity and is added, then c        *)
(* registers with d (POST /mesh/register-peer), which may fail.            *)
AddPeer(c, d) == peersOf' = [peersOf EXCEPT ![c] = @ \union {d}]
RegisterPeer(c, d) == peersOf' = [peersOf EXCEPT ![c] = @ \union {d}, ![d] = @ \union {c}]

BootstrapPeer(c, d) ==
    /\ << c, d >> \in Seeds /\ c # d /\ d \notin peersOf[c]
    /\ RegisterPeer(c, d) \/ AddPeer(c, d)
    /\ UNCHANGED << linkVars, payload, broadcasted, copies, seen, taken, faults >>

(* GET /mesh/ws: the socket clears what failures had led to.               *)
SocketOpens(c, d) ==
    /\ << c, d >> \in Dials \ sockets
    /\ sockets' = sockets \union {<< c, d >>}
    /\ natted' = [natted EXCEPT ![c] = @ \ {d}]
    /\ failures' = [failures EXCEPT ![c][d] = 0]
    /\ UNCHANGED << peersOf, payload, broadcasted, copies, seen, taken, faults >>

SocketCloses(c, d) ==
    /\ << c, d >> \in sockets /\ faults < MaxFaults
    /\ sockets' = sockets \ {<< c, d >>} /\ faults' = faults + 1
    /\ UNCHANGED << peersOf, failures, natted, payload, broadcasted, copies, seen, taken >>

(* GossipMesh.broadcast: the first way for each peer.                      *)
FirstWay(c, d) ==
    IF << c, d >> \in sockets THEN "ws" ELSE IF d \in natted[c] THEN "relay" ELSE "http"

Broadcasts(m) ==
    LET c == Sender[m] IN
    /\ m \notin broadcasted /\ peersOf[c] # {}
    /\ broadcasted' = broadcasted \union {m}
    /\ payload' = [payload EXCEPT ![m] = IF m \in Exchanges THEN peersOf[c] ELSE {}]
    /\ copies' = copies \union {Copy(m, d, FirstWay(c, d), c) : d \in peersOf[c]}
    /\ UNCHANGED << peersOf, linkVars, seen, taken, faults >>

-----------------------------------------------------------------------------
(* Faulty variant of Remember: cut one id too early.                       *)
RememberLess(ids, m) == IF Len(ids) + 1 >= SeenLimit THEN Tail(Append(ids, m)) ELSE Append(ids, m)

(* validateMessage remembers the id; beyond the limit the oldest goes.     *)
Remember(ids, m) == IF Len(ids) + 1 > SeenLimit THEN Tail(Append(ids, m)) ELSE Append(ids, m)

Known(c, m) == Sender[m] \in peersOf[c]

(* handleMeshIngest takes the message in; an exchange also from strangers, *)
(* whose messages are neither verified nor remembered.                     *)
Ingests(c, m) ==
    IF Known(c, m) THEN ~Contains(seen[c], m) ELSE m \in Exchanges

(* The peers of an exchange that are new.                                  *)
Merged(c, m) == peersOf[c] \union (payload[m] \ {c})

TakeIn(c, m) ==
    /\ peersOf' = [peersOf EXCEPT ![c] = Merged(c, m)]
    /\ IF Known(c, m)
       THEN /\ seen' = [seen EXCEPT ![c] = Remember(@, m)]
            /\ taken' = [taken EXCEPT ![c] = Append(@, m)]
       ELSE UNCHANGED << seen, taken >>

(* relayToWsPeers: to every open socket but the sender's.                  *)
FanOut(c, m) == {Copy(m, d, "ws", c) : d \in {e \in GNodes \ {c, Sender[m]} : << c, e >> \in sockets}}

(* A copy arrives by HTTP or over a socket and is taken in, passed on and, *)
(* for HTTP, answered.                                                     *)
Arrives(k) ==
    /\ k \in copies /\ k.way \in {"http", "ws"} /\ Ingests(k.to, k.msg)
    /\ TakeIn(k.to, k.msg)
    /\ copies' = (copies \ {k}) \union FanOut(k.to, k.msg)
    /\ failures' = IF k.way = "http" THEN [failures EXCEPT ![k.by][k.to] = 0] ELSE failures
    /\ UNCHANGED << sockets, natted, payload, broadcasted, faults >>

(* recordFailure: too many HTTP failures mark the peer, more evict it      *)
(* unless it holds a socket.                                               *)
RecordFailure(c, d) ==
    LET count == failures[c][d] + 1
        out == count >= EvictAfter
        gone == out /\ << c, d >> \notin sockets
    IN /\ failures' = [failures EXCEPT ![c][d] = IF out THEN 0 ELSE count]
       /\ natted' = [natted EXCEPT ![c] = IF gone THEN @ \ {d}
                                          ELSE IF count >= NatAfter THEN @ \union {d} ELSE @]
       /\ peersOf' = IF gone THEN [peersOf EXCEPT ![c] = @ \ {d}] ELSE peersOf

(* The receiver refuses: a stranger, or an id it remembers.  Over HTTP     *)
(* that is a failure and a relay is tried.                                 *)
Refused(k) ==
    /\ k \in copies /\ k.way \in {"http", "ws"} /\ ~Ingests(k.to, k.msg)
    /\ IF k.way = "http"
       THEN /\ RecordFailure(k.by, k.to)
            /\ copies' = (copies \ {k}) \union {Copy(k.msg, k.to, "relay", k.by)}
       ELSE /\ copies' = copies \ {k}
            /\ UNCHANGED << failures, natted, peersOf >>
    /\ UNCHANGED << sockets, payload, broadcasted, seen, taken, faults >>

(* The HTTP call times out; the copy may yet arrive.                       *)
CallFails(k) ==
    /\ k \in copies /\ k.way = "http" /\ faults < MaxFaults /\ faults' = faults + 1
    /\ RecordFailure(k.by, k.to)
    /\ \E late \in BOOLEAN :
         copies' = (copies \ {k}) \union {Copy(k.msg, k.to, "relay", k.by)}
                     \union (IF late THEN {Copy(k.msg, k.to, "ws", k.by)} ELSE {})
    /\ UNCHANGED << sockets, payload, broadcasted, seen, taken >>

(* POST /mesh/relay-gossip at r: r takes the message in itself, and only   *)
(* if that went well pushes it to the target.                              *)
Relay(k, r) ==
    /\ k \in copies /\ k.way = "relay"
    /\ << k.by, r >> \in sockets /\ r \in peersOf[k.by] /\ r # k.to
    /\ << r, k.to >> \in sockets /\ Ingests(r, k.msg)
    /\ TakeIn(r, k.msg)
    /\ copies' = (copies \ {k}) \union {Copy(k.msg, k.to, "ws", r)}
    /\ UNCHANGED << linkVars, payload, broadcasted, faults >>

(* No relay takes it, or a socket closes on it.                            *)
CopyLost(k) ==
    /\ k \in copies /\ k.way # "http"
    /\ copies' = copies \ {k}
    /\ UNCHANGED << peersOf, linkVars, payload, broadcasted, seen, taken, faults >>

(* A node restarts: everything it knew was in memory.                      *)
GossipRestart(c) ==
    /\ peersOf' = [peersOf EXCEPT ![c] = {}]
    /\ sockets' = {s \in sockets : s[1] # c /\ s[2] # c}
    /\ failures' = [failures EXCEPT ![c] = [d \in GNodes |-> 0]]
    /\ natted' = [natted EXCEPT ![c] = {}]
    /\ seen' = [seen EXCEPT ![c] = << >>] /\ taken' = [taken EXCEPT ![c] = << >>]
    /\ copies' = {k \in copies : k.by # c}
    /\ UNCHANGED << payload, broadcasted, faults >>

GossipNext ==
    \/ \E c \in GNodes : GossipRestart(c)
    \/ \E c, d \in GNodes : BootstrapPeer(c, d) \/ SocketOpens(c, d) \/ SocketCloses(c, d)
    \/ \E m \in Msgs : Broadcasts(m)
    \/ \E k \in copies : \/ Arrives(k) \/ Refused(k) \/ CallFails(k) \/ CopyLost(k)
                         \/ \E r \in GNodes : Relay(k, r)

GossipSpec == GossipInit /\ [][GossipNext]_gvars

-----------------------------------------------------------------------------
(* However many copies of a message come, by whatever ways, a node takes   *)
(* it in twice only if the memory of ids has overflowed: at least as many  *)
(* other messages as it holds were taken in between.                       *)
TakenOnce ==
    \A c \in GNodes : \A i, j \in DOMAIN taken[c] :
      i < j /\ taken[c][i] = taken[c][j] =>
        Cardinality({taken[c][l] : l \in i + 1 .. j - 1}) >= SeenLimit

=============================================================================

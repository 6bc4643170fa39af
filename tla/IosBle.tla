-------------------------------- MODULE IosBle --------------------------------
(***************************************************************************)
(* BLEMeshManager of the iPhone as a client: sendTask connects to a peer,  *)
(* writes a request and waits on a continuation that a notification, an    *)
(* error or a timer of 90 s resumes.  There is one slot for the            *)
(* continuation, one for the request id and one buffer for the answer, and *)
(* the chat and the start of the runtime both call sendTask.  Delegate     *)
(* callbacks hop to the main actor, where every step here is one turn.     *)
(***************************************************************************)
EXTENDS Naturals, FiniteSets

CONSTANTS
    Sends,           \* calls of sendTask
    SendPeers,       \* peers in range
    MaxConnections,  \* of BLEMeshConstants
    NoSend

ASSUME IosBleAssumption == NoSend \notin Sends /\ NoSend \notin SendPeers /\ MaxConnections \in Nat \ {0}

VARIABLES
    slots,        \* connectedPeripherals
    reachable,    \* peripheralsByAgentId
    sendState,    \* "new", "waiting" or "returned", of each call
    returns,      \* how often each was resumed
    cont,         \* outboundTaskContinuation: the call that it resumes
    reqId,        \* outboundTaskRequestId: the call it names
    outTo,        \* outboundPeripheral
    timers,       \* calls whose timer of 90 s has not fired
    working,      \* requests a peer is working on
    partial       \* the buffer holds the start of an answer that was cut off

ibvars == << slots, reachable, sendState, returns, cont, reqId, outTo, timers, working, partial >>

IosBleInit ==
    /\ slots = {} /\ reachable = {} /\ sendState = [c \in Sends |-> "new"]
    /\ returns = [c \in Sends |-> 0] /\ cont = NoSend /\ reqId = NoSend /\ outTo = NoSend
    /\ timers = {} /\ working = {} /\ partial = FALSE

-----------------------------------------------------------------------------
(* didDiscover: a connection while there is a slot, kept until it breaks.  *)
DidDiscover(p) ==
    /\ p \notin slots /\ Cardinality(slots) < MaxConnections /\ slots' = slots \union {p}
    /\ UNCHANGED << reachable, sendState, returns, cont, reqId, outTo, timers, working, partial >>

(* parsePeerIdentity remembers the peripheral for good.                    *)
ParsePeerIdentity(p) ==
    /\ p \in slots /\ reachable' = reachable \union {p}
    /\ UNCHANGED << slots, sendState, returns, cont, reqId, outTo, timers, working, partial >>

(* didDisconnectPeripheral: a continuation is left to its timer, and what  *)
(* has come of an answer stays in the buffer.                              *)
DidDisconnect(p, cutOff) ==
    /\ p \in slots \union {outTo} /\ slots' = slots \ {p}
    /\ cutOff => outTo = p /\ \E w \in working : w.peer = p
    /\ partial' = (partial \/ cutOff) /\ working' = {w \in working : w.peer # p}
    /\ UNCHANGED << reachable, sendState, returns, cont, reqId, outTo, timers >>

-----------------------------------------------------------------------------
Resumed(c) == /\ sendState' = [sendState EXCEPT ![c] = "returned"]
              /\ returns' = [returns EXCEPT ![c] = @ + 1]

(* Whoever resumes takes the continuation out of its slot first.           *)
TakeAndResume ==
    IF cont = NoSend THEN UNCHANGED << cont, sendState, returns >>
    ELSE cont' = NoSend /\ Resumed(cont)

(* sendTask up to its suspension overwrites all three slots.               *)
SendTask(c, p) ==
    /\ sendState[c] = "new"
    /\ IF p \in reachable
       THEN /\ sendState' = [sendState EXCEPT ![c] = "waiting"] /\ cont' = c /\ reqId' = c /\ outTo' = p
            /\ timers' = timers \union {c}
            /\ UNCHANGED returns
       ELSE Resumed(c) /\ UNCHANGED << cont, reqId, outTo, timers >>
    /\ UNCHANGED << slots, reachable, working, partial >>

DidFailToConnect(p) ==
    /\ p = outTo /\ slots' = slots \ {p} /\ outTo' = NoSend /\ TakeAndResume
    /\ UNCHANGED << reachable, reqId, timers, working, partial >>

(* The characteristics are found: writeOutboundTask names whatever request *)
(* is current.                                                             *)
WriteOutboundTask ==
    /\ outTo # NoSend /\ reqId # NoSend
    /\ working' = working \union {[call |-> reqId, peer |-> outTo]}
    /\ UNCHANGED << slots, reachable, sendState, returns, cont, reqId, outTo, timers, partial >>

(* Faulty variant of WriteFailed: the continuation stays in its slot.      *)
WriteFailedKeeps == IF cont = NoSend THEN UNCHANGED << cont, sendState, returns >>
                    ELSE Resumed(cont) /\ UNCHANGED cont

(* didWriteValueFor with an error.                                         *)
WriteFailed == TakeAndResume

DidFailToWrite ==
    /\ outTo # NoSend /\ WriteFailed
    /\ UNCHANGED << slots, reachable, reqId, outTo, timers, working, partial >>

(* handleOutboundTaskResponse, at the last chunk.  After the rest of an    *)
(* older answer it does not parse and goes with the buffer.  Whose request *)
(* it answers is not looked at.                                            *)
HandleOutboundTaskResponse(w) ==
    /\ w \in working /\ working' = working \ {w} /\ partial' = FALSE
    /\ IF partial THEN UNCHANGED << cont, reqId, sendState, returns, outTo, slots >>
       ELSE /\ TakeAndResume /\ reqId' = IF cont = NoSend THEN reqId ELSE NoSend
            /\ outTo' = NoSend /\ slots' = slots \ {outTo}
    /\ UNCHANGED << reachable, timers >>

(* The timer of a call resumes whatever call is waiting by then.           *)
TimerFires(c) == TakeAndResume

SendTimeout(c) ==
    /\ c \in timers /\ timers' = timers \ {c} /\ TimerFires(c) /\ reqId' = NoSend
    /\ UNCHANGED << slots, reachable, outTo, working, partial >>

IosBleNext ==
    \/ WriteOutboundTask \/ DidFailToWrite
    \/ \E p \in SendPeers : \/ DidDiscover(p) \/ ParsePeerIdentity(p) \/ DidFailToConnect(p)
                            \/ \E b \in BOOLEAN : DidDisconnect(p, b)
    \/ \E c \in Sends : SendTimeout(c) \/ \E p \in SendPeers : SendTask(c, p)
    \/ \E w \in working : HandleOutboundTaskResponse(w)

IosBleSpec == IosBleInit /\ [][IosBleNext]_ibvars

-----------------------------------------------------------------------------
(* A continuation is resumed once; a second time would end the app.  An    *)
(* error, a late notification and two timers may race for it.              *)
ResumedOnce == \A c \in Sends : returns[c] = IF sendState[c] = "returned" THEN 1 ELSE 0
=============================================================================

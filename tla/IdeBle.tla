-------------------------------- MODULE IdeBle --------------------------------
(***************************************************************************)
(* An IDE on a Mac that lets a phone nearby run its prompts.  The proxy    *)
(* (swift-ble-proxy) answers HTTP on the Mac: a thread per request writes  *)
(* the prompt over BLE and waits on a semaphore for the callback of its    *)
(* request id.  The phone (BluetoothTransport) reassembles what is         *)
(* written, infers and notifies the answer.  Both directions are cut into  *)
(* chunks; here a message is two chunks, and JSON parses when the buffer   *)
(* holds exactly one message.                                              *)
(***************************************************************************)
EXTENDS Naturals, Sequences, FiniteSets

CONSTANT Calls    \* requests to /api/generate, each with its own id

VARIABLES
    link,         \* "off" (radio), "down", "up" (connected) or "ready" (characteristics found)
    callAt,       \* "new", "waiting" or "returned", of each call
    registered,   \* RequestRegistry.callbacks
    toSend,       \* writes the main thread has been asked for
    result,       \* what each call returned with: "error", or the id answered
    toPhone,      \* chunks written and not yet received
    writeBuffer,  \* of the phone
    phoneAt,      \* "none", "inferring", "first" (a chunk is notified) or "done", of each request
    responseBuffer  \* of the proxy

jvars == << link, callAt, registered, toSend, result, toPhone, writeBuffer, phoneAt, responseBuffer >>

Chunks(c) == << [of |-> c, part |-> 1], [of |-> c, part |-> 2] >>

IdeBleInit ==
    /\ link = "down" /\ callAt = [c \in Calls |-> "new"] /\ registered = {} /\ toSend = {}
    /\ result = [c \in Calls |-> {}] /\ toPhone = << >> /\ writeBuffer = << >>
    /\ phoneAt = [c \in Calls |-> "none"] /\ responseBuffer = << >>

Waiting == {c \in Calls : callAt[c] = "waiting"}

Returns(C, r) == /\ callAt' = [c \in Calls |-> IF c \in C THEN "returned" ELSE callAt[c]]
                 /\ result' = [c \in Calls |-> IF c \in C THEN result[c] \union {r} ELSE result[c]]

-----------------------------------------------------------------------------
(* handleGenerate: the callback is registered first, then the main thread  *)
(* is asked to write.                                                      *)
HandleGenerate(c) ==
    /\ callAt[c] = "new" /\ callAt' = [callAt EXCEPT ![c] = "waiting"]
    /\ registered' = registered \union {c} /\ toSend' = toSend \union {c}
    /\ UNCHANGED << link, result, toPhone, writeBuffer, phoneAt, responseBuffer >>

(* sendRequest on the main thread; without a peripheral it throws.  The    *)
(* call may have been failed or have timed out before.                     *)
SendRequest(c) ==
    /\ c \in toSend /\ toSend' = toSend \ {c}
    /\ IF link = "ready"
       THEN toPhone' = toPhone \o Chunks(c) /\ UNCHANGED << callAt, registered, result >>
       ELSE /\ Returns({c} \intersect Waiting, "error") /\ registered' = registered \ {c}
            /\ UNCHANGED toPhone
    /\ UNCHANGED << link, writeBuffer, phoneAt, responseBuffer >>

(* registry.remove after the wait.                                         *)
TimedOut(c) == registered' = registered \ {c}

GenerateTimesOut(c) ==
    /\ c \in Waiting /\ Returns({c}, "error") /\ TimedOut(c)
    /\ UNCHANGED << link, toSend, toPhone, writeBuffer, phoneAt, responseBuffer >>

-----------------------------------------------------------------------------
(* didDiscover and didConnect; the phone keeps what it had received.       *)
Connects == /\ link = "down" /\ link' = "up"
            /\ UNCHANGED << callAt, registered, toSend, result, toPhone, writeBuffer, phoneAt, responseBuffer >>

DiscoversCharacteristics ==
    /\ link = "up" /\ link' = "ready"
    /\ UNCHANGED << callAt, registered, toSend, result, toPhone, writeBuffer, phoneAt, responseBuffer >>

(* didDisconnectPeripheral: every pending request fails; also when the     *)
(* phone stops its service.                                                *)
Disconnects ==
    /\ link \in {"up", "ready"}
    /\ link' = "down" /\ toPhone' = << >> /\ responseBuffer' = << >>
    /\ registered' = {} /\ Returns(registered \intersect Waiting, "error")
    /\ UNCHANGED << toSend, writeBuffer, phoneAt >>

(* The radio is switched off: the link is gone, without that callback.     *)
PowersOff ==
    /\ link # "off" /\ link' = "off" /\ toPhone' = << >>
    /\ UNCHANGED << callAt, registered, toSend, result, writeBuffer, phoneAt, responseBuffer >>

PowersOn == /\ link = "off" /\ link' = "down"
            /\ UNCHANGED << callAt, registered, toSend, result, toPhone, writeBuffer, phoneAt, responseBuffer >>

-----------------------------------------------------------------------------
Parses(buffer) == {c \in Calls : buffer = Chunks(c)}

(* didReceiveWrite on the phone.                                           *)
ReceivesWrite ==
    /\ toPhone # << >> /\ link # "off"
    /\ LET buffer == Append(writeBuffer, Head(toPhone)) IN
         /\ writeBuffer' = IF Parses(buffer) # {} THEN << >> ELSE buffer
         /\ phoneAt' = [c \in Calls |-> IF c \in Parses(buffer) THEN "inferring" ELSE phoneAt[c]]
    /\ toPhone' = Tail(toPhone)
    /\ UNCHANGED << link, callAt, registered, toSend, result, responseBuffer >>

(* Faulty variant of Completes: the answer goes to whoever waits.          *)
CompletesAny(ids) == IF ids = {} THEN {} ELSE registered

(* registry.complete: the callback of this id, if there is one.            *)
Completes(ids) == ids \intersect registered

(* The answer of a request is notified chunk by chunk, with a pause that   *)
(* lets the task of another request in; what is notified while nobody is   *)
(* subscribed is lost.                                                     *)
NotifiesChunk(c) ==
    /\ phoneAt[c] \in {"inferring", "first"}
    /\ phoneAt' = [phoneAt EXCEPT ![c] = IF @ = "inferring" THEN "first" ELSE "done"]
    /\ IF link = "ready"
       THEN LET buffer == Append(responseBuffer, Chunks(c)[IF phoneAt[c] = "inferring" THEN 1 ELSE 2])
                served == Completes(Parses(buffer)) IN
              /\ responseBuffer' = IF Parses(buffer) # {} THEN << >> ELSE buffer
              /\ registered' = registered \ served /\ Returns(served \intersect Waiting, c)
       ELSE UNCHANGED << responseBuffer, registered, callAt, result >>
    /\ UNCHANGED << link, toSend, toPhone, writeBuffer >>

IdeBleNext ==
    \/ Connects \/ DiscoversCharacteristics \/ Disconnects \/ PowersOff \/ PowersOn \/ ReceivesWrite
    \/ \E c \in Calls : HandleGenerate(c) \/ SendRequest(c) \/ GenerateTimesOut(c) \/ NotifiesChunk(c)

IdeBleSpec == IdeBleInit /\ [][IdeBleNext]_jvars

-----------------------------------------------------------------------------
(* A call returns once, with the answer to its own prompt or an error,     *)
(* whatever answers come late, mixed or after it has given up.             *)
OwnAnswer == \A c \in Calls :
    /\ result[c] \subseteq {"error", c}
    /\ Cardinality(result[c]) = IF callAt[c] = "returned" THEN 1 ELSE 0

=============================================================================

------------------------------ MODULE Handshake ------------------------------
(***************************************************************************)
(* The handshake server (handshake/server.ts): an agent opens a session    *)
(* (/review), accepts or rejects it (/negotiate), and the cloud model runs *)
(* in the background while a sweeper expires what has been idle for too    *)
(* long.  Signed requests may be repeated: no nonce is remembered.         *)
(***************************************************************************)
EXTENDS Naturals, FiniteSets

CONSTANTS
    HsAgents,    \* agents with a known key
    HsSessions,  \* session ids
    MaxSessions  \* maxSessionsPerAgent

ASSUME HsAssumption == MaxSessions \in Nat \ {0}

VARIABLES
    session,   \* sessions: the store, from ids to sessions
    running    \* sessions whose model call has not come back

hvars == << session, running >>

Open == {"handshake", "execute"}
Final == {"result", "failed", "expired"}

HandshakeInit ==
    /\ session = [s \in {} |-> [agent |-> "none", phase |-> "none", stale |-> FALSE]]
    /\ running = {}

(* verifyAgent and bodyHashMatches: only an agent whose key is known can   *)
(* sign for itself; a copy of its request verifies as well.                *)
Verified(a) == a \in HsAgents

ActiveCountForAgent(a) == Cardinality({s \in DOMAIN session : session[s].agent = a /\ session[s].phase \in Open})

(* set: every change of phase is a change of updatedAtMs.                  *)
Put(s, a, phase) ==
    session' = [x \in DOMAIN session \union {s} |->
                  IF x = s THEN [agent |-> a, phase |-> phase, stale |-> FALSE] ELSE session[x]]

Admits(a) == ActiveCountForAgent(a) < MaxSessions

(* POST /review.                                                           *)
Review(a, s) ==
    /\ Verified(a) /\ Admits(a) /\ s \notin DOMAIN session
    /\ Put(s, a, "handshake")
    /\ UNCHANGED running

Negotiable(s) == session[s].phase = "handshake"

(* POST /negotiate by the session's agent.                                 *)
Reject(a, s) ==
    /\ Verified(a) /\ s \in DOMAIN session /\ session[s].agent = a /\ Negotiable(s)
    /\ Put(s, a, "failed")
    /\ UNCHANGED running

Accept(a, s) ==
    /\ Verified(a) /\ s \in DOMAIN session /\ session[s].agent = a /\ Negotiable(s)
    /\ Put(s, a, "execute")
    /\ running' = running \union {s}

(* Faulty variant of StillWanted: a late answer counts.                    *)
StillWantedLate(s) == TRUE

(* executeCloudModel, when the call comes back or throws.                  *)
StillWanted(s) == session[s].phase = "execute"

ModelAnswers(s, phase) ==
    /\ s \in running /\ running' = running \ {s}
    /\ IF StillWanted(s) THEN Put(s, session[s].agent, phase) ELSE UNCHANGED session

(* sessionTimeoutMs passes without a change of the session.                *)
GoesStale(s) ==
    /\ session[s].phase \in Open /\ ~session[s].stale
    /\ session' = [session EXCEPT ![s].stale = TRUE]
    /\ UNCHANGED running

(* The sweep expires all that are stale.                                   *)
Sweep ==
    /\ \E s \in DOMAIN session : session[s].stale
    /\ session' = [s \in DOMAIN session |->
                     IF session[s].stale THEN [agent |-> session[s].agent, phase |-> "expired", stale |-> FALSE]
                     ELSE session[s]]
    /\ UNCHANGED running

(* GET /result/:id and /session/:id by the session's agent.                *)
Polls(a, s) ==
    /\ Verified(a) /\ s \in DOMAIN session /\ session[s].agent = a
    /\ UNCHANGED hvars

HandshakeNext ==
    \/ Sweep
    \/ \E s \in DOMAIN session : GoesStale(s)
    \/ \E s \in running, phase \in {"result", "failed"} : ModelAnswers(s, phase)
    \/ \E a \in HsAgents, s \in HsSessions : Review(a, s) \/ Reject(a, s) \/ Accept(a, s) \/ Polls(a, s)

HandshakeSpec == HandshakeInit /\ [][HandshakeNext]_hvars

-----------------------------------------------------------------------------

(* What an agent was told is over stays as it is: an answer of the model   *)
(* that comes after the expiry, or a sweep that comes after the answer,    *)
(* changes nothing.                                                        *)
FinalStays ==
    [][\A s \in DOMAIN session : session[s].phase \in Final => session'[s] = session[s]]_hvars
=============================================================================

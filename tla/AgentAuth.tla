------------------------------ MODULE AgentAuth ------------------------------
(***************************************************************************)
(* verifyAgentRequest of swarm/coordinator.ts with its helpers: the        *)
(* sliding-window rate limiter, the request signature and the store of     *)
(* nonces.  One agent signs requests; every signed request may arrive any  *)
(* number of times, at any time and over several connections.  The nonce   *)
(* is looked up before an await and stored after it, so checks interleave. *)
(* Signatures are perfect: only what the agent signed verifies.  Requests  *)
(* from the coordinator's own host, which skip the limiter, are left out.  *)
(***************************************************************************)
EXTENDS Naturals, Sequences

CONSTANTS
    Nonces,        \* one per signed request
    MaxSkew,       \* SECURITY_MAX_SKEW_MS
    NonceTtl,      \* SECURITY_NONCE_TTL_MS
    MaxRequests,   \* AGENT_RATE_LIMIT_MAX
    Window,        \* AGENT_RATE_LIMIT_WINDOW_MS
    MaxNow         \* bound on time

(* The defaults are 120 s and 300 s.                                       *)
ASSUME AuthAssumption ==
    /\ {MaxSkew, NonceTtl, MaxRequests, Window, MaxNow} \subseteq Nat
    /\ NonceTtl >= 2 * MaxSkew /\ MaxRequests > 0

VARIABLES
    now,        \* the coordinator's clock
    signedAt,   \* time stamp of each signed request, by the agent's clock
    nonceStore, \* from the nonces held to when they expire
    usedNonces, \* nonces stored since the coordinator started
    checking,   \* requests whose nonce was looked up and is not yet stored
    windows,    \* the limiter's time stamps
    hasKey      \* the coordinator knows the agent's public key

avars == << now, signedAt, nonceStore, usedNonces, checking, windows, hasKey >>

Unsigned == MaxNow + 1

AgentAuthInit ==
    /\ now = 0 /\ signedAt = [n \in Nonces |-> Unsigned]
    /\ nonceStore = [n \in {} |-> 0] /\ usedNonces = {} /\ checking = {}
    /\ windows = << >> /\ hasKey = FALSE

AuthTick ==
    /\ now < MaxNow /\ now' = now + 1
    /\ UNCHANGED << signedAt, nonceStore, usedNonces, checking, windows, hasKey >>

(* signRequest: the agent's clock may differ from the coordinator's.       *)
SignRequest(n, ts) ==
    /\ signedAt[n] = Unsigned
    /\ signedAt' = [signedAt EXCEPT ![n] = ts]
    /\ UNCHANGED << now, nonceStore, usedNonces, checking, windows, hasKey >>

(* POST /register of an admitted agent, with or without its public key.    *)
RegisterKey(key) ==
    /\ hasKey' = key /\ windows' = << >>
    /\ UNCHANGED << now, signedAt, nonceStore, usedNonces, checking >>

(* The limiter drops the time stamps before its window.                    *)
Evict(times) == SelectSeq(times, LAMBDA t : t + Window >= now)

(* AgentRateLimiter.check.                                                 *)
LimiterAllows == Len(Evict(windows)) < MaxRequests

SkewOf(ts) == IF now > ts THEN now - ts ELSE ts - now

(* The limiter refuses.                                                    *)
RateLimitHit ==
    /\ ~LimiterAllows
    /\ windows' = Evict(windows)
    /\ UNCHANGED << now, signedAt, nonceStore, usedNonces, checking, hasKey >>

(* The key is not known: the agent has to register again.                  *)
NoPublicKey ==
    /\ LimiterAllows /\ ~hasKey
    /\ windows' = << >>
    /\ UNCHANGED << now, signedAt, nonceStore, usedNonces, checking, hasKey >>

LimiterCounts ==
    /\ LimiterAllows /\ hasKey
    /\ windows' = Append(Evict(windows), now)

(* A bad signature, an old time stamp or a nonce that is held: rejected.   *)
RequestRefused ==
    /\ LimiterCounts
    /\ UNCHANGED << now, signedAt, nonceStore, usedNonces, checking, hasKey >>

(* The request verifies and verifyNonce finds its nonce unknown.           *)
NonceUnknown(n) ==
    /\ LimiterCounts
    /\ signedAt[n] # Unsigned /\ SkewOf(signedAt[n]) <= MaxSkew
    /\ n \notin DOMAIN nonceStore
    /\ checking' = checking \union {[nonce |-> n, at |-> now, late |-> n \in usedNonces]}
    /\ UNCHANGED << now, signedAt, nonceStore, usedNonces, hasKey >>

(* Faulty variant of ExpiresAt: counted from the request's time stamp.     *)
ExpiresAtFromStamp(c) == signedAt[c.nonce] + NonceTtl - MaxSkew - 1

(* When the nonce of a check may be forgotten.                             *)
ExpiresAt(c) == c.at + NonceTtl

(* verifyNonce goes on: the nonce is stored, the request accepted.         *)
StoreNonce(c) ==
    /\ c \in checking
    /\ checking' = checking \ {c}
    /\ nonceStore' = [n \in DOMAIN nonceStore \union {c.nonce} |->
                        IF n = c.nonce THEN ExpiresAt(c) ELSE nonceStore[n]]
    /\ usedNonces' = usedNonces \union {c.nonce}
    /\ UNCHANGED << now, signedAt, windows, hasKey >>

(* The prune scheduler, at any time.                                       *)
PruneNonces ==
    /\ \E n \in DOMAIN nonceStore : nonceStore[n] < now
    /\ nonceStore' = [n \in {m \in DOMAIN nonceStore : nonceStore[m] >= now} |-> nonceStore[n]]
    /\ UNCHANGED << now, signedAt, usedNonces, checking, windows, hasKey >>

(* The coordinator restarts: keys, nonces and windows are gone.            *)
AuthRestart ==
    /\ nonceStore' = [n \in {} |-> 0] /\ usedNonces' = {} /\ checking' = {}
    /\ windows' = << >> /\ hasKey' = FALSE
    /\ UNCHANGED << now, signedAt >>

AgentAuthNext ==
    \/ AuthTick \/ RateLimitHit \/ NoPublicKey \/ RequestRefused \/ PruneNonces \/ AuthRestart
    \/ \E n \in Nonces : NonceUnknown(n) \/ \E ts \in 0 .. MaxNow : SignRequest(n, ts)
    \/ \E key \in BOOLEAN : RegisterKey(key)
    \/ \E c \in checking : StoreNonce(c)

AgentAuthSpec == AgentAuthInit /\ [][AgentAuthNext]_avars

-----------------------------------------------------------------------------
(* A copy of a request that arrives after another copy was accepted is     *)
(* refused, however late it is, whatever the agent's clock says and        *)
(* whenever nonces are pruned: a nonce is held as long as its time stamp   *)
(* is good, to the last tick.  (Copies that are checked at the same time   *)
(* do both pass, and a restart forgets every nonce.)                       *)
ReplayRefused == \A c \in checking : ~c.late
=============================================================================

--------------------------- MODULE ServicesProofs ---------------------------
(***************************************************************************)
(* The services: the handshake server, inference, admission, the router,   *)
(* the control plane, the agent's loop, the web chat and the IDE's agent,  *)
(* for any number of clients, requests, agents and questions.              *)
(***************************************************************************)
EXTENDS Handshake, Inference, Admission, Router, ControlPlane, AgentLoop, WebChat, IdeAgent,
        FiniteSetTheorems, SequenceTheorems, TLAPS

-----------------------------------------------------------------------------
(***************************************************************************)
(* Handshake. What has ended stays as it ended. The sweep expires what is  *)
(* stale, so only an open session may be (StaleIsOpen).                    *)
(***************************************************************************)
(* Only an open session goes stale, so the sweep expires no other.         *)
StaleIsOpen == \A s \in DOMAIN session : session[s].stale => session[s].phase \in Open

SessionInv ==
    /\ session \in [DOMAIN session ->
                       [agent : HsAgents, phase : Open \union Final, stale : BOOLEAN]]
    /\ running \subseteq DOMAIN session
    /\ StaleIsOpen

(* Whatever the phase that is put, the sessions keep their type and the    *)
(* session is not stale.                                                   *)
LEMMA PutInv ==
    ASSUME SessionInv, NEW s, NEW a \in HsAgents, NEW phase \in Open \union Final,
           Put(s, a, phase), running' \subseteq DOMAIN session \union {s}
    PROVE  SessionInv'
  BY DEF SessionInv, StaleIsOpen, Put

(* A step keeps the invariant.                                             *)
LEMMA SessionStep == SessionInv /\ [HandshakeNext]_hvars => SessionInv'
<1> SUFFICES ASSUME SessionInv, [HandshakeNext]_hvars PROVE SessionInv'
  OBVIOUS
<1>1. CASE Sweep
  BY <1>1 DEF Sweep, SessionInv, StaleIsOpen, Open, Final
<1>2. ASSUME NEW s \in DOMAIN session, GoesStale(s) PROVE SessionInv'
  BY <1>2 DEF GoesStale, SessionInv, StaleIsOpen
<1>3. ASSUME NEW s \in running, NEW phase \in {"result", "failed"}, ModelAnswers(s, phase)
      PROVE  SessionInv'
  <2>1. s \in DOMAIN session /\ session[s].agent \in HsAgents /\ phase \in Open \union Final
    BY <1>3 DEF SessionInv, Final
  <2>2. CASE StillWanted(s)
    BY <1>3, <2>1, <2>2, PutInv DEF ModelAnswers, SessionInv
  <2>3. CASE ~StillWanted(s)
    BY <1>3, <2>3 DEF ModelAnswers, SessionInv, StaleIsOpen
  <2> QED BY <2>2, <2>3
<1>4. ASSUME NEW a \in HsAgents, NEW s \in HsSessions, Review(a, s) \/ Reject(a, s) \/ Accept(a, s)
      PROVE  SessionInv'
  <2>1. {"handshake", "failed", "execute"} \subseteq Open \union Final
    BY DEF Open, Final
  <2>2. running' \subseteq DOMAIN session \union {s}
    BY <1>4 DEF Review, Reject, Accept, SessionInv
  <2> QED BY <1>4, <2>1, <2>2, PutInv DEF Review, Reject, Accept
<1>5. ASSUME NEW a \in HsAgents, NEW s \in HsSessions, Polls(a, s) PROVE SessionInv'
  BY <1>5 DEF Polls, hvars, SessionInv, StaleIsOpen
<1>6. CASE UNCHANGED hvars
  BY <1>6 DEF hvars, SessionInv, StaleIsOpen
<1> QED BY <1>1, <1>2, <1>3, <1>4, <1>5, <1>6 DEF HandshakeNext

(* For any number of agents and sessions and any limit, no step changes a  *)
(* session that has ended: neither a late answer of the model, nor a       *)
(* repeated request, nor the sweep.                                        *)
THEOREM EndedForGood == HandshakeSpec => FinalStays
<1> DEFINE Stays == \A s \in DOMAIN session : session[s].phase \in Final => session'[s] = session[s]
<1>1. HandshakeInit => SessionInv
  BY DEF HandshakeInit, SessionInv, StaleIsOpen
<1>2. SessionInv /\ [HandshakeNext]_hvars => [Stays]_hvars
  <2> SUFFICES ASSUME SessionInv, HandshakeNext PROVE Stays
    OBVIOUS
  <2> USE DEF Open, Final
  <2>1. CASE Sweep
    BY <2>1 DEF Sweep, SessionInv, StaleIsOpen
  <2>2. ASSUME NEW s \in DOMAIN session, GoesStale(s) PROVE Stays
    BY <2>2 DEF GoesStale, SessionInv
  <2>3. ASSUME NEW s \in running, NEW phase \in {"result", "failed"}, ModelAnswers(s, phase)
        PROVE  Stays
    BY <2>3 DEF ModelAnswers, StillWanted, Put, SessionInv
  <2>4. ASSUME NEW a \in HsAgents, NEW s \in HsSessions,
               Review(a, s) \/ Reject(a, s) \/ Accept(a, s)
        PROVE  Stays
    BY <2>4 DEF Review, Reject, Accept, Negotiable, Put, SessionInv
  <2>5. ASSUME NEW a \in HsAgents, NEW s \in HsSessions, Polls(a, s) PROVE Stays
    BY <2>5 DEF Polls, hvars
  <2> QED BY <2>1, <2>2, <2>3, <2>4, <2>5 DEF HandshakeNext
<1> QED BY <1>1, <1>2, SessionStep, PTL DEF HandshakeSpec, FinalStays

-----------------------------------------------------------------------------
(***************************************************************************)
(* Inference. A nonce is forgotten only when its time stamp has run out of *)
(* the permitted skew (RememberedWhileGood).                               *)
(***************************************************************************)
(* An accepted nonce is remembered at a time that keeps it out until its   *)
(* time stamp is too old.                                                  *)
RememberedWhileGood ==
    \A n \in Signed :
      taken[n] = 1 => \/ stamp[n] + InfSkew < infNow
                      \/ n \in DOMAIN seenNonce /\ stamp[n] <= seenNonce[n] + InfSkew

NonceInv ==
    /\ infNow \in Nat /\ stamp \in [Signed -> Nat]
    /\ seenNonce \in [DOMAIN seenNonce -> Nat]
    /\ taken \in [Signed -> {0, 1}]
    /\ RememberedWhileGood

(* A nonce that is not remembered was never accepted; what is dropped has  *)
(* a time stamp that is too old, since a nonce is kept for more than twice *)
(* the skew.                                                               *)
LEMMA AcceptInv ==
    ASSUME NonceInv, NEW n \in Signed, Accepts(n)
    PROVE  NonceInv'
<1> DEFINE noted == [k \in DOMAIN seenNonce \union {n} |-> IF k = n THEN infNow ELSE seenNonce[k]]
<1> USE InfAssumption DEF NonceInv
<1>1. /\ seenNonce' = [k \in {j \in DOMAIN noted : infNow - noted[j] <= InfTtl} |-> noted[k]]
      /\ taken' = [taken EXCEPT ![n] = @ + 1]
      /\ UNCHANGED << infNow, stamp >>
  BY DEF Accepts
<1>2. infNow <= stamp[n] + InfSkew /\ stamp[n] <= infNow + InfSkew /\ stamp[n] \in Nat
  BY DEF Accepts, InSkew
<1>3. taken[n] = 0
  <2>1. ~(n \in DOMAIN seenNonce /\ Remembered(seenNonce[n]))
    BY DEF Accepts
  <2> QED BY <1>2, <2>1 DEF RememberedWhileGood, Remembered
<1>4. /\ DOMAIN noted = DOMAIN seenNonce \union {n} /\ noted[n] = infNow
      /\ \A k \in DOMAIN noted : noted[k] \in Nat
      /\ \A k \in DOMAIN seenNonce : k # n => noted[k] = seenNonce[k]
  OBVIOUS
<1> HIDE DEF noted
<1>5. /\ DOMAIN seenNonce' = {j \in DOMAIN noted : infNow - noted[j] <= InfTtl}
      /\ \A k \in DOMAIN seenNonce' : seenNonce'[k] = noted[k]
      /\ seenNonce' = [k \in DOMAIN seenNonce' |-> seenNonce'[k]]
  BY <1>1
<1>6. seenNonce' \in [DOMAIN seenNonce' -> Nat]
  BY <1>4, <1>5
<1>7. RememberedWhileGood'
  <2> SUFFICES ASSUME NEW m \in Signed, taken'[m] = 1, ~(stamp[m] + InfSkew < infNow)
               PROVE  m \in DOMAIN seenNonce' /\ stamp[m] <= seenNonce'[m] + InfSkew
    BY <1>1 DEF RememberedWhileGood
  <2>1. CASE m = n
    BY <1>2, <1>4, <1>5, <2>1
  <2>2. CASE m # n
    <3>1. m \in DOMAIN seenNonce /\ stamp[m] <= seenNonce[m] + InfSkew
      BY <1>1, <2>2 DEF RememberedWhileGood
    <3>2. noted[m] = seenNonce[m] /\ m \in DOMAIN noted /\ seenNonce[m] \in Nat /\ stamp[m] \in Nat
      BY <1>4, <2>2, <3>1
    <3> QED BY <1>5, <3>1, <3>2
  <2> QED BY <2>1, <2>2
<1>8. taken' \in [Signed -> {0, 1}]
  BY <1>1, <1>3
<1> QED BY <1>1, <1>6, <1>7, <1>8

(* However many copies of a signed request arrive and at whatever times,   *)
(* the service accepts it once, for every skew and every longer life of a  *)
(* nonce.                                                                  *)
THEOREM InferenceReplaysRefused == InferenceSpec => []InfReplayRefused
<1>1. InferenceInit => NonceInv
  BY InfAssumption DEF InferenceInit, NonceInv, RememberedWhileGood
<1>2. NonceInv /\ [InferenceNext]_nvars => NonceInv'
  <2> SUFFICES ASSUME NonceInv, [InferenceNext]_nvars PROVE NonceInv'
    OBVIOUS
  <2>1. ASSUME UNCHANGED nonceVars PROVE NonceInv'
    BY <2>1 DEF NonceInv, RememberedWhileGood, nonceVars
  <2>2. CASE InfTick
    BY <2>2, InfAssumption DEF InfTick, NonceInv, RememberedWhileGood
  <2>3. ASSUME NEW kind \in {"decompose", "escalate"}, NEW b \in BOOLEAN, CallArrives(kind, b)
               PROVE NonceInv'
    BY <2>1, <2>3 DEF CallArrives
  <2>4. ASSUME NEW i \in 1 .. MaxCalls, NEW ok \in BOOLEAN, ModelReturns(i, ok) PROVE NonceInv'
    BY <2>1, <2>4 DEF ModelReturns
  <2>5. ASSUME NEW upTo \in 1 .. MaxTokens, NEW cut \in BOOLEAN, ChunkArrives(upTo, cut) PROVE NonceInv'
    BY <2>1, <2>5 DEF ChunkArrives
  <2>6. CASE ReadMetrics \/ UNCHANGED nvars
    BY <2>1, <2>6 DEF ReadMetrics, nvars, nonceVars
  <2> QED BY <2>2, <2>3, <2>4, <2>5, <2>6, AcceptInv DEF InferenceNext
<1>3. NonceInv => InfReplayRefused
  BY DEF NonceInv, InfReplayRefused
<1> QED BY <1>1, <1>2, <1>3, PTL DEF InferenceSpec

-----------------------------------------------------------------------------
(***************************************************************************)
(* Admission. Whatever may still make an agent known, a call that was let  *)
(* in, a row, a record in a ledger or one on its way, is about an agent    *)
(* that was vouched for (KnownInv).                                        *)
(***************************************************************************)
(* Everything that approves an agent, or may come to, rests on vouching.   *)
KnownInv ==
    /\ AdmTypeOK
    /\ \A c \in admitting : c.step = "allowed" => c.agent \in vouched
    /\ \A w \in writing : w.record.approved => w.record.agent \in vouched
    /\ \A k \in AdmCoords : \A r \in stored[k] : r.approved => r.agent \in vouched
    /\ KnownWereVouched

(* A record whose approval is vouched for may be written.                  *)
LEMMA AuditKeeps ==
    ASSUME KnownInv, NEW k \in AdmCoords, NEW a \in AdmAgents, NEW yes \in BOOLEAN,
           Audits(k, a, yes), yes => a \in vouched', vouched \subseteq vouched'
    PROVE  /\ writing' \subseteq [coord : AdmCoords, record : NodeRecords, step : {"store", "project"}]
           /\ \A w \in writing' : w.record.approved => w.record.agent \in vouched'
<1> DEFINE new == [coord |-> k, record |-> [agent |-> a, approved |-> yes], step |-> "store"]
<1>1. /\ new \in [coord : AdmCoords, record : NodeRecords, step : {"store", "project"}]
      /\ new.record.approved = yes /\ new.record.agent = a
  BY DEF NodeRecords
<1>2. writing' = writing \union {new}
  BY DEF Audits
<1> HIDE DEF new
<1> QED BY <1>1, <1>2 DEF KnownInv, AdmTypeOK

(* Of calls only a vouched agent's moves on to "allowed".                  *)
LEMMA MovesKeep ==
    ASSUME KnownInv, NEW c \in admitting, NEW step \in {"validate", "lookup", "allowed"},
           Moves(c, step), step = "allowed" => c.agent \in vouched', vouched \subseteq vouched'
    PROVE  /\ admitting' \subseteq Registrations
           /\ \A d \in admitting' : d.step = "allowed" => d.agent \in vouched'
<1> DEFINE new == [c EXCEPT !.step = step]
<1>1. new \in Registrations /\ new.step = step /\ new.agent = c.agent
  BY DEF KnownInv, AdmTypeOK, Registrations
<1>2. admitting' = (admitting \ {c}) \union {new}
  BY DEF Moves
<1> HIDE DEF new
<1> QED BY <1>1, <1>2 DEF KnownInv, AdmTypeOK

(* validatePortalNode answers and records its decision: it lets in only    *)
(* whom somebody vouched for.                                              *)
LEMMA DecidedKeeps ==
    ASSUME KnownInv, NEW c \in admitting, NEW allowed \in BOOLEAN, Decided(c, allowed),
           allowed => c.agent \in vouched', vouched \subseteq vouched', vouched' \subseteq AdmAgents
    PROVE  KnownInv'
<1>1. c.coord \in AdmCoords /\ c.agent \in AdmAgents
  BY DEF KnownInv, AdmTypeOK, Registrations
<1>2. Audits(c.coord, c.agent, FALSE) /\ UNCHANGED << portalActive, capable, stored, nodeRow >>
  BY DEF Decided
<1>3. /\ writing' \subseteq [coord : AdmCoords, record : NodeRecords, step : {"store", "project"}]
      /\ \A w \in writing' : w.record.approved => w.record.agent \in vouched'
  BY <1>1, <1>2, AuditKeeps
<1>4. /\ admitting' \subseteq Registrations
      /\ \A d \in admitting' : d.step = "allowed" => d.agent \in vouched'
  <2>1. CASE allowed
    BY <2>1, MovesKeep DEF Decided
  <2>2. CASE ~allowed
    BY <2>2 DEF Decided, KnownInv, AdmTypeOK
  <2> QED BY <2>1, <2>2
<1> QED BY <1>2, <1>3, <1>4 DEF KnownInv, AdmTypeOK, KnownWereVouched

(* Whom the portal has active, or nobody asks it about, is vouched for; an *)
(* agent in memory was before.                                             *)
LEMMA ValidateKeeps ==
    ASSUME KnownInv, NEW c \in admitting, NEW shows \in Credentials, ValidateNode(c, shows)
    PROVE  KnownInv'
<1> USE DEF Vouches
<1>1. c.coord \in AdmCoords /\ c.agent \in AdmAgents /\ vouched \subseteq AdmAgents
  BY DEF KnownInv, AdmTypeOK, Registrations
<1>2. CASE LetInUnasked(c, shows)
  BY <1>1, <1>2, DecidedKeeps DEF LetInUnasked
<1>3. CASE PortalDecides(c, shows)
  <2>1. PICK allowed \in BOOLEAN : allowed = (c.agent \in portalActive)
    <3>1. (c.agent \in portalActive) \in BOOLEAN
      OBVIOUS
    <3> QED BY <3>1, Zenon
  <2>2. Decided(c, allowed)
    BY <1>3, <2>1, Zenon DEF PortalDecides
  <2>3. allowed => c.agent \in portalActive
    BY <2>1, Zenon
  <2>4. vouched' = IF c.agent \in portalActive THEN vouched \union {c.agent} ELSE vouched
    BY <1>3 DEF PortalDecides
  <2>5. (allowed => c.agent \in vouched') /\ vouched \subseteq vouched' /\ vouched' \subseteq AdmAgents
    BY <1>1, <2>3, <2>4
  <2> QED BY <2>2, <2>5, DecidedKeeps
<1>4. CASE AskMemory(c, shows)
  <2>1. CASE c.agent \in capable[c.coord] /\ Decided(c, TRUE) /\ UNCHANGED vouched
    BY <1>1, <2>1, DecidedKeeps DEF KnownInv, KnownWereVouched
  <2>2. CASE Moves(c, "lookup") /\ UNCHANGED << portalActive, vouched, capable, stored, nodeRow, writing >>
    <3>1. /\ admitting' \subseteq Registrations
          /\ \A d \in admitting' : d.step = "allowed" => d.agent \in vouched'
      BY <2>2, MovesKeep
    <3> QED BY <2>2, <3>1 DEF KnownInv, AdmTypeOK, KnownWereVouched
  <2> QED BY <1>4, <2>1, <2>2 DEF AskMemory
<1> QED BY <1>2, <1>3, <1>4 DEF ValidateNode

(* An approved row stands for vouching.                                    *)
LEMMA LookupKeeps ==
    ASSUME KnownInv, NEW c \in admitting, NEW inTime \in BOOLEAN, LookupRow(c, inTime)
    PROVE  KnownInv'
<1>1. PICK allowed \in BOOLEAN : allowed = (inTime /\ ApprovedRow(c.coord, c.agent))
  <2>1. (inTime /\ ApprovedRow(c.coord, c.agent)) \in BOOLEAN
    OBVIOUS
  <2> QED BY <2>1, Zenon
<1>2. Decided(c, allowed) /\ UNCHANGED vouched
  BY <1>1, Zenon DEF LookupRow
<1>3. allowed => ApprovedRow(c.coord, c.agent)
  BY <1>1, Zenon
<1>4. ApprovedRow(c.coord, c.agent) => c.agent \in vouched
  BY DEF ApprovedRow, KnownInv, KnownWereVouched, AdmTypeOK, Registrations
<1>5. vouched \subseteq AdmAgents
  BY DEF KnownInv, AdmTypeOK
<1> QED BY <1>2, <1>3, <1>4, <1>5, DecidedKeeps

(* Only an agent whose call was let in becomes capable.                    *)
LEMMA RegisterKeeps ==
    ASSUME KnownInv, NEW c \in admitting, NEW genuine \in BOOLEAN, Register(c, genuine)
    PROVE  KnownInv'
<1>1. c.coord \in AdmCoords /\ c.agent \in AdmAgents /\ c.agent \in vouched
  BY DEF Register, KnownInv, AdmTypeOK, Registrations
<1>2. /\ admitting' = admitting \ {c} /\ capable' = [capable EXCEPT ![c.coord] = @ \union {c.agent}]
      /\ UNCHANGED << portalActive, vouched, stored, nodeRow >>
  BY DEF Register
<1>3. /\ writing' \subseteq [coord : AdmCoords, record : NodeRecords, step : {"store", "project"}]
      /\ \A w \in writing' : w.record.approved => w.record.agent \in vouched'
  <2>1. CASE genuine
    <3>1. Audits(c.coord, c.agent, TRUE)
      BY <2>1 DEF Register
    <3> QED BY <1>1, <1>2, <3>1, AuditKeeps
  <2>2. CASE ~genuine
    BY <1>2, <2>2 DEF Register, KnownInv, AdmTypeOK
  <2> QED BY <2>1, <2>2
<1> QED BY <1>1, <1>2, <1>3 DEF KnownInv, AdmTypeOK, KnownWereVouched

(* A record keeps what it says from the writing to the ledger.             *)
LEMMA StoreKeeps ==
    ASSUME KnownInv, NEW w \in writing, StoreRecord(w)
    PROVE  KnownInv'
<1> DEFINE new == [w EXCEPT !.step = "project"]
<1>1. w.coord \in AdmCoords /\ w.record \in NodeRecords /\ (w.record.approved => w.record.agent \in vouched)
  BY DEF KnownInv, AdmTypeOK
<1>2. /\ new \in [coord : AdmCoords, record : NodeRecords, step : {"store", "project"}]
      /\ new.record = w.record
  BY DEF KnownInv, AdmTypeOK
<1>3. /\ stored' = [stored EXCEPT ![w.coord] = @ \union {w.record}]
      /\ writing' = (writing \ {w}) \union {new}
      /\ UNCHANGED << portalActive, vouched, capable, nodeRow, admitting >>
  BY DEF StoreRecord
<1> HIDE DEF new
<1> QED BY <1>1, <1>2, <1>3 DEF KnownInv, AdmTypeOK, KnownWereVouched

(* The row is approved only by a record that says so, or was before.       *)
LEMMA ProjectKeeps ==
    ASSUME KnownInv, NEW w \in writing, ProjectRecord(w)
    PROVE  KnownInv'
<1>1. PICK k \in AdmCoords, a \in AdmAgents, yes \in BOOLEAN :
        w.coord = k /\ w.record.agent = a /\ w.record.approved = yes
  BY DEF KnownInv, AdmTypeOK, NodeRecords
<1>2. yes => a \in vouched
  BY <1>1 DEF KnownInv
<1> DEFINE row == UpsertRow(nodeRow[k][a], yes)
<1>3. /\ nodeRow' = [nodeRow EXCEPT ![k] = [nodeRow[k] EXCEPT ![a] = row]]
      /\ writing' = writing \ {w}
      /\ UNCHANGED << portalActive, vouched, capable, stored, admitting >>
  BY <1>1 DEF ProjectRecord
<1>4. row \in {"seen", "approved"} /\ (row = "approved" => yes \/ nodeRow[k][a] = "approved")
  BY DEF UpsertRow
<1> HIDE DEF row
<1>5. nodeRow' \in [AdmCoords -> [AdmAgents -> {"none", "seen", "approved"}]]
  BY <1>3, <1>4 DEF KnownInv, AdmTypeOK
<1>6. \A j \in AdmCoords, b \in AdmAgents :
        nodeRow'[j][b] = "approved" => nodeRow[j][b] = "approved" \/ (b = a /\ yes)
  BY <1>3, <1>4 DEF KnownInv, AdmTypeOK
<1> QED BY <1>2, <1>3, <1>5, <1>6 DEF KnownInv, AdmTypeOK, KnownWereVouched

(* A record that a peer's ledger holds is as good as one's own.            *)
LEMMA SyncKeeps ==
    ASSUME KnownInv, NEW k \in AdmCoords, NEW from \in AdmCoords, NEW r \in stored[from],
           PeerSync(k, from, r)
    PROVE  KnownInv'
<1>1. PICK a \in AdmAgents, yes \in BOOLEAN : r.agent = a /\ r.approved = yes
  BY DEF KnownInv, AdmTypeOK, NodeRecords
<1>2. yes => a \in vouched
  BY <1>1 DEF KnownInv
<1>3. Audits(k, a, yes) /\ UNCHANGED << portalActive, vouched, capable, stored, nodeRow, admitting >>
  BY <1>1 DEF PeerSync
<1>4. /\ writing' \subseteq [coord : AdmCoords, record : NodeRecords, step : {"store", "project"}]
      /\ \A w \in writing' : w.record.approved => w.record.agent \in vouched'
  BY <1>2, <1>3, AuditKeeps
<1> QED BY <1>3, <1>4 DEF KnownInv, AdmTypeOK, KnownWereVouched

(* A peer is recorded as approved only when it is taken in.                *)
LEMMA PeerKeeps ==
    ASSUME KnownInv, NEW k \in AdmCoords, NEW a \in AdmAgents, NEW yes \in BOOLEAN,
           PeerRegisters(k, a, yes)
    PROVE  KnownInv'
<1>1. /\ Audits(k, a, yes) /\ UNCHANGED << portalActive, capable, stored, nodeRow, admitting >>
      /\ vouched' = IF yes THEN vouched \union {a} ELSE vouched
  BY DEF PeerRegisters, Vouches
<1>2. /\ writing' \subseteq [coord : AdmCoords, record : NodeRecords, step : {"store", "project"}]
      /\ \A w \in writing' : w.record.approved => w.record.agent \in vouched'
  BY <1>1, AuditKeeps
<1> QED BY <1>1, <1>2 DEF KnownInv, AdmTypeOK, KnownWereVouched

(* A call that arrives has not been let in.                                *)
LEMMA ArrivesKeeps ==
    ASSUME KnownInv, NEW k \in AdmCoords, NEW a \in AdmAgents, RegisterArrives(k, a)
    PROVE  KnownInv'
<1> DEFINE new == [coord |-> k, agent |-> a, step |-> "validate"]
<1>1. new.step = "validate" /\ new \in Registrations
  BY DEF Registrations
<1>2. /\ admitting' = admitting \union {new}
      /\ UNCHANGED << portalActive, vouched, capable, stored, nodeRow, writing >>
  BY DEF RegisterArrives
<1> HIDE DEF new
<1> QED BY <1>1, <1>2 DEF KnownInv, AdmTypeOK, KnownWereVouched

(* For any number of agents and coordinators, with and without a portal:   *)
(* neither a refused attempt, a ledger taken over from a peer, a late or   *)
(* lost write, an outage nor a restart makes a coordinator know an agent   *)
(* that none had taken in on its own merits.                               *)
THEOREM OnlyVouchedAreKnown == AdmissionSpec => []KnownWereVouched
<1>1. AdmissionInit => KnownInv
  BY DEF AdmissionInit, KnownInv, AdmTypeOK, KnownWereVouched
<1>2. KnownInv /\ [AdmissionNext]_dvars => KnownInv'
  <2> SUFFICES ASSUME KnownInv, [AdmissionNext]_dvars PROVE KnownInv'
    OBVIOUS
  <2>1. ASSUME NEW a \in AdmAgents, PortalChanges(a) PROVE KnownInv'
    BY <2>1 DEF PortalChanges, KnownInv, AdmTypeOK, KnownWereVouched
  <2>2. ASSUME NEW w \in writing, WriteFails(w) PROVE KnownInv'
    BY <2>2 DEF WriteFails, KnownInv, AdmTypeOK, KnownWereVouched
  <2>3. ASSUME NEW c \in admitting, TurnedAway(c) PROVE KnownInv'
    BY <2>3 DEF TurnedAway, KnownInv, AdmTypeOK, KnownWereVouched
  <2>4. ASSUME NEW k \in AdmCoords, AdmissionRestart(k) PROVE KnownInv'
    BY <2>4 DEF AdmissionRestart, KnownInv, AdmTypeOK, KnownWereVouched
  <2>5. ASSUME NEW k \in AdmCoords, NEW a \in AdmAgents, AnnounceArrives(k, a) PROVE KnownInv'
    BY <2>5 DEF AnnounceArrives, Vouches, KnownInv, AdmTypeOK, KnownWereVouched
  <2>6. CASE UNCHANGED dvars
    BY <2>6 DEF dvars, KnownInv, AdmTypeOK, KnownWereVouched
  <2> QED BY <2>1, <2>2, <2>3, <2>4, <2>5, <2>6, StoreKeeps, ProjectKeeps, ValidateKeeps, LookupKeeps,
             RegisterKeeps, SyncKeeps, ArrivesKeeps, PeerKeeps DEF AdmissionNext
<1>3. KnownInv => KnownWereVouched
  BY DEF KnownInv
<1> QED BY <1>1, <1>2, <1>3, PTL DEF AdmissionSpec

-----------------------------------------------------------------------------
(***************************************************************************)
(* Router. The counter that closes the local route is the number of        *)
(* requests Ollama is busy with (LoadInv); and the tracker that all pulls  *)
(* share is running only while one of them is (PullsInv).                  *)
(***************************************************************************)
(* The requests Ollama is busy with.                                       *)
Busy == {r \in RtRequests : req[r].at \in {"local", "streaming"}}

LoadInv ==
    /\ DOMAIN req = RtRequests /\ \A r \in RtRequests : DOMAIN req[r] = {"at", "stream", "polls"}
    /\ active = Cardinality(Busy)

(* Requests can be counted.                                                *)
LEMMA BusyFinite == ASSUME NEW S \in SUBSET RtRequests
                    PROVE  IsFiniteSet(S) /\ Cardinality(S) \in Nat
BY RtAssumption, FS_Subset, FS_CardinalityType

(* One request changes its place: the others stay.                         *)
LEMMA MovesOne ==
    ASSUME LoadInv, NEW r \in RtRequests, NEW to, DOMAIN to = {"at", "stream", "polls"},
           req' = [req EXCEPT ![r] = to]
    PROVE  /\ DOMAIN req' = RtRequests /\ \A x \in RtRequests : DOMAIN req'[x] = {"at", "stream", "polls"}
           /\ Busy' = IF to.at \in {"local", "streaming"} THEN Busy \union {r} ELSE Busy \ {r}
BY DEF LoadInv, Busy

(* One request goes from one step to another: the others stay.             *)
LEMMA StepsOne ==
    ASSUME LoadInv, NEW r \in RtRequests, NEW from, NEW to, Steps(r, from, to)
    PROVE  /\ DOMAIN req' = RtRequests /\ \A x \in RtRequests : DOMAIN req'[x] = {"at", "stream", "polls"}
           /\ req[r].at = from
           /\ Busy' = IF to \in {"local", "streaming"} THEN Busy \union {r} ELSE Busy \ {r}
<1> DEFINE new == [req[r] EXCEPT !.at = to]
<1>1. req' = [req EXCEPT ![r] = new] /\ req[r].at = from
  BY DEF Steps
<1>2. DOMAIN new = {"at", "stream", "polls"} /\ new.at = to
  BY DEF LoadInv
<1> HIDE DEF new
<1> QED BY <1>1, <1>2, MovesOne

(* A request more is one more.                                             *)
LEMMA OneMore ==
    ASSUME LoadInv, NEW r \in RtRequests, r \notin Busy, Busy' = Busy \union {r}
    PROVE  Cardinality(Busy') = active + 1
BY BusyFinite, FS_AddElement DEF LoadInv, Busy

(* A request less is one less, and the counter was not at zero.            *)
LEMMA OneLess ==
    ASSUME LoadInv, NEW r \in Busy, Busy' = Busy \ {r}
    PROVE  Cardinality(Busy') = Less(active)
<1>1. Busy \in SUBSET RtRequests /\ Busy # {}
  BY DEF Busy
<1>2. IsFiniteSet(Busy) /\ Cardinality(Busy) \in Nat
  BY <1>1, BusyFinite
<1>3. Cardinality(Busy) # 0
  BY <1>1, <1>2, FS_EmptySet
<1>4. Cardinality(Busy') = Cardinality(Busy) - 1
  BY <1>2, FS_RemoveElement
<1> QED BY <1>2, <1>3, <1>4 DEF Less, LoadInv

(* A request that goes on without Ollama leaves the counter alone.         *)
LEMMA Elsewhere ==
    ASSUME LoadInv, NEW r \in RtRequests, NEW from, NEW to, Steps(r, from, to), UNCHANGED active,
           from \in {"local", "streaming"} <=> to \in {"local", "streaming"}
    PROVE  LoadInv'
<1>1. Busy' = Busy
  BY StepsOne DEF Busy
<1> QED BY <1>1, StepsOne DEF LoadInv

(* A request leaves Ollama, and the counter goes down with it.             *)
LEMMA LocalEnds ==
    ASSUME LoadInv, NEW r \in RtRequests, NEW from, NEW to, Steps(r, from, to), active' = Less(active),
           from \in {"local", "streaming"}, to \notin {"local", "streaming"}
    PROVE  LoadInv'
<1>1. r \in Busy /\ Busy' = Busy \ {r}
  BY StepsOne DEF Busy
<1> QED BY <1>1, OneLess, StepsOne DEF LoadInv

(* The local route is taken, or left, with the counter in step.            *)
LEMMA HealthKeeps ==
    ASSUME LoadInv, NEW r \in RtRequests, NEW healthy \in BOOLEAN, Health(r, healthy)
    PROVE  LoadInv'
<1>1. CASE healthy
  <2>1. Steps(r, "health", "local") /\ active' = active + 1
    BY <1>1 DEF Health
  <2>2. r \notin Busy /\ Busy' = Busy \union {r}
    BY <2>1, StepsOne DEF Busy
  <2> QED BY <2>1, <2>2, OneMore, StepsOne DEF LoadInv
<1>2. CASE ~healthy
  BY <1>2, Elsewhere DEF Health
<1> QED BY <1>1, <1>2

(* For every set of requests: whatever fails, breaks off or is streamed,   *)
(* the counter that closes the local route is the load.                    *)
THEOREM LoadIsCounted == RouterSpec => []CountIsLoad
<1>1. RouterInit => LoadInv
  <2> SUFFICES ASSUME RouterInit PROVE LoadInv
    OBVIOUS
  <2>1. Busy = {}
    BY DEF RouterInit, Busy
  <2> QED BY <2>1, FS_EmptySet DEF RouterInit, LoadInv
<1>2. LoadInv /\ [RouterNext]_rvars => LoadInv'
  <2> SUFFICES ASSUME LoadInv, [RouterNext]_rvars PROVE LoadInv'
    OBVIOUS
  <2>1. ASSUME UNCHANGED << req, active >> PROVE LoadInv'
    BY <2>1 DEF LoadInv, Busy
  <2>2. ASSUME NEW r \in RtRequests, NEW stream \in BOOLEAN, RouteArrives(r, stream) PROVE LoadInv'
    <3> DEFINE new == [at |-> "bluetooth", stream |-> stream, polls |-> 0]
    <3>1. req' = [req EXCEPT ![r] = new] /\ req[r].at = "new" /\ active' = active
      BY <2>2 DEF RouteArrives
    <3>2. DOMAIN new = {"at", "stream", "polls"} /\ new.at = "bluetooth"
      OBVIOUS
    <3> HIDE DEF new
    <3>3. Busy' = Busy
      BY <3>1, <3>2, MovesOne DEF Busy
    <3> QED BY <3>1, <3>2, <3>3, MovesOne DEF LoadInv
  <2>3. ASSUME NEW r \in RtRequests, NEW b \in BOOLEAN, AskBluetooth(r, b) PROVE LoadInv'
    <3>1. PICK to \in {"answered", "viable"} : Steps(r, "bluetooth", to)
      BY <2>3 DEF AskBluetooth
    <3> QED BY <2>3, <3>1, Elsewhere DEF AskBluetooth
  <2>4. ASSUME NEW r \in RtRequests, IsLocalViable(r) PROVE LoadInv'
    <3>1. PICK to \in {"swarm", "health"} : Steps(r, "viable", to)
      BY <2>4 DEF IsLocalViable
    <3> QED BY <2>4, <3>1, Elsewhere DEF IsLocalViable
  <2>5. ASSUME NEW r \in RtRequests, NEW b \in BOOLEAN, Health(r, b) PROVE LoadInv'
    BY <2>5, HealthKeeps
  <2>6. ASSUME NEW r \in RtRequests, NEW b \in BOOLEAN,
               LocalAnswers(r, b) \/ LocalFails(r) \/ RecordStreamComplete(r, b)
        PROVE  LoadInv'
    BY <2>6, LocalEnds DEF LocalAnswers, LocalFails, RecordStreamComplete
  <2>7. ASSUME NEW r \in RtRequests, StreamBegins(r) PROVE LoadInv'
    BY <2>7, Elsewhere DEF StreamBegins
  <2>8. ASSUME NEW r \in RtRequests, NEW b \in BOOLEAN, SwarmSubmit(r, b) PROVE LoadInv'
    <3>1. PICK to \in {"polling", "stub"} : Steps(r, "swarm", to)
      BY <2>8 DEF SwarmSubmit
    <3> QED BY <2>8, <3>1, Elsewhere DEF SwarmSubmit
  <2>9. ASSUME NEW r \in RtRequests, SwarmWorks(r) PROVE LoadInv'
    BY <2>1, <2>9 DEF SwarmWorks
  <2>10. ASSUME NEW r \in RtRequests, SwarmPoll(r) PROVE LoadInv'
    <3> DEFINE new == IF req[r].polls = MaxPolls THEN [req[r] EXCEPT !.at = "stub"]
                                                 ELSE [req[r] EXCEPT !.polls = req[r].polls + 1]
    <3>1. req' = [req EXCEPT ![r] = new] /\ req[r].at = "polling" /\ active' = active
      BY <2>10 DEF SwarmPoll
    <3>2. DOMAIN new = {"at", "stream", "polls"} /\ new.at \notin {"local", "streaming"}
      BY <3>1 DEF LoadInv
    <3> HIDE DEF new
    <3>3. Busy' = Busy
      BY <3>1, <3>2, MovesOne DEF Busy
    <3> QED BY <3>1, <3>2, <3>3, MovesOne DEF LoadInv
  <2>11. ASSUME NEW r \in RtRequests, SwarmResult(r) \/ Stub(r) \/ NextRequest(r) PROVE LoadInv'
    BY <2>11, Elsewhere DEF SwarmResult, Stub, NextRequest
  <2>12. CASE UNCHANGED rvars
    BY <2>1, <2>12 DEF rvars
  <2> QED BY <2>2, <2>3, <2>4, <2>5, <2>6, <2>7, <2>8, <2>9, <2>10, <2>11, <2>12 DEF RouterNext
<1>3. LoadInv => CountIsLoad
  BY DEF LoadInv, CountIsLoad, Busy
<1> QED BY <1>1, <1>2, <1>3, PTL DEF RouterSpec

-----------------------------------------------------------------------------
(* The tracker that all pulls share: empty or failed unless one is under   *)
(* way.                                                                    *)
PullsInv ==
    /\ DOMAIN swap = Swaps /\ DOMAIN tracker = {"model", "failed"}
    /\ TrackerSettles

(* Overlapping pulls fail and complete each other's entry, but the last    *)
(* one to end never leaves a pull shown as running.                        *)
THEOREM TrackerNeverStuck == ModelsSpec => []TrackerSettles
<1>1. ModelsInit => PullsInv
  BY DEF ModelsInit, PullsInv, TrackerSettles
<1>2. PullsInv /\ [ModelsNext]_ovars => PullsInv'
  <2> SUFFICES ASSUME PullsInv, [ModelsNext]_ovars PROVE PullsInv'
    OBVIOUS
  <2>1. ASSUME UNCHANGED << swap, pulls, tracker >> PROVE PullsInv'
    BY <2>1 DEF PullsInv, TrackerSettles
  <2>2. ASSUME NEW i \in Swaps, NEW m \in MdModels, SwapModel(i, m) PROVE PullsInv'
    <3>1. CASE m \in present
      BY <2>1, <2>2, <3>1 DEF SwapModel
    <3>2. CASE m \notin present
      <4>1. swap' = [swap EXCEPT ![i] = m] /\ tracker' = [model |-> m, failed |-> FALSE]
        BY <2>2, <3>2 DEF SwapModel
      <4>2. swap'[i] # NoPull
        BY <4>1, MdAssumption DEF PullsInv
      <4> QED BY <4>1, <4>2 DEF PullsInv, TrackerSettles
    <3> QED BY <3>1, <3>2
  <2>3. ASSUME NEW m, FailPull(m)
        PROVE  DOMAIN tracker' = {"model", "failed"} /\ (tracker.model = NoPull \/ tracker.failed)'
    BY <2>3 DEF FailPull, PullsInv
  <2>4. ASSUME NEW i \in Swaps, NEW ok \in BOOLEAN, PullAnswered(i, ok) PROVE PullsInv'
    <3>1. CASE ok /\ serving
      <4>1. pulls' = pulls \union {swap[i]} /\ tracker' = tracker /\ DOMAIN swap' = Swaps
        BY <2>4, <3>1 DEF PullAnswered, PullsInv
      <4> QED BY <4>1 DEF PullsInv, TrackerSettles
    <3>2. CASE ~(ok /\ serving)
      <4>1. FailPull(swap[i]) /\ DOMAIN swap' = Swaps
        BY <2>4, <3>2 DEF PullAnswered, PullsInv
      <4> QED BY <2>3, <4>1 DEF PullsInv, TrackerSettles
    <3> QED BY <3>1, <3>2
  <2>5. ASSUME NEW m \in pulls, NEW how \in {"pulled", "cut", "error"}, StreamEnds(m, how) PROVE PullsInv'
    <3>1. CASE how = "error"
      BY <2>3, <2>5, <3>1 DEF StreamEnds, PullsInv, TrackerSettles
    <3>2. CASE how # "error"
      <4>1. tracker' = [model |-> NoPull, failed |-> FALSE] /\ swap' = swap
        BY <2>5, <3>2 DEF StreamEnds
      <4> QED BY <4>1 DEF PullsInv, TrackerSettles
    <3> QED BY <3>1, <3>2
  <2>6. CASE OllamaChanges
    BY <2>1, <2>6 DEF OllamaChanges
  <2>7. ASSUME NEW j \in Installs, NEW m, NEW ok \in BOOLEAN,
               EnsureBegins(j, m) \/ StartServe(j) \/ WaitReady(j) \/ InstallBinary(j, ok)
                 \/ RunPull(j, ok)
        PROVE  PullsInv'
    BY <2>1, <2>7 DEF EnsureBegins, StartServe, WaitReady, InstallBinary, RunPull, Keep
  <2>8. CASE UNCHANGED ovars
    BY <2>1, <2>8 DEF ovars
  <2> QED BY <2>2, <2>4, <2>5, <2>6, <2>7, <2>8 DEF ModelsNext
<1>3. PullsInv => TrackerSettles
  BY DEF PullsInv
<1> QED BY <1>1, <1>2, <1>3, PTL DEF ModelsSpec

-----------------------------------------------------------------------------
(***************************************************************************)
(* Rollouts. Each agent that a rollout was to cover has a row or is still  *)
(* on the request's list (RolloutInv), which is why the agents that are    *)
(* written must be all those that have no row (RemainingIsAll).            *)
(***************************************************************************)
(* A request that was promised to cover some agents has each of them in    *)
(* the table or still on its list.                                         *)
RolloutInv ==
    /\ cpAgents \in Seq(CpAgents) /\ covered \subseteq DOMAIN states /\ DOMAIN cpCall = CpCalls
    /\ \A i \in CpCalls :
         /\ "at" \in DOMAIN cpCall[i]
         /\ cpCall[i].at = "write" =>
              /\ DOMAIN cpCall[i] = {"at", "todo", "status", "due"}
              /\ \/ cpCall[i].due = {}
                 \/ cpCall[i].todo \in Seq(CpAgents)
                      /\ cpCall[i].due \subseteq DOMAIN states \union ToSet(cpCall[i].todo)

CallOk(call, rows) ==
    /\ "at" \in DOMAIN call
    /\ call.at = "write" =>
         /\ DOMAIN call = {"at", "todo", "status", "due"}
         /\ \/ call.due = {}
            \/ call.todo \in Seq(CpAgents) /\ call.due \subseteq rows \union ToSet(call.todo)

(* Rows are only added, and at most one request goes on.                   *)
LEMMA CallGoesOn ==
    ASSUME RolloutInv, NEW i \in CpCalls, NEW call, Goes(i, call), CallOk(call, DOMAIN states'),
           UNCHANGED cpAgents, DOMAIN states \subseteq DOMAIN states', covered' \subseteq DOMAIN states'
    PROVE  RolloutInv'
<1>1. DOMAIN cpCall' = CpCalls /\ cpCall'[i] = call /\ \A j \in CpCalls \ {i} : cpCall'[j] = cpCall[j]
  BY DEF Goes, RolloutInv
<1>2. ASSUME NEW j \in CpCalls
      PROVE  /\ "at" \in DOMAIN cpCall'[j]
             /\ cpCall'[j].at = "write" =>
                  /\ DOMAIN cpCall'[j] = {"at", "todo", "status", "due"}
                  /\ \/ cpCall'[j].due = {}
                     \/ cpCall'[j].todo \in Seq(CpAgents)
                          /\ cpCall'[j].due \subseteq DOMAIN states' \union ToSet(cpCall'[j].todo)
  <2>1. CASE j = i
    BY <1>1, <2>1 DEF CallOk
  <2>2. CASE j # i
    BY <1>1, <2>2 DEF RolloutInv
  <2> QED BY <2>1, <2>2
<1> QED BY <1>1, <1>2 DEF RolloutInv

(* The head of a sequence and the elements of its tail are its elements.   *)
LEMMA HeadAndTail ==
    ASSUME NEW S, NEW s \in Seq(S), s # << >>
    PROVE  Tail(s) \in Seq(S) /\ ToSet(s) = {Head(s)} \union ToSet(Tail(s))
<1>1. /\ Len(s) \in Nat \ {0} /\ Tail(s) \in Seq(S) /\ Len(Tail(s)) = Len(s) - 1
      /\ Head(s) = s[1] /\ \A k \in 1 .. Len(s) - 1 : Tail(s)[k] = s[k + 1]
      /\ DOMAIN s = 1 .. Len(s) /\ DOMAIN Tail(s) = 1 .. Len(s) - 1
  OBVIOUS
<1>2. ASSUME NEW k \in 1 .. Len(s) PROVE s[k] \in {Head(s)} \union ToSet(Tail(s))
  <2>1. CASE k = 1
    BY <1>1, <2>1
  <2>2. CASE k # 1
    <3>1. k - 1 \in 1 .. Len(s) - 1 /\ Tail(s)[k - 1] = s[k]
      BY <1>1, <2>2
    <3> QED BY <1>1, <3>1 DEF ToSet
  <2> QED BY <2>1, <2>2
<1>3. ASSUME NEW k \in 1 .. Len(s) - 1 PROVE Tail(s)[k] \in ToSet(s)
  BY <1>1 DEF ToSet
<1>4. Head(s) \in ToSet(s)
  BY <1>1 DEF ToSet
<1>5. ToSet(s) \subseteq {Head(s)} \union ToSet(Tail(s))
  BY <1>1, <1>2 DEF ToSet
<1>6. ToSet(Tail(s)) \subseteq ToSet(s)
  BY <1>1, <1>3 DEF ToSet
<1> QED BY <1>1, <1>4, <1>5, <1>6

(* The list of who remains holds everyone without a row.                   *)
LEMMA RemainingIsAll ==
    ASSUME RolloutInv, NEW agents \in Remaining
    PROVE  agents \in Seq(CpAgents) /\ ToSet(agents) = ToSet(cpAgents) \ DOMAIN states
<1> DEFINE left == ToSet(cpAgents) \ DOMAIN states
<1>1. ToSet(cpAgents) \subseteq CpAgents /\ IsFiniteSet(ToSet(cpAgents))
  <2>1. Len(cpAgents) \in Nat /\ cpAgents \in [1 .. Len(cpAgents) -> CpAgents]
          /\ DOMAIN cpAgents = 1 .. Len(cpAgents)
    BY DEF RolloutInv
  <2>2. cpAgents \in Surjection(1 .. Len(cpAgents), ToSet(cpAgents))
    BY <2>1 DEF Surjection, ToSet
  <2>3. IsFiniteSet(1 .. Len(cpAgents))
    BY <2>1, FS_Interval
  <2> QED BY <2>1, <2>2, <2>3, FS_Surjection DEF ToSet
<1>2. IsFiniteSet(left) /\ left \subseteq CpAgents
  BY <1>1, FS_Subset
<1> DEFINE n == Cardinality(left)
<1>3. n \in Nat
  BY <1>2, FS_CardinalityType
<1>4. agents \in [1 .. n -> left] /\ \A p, q \in 1 .. n : p # q => agents[p] # agents[q]
  BY DEF Remaining, SetToSeqs
<1> HIDE DEF left, n
<1>5. agents \in Seq(CpAgents)
  BY <1>2, <1>3, <1>4
<1>6. ToSet(agents) \subseteq left
  BY <1>4 DEF ToSet
<1>7. agents \in Bijection(1 .. n, ToSet(agents))
  BY <1>4 DEF Bijection, Injection, Surjection, IsInjective, ToSet
<1>8. Cardinality(ToSet(agents)) = n
  BY <1>3, <1>7, FS_CountingElements DEF ExistsBijection
<1>9. ToSet(agents) = left
  BY <1>2, <1>6, <1>8, FS_Subset DEF n
<1> QED BY <1>5, <1>9 DEF left

(* Whoever else enrols, reports or rolls back: a promotion to "full" that  *)
(* was answered has reached every agent it had to.                         *)
THEOREM FullReaches == ControlPlaneSpec => []FullReachesAll
<1>1. ControlPlaneInit => RolloutInv
  BY DEF ControlPlaneInit, RolloutInv, IdleCall
<1>2. RolloutInv /\ [ControlPlaneNext]_cvars => RolloutInv'
  <2> SUFFICES ASSUME RolloutInv, [ControlPlaneNext]_cvars PROVE RolloutInv'
    OBVIOUS
  <2> USE DEF CallOk
  <2>0. CallOk(IdleCall, DOMAIN states')
    BY DEF IdleCall
  <2>1. CASE CpRestart
    BY <2>1 DEF CpRestart, RolloutInv, IdleCall
  <2>2. ASSUME NEW a \in CpAgents, UpsertAgent(a) PROVE RolloutInv'
    BY <2>2 DEF UpsertAgent, RolloutInv
  <2>3. ASSUME NEW a \in CpAgents, NEW s \in {"going", "failed"}, AgentStatus(a, s) PROVE RolloutInv'
    <3>1. DOMAIN states \subseteq DOMAIN states' /\ UNCHANGED << cpAgents, cpCall, covered >>
      BY <2>3 DEF AgentStatus, WriteState
    <3> QED BY <3>1 DEF RolloutInv
  <2>4. ASSUME NEW i \in CpCalls, CreateRollout(i) PROVE RolloutInv'
    BY <2>4, CallGoesOn DEF CreateRollout, RolloutInv
  <2>5. ASSUME NEW i \in CpCalls, SelectCanaries(i) PROVE RolloutInv'
    BY <2>5, CallGoesOn DEF SelectCanaries, RolloutInv
  <2>6. ASSUME NEW i \in CpCalls, ReadPolicy(i) PROVE RolloutInv'
    BY <2>6, CallGoesOn DEF ReadPolicy, RolloutInv
  <2>7. ASSUME NEW i \in CpCalls, HealthGate(i) PROVE RolloutInv'
    <3>1. PICK call : Goes(i, call) /\ (call = IdleCall \/ call = [cpCall[i] EXCEPT !.at = "stage"])
      BY <2>7 DEF HealthGate
    <3>2. CallOk(call, DOMAIN states')
      BY <3>1, <2>0 DEF RolloutInv
    <3> QED BY <2>7, <3>1, <3>2, CallGoesOn DEF HealthGate, RolloutInv
  <2>8. ASSUME NEW i \in CpCalls, WriteStage(i) PROVE RolloutInv'
    BY <2>8, CallGoesOn DEF WriteStage, RolloutInv
  <2>9. ASSUME NEW i \in CpCalls, ListEnrolled(i) PROVE RolloutInv'
    <3>1. PICK remaining \in Remaining :
            Goes(i, [at |-> "write", todo |-> ToEnroll(cpCall[i].stage, remaining), status |-> "going",
                     due |-> IF cpCall[i].stage = "full" THEN ToSet(cpAgents) ELSE {}])
      BY <2>9 DEF ListEnrolled
    <3> DEFINE call == [at |-> "write", todo |-> ToEnroll(cpCall[i].stage, remaining), status |-> "going",
                        due |-> IF cpCall[i].stage = "full" THEN ToSet(cpAgents) ELSE {}]
    <3>2. UNCHANGED << cpAgents, states, covered >>
      BY <2>9 DEF ListEnrolled
    <3>3. CallOk(call, DOMAIN states')
      <4>1. CASE cpCall[i].stage # "full"
        BY <4>1
      <4>2. CASE cpCall[i].stage = "full"
        <5>1. call.todo = remaining /\ call.due = ToSet(cpAgents)
          BY <4>2 DEF ToEnroll
        <5>2. remaining \in Seq(CpAgents)
                /\ ToSet(cpAgents) \subseteq DOMAIN states \union ToSet(remaining)
          BY RemainingIsAll
        <5>3. DOMAIN call = {"at", "todo", "status", "due"}
          OBVIOUS
        <5> HIDE DEF call
        <5> QED BY <3>2, <5>1, <5>2, <5>3
      <4> QED BY <4>1, <4>2
    <3> HIDE DEF call
    <3>4. Goes(i, call)
      BY <3>1 DEF call
    <3> QED BY <3>2, <3>3, <3>4, CallGoesOn DEF RolloutInv
  <2>10. ASSUME NEW i \in CpCalls, Rollback(i) PROVE RolloutInv'
    BY <2>10, CallGoesOn DEF Rollback, RolloutInv
  <2>11. ASSUME NEW i \in CpCalls, ListAll(i) PROVE RolloutInv'
    BY <2>11, CallGoesOn DEF ListAll, RolloutInv
  <2>12. ASSUME NEW i \in CpCalls, WriteRow(i) PROVE RolloutInv'
    <3> DEFINE todo == cpCall[i].todo
               call == [cpCall[i] EXCEPT !.todo = Tail(todo)]
    <3>1. /\ Goes(i, call) /\ todo # << >> /\ UNCHANGED << cpAgents, covered >>
          /\ DOMAIN states' = DOMAIN states \union {Head(todo)}
      BY <2>12 DEF WriteRow, WriteState
    <3>2. CallOk(call, DOMAIN states')
      <4>1. DOMAIN cpCall[i] = {"at", "todo", "status", "due"} /\ cpCall[i].at = "write"
        BY <2>12 DEF WriteRow, RolloutInv
      <4>2. CASE cpCall[i].due = {}
        BY <4>1, <4>2
      <4>3. CASE todo \in Seq(CpAgents) /\ cpCall[i].due \subseteq DOMAIN states \union ToSet(todo)
        <5>1. Tail(todo) \in Seq(CpAgents) /\ ToSet(todo) = {Head(todo)} \union ToSet(Tail(todo))
          BY <3>1, <4>3, HeadAndTail
        <5>2. call.todo = Tail(todo) /\ call.due = cpCall[i].due /\ DOMAIN call = DOMAIN cpCall[i]
          BY <4>1
        <5> HIDE DEF call, todo
        <5> QED BY <3>1, <4>1, <4>3, <5>1, <5>2
      <4> QED BY <4>1, <4>2, <4>3 DEF RolloutInv
    <3> HIDE DEF call, todo
    <3> QED BY <3>1, <3>2, CallGoesOn DEF RolloutInv
  <2>13. ASSUME NEW i \in CpCalls, CallEnds(i) PROVE RolloutInv'
    <3>1. cpCall[i].due \subseteq DOMAIN states
      <4>1. ToSet(<< >>) = {}
        BY DEF ToSet
      <4> QED BY <2>13, <4>1 DEF CallEnds, RolloutInv
    <3> QED BY <2>0, <2>13, <3>1, CallGoesOn DEF CallEnds, RolloutInv
  <2>14. CASE UNCHANGED cvars
    BY <2>14 DEF cvars, RolloutInv
  <2> QED BY <2>1, <2>2, <2>3, <2>4, <2>5, <2>6, <2>7, <2>8, <2>9, <2>10, <2>11, <2>12, <2>13,
             <2>14 DEF ControlPlaneNext
<1>3. RolloutInv => FullReachesAll
  BY DEF RolloutInv, FullReachesAll
<1> QED BY <1>1, <1>2, <1>3, PTL DEF ControlPlaneSpec

-----------------------------------------------------------------------------
(***************************************************************************)
(* The agent's loop. Code that runs for a task belongs to the iteration    *)
(* the task is at (or, once the loop is done, to its last one), and that   *)
(* iteration has passed the check (ChildOk).                               *)
(***************************************************************************)
(* A child that runs code belongs to the iteration its task is at, or, once*)
(* the loop is done, to the last one.                                      *)
ChildOk(p) ==
    /\ doing[p.task] \in {"run", "done", "failed"}
    /\ p.iteration \in checked[p.task]
    /\ p.iteration = IF doing[p.task] = "done" THEN Len(history[p.task]) ELSE Len(history[p.task]) + 1

LoopTyped ==
    /\ DOMAIN doing = LoopTasks
    /\ history \in [LoopTasks -> Seq(Outcomes)]
    /\ checked \in [LoopTasks -> SUBSET Nat]
    /\ procs \subseteq [task : LoopTasks, iteration : Nat,
                        kind : {"validator", "info", "python", "client", "container"}]

LoopInv ==
    /\ LoopTyped
    /\ \A t \in LoopTasks : doing[t] \in {"info", "run"} => Iteration(t) \in checked[t]
    /\ \A p \in procs : RunsCode(p) => ChildOk(p)

(* One task's loop goes on.                                                *)
LEMMA OneTask ==
    ASSUME LoopInv, LoopTyped', NEW t \in LoopTasks,
           \A u \in LoopTasks \ {t} : doing'[u] = doing[u] /\ history'[u] = history[u]
             /\ checked'[u] = checked[u],
           doing'[t] \in {"info", "run"} => Iteration(t)' \in checked'[t],
           \A p \in procs' : RunsCode(p) => (p \in procs /\ p.task # t) \/ ChildOk(p)'
    PROVE  LoopInv'
<1>1. ASSUME NEW u \in LoopTasks, doing'[u] \in {"info", "run"} PROVE Iteration(u)' \in checked'[u]
  BY <1>1 DEF LoopInv, Iteration
<1>2. ASSUME NEW p \in procs', RunsCode(p) PROVE ChildOk(p)'
  BY <1>2 DEF LoopInv, LoopTyped, ChildOk
<1> QED BY <1>1, <1>2 DEF LoopInv, RunsCode

(* A child has the task and the iteration it was started for.              *)
LEMMA ChildTyped ==
    ASSUME LoopTyped, NEW t \in LoopTasks,
           NEW kind \in {"validator", "info", "python", "client", "container"}
    PROVE  /\ Child(t, kind) \in [task : LoopTasks, iteration : Nat,
                                  kind : {"validator", "info", "python", "client", "container"}]
           /\ Child(t, kind).task = t /\ Child(t, kind).iteration = Iteration(t)
                /\ Child(t, kind).kind = kind
           /\ Iteration(t) \in Nat
<1>1. Len(history[t]) \in Nat
  BY DEF LoopTyped
<1> QED BY <1>1 DEF Child, Iteration

(* While a task waits for nothing that runs, no code of it runs.           *)
LEMMA NothingRuns ==
    ASSUME LoopInv, NEW t \in LoopTasks, doing[t] \notin {"run", "done", "failed"}
    PROVE  \A p \in procs : RunsCode(p) => p.task # t
BY DEF LoopInv, ChildOk

(* An outcome adds one iteration; a timeout ends the loop.                 *)
LEMMA Concluded ==
    ASSUME LoopTyped, NEW t \in LoopTasks, NEW o \in Outcomes, Conclude(t, o)
    PROVE  /\ history' \in [LoopTasks -> Seq(Outcomes)] /\ Len(history'[t]) = Len(history[t]) + 1
           /\ DOMAIN doing' = LoopTasks /\ doing'[t] \in {"done", "reflect"}
           /\ o = "timeout" => doing'[t] = "done"
           /\ \A u \in LoopTasks \ {t} : doing'[u] = doing[u] /\ history'[u] = history[u]
<1>1. history[t] \in Seq(Outcomes) /\ history' = [history EXCEPT ![t] = Append(history[t], o)]
  BY DEF LoopTyped, Conclude
<1>2. Append(history[t], o) \in Seq(Outcomes) /\ Len(Append(history[t], o)) = Len(history[t]) + 1
  BY <1>1, AppendProperties
<1>3. \/ doing' = [doing EXCEPT ![t] = "done"]
      \/ o # "timeout" /\ doing' = [doing EXCEPT ![t] = "reflect"]
  BY DEF Conclude, Becomes, QueuedForCloud
<1> QED BY <1>1, <1>2, <1>3 DEF LoopTyped

(* The loop concludes an iteration of which nothing runs any more, but for *)
(* a container whose client was killed.                                    *)
LEMMA ConcludeStep ==
    ASSUME LoopInv, NEW t \in LoopTasks, NEW o \in Outcomes, Conclude(t, o), procs' \subseteq procs,
           checked' = checked \/ checked' = [checked EXCEPT ![t] = @ \union {Iteration(t)}],
           \A p \in procs' : RunsCode(p) /\ p.task = t => doing[t] = "run" /\ o = "timeout"
    PROVE  LoopInv'
<1>1. LoopTyped
  BY DEF LoopInv
<1>2. /\ history' \in [LoopTasks -> Seq(Outcomes)] /\ Len(history'[t]) = Len(history[t]) + 1
      /\ DOMAIN doing' = LoopTasks /\ doing'[t] \in {"done", "reflect"}
      /\ o = "timeout" => doing'[t] = "done"
      /\ \A u \in LoopTasks \ {t} : doing'[u] = doing[u] /\ history'[u] = history[u]
  BY <1>1, Concluded
<1>3. Iteration(t) \in Nat
  BY <1>1, ChildTyped
<1>4. /\ checked' \in [LoopTasks -> SUBSET Nat] /\ checked[t] \subseteq checked'[t]
      /\ \A u \in LoopTasks \ {t} : checked'[u] = checked[u]
  BY <1>1, <1>3 DEF LoopTyped
<1>5. LoopTyped'
  BY <1>1, <1>2, <1>4 DEF LoopTyped
<1>6. ASSUME NEW p \in procs', RunsCode(p), p.task = t PROVE ChildOk(p)'
  <2>1. doing[t] = "run" /\ doing'[t] = "done" /\ p \in procs
    BY <1>2, <1>6
  <2>2. p.iteration \in checked[t] /\ p.iteration = Len(history[t]) + 1
    BY <1>6, <2>1 DEF LoopInv, ChildOk
  <2> QED BY <1>2, <1>4, <1>6, <2>1, <2>2 DEF ChildOk
<1> QED BY <1>2, <1>4, <1>5, <1>6, OneTask

(* The loop goes on without a run.                                         *)
LEMMA QuietLoop ==
    ASSUME LoopInv, NEW t \in LoopTasks, NEW s, Becomes(t, s), s \notin {"info", "run"},
           doing[t] \notin {"run", "done", "failed"}, UNCHANGED << history, checked >>,
           procs' \subseteq procs \union {Child(t, "validator"), Child(t, "info")}
    PROVE  LoopInv'
<1>1. LoopTyped /\ LoopTyped'
  BY ChildTyped DEF LoopInv, LoopTyped, Becomes
<1>2. \A p \in procs' : RunsCode(p) => p \in procs /\ p.task # t
  BY <1>1, NothingRuns, ChildTyped DEF RunsCode
<1> QED BY <1>1, <1>2, OneTask DEF LoopInv, LoopTyped, Becomes

(* Checked code is run.                                                    *)
LEMMA ExecuteStep ==
    ASSUME LoopInv, NEW t \in LoopTasks, NEW children \in SUBSET procs, Execute(t, children),
           doing[t] \notin {"run", "done", "failed"}
    PROVE  LoopInv'
<1>1. LoopTyped /\ Iteration(t) \in Nat /\ checked' = [checked EXCEPT ![t] = @ \union {Iteration(t)}]
  BY ChildTyped DEF LoopInv, Execute
<1>2. \A p \in procs : RunsCode(p) => p.task # t
  BY NothingRuns
<1>3. ASSUME NEW s \in {"info", "run"}, NEW kind \in {"info", "python"}, Becomes(t, s),
             (s = "info") = (kind = "info"),
             procs' = children \union {Child(t, kind)}, UNCHANGED history
      PROVE  LoopInv'
  <2>1. PICK c : c = Child(t, kind)
    OBVIOUS
  <2>2. /\ c \in [task : LoopTasks, iteration : Nat, kind : {"validator", "info", "python", "client", "container"}]
        /\ c.task = t /\ c.iteration = Iteration(t) /\ c.kind = kind
    BY <1>1, <2>1, ChildTyped
  <2>3. /\ DOMAIN doing' = LoopTasks /\ doing'[t] = s /\ \A u \in LoopTasks \ {t} : doing'[u] = doing[u]
    BY <1>1, <1>3 DEF LoopTyped, Becomes
  <2>4. /\ checked' \in [LoopTasks -> SUBSET Nat] /\ Iteration(t) \in checked'[t]
        /\ \A u \in LoopTasks \ {t} : checked'[u] = checked[u]
    BY <1>1 DEF LoopTyped
  <2>5. procs' = children \union {c}
    BY <1>3, <2>1
  <2>6. LoopTyped'
    BY <1>1, <1>3, <2>2, <2>3, <2>4, <2>5 DEF LoopTyped
  <2>7. RunsCode(c) => ChildOk(c)'
    BY <1>3, <2>2, <2>3, <2>4 DEF RunsCode, ChildOk, Iteration
  <2> QED BY <1>2, <1>3, <2>3, <2>4, <2>5, <2>6, <2>7, OneTask DEF Iteration
<1>4. CASE Becomes(t, "info") /\ procs' = children \union {Child(t, "info")} /\ UNCHANGED history
  BY <1>3, <1>4
<1>5. CASE Becomes(t, "run") /\ procs' = children \union {Child(t, "python")} /\ UNCHANGED history
  BY <1>3, <1>5
<1>6. CASE procs' = children /\ \E o \in {"zero", "failure", "timeout"} : Conclude(t, o)
  <2>1. PICK o \in {"zero", "failure", "timeout"} : Conclude(t, o)
    BY <1>6
  <2>2. o \in Outcomes
    BY DEF Outcomes
  <2>3. \A p \in procs' : RunsCode(p) => p.task # t
    BY <1>2, <1>6 DEF RunsCode
  <2> QED BY <1>1, <1>6, <2>1, <2>2, <2>3, ConcludeStep
<1> QED BY <1>4, <1>5, <1>6 DEF Execute

(* Docker answers: a container's client is started, or the code is run     *)
(* without.                                                                *)
LEMMA DockerStep ==
    ASSUME LoopInv, NEW t \in LoopTasks, NEW available \in BOOLEAN, DockerAnswers(t, available)
    PROVE  LoopInv'
<1>1. doing[t] = "info" /\ UNCHANGED checked /\ LoopTyped
  BY DEF DockerAnswers, LoopInv
<1>2. \A p \in procs : RunsCode(p) => p.task # t
  BY <1>1, NothingRuns
<1>3. CASE available
  <2>1. PICK c : c = Child(t, "client")
    OBVIOUS
  <2>2. /\ c \in [task : LoopTasks, iteration : Nat, kind : {"validator", "info", "python", "client", "container"}]
        /\ c.task = t /\ c.iteration = Iteration(t)
    BY <1>1, <2>1, ChildTyped
  <2>3. Becomes(t, "run") /\ procs' \subseteq procs \union {c} /\ UNCHANGED history
    BY <1>3, <2>1 DEF DockerAnswers
  <2>4. /\ DOMAIN doing' = LoopTasks /\ doing'[t] = "run" /\ \A u \in LoopTasks \ {t} :
             doing'[u] = doing[u]
    BY <1>1, <2>3 DEF LoopTyped, Becomes
  <2>5. LoopTyped'
    BY <1>1, <2>2, <2>3, <2>4 DEF LoopTyped
  <2>6. Iteration(t) \in checked[t]
    BY <1>1 DEF LoopInv
  <2>7. ChildOk(c)'
    BY <1>1, <2>2, <2>3, <2>4, <2>6 DEF ChildOk, Iteration
  <2> QED BY <1>1, <1>2, <2>3, <2>4, <2>5, <2>6, <2>7, OneTask DEF Iteration
<1>4. CASE ~available
  <2>1. Conclude(t, "unavailable") /\ procs' \subseteq procs
    BY <1>4 DEF DockerAnswers
  <2> QED BY <1>1, <1>2, <2>1, ConcludeStep DEF Outcomes
<1> QED BY <1>3, <1>4

(* The daemon starts the container of a client that is there.              *)
LEMMA ContainerStep ==
    ASSUME LoopInv, NEW t \in LoopTasks, ContainerStarts(t)
    PROVE  LoopInv'
<1>1. PICK c : c = Child(t, "container")
  OBVIOUS
<1>2. PICK d \in procs : d = Child(t, "client")
  BY DEF ContainerStarts
<1>3. /\ c \in [task : LoopTasks, iteration : Nat, kind : {"validator", "info", "python", "client", "container"}]
      /\ c.task = t /\ c.iteration = Iteration(t) /\ d.task = t /\ d.iteration = Iteration(t)
           /\ d.kind = "client"
  BY <1>1, <1>2, ChildTyped DEF LoopInv
<1>4. procs' = procs \union {c} /\ UNCHANGED << doing, history, checked >>
  BY <1>1 DEF ContainerStarts
<1>5. ChildOk(d)
  BY <1>3 DEF LoopInv, RunsCode
<1>6. ChildOk(c)'
  BY <1>3, <1>4, <1>5 DEF ChildOk
<1>7. \A p \in procs : RunsCode(p) => ChildOk(p)'
  BY <1>4 DEF LoopInv, ChildOk
<1>8. LoopTyped'
  BY <1>3, <1>4 DEF LoopInv, LoopTyped
<1> QED BY <1>4, <1>6, <1>7, <1>8 DEF LoopInv, Iteration

(* A run ends: all of it is gone, or the timer leaves the container.       *)
LEMMA RunEnds ==
    ASSUME LoopInv, NEW t \in LoopTasks, doing[t] = "run", NEW p \in procs, RunsCode(p), p.task = t
    PROVE  p \in Runs(t) \union {Child(t, "container")}
<1>1. p \in [task : LoopTasks, iteration : Nat, kind : {"validator", "info", "python", "client", "container"}]
  BY DEF LoopInv, LoopTyped
<1>2. p.iteration = Iteration(t) /\ p.kind \in {"python", "client", "container"}
  BY DEF LoopInv, ChildOk, RunsCode, Iteration
<1>3. p = [task |-> t, iteration |-> Iteration(t), kind |-> p.kind]
  BY <1>1, <1>2
<1> QED BY <1>2, <1>3 DEF Runs, Child

(* A run is killed by the timer or ends by itself.                         *)
LEMMA RunStep ==
    ASSUME LoopInv, NEW t \in LoopTasks,
           RunTimesOut(t) \/ \E o \in {"zero", "failure"} : ChildCloses(t, o)
    PROVE  LoopInv'
<1>1. CASE RunTimesOut(t)
  <2>1. doing[t] = "run" /\ Conclude(t, "timeout") /\ procs' \subseteq procs /\ UNCHANGED checked
    BY <1>1 DEF RunTimesOut
  <2> QED BY <2>1, ConcludeStep DEF Outcomes
<1>2. ASSUME NEW o \in {"zero", "failure"}, ChildCloses(t, o) PROVE LoopInv'
  <2>1. /\ doing[t] = "run" /\ Conclude(t, o) /\ UNCHANGED checked
        /\ procs' = procs \ (Runs(t) \union {Child(t, "container")})
    BY <1>2 DEF ChildCloses
  <2>2. \A p \in procs' : RunsCode(p) => p.task # t
    BY <2>1, RunEnds
  <2> QED BY <2>1, <2>2, ConcludeStep DEF Outcomes
<1> QED BY <1>1, <1>2

(* The agent's process dies: its children stay.                            *)
LEMMA DiesStep ==
    ASSUME LoopInv, NEW t \in LoopTasks, PythonMissing(t)
    PROVE  LoopInv'
<1>1. /\ doing' = [u \in LoopTasks |-> IF doing[u] \in {"idle", "done"} THEN doing[u] ELSE "failed"]
      /\ procs' \subseteq procs /\ UNCHANGED << history, checked >>
  BY DEF PythonMissing
<1>2. LoopTyped'
  BY <1>1 DEF LoopInv, LoopTyped
<1>3. ASSUME NEW p \in procs', RunsCode(p) PROVE ChildOk(p)'
  <2>1. p \in procs /\ ChildOk(p) /\ p.task \in LoopTasks
    BY <1>1, <1>3 DEF LoopInv, LoopTyped
  <2> QED BY <1>1, <2>1 DEF ChildOk
<1>4. \A u \in LoopTasks : doing'[u] \notin {"info", "run"}
  BY <1>1
<1> QED BY <1>2, <1>3, <1>4 DEF LoopInv

(* However tasks overlap, run into the timer or lose their process, the    *)
(* code that runs for a task is that of one iteration and has passed the   *)
(* check, for every number of tasks and of iterations.                     *)
THEOREM OneCheckedAttempt == AgentLoopSpec => []OneAttemptRuns
<1>1. AgentLoopInit => LoopInv
  BY DEF AgentLoopInit, LoopInv, LoopTyped
<1>2. LoopInv /\ [AgentLoopNext]_alvars => LoopInv'
  <2> SUFFICES ASSUME LoopInv, [AgentLoopNext]_alvars PROVE LoopInv'
    OBVIOUS
  <2>1. ASSUME UNCHANGED << doing, history, checked >>, procs' \subseteq procs PROVE LoopInv'
    <3>1. \A p \in procs' : RunsCode(p) => ChildOk(p)'
      BY <2>1 DEF LoopInv, ChildOk
    <3> QED BY <2>1, <3>1 DEF LoopInv, LoopTyped, Iteration
  <2>2. CASE LoopsAreOver \/ UNCHANGED alvars
    BY <2>1, <2>2 DEF LoopsAreOver, alvars
  <2>3. ASSUME NEW t \in LoopTasks, NEW l, TakeTask(t, l) PROVE LoopInv'
    BY <2>3, QuietLoop DEF TakeTask
  <2>4. ASSUME NEW t \in LoopTasks, Planned(t) \/ ModelFails(t) PROVE LoopInv'
    BY <2>4, QuietLoop DEF Planned, ModelFails
  <2>5. ASSUME NEW t \in LoopTasks, Written(t) PROVE LoopInv'
    <3>1. doing[t] \in {"code", "reflect"}
      BY <2>5 DEF Written
    <3>2. CASE RefusedAtOnce(t)
      BY <3>1, <3>2, NothingRuns, ConcludeStep DEF RefusedAtOnce, Outcomes
    <3>3. CASE Execute(t, procs)
      BY <3>1, <3>3, ExecuteStep
    <3>4. CASE Becomes(t, "check") /\ procs' = procs \union {Child(t, "validator")}
               /\ UNCHANGED << history, checked >>
      BY <3>1, <3>4, QuietLoop
    <3> QED BY <2>5, <3>2, <3>3, <3>4 DEF Written
  <2>6. ASSUME NEW t \in LoopTasks, NEW safe \in BOOLEAN, Validated(t, safe) PROVE LoopInv'
    <3>1. doing[t] = "check"
      BY <2>6 DEF Validated
    <3>2. CASE safe
      BY <2>6, <3>1, <3>2, ExecuteStep DEF Validated
    <3>3. CASE ~safe
      BY <2>6, <3>1, <3>3, NothingRuns, ConcludeStep DEF Validated, Outcomes
    <3> QED BY <3>2, <3>3
  <2>7. ASSUME NEW t \in LoopTasks, ValidationTimesOut(t) PROVE LoopInv'
    BY <2>6, <2>7 DEF ValidationTimesOut
  <2>8. ASSUME NEW c \in procs, ChildEnds(c) PROVE LoopInv'
    BY <2>1, <2>8 DEF ChildEnds
  <2> QED BY <2>2, <2>3, <2>4, <2>5, <2>6, <2>7, <2>8, DockerStep, ContainerStep, RunStep, DiesStep
          DEF AgentLoopNext
<1>3. LoopInv => OneAttemptRuns
  BY DEF LoopInv, ChildOk, OneAttemptRuns
<1> QED BY <1>1, <1>2, <1>3, PTL DEF AgentLoopSpec

-----------------------------------------------------------------------------
(***************************************************************************)
(* Web chat. While the page refuses questions its controller is that of a  *)
(* question being streamed, which opens it again (PageInv).                *)
(***************************************************************************)
(* The controller belongs to a question that is being streamed.            *)
PageInv ==
    /\ DOMAIN ask = WebQuestions /\ isStreaming \in BOOLEAN
    /\ isStreaming => abortController \in WebQuestions /\ ask[abortController].at = "streaming"

(* A question that is not being streamed goes on: the page's controller is *)
(* another's.                                                              *)
LEMMA StepsElsewhere ==
    ASSUME PageInv, NEW q \in WebQuestions, NEW at, NEW c, StepTo(q, at, c), ask[q].at # "streaming",
           UNCHANGED << isStreaming, abortController >>
    PROVE  PageInv'
<1>1. DOMAIN ask' = WebQuestions /\ \A p \in WebQuestions \ {q} : ask'[p] = ask[p]
  BY DEF PageInv, StepTo
<1> QED BY <1>1 DEF PageInv

(* A stream that starts makes itself the page's controller.                *)
LEMMA StreamStarts ==
    ASSUME PageInv, NEW q \in WebQuestions, NEW c, StepTo(q, "streaming", c), isStreaming' = TRUE,
           abortController' = q
    PROVE  PageInv'
BY DEF PageInv, StepTo

(* The page never stays shut: while it refuses questions, the question     *)
(* that will open it again is being streamed, for all conversations and    *)
(* questions.                                                              *)
THEOREM PageReopens == WebChatSpec => []StreamingIsLive
<1>1. WebChatInit => PageInv
  BY DEF WebChatInit, PageInv
<1>2. PageInv /\ [WebChatNext]_webvars => PageInv'
  <2> SUFFICES ASSUME PageInv, [WebChatNext]_webvars PROVE PageInv'
    OBVIOUS
  <2>1. ASSUME UNCHANGED << ask, isStreaming, abortController >> PROVE PageInv'
    BY <2>1 DEF PageInv
  <2>2. CASE ClickNewChat \/ NewChatFails \/ UNCHANGED webvars
    BY <2>1, <2>2 DEF ClickNewChat, NewChatFails, webvars
  <2>3. ASSUME NEW c, NEW b,
               \/ SelectConversation(c) \/ NewChatCreated(c) \/ NewChatListed(c)
               \/ ClickDelete(c) \/ Deleted(c) \/ DeleteFails(c) \/ LoadMessages(c, b)
        PROVE  PageInv'
    BY <2>1, <2>3 DEF SelectConversation, NewChatCreated, NewChatListed, ClickDelete, Deleted, DeleteFails,
                      LoadMessages
  <2>4. ASSUME NEW q \in WebQuestions, TypeMessage(q) PROVE PageInv'
    BY <2>4, StepsElsewhere, StreamStarts DEF TypeMessage
  <2>5. ASSUME NEW q \in WebQuestions, Stream(q) PROVE PageInv'
    BY <2>5, StreamStarts DEF Stream
  <2>6. ASSUME NEW q \in WebQuestions, StreamOver(q) PROVE PageInv'
    BY <2>6 DEF StreamOver, InputOpens, PageInv, StepTo
  <2>7. ASSUME NEW q \in WebQuestions, NEW c,
               AskCreateFails(q) \/ Renamed(q) \/ Relisted(q) \/ RenameFails(q) \/ AskCreates(q, c)
        PROVE  PageInv'
    <3>1. PICK at \in {"over", "relisting", "listing"} : StepTo(q, at, NoConv)
      BY <2>7 DEF AskCreateFails, Renamed, Relisted, RenameFails, AskCreates
    <3>2. ask[q].at # "streaming" /\ UNCHANGED << isStreaming, abortController >>
      BY <2>7 DEF AskCreateFails, Renamed, Relisted, RenameFails, AskCreates
    <3> QED BY <3>1, <3>2, StepsElsewhere
  <2> QED BY <2>2, <2>3, <2>4, <2>5, <2>6, <2>7 DEF WebChatNext
<1>3. PageInv => StreamingIsLive
  BY WebChatAssumption DEF PageInv, StreamingIsLive
<1> QED BY <1>1, <1>2, <1>3, PTL DEF WebChatSpec

-----------------------------------------------------------------------------
(***************************************************************************)
(* The IDE's agent. An approval that is pending is that of the call its    *)
(* chat waits with (PendingWaits), so one that is given finds that call    *)
(* still to run.                                                           *)
(***************************************************************************)
(* A pending approval is that of the call its chat waits with.             *)
PendingWaits ==
    \A id \in pending : id[1] \in Chats /\ At(id[1], "waiting") /\ CallOf(id[1]) = id

ChatsTyped ==
    DOMAIN chat = Chats /\ \A c \in Chats :
      {"at", "connected", "iteration", "blocks", "had", "calls", "seen"} = DOMAIN chat[c]

IdeInv ==
    /\ ChatsTyped /\ PendingWaits
    /\ \A id \in approved : id[1] \in Chats
    /\ ApprovalTakesEffect

(* One chat goes on without a call that waits or runs being lost.          *)
LEMMA ChatGoesOn ==
    ASSUME IdeInv, NEW c \in Chats, NEW new, Goes_(c, new),
           {"at", "connected", "iteration", "blocks", "had", "calls", "seen"} = DOMAIN new,
           UNCHANGED approved, ran \subseteq ran',
           pending' \subseteq pending \union {<< c, new.calls >>}, << c, new.calls >> \in pending'
             => new.at = "waiting",
           At(c, "waiting") => new.at = "waiting" /\ new.calls = chat[c].calls,
           At(c, "run") \/ At(c, "write") =>
             (new.at \in {"run", "write"} /\ new.calls = chat[c].calls) \/ CallOf(c) \in ran'
    PROVE  IdeInv'
<1>1. /\ DOMAIN chat' = Chats /\ chat'[c] = new /\ \A d \in Chats \ {c} : chat'[d] = chat[d]
  BY DEF IdeInv, ChatsTyped, Goes_
<1>2. ChatsTyped'
  BY <1>1 DEF IdeInv, ChatsTyped
<1>3. PendingWaits'
  <2> SUFFICES ASSUME NEW id \in pending'
               PROVE  id[1] \in Chats /\ chat'[id[1]].at = "waiting" /\ << id[1],
                      chat'[id[1]].calls >> = id
    BY DEF PendingWaits, At, CallOf
  <2>1. CASE id = << c, new.calls >>
    BY <1>1, <2>1
  <2>2. CASE id \in pending
    <3>1. id[1] \in Chats /\ chat[id[1]].at = "waiting" /\ << id[1], chat[id[1]].calls >> = id
      BY <2>2 DEF IdeInv, PendingWaits, At, CallOf
    <3> QED BY <1>1, <3>1 DEF At
  <2> QED BY <2>1, <2>2
<1>4. ASSUME NEW id \in approved
      PROVE  id \in ran' \/ (chat'[id[1]].at \in {"run", "write"} /\ << id[1], chat'[id[1]].calls >> = id)
  <2>1. id[1] \in Chats /\ (id \in ran \/ (chat[id[1]].at \in {"run", "write"} /\ << id[1], chat[id[1]].calls >> = id))
    BY DEF IdeInv, ApprovalTakesEffect, CallOf
  <2> QED BY <1>1, <2>1 DEF At, CallOf
<1> QED BY <1>2, <1>3, <1>4 DEF IdeInv, ApprovalTakesEffect, CallOf

(* Calls are resolved: each of those chats waits, and goes on as it was    *)
(* told.                                                                   *)
LEMMA ResolvedChats ==
    ASSUME IdeInv, NEW ids \in SUBSET pending, NEW ok \in BOOLEAN, NEW chats, chats = Resolved(ids, ok)
    PROVE  /\ DOMAIN chats = Chats
           /\ \A c \in Chats : /\ DOMAIN chats[c] = DOMAIN chat[c] /\ chats[c].calls = chat[c].calls
                               /\ \/ chats[c] = chat[c] /\ ~(At(c, "waiting") /\ CallOf(c) \in ids)
                                  \/ /\ At(c, "waiting") /\ CallOf(c) \in ids
                                     /\ chats[c].at = IF ok THEN "run" ELSE "blocks"
<1>1. chats = [c \in Chats |-> IF At(c, "waiting") /\ CallOf(c) \in ids
                     THEN [chat[c] EXCEPT !.at = IF ok THEN "run" ELSE "blocks",
                                          !.blocks = IF ok THEN chat[c].blocks ELSE Tail(chat[c].blocks)]
                     ELSE chat[c]]
  BY DEF Resolved
<1> QED BY <1>1 DEF IdeInv, ChatsTyped

(* Pending proposals are resolved: each one's chat goes on with the answer *)
(* it waited for.                                                          *)
LEMMA ResolveStep ==
    ASSUME IdeInv, NEW ids \in SUBSET pending, NEW ok \in BOOLEAN, NEW chats, chats = Resolved(ids, ok),
           pending' = pending \ ids, approved' = IF ok THEN approved \union ids ELSE approved,
             UNCHANGED ran,
           DOMAIN chat' = Chats,
           \A c \in Chats : /\ DOMAIN chat'[c] = DOMAIN chats[c]
                            /\ chat'[c].at = chats[c].at /\ chat'[c].calls = chats[c].calls
    PROVE  IdeInv'
<1>1. /\ DOMAIN chats = Chats
      /\ \A c \in Chats : /\ DOMAIN chats[c] = DOMAIN chat[c] /\ chats[c].calls = chat[c].calls
                          /\ \/ chats[c] = chat[c] /\ ~(At(c, "waiting") /\ CallOf(c) \in ids)
                             \/ /\ At(c, "waiting") /\ CallOf(c) \in ids
                                /\ chats[c].at = IF ok THEN "run" ELSE "blocks"
  BY ResolvedChats
<1>2. ChatsTyped'
  BY <1>1 DEF IdeInv, ChatsTyped
<1>3. PendingWaits'
  <2> SUFFICES ASSUME NEW id \in pending'
               PROVE  id[1] \in Chats /\ chat'[id[1]].at = "waiting" /\ << id[1],
                      chat'[id[1]].calls >> = id
    BY DEF PendingWaits, At, CallOf
  <2>1. id[1] \in Chats /\ chat[id[1]].at = "waiting" /\ CallOf(id[1]) = id /\ id \notin ids
    BY DEF IdeInv, PendingWaits, At
  <2> QED BY <1>1, <2>1 DEF CallOf, At
<1>4. ASSUME NEW id \in approved'
      PROVE  /\ id[1] \in Chats
             /\ id \in ran \/ (chat'[id[1]].at \in {"run", "write"} /\ << id[1], chat'[id[1]].calls >> = id)
  <2>1. CASE id \in approved
    <3>1. id[1] \in Chats /\ (id \in ran \/ (chat[id[1]].at \in {"run", "write"} /\ << id[1], chat[id[1]].calls >> = id))
      BY <2>1 DEF IdeInv, ApprovalTakesEffect, CallOf
    <3> QED BY <1>1, <3>1 DEF At
  <2>2. CASE ok /\ id \in ids
    <3>1. id[1] \in Chats /\ At(id[1], "waiting") /\ CallOf(id[1]) = id
      BY <2>2 DEF IdeInv, PendingWaits
    <3>2. chats[id[1]].at = "run"
      BY <1>1, <2>2, <3>1
    <3> QED BY <1>1, <3>1, <3>2 DEF CallOf
  <2> QED BY <2>1, <2>2
<1> QED BY <1>2, <1>3, <1>4 DEF IdeInv, ApprovalTakesEffect, CallOf

(* Whoever else times out, loses the connection or edits the project at    *)
(* the time: an approval answered with success is carried out.             *)
THEOREM ApprovedIsCarriedOut == IdeSpec => []ApprovalTakesEffect
<1>1. IdeInit => IdeInv
  BY DEF IdeInit, IdleChat, IdeInv, ChatsTyped, PendingWaits, ApprovalTakesEffect
<1>2. IdeInv /\ [IdeNext]_evars => IdeInv'
  <2> SUFFICES ASSUME IdeInv, [IdeNext]_evars PROVE IdeInv'
    OBVIOUS
  <2>1. ASSUME UNCHANGED << chat, pending, ran, approved >> PROVE IdeInv'
    BY <2>1 DEF IdeInv, ChatsTyped, PendingWaits, ApprovalTakesEffect, At, CallOf
  <2>2. CASE SetProject \/ UNCHANGED evars
    BY <2>1, <2>2 DEF SetProject, evars
  <2>3. ASSUME NEW c \in Chats, NEW new, Goes_(c, new), chat[c].at \in {"idle", "model", "blocks"},
               {"at", "connected", "iteration", "blocks", "had", "calls", "seen"} = DOMAIN new,
               new.calls = chat[c].calls \/ At(c, "idle"), UNCHANGED << pending, ran, approved >>
        PROVE  IdeInv'
    <3>1. \A id \in pending : id[1] # c
      BY <2>3 DEF IdeInv, PendingWaits, At
    <3>2. << c, new.calls >> \notin pending
      BY <3>1
    <3> QED BY <2>3, <3>2, ChatGoesOn DEF At
  <2>4. ASSUME NEW c \in Chats, ChatArrives(c) PROVE IdeInv'
    <3> DEFINE new == [IdleChat EXCEPT !.at = "model", !.connected = TRUE]
    <3>1. Goes_(c, new) /\ {"at", "connected", "iteration", "blocks", "had", "calls", "seen"} = DOMAIN new
      BY <2>4 DEF ChatArrives, IdleChat
    <3> HIDE DEF new
    <3> QED BY <2>3, <2>4, <3>1 DEF ChatArrives, At
  <2>5. ASSUME NEW c \in Chats, NEW blocks, ModelSays(c, blocks) PROVE IdeInv'
    <3> DEFINE new == IF blocks = << >> THEN [chat[c] EXCEPT !.at = "done"]
                      ELSE [chat[c] EXCEPT !.at = "blocks", !.blocks = blocks, !.had = FALSE, !.iteration = @ + 1]
    <3>1. /\ Goes_(c, new) /\ {"at", "connected", "iteration", "blocks", "had", "calls", "seen"} = DOMAIN new
          /\ new.calls = chat[c].calls
      BY <2>5 DEF ModelSays, IdeInv, ChatsTyped
    <3> HIDE DEF new
    <3> QED BY <2>3, <2>5, <3>1 DEF ModelSays, At
  <2>6. ASSUME NEW c \in Chats, AskAgain(c) PROVE IdeInv'
    <3>1. PICK at : Goes_(c, [chat[c] EXCEPT !.at = at])
      BY <2>6 DEF AskAgain
    <3> DEFINE new == [chat[c] EXCEPT !.at = at]
    <3>2. /\ Goes_(c, new) /\ {"at", "connected", "iteration", "blocks", "had", "calls", "seen"} = DOMAIN new
          /\ new.calls = chat[c].calls
      BY <3>1 DEF IdeInv, ChatsTyped
    <3> HIDE DEF new
    <3> QED BY <2>3, <2>6, <3>2 DEF AskAgain, At
  <2>7. ASSUME NEW c \in Chats, PassBlock(c) PROVE IdeInv'
    <3> DEFINE new == [chat[c] EXCEPT !.blocks = Tail(@), !.had = @ \/ Head(chat[c].blocks) # "plan"]
    <3>1. /\ Goes_(c, new) /\ {"at", "connected", "iteration", "blocks", "had", "calls", "seen"} = DOMAIN new
          /\ new.calls = chat[c].calls
      BY <2>7 DEF PassBlock, IdeInv, ChatsTyped
    <3> HIDE DEF new
    <3> QED BY <2>3, <2>7, <3>1 DEF PassBlock, At
  <2>8. ASSUME NEW c \in Chats, AskApproval(c) PROVE IdeInv'
    <3> DEFINE new == [chat[c] EXCEPT !.at = "waiting", !.had = TRUE, !.calls = @ + 1]
    <3>1. /\ Goes_(c, new) /\ {"at", "connected", "iteration", "blocks", "had", "calls", "seen"} = DOMAIN new
          /\ new.calls = chat[c].calls + 1 /\ new.at = "waiting"
      BY <2>8 DEF AskApproval, IdeInv, ChatsTyped
    <3> HIDE DEF new
    <3> QED BY <2>8, <3>1, ChatGoesOn DEF AskApproval, At
  <2>9. ASSUME NEW c \in Chats, EditReads(c) PROVE IdeInv'
    <3> DEFINE new == [chat[c] EXCEPT !.at = "write", !.seen = file]
    <3>1. /\ Goes_(c, new) /\ {"at", "connected", "iteration", "blocks", "had", "calls", "seen"} = DOMAIN new
          /\ new.calls = chat[c].calls /\ new.at = "write"
      BY <2>9 DEF EditReads, IdeInv, ChatsTyped
    <3>2. << c, new.calls >> \notin pending
      BY <2>9, <3>1 DEF EditReads, At, IdeInv, PendingWaits
    <3> HIDE DEF new
    <3> QED BY <2>9, <3>1, <3>2, ChatGoesOn DEF EditReads, At
  <2>10. ASSUME NEW c \in Chats, EditWrites(c) \/ Acts(c) PROVE IdeInv'
    <3> DEFINE new == [chat[c] EXCEPT !.at = "blocks", !.blocks = Tail(@)]
    <3>1. /\ Goes_(c, new) /\ {"at", "connected", "iteration", "blocks", "had", "calls", "seen"} = DOMAIN new
          /\ new.calls = chat[c].calls
      BY <2>10 DEF EditWrites, Acts, IdeInv, ChatsTyped
    <3>2. At(c, "run") \/ At(c, "write")
      BY <2>10 DEF EditWrites, Acts
    <3>3. << c, new.calls >> \notin pending
      BY <3>1, <3>2 DEF At, IdeInv, PendingWaits
    <3>4. CallOf(c) \in ran' /\ ran \subseteq ran' /\ UNCHANGED << pending, approved >>
      BY <2>10 DEF EditWrites, Acts
    <3> HIDE DEF new
    <3> QED BY <3>1, <3>2, <3>3, <3>4, ChatGoesOn DEF At
  <2>11. ASSUME NEW id \in pending, NEW ok \in BOOLEAN, ToolApproval(id, ok) PROVE IdeInv'
    <3>1. PICK chats : chats = Resolved({id}, ok)
      OBVIOUS
    <3>2. PICK ids \in SUBSET pending : ids = {id}
      OBVIOUS
    <3>3. chats = Resolved(ids, ok) /\ chat' = chats /\ DOMAIN chats = Chats
      BY <2>11, <3>1, <3>2, ResolvedChats DEF ToolApproval
    <3> QED BY <2>11, <3>2, <3>3, ResolveStep DEF ToolApproval
  <2>12. ASSUME NEW id \in pending, TimesOut(id) PROVE IdeInv'
    <3>1. PICK chats : chats = Resolved({id}, FALSE)
      OBVIOUS
    <3>2. PICK ids \in SUBSET pending : ids = {id}
      OBVIOUS
    <3>3. chats = Resolved(ids, FALSE) /\ chat' = chats /\ DOMAIN chats = Chats
      BY <2>12, <3>1, <3>2, ResolvedChats DEF TimesOut
    <3> QED BY <2>12, <3>2, <3>3, ResolveStep DEF TimesOut
  <2>13. ASSUME NEW c \in Chats, Disconnect(c) PROVE IdeInv'
    <3>1. PICK ids \in SUBSET pending : ids = pending
      OBVIOUS
    <3>2. PICK chats : chats = Resolved(ids, FALSE)
      OBVIOUS
    <3>3. chat' = [chats EXCEPT ![c].connected = FALSE] /\ pending' = {} /\ UNCHANGED << ran, approved >>
      BY <2>13, <3>1, <3>2 DEF Disconnect
    <3>4. /\ DOMAIN chats = Chats
          /\ \A d \in Chats : DOMAIN chats[d] = {"at", "connected", "iteration", "blocks", "had", "calls", "seen"}
      <4>1. PICK ok \in BOOLEAN : ok = FALSE
        OBVIOUS
      <4>2. chats = Resolved(ids, ok)
        BY <3>2, <4>1
      <4>3. DOMAIN chats = Chats /\ \A d \in Chats : DOMAIN chats[d] = DOMAIN chat[d]
        BY <4>2, ResolvedChats
      <4> QED BY <4>3 DEF IdeInv, ChatsTyped
    <3>5. DOMAIN chat' = Chats
          /\ \A d \in Chats : /\ DOMAIN chat'[d] = DOMAIN chats[d]
                              /\ chat'[d].at = chats[d].at /\ chat'[d].calls = chats[d].calls
      BY <3>3, <3>4
    <3>6. /\ pending' = pending \ ids /\ UNCHANGED ran
          /\ approved' = IF FALSE THEN approved \union ids ELSE approved
      BY <3>1, <3>3
    <3> HIDE <3>1, <3>2
    <3>7. FALSE \in BOOLEAN
      OBVIOUS
    <3> QED BY <3>2, <3>5, <3>6, <3>7, ResolveStep
  <2> QED BY <2>2, <2>4, <2>5, <2>6, <2>7, <2>8, <2>9, <2>10, <2>11, <2>12, <2>13 DEF IdeNext
<1>3. IdeInv => ApprovalTakesEffect
  BY DEF IdeInv
<1> QED BY <1>1, <1>2, <1>3, PTL DEF IdeSpec
=============================================================================

------------------------------ MODULE Admission ------------------------------
(***************************************************************************)
(* How agents get into a mesh of coordinators (swarm/coordinator.ts).      *)
(* POST /register asks the portal whether the node is active.  A           *)
(* coordinator without a portal lets everybody in, and so does any one a   *)
(* caller that looks like loopback.  When the portal does not answer, or   *)
(* the caller shows no token, an agent the coordinator knows is let in:    *)
(* one of agentCapabilities, or with an approved row in                    *)
(* node_status_projection.  Rows come from records of validations and      *)
(* approvals, the coordinator's own and those it takes over from its       *)
(* peers' ledgers; each is first stored, then projected, and a call waits  *)
(* for that a limited time only.                                           *)
(***************************************************************************)
EXTENDS Naturals, FiniteSets

CONSTANTS
    AdmAgents,   \* agents
    AdmCoords,   \* coordinators
    WithPortal,  \* those with a PORTAL_SERVICE_URL
    MaxAdmitting, \* bound on registrations that overlap
    MaxWriting   \* bound on records being written at a time

ASSUME AdmAssumption == WithPortal \subseteq AdmCoords /\ {MaxAdmitting, MaxWriting} \subseteq Nat

VARIABLES
    portalActive, \* nodes active at the portal
    vouched,      \* agents some coordinator took in on their own merits (history)
    capable,      \* each coordinator's agentCapabilities
    stored,       \* its stats_ledger_records
    nodeRow,      \* its node_status_projection
    writing,      \* records being written: next "store", then "project"
    admitting     \* registrations under way

dvars == << portalActive, vouched, capable, stored, nodeRow, writing, admitting >>

NodeRecords == [agent : AdmAgents, approved : BOOLEAN]  \* node_validation names no approval
Registrations == [coord : AdmCoords, agent : AdmAgents, step : {"validate", "lookup", "allowed"}]
Credentials == {"loopback", "token", "nothing"}  \* what a caller shows

AdmTypeOK ==
    /\ portalActive \subseteq AdmAgents /\ vouched \subseteq AdmAgents
    /\ capable \in [AdmCoords -> SUBSET AdmAgents]
    /\ stored \in [AdmCoords -> SUBSET NodeRecords]
    /\ nodeRow \in [AdmCoords -> [AdmAgents -> {"none", "seen", "approved"}]]
    /\ writing \subseteq [coord : AdmCoords, record : NodeRecords, step : {"store", "project"}]
    /\ admitting \subseteq Registrations

AdmissionInit ==
    /\ portalActive = {} /\ vouched = {}
    /\ capable = [k \in AdmCoords |-> {}] /\ stored = [k \in AdmCoords |-> {}]
    /\ nodeRow = [k \in AdmCoords |-> [a \in AdmAgents |-> "none"]]
    /\ writing = {} /\ admitting = {}

(* The portal's operator activates or revokes a node.                      *)
PortalChanges(a) ==
    /\ portalActive' \in {portalActive \union {a}, portalActive \ {a}} \ {portalActive}
    /\ UNCHANGED << vouched, capable, stored, nodeRow, writing, admitting >>

Vouches(a, yes) == vouched' = IF yes THEN vouched \union {a} ELSE vouched

-----------------------------------------------------------------------------
(* persistStatsLedgerRecord: the record goes into the ledger, and from     *)
(* there into the row.                                                     *)
Audits(k, a, approved) ==
    /\ Cardinality(writing) < MaxWriting
    /\ writing' = writing \union
         {[coord |-> k, record |-> [agent |-> a, approved |-> approved], step |-> "store"]}

StoreRecord(w) ==
    /\ w \in writing /\ w.step = "store"
    /\ stored' = [stored EXCEPT ![w.coord] = @ \union {w.record}]
    /\ writing' = (writing \ {w}) \union {[w EXCEPT !.step = "project"]}
    /\ UNCHANGED << portalActive, vouched, capable, nodeRow, admitting >>

(* upsertNodeStatusProjection: what a record does not name stays as it is. *)
UpsertRow(row, approved) == IF approved \/ row = "approved" THEN "approved" ELSE "seen"

ProjectRecord(w) ==
    /\ w \in writing /\ w.step = "project"
    /\ nodeRow' = [nodeRow EXCEPT ![w.coord][w.record.agent] = UpsertRow(@, w.record.approved)]
    /\ writing' = writing \ {w}
    /\ UNCHANGED << portalActive, vouched, capable, stored, admitting >>

(* The database fails, or there is none.                                   *)
WriteFails(w) ==
    /\ w \in writing /\ writing' = writing \ {w}
    /\ UNCHANGED << portalActive, vouched, capable, stored, nodeRow, admitting >>

(* syncStatsLedgerFromPeer, /stats/ledger/ingest: a record of a peer's     *)
(* ledger is written like one of the coordinator's own.                    *)
PeerSync(k, from, r) ==
    /\ k # from /\ r \in stored[from]
    /\ Audits(k, r.agent, r.approved)
    /\ UNCHANGED << portalActive, vouched, capable, stored, nodeRow, admitting >>

-----------------------------------------------------------------------------
(* POST /register arrives.                                                 *)
RegisterArrives(k, a) ==
    /\ Cardinality(admitting) < MaxAdmitting
    /\ admitting' = admitting \union {[coord |-> k, agent |-> a, step |-> "validate"]}
    /\ UNCHANGED << portalActive, vouched, capable, stored, nodeRow, writing >>

(* The call goes on, or is refused, once its validation was recorded or    *)
(* recording it took too long.                                             *)
Moves(c, step) == admitting' = (admitting \ {c}) \union {[c EXCEPT !.step = step]}
Decided(c, allowed) ==
    /\ IF allowed THEN Moves(c, "allowed") ELSE admitting' = admitting \ {c}
    /\ Audits(c.coord, c.agent, FALSE)
    /\ UNCHANGED << portalActive, capable, stored, nodeRow >>

(* validatePortalNode where the portal has no say.                         *)
LetInUnasked(c, shows) ==
    /\ c.coord \notin WithPortal \/ shows = "loopback"
    /\ Decided(c, TRUE) /\ Vouches(c.agent, TRUE)

PortalDecides(c, shows) ==
    /\ c.coord \in WithPortal /\ shows = "token"
    /\ Decided(c, c.agent \in portalActive) /\ Vouches(c.agent, c.agent \in portalActive)

(* allowIfKnownAgent: no token, or no answer from the portal.              *)
AskMemory(c, shows) ==
    /\ c.coord \in WithPortal /\ shows # "loopback"
    /\ \/ c.agent \in capable[c.coord] /\ Decided(c, TRUE) /\ UNCHANGED vouched
       \/ /\ c.agent \notin capable[c.coord]
          /\ Moves(c, "lookup")
          /\ UNCHANGED << portalActive, vouched, capable, stored, nodeRow, writing >>

ValidateNode(c, shows) ==
    /\ c \in admitting /\ c.step = "validate"
    /\ LetInUnasked(c, shows) \/ PortalDecides(c, shows) \/ AskMemory(c, shows)

(* Faulty variant of ApprovedRow: any row of the node will do.             *)
ApprovedRowAny(k, a) == nodeRow[k][a] # "none"

(* lookupPersistedApprovedAgent's test of a row.                           *)
ApprovedRow(k, a) == nodeRow[k][a] = "approved"

(* The rows are read, or reading them takes too long.                      *)
LookupRow(c, inTime) ==
    /\ c \in admitting /\ c.step = "lookup"
    /\ Decided(c, inTime /\ ApprovedRow(c.coord, c.agent)) /\ UNCHANGED vouched

(* /register goes on: the agent is registered, then its binary is checked. *)
(* With REQUIRE_VERIFIED_AGENTS a bad one is answered 403, but stays       *)
(* registered; otherwise the approval is recorded.                         *)
Register(c, genuine) ==
    /\ c \in admitting /\ c.step = "allowed"
    /\ admitting' = admitting \ {c}
    /\ capable' = [capable EXCEPT ![c.coord] = @ \union {c.agent}]
    /\ IF genuine THEN Audits(c.coord, c.agent, TRUE) ELSE UNCHANGED writing
    /\ UNCHANGED << portalActive, vouched, stored, nodeRow >>

(* A blacklisted agent is turned away here.                                *)
TurnedAway(c) ==
    /\ c \in admitting /\ c.step = "allowed"
    /\ admitting' = admitting \ {c}
    /\ UNCHANGED << portalActive, vouched, capable, stored, nodeRow, writing >>

-----------------------------------------------------------------------------
(* /mesh/register-peer: a peer with the mesh token is approved; without    *)
(* one it is validated like a coordinator, for which there is no fallback. *)
PeerRegisters(k, a, admitted) ==
    /\ Audits(k, a, admitted) /\ Vouches(a, admitted)
    /\ UNCHANGED << portalActive, capable, stored, nodeRow, admitting >>

(* A capability_announce that reaches the coordinator over the mesh.       *)
AnnounceArrives(k, a) ==
    /\ capable' = [capable EXCEPT ![k] = @ \union {a}] /\ Vouches(a, TRUE)
    /\ UNCHANGED << portalActive, stored, nodeRow, writing, admitting >>

AdmissionRestart(k) ==
    /\ capable' = [capable EXCEPT ![k] = {}]
    /\ admitting' = {c \in admitting : c.coord # k}
    /\ writing' = {w \in writing : w.coord # k}
    /\ UNCHANGED << portalActive, vouched, stored, nodeRow >>

AdmissionNext ==
    \/ \E a \in AdmAgents : PortalChanges(a)
    \/ \E w \in writing : StoreRecord(w) \/ ProjectRecord(w) \/ WriteFails(w)
    \/ \E c \in admitting :
         \/ TurnedAway(c)
         \/ \E shows \in Credentials : ValidateNode(c, shows)
         \/ \E b \in BOOLEAN : LookupRow(c, b) \/ Register(c, b)
    \/ \E k \in AdmCoords :
         \/ AdmissionRestart(k)
         \/ \E from \in AdmCoords : \E r \in stored[from] : PeerSync(k, from, r)
         \/ \E a \in AdmAgents :
              RegisterArrives(k, a) \/ AnnounceArrives(k, a) \/ \E b \in BOOLEAN : PeerRegisters(k, a, b)

AdmissionSpec == AdmissionInit /\ [][AdmissionNext]_dvars

-----------------------------------------------------------------------------
(* Whoever a coordinator knows, in memory or by an approved row, was taken *)
(* in once by some coordinator on its own merits: the record of a refused  *)
(* attempt, passed on between coordinators, written late or half, and read *)
(* during an outage or after a restart, never becomes an approval.         *)
KnownWereVouched ==
    \A k \in AdmCoords, a \in AdmAgents :
      a \in capable[k] \/ nodeRow[k][a] = "approved" => a \in vouched
=============================================================================

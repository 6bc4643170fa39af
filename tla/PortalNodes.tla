---------------------------- MODULE PortalNodes ----------------------------
(***************************************************************************)
(* Node enrolment in the portal (portal/server.ts, portal/store.ts,        *)
(* portal/dns-manager.ts): a user enrols a node, the node becomes active   *)
(* once its owner's email is verified and somebody approved it, the        *)
(* coordinators validate it, and an active coordinator with a public       *)
(* address gets a DNS record.                                              *)
(*                                                                         *)
(* A handler reads its user first and writes rows later, verification is   *)
(* two UPDATEs, and the DNS calls are fire-and-forget: what they write     *)
(* when they come back was decided from a row read long before.            *)
(***************************************************************************)
EXTENDS Naturals, FiniteSets

CONSTANTS
    Users,        \* portal users
    Admin,        \* the user who may manage every node
    Nodes,        \* node ids
    CoordinatorNodes,  \* those enrolled as coordinators; the others are agents
    DeviceOf,     \* from some nodes to their device id
    PublicIps, PrivateIps, NoIp,
    MaxOps        \* bound on enrolments, approvals, deletions and validations

ASSUME PortalNodesAssumption ==
    /\ Admin \in Users /\ CoordinatorNodes \subseteq Nodes /\ DOMAIN DeviceOf \subseteq Nodes
    /\ NoIp \notin PublicIps \union PrivateIps /\ PublicIps \cap PrivateIps = {}
    /\ MaxOps \in Nat

VARIABLES
    verifiedUsers,   \* email_verified of portal_users
    verifying,       \* users whose verification is between its two UPDATEs
    rows,            \* portal_node_enrollments: from enrolled node ids to rows
    enrolling,       \* /nodes/enroll requests that have read their user
    rejecting,       \* node-approval requests the control plane has answered
    dnsJobs,         \* DNS calls under way
    zone,            \* the registrar: which nodes have a record
    nops             \* operations so far

pnvars == << verifiedUsers, verifying, rows, enrolling, rejecting, dnsJobs, zone, nops >>

Ips == PublicIps \union PrivateIps
Row == [ owner : Users, emailVerified : BOOLEAN, approved : BOOLEAN, active : BOOLEAN,
         dnsStatus : {"none", "pending", "active", "nat", "error", "stale"},
         dnsIp : Ips \union {NoIp} ]

Counted == nops < MaxOps /\ nops' = nops + 1
Enrolled(n) == n \in DOMAIN rows
Put(n, row) == rows' = [ m \in DOMAIN rows \union {n} |-> IF m = n THEN row ELSE rows[m] ]

(* getNodeEnrollmentByDeviceId: the row of a node on the same device.      *)
SameDevice(n) ==
    { m \in DOMAIN rows : {m, n} \subseteq DOMAIN DeviceOf /\ DeviceOf[m] = DeviceOf[n] }

PortalNodesInit ==
    /\ verifiedUsers \in SUBSET Users
    /\ verifying = {} /\ enrolling = {} /\ rejecting = {} /\ dnsJobs = {} /\ zone = {} /\ nops = 0
    /\ rows = [n \in {} |-> n]

-----------------------------------------------------------------------------
(* GET /auth/verify-email, and OAuth with a verified email, call           *)
(* markUserEmailVerified: first the user ...                               *)
VerifyUser(u) ==
    /\ u \notin verifiedUsers
    /\ verifiedUsers' = verifiedUsers \union {u}
    /\ verifying' = verifying \union {u}
    /\ UNCHANGED << rows, enrolling, dnsJobs, zone, nops, rejecting >>

(* ... then every node the user has enrolled by now.                       *)
VerifyNodes(u) ==
    /\ u \in verifying
    /\ verifying' = verifying \ {u}
    /\ rows' = [ n \in DOMAIN rows |-> IF rows[n].owner = u
                   THEN [rows[n] EXCEPT !.emailVerified = TRUE, !.active = rows[n].approved]
                   ELSE rows[n] ]
    /\ UNCHANGED << verifiedUsers, enrolling, dnsJobs, zone, nops, rejecting >>

(* POST /nodes/enroll has read the user of its session, and the row of the *)
(* device, which it will write to instead of the node it names.            *)
EnrollBegins(u, n) ==
    /\ Counted
    /\ \E target \in IF SameDevice(n) = {} THEN {n} ELSE SameDevice(n) :
         enrolling' = enrolling \union
            {[user |-> u, node |-> n, target |-> target, verified |-> u \in verifiedUsers]}
    /\ UNCHANGED << verifiedUsers, verifying, rows, dnsJobs, zone, rejecting >>

(* setNodeApproval on a row.                                               *)
SetApproval(row, approved) ==
    [row EXCEPT !.approved = approved, !.active = approved /\ row.emailVerified]

(* Faulty variant of Upserted: an enrolment leaves "active" as it was.     *)
UpsertedKeepsActive(e) ==
    LET old == IF e.target \in DOMAIN rows THEN rows[e.target]
               ELSE [ approved |-> FALSE, active |-> FALSE, dnsStatus |-> "none", dnsIp |-> NoIp ]
    IN  [ owner |-> e.user, emailVerified |-> e.verified, approved |-> old.approved,
          active |-> old.active, dnsStatus |-> old.dnsStatus, dnsIp |-> old.dnsIp ]

(* upsertNodeEnrollment: a new row is not approved; an old one keeps its   *)
(* approval and its DNS state under the new owner.                         *)
Upserted(e) ==
    LET old == IF e.target \in DOMAIN rows THEN rows[e.target]
               ELSE [ approved |-> FALSE, dnsStatus |-> "none", dnsIp |-> NoIp ]
    IN  [ owner |-> e.user, emailVerified |-> e.verified, approved |-> old.approved,
          active |-> old.approved /\ e.verified, dnsStatus |-> old.dnsStatus, dnsIp |-> old.dnsIp ]

(* The statements of /nodes/enroll, taken together: an agent of a verified user is approved at   *)
(* once, a coordinator's DNS state starts again at "pending".              *)
Enroll(e) ==
    LET row == Upserted(e)
        approvedRow == IF e.node \notin CoordinatorNodes /\ e.verified /\ ~row.approved
                       THEN SetApproval(row, TRUE) ELSE row
    IN  /\ e \in enrolling
        /\ enrolling' = enrolling \ {e}
        /\ Put(e.target, IF e.node \in CoordinatorNodes
                         THEN [approvedRow EXCEPT !.dnsStatus = "pending", !.dnsIp = NoIp]
                         ELSE approvedRow)
        /\ UNCHANGED << verifiedUsers, verifying, dnsJobs, zone, nops, rejecting >>

(* DELETE /nodes/:nodeId by the owner or the administrator; the DNS record *)
(* of a coordinator is deleted in the background.                          *)
DeleteNode(u, n) ==
    /\ Enrolled(n) /\ (u = Admin \/ rows[n].owner = u)
    /\ Counted
    /\ rows' = [m \in DOMAIN rows \ {n} |-> rows[m]]
    /\ dnsJobs' = IF n \in CoordinatorNodes /\ rows[n].dnsStatus # "none"
                  THEN dnsJobs \union {[node |-> n, do |-> "delete"]} ELSE dnsJobs
    /\ UNCHANGED << verifiedUsers, verifying, enrolling, zone, rejecting >>

(* POST /internal/nodes/:nodeId/approval.  A coordinator that loses its    *)
(* approval also loses its DNS record.                                     *)
Approve(n, approved) ==
    LET row == SetApproval(rows[n], approved)
        drops == n \in CoordinatorNodes /\ ~approved /\ row.dnsStatus # "none"
    IN  /\ Enrolled(n)
        /\ Counted
        /\ Put(n, IF drops THEN [row EXCEPT !.dnsStatus = "pending", !.dnsIp = NoIp] ELSE row)
        /\ dnsJobs' = IF drops THEN dnsJobs \union {[node |-> n, do |-> "delete"]} ELSE dnsJobs
        /\ UNCHANGED << verifiedUsers, verifying, enrolling, zone >>

(* POST /coordinator/ops/node-approval with approved = false goes through  *)
(* the control plane to the same statement ...                             *)
RejectBegins(n) ==
    /\ Enrolled(n)
    /\ Approve(n, FALSE)
    /\ rejecting' = rejecting \union {[node |-> n, pending |-> ~rows[n].approved]}

(* ... and then drops the enrolment unless the node is approved, which it  *)
(* no longer is.                                                           *)
RejectEnds(r) ==
    /\ r \in rejecting
    /\ rejecting' = rejecting \ {r}
    /\ rows' = [ m \in DOMAIN rows \ {n \in {r.node} : n \in DOMAIN rows /\ ~rows[n].approved}
                  |-> rows[m] ]
    /\ UNCHANGED << verifiedUsers, verifying, enrolling, dnsJobs, zone, nops >>

(* POST /internal/nodes/validate with the node's token: an active          *)
(* coordinator starts a DNS update from the row as it is now.              *)
Validate(n, ip) ==
    /\ Enrolled(n) /\ n \in CoordinatorNodes /\ rows[n].active
    /\ Counted
    /\ dnsJobs' = dnsJobs \union {[node |-> n, do |-> "sync", ip |-> ip, current |-> rows[n].dnsIp]}
    /\ UNCHANGED << verifiedUsers, verifying, rows, enrolling, zone, rejecting >>

-----------------------------------------------------------------------------
WriteDns(job, status, ip) ==
    /\ job.do = "sync"
    /\ dnsJobs' = dnsJobs \ {job}
    /\ IF job.node \in DOMAIN rows
       THEN Put(job.node, [rows[job.node] EXCEPT !.dnsStatus = status, !.dnsIp = ip])
       ELSE UNCHANGED rows

(* The status syncCoordinatorDns reports when it does not update.          *)
SkipStatus(job) == IF job.current = NoIp THEN "nat" ELSE "active"

(* syncCoordinatorDns finds nothing to do: the address is the one the row  *)
(* had, or the last update is less than a minute old.                      *)
SyncSkips(job) ==
    /\ job \in dnsJobs
    /\ WriteDns(job, SkipStatus(job), job.current)
    /\ UNCHANGED << verifiedUsers, verifying, enrolling, zone, nops, rejecting >>

(* The coordinator is behind NAT: its record goes, if the registrar lets it.*)
SyncPrivate(job) ==
    /\ job \in dnsJobs /\ WriteDns(job, "nat", NoIp)
    /\ job.ip \in PrivateIps /\ job.ip # job.current
    /\ zone' \in {zone, IF job.current = NoIp THEN zone ELSE zone \ {job.node}}
    /\ UNCHANGED << verifiedUsers, verifying, enrolling, nops, rejecting >>

(* A public address is written to the registrar, which may refuse.         *)
SyncPublic(job) ==
    /\ job \in dnsJobs /\ job.do = "sync" /\ job.ip \in PublicIps /\ job.ip # job.current
    /\ \/ WriteDns(job, "active", job.ip) /\ zone' = zone \union {job.node}
       \/ WriteDns(job, "error", job.current) /\ UNCHANGED zone
    /\ UNCHANGED << verifiedUsers, verifying, enrolling, nops, rejecting >>

(* deleteDnsRecord, which may fail; nothing tries again.                   *)
DeleteRecord(job) ==
    /\ job \in dnsJobs /\ job.do = "delete"
    /\ dnsJobs' = dnsJobs \ {job}
    /\ zone' \in {zone, zone \ {job.node}}
    /\ UNCHANGED << verifiedUsers, verifying, rows, enrolling, nops, rejecting >>

(* runDnsStaleSweep: coordinators S have not been seen for seven days.     *)
StaleSweep(S) ==
    /\ S # {} /\ \A n \in S : n \in CoordinatorNodes /\ rows[n].dnsStatus = "active"
    /\ rows' = [ n \in DOMAIN rows |-> IF n \in S
                   THEN [rows[n] EXCEPT !.dnsStatus = "stale", !.dnsIp = NoIp] ELSE rows[n] ]
    /\ UNCHANGED << verifiedUsers, verifying, enrolling, dnsJobs, zone, nops, rejecting >>

(* listActiveCoordinators, from which /nodes/discover-coordinator picks.   *)
Discoverable ==
    { n \in DOMAIN rows \cap CoordinatorNodes :
        rows[n].active /\ rows[n].dnsStatus = "active" /\ rows[n].dnsIp # NoIp }

(* A refused request changes nothing.                                      *)
PortalNodesRefused == UNCHANGED pnvars

PortalNodesNext ==
    \/ \E u \in Users :
         \/ VerifyUser(u) \/ VerifyNodes(u)
         \/ \E n \in Nodes : EnrollBegins(u, n) \/ DeleteNode(u, n)
    \/ \E e \in enrolling : Enroll(e)
    \/ \E n \in DOMAIN rows :
         \/ \E approved \in BOOLEAN : Approve(n, approved) /\ UNCHANGED rejecting
         \/ RejectBegins(n)
         \/ \E ip \in Ips : Validate(n, ip)
    \/ \E r \in rejecting : RejectEnds(r)
    \/ \E job \in dnsJobs : SyncSkips(job) \/ SyncPrivate(job) \/ SyncPublic(job) \/ DeleteRecord(job)
    \/ \E S \in SUBSET DOMAIN rows : StaleSweep(S)
    \/ PortalNodesRefused

PortalNodesSpec == PortalNodesInit /\ [][PortalNodesNext]_pnvars

-----------------------------------------------------------------------------

(* Five statements write "active", from rows read at different times, and  *)
(* they agree: a node is active exactly when it is approved and its email  *)
(* flag is set, and that flag is never set before the owner is verified.   *)
ActiveExactly ==
    \A n \in DOMAIN rows :
      /\ rows[n].active <=> rows[n].approved /\ rows[n].emailVerified
      /\ rows[n].emailVerified => rows[n].owner \in verifiedUsers

=============================================================================

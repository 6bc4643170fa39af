------------------------------ MODULE AgentMesh ------------------------------
(***************************************************************************)
(* The agent mesh of one coordinator (swarm/coordinator.ts, /agent-mesh,   *)
(* and the loop of swarm/worker-runner.ts): tunnels between two agents and *)
(* direct work that one agent offers another.  The coordinator's handlers  *)
(* do not await, so each is one step; an agent works off what a heartbeat  *)
(* gave it call by call, and calls and their answers are lost.             *)
(* Rate limits and payload sizes only add refusals and are left out.       *)
(***************************************************************************)
EXTENDS Naturals, FiniteSets

CONSTANTS
    Agents,     \* registered agents
    Tokens,     \* tokens of tunnels, each given out once
    NoToken,
    Offers      \* ids of direct work offers, each given out once

ASSUME AgentMeshAssumption == NoToken \notin Tokens

VARIABLES
    tunnels,       \* activeTunnels: from tokens to the two agents
    tunnelOfPair,  \* tunnelByPairKey
    connected,     \* connectedPeers of each agent
    invites,       \* pendingTunnelInvites of each agent
    notices,       \* pendingTunnelCloseNotices of each agent
    usedTokens,    \* tokens given out so far
    banned,        \* blacklisted agents
    todo,          \* at the agents: what the last heartbeat brought, not yet worked off
    held,          \* at the agents: peerTunnels
    offers,        \* directWorkById: status and ends of each offer
    running        \* at the agents: accepted offers whose result is not posted

mvars == << tunnels, tunnelOfPair, connected, invites, notices, usedTokens, banned, todo, held,
            offers, running >>
offerVars == << offers, running >>
tunnelVars == << tunnels, tunnelOfPair, connected, invites, notices, usedTokens, held >>

Pairs == {{a, b} : a, b \in Agents} \ {{a} : a \in Agents}
PairKey(a, b) == {a, b}
Ends(t) == PairKey(tunnels[t].from, tunnels[t].to)

AgentMeshInit ==
    /\ tunnels = [t \in {} |-> t] /\ tunnelOfPair = [p \in Pairs |-> NoToken]
    /\ connected = [a \in Agents |-> {}]
    /\ invites = [a \in Agents |-> {}] /\ notices = [a \in Agents |-> {}]
    /\ usedTokens = {} /\ banned = {}
    /\ todo = [a \in Agents |-> {}]
    /\ held = [a \in Agents |-> [b \in Agents |-> NoToken]]
    /\ offers = [o \in Offers |-> [status |-> "none"]]
    /\ running = {}

-----------------------------------------------------------------------------
(* POST /heartbeat hands over invites and close notices and forgets them.  *)
(* The answer may be lost.                                                 *)
Heartbeat(a) ==
    /\ a \notin banned /\ todo[a] = {}
    /\ invites' = [invites EXCEPT ![a] = {}]
    /\ notices' = [notices EXCEPT ![a] = {}]
    /\ todo' \in {todo, [todo EXCEPT ![a] = invites[a] \union notices[a]]}
    /\ UNCHANGED << tunnels, tunnelOfPair, connected, usedTokens, banned, held, offerVars >>

(* The agent takes in a close notice: the tunnel it holds to that peer is  *)
(* gone, whichever it is; then /agent-mesh/close-ack.                      *)
TakeNotice(a, n) ==
    /\ n \in todo[a] /\ n.kind = "close"
    /\ held' = [held EXCEPT ![a][n.peer] = NoToken]
    /\ todo' = [todo EXCEPT ![a] = @ \ {n}]
    /\ notices' = [notices EXCEPT ![a] = {m \in @ : m.token # n.token}]
    /\ UNCHANGED << tunnels, tunnelOfPair, connected, invites, usedTokens, banned, offerVars >>

(* POST /agent-mesh/accept, after the notices of the same heartbeat.  When *)
(* it is refused the loop starts over and the rest of its work is lost.    *)
Accept(a, i) ==
    /\ i \in todo[a] /\ i.kind = "invite" /\ \A n \in todo[a] : n.kind = "invite"
    /\ IF i.token \in DOMAIN tunnels /\ a \notin banned
       THEN /\ connected' = [connected EXCEPT ![a] = @ \union {i.peer}, ![i.peer] = @ \union {a}]
            /\ held' = [held EXCEPT ![a][i.peer] = i.token]
            /\ todo' = [todo EXCEPT ![a] = @ \ {i}]
       ELSE /\ todo' = [todo EXCEPT ![a] = {}]
            /\ UNCHANGED << connected, held >>
    /\ UNCHANGED << tunnels, tunnelOfPair, invites, notices, usedTokens, banned, offerVars >>

(* The tunnel /agent-mesh/connect gives out again.                         *)
ExistingTunnel(a, b) == tunnelOfPair[PairKey(a, b)]

(* The agent asks for a tunnel to a peer it holds none to.                 *)
Wants(a, b) == a # b /\ held[a][b] = NoToken

(* POST /agent-mesh/connect.                                               *)
Connect(a, b, t) ==
    /\ Wants(a, b) /\ {a, b} \cap banned = {}
    /\ IF ExistingTunnel(a, b) # NoToken
       THEN /\ held' \in {held, [held EXCEPT ![a][b] = ExistingTunnel(a, b)]}
            /\ UNCHANGED << tunnels, tunnelOfPair, invites, usedTokens >>
       ELSE /\ t \notin usedTokens /\ usedTokens' = usedTokens \union {t}
            /\ tunnels' = [s \in DOMAIN tunnels \union {t} |->
                             IF s = t THEN [from |-> a, to |-> b] ELSE tunnels[s]]
            /\ tunnelOfPair' = [tunnelOfPair EXCEPT ![PairKey(a, b)] = t]
            /\ invites' = [invites EXCEPT ![b] = @ \union {[kind |-> "invite", peer |-> a, token |-> t]}]
            /\ held' \in {held, [held EXCEPT ![a][b] = t]}
    /\ UNCHANGED << connected, notices, banned, todo, offerVars >>

(* POST /agent-mesh/relay answers 404 or 403.  A relay that succeeds, or   *)
(* is over a limit, only changes counters and how fresh the tunnel is.     *)
RelayRefuses(a, t) == t \notin DOMAIN tunnels \/ a \in banned

(* The agent drops the token of a tunnel that was refused.                 *)
RelayRefused(a, b) ==
    /\ held[a][b] # NoToken /\ RelayRefuses(a, held[a][b])
    /\ held' = [held EXCEPT ![a][b] = NoToken]
    /\ UNCHANGED << tunnels, tunnelOfPair, connected, invites, notices, usedTokens, banned, todo, offerVars >>

(* Faulty variant of RemoveTunnel: only the one that opened it forgets.   *)
RemoveOneSide(t) ==
    /\ tunnels' = [s \in DOMAIN tunnels \ {t} |-> tunnels[s]]
    /\ tunnelOfPair' = [tunnelOfPair EXCEPT ![Ends(t)] = NoToken]
    /\ connected' = [connected EXCEPT ![tunnels[t].from] = @ \ {tunnels[t].to}]

(* What close and cleanup do to the coordinator's records of a tunnel.     *)
RemoveTunnel(t) ==
    /\ tunnels' = [s \in DOMAIN tunnels \ {t} |-> tunnels[s]]
    /\ tunnelOfPair' = [tunnelOfPair EXCEPT ![Ends(t)] = NoToken]
    /\ connected' = [a \in Agents |-> IF a \in Ends(t) THEN connected[a] \ Ends(t) ELSE connected[a]]

(* POST /agent-mesh/close by one end.                                      *)
Close(a, t) ==
    /\ t \in DOMAIN tunnels /\ a \in Ends(t)
    /\ RemoveTunnel(t)
    /\ \E b \in Ends(t) \ {a} :
         notices' = [notices EXCEPT ![b] = @ \union {[kind |-> "close", peer |-> a, token |-> t]}]
    /\ UNCHANGED << invites, usedTokens, banned, todo, held, offerVars >>

(* cleanupStaleTunnels: nothing was relayed for the idle time.             *)
CleanupTunnel(t) ==
    /\ t \in DOMAIN tunnels
    /\ RemoveTunnel(t)
    /\ UNCHANGED << invites, notices, usedTokens, banned, todo, held, offerVars >>

-----------------------------------------------------------------------------
(* An idle agent offers work to peers that are not blacklisted; how often  *)
(* to one peer is left out.                                                *)
OffersTo(a, b) == a # b /\ b \notin banned

(* POST /agent-mesh/direct-work/offer, and /agent-mesh/models/request to   *)
(* an agent with a model: the offer waits in the inbox.                    *)
OfferWork(a, b, o) ==
    /\ OffersTo(a, b) /\ a \notin banned /\ offers[o].status = "none"
    /\ offers' = [offers EXCEPT ![o] = [status |-> "offered", to |-> b]]
    /\ UNCHANGED << tunnelVars, banned, todo, running >>

(* What /agent-mesh/direct-work/accept asks for.                           *)
MayAccept(a, o) == offers[o].status = "offered" /\ offers[o].to = a /\ a \notin banned

(* The agent runs what it has accepted.                                    *)
RunsWork(a, o) == running' = running \union {[agent |-> a, offer |-> o]}

(* The agent accepts an offer of its last heartbeat; when the answer is    *)
(* lost it never runs what it has accepted.                                *)
AcceptWork(a, o) ==
    /\ MayAccept(a, o)
    /\ offers' = [offers EXCEPT ![o].status = "accepted"]
    /\ RunsWork(a, o) \/ UNCHANGED running
    /\ UNCHANGED << tunnelVars, banned, todo >>

(* POST /agent-mesh/direct-work/result, which is not tried again.          *)
WorkResult(r) ==
    /\ r \in running
    /\ running' = running \ {r}
    /\ \/ /\ offers[r.offer].status = "accepted" /\ r.agent \notin banned
          /\ offers' = [offers EXCEPT ![r.offer].status = "completed"]
       \/ UNCHANGED offers
    /\ UNCHANGED << tunnelVars, banned, todo >>

-----------------------------------------------------------------------------
(* An agent is blacklisted.                                                *)
Ban(a) ==
    /\ a \notin banned
    /\ banned' = banned \union {a}
    /\ UNCHANGED << tunnelVars, todo, offerVars >>

(* An agent restarts and has forgotten everything.                         *)
AgentRestarts(a) ==
    /\ todo' = [todo EXCEPT ![a] = {}]
    /\ held' = [held EXCEPT ![a] = [b \in Agents |-> NoToken]]
    /\ running' = {r \in running : r.agent # a}
    /\ UNCHANGED << tunnels, tunnelOfPair, connected, invites, notices, usedTokens, banned, offers >>

AgentMeshNext ==
    \/ \E a \in Agents :
         \/ Heartbeat(a) \/ Ban(a) \/ AgentRestarts(a)
         \/ \E n \in todo[a] : TakeNotice(a, n) \/ Accept(a, n)
         \/ \E b \in Agents :
              \/ RelayRefused(a, b)
              \/ \E t \in Tokens : Connect(a, b, t)
              \/ \E o \in Offers : OfferWork(a, b, o)
         \/ \E t \in DOMAIN tunnels : Close(a, t)
         \/ \E o \in Offers : AcceptWork(a, o)
    \/ \E t \in DOMAIN tunnels : CleanupTunnel(t)
    \/ \E r \in running : WorkResult(r)

AgentMeshSpec == AgentMeshInit /\ [][AgentMeshNext]_mvars

-----------------------------------------------------------------------------

(* The agents a coordinator lists as connected are so in both directions   *)
(* and over a tunnel that is there: late accepts, closes from either end   *)
(* and cleanup leave no half connection.                                   *)
ConnectedOverTunnel ==
    \A a, b \in Agents : b \in connected[a] =>
      a \in connected[b] /\ tunnelOfPair[PairKey(a, b)] # NoToken

=============================================================================

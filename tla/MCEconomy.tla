------------------------------ MODULE MCEconomy ------------------------------
(***************************************************************************)
(* What is paid for and the portal side by side: payment intents and robot *)
(* queue; the portal's accounts, nodes, wallets and chats, and the         *)
(* escalations it reviews.  The parts share no state that matters to their *)
(* properties, so a behaviour is one of one part: "part" says which, and   *)
(* TLC explores the union of the parts, not their product.  The robot      *)
(* queue gets an even escrow and one that the fee does not divide.         *)
(***************************************************************************)
EXTENDS PaymentIntents, RobotQueue, PortalAuth, PortalNodes, Chat, Escalation, TLC

CONSTANTS r1, r2, poller, handler, h1, h2,
          e1, e2, s1, k1, x1, x2, x3, u1, u2, n1, n2, n3, d1, pub1, pub2, priv,
          p1, p2, p3, c1, c2, t1, t2

MCRobots == {r1, r2}
MCAmounts == {199, 10000}
MCDevices == n1 :> d1 @@ n2 :> d1

(* Secrets differ in nothing but their names, and none is issued twice, so *)
(* it is enough to look at behaviours that issue them in this order.       *)
IssuedInOrder ==
    /\ secrets[x2].kind # "none" => secrets[x1].kind # "none"
    /\ secrets[x3].kind # "none" => secrets[x2].kind # "none"

(* Webhooks, confirmations and loops may run in either process.            *)
ProcsAlike == Permutations(Procs)

VARIABLE part

economyVars == << payVars, vars >>
portalVars == << pavars, pnvars, pwvars, hvars, evars >>
allVars == << economyVars, portalVars, part >>

EconomyInit ==
    /\ part \in {"payments", "robots", "auth", "nodes", "wallet", "chat", "escalation"}
    /\ PayInit /\ Init
    /\ PortalAuthInit /\ PortalNodesInit /\ PortalWalletInit /\ ChatInit /\ EscalationInit
    /\ part # "auth" => \A s \in Subjects : emailOf[s] = e1
    /\ part # "nodes" => verifiedUsers = {}

EconomyNext ==
    /\ UNCHANGED part
    /\ \/ part = "payments" /\ PayNext /\ UNCHANGED << vars, portalVars >>
       \/ part = "robots" /\ Next /\ UNCHANGED << payVars, portalVars >>
       \/ part = "auth" /\ PortalAuthNext /\ IssuedInOrder'
          /\ UNCHANGED << pnvars, pwvars, hvars, evars, economyVars >>
       \/ part = "nodes" /\ PortalNodesNext /\ UNCHANGED << pavars, pwvars, hvars, evars, economyVars >>
       \/ part = "wallet" /\ PortalWalletNext /\ UNCHANGED << pavars, pnvars, hvars, evars, economyVars >>
       \/ part = "chat" /\ ChatNext /\ UNCHANGED << pavars, pnvars, pwvars, evars, economyVars >>
       \/ part = "escalation" /\ EscalationNext /\ UNCHANGED << pavars, pnvars, pwvars, hvars, economyVars >>

EconomySpec == EconomyInit /\ [][EconomyNext]_allVars
=============================================================================

---------------------------- MODULE MCCoordinator ----------------------------
(***************************************************************************)
(* The coordinator's services side by side: request authentication,        *)
(* behaviour monitoring, the blacklist, the stats ledger, issuance and     *)
(* price negotiation, the agent mesh and gossip.  They share no state that *)
(* matters to their properties, so a behaviour is one of one part: "part"  *)
(* says which, and TLC explores the union of the parts, not their product. *)
(***************************************************************************)
EXTENDS AgentAuth, Blacklist, StatsLedger, Issuance, AgentMesh, Gossip, TLC

CONSTANTS n1, p1, p2, s1, a1, a2, t1, t2, o1, c1, c2, c3, m1, m2, i1, i2

Outcome(ok, h, l, d) == [ok |-> ok, hash |-> h, length |-> l, duration |-> d, at |-> 0]
MCOutcomes == { Outcome(TRUE, 1, 5, 3), Outcome(TRUE, 2, 5, 4), Outcome(TRUE, 3, 0, 4),
                Outcome(TRUE, 4, 1, 0), Outcome(FALSE, 5, 5, 3) }
MCQuotes == {[value |-> v, weight |-> w] : v \in 1 .. 3, w \in {1, 3}}
MCSender == m1 :> c1 @@ m2 :> c1
MCDials == {<< c1, c2 >>, << c2, c3 >>}
MCSeeds == {<< c1, c2 >>, << c3, c1 >>}
AnchorRecords == 2  \* bound on records where heads are anchored, which no other step looks at

VARIABLE part

coordinatorVars == << avars, bvars, lvars, svars, ivars, prvars, mvars, gvars, part >>

Init ==
    /\ part \in {"auth", "behaviour", "blacklist", "stats", "anchors",
               "issuance", "prices", "agents", "gossip"}
    /\ AgentAuthInit /\ BehaviourInit /\ BlacklistInit /\ StatsInit /\ IssuanceInit
    /\ PricesInit /\ AgentMeshInit /\ GossipInit

Next ==
    /\ UNCHANGED part
    /\ \/ part = "auth" /\ AgentAuthNext
          /\ UNCHANGED << bvars, lvars, svars, ivars, prvars, mvars, gvars >>
       \/ part = "behaviour" /\ BehaviourNext
          /\ UNCHANGED << avars, lvars, svars, ivars, prvars, mvars, gvars >>
       \/ part = "blacklist" /\ BlacklistNext
          /\ UNCHANGED << avars, bvars, svars, ivars, prvars, mvars, gvars >>
       \/ part = "stats" /\ StatsNext /\ UNCHANGED anchored
          /\ UNCHANGED << avars, bvars, lvars, ivars, prvars, mvars, gvars >>
       \/ part = "anchors" /\ StatsNext /\ DOMAIN ledger' \subseteq 1 .. AnchorRecords
          /\ UNCHANGED << avars, bvars, lvars, ivars, prvars, mvars, gvars >>
       \/ part = "issuance" /\ IssuanceNext
          /\ UNCHANGED << avars, bvars, lvars, svars, prvars, mvars, gvars >>
       \/ part = "prices" /\ PricesNext
          /\ UNCHANGED << avars, bvars, lvars, svars, ivars, mvars, gvars >>
       \/ part = "agents" /\ AgentMeshNext
          /\ UNCHANGED << avars, bvars, lvars, svars, ivars, prvars, gvars >>
       \/ part = "gossip" /\ GossipNext
          /\ UNCHANGED << avars, bvars, lvars, svars, ivars, prvars, mvars >>

Spec == Init /\ [][Next]_coordinatorVars
=============================================================================

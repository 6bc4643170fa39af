------------------------------ MODULE MCDevices ------------------------------
(***************************************************************************)
(* The machines of the swarm's users side by side: the agent's loop when   *)
(* the coordinator is gone and tasks leave over Bluetooth, the credits     *)
(* that such tasks and others earn and cost, the phone's models, Bluetooth *)
(* manager and runtime, the editor's Bluetooth proxy, the agents' own mesh *)
(* (its peer tables, and the subtasks offered over it), the desktop's      *)
(* agent and its chat.  A behaviour is one of one part; TLC explores their       *)
(* union.                                                                  *)
(***************************************************************************)
EXTENDS BleOutbound, Credits, IosBle, IosRuntime, IdeBle, MeshPeer, Desktop, ChatPanel, TLC

CONSTANTS p1, p2, t1, t2, a1, a2, i1, c1, c2, c3, q1, q2, o1, w1, w2, b1, b2

VARIABLE part

deviceVars == << blevars, cvars, mmvars, ibvars, ipvars, jvars, mpvars, mwvars, devars, cpvars, part >>

MCTarget == t1 :> p1 @@ t2 :> p2
MCSeedOf == a1 :> a1 @@ a2 :> a1 @@ i1 :> a1
MCOwnedBy == w1 :> o1
MCRequester == (b1 :> w2) @@ (b2 :> w1)
MCProvider == (b1 :> w1) @@ (b2 :> w2)

Init ==
    /\ part \in {"outbound", "credits", "models", "phone", "runtime", "proxy", "peers", "work", "desktop", "chat"}
    /\ BleInit /\ CreditsInit /\ IosModelsInit /\ IosBleInit /\ IosRuntimeInit
    /\ IdeBleInit /\ MeshPeerInit /\ MeshWorkInit /\ DesktopInit /\ ChatPanelInit
    /\ part # "credits" => ~usesPg
    /\ part # "chat" => ~editor /\ convs = 0

Next ==
    /\ UNCHANGED part
    /\ \/ part = "outbound" /\ BleNext
          /\ UNCHANGED << cvars, mmvars, ibvars, ipvars, jvars, mpvars, mwvars, devars, cpvars >>
       \/ part = "credits" /\ CreditsNext
          /\ UNCHANGED << blevars, mmvars, ibvars, ipvars, jvars, mpvars, mwvars, devars, cpvars >>
       \/ part = "models" /\ IosModelsNext
          /\ UNCHANGED << cvars, blevars, ibvars, ipvars, jvars, mpvars, mwvars, devars, cpvars >>
       \/ part = "phone" /\ IosBleNext
          /\ UNCHANGED << cvars, blevars, mmvars, ipvars, jvars, mpvars, mwvars, devars, cpvars >>
       \/ part = "runtime" /\ IosRuntimeNext
          /\ UNCHANGED << cvars, blevars, mmvars, ibvars, jvars, mpvars, mwvars, devars, cpvars >>
       \/ part = "proxy" /\ IdeBleNext
          /\ UNCHANGED << cvars, blevars, mmvars, ibvars, ipvars, mpvars, mwvars, devars, cpvars >>
       \/ part = "peers" /\ MeshPeerNext
          /\ UNCHANGED << cvars, blevars, mmvars, ibvars, ipvars, jvars, mwvars, devars, cpvars >>
       \/ part = "work" /\ MeshWorkNext
          /\ UNCHANGED << cvars, blevars, mmvars, ibvars, ipvars, jvars, mpvars, devars, cpvars >>
       \/ part = "desktop" /\ DesktopNext
          /\ UNCHANGED << cvars, blevars, mmvars, ibvars, ipvars, jvars, mpvars, mwvars, cpvars >>
       \/ part = "desktop" /\ session = MaxSessions /\ UNCHANGED deviceVars
       \/ part = "chat" /\ ChatPanelNext
          /\ UNCHANGED << cvars, blevars, mmvars, ibvars, ipvars, jvars, mpvars, mwvars, devars >>

Spec == Init /\ [][Next]_deviceVars
=============================================================================

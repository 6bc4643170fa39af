------------------------------ MODULE MCServices ------------------------------
(***************************************************************************)
(* The services around the swarm side by side: admission of agents by the  *)
(* coordinators, the control plane's rollouts, the handshake server, the   *)
(* inference service, the agent's loop over a task, the portal's chat      *)
(* page, and on the developer's machine the model router, the coding agent *)
(* and the local models.  A behaviour is one of one part; TLC explores     *)
(* their union.                                                            *)
(***************************************************************************)
EXTENDS Admission, ControlPlane, Handshake, Inference, Router, IdeAgent, AgentLoop, WebChat

CONSTANTS x1, x2, x3, k1, k2, q1, q2, q3, h1, h2

MCMaxIter == [t \in {q1, q2} |-> IF t = q1 THEN 2 ELSE 3]

VARIABLE part

serviceVars == << dvars, cvars, hvars, nvars, rvars, ovars, evars, alvars, webvars, part >>

Init ==
    /\ part \in {"admission", "rollouts", "handshake", "inference", "router", "models",
                 "ide", "loop", "page"}
    /\ AdmissionInit /\ ControlPlaneInit /\ HandshakeInit /\ InferenceInit
    /\ RouterInit /\ ModelsInit /\ IdeInit /\ AgentLoopInit /\ WebChatInit
    /\ part # "inference" => \A n \in Signed : stamp[n] = 0
    /\ part # "page" => Present(titles) = {}

Next ==
    /\ UNCHANGED part
    /\ \/ part = "admission" /\ AdmissionNext
          /\ UNCHANGED << cvars, hvars, nvars, rvars, ovars, evars, alvars, webvars >>
       \/ part = "rollouts" /\ ControlPlaneNext
          /\ UNCHANGED << dvars, hvars, nvars, rvars, ovars, evars, alvars, webvars >>
       \/ part = "handshake" /\ HandshakeNext
          /\ UNCHANGED << dvars, cvars, nvars, rvars, ovars, evars, alvars, webvars >>
       \/ part = "inference" /\ InferenceNext
          /\ UNCHANGED << dvars, cvars, hvars, rvars, ovars, evars, alvars, webvars >>
       \/ part = "router" /\ RouterNext
          /\ UNCHANGED << dvars, cvars, hvars, nvars, ovars, evars, alvars, webvars >>
       \/ part = "models" /\ ModelsNext
          /\ UNCHANGED << dvars, cvars, hvars, nvars, rvars, evars, alvars, webvars >>
       \/ part = "ide" /\ IdeNext
          /\ UNCHANGED << dvars, cvars, hvars, nvars, rvars, ovars, alvars, webvars >>
       \/ part = "loop" /\ AgentLoopNext
          /\ UNCHANGED << dvars, cvars, hvars, nvars, rvars, ovars, evars, webvars >>
       \/ part = "page" /\ WebChatNext
          /\ UNCHANGED << dvars, cvars, hvars, nvars, rvars, ovars, evars, alvars >>

Spec == Init /\ [][Next]_serviceVars
=============================================================================

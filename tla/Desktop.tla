------------------------------- MODULE Desktop -------------------------------
(***************************************************************************)
(* The desktop application (src-tauri/src/main.rs).  It starts the agent,  *)
(* a node process that serves port 4301 under the token of the session,    *)
(* watches it from a thread that restarts it a bounded number of times,    *)
(* and kills it when the window is destroyed; sessions of the application  *)
(* follow each other.  The window's commands share no state with it: they  *)
(* run one after another on the main thread and are not modelled.          *)
(***************************************************************************)
EXTENDS Naturals

CONSTANTS
    MaxAgents, MaxSessions, \* bounds on the agent processes spawned and on sessions
    MaxRestarts,    \* MAX_RESTARTS
    NoAgent

ASSUME DesktopAssumption == {MaxAgents, MaxSessions, MaxRestarts} \subseteq Nat /\ NoAgent \notin Nat

VARIABLES
    spawned,     \* agent processes spawned so far: 1 .. spawned
    living,      \* those that run
    ofSession,   \* the session that spawned each of them
    port,        \* the process that serves :4301, or NoAgent
    session, window,  \* the number of the session; "open" or "closed"
    child,       \* AgentProcess
    watch,       \* the monitor: "off", "sleeping", "pausing" (3 s), "spawned" or "ended"
    spawning,    \* the process spawned and not yet stored
    restarts

devars == << spawned, living, ofSession, port, session, window, child, watch, spawning, restarts >>

DesktopInit ==
    /\ spawned = 0 /\ living = {} /\ ofSession = [p \in 1..MaxAgents |-> 0] /\ port = NoAgent
    /\ session = 0 /\ window = "closed" /\ child = NoAgent /\ watch = "off" /\ spawning = NoAgent /\ restarts = 0

-----------------------------------------------------------------------------
(* spawn_agent_process; node may not be found.                             *)
Spawn(p, s) == /\ p = spawned + 1 /\ p <= MaxAgents /\ spawned' = p /\ living' = living \union {p}
               /\ ofSession' = [ofSession EXCEPT ![p] = s]

(* setup: start_agent and monitor_agent.  With someone on the port, or     *)
(* with no agent installed, there is no agent and no monitor.              *)
OpenWindow ==
    /\ window = "closed" /\ session' = session + 1 /\ window' = "open" /\ restarts' = 0 /\ spawning' = NoAgent
    /\ \/ port # NoAgent /\ child' = NoAgent /\ watch' = "off" /\ UNCHANGED << spawned, living, ofSession >>
       \/ port = NoAgent /\ watch' = "sleeping" /\ \E p \in 1..MaxAgents : Spawn(p, session + 1) /\ child' = p
       \/ /\ port = NoAgent /\ watch' \in {"sleeping", "off"} /\ child' = NoAgent
          /\ UNCHANGED << spawned, living, ofSession >>
    /\ UNCHANGED port

(* WindowEvent::Destroyed, and the application ends with its threads.      *)
CloseWindow ==
    /\ window = "open" /\ session < MaxSessions /\ window' = "closed" /\ watch' = "off"
    /\ living' = living \ {child} /\ port' = IF port = child THEN NoAgent ELSE port
    /\ UNCHANGED << spawned, ofSession, session, child, spawning, restarts >>

(* The agent: it binds the port, or ends because the port is taken; it may *)
(* end at any time.                                                        *)
AgentBinds(p) == /\ p \in living /\ port = NoAgent /\ port' = p
                 /\ UNCHANGED << spawned, living, ofSession, session, window, child, watch, spawning, restarts >>

AgentEnds(p) == /\ p \in living /\ living' = living \ {p} /\ port' = IF port = p THEN NoAgent ELSE port
                /\ UNCHANGED << spawned, ofSession, session, window, child, watch, spawning, restarts >>

(* Faulty variant of Exited: a child that is still running counts too.     *)
ExitedOrNot == child # NoAgent

(* child.try_wait() in the monitor.                                        *)
Exited == child # NoAgent /\ child \notin living

GivesUp == restarts >= MaxRestarts

MonitorSees ==
    /\ watch = "sleeping" /\ Exited /\ child' = NoAgent
    /\ watch' = IF GivesUp THEN "ended" ELSE "pausing"
    /\ UNCHANGED << spawned, living, ofSession, port, session, window, spawning, restarts >>

(* The port is in use: back to the loop, with no child to watch.           *)
MonitorSkips ==
    /\ watch = "pausing" /\ port # NoAgent /\ watch' = "sleeping"
    /\ UNCHANGED << spawned, living, ofSession, port, session, window, child, spawning, restarts >>

MonitorSpawns ==
    /\ watch = "pausing" /\ port = NoAgent /\ watch' = "spawned"
    /\ \/ \E p \in 1..MaxAgents : Spawn(p, session) /\ spawning' = p
       \/ UNCHANGED << spawned, living, ofSession, spawning >>
    /\ UNCHANGED << port, session, window, child, restarts >>

(* The new child is stored under the lock after it was spawned.            *)
MonitorStores ==
    /\ watch = "spawned" /\ watch' = "sleeping"
    /\ child' = spawning /\ spawning' = NoAgent /\ restarts' = restarts + 1
    /\ UNCHANGED << spawned, living, ofSession, port, session, window >>

DesktopNext ==
    \/ OpenWindow \/ CloseWindow \/ MonitorSees \/ MonitorSkips \/ MonitorSpawns \/ MonitorStores
    \/ \E p \in living : AgentBinds(p) \/ AgentEnds(p)

DesktopSpec == DesktopInit /\ [][DesktopNext]_devars

-----------------------------------------------------------------------------
(* While the window is open, the agents this session spawned and that run  *)
(* are the one child the closing of the window will kill, or the one that  *)
(* the monitor is about to store: restarts never leave a second agent.     *)
OneAgentHeld == window = "open" =>
    \A p \in living : ofSession[p] = session => p \in {child, spawning}
=============================================================================

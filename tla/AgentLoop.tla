------------------------------ MODULE AgentLoop ------------------------------
(***************************************************************************)
(* An agent's loop over one task (agent/base.ts): plan, write code, run it *)
(* in a sandbox, and on failure reflect and try again.  Code is run only   *)
(* after the subset check (executor/subset.ts), whose Python half is a     *)
(* process of its own, and then on the host or in a container              *)
(* (executor/run.ts, executor/docker-sandbox.ts).  A timer kills what runs *)
(* too long; of a container it kills the docker client, and the container, *)
(* which is Docker's, goes on.  Texts of plans and of code are left out:   *)
(* the code of a task's k-th iteration is the pair of task and k.          *)
(***************************************************************************)
EXTENDS Naturals, Sequences

CONSTANTS
    LoopTasks,   \* tasks given to the agent's processes
    DockerTasks, \* those of them given to a swarm worker, which needs Docker
    MaxIter      \* iterations of each task: 2 for a worker, 3 for the editor's agent

ASSUME AgentLoopAssumption ==
    /\ DockerTasks \subseteq LoopTasks
    /\ MaxIter \in [LoopTasks -> Nat \ {0}]

(* What a run came to: code outside the subset, no Docker, exit code 0, a  *)
(* failure, killed by the timer.                                           *)
Outcomes == {"outside", "unavailable", "zero", "failure", "timeout"}

(* Where a task's loop is: awaiting its model or a child process.          *)
Stages == {"idle", "plan", "code", "reflect", "check", "info", "run", "done", "failed"}

VARIABLES
    doing,   \* what each task waits for
    lang,    \* its language
    history, \* outcomes of its iterations
    checked,  \* its iterations whose code passed the check
    procs,   \* children that are alive: validators, interpreters, docker clients, containers
    report   \* what the loop returned

alvars == << doing, lang, history, checked, procs, report >>

NoReport == [ok |-> FALSE, reason |-> "none"]

AgentLoopInit ==
    /\ doing = [t \in LoopTasks |-> "idle"]
    /\ lang = [t \in LoopTasks |-> "python"]
    /\ history = [t \in LoopTasks |-> << >>]
    /\ checked = [t \in LoopTasks |-> {}]
    /\ procs = {}
    /\ report = [t \in LoopTasks |-> NoReport]

Iteration(t) == Len(history[t]) + 1
Child(t, kind) == [task |-> t, iteration |-> Iteration(t), kind |-> kind]
Becomes(t, s) == doing' = [doing EXCEPT ![t] = s]

-----------------------------------------------------------------------------

(* Faulty variant of QueuedForCloud: what was killed is tried again.       *)
QueuedForCloudOutside == {"outside"}

(* The outcomes that end the loop at once, and what it reports for them.   *)
QueuedForCloud == {"outside", "timeout"}

ReasonFor(o) ==
    CASE o = "zero" -> "none"
      [] o = "outside" -> "outside_subset"
      [] o = "timeout" -> "timeout"
      [] OTHER -> "max_iterations_exhausted"

(* The run of this iteration came to o: it ends the loop, or the model is  *)
(* asked to mend the code.                                                 *)
Conclude(t, o) ==
    /\ history' = [history EXCEPT ![t] = Append(@, o)]
    /\ IF o = "zero" \/ o \in QueuedForCloud \/ Iteration(t) >= MaxIter[t]
       THEN /\ Becomes(t, "done")
            /\ report' = [report EXCEPT ![t] = [ok |-> o = "zero", reason |-> ReasonFor(o)]]
       ELSE Becomes(t, "reflect") /\ UNCHANGED report

(* A task arrives: the model is asked for a plan.                          *)
TakeTask(t, l) ==
    /\ doing[t] = "idle"
    /\ Becomes(t, "plan")
    /\ lang' = [lang EXCEPT ![t] = l]
    /\ UNCHANGED << history, checked, procs, report >>

Planned(t) ==
    /\ doing[t] = "plan"
    /\ Becomes(t, "code")
    /\ UNCHANGED << lang, history, checked, procs, report >>

(* The model cannot be asked: the exception leaves the loop.               *)
ModelFails(t) ==
    /\ doing[t] \in {"plan", "code", "reflect"}
    /\ Becomes(t, "failed")
    /\ UNCHANGED << lang, history, checked, procs, report >>

-----------------------------------------------------------------------------

(* The checked code is run: in Docker once docker info has answered, in a  *)
(* Python process, or, JavaScript on the host, here and now within the     *)
(* timer of the engine.                                                    *)
Execute(t, children) ==
    /\ checked' = [checked EXCEPT ![t] = @ \union {Iteration(t)}]
    /\ \/ /\ t \in DockerTasks
          /\ Becomes(t, "info") /\ procs' = children \union {Child(t, "info")}
          /\ UNCHANGED << history, report >>
       \/ /\ t \notin DockerTasks /\ lang[t] = "python"
          /\ Becomes(t, "run") /\ procs' = children \union {Child(t, "python")}
          /\ UNCHANGED << history, report >>
       \/ /\ t \notin DockerTasks /\ lang[t] = "javascript"
          /\ \E o \in {"zero", "failure", "timeout"} : Conclude(t, o)
          /\ procs' = children

(* A denied pattern, or JavaScript that does not parse or holds a node or  *)
(* a name that is not allowed.                                             *)
RefusedAtOnce(t) == Conclude(t, "outside") /\ UNCHANGED << checked, procs >>

(* The model's code: the denied patterns are looked for, then JavaScript   *)
(* is parsed and Python given to a validator.                              *)
Written(t) ==
    /\ doing[t] \in {"code", "reflect"}
    /\ \/ RefusedAtOnce(t)
       \/ lang[t] = "javascript" /\ Execute(t, procs)
       \/ /\ lang[t] = "python"
          /\ Becomes(t, "check") /\ procs' = procs \union {Child(t, "validator")}
          /\ UNCHANGED << history, checked, report >>
    /\ UNCHANGED lang

(* The validator has printed what it found, or nothing it can be read by.  *)
Validated(t, safe) ==
    /\ doing[t] = "check"
    /\ IF safe
       THEN Execute(t, procs \ {Child(t, "validator")})
       ELSE Conclude(t, "outside") /\ procs' = procs \ {Child(t, "validator")} /\ UNCHANGED checked
    /\ UNCHANGED lang

(* The validator took five seconds: it is killed, the code refused.        *)
ValidationTimesOut(t) == Validated(t, FALSE)

(* docker info has ended, or could not be started.                         *)
DockerAnswers(t, available) ==
    /\ doing[t] = "info"
    /\ IF available
       THEN /\ Becomes(t, "run")
            /\ procs' = (procs \ {Child(t, "info")}) \union {Child(t, "client")}
            /\ UNCHANGED << history, report >>
       ELSE Conclude(t, "unavailable") /\ procs' = procs \ {Child(t, "info")}
    /\ UNCHANGED << lang, checked >>

(* Docker starts the container a client asked for.  External.              *)
ContainerStarts(t) ==
    /\ Child(t, "client") \in procs
    /\ procs' = procs \union {Child(t, "container")}
    /\ UNCHANGED << doing, lang, history, checked, report >>

(* A child that nobody waits for any more ends: the container of a killed *)
(* client, or what the agent's process left behind when it died.           *)
ChildEnds(c) ==
    /\ c \in procs /\ doing[c.task] \in {"done", "failed"}
    /\ procs' = procs \ {c}
    /\ UNCHANGED << doing, lang, history, checked, report >>

Runs(t) == {Child(t, "python"), Child(t, "client")}

(* The child closes before the timer: its exit code decides.  A client     *)
(* closes when its container does.                                         *)
ChildCloses(t, o) ==
    /\ doing[t] = "run"
    /\ Conclude(t, o)
    /\ procs' = procs \ (Runs(t) \union {Child(t, "container")})
    /\ UNCHANGED << lang, checked >>

(* The timer: the child is killed, and with a client its container stays.  *)
RunTimesOut(t) ==
    /\ doing[t] = "run"
    /\ Conclude(t, "timeout")
    /\ procs' = procs \ Runs(t)
    /\ UNCHANGED << lang, checked >>

(* Without python3 the error of the spawned child has no listener: the     *)
(* agent's process dies with all its loops.  Their other children stay.    *)
PythonMissing(t) ==
    /\ \/ doing[t] = "check"
       \/ doing[t] = "run" /\ t \notin DockerTasks
    /\ doing' = [u \in LoopTasks |-> IF doing[u] \in {"idle", "done"} THEN doing[u] ELSE "failed"]
    /\ procs' = procs \ {Child(t, "validator"), Child(t, "python")}
    /\ UNCHANGED << lang, history, checked, report >>

(* All loops are over: the agent waits for the next task.                  *)
LoopsAreOver ==
    /\ procs = {} /\ \A t \in LoopTasks : doing[t] \in {"done", "failed"}
    /\ UNCHANGED alvars

AgentLoopNext ==
    \/ LoopsAreOver
    \/ \E t \in LoopTasks, l \in {"python", "javascript"} : TakeTask(t, l)
    \/ \E t \in LoopTasks :
          \/ Planned(t) \/ ModelFails(t) \/ Written(t)
          \/ ValidationTimesOut(t) \/ ContainerStarts(t) \/ RunTimesOut(t) \/ PythonMissing(t)
    \/ \E t \in LoopTasks, b \in BOOLEAN : Validated(t, b) \/ DockerAnswers(t, b)
    \/ \E t \in LoopTasks, o \in {"zero", "failure"} : ChildCloses(t, o)
    \/ \E c \in procs : ChildEnds(c)

AgentLoopSpec == AgentLoopInit /\ [][AgentLoopNext]_alvars

-----------------------------------------------------------------------------

AgentLoopTypeOK ==
    /\ doing \in [LoopTasks -> Stages]
    /\ lang \in [LoopTasks -> {"python", "javascript"}]
    /\ history \in [LoopTasks -> Seq(Outcomes)]
    /\ checked \in [LoopTasks -> SUBSET Nat]
    /\ procs \subseteq [task : LoopTasks, iteration : Nat,
                        kind : {"validator", "info", "python", "client", "container"}]
    /\ report \in [LoopTasks -> [ok : BOOLEAN,
          reason : {"none", "outside_subset", "timeout", "max_iterations_exhausted"}]]

RunsCode(p) == p.kind \in {"python", "client", "container"}

(* Whatever a task's loop has left running, the code is that of one        *)
(* iteration of it and has passed the check: a timed out container may go  *)
(* on, so the loop must not start another attempt beside it (the return on *)
(* queueForCloud in runWithRetry).                                         *)
OneAttemptRuns ==
    /\ \A p \in procs : RunsCode(p) => p.iteration \in checked[p.task]
    /\ \A p, q \in procs : RunsCode(p) /\ RunsCode(q) /\ p.task = q.task => p.iteration = q.iteration
=============================================================================

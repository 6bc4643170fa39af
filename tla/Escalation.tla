----------------------------- MODULE Escalation -----------------------------
(***************************************************************************)
(* Escalation of tasks a worker could not solve: POST /escalate of the     *)
(* coordinator (swarm/coordinator.ts) tries the local model, the inference *)
(* service, and the EscalationResolver (escalation/server.ts), which tries *)
(* the parent coordinator and the cloud with retries and leaves the rest   *)
(* to a human (escalation/human-store.ts).  Clients poll GET               *)
(* /escalate/:taskId; the resolver's callback and the portal's review page *)
(* write to the same store, as does a second request for the same task.    *)
(***************************************************************************)
EXTENDS Naturals, FiniteSets

CONSTANTS
    Tasks,        \* task ids
    Backends,     \* configured backends of the resolver, within {"parent", "cloud"}
    MaxRetries,   \* maxRetries of the resolver
    MaxRequests   \* bound on the requests

ASSUME EscalationAssumption ==
    Backends \subseteq {"parent", "cloud"} /\ MaxRetries \in Nat /\ MaxRequests \in Nat

VARIABLES
    escalations,   \* escalationStore of the coordinator
    requests,      \* POST /escalate requests under way
    humans,        \* the human-escalation Map of each process
    nreqs          \* requests so far

evars == << escalations, requests, humans, nreqs >>

EscalationStatuses == {"none", "pending", "processing", "completed", "failed", "pending_human"}

StoreStatus(t, status) == escalations' = [escalations EXCEPT ![t] = status]

(* The request goes on to another stage, or is over.                       *)
Goes(r, stage) ==
    requests' = (requests \ {r}) \union {[r EXCEPT !.stage = stage, !.attempt = 0]}
Answers(r) == requests' = requests \ {r}

(* createHumanEscalation, in the Map of one process.                       *)
CreateHuman(process, entry) == humans' = [humans EXCEPT ![process] = @ \union {entry}]

EscalationInit ==
    /\ escalations = [t \in Tasks |-> "none"]
    /\ requests = {}
    /\ humans = [coordinator |-> {}, portal |-> {}]
    /\ nreqs = 0

-----------------------------------------------------------------------------
(* POST /escalate marks the task as processing, whatever it was before.    *)
Escalate(t) ==
    /\ nreqs < MaxRequests /\ nreqs' = nreqs + 1
    /\ requests' = requests \union
         {[id |-> nreqs, task |-> t, stage |-> "local", attempt |-> 0, failed |-> {}]}
    /\ StoreStatus(t, "processing")
    /\ UNCHANGED humans

(* The model next to the coordinator, when one is configured, answers with *)
(* code.                                                                   *)
LocalSolves(r) ==
    /\ r \in requests /\ r.stage = "local"
    /\ StoreStatus(r.task, "completed")
    /\ Answers(r)
    /\ UNCHANGED << humans, nreqs >>

(* It is not configured, fails, or answers without code.                   *)
LocalFails(r) ==
    /\ r \in requests /\ r.stage = "local"
    /\ Goes(r, "inference")
    /\ UNCHANGED << escalations, humans, nreqs >>

(* Any 2xx of the inference service completes the task, code or not.       *)
InferenceSolves(r) ==
    /\ r \in requests /\ r.stage = "inference"
    /\ StoreStatus(r.task, "completed")
    /\ Answers(r)
    /\ UNCHANGED << humans, nreqs >>

(* Where the resolver begins and what comes after a backend.               *)
FirstBackend == IF "parent" \in Backends THEN "parent"
                ELSE IF "cloud" \in Backends THEN "cloud" ELSE "human"
AfterBackend(b) == IF b = "parent" /\ "cloud" \in Backends THEN "cloud" ELSE "human"

(* Faulty variant of InferenceFails: an error answer ends the request.     *)
InferenceFailsReturns(r) ==
    /\ r \in requests /\ r.stage = "inference"
    /\ Answers(r)
    /\ UNCHANGED << escalations, humans, nreqs >>

InferenceFails(r) ==
    /\ r \in requests /\ r.stage = "inference"
    /\ Goes(r, FirstBackend)
    /\ UNCHANGED << escalations, humans, nreqs >>

(* resolve: a backend completed the task.  notifyCallback posts the same   *)
(* result to /escalate/:taskId/result before the handler stores it.        *)
BackendSolves(r) ==
    /\ r \in requests /\ r.stage \in Backends
    /\ StoreStatus(r.task, "completed")
    /\ Answers(r)
    /\ UNCHANGED << humans, nreqs >>

(* withRetry: an attempt throws and another one is left.                   *)
AttemptFails(r) ==
    /\ r \in requests /\ r.stage \in Backends /\ r.attempt < MaxRetries
    /\ requests' = (requests \ {r}) \union {[r EXCEPT !.attempt = @ + 1]}
    /\ UNCHANGED << escalations, humans, nreqs >>

(* The last attempt throws, or one comes back with another status than     *)
(* completed: the next backend.                                            *)
BackendFails(r) ==
    /\ r \in requests /\ r.stage \in Backends
    /\ requests' = (requests \ {r}) \union
         {[r EXCEPT !.stage = AfterBackend(r.stage), !.attempt = 0, !.failed = @ \union {r.stage}]}
    /\ UNCHANGED << escalations, humans, nreqs >>

(* Nobody solved it: createHumanEscalation, in the memory of this process. *)
(* The callback is refused (its schema lacks pending_human), the handler   *)
(* stores the status itself.                                               *)
ToHuman(r) ==
    /\ r \in requests /\ r.stage = "human"
    /\ CreateHuman("coordinator", [id |-> r.id, task |-> r.task, automatedAttempts |-> r.failed])
    /\ StoreStatus(r.task, "pending_human")
    /\ Answers(r)
    /\ UNCHANGED nreqs

(* POST /escalate/:taskId/result by the portal, which forwards a decision  *)
(* of the review page: accept and edit complete the task, reject fails it. *)
ReviewDecision(t, status) ==
    /\ escalations[t] # "none"
    /\ StoreStatus(t, status)
    /\ UNCHANGED << requests, humans, nreqs >>

(* The coordinator restarts: all of this is memory.                        *)
CoordinatorRestart ==
    /\ escalations' = [t \in Tasks |-> "none"]
    /\ requests' = {}
    /\ humans' = [humans EXCEPT !.coordinator = {}]
    /\ UNCHANGED nreqs

(* GET /portal/api/escalations: listHumanEscalations of the portal process.*)
PortalEscalations == humans.portal

EscalationNext ==
    \/ \E t \in Tasks :
         \/ Escalate(t)
         \/ \E status \in {"completed", "failed"} : ReviewDecision(t, status)
    \/ \E r \in requests :
         \/ LocalSolves(r) \/ LocalFails(r) \/ InferenceSolves(r) \/ InferenceFails(r)
         \/ BackendSolves(r) \/ AttemptFails(r) \/ BackendFails(r) \/ ToHuman(r)
    \/ CoordinatorRestart

EscalationSpec == EscalationInit /\ [][EscalationNext]_evars

-----------------------------------------------------------------------------
(* A client polls as long as a task is "processing": whatever requests,    *)
(* callbacks and decisions overlap on a task, while it says so some request*)
(* is at work on it and will write its outcome.                            *)
ProcessingHasRequest ==
    \A t \in Tasks : escalations[t] = "processing" => \E r \in requests : r.task = t

=============================================================================

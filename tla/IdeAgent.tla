------------------------------- MODULE IdeAgent -------------------------------
(***************************************************************************)
(* The agent of the IDE (apps/ide/provider-server.ts, /v1/ide): a chat     *)
(* asks the model, carries out the tool calls in its answer, of which      *)
(* those that change something wait for the user's approval, and asks      *)
(* again with their results.  Chats run side by side and share the table   *)
(* of pending approvals and the project (apps/ide/tool-executor.ts).       *)
(***************************************************************************)
EXTENDS Naturals, FiniteSets, Sequences, SequencesExt

CONSTANTS
    Chats,         \* chats
    MaxIterations, \* MAX_ITERATIONS
    MaxBlocks      \* bound on the blocks of an answer

ASSUME IdeAssumption == MaxIterations \in Nat \ {0} /\ MaxBlocks \in Nat

VARIABLES
    root,     \* a project root is set
    chat,     \* what each chat is doing
    pending,  \* pendingApprovals: ids of tool calls
    file,     \* the edits a file of the project shows
    ran,      \* calls of changing tools that were carried out (history)
    approved, \* calls whose approval was answered with success (history)
    dropped   \* calls rejected by the end of a connection, and whose (history)

evars == << root, chat, pending, file, ran, approved, dropped >>

(* READ_TOOLS: reading, listing, searching, git status, diff, log, fetch   *)
(* and the lists of GitHub.  The others edit the project, or act on        *)
(* something outside it, once approved.                                    *)
ReadTools == {"read"}
WriteTools == {"edit", "act"}

(* The blocks of an answer: plans, tool calls, calls that do not parse.    *)
Blocks == UNION {[1 .. n -> ReadTools \union WriteTools \union {"plan", "malformed"}] : n \in 0 .. MaxBlocks}

IdleChat == [at |-> "idle", connected |-> FALSE, iteration |-> 0, blocks |-> << >>, had |-> FALSE,
             calls |-> 0, seen |-> {}]

IdeInit ==
    /\ root = FALSE /\ chat = [c \in Chats |-> IdleChat] /\ pending = {}
    /\ file = {} /\ ran = {} /\ approved = {} /\ dropped = {}

SetProject ==
    /\ root' = TRUE
    /\ UNCHANGED << chat, pending, file, ran, approved, dropped >>

CallOf(c) == << c, chat[c].calls >>
At(c, where) == chat[c].at = where
Goes_(c, new) == chat' = [chat EXCEPT ![c] = new]

(* POST /v1/ide/chat.                                                      *)
ChatArrives(c) ==
    /\ root /\ At(c, "idle")
    /\ Goes_(c, [IdleChat EXCEPT !.at = "model", !.connected = TRUE])
    /\ UNCHANGED << root, pending, file, ran, approved, dropped >>

(* The model's answer is cut into blocks; an answer without any, an empty  *)
(* one, or none ends the chat.  Nobody need be listening any more.         *)
ModelSays(c, blocks) ==
    /\ At(c, "model")
    /\ Goes_(c, IF blocks = << >> THEN [chat[c] EXCEPT !.at = "done"]
                 ELSE [chat[c] EXCEPT !.at = "blocks", !.blocks = blocks, !.had = FALSE,
                                      !.iteration = @ + 1])
    /\ UNCHANGED << root, pending, file, ran, approved, dropped >>

(* Plans are shown, bad calls reported, reading tools run at once.         *)
PassBlock(c) ==
    /\ At(c, "blocks") /\ chat[c].blocks # << >>
    /\ Head(chat[c].blocks) \notin WriteTools
    /\ Goes_(c, [chat[c] EXCEPT !.blocks = Tail(@), !.had = @ \/ Head(chat[c].blocks) # "plan"])
    /\ UNCHANGED << root, pending, file, ran, approved, dropped >>

(* A changing tool waits for its approval.                                 *)
AskApproval(c) ==
    /\ At(c, "blocks") /\ chat[c].blocks # << >> /\ Head(chat[c].blocks) \in WriteTools
    /\ Goes_(c, [chat[c] EXCEPT !.at = "waiting", !.had = TRUE, !.calls = @ + 1])
    /\ pending' = pending \union {<< c, chat[c].calls + 1 >>}
    /\ UNCHANGED << root, file, ran, approved, dropped >>

(* The promise of a call is resolved; only the first time counts.          *)
Resolved(ids, ok) ==
    [c \in Chats |-> IF At(c, "waiting") /\ CallOf(c) \in ids
                     THEN [chat[c] EXCEPT !.at = IF ok THEN "run" ELSE "blocks", !.blocks = IF ok THEN @ ELSE Tail(@)]
                     ELSE chat[c]]

(* POST /v1/ide/tool-approval.                                             *)
ToolApproval(id, ok) ==
    /\ id \in pending /\ pending' = pending \ {id}
    /\ chat' = Resolved({id}, ok)
    /\ approved' = IF ok THEN approved \union {id} ELSE approved
    /\ UNCHANGED << root, file, ran, dropped >>

(* Faulty variant of TimesOut: the entry stays in the table.               *)
TimesOutKept(id) ==
    /\ id \in pending /\ chat' = Resolved({id}, FALSE)
    /\ UNCHANGED << root, pending, file, ran, approved, dropped >>

(* Nobody answers for five minutes.                                        *)
TimesOut(id) ==
    /\ id \in pending /\ pending' = pending \ {id}
    /\ chat' = Resolved({id}, FALSE)
    /\ UNCHANGED << root, file, ran, approved, dropped >>

(* The connection of a chat ends: every entry of the table is rejected.    *)
Disconnect(c) ==
    /\ chat[c].connected
    /\ pending' = {}
    /\ chat' = [Resolved(pending, FALSE) EXCEPT ![c].connected = FALSE]
    /\ dropped' = dropped \union {<< id[1], c >> : id \in pending}
    /\ UNCHANGED << root, file, ran, approved >>

(* execute: an edit reads the file and writes it back; anything else is    *)
(* one act, a commit, a push, a shell command, a pull request.             *)
EditReads(c) ==
    /\ At(c, "run") /\ Head(chat[c].blocks) = "edit"
    /\ Goes_(c, [chat[c] EXCEPT !.at = "write", !.seen = file])
    /\ UNCHANGED << root, pending, file, ran, approved, dropped >>

EditWrites(c) ==
    /\ At(c, "write")
    /\ file' = chat[c].seen \union {CallOf(c)} /\ ran' = ran \union {CallOf(c)}
    /\ Goes_(c, [chat[c] EXCEPT !.at = "blocks", !.blocks = Tail(@)])
    /\ UNCHANGED << root, pending, approved, dropped >>

Acts(c) ==
    /\ At(c, "run") /\ Head(chat[c].blocks) = "act"
    /\ ran' = ran \union {CallOf(c)}
    /\ Goes_(c, [chat[c] EXCEPT !.at = "blocks", !.blocks = Tail(@)])
    /\ UNCHANGED << root, pending, file, approved, dropped >>

(* All blocks done: the results go to the model, unless there were none,   *)
(* the chat has had its iterations, or its connection has ended.           *)
AskAgain(c) ==
    /\ At(c, "blocks") /\ chat[c].blocks = << >>
    /\ Goes_(c, [chat[c] EXCEPT !.at = IF /\ chat[c].had /\ chat[c].iteration < MaxIterations
                                         /\ chat[c].connected
                                      THEN "model" ELSE "done"])
    /\ UNCHANGED << root, pending, file, ran, approved, dropped >>

IdeNext ==
    \/ SetProject
    \/ \E c \in Chats : ChatArrives(c) \/ PassBlock(c) \/ AskApproval(c) \/ Disconnect(c)
                        \/ EditReads(c) \/ EditWrites(c) \/ Acts(c) \/ AskAgain(c)
    \/ \E c \in Chats : \E blocks \in Blocks : ModelSays(c, blocks)
    \/ \E id \in pending : TimesOut(id) \/ \E ok \in BOOLEAN : ToolApproval(id, ok)

IdeSpec == IdeInit /\ [][IdeNext]_evars

-----------------------------------------------------------------------------

(* An approval that was answered with success takes effect: the call was   *)
(* carried out or is about to be.  A timeout or a lost connection before   *)
(* it makes the approval fail.                                             *)
ApprovalTakesEffect ==
    \A id \in approved : id \in ran \/ (chat[id[1]].at \in {"run", "write"} /\ CallOf(id[1]) = id)

(* "Clean up any pending approvals for this request": the end of a         *)
(* connection rejects only calls of its own chat.                          *)
OwnApprovalsOnly == \A d \in dropped : d[1] = d[2]
=============================================================================

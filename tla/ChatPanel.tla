------------------------------ MODULE ChatPanel ------------------------------
(***************************************************************************)
(* A chat of the desktop app: the chat tab (pages/ChatView.svelte) or the  *)
(* one beside the editor (components/EditorChatPanel.svelte), which are    *)
(* the same machine but for two details, the sidebar that deletes          *)
(* conversations (components/ConversationSidebar.svelte), and the          *)
(* conversations they keep in IndexedDB (lib/chat-store.ts).  Every await  *)
(* in a handler lets others run, and all handlers of a panel work on the   *)
(* one variable "conversation" and the one "abortController".  A panel is  *)
(* mounted when the user signs in and unmounted at sign-out; handlers of   *)
(* an unmounted panel go on.  A message is the question it belongs to and  *)
(* its role; titles and their renaming, texts and tool events are left out.*)
(***************************************************************************)
EXTENDS Naturals

CONSTANTS
    Questions,   \* what the user asks
    NoQuestion,
    MaxConvs,    \* conversations that are created
    MaxMounts    \* how often the panel is mounted

ASSUME ChatPanelAssumption == NoQuestion \notin Questions /\ MaxConvs \in Nat \ {0} /\ MaxMounts \in Nat

Panels == 1 .. MaxMounts
ConvIds == 0 .. MaxConvs     \* 0 is no conversation
Roles == {"question", "answer", "error"}
Contents == SUBSET (Questions \X Roles)
OrNoQuestion == Questions \union {NoQuestion}

VARIABLES
    editor,       \* the panel is the editor's
    mounted,      \* the panel on the screen, 0 while signed out
    mounts,       \* panels so far
    convs,        \* conversations created so far
    mounting,     \* panels whose onMount still waits
    remote,       \* panels with usePortalChat
    conversation, \* of each panel: id, messages and the portal's id of it
    streaming,    \* isStreaming of each panel
    abortCtl,     \* abortController of each panel, named after its question
    leaving,      \* where newChat or loadConversation of each panel go to
    aborted,      \* controllers that were aborted
    asking,         \* of each question: where its handler is, on which panel, with whose signal
    stored,       \* conversations in IndexedDB
    db,           \* what is stored of them
    lastId        \* the last conversation, in local storage

cpvars == << editor, mounted, mounts, convs, mounting, remote, conversation, streaming, abortCtl,
             leaving, aborted, asking, stored, db, lastId >>
tab == << editor, mounted, mounts, mounting, remote >>

Created(c) == [id |-> c, messages |-> {}, portal |-> NoQuestion]
Unasked == [at |-> "unasked", panel |-> 0, signal |-> NoQuestion]
NoLeave == [to |-> "stay", id |-> 0]

(* The app starts, for the first time or with a conversation of an earlier *)
(* session, whose messages are left out.                                   *)
ChatPanelInit ==
    /\ editor \in BOOLEAN
    /\ mounted = 0 /\ mounts = 0
    /\ \/ convs = 0 /\ stored = {} /\ lastId = 0
       \/ convs = 1 /\ stored = {1} /\ lastId = 1
    /\ mounting = {} /\ remote = {}
    /\ conversation = [i \in Panels |-> Created(0)]
    /\ streaming = [i \in Panels |-> FALSE]
    /\ abortCtl = [i \in Panels |-> NoQuestion]
    /\ leaving = [i \in Panels |-> NoLeave]
    /\ aborted = {}
    /\ asking = [q \in Questions |-> Unasked]
    /\ db = [c \in ConvIds |-> Created(c)]

-----------------------------------------------------------------------------

(* saveConversation: the whole conversation is put under its id.           *)
Save(v) ==
    /\ stored' = stored \union {v.id}
    /\ db' = [db EXCEPT ![v.id] = v]

SaveIfAny(v) == IF v.messages # {} THEN Save(v) ELSE UNCHANGED << stored, db >>

With(v, q, role) == [v EXCEPT !.messages = @ \union {<< q, role >>}]

(* The finally block of sendMessage: whoever it was that streams.          *)
Finally(i) ==
    /\ streaming' = [streaming EXCEPT ![i] = FALSE]
    /\ abortCtl' = [abortCtl EXCEPT ![i] = NoQuestion]

Over(q) == asking' = [asking EXCEPT ![q] = [@ EXCEPT !.at = "over", !.signal = NoQuestion]]

(* Faulty variant of Catch: the error is shown and the panel left busy.    *)
CatchShows(q) ==
    /\ conversation' = [conversation EXCEPT ![asking[q].panel] = With(@, q, "error")]
    /\ Over(q) /\ UNCHANGED << streaming, abortCtl >>

(* An exception in sendMessage, other than an abort, is shown.             *)
Catch(q) ==
    LET i == asking[q].panel IN
    /\ conversation' = [conversation EXCEPT ![i] = With(@, q, "error")]
    /\ Over(q) /\ Finally(i)

-----------------------------------------------------------------------------

(* The panel is created with an empty conversation; onMount waits for the  *)
(* backend to be found, for up to 20 seconds.                              *)
Mount ==
    /\ mounted = 0 /\ mounts < MaxMounts /\ convs < MaxConvs
    /\ mounts' = mounts + 1 /\ mounted' = mounts + 1 /\ convs' = convs + 1
    /\ mounting' = mounting \union {mounts + 1}
    /\ conversation' = [conversation EXCEPT ![mounts + 1] = Created(convs + 1)]
    /\ UNCHANGED << editor, remote, streaming, abortCtl, leaving, aborted, asking, stored, db, lastId >>

(* The conversations onMount may show instead: the last one, or without it *)
(* the most recent.  The editor's panel looks for the most recent only if  *)
(* there is no last one, the other whenever the one it has is empty.       *)
Restorable(i) ==
    IF lastId \in stored
    THEN {lastId}
    ELSE IF stored # {} /\ (IF editor THEN lastId = 0 ELSE conversation[i].messages = {})
         THEN stored ELSE {conversation[i].id}

(* The rest of onMount.                                                    *)
Restore(i, c, useRemote) ==
    /\ i \in mounting /\ c \in Restorable(i)
    /\ mounting' = mounting \ {i}
    /\ remote' = IF useRemote THEN remote \union {i} ELSE remote
    /\ conversation' = [conversation EXCEPT ![i] = IF c \in stored THEN db[c] ELSE @]
    /\ UNCHANGED << editor, mounted, mounts, convs, streaming, abortCtl, leaving, aborted, asking,
                    stored, db, lastId >>

(* Sign-out: onDestroy saves what is shown.                                *)
Unmount ==
    /\ mounted # 0
    /\ mounted' = 0
    /\ SaveIfAny(conversation[mounted])
    /\ lastId' = IF conversation[mounted].messages # {} THEN conversation[mounted].id ELSE lastId
    /\ UNCHANGED << editor, mounts, convs, mounting, remote, conversation, streaming, abortCtl,
                    leaving, aborted, asking >>

-----------------------------------------------------------------------------

(* sendMessage.  Through the portal it needs the portal's id first.        *)
Ask(q) ==
    LET i == mounted IN
    /\ mounted # 0 /\ asking[q].at = "unasked" /\ ~streaming[i]
    /\ conversation' = [conversation EXCEPT ![i] = With(@, q, "question")]
    /\ streaming' = [streaming EXCEPT ![i] = TRUE]
    /\ abortCtl' = [abortCtl EXCEPT ![i] = q]
    /\ asking' = [asking EXCEPT ![q] =
          [at |-> IF i \in remote /\ conversation[i].portal = NoQuestion THEN "ensure" ELSE "stream",
           panel |-> i, signal |-> q]]
    /\ UNCHANGED << tab, convs, leaving, aborted, stored, db, lastId >>

(* ensurePortalConversation: the id of the conversation made for q goes to *)
(* the conversation that is there by then.                                 *)
PortalCreated(q) ==
    LET i == asking[q].panel IN
    /\ asking[q].at = "ensure"
    /\ conversation' = [conversation EXCEPT ![i].portal = q]
    /\ Save([conversation[i] EXCEPT !.portal = q])
    /\ asking' = [asking EXCEPT ![q].at = "ensured"]
    /\ UNCHANGED << tab, convs, streaming, abortCtl, leaving, aborted, lastId >>

(* The stream is opened with the signal of the controller there is by now: *)
(* without one the handler fails, with an aborted one it ends silently.    *)
OpenStream(q) ==
    LET i == asking[q].panel IN
    /\ asking[q].at = "ensured"
    /\ \/ abortCtl[i] = NoQuestion /\ Catch(q)
       \/ abortCtl[i] \in aborted /\ Over(q) /\ Finally(i) /\ UNCHANGED conversation
       \/ /\ abortCtl[i] \in Questions \ aborted
          /\ asking' = [asking EXCEPT ![q].at = "stream", ![q].signal = abortCtl[i]]
          /\ UNCHANGED << conversation, streaming, abortCtl >>
    /\ UNCHANGED << tab, convs, leaving, aborted, stored, db, lastId >>

(* No portal conversation, no answer, or a stream that breaks.             *)
SendFails(q) ==
    /\ asking[q].at \in {"ensure", "stream"}
    /\ Catch(q)
    /\ UNCHANGED << tab, convs, leaving, aborted, stored, db, lastId >>

(* The answer is complete: it is added to the conversation there is now,   *)
(* which is saved.                                                         *)
Answered(q) ==
    LET i == asking[q].panel IN
    /\ asking[q].at = "stream"
    /\ conversation' = [conversation EXCEPT ![i] = With(@, q, "answer")]
    /\ Save(With(conversation[i], q, "answer"))
    /\ asking' = [asking EXCEPT ![q].at = "saving"]
    /\ UNCHANGED << tab, convs, streaming, abortCtl, leaving, aborted, lastId >>

SendEnds(q) ==
    /\ asking[q].at = "saving"
    /\ lastId' = conversation[asking[q].panel].id
    /\ Over(q) /\ Finally(asking[q].panel)
    /\ UNCHANGED << tab, convs, conversation, leaving, aborted, stored, db >>

-----------------------------------------------------------------------------

(* The stream is aborted, which ends its handler before the next event.    *)
StreamOf(i) == {q \in Questions : asking[q].at = "stream" /\ asking[q].signal = abortCtl[i]}

AbortStream(i) ==
    IF streaming[i] /\ abortCtl[i] # NoQuestion
    THEN /\ aborted' = aborted \union {abortCtl[i]}
         /\ asking' = [q \in Questions |->
               IF q \in StreamOf(i) THEN [asking[q] EXCEPT !.at = "over", !.signal = NoQuestion]
               ELSE asking[q]]
    ELSE UNCHANGED << aborted, asking >>

(* The first half of newChat and loadConversation: what is shown is saved. *)
Leave(to, c) ==
    LET i == mounted IN
    /\ mounted # 0 /\ leaving[i] = NoLeave
    /\ leaving' = [leaving EXCEPT ![i] = [to |-> to, id |-> c]]
    /\ SaveIfAny(conversation[i])
    /\ AbortStream(i)
    /\ IF streaming[i] /\ StreamOf(i) # {} THEN Finally(i) ELSE UNCHANGED << streaming, abortCtl >>
    /\ UNCHANGED << tab, convs, conversation, lastId >>

LoadConversation(c) == c \in stored /\ Leave("load", c)

(* A new conversation is shown; only the chat tab remembers it as the last.*)
BecomesNew(i) ==
    /\ convs < MaxConvs /\ convs' = convs + 1
    /\ conversation' = [conversation EXCEPT ![i] = Created(convs + 1)]
    /\ lastId' = IF editor THEN lastId ELSE convs + 1
    /\ Finally(i)

(* newChat: at once if there is nothing to save.                           *)
NewChat ==
    \/ mounted # 0 /\ conversation[mounted].messages # {} /\ Leave("new", 0)
    \/ /\ mounted # 0 /\ conversation[mounted].messages = {} /\ leaving[mounted] = NoLeave
       /\ AbortStream(mounted) /\ BecomesNew(mounted)
       /\ UNCHANGED << tab, leaving, stored, db >>

ShowNew(i) ==
    /\ leaving[i].to = "new"
    /\ BecomesNew(i)
    /\ leaving' = [leaving EXCEPT ![i] = NoLeave]
    /\ UNCHANGED << tab, aborted, asking, stored, db >>

(* The rest of loadConversation: one that is gone changes nothing.         *)
ShowLoaded(i) ==
    /\ leaving[i].to = "load"
    /\ IF leaving[i].id \in stored
       THEN /\ conversation' = [conversation EXCEPT ![i] = db[leaving[i].id]]
            /\ Finally(i)
       ELSE UNCHANGED << conversation, streaming, abortCtl >>
    /\ leaving' = [leaving EXCEPT ![i] = NoLeave]
    /\ UNCHANGED << tab, convs, aborted, asking, stored, db, lastId >>

-----------------------------------------------------------------------------

(* The sidebar: the second click on delete.                                *)
DeleteConversation(c) ==
    /\ c \in stored
    /\ stored' = stored \ {c} /\ db' = [db EXCEPT ![c] = Created(c)]
    /\ UNCHANGED << tab, convs, conversation, streaming, abortCtl, leaving, aborted, asking, lastId >>

ChatPanelNext ==
    \/ Mount \/ Unmount \/ NewChat
    \/ \E i \in Panels : ShowNew(i) \/ ShowLoaded(i)
    \/ \E i \in Panels, c \in ConvIds, r \in BOOLEAN : Restore(i, c, r)
    \/ \E q \in Questions :
          \/ Ask(q) \/ PortalCreated(q) \/ OpenStream(q) \/ SendFails(q) \/ Answered(q) \/ SendEnds(q)
    \/ \E c \in ConvIds : LoadConversation(c) \/ DeleteConversation(c)
    \/ mounts = MaxMounts /\ UNCHANGED cpvars     \* the bound on mounts

ChatPanelSpec == ChatPanelInit /\ [][ChatPanelNext]_cpvars

-----------------------------------------------------------------------------

Conversations == [id : ConvIds, messages : Contents, portal : OrNoQuestion]

ChatPanelTypeOK ==
    /\ editor \in BOOLEAN
    /\ mounts \in 0 .. MaxMounts /\ mounted \in 0 .. mounts /\ convs \in ConvIds
    /\ mounting \subseteq Panels /\ remote \subseteq Panels
    /\ conversation \in [Panels -> Conversations]
    /\ streaming \in [Panels -> BOOLEAN]
    /\ abortCtl \in [Panels -> OrNoQuestion]
    /\ leaving \in [Panels -> [to : {"stay", "new", "load"}, id : ConvIds]]
    /\ aborted \subseteq Questions
    /\ asking \in [Questions -> [at : {"unasked", "ensure", "ensured", "stream", "saving", "over"},
                               panel : 0 .. MaxMounts, signal : OrNoQuestion]]
    /\ stored \subseteq ConvIds /\ db \in [ConvIds -> Conversations]
    /\ lastId \in ConvIds

InProgress(q) == asking[q].at \in {"ensure", "ensured", "stream", "saving"}

(* A panel that says it is streaming, and so refuses questions, has the    *)
(* controller of a question of its own whose handler still runs: it can be *)
(* stopped, and its finally block opens the input again, however often     *)
(* the user leaves, signs out or asks while old handlers go on.            *)
StreamingCanStop ==
    \A i \in Panels : streaming[i] =>
        /\ abortCtl[i] # NoQuestion
        /\ InProgress(abortCtl[i]) /\ asking[abortCtl[i]].panel = i

(* "Conversations are persisted in IndexedDB, so your history survives     *)
(* restarts": an answer that is stored is stored with its question.  The   *)
(* panel shows the last conversation when the backend has been found, and  *)
(* what was asked until then is replaced by it.                            *)
HistorySurvives ==
    \A c \in stored : \A q \in Questions :
        << q, "answer" >> \in db[c].messages => << q, "question" >> \in db[c].messages
=============================================================================

------------------------------- MODULE WebChat -------------------------------
(***************************************************************************)
(* The chat page of the portal, the script that portal/server.ts serves:   *)
(* its list of conversations, the one that is active, the thread on the    *)
(* screen, and sendMessage, whose steps are separated by requests.  The    *)
(* server's side is Chat; here it is the table of conversations with their *)
(* titles, a title being "new" or the question it was taken from.  A list  *)
(* that is loaded is the table at the time it arrives; when it does not    *)
(* arrive the page keeps the one it has.                                   *)
(***************************************************************************)
EXTENDS Naturals

CONSTANTS
    WebConvs,     \* conversations
    NoConv,
    WebQuestions, \* what the user types
    NoAsk

ASSUME WebChatAssumption ==
    /\ NoConv \notin WebConvs /\ NoAsk \notin WebQuestions
    /\ WebQuestions \cap {"absent", "new"} = {}
    /\ WebConvs \cap {"no", "create"} = {}

OrNoConv == WebConvs \union {NoConv}
OrNoAsk == WebQuestions \union {NoAsk}
Titles == {"absent", "new"} \union WebQuestions

VARIABLES
    titles,          \* the server's conversations
    list,          \* conversations, as the page has them
    activeConvId,
    isStreaming,
    abortController, \* named after the question it was made for
    thread,        \* the conversation whose messages were last rendered
    loads,         \* conversations whose messages are being loaded
    deleting,      \* conversations whose deletion was asked for
    creating,      \* where createNewChat is
    ask            \* of each question: where sendMessage is, and the conversation it names

webvars == << titles, list, activeConvId, isStreaming, abortController, thread, loads, deleting,
              creating, ask >>

NotAsked == [at |-> "untyped", conv |-> NoConv]
Present(t) == {c \in WebConvs : t[c] # "absent"}

(* The page has loaded its list and shows the first of it, if any.         *)
WebChatInit ==
    /\ titles \in [WebConvs -> {"absent", "new"}]
    /\ list = titles
    /\ activeConvId \in IF Present(titles) = {} THEN {NoConv} ELSE Present(titles)
    /\ isStreaming = FALSE /\ abortController = NoAsk
    /\ thread = activeConvId /\ loads = {} /\ deleting = {} /\ creating = "no"
    /\ ask = [q \in WebQuestions |-> NotAsked]

-----------------------------------------------------------------------------

(* loadConversations.                                                      *)
Relists == list' \in {titles, list}

Shows(c) == activeConvId' = c /\ loads' = loads \union {c}

SelectConversation(c) ==
    /\ list[c] # "absent"
    /\ Shows(c)
    /\ UNCHANGED << titles, list, isStreaming, abortController, thread, deleting, creating, ask >>

(* The messages arrive, or an error, and are rendered whatever is active.  *)
LoadMessages(c, ok) ==
    /\ c \in loads
    /\ loads' = loads \ {c}
    /\ thread' = IF ok THEN c ELSE thread
    /\ UNCHANGED << titles, list, activeConvId, isStreaming, abortController, deleting, creating, ask >>

(* The button "new chat": create, load the list, select.                   *)
ClickNewChat ==
    /\ creating = "no"
    /\ creating' = "create"
    /\ UNCHANGED << titles, list, activeConvId, isStreaming, abortController, thread, loads, deleting,
                    ask >>

NewChatCreated(c) ==
    /\ creating = "create" /\ titles[c] = "absent"
    /\ titles' = [titles EXCEPT ![c] = "new"]
    /\ creating' = c
    /\ UNCHANGED << list, activeConvId, isStreaming, abortController, thread, loads, deleting, ask >>

NewChatListed(c) ==
    /\ creating = c
    /\ Relists /\ creating' = "no"
    /\ Shows(c)
    /\ UNCHANGED << titles, isStreaming, abortController, thread, deleting, ask >>

NewChatFails ==
    /\ creating = "create"
    /\ creating' = "no"
    /\ UNCHANGED << titles, list, activeConvId, isStreaming, abortController, thread, loads, deleting,
                    ask >>

ClickDelete(c) ==
    /\ list[c] # "absent" /\ c \notin deleting
    /\ deleting' = deleting \union {c}
    /\ UNCHANGED << titles, list, activeConvId, isStreaming, abortController, thread, loads, creating,
                    ask >>

(* The deletion is answered: another conversation is shown if this one was.*)
Deleted(c) ==
    /\ c \in deleting
    /\ deleting' = deleting \ {c}
    /\ titles' = [titles EXCEPT ![c] = "absent"]
    /\ list' = [list EXCEPT ![c] = "absent"]
    /\ IF activeConvId # c THEN UNCHANGED << activeConvId, loads, thread >>
       ELSE \/ \E d \in Present(list') : Shows(d) /\ UNCHANGED thread
            \/ /\ Present(list') = {}
               /\ activeConvId' = NoConv /\ thread' = NoConv /\ UNCHANGED loads
    /\ UNCHANGED << isStreaming, abortController, creating, ask >>

DeleteFails(c) ==
    /\ c \in deleting
    /\ deleting' = deleting \ {c}
    /\ UNCHANGED << titles, list, activeConvId, isStreaming, abortController, thread, loads, creating,
                    ask >>

-----------------------------------------------------------------------------

StepTo(q, at, c) == ask' = [ask EXCEPT ![q] = [at |-> at, conv |-> c]]

(* sendMessage: isStreaming is looked at when the user presses Enter ...   *)
TypeMessage(q) ==
    /\ ask[q].at = "untyped" /\ ~isStreaming
    /\ IF activeConvId = NoConv
       THEN StepTo(q, "creating", NoConv) /\ UNCHANGED << isStreaming, abortController >>
       ELSE /\ StepTo(q, "streaming", activeConvId)
            /\ isStreaming' = TRUE /\ abortController' = q
    /\ UNCHANGED << titles, list, activeConvId, thread, loads, deleting, creating >>

AskCreates(q, c) ==
    /\ ask[q].at = "creating" /\ titles[c] = "absent"
    /\ titles' = [titles EXCEPT ![c] = "new"]
    /\ activeConvId' = c
    /\ StepTo(q, "listing", NoConv)
    /\ UNCHANGED << list, isStreaming, abortController, thread, loads, deleting, creating >>

AskCreateFails(q) ==
    /\ ask[q].at = "creating"
    /\ StepTo(q, "over", NoConv)
    /\ UNCHANGED << titles, list, activeConvId, isStreaming, abortController, thread, loads, deleting,
                    creating >>

(* ... and set when the question is sent, to what is active by then.       *)
Stream(q) ==
    /\ ask[q].at = "listing"
    /\ Relists
    /\ StepTo(q, "streaming", activeConvId)
    /\ isStreaming' = TRUE /\ abortController' = q
    /\ UNCHANGED << titles, activeConvId, thread, loads, deleting, creating >>

(* Faulty variant of InputOpens: the flag stays up.                        *)
InputOpensNot == abortController' = NoAsk /\ UNCHANGED isStreaming

InputOpens == isStreaming' = FALSE /\ abortController' = NoAsk

(* The stream has ended or failed.  A conversation without a title is then *)
(* named after the question: the one that is active by now.                *)
StreamOver(q) ==
    /\ ask[q].at = "streaming"
    /\ InputOpens
    /\ IF activeConvId # NoConv /\ list[activeConvId] \in WebQuestions
       THEN StepTo(q, "over", NoConv)
       ELSE StepTo(q, "renaming", activeConvId)
    /\ UNCHANGED << titles, list, activeConvId, thread, loads, deleting, creating >>

Renamed(q) ==
    /\ ask[q].at = "renaming" /\ ask[q].conv \in Present(titles)
    /\ titles' = [titles EXCEPT ![ask[q].conv] = q]
    /\ StepTo(q, "relisting", NoConv)
    /\ UNCHANGED << list, activeConvId, isStreaming, abortController, thread, loads, deleting, creating >>

Relisted(q) ==
    /\ ask[q].at = "relisting"
    /\ Relists
    /\ StepTo(q, "over", NoConv)
    /\ UNCHANGED << titles, activeConvId, isStreaming, abortController, thread, loads, deleting,
                    creating >>

RenameFails(q) ==
    /\ ask[q].at = "renaming"
    /\ StepTo(q, "over", NoConv)
    /\ UNCHANGED << titles, list, activeConvId, isStreaming, abortController, thread, loads, deleting,
                    creating >>

WebChatNext ==
    \/ ClickNewChat \/ NewChatFails
    \/ \E c \in WebConvs :
          \/ SelectConversation(c) \/ NewChatCreated(c) \/ NewChatListed(c)
          \/ ClickDelete(c) \/ Deleted(c) \/ DeleteFails(c)
    \/ \E c \in WebConvs, b \in BOOLEAN : LoadMessages(c, b)
    \/ \E q \in WebQuestions :
          \/ TypeMessage(q) \/ AskCreateFails(q) \/ Stream(q) \/ StreamOver(q) \/ Renamed(q)
          \/ Relisted(q) \/ RenameFails(q)
    \/ \E q \in WebQuestions, c \in WebConvs : AskCreates(q, c)

WebChatSpec == WebChatInit /\ [][WebChatNext]_webvars

-----------------------------------------------------------------------------

WebChatTypeOK ==
    /\ titles \in [WebConvs -> Titles] /\ list \in [WebConvs -> Titles]
    /\ activeConvId \in OrNoConv /\ thread \in OrNoConv
    /\ isStreaming \in BOOLEAN /\ abortController \in OrNoAsk
    /\ loads \subseteq WebConvs /\ deleting \subseteq WebConvs /\ creating \in {"no", "create"} \union WebConvs
    /\ ask \in [WebQuestions ->
          [at : {"untyped", "creating", "listing", "streaming", "renaming", "relisting", "over"},
           conv : OrNoConv]]

(* The page refuses questions only while the question its controller       *)
(* belongs to is being streamed, although two questions typed before the   *)
(* first conversation exists are streamed side by side.                    *)
StreamingIsLive ==
    isStreaming => abortController # NoAsk /\ ask[abortController].at = "streaming"
=============================================================================

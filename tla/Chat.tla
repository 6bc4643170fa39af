-------------------------------- MODULE Chat --------------------------------
(***************************************************************************)
(* Chat from the portal: POST /portal/api/chat (portal/server.ts) stores   *)
(* the question, asks one coordinator after the other, relays the stream   *)
(* and stores what came; POST /portal/chat of a coordinator                *)
(* (swarm/coordinator.ts) streams its own model, or, when that is down,    *)
(* forwards the request to its peers (tryMeshPeerChat), which do the same. *)
(*                                                                         *)
(* A chat is then inside a path of coordinators, each waiting for the next *)
(* one: links time out before the stream and break during it.              *)
(***************************************************************************)
EXTENDS Naturals, FiniteSets, Sequences

CONSTANTS
    Coordinators,   \* coordinators the portal knows; they are peers of each other
    Chats,          \* POST /portal/api/chat requests, all to the same conversation
    MaxHops,        \* bound on the coordinators a request is forwarded through
    MaxChunks       \* bound on the chunks of an answer

ASSUME ChatAssumption == MaxHops \in Nat /\ MaxChunks \in Nat

VARIABLES
    conversation,   \* the stored conversation: there or not, and its messages
    chat            \* progress of each chat

hvars == << conversation, chat >>

NotBegun == [ at |-> "new", todo |-> {}, path |-> << >>, said |-> << >>, history |-> << >> ]
Stage(c) == chat[c].at
Top(c) == chat[c].path[Len(chat[c].path)]
Cut(c, i) == SubSeq(chat[c].path, 1, i)
Message(c, role) == [chat |-> c, role |-> role]

(* getConversationMessages *)
ConversationMessages == conversation.messages

ChatInit ==
    /\ conversation = [open |-> TRUE, messages |-> << >>]
    /\ chat = [c \in Chats |-> NotBegun]

(* addMessage; without its conversation the insert fails.                  *)
AddMessage(c, role) ==
    conversation' = IF conversation.open
                    THEN [conversation EXCEPT !.messages = Append(@, Message(c, role))]
                    ELSE conversation

-----------------------------------------------------------------------------
(* The question is stored first; without a conversation that fails.        *)
ChatBegins(c) ==
    /\ Stage(c) = "new"
    /\ AddMessage(c, "user")
    /\ chat' = [chat EXCEPT ![c].at = IF conversation.open THEN "read" ELSE "end"]

(* getConversationMessages, which other chats have written to meanwhile,   *)
(* and the list of coordinators from discoverCoordinatorUrlsForPortal.     *)
ReadHistory(c) ==
    /\ Stage(c) = "read"
    /\ chat' = [chat EXCEPT ![c].at = "ask", ![c].todo = Coordinators,
                            ![c].history = ConversationMessages]
    /\ UNCHANGED conversation

(* The portal tries the next coordinator.  An empty history is a bad       *)
(* request everywhere.                                                     *)
AskCoordinator(c, k) ==
    /\ Stage(c) = "ask" /\ k \in chat[c].todo
    /\ chat' = IF chat[c].history = << >>
               THEN [chat EXCEPT ![c].todo = @ \ {k}]
               ELSE [chat EXCEPT ![c].at = "call", ![c].todo = @ \ {k},
                                 ![c].path = << [at |-> k, todo |-> Coordinators \ {k}] >>]
    /\ UNCHANGED conversation

(* 502 all_coordinators_failed: the question stays without an answer.      *)
AllCoordinatorsFailed(c) ==
    /\ Stage(c) = "ask" /\ chat[c].todo = {}
    /\ chat' = [chat EXCEPT ![c].at = "end"]
    /\ UNCHANGED conversation

-----------------------------------------------------------------------------
(* The model of the last coordinator of the path is up, which is an input: *)
(* headers go back along the path, and nobody on it can answer otherwise.  *)
ModelAnswers(c) ==
    /\ Stage(c) = "call"
    /\ chat' = [chat EXCEPT ![c].at = "stream"]
    /\ UNCHANGED conversation

(* tryMeshPeerChat: the model is down, or fails, and the request goes to   *)
(* the next peer, one it may have come from.                               *)
Forward(c, k) ==
    LET n == Len(chat[c].path)
    IN  /\ Stage(c) = "call" /\ k \in Top(c).todo /\ n < MaxHops
        /\ chat' = [chat EXCEPT ![c].path =
                      Append([@ EXCEPT ![n].todo = @ \ {k}],
                             [at |-> k, todo |-> Coordinators \ {k}])]
        /\ UNCHANGED conversation

(* 502 no_models_available goes one step back.  At the bound of the model  *)
(* a coordinator that could still forward gives up, too.                   *)
NoModels(c) ==
    LET n == Len(chat[c].path)
    IN  /\ Stage(c) = "call"
        /\ Top(c).todo = {} \/ n = MaxHops
        /\ chat' = [chat EXCEPT ![c].path = Cut(c, n - 1), ![c].at = IF n = 1 THEN "ask" ELSE "call"]
        /\ UNCHANGED conversation

(* No headers for two minutes: coordinator i of the path, or the portal    *)
(* (i = 0), gives up on the rest of it.                                    *)
HeadersTimeout(c, i) ==
    /\ Stage(c) = "call"
    /\ chat' = [chat EXCEPT ![c].path = Cut(c, i), ![c].at = IF i = 0 THEN "ask" ELSE "call"]
    /\ UNCHANGED conversation

(* A chunk travels back along the path.                                    *)
Chunk(c) ==
    /\ Stage(c) = "stream" /\ Len(chat[c].said) < MaxChunks
    /\ chat' = [chat EXCEPT ![c].said = Append(@, Top(c).at)]
    /\ UNCHANGED conversation

(* Faulty variant of RelayBreaks: the partial answer is stored at once.    *)
RelayBreaksStores(c, i) ==
    /\ Stage(c) = "stream" /\ chat[c].said # << >>
    /\ AddMessage(c, "assistant")
    /\ chat' = [chat EXCEPT ![c].path = Cut(c, i), ![c].at = "broken"]

(* The stream breaks behind coordinator i of the path.  Its loop tries the *)
(* next peers, but with the headers gone writeHead throws on every answer: *)
(* nothing more is relayed.                                                *)
RelayBreaks(c, i) ==
    /\ Stage(c) = "stream"
    /\ chat' = [chat EXCEPT ![c].path = Cut(c, i), ![c].at = "broken"]
    /\ UNCHANGED conversation

(* The portal's stream ends, or is interrupted: what was relayed, if       *)
(* anything, is stored as the answer.                                      *)
StreamEnds(c) ==
    /\ Stage(c) \in {"stream", "broken"}
    /\ chat' = [chat EXCEPT ![c].at = "end", ![c].path = << >>]
    /\ IF chat[c].said = << >> THEN UNCHANGED conversation ELSE AddMessage(c, "assistant")

-----------------------------------------------------------------------------
(* DELETE /portal/api/conversations/:id takes the messages along.          *)
DeleteConversation ==
    /\ conversation.open
    /\ conversation' = [open |-> FALSE, messages |-> << >>]
    /\ UNCHANGED chat

ChatNext ==
    \/ \E c \in Chats :
         \/ ChatBegins(c) \/ ReadHistory(c) \/ AllCoordinatorsFailed(c)
         \/ ModelAnswers(c) \/ NoModels(c) \/ Chunk(c) \/ StreamEnds(c)
         \/ \E k \in Coordinators : AskCoordinator(c, k) \/ Forward(c, k)
         \/ \E i \in 0..(Len(chat[c].path) - 1) :
              HeadersTimeout(c, i) \/ (i > 0 /\ RelayBreaks(c, i))
    \/ DeleteConversation
    \/ UNCHANGED hvars   \* GET /portal/api/conversations and the like, refused requests

ChatSpec == ChatInit /\ [][ChatNext]_hvars

-----------------------------------------------------------------------------

(* In a conversation several chats write to, and that may be deleted under *)
(* them, every stored answer comes after its question and is the only one. *)
AnswersFollowQuestions ==
    \A i \in 1..Len(conversation.messages) :
      LET m == conversation.messages[i]
      IN  m.role = "assistant" =>
            /\ \E j \in 1..(i - 1) : conversation.messages[j] = Message(m.chat, "user")
            /\ \A j \in 1..Len(conversation.messages) : conversation.messages[j] = m => j = i
=============================================================================

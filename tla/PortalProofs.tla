---------------------------- MODULE PortalProofs ----------------------------
(***************************************************************************)
(* The portal: wallets, escalations, chats, secrets and nodes, for any     *)
(* number of users, rows and requests that overlap.                        *)
(***************************************************************************)
EXTENDS Escalation, Chat, PortalAuth, PortalNodes, TLAPS

-----------------------------------------------------------------------------
(***************************************************************************)
(* Wallets and escalations. An acknowledged row has the phrase the user    *)
(* acknowledged; an escalation shown as processing has a request that      *)
(* works on it.                                                            *)
(***************************************************************************)
(* A row that is acknowledged has a phrase, and that is the one the user   *)
(* has acknowledged.                                                       *)
WalletInv ==
    /\ onboarding \in [phrase : Phrases \union {NoPhrase}, acked : BOOLEAN]
    /\ walletReqs \subseteq [kind : {"signup", "oauth", "setup"}, phrase : Phrases,
                             at : {"create", "upsert", "register"}]
    /\ AckIsForThisPhrase

(* However setups, sign-ups and acknowledgements of a wallet overlap, and  *)
(* for any phrases, what counts as acknowledged is the phrase stored.      *)
THEOREM AcksAreForThisPhrase == PortalWalletSpec => []AckIsForThisPhrase
<1>1. PortalWalletInit => WalletInv
  BY DEF PortalWalletInit, WalletInv, AckIsForThisPhrase
<1>2. WalletInv /\ [PortalWalletNext]_pwvars => WalletInv'
  <2> SUFFICES ASSUME WalletInv, [PortalWalletNext]_pwvars PROVE WalletInv'
    OBVIOUS
  <2> USE PortalWalletAssumption DEF WalletInv, AckIsForThisPhrase
  <2>1. ASSUME NEW p \in Phrases, SetupSeed(p) PROVE WalletInv'
    BY <2>1 DEF SetupSeed
  <2>2. ASSUME NEW p \in Phrases, NEW kind \in {"signup", "oauth"}, EnsureStarterWallet(kind, p)
        PROVE  WalletInv'
    BY <2>2 DEF EnsureStarterWallet, HasWallet
  <2>3. ASSUME NEW r \in walletReqs, CreateOnboarding(r) PROVE WalletInv'
    BY <2>3 DEF CreateOnboarding, Replace, HasWallet
  <2>4. ASSUME NEW r \in walletReqs, UpsertSeed(r) PROVE WalletInv'
    BY <2>4 DEF UpsertSeed, Replace, Reseeded
  <2>5. ASSUME NEW r \in walletReqs, RegisterWallet(r) PROVE WalletInv'
    BY <2>5 DEF RegisterWallet
  <2>6. ASSUME NEW r \in walletReqs, WalletRequestFails(r) PROVE WalletInv'
    BY <2>6 DEF WalletRequestFails
  <2>7. CASE AcknowledgeOnboarding
    BY <2>7 DEF AcknowledgeOnboarding, HasWallet
  <2>8. CASE UNCHANGED pwvars
    BY <2>8 DEF pwvars
  <2> QED BY <2>1, <2>2, <2>3, <2>4, <2>5, <2>6, <2>7, <2>8 DEF PortalWalletNext
<1>3. WalletInv => AckIsForThisPhrase
  BY DEF WalletInv
<1> QED BY <1>1, <1>2, <1>3, PTL DEF PortalWalletSpec

-----------------------------------------------------------------------------

(* The requests under way are of tasks, and each at one of its stages.     *)
EscalationInv ==
    /\ escalations \in [Tasks -> EscalationStatuses]
    /\ requests \subseteq [id : Nat, task : Tasks, stage : {"local", "inference", "parent", "cloud", "human"},
                           attempt : Nat, failed : SUBSET {"parent", "cloud"}]
    /\ nreqs \in Nat
    /\ ProcessingHasRequest

(* A request that goes on goes on for its task.                            *)
LEMMA GoesOn ==
    ASSUME EscalationInv, NEW r \in requests, NEW s, s.task = r.task,
           requests' = (requests \ {r}) \union {s}, UNCHANGED escalations
    PROVE  ProcessingHasRequest'
BY DEF EscalationInv, ProcessingHasRequest

(* A request that is over has stored what it came to.                      *)
LEMMA StoresOutcome ==
    ASSUME EscalationInv, NEW r \in requests, NEW status \in {"completed", "pending_human"},
           requests' = requests \ {r}, StoreStatus(r.task, status)
    PROVE  ProcessingHasRequest' /\ escalations' \in [Tasks -> EscalationStatuses]
BY DEF EscalationInv, ProcessingHasRequest, StoreStatus, EscalationStatuses

(* For any tasks and any number of requests, retries and restarts, a task  *)
(* that a client is told to wait for has a request that works on it.       *)
THEOREM ProcessingIsWorkedOn == EscalationSpec => []ProcessingHasRequest
<1>1. EscalationInit => EscalationInv
  BY DEF EscalationInit, EscalationInv, EscalationStatuses, ProcessingHasRequest
<1>2. EscalationInv /\ [EscalationNext]_evars => EscalationInv'
  <2> SUFFICES ASSUME EscalationInv, [EscalationNext]_evars PROVE EscalationInv'
    OBVIOUS
  <2> USE EscalationAssumption DEF EscalationInv
  <2>1. ASSUME NEW t \in Tasks, Escalate(t) PROVE EscalationInv'
    <3> DEFINE e == [id |-> nreqs, task |-> t, stage |-> "local", attempt |-> 0, failed |-> {}]
    <3>1. /\ requests' = requests \union {e} /\ nreqs' = nreqs + 1
          /\ escalations' = [escalations EXCEPT ![t] = "processing"]
      BY <2>1 DEF Escalate, StoreStatus
    <3>2. /\ e \in [id : Nat, task : Tasks, stage : {"local", "inference", "parent", "cloud", "human"},
                     attempt : Nat, failed : SUBSET {"parent", "cloud"}]
          /\ e.task = t
      OBVIOUS
    <3> HIDE DEF e
    <3> QED BY <3>1, <3>2 DEF EscalationStatuses, ProcessingHasRequest
  <2>2. ASSUME NEW t \in Tasks, NEW status \in {"completed", "failed"}, ReviewDecision(t, status)
        PROVE  EscalationInv'
    BY <2>2 DEF ReviewDecision, StoreStatus, EscalationStatuses, ProcessingHasRequest
  <2>3. ASSUME NEW r \in requests, LocalSolves(r) \/ InferenceSolves(r) \/ BackendSolves(r) \/ ToHuman(r)
        PROVE  EscalationInv'
    <3>1. requests' = requests \ {r} /\ nreqs' = nreqs
      BY <2>3 DEF LocalSolves, InferenceSolves, BackendSolves, ToHuman, Answers
    <3>2. StoreStatus(r.task, "completed") \/ StoreStatus(r.task, "pending_human")
      BY <2>3 DEF LocalSolves, InferenceSolves, BackendSolves, ToHuman
    <3> QED BY <3>1, <3>2, StoresOutcome
  <2>4. ASSUME NEW r \in requests, LocalFails(r) \/ InferenceFails(r) \/ AttemptFails(r) \/ BackendFails(r)
        PROVE  EscalationInv'
    <3>1. /\ UNCHANGED << escalations, nreqs >>
          /\ \E s \in [id : Nat, task : Tasks, stage : {"local", "inference", "parent", "cloud", "human"},
                       attempt : Nat, failed : SUBSET {"parent", "cloud"}] :
               s.task = r.task /\ requests' = (requests \ {r}) \union {s}
      <4>1. CASE LocalFails(r)
        BY <4>1 DEF LocalFails, Goes
      <4>2. CASE InferenceFails(r)
        BY <4>2 DEF InferenceFails, Goes, FirstBackend
      <4>3. CASE AttemptFails(r)
        <5> DEFINE s == [r EXCEPT !.attempt = @ + 1]
        <5>1. requests' = (requests \ {r}) \union {s} /\ UNCHANGED << escalations, nreqs >>
          BY <4>3 DEF AttemptFails
        <5>2. r \in [id : Nat, task : Tasks, stage : {"local", "inference", "parent", "cloud", "human"},
                     attempt : Nat, failed : SUBSET {"parent", "cloud"}]
          OBVIOUS
        <5>3. /\ s \in [id : Nat, task : Tasks, stage : {"local", "inference", "parent", "cloud", "human"},
                         attempt : Nat, failed : SUBSET {"parent", "cloud"}]
              /\ s.task = r.task
          BY <5>2
        <5> HIDE DEF s
        <5> QED BY <5>1, <5>3
      <4>4. CASE BackendFails(r)
        <5>1. AfterBackend(r.stage) \in {"cloud", "human"}
          BY DEF AfterBackend
        <5> QED BY <4>4, <5>1 DEF BackendFails
      <4> QED BY <2>4, <4>1, <4>2, <4>3, <4>4
    <3> QED BY <3>1, GoesOn
  <2>5. CASE CoordinatorRestart
    BY <2>5 DEF CoordinatorRestart, EscalationStatuses, ProcessingHasRequest
  <2>6. CASE UNCHANGED evars
    BY <2>6 DEF evars, ProcessingHasRequest
  <2> QED BY <2>1, <2>2, <2>3, <2>4, <2>5, <2>6 DEF EscalationNext
<1>3. EscalationInv => ProcessingHasRequest
  BY DEF EscalationInv
<1> QED BY <1>1, <1>2, <1>3, PTL DEF EscalationSpec

-----------------------------------------------------------------------------
(***************************************************************************)
(* Chats. A chat that is under way has its question in the conversation,   *)
(* if that is still there, and no answer yet (ChatInv).                    *)
(***************************************************************************)
(* A chat that is not over has no answer yet, and between its question and *)
(* its end the question is in the conversation, if that is still there.    *)
ChatStages == {"new", "read", "ask", "call", "stream", "broken", "end"}

Has(c, role) ==
    \E i \in 1..Len(conversation.messages) : conversation.messages[i] = Message(c, role)

ChatTypes ==
    /\ conversation \in [open : BOOLEAN, messages : Seq([chat : Chats, role : {"user", "assistant"}])]
    /\ DOMAIN chat = Chats
    /\ \A c \in Chats : "at" \in DOMAIN chat[c] /\ Stage(c) \in ChatStages

ChatInv ==
    /\ ChatTypes
    /\ \A c \in Chats : Stage(c) # "end" => ~Has(c, "assistant")
    /\ \A c \in Chats : conversation.open /\ Stage(c) \notin {"new", "end"} => Has(c, "user")
    /\ AnswersFollowQuestions

(* A step of a chat that neither begins nor ends it and leaves the         *)
(* conversation alone.                                                     *)
LEMMA ChatGoesOn ==
    ASSUME ChatInv, NEW c \in Chats, UNCHANGED conversation, NEW v,
           Stage(c) \notin {"new", "end"}, v \in ChatStages \ {"new"},
           DOMAIN chat' = DOMAIN chat, "at" \in DOMAIN chat'[c], chat'[c].at = v,
           \A d \in Chats \ {c} : chat'[d] = chat[d]
    PROVE  ChatInv'
<1>1. \A d \in Chats : (Stage(d))' = IF d = c THEN v ELSE Stage(d)
  BY DEF Stage
<1>2. \A d, r : Has(d, r)' <=> Has(d, r)
  BY DEF Has
<1>3. AnswersFollowQuestions'
  BY DEF ChatInv, AnswersFollowQuestions
<1> QED BY <1>1, <1>2, <1>3 DEF ChatInv, ChatTypes, Stage

(* addMessage appends: what was there stays where it is.                   *)
LEMMA Appended ==
    ASSUME ChatTypes, NEW c \in Chats, NEW role \in {"user", "assistant"},
           AddMessage(c, role), conversation.open
    PROVE  LET n == Len(conversation.messages) + 1
           IN  /\ conversation' \in [open : BOOLEAN, messages : Seq([chat : Chats, role : {"user", "assistant"}])]
               /\ Len(conversation'.messages) = n
               /\ conversation'.messages[n] = Message(c, role)
               /\ \A i \in 1..(n - 1) : conversation'.messages[i] = conversation.messages[i]
<1> DEFINE MsgType == [chat : Chats, role : {"user", "assistant"}]
<1>1. Message(c, role) \in MsgType
  BY DEF Message
<1>2. conversation \in [open : BOOLEAN, messages : Seq(MsgType)]
  BY DEF ChatTypes
<1> HIDE DEF MsgType
<1>3. conversation.messages \in Seq(MsgType)
  BY <1>2
<1>4. conversation' = [conversation EXCEPT !.messages = Append(@, Message(c, role))]
  BY DEF AddMessage
<1>5. conversation' \in [open : BOOLEAN, messages : Seq(MsgType)]
      /\ conversation'.messages = Append(conversation.messages, Message(c, role))
  BY <1>1, <1>2, <1>3, <1>4
<1> QED BY <1>1, <1>3, <1>5 DEF MsgType

(* A role occurs in what was appended to if it did before, or was          *)
(* appended.                                                               *)
LEMMA HasAfter ==
    ASSUME ChatTypes, NEW c \in Chats, NEW role \in {"user", "assistant"},
           AddMessage(c, role), conversation.open, NEW d \in Chats, NEW r
    PROVE  Has(d, r)' <=> Has(d, r) \/ (d = c /\ r = role)
<1> DEFINE n == Len(conversation.messages) + 1
<1>1. n \in Nat \ {0} /\ Message(c, role) = Message(d, r) <=> n \in Nat \ {0} /\ d = c /\ r = role
  BY DEF Message, ChatTypes
<1>2. n \in Nat \ {0}
  BY DEF ChatTypes
<1>3. 1..n = (1..(n - 1)) \union {n}
  BY <1>2
<1> HIDE DEF n
<1>4. Len(conversation'.messages) = n /\ conversation'.messages[n] = Message(c, role)
      /\ \A i \in 1..(n - 1) : conversation'.messages[i] = conversation.messages[i]
  BY Appended DEF n
<1>5. Len(conversation.messages) = n - 1
  BY <1>2 DEF n, ChatTypes
<1> QED BY <1>1, <1>2, <1>3, <1>4, <1>5 DEF Has

(* A message appended to one chat leaves every answer with its question    *)
(* before it.                                                              *)
LEMMA AnswersAfter ==
    ASSUME ChatInv, NEW c \in Chats, NEW role \in {"user", "assistant"},
           AddMessage(c, role), conversation.open,
           role = "assistant" => Has(c, "user") /\ ~Has(c, "assistant")
    PROVE  AnswersFollowQuestions'
<1> DEFINE n == Len(conversation.messages) + 1
<1> DEFINE msg == conversation.messages
<1> DEFINE msgn == conversation'.messages
<1>1. /\ Len(msgn) = n /\ msgn[n] = Message(c, role)
      /\ \A i \in 1..(n - 1) : msgn[i] = msg[i]
      /\ n \in Nat \ {0} /\ Len(msg) = n - 1
      /\ \A i \in 1..(n - 1) : msg[i] \in [chat : Chats, role : {"user", "assistant"}]
  <2>1. msg \in Seq([chat : Chats, role : {"user", "assistant"}])
    BY DEF ChatInv, ChatTypes
  <2>2. Len(msgn) = n /\ msgn[n] = Message(c, role) /\ \A i \in 1..(n - 1) : msgn[i] = msg[i]
    BY Appended DEF ChatInv
  <2>3. n = Len(msg) + 1
    OBVIOUS
  <2> HIDE DEF msg, msgn, n
  <2>5. \A i \in 1..Len(msg) : msg[i] \in [chat : Chats, role : {"user", "assistant"}]
    <3> DEFINE MsgType == [chat : Chats, role : {"user", "assistant"}]
    <3>1. msg \in Seq(MsgType)
      BY <2>1
    <3> HIDE DEF MsgType
    <3>2. \A i \in 1..Len(msg) : msg[i] \in MsgType
      BY <3>1
    <3> QED BY <3>2 DEF MsgType
  <2>4. n \in Nat \ {0} /\ Len(msg) = n - 1
    BY <2>1, <2>3
  <2> QED BY <2>2, <2>4, <2>5
<1>2. \A i \in 1..(n - 1) : msg[i].role = "assistant" =>
         /\ \E j \in 1..(i - 1) : msg[j] = Message(msg[i].chat, "user")
         /\ \A j \in 1..(n - 1) : msg[j] = msg[i] => j = i
  BY <1>1 DEF ChatInv, AnswersFollowQuestions
<1>3. role = "assistant" =>
         /\ \E j \in 1..(n - 1) : msg[j] = Message(c, "user")
         /\ \A j \in 1..(n - 1) : msg[j] # Message(c, "assistant")
  BY <1>1 DEF Has
<1>4. Message(c, role).role = role /\ Message(c, role).chat = c
  BY DEF Message
<1>5. \A i \in 1..(n - 1) : msg[i].role = "assistant" =>
         msg[i] # Message(c, role)
  <2> SUFFICES ASSUME NEW i \in 1..(n - 1), msg[i].role = "assistant", msg[i] = Message(c, role)
               PROVE  FALSE
    OBVIOUS
  <2>1. role = "assistant"
    BY <1>4
  <2> QED BY <2>1, <1>3
<1> HIDE DEF n, msg, msgn
<1> SUFFICES ASSUME NEW i \in 1..n, msgn[i].role = "assistant"
             PROVE  /\ \E j \in 1..(i - 1) : msgn[j] = Message(msgn[i].chat, "user")
                    /\ \A j \in 1..n : msgn[j] = msgn[i] => j = i
  BY <1>1 DEF AnswersFollowQuestions, msgn
<1>6. CASE i # n
  BY <1>1, <1>2, <1>5, <1>6
<1>7. CASE i = n
  BY <1>1, <1>3, <1>4, <1>7
<1> QED BY <1>6, <1>7

(* For any number of chats in a conversation, any coordinators behind it,  *)
(* and whenever it is deleted, an answer follows its question, once.       *)
THEOREM AnswersFollow == ChatSpec => []AnswersFollowQuestions
<1>1. ChatInit => ChatInv
  BY DEF ChatInit, ChatInv, ChatTypes, ChatStages, Stage, NotBegun, Has, AnswersFollowQuestions
<1>2. ChatInv /\ [ChatNext]_hvars => ChatInv'
  <2> SUFFICES ASSUME ChatInv, [ChatNext]_hvars PROVE ChatInv'
    OBVIOUS
  <2>1. ASSUME NEW c \in Chats, ChatBegins(c) PROVE ChatInv'
    <3>1. /\ Stage(c) = "new" /\ AddMessage(c, "user") /\ DOMAIN chat' = Chats
          /\ \A d \in Chats : "at" \in DOMAIN chat'[d]
          /\ \A d \in Chats : (Stage(d))' = IF d = c THEN IF conversation.open THEN "read" ELSE "end" ELSE Stage(d)
      BY <2>1 DEF ChatBegins, ChatInv, ChatTypes, Stage
    <3>2. CASE ~conversation.open
      <4>1. UNCHANGED conversation
        BY <3>1, <3>2 DEF AddMessage
      <4>2. \A d, r : Has(d, r)' <=> Has(d, r)
        BY <4>1 DEF Has
      <4>3. AnswersFollowQuestions'
        BY <4>1 DEF ChatInv, AnswersFollowQuestions
      <4> QED BY <3>1, <3>2, <4>1, <4>2, <4>3 DEF ChatInv, ChatTypes, ChatStages
    <3>3. CASE conversation.open
      <4>1. \A d \in Chats : (Has(d, "assistant")' <=> Has(d, "assistant"))
              /\ (Has(d, "user") => Has(d, "user")')
            /\ Has(c, "user")'
        BY <3>1, <3>3, HasAfter DEF ChatInv
      <4>2. AnswersFollowQuestions'
        BY <3>1, <3>3, AnswersAfter
      <4>3. conversation' \in [open : BOOLEAN, messages : Seq([chat : Chats, role : {"user", "assistant"}])]
        BY <3>1, <3>3, Appended DEF ChatInv
      <4> QED BY <3>1, <3>3, <4>1, <4>2, <4>3 DEF ChatInv, ChatTypes, ChatStages
    <3> QED BY <3>2, <3>3
  <2>2. ASSUME NEW c \in Chats, StreamEnds(c) PROVE ChatInv'
    <3>1. /\ Stage(c) \in {"stream", "broken"} /\ DOMAIN chat' = Chats
          /\ \A d \in Chats : "at" \in DOMAIN chat'[d]
          /\ \A d \in Chats : (Stage(d))' = IF d = c THEN "end" ELSE Stage(d)
      BY <2>2 DEF StreamEnds, ChatInv, ChatTypes, Stage
    <3>2. CASE UNCHANGED conversation
      <4>1. \A d, r : Has(d, r)' <=> Has(d, r)
        BY <3>2 DEF Has
      <4>2. AnswersFollowQuestions'
        BY <3>2 DEF ChatInv, AnswersFollowQuestions
      <4> QED BY <3>1, <3>2, <4>1, <4>2 DEF ChatInv, ChatTypes, ChatStages
    <3>3. CASE conversation.open /\ AddMessage(c, "assistant")
      <4>1. Has(c, "user") /\ ~Has(c, "assistant")
        BY <3>1, <3>3 DEF ChatInv
      <4>2. \A d \in Chats : (Has(d, "assistant")' <=> Has(d, "assistant") \/ d = c)
                             /\ (Has(d, "user") => Has(d, "user")')
        BY <3>3, HasAfter DEF ChatInv
      <4>3. AnswersFollowQuestions'
        BY <3>3, <4>1, AnswersAfter
      <4>4. conversation' \in [open : BOOLEAN, messages : Seq([chat : Chats, role : {"user", "assistant"}])]
        BY <3>3, Appended DEF ChatInv
      <4> QED BY <3>1, <3>3, <4>2, <4>3, <4>4 DEF ChatInv, ChatTypes, ChatStages
    <3> QED BY <2>2, <3>2, <3>3 DEF StreamEnds, AddMessage
  <2>3. ASSUME NEW c \in Chats,
               ReadHistory(c) \/ AllCoordinatorsFailed(c) \/ ModelAnswers(c) \/ Chunk(c) \/ NoModels(c)
               \/ (\E k \in Coordinators : AskCoordinator(c, k) \/ Forward(c, k))
               \/ (\E i \in 0..(Len(chat[c].path) - 1) : HeadersTimeout(c, i) \/ RelayBreaks(c, i))
        PROVE  ChatInv'
    <3> DEFINE Goal == /\ UNCHANGED conversation /\ Stage(c) \in ChatStages \ {"new", "end"}
                       /\ DOMAIN chat' = DOMAIN chat /\ "at" \in DOMAIN chat'[c]
                       /\ chat'[c].at \in ChatStages \ {"new"}
                       /\ \A d \in Chats \ {c} : chat'[d] = chat[d]
    <3>1. Goal
      <4> USE DEF ChatInv, ChatTypes, Stage, ChatStages
      <4>1. CASE ReadHistory(c)
        BY <4>1 DEF ReadHistory
      <4>2. CASE AllCoordinatorsFailed(c)
        BY <4>2 DEF AllCoordinatorsFailed
      <4>3. CASE ModelAnswers(c)
        BY <4>3 DEF ModelAnswers
      <4>4. CASE Chunk(c)
        BY <4>4 DEF Chunk
      <4>5. CASE NoModels(c)
        BY <4>5 DEF NoModels
      <4>6. ASSUME NEW k \in Coordinators, AskCoordinator(c, k) PROVE Goal
        BY <4>6 DEF AskCoordinator
      <4>7. ASSUME NEW k \in Coordinators, Forward(c, k) PROVE Goal
        BY <4>7 DEF Forward
      <4>8. ASSUME NEW i \in 0..(Len(chat[c].path) - 1), HeadersTimeout(c, i) PROVE Goal
        BY <4>8 DEF HeadersTimeout
      <4>9. ASSUME NEW i \in 0..(Len(chat[c].path) - 1), RelayBreaks(c, i) PROVE Goal
        BY <4>9 DEF RelayBreaks
      <4> QED BY <2>3, <4>1, <4>2, <4>3, <4>4, <4>5, <4>6, <4>7, <4>8, <4>9
    <3>2. PICK v : v = chat'[c].at
      OBVIOUS
    <3> QED BY <3>1, <3>2, ChatGoesOn
  <2>4. CASE DeleteConversation
    <3>1. conversation' = [open |-> FALSE, messages |-> << >>] /\ UNCHANGED chat
      BY <2>4 DEF DeleteConversation
    <3>2. \A d, r : ~Has(d, r)'
      BY <3>1 DEF Has
    <3>3. AnswersFollowQuestions'
      BY <3>1 DEF AnswersFollowQuestions
    <3> QED BY <3>1, <3>2, <3>3 DEF ChatInv, ChatTypes, Stage
  <2>5. CASE UNCHANGED hvars
    <3>1. UNCHANGED conversation /\ UNCHANGED chat
      BY <2>5 DEF hvars
    <3> QED BY <3>1 DEF ChatInv, ChatTypes, Stage, Has, AnswersFollowQuestions
  <2> QED BY <2>1, <2>2, <2>3, <2>4, <2>5 DEF ChatNext
<1>3. ChatInv => AnswersFollowQuestions
  BY DEF ChatInv
<1> QED BY <1>1, <1>2, <1>3, PTL DEF ChatSpec

-----------------------------------------------------------------------------
(***************************************************************************)
(* Secrets. Links and tokens are acted upon once: only a live one can be   *)
(* used up, and it has not been (SecretsInv).                              *)
(***************************************************************************)
(* A secret that can still be used up has not been acted upon.             *)
SecretsInv ==
    /\ DOMAIN secrets = Secrets
    /\ \A x \in Secrets :
         /\ DOMAIN secrets[x] = {"kind", "user", "life", "uses"}
         /\ secrets[x].uses \in {0, 1}
         /\ secrets[x].life \in {"unused", "live"} => secrets[x].uses = 0

(* Only the row of the secret that is handed out, used up or expired       *)
(* changes.                                                                *)
LEMMA IssueKeeps ==
    ASSUME SecretsInv, NEW sec \in Secrets, NEW kind, NEW u, Issue(sec, kind, u)
    PROVE  SecretsInv'
BY DEF SecretsInv, Issue, Secret

(* A live secret that is used up has been acted upon once, and is live no  *)
(* more.                                                                   *)
LEMMA UseUpKeeps ==
    ASSUME SecretsInv, NEW sec \in Secrets, NEW kinds, UseUp(sec, kinds)
    PROVE  SecretsInv'
<1>1. /\ secrets[sec].uses = 0 /\ DOMAIN secrets[sec] = {"kind", "user", "life", "uses"}
      /\ secrets' = [secrets EXCEPT ![sec].life = "used", ![sec].uses = @ + 1]
  BY DEF SecretsInv, UseUp
<1>2. secrets'[sec].uses = 1 /\ secrets'[sec].life = "used"
      /\ DOMAIN secrets'[sec] = {"kind", "user", "life", "uses"}
  BY <1>1 DEF SecretsInv
<1>3. DOMAIN secrets' = Secrets /\ \A x \in Secrets \ {sec} : secrets'[x] = secrets[x]
  BY <1>1 DEF SecretsInv
<1> QED BY <1>2, <1>3 DEF SecretsInv

(* A secret that expires, or is replaced, cannot be used up any more.      *)
LEMMA ExpireKeeps ==
    ASSUME SecretsInv, NEW sec \in Secrets, Expire(sec)
    PROVE  SecretsInv'
BY DEF SecretsInv, Expire

(* A restart acts upon no secret: some are lost, the others wait on.       *)
LEMMA RestartKeeps ==
    ASSUME SecretsInv, PortalRestart
    PROVE  SecretsInv'
<1>1. DOMAIN secrets' = Secrets
  BY DEF PortalRestart
<1>2. ASSUME NEW x \in Secrets
      PROVE  \/ secrets'[x] = [secrets[x] EXCEPT !.life = "expired"]
             \/ secrets'[x] = [secrets[x] EXCEPT !.kind = "oauth"]
             \/ secrets'[x] = secrets[x]
  BY DEF PortalRestart
<1>3. ASSUME NEW x \in Secrets
      PROVE  /\ DOMAIN secrets'[x] = {"kind", "user", "life", "uses"}
             /\ secrets'[x].uses = secrets[x].uses
             /\ secrets'[x].life \in {secrets[x].life, "expired"}
  BY <1>2 DEF SecretsInv
<1> QED BY <1>1, <1>3 DEF SecretsInv

(* For any users, secrets and restarts, and however requests that carry    *)
(* the same secret overlap, it is acted upon at most once.                 *)
THEOREM NoSecretActsTwice == PortalAuthSpec => []SecretsActOnce
<1>1. PortalAuthInit => SecretsInv
  BY DEF PortalAuthInit, SecretsInv, Unissued
<1>2. SecretsInv /\ [PortalAuthNext]_pavars => SecretsInv'
  <2> SUFFICES ASSUME SecretsInv, [PortalAuthNext]_pavars PROVE SecretsInv'
    OBVIOUS
  <2>1. ASSUME NEW u \in Emails, NEW sec \in Secrets,
               \/ Signup(u, sec) \/ ResendVerification(u, sec)
               \/ RegisterOptions(sec, u) \/ SendMfaStart(sec, u)
        PROVE  SecretsInv'
    <3>1. \E kind : Issue(sec, kind, u)
      BY <2>1 DEF Signup, ResendVerification, RegisterOptions, SendMfaStart
    <3> QED BY <3>1, IssueKeeps
  <2>2. ASSUME NEW sec \in Secrets, LoginOptions(sec) \/ \E native \in BOOLEAN : OauthStart(sec, native)
        PROVE  SecretsInv'
    <3>1. \E kind : Issue(sec, kind, NoUser)
      BY <2>2 DEF LoginOptions, OauthStart
    <3> QED BY <3>1, IssueKeeps
  <2>3. ASSUME NEW sec \in Secrets, NEW h \in handlers, OauthLink(h, sec)
        PROVE  SecretsInv'
    <3>1. CASE secrets[h.sec].kind = "native"
      BY <2>3, <3>1, IssueKeeps DEF OauthLink
    <3>2. CASE secrets[h.sec].kind # "native"
      BY <2>3, <3>2 DEF OauthLink, SecretsInv
    <3> QED BY <3>1, <3>2
  <2>4. ASSUME NEW sec \in Secrets,
               \/ VerifyEmail(sec) \/ MobileComplete(sec)
               \/ \E s \in Subjects, verified \in BOOLEAN : OauthCallback(sec, s, verified)
               \/ \E k \in Passkeys :
                    \/ LoginVerify(sec, k)
                    \/ \E u \in Emails : RegisterVerify(sec, u, k) \/ SendMfaConfirm(sec, k, u)
        PROVE  SecretsInv'
    <3>1. \E kinds : UseUp(sec, kinds)
      BY <2>4 DEF VerifyEmail, MobileComplete, OauthCallback, LoginVerify, RegisterVerify, SendMfaConfirm
    <3> QED BY <3>1, UseUpKeeps
  <2>5. ASSUME NEW sec \in Secrets, Expire(sec) PROVE SecretsInv'
    BY <2>5, ExpireKeeps
  <2>6. CASE PortalRestart
    BY <2>6, RestartKeeps
  <2>7. CASE \/ \E u \in Emails : Login(u) \/ Logout(u)
             \/ \E h \in handlers : PasskeyDone(h)
             \/ \E s \in Subjects, e \in Emails : ProviderEmailChanges(s, e)
             \/ UNCHANGED pavars
    <3>1. UNCHANGED secrets
      BY <2>7 DEF Login, Logout, PasskeyDone, ProviderEmailChanges, pavars
    <3> QED BY <3>1 DEF SecretsInv
  <2> QED BY <2>1, <2>2, <2>3, <2>4, <2>5, <2>6, <2>7 DEF PortalAuthNext
<1>3. SecretsInv => SecretsActOnce
  BY DEF SecretsInv, SecretsActOnce
<1> QED BY <1>1, <1>2, <1>3, PTL DEF PortalAuthSpec

(* Accounts and wallets of the portal together: no secret acts twice and   *)
(* no phrase is backed up that was not acknowledged, for any users,        *)
(* secrets, phrases and overlapping requests.                              *)
THEOREM AccountsAreSafe == PortalAuthSpec /\ PortalWalletSpec => []AccountsSafe
BY NoSecretActsTwice, AcksAreForThisPhrase, PTL DEF AccountsSafe

-----------------------------------------------------------------------------
(***************************************************************************)
(* Nodes. A row is active exactly while it is approved and its owner's     *)
(* e-mail address is verified; a request that read the owner as verified   *)
(* some steps before was right, and stays so (NodesInv).                   *)
(***************************************************************************)
(* The rows have the fields the statements write; a request that has read  *)
(* its user as verified, and a verification between its two UPDATEs, are   *)
(* of a user who is.                                                       *)
RowFields == {"owner", "emailVerified", "approved", "active", "dnsStatus", "dnsIp"}

RowOk(row, verified) ==
    /\ DOMAIN row = RowFields
    /\ {row.emailVerified, row.approved, row.active} \subseteq BOOLEAN
    /\ row.active <=> row.approved /\ row.emailVerified
    /\ row.emailVerified => row.owner \in verified

NodesInv ==
    /\ \A n \in DOMAIN rows : RowOk(rows[n], verifiedUsers)
    /\ \A e \in enrolling : e.verified \in BOOLEAN /\ (e.verified => e.user \in verifiedUsers)
    /\ verifying \subseteq verifiedUsers

(* A row that is stored must be right by itself.                           *)
LEMMA PutKeeps ==
    ASSUME NodesInv, NEW n, NEW row, Put(n, row), RowOk(row, verifiedUsers),
           UNCHANGED verifiedUsers
    PROVE  \A m \in DOMAIN rows' : RowOk(rows'[m], verifiedUsers')
BY DEF NodesInv, Put, RowOk

(* setNodeApproval, and writing the DNS columns, leave a row right.        *)
LEMMA ApprovalOk ==
    ASSUME NEW row, RowOk(row, verifiedUsers), NEW approved \in BOOLEAN
    PROVE  RowOk(SetApproval(row, approved), verifiedUsers)
BY DEF RowOk, SetApproval, RowFields

(* Writing the columns of the name server touches no flag.                 *)
LEMMA DnsOk ==
    ASSUME NEW row, RowOk(row, verifiedUsers), NEW status, NEW ip
    PROVE  RowOk([row EXCEPT !.dnsStatus = status, !.dnsIp = ip], verifiedUsers)
BY DEF RowOk, RowFields

(* upsertNodeEnrollment leaves a row right.                                *)
LEMMA UpsertedOk ==
    ASSUME NodesInv, NEW e \in enrolling
    PROVE  RowOk(Upserted(e), verifiedUsers)
BY DEF NodesInv, RowOk, Upserted, RowFields

(* The statements of /nodes/enroll together.                               *)
LEMMA EnrollKeeps ==
    ASSUME NodesInv, NEW e \in enrolling, Enroll(e)
    PROVE  NodesInv'
<1> DEFINE row == Upserted(e)
           apr == IF e.node \notin CoordinatorNodes /\ e.verified /\ ~row.approved
                  THEN SetApproval(row, TRUE) ELSE row
           put == IF e.node \in CoordinatorNodes THEN [apr EXCEPT !.dnsStatus = "pending", !.dnsIp = NoIp] ELSE apr
<1>1. /\ Put(e.target, put) /\ enrolling' = enrolling \ {e}
      /\ UNCHANGED << verifiedUsers, verifying >>
  BY DEF Enroll
<1>2. RowOk(row, verifiedUsers)
  BY UpsertedOk
<1> HIDE DEF row
<1>3. RowOk(apr, verifiedUsers)
  BY <1>2, ApprovalOk
<1> HIDE DEF apr
<1>4. RowOk(put, verifiedUsers)
  BY <1>3, DnsOk
<1> HIDE DEF put
<1>5. \A m \in DOMAIN rows' : RowOk(rows'[m], verifiedUsers')
  BY <1>1, <1>4, PutKeeps
<1> QED BY <1>1, <1>5 DEF NodesInv

(* Approving or rejecting a node.                                          *)
LEMMA ApproveKeeps ==
    ASSUME NodesInv, NEW n \in DOMAIN rows, NEW approved \in BOOLEAN, Approve(n, approved)
    PROVE  NodesInv'
<1> DEFINE row == SetApproval(rows[n], approved)
           put == IF n \in CoordinatorNodes /\ ~approved /\ row.dnsStatus # "none"
                  THEN [row EXCEPT !.dnsStatus = "pending", !.dnsIp = NoIp] ELSE row
<1>1. /\ Put(n, put)
      /\ UNCHANGED << verifiedUsers, verifying, enrolling >>
  BY DEF Approve
<1>2. RowOk(row, verifiedUsers)
  BY ApprovalOk DEF NodesInv
<1> HIDE DEF row
<1>3. RowOk(put, verifiedUsers)
  BY <1>2, DnsOk
<1> HIDE DEF put
<1>4. \A m \in DOMAIN rows' : RowOk(rows'[m], verifiedUsers')
  BY <1>1, <1>3, PutKeeps
<1> QED BY <1>1, <1>4 DEF NodesInv

(* A DNS call comes back.                                                  *)
LEMMA DnsKeeps ==
    ASSUME NodesInv, NEW job, NEW status, NEW ip, WriteDns(job, status, ip),
           UNCHANGED << verifiedUsers, verifying, enrolling >>
    PROVE  NodesInv'
<1>1. CASE job.node \in DOMAIN rows
  <2> DEFINE put == [rows[job.node] EXCEPT !.dnsStatus = status, !.dnsIp = ip]
  <2>1. Put(job.node, put)
    BY <1>1 DEF WriteDns
  <2>2. RowOk(put, verifiedUsers)
    BY <1>1, DnsOk DEF NodesInv
  <2> HIDE DEF put
  <2>3. \A m \in DOMAIN rows' : RowOk(rows'[m], verifiedUsers')
    BY <2>1, <2>2, PutKeeps
  <2> QED BY <2>3 DEF NodesInv
<1>2. CASE job.node \notin DOMAIN rows
  BY <1>2 DEF WriteDns, NodesInv, RowOk
<1> QED BY <1>1, <1>2

(* For any users, nodes, devices and addresses, and however enrolments,    *)
(* verifications, approvals and DNS calls overlap: a node is active        *)
(* exactly when it is approved and its owner's email is verified.          *)
THEOREM NodesAreActiveExactly == PortalNodesSpec => []ActiveExactly
<1>1. PortalNodesInit => NodesInv
  BY DEF PortalNodesInit, NodesInv
<1>2. NodesInv /\ [PortalNodesNext]_pnvars => NodesInv'
  <2> SUFFICES ASSUME NodesInv, [PortalNodesNext]_pnvars PROVE NodesInv'
    OBVIOUS
  <2>1. ASSUME NEW u \in Users, VerifyUser(u) PROVE NodesInv'
    BY <2>1 DEF VerifyUser, NodesInv, RowOk
  <2>2. ASSUME NEW u \in Users, VerifyNodes(u) PROVE NodesInv'
    <3>1. /\ UNCHANGED << verifiedUsers, enrolling >> /\ verifying' \subseteq verifying
          /\ DOMAIN rows' = DOMAIN rows /\ u \in verifiedUsers
      BY <2>2 DEF VerifyNodes, NodesInv
    <3>2. ASSUME NEW n \in DOMAIN rows, rows[n].owner = u PROVE RowOk(rows'[n], verifiedUsers')
      <4>1. rows'[n] = [rows[n] EXCEPT !.emailVerified = TRUE, !.active = rows[n].approved]
        BY <2>2, <3>2 DEF VerifyNodes
      <4>2. RowOk(rows[n], verifiedUsers)
        BY DEF NodesInv
      <4>3. /\ DOMAIN rows'[n] = RowFields /\ rows'[n].emailVerified = TRUE
            /\ rows'[n].active = rows[n].approved /\ rows'[n].approved = rows[n].approved
            /\ rows'[n].owner = u
        BY <4>1, <4>2, <3>2 DEF RowOk, RowFields
      <4> QED BY <4>2, <4>3, <3>1 DEF RowOk
    <3>3. ASSUME NEW n \in DOMAIN rows, rows[n].owner # u PROVE RowOk(rows'[n], verifiedUsers')
      BY <2>2, <3>1, <3>3 DEF VerifyNodes, NodesInv, RowOk
    <3> QED BY <3>1, <3>2, <3>3 DEF NodesInv
  <2>3. ASSUME NEW u \in Users, NEW n \in Nodes, EnrollBegins(u, n) PROVE NodesInv'
    <3>1. PICK target : enrolling' = enrolling \union
                          {[user |-> u, node |-> n, target |-> target, verified |-> u \in verifiedUsers]}
      BY <2>3, Zenon DEF EnrollBegins
    <3> DEFINE e == [user |-> u, node |-> n, target |-> target, verified |-> u \in verifiedUsers]
    <3>2. e.user = u /\ e.verified = (u \in verifiedUsers)
      BY Zenon
    <3>3. enrolling' = enrolling \union {e} /\ UNCHANGED << verifiedUsers, verifying, rows >>
      BY <3>1, <2>3 DEF EnrollBegins
    <3> HIDE DEF e
    <3>4. (u \in verifiedUsers) \in BOOLEAN
      OBVIOUS
    <3>5. e.verified \in BOOLEAN
      BY <3>2, <3>4, Zenon
    <3>6. e.verified => e.user \in verifiedUsers
      BY <3>2, Zenon
    <3> QED BY <3>3, <3>5, <3>6 DEF NodesInv
  <2>4. ASSUME NEW u \in Users, NEW n \in Nodes, DeleteNode(u, n) PROVE NodesInv'
    BY <2>4 DEF DeleteNode, NodesInv, RowOk
  <2>5. ASSUME NEW e \in enrolling, Enroll(e) PROVE NodesInv'
    BY <2>5, EnrollKeeps
  <2>6. ASSUME NEW n \in DOMAIN rows, NEW approved \in BOOLEAN, Approve(n, approved) PROVE NodesInv'
    BY <2>6, ApproveKeeps
  <2>7. ASSUME NEW n \in DOMAIN rows, RejectBegins(n) PROVE NodesInv'
    BY <2>7, ApproveKeeps DEF RejectBegins
  <2>8. ASSUME NEW n \in DOMAIN rows, NEW ip \in Ips, Validate(n, ip) PROVE NodesInv'
    BY <2>8 DEF Validate, NodesInv, RowOk
  <2>9. ASSUME NEW r \in rejecting, RejectEnds(r) PROVE NodesInv'
    BY <2>9 DEF RejectEnds, NodesInv, RowOk
  <2>10. ASSUME NEW job \in dnsJobs, SyncSkips(job) \/ SyncPrivate(job) PROVE NodesInv'
    BY <2>10, DnsKeeps DEF SyncSkips, SyncPrivate
  <2>11. ASSUME NEW job \in dnsJobs, SyncPublic(job) PROVE NodesInv'
    BY <2>11, DnsKeeps DEF SyncPublic
  <2>12. ASSUME NEW job \in dnsJobs, DeleteRecord(job) PROVE NodesInv'
    BY <2>12 DEF DeleteRecord, NodesInv, RowOk
  <2>13. ASSUME NEW S \in SUBSET DOMAIN rows, StaleSweep(S) PROVE NodesInv'
    <3>1. /\ UNCHANGED << verifiedUsers, verifying, enrolling >> /\ DOMAIN rows' = DOMAIN rows
      BY <2>13 DEF StaleSweep
    <3>2. ASSUME NEW n \in DOMAIN rows PROVE RowOk(rows'[n], verifiedUsers)
      <4>1. rows'[n] = [rows[n] EXCEPT !.dnsStatus = "stale", !.dnsIp = NoIp] \/ rows'[n] = rows[n]
        BY <2>13 DEF StaleSweep
      <4>2. RowOk(rows[n], verifiedUsers)
        BY DEF NodesInv
      <4>3. RowOk([rows[n] EXCEPT !.dnsStatus = "stale", !.dnsIp = NoIp], verifiedUsers)
        BY <4>2, DnsOk
      <4> QED BY <4>1, <4>2, <4>3
    <3> QED BY <3>1, <3>2 DEF NodesInv, RowOk
  <2>14. CASE UNCHANGED pnvars
    BY <2>14 DEF pnvars, NodesInv, RowOk
  <2> QED BY <2>1, <2>2, <2>3, <2>4, <2>5, <2>6, <2>7, <2>8, <2>9, <2>10, <2>11, <2>12, <2>13, <2>14
          DEF PortalNodesNext, PortalNodesRefused
<1>3. NodesInv => ActiveExactly
  BY DEF NodesInv, RowOk, ActiveExactly
<1> QED BY <1>1, <1>2, <1>3, PTL DEF PortalNodesSpec
=============================================================================

--------------------------- MODULE PaymentIntents ---------------------------
(***************************************************************************)
(* Credit purchases at one coordinator with a Postgres store: payment      *)
(* intents are created, paid over Lightning, and settled by whichever of   *)
(* the payment webhook, the confirm endpoint, the 30 s poller and the      *)
(* reconcile endpoint gets there first (swarm/coordinator.ts).             *)
(*                                                                         *)
(* Every await is a step boundary.  settleIntent reserves the transaction  *)
(* reference, adds the credits, marks the intent in memory, stores it and  *)
(* writes the fee and payout events; the poller and the reconcile endpoint *)
(* walk over a list of pending intents they read at the start.  A process  *)
(* is one running handler or tick.                                         *)
(*                                                                         *)
(* Credits are abstracted to how often the quoted amount of an intent was  *)
(* added.  References: the one a Lightning node gives for an invoice is    *)
(* named by the intent; any other one (a random "webhook:...", the mock    *)
(* provider's) is Fresh and never equal to an earlier one.                 *)
(*                                                                         *)
(* Nothing here checks that a webhook or a confirmation is about a payment *)
(* that was made: whoever holds the mesh token is believed, under any      *)
(* reference.  Only the loops ask the provider, and the mock provider, the *)
(* default, calls every invoice settled.                                   *)
(***************************************************************************)
EXTENDS Naturals

CONSTANTS
    MaxIntents,     \* bound on the intents ever created
    Procs,          \* handlers and ticks that may run at the same time
    Poller,         \* the process of the 30 s interval
    Fresh,          \* a reference nobody used before
    NoIntent,       \* no intent is being settled
    ProviderRefs,   \* the provider: a node ("stable") or the mock ("fresh")
    MaxMints        \* bound at which the count of mints saturates

Intents == 1..MaxIntents
Status == {"none", "created", "settled", "expired"}

ASSUME PaymentAssumption ==
    /\ MaxIntents \in Nat
    /\ Poller \in Procs
    /\ Fresh \notin Intents
    /\ NoIntent \notin Intents
    /\ ProviderRefs \subseteq {"stable", "fresh"}
    /\ MaxMints \in Nat \ {0}

VARIABLES
    issued,         \* number of intents created so far
    mem,            \* paymentIntents: status of each intent in memory
    db,             \* payment_intents: status of each intent in the store
    settledTxRefs,  \* settledTxRefs, the references a node can repeat
    paid,           \* environment: invoices a node would call paid
    old,            \* environment: intents older than PAYMENT_INTENT_TTL_MS
    proc,           \* the running handlers and ticks
    minted,         \* history: adjustCredits calls per intent
    credited        \* history: intents credited under the node's reference
                    \* since the coordinator started

payVars == << issued, mem, db, settledTxRefs, paid, old, proc, minted, credited >>
world == << issued, paid, old >>
history == << minted, credited >>

Proc == [ at : {"idle", "loop", "ask", "expire", "credit", "mark", "store", "fee"},
          intent : Intents \union {NoIntent}, ref : Intents \union {Fresh},
          todo : SUBSET Intents ]

PayIdle == [at |-> "idle", intent |-> NoIntent, ref |-> Fresh, todo |-> {}]

More(n) == IF n < MaxMints THEN n + 1 ELSE n

-----------------------------------------------------------------------------
PayInit ==
    /\ issued = 0
    /\ mem = [i \in Intents |-> "none"]
    /\ db = [i \in Intents |-> "none"]
    /\ settledTxRefs = {}
    /\ paid = {}
    /\ old = {}
    /\ proc = [p \in Procs |-> PayIdle]
    /\ minted = [i \in Intents |-> 0]
    /\ credited = {}

(* POST /economy/payments/intents.  The invoice is handed out only after   *)
(* the intent is stored.                                                   *)
Create ==
    /\ issued < MaxIntents
    /\ issued' = issued + 1
    /\ mem' = [mem EXCEPT ![issued + 1] = "created"]
    /\ db' = [db EXCEPT ![issued + 1] = "created"]
    /\ UNCHANGED << settledTxRefs, paid, old, proc, history >>

(* The customer pays; the invoice runs out together with the intent.       *)
Pay(i) ==
    /\ i <= issued /\ i \notin old
    /\ paid' = paid \union {i}
    /\ UNCHANGED << issued, mem, db, settledTxRefs, old, proc, history >>

Age(i) ==
    /\ i <= issued
    /\ old' = old \union {i}
    /\ UNCHANGED << issued, mem, db, settledTxRefs, paid, proc, history >>

-----------------------------------------------------------------------------
Enter(p, state) == proc' = [proc EXCEPT ![p] = state]

(* The handler answers, or the loop goes on to the next intent.            *)
Advance(p, rest) ==
    Enter(p, IF rest = {} THEN PayIdle
             ELSE [at |-> "loop", intent |-> NoIntent, ref |-> Fresh, todo |-> rest])

(* Faulty variant of Begin: a repeated reference is taken for an intent    *)
(* that was credited, and goes on to be marked.                            *)
BeginTrusting(p, i, ref, rest) ==
    /\ Enter(p, [at |-> IF ref \in settledTxRefs THEN "mark" ELSE "credit",
                 intent |-> i, ref |-> ref, todo |-> rest])
    /\ settledTxRefs' = settledTxRefs \union ({ref} \intersect Intents)

(* Faulty variant of Begin: the reference is only looked up, not reserved. *)
BeginUnreserved(p, i, ref, rest) ==
    /\ IF ref \in settledTxRefs
         THEN Enter(p, PayIdle)
         ELSE Enter(p, [at |-> "credit", intent |-> i, ref |-> ref, todo |-> rest])
    /\ UNCHANGED settledTxRefs

(* settleIntent up to its first await.  A reference seen before throws,    *)
(* which ends the handler, or the whole loop.                              *)
Begin(p, i, ref, rest) ==
    IF ref \in settledTxRefs
      THEN /\ Enter(p, PayIdle)
           /\ UNCHANGED settledTxRefs
      ELSE /\ Enter(p, [at |-> "credit", intent |-> i, ref |-> ref, todo |-> rest])
           /\ settledTxRefs' = settledTxRefs \union ({ref} \intersect Intents)

(* The credits are added (adjustCredits).                                  *)
Minted(p) ==
    LET i == proc[p].intent
    IN  /\ minted' = [minted EXCEPT ![i] = More(@)]
        /\ credited' = IF proc[p].ref = i THEN credited \union {i} ELSE credited

Credit(p) ==
    /\ proc[p].at = "credit"
    /\ Minted(p)
    /\ Enter(p, [proc[p] EXCEPT !.at = "mark", !.ref = Fresh])
    /\ UNCHANGED << world, mem, db, settledTxRefs >>

(* The credits were added but the store's answer was lost: settleIntent    *)
(* throws all the same.                                                    *)
CreditUnanswered(p) ==
    /\ proc[p].at = "credit"
    /\ Minted(p)
    /\ Enter(p, PayIdle)
    /\ UNCHANGED << world, mem, db, settledTxRefs >>

Mark(p) ==
    /\ proc[p].at = "mark"
    /\ mem' = [mem EXCEPT ![proc[p].intent] = "settled"]
    /\ Enter(p, [proc[p] EXCEPT !.at = "store"])
    /\ UNCHANGED << world, db, settledTxRefs, history >>

Store(p) ==
    /\ proc[p].at = "store"
    /\ db' = [db EXCEPT ![proc[p].intent] = "settled"]
    /\ Enter(p, [proc[p] EXCEPT !.at = "fee"])
    /\ UNCHANGED << world, mem, settledTxRefs, history >>

(* The fee event and the payouts (allocateIntentPayouts) are written.      *)
Fee(p) ==
    /\ proc[p].at = "fee"
    /\ Advance(p, proc[p].todo)
    /\ UNCHANGED << world, mem, db, settledTxRefs, history >>

(* A write to the store is rejected: the handler, or the loop, ends.       *)
Throws(p) ==
    /\ proc[p].at \in {"expire", "credit", "store", "fee"}
    /\ Enter(p, PayIdle)
    /\ UNCHANGED << world, mem, db, settledTxRefs, history >>

-----------------------------------------------------------------------------
(* POST /economy/payments/webhook that says "settled" of an invoice.  Only *)
(* "settled" in memory ends it early.                                      *)
Webhook(p, i, ref) ==
    /\ proc[p] = PayIdle
    /\ \/ mem[i] \in {"created", "expired"}
       \/ mem[i] = "none" /\ db[i] = "created"
    /\ Begin(p, i, ref, {})
    /\ UNCHANGED << world, mem, db, history >>

(* POST /economy/payments/intents/:intentId/confirm, with any txRef: the   *)
(* provider is not asked.                                                  *)
Confirm(p, i, ref) ==
    /\ proc[p] = PayIdle
    /\ (IF mem[i] = "none" THEN db[i] ELSE mem[i]) = "created"
    /\ Begin(p, i, ref, {})
    /\ UNCHANGED << world, mem, db, history >>

(* The poller's tick and POST /economy/payments/reconcile read the pending *)
(* intents, oldest first.                                                  *)
Reconcile(p) ==
    /\ proc[p] = PayIdle
    /\ Advance(p, { i \in Intents : db[i] = "created" })
    /\ UNCHANGED << world, mem, db, settledTxRefs, history >>

Oldest(S) == { i \in S : \A j \in S : i <= j }

LoopExpire(p) ==
    /\ proc[p].at = "loop"
    /\ \E i \in Oldest(proc[p].todo) :
         /\ i \in old
         /\ mem' = [mem EXCEPT ![i] = "expired"]
         /\ Enter(p, [at |-> "expire", intent |-> i, ref |-> Fresh, todo |-> proc[p].todo \ {i}])
    /\ UNCHANGED << world, db, settledTxRefs, history >>

(* Faulty variant of StoreExpired: the expiry stays in memory.             *)
StoreExpiredNot(p) ==
    /\ proc[p].at = "expire"
    /\ Advance(p, proc[p].todo)
    /\ UNCHANGED << world, mem, db, settledTxRefs, history >>

StoreExpired(p) ==
    /\ proc[p].at = "expire"
    /\ db' = [db EXCEPT ![proc[p].intent] = "expired"]
    /\ Advance(p, proc[p].todo)
    /\ UNCHANGED << world, mem, settledTxRefs, history >>

(* checkSettlement is sent ...                                             *)
LoopAsk(p) ==
    /\ proc[p].at = "loop"
    /\ \E i \in Oldest(proc[p].todo) :
         /\ i \notin old
         /\ Enter(p, [at |-> "ask", intent |-> i, ref |-> Fresh, todo |-> proc[p].todo \ {i}])
    /\ UNCHANGED << world, mem, db, settledTxRefs, history >>

(* ... and answered.  A failed call counts as "not settled".               *)
NotSettled(p) ==
    /\ proc[p].at = "ask"
    /\ Advance(p, proc[p].todo)
    /\ UNCHANGED << world, mem, db, settledTxRefs, history >>

(* A node reports what was paid, under the invoice's own reference; the    *)
(* mock provider reports everything, under a new one each time.            *)
LoopSettle(p) ==
    LET i == proc[p].intent
    IN  /\ proc[p].at = "ask"
        /\ \/ "stable" \in ProviderRefs /\ i \in paid /\ Begin(p, i, i, proc[p].todo)
           \/ "fresh" \in ProviderRefs /\ Begin(p, i, Fresh, proc[p].todo)
        /\ UNCHANGED << world, mem, db, history >>

(* The coordinator restarts: what is pending in the store is loaded again, *)
(* unless loading takes too long.  The references are forgotten.           *)
Restart ==
    /\ proc' = [p \in Procs |-> PayIdle]
    /\ mem' \in { [i \in Intents |-> IF db[i] = "created" THEN "created" ELSE "none"],
                  [i \in Intents |-> "none"] }
    /\ settledTxRefs' = {}
    /\ credited' = {}
    /\ UNCHANGED << world, db, minted >>

-----------------------------------------------------------------------------
Settle(p) == Credit(p) \/ Mark(p) \/ Store(p) \/ Fee(p)
Loop(p) == LoopExpire(p) \/ StoreExpired(p) \/ LoopAsk(p) \/ LoopSettle(p)

PayNext ==
    \/ Create
    \/ \E i \in Intents : Pay(i) \/ Age(i)
    \/ \E p \in Procs :
         \/ Settle(p) \/ CreditUnanswered(p) \/ Throws(p)
         \/ Reconcile(p) \/ Loop(p) \/ NotSettled(p)
         \/ \E i \in Intents : \E ref \in Intents \union {Fresh} : Webhook(p, i, ref) \/ Confirm(p, i, ref)
    \/ Restart

(* A step in which nothing fails.                                          *)
PayHealthy ==
    \/ Create
    \/ \E i \in Intents : Pay(i) \/ Age(i)
    \/ \E p \in Procs :
         \/ Settle(p) \/ Reconcile(p) \/ Loop(p)
         \/ NotSettled(p) /\ proc[p].intent \notin paid
         \/ \E i \in Intents : \E ref \in Intents \union {Fresh} : Webhook(p, i, ref) \/ Confirm(p, i, ref)

(* Handlers run to their end, the poller ticks again and again, intents    *)
(* grow old, and the store and the Lightning node are up in the end.       *)
PayFairness ==
    /\ \A p \in Procs : WF_payVars(Settle(p) \/ Loop(p) \/ NotSettled(p))
    /\ WF_payVars(Reconcile(Poller))
    /\ \A i \in Intents : WF_payVars(Age(i))
    /\ <>[][PayHealthy]_payVars

PaySafetySpec == PayInit /\ [][PayNext]_payVars

PaySpec == PaySafetySpec /\ PayFairness

-----------------------------------------------------------------------------
(* Every variable has its type.                                            *)
PayTypeOK ==
    /\ issued \in 0..MaxIntents
    /\ mem \in [Intents -> Status]
    /\ db \in [Intents -> Status]
    /\ settledTxRefs \subseteq Intents
    /\ paid \subseteq Intents
    /\ old \subseteq Intents
    /\ proc \in [Procs -> Proc]
    /\ minted \in [Intents -> 0..MaxMints]
    /\ credited \subseteq Intents

(* An intent is shown as settled, in memory or in the store, only after    *)
(* its credits were added, whatever fails or restarts in between.          *)
SettledIsMinted ==
    \A i \in Intents : mem[i] = "settled" \/ db[i] = "settled" => minted[i] > 0

(* p is about to mint for i under the reference of its invoice.            *)
Minting(p, i) == proc[p].at = "credit" /\ proc[p].intent = i /\ proc[p].ref = i

(* While the coordinator runs, the Lightning node's reference for an       *)
(* invoice mints once, however webhook, confirm and the loops race: the    *)
(* promise of settledTxRefs.  A settlement about to mint under it is the   *)
(* only one, and none has minted under it before.                          *)
RefMintsOnce ==
    \A p \in Procs, i \in Intents : Minting(p, i) =>
      /\ i \notin credited
      /\ \A q \in Procs \ {p} : ~Minting(q, i)

Settling == {"credit", "mark", "store", "fee"}

(* A handler inside settleIntent, or about to store an expiry, works on an *)
(* intent, and past the credit write the intent was credited.              *)
PastCredit ==
    \A p \in Procs :
      /\ proc[p].at \in Settling \union {"ask", "expire"} => proc[p].intent \in Intents
      /\ proc[p].at \in Settling \ {"credit"} => minted[proc[p].intent] > 0

(* A reference that credited, or is about to, is reserved.                 *)
RefsReserved ==
    /\ credited \subseteq settledTxRefs
    /\ \A p \in Procs, i \in Intents : Minting(p, i) => i \in settledTxRefs

(* Settlement as a whole: nothing is shown as settled without its credits, *)
(* and while the coordinator runs an invoice's reference mints once, for   *)
(* it is reserved before any handler comes to mint under it, whatever      *)
(* webhooks, confirmations, loops, failures and restarts interleave.       *)
PayInv == PayTypeOK /\ SettledIsMinted /\ PastCredit /\ RefsReserved /\ RefMintsOnce

(* The same promise as an abstract specification: an intent is an invoice, *)
(* the store is the books, and what the coordinator remembers to have      *)
(* credited under the node's references is spent.                          *)
Purchase == INSTANCE PurchaseLife WITH
    Invoices <- Intents, MaxCredits <- MaxMints,
    offered <- 1 .. issued, credits <- minted, spent <- credited, books <- db

(* Only what was offered is credited, once under its own reference while   *)
(* the coordinator runs, and the books follow the credits: every step of a *)
(* webhook, a confirmation, a loop, a failure or a restart is one the life *)
(* of a purchase allows, or changes nothing of it.                         *)
BooksFollowCredits == Purchase!LifeSpec

(* The loops bring every intent to an end, although a poisoned reference   *)
(* of an older one may abort tick after tick.                              *)
IntentsEnd == \A i \in Intents : db[i] = "created" ~> db[i] # "created"

(* "Duplicate settlement updates must be idempotent."                      *)
MintedOnce == \A i \in Intents : minted[i] <= 1

=============================================================================

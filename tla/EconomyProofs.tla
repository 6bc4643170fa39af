--------------------------- MODULE EconomyProofs ----------------------------
(***************************************************************************)
(* Money: settlement of Lightning invoices, the earnings of robots and the *)
(* credit accounts, for any number of intents, handlers, robots, accounts  *)
(* and requests, any amounts and any restarts.                             *)
(***************************************************************************)
EXTENDS PaymentIntents, RobotQueue, Credits, FiniteSetTheorems, TLAPS

-----------------------------------------------------------------------------
(***************************************************************************)
(* Payment intents. What is shown as settled was credited, and the         *)
(* Lightning node's reference for an invoice credits once per process      *)
(* life. Neither is inductive: a handler past its credit write is about to *)
(* mark the intent, so it must have credited it (PastCredit); and a        *)
(* reference under which credits are, or are about to be, written must be  *)
(* reserved in settledTxRefs (RefsReserved), or another handler could pass *)
(* the check of settleIntent.                                              *)
(***************************************************************************)
(* More counts up to a positive bound.                                     *)
LEMMA MoreType ==
    ASSUME NEW n \in 0..MaxMints
    PROVE  More(n) \in 0..MaxMints /\ More(n) > 0 /\ More(n) >= n
  BY PaymentAssumption DEF More

(* The initial state satisfies the invariant.                              *)
LEMMA PayInitInv == PayInit => PayInv
  BY PaymentAssumption DEF PayInit, PayInv, PayTypeOK, Intents, Status, Proc, PayIdle, SettledIsMinted,
       PastCredit, Settling, RefsReserved, RefMintsOnce, Minting

(* A step that starts no settlement, credits nothing, forgets no reference *)
(* and marks as settled only what was credited keeps the invariant.        *)
LEMMA PayQuietStep ==
    ASSUME PayInv, PayTypeOK',
           UNCHANGED << settledTxRefs, minted, credited >>,
           \A i \in Intents : mem'[i] = "settled" => mem[i] = "settled" \/ minted[i] > 0,
           \A i \in Intents : db'[i] = "settled" => db[i] = "settled" \/ minted[i] > 0,
           \A p \in Procs :
             \/ proc'[p] = proc[p]
             \/ /\ proc'[p].at # "credit"
                /\ proc'[p].at \in {"ask", "expire"} => proc'[p].intent \in Intents
                /\ proc'[p].at \in {"mark", "store", "fee"} =>
                     proc[p].at \in {"mark", "store"} /\ proc'[p].intent = proc[p].intent
    PROVE  PayInv'
  <1> USE DEF PayInv
  <1>1. SettledIsMinted'
    BY DEF SettledIsMinted
  <1>2. PastCredit'
    BY DEF PastCredit, Settling
  <1>3. \A p \in Procs, i \in Intents : Minting(p, i)' => Minting(p, i)
    BY DEF Minting
  <1>4. RefsReserved'
    BY <1>3 DEF RefsReserved
  <1>5. RefMintsOnce'
    BY <1>3 DEF RefMintsOnce
  <1> QED
    BY <1>1, <1>2, <1>4, <1>5

(* Enter moves one process and leaves the others.                          *)
LEMMA EnterType ==
    ASSUME PayTypeOK, NEW p \in Procs, NEW state \in Proc, Enter(p, state)
    PROVE  /\ proc' \in [Procs -> Proc]
           /\ proc'[p] = state
           /\ \A q \in Procs \ {p} : proc'[q] = proc[q]
  BY DEF Enter, PayTypeOK

(* Advance leaves settleIntent: the process is idle or back in its loop.   *)
LEMMA AdvanceType ==
    ASSUME PayTypeOK, NEW p \in Procs, NEW rest \in SUBSET Intents, Advance(p, rest)
    PROVE  /\ proc' \in [Procs -> Proc]
           /\ proc'[p].at \in {"idle", "loop"}
           /\ \A q \in Procs \ {p} : proc'[q] = proc[q]
  <1> DEFINE state == IF rest = {} THEN PayIdle
                      ELSE [at |-> "loop", intent |-> NoIntent, ref |-> Fresh, todo |-> rest]
  <1>1. state \in Proc /\ state.at \in {"idle", "loop"}
    BY DEF Proc, PayIdle
  <1>2. Enter(p, state)
    BY DEF Advance
  <1> HIDE DEF state
  <1> QED
    BY <1>1, <1>2, EnterType

(* Steps that start no settlement and credit nothing.                      *)
LEMMA WorldInv ==
    ASSUME PayInv, Create \/ \E i \in Intents : Pay(i) \/ Age(i)
    PROVE  PayInv'
  <1>1. UNCHANGED << settledTxRefs, minted, credited, proc >>
    BY DEF Create, Pay, Age, history
  <1>2. PayTypeOK'
    <2>1. CASE Create
      BY <2>1, PaymentAssumption DEF PayInv, PayTypeOK, Create, history, Intents, Status
    <2>2. CASE \E i \in Intents : Pay(i) \/ Age(i)
      BY <2>2 DEF PayInv, PayTypeOK, Pay, Age, history
    <2> QED
      BY <2>1, <2>2
  <1>3. \A i \in Intents : /\ mem'[i] = "settled" => mem[i] = "settled"
                           /\ db'[i] = "settled" => db[i] = "settled"
    BY DEF Create, Pay, Age, PayInv, PayTypeOK
  <1> QED
    BY <1>1, <1>2, <1>3, PayQuietStep

(* Mark and Store publish "settled" for an intent that was credited; Fee   *)
(* and the failing writes only leave settleIntent.                         *)
LEMMA AfterCreditInv ==
    ASSUME PayInv, NEW p \in Procs, Mark(p) \/ Store(p) \/ Fee(p) \/ Throws(p)
    PROVE  PayInv'
  <1>0. PayTypeOK /\ proc[p] \in Proc
    BY DEF PayInv, PayTypeOK
  <1>1. CASE Mark(p) \/ Store(p)
    <2>1. PICK at \in {"store", "fee"} : Enter(p, [proc[p] EXCEPT !.at = at])
      BY <1>1 DEF Mark, Store
    <2>2. [proc[p] EXCEPT !.at = at] \in Proc
      BY <1>0 DEF Proc
    <2>3. /\ proc' \in [Procs -> Proc]
          /\ proc'[p].at = at /\ proc'[p].intent = proc[p].intent
          /\ \A q \in Procs \ {p} : proc'[q] = proc[q]
      BY <1>0, <2>1, <2>2, EnterType DEF Proc
    <2>4. /\ proc[p].at \in {"mark", "store"}
          /\ proc[p].intent \in Intents
          /\ minted[proc[p].intent] > 0
          /\ UNCHANGED << issued, paid, old, settledTxRefs, minted, credited >>
          /\ mem' = mem \/ mem' = [mem EXCEPT ![proc[p].intent] = "settled"]
          /\ db' = db \/ db' = [db EXCEPT ![proc[p].intent] = "settled"]
      BY <1>1 DEF Mark, Store, PayInv, PastCredit, Settling, world, history
    <2>5. PayTypeOK'
      BY <1>0, <2>3, <2>4 DEF PayTypeOK, Status
    <2>6. \A i \in Intents : /\ mem'[i] = "settled" => mem[i] = "settled" \/ minted[i] > 0
                             /\ db'[i] = "settled" => db[i] = "settled" \/ minted[i] > 0
      BY <1>0, <2>4 DEF PayTypeOK
    <2> QED
      BY <2>3, <2>4, <2>5, <2>6, PayQuietStep
  <1>2. CASE Fee(p) \/ Throws(p)
    <2>1. /\ proc' \in [Procs -> Proc]
          /\ proc'[p].at \in {"idle", "loop"}
          /\ \A q \in Procs \ {p} : proc'[q] = proc[q]
      <3>1. CASE Fee(p)
        BY <1>0, <3>1, AdvanceType DEF Fee, Proc
      <3>2. CASE Throws(p)
        <4>1. PayIdle \in Proc /\ PayIdle.at = "idle"
          BY DEF PayIdle, Proc
        <4> QED
          BY <1>0, <3>2, <4>1, EnterType DEF Throws
      <3> QED
        BY <1>2, <3>1, <3>2
    <2>2. UNCHANGED << issued, paid, old, mem, db, settledTxRefs, minted, credited >>
      BY <1>2 DEF Fee, Throws, world, history
    <2>3. PayTypeOK'
      BY <1>0, <2>1, <2>2 DEF PayTypeOK
    <2> QED
      BY <2>1, <2>2, <2>3, PayQuietStep
  <1> QED
    BY <1>1, <1>2

(* The loops' own steps keep the invariant.                                *)
LEMMA LoopInv ==
    ASSUME PayInv, NEW p \in Procs,
           \/ Reconcile(p) \/ LoopExpire(p) \/ StoreExpired(p) \/ LoopAsk(p) \/ NotSettled(p)
    PROVE  PayInv'
  <1>0. PayTypeOK /\ proc[p] \in Proc /\ proc[p].todo \in SUBSET Intents
    BY DEF PayInv, PayTypeOK, Proc
  <1>1. UNCHANGED << issued, paid, old, settledTxRefs, minted, credited >>
    BY DEF Reconcile, LoopExpire, StoreExpired, LoopAsk, NotSettled, world, history
  <1>2. CASE Reconcile(p) \/ StoreExpired(p) \/ NotSettled(p)
    <2>1. /\ proc' \in [Procs -> Proc]
          /\ proc'[p].at \in {"idle", "loop"}
          /\ \A q \in Procs \ {p} : proc'[q] = proc[q]
      BY <1>0, <1>2, AdvanceType DEF Reconcile, StoreExpired, NotSettled
    <2>2. /\ mem' = mem
          /\ db' = db \/ (proc[p].at = "expire" /\ db' = [db EXCEPT ![proc[p].intent] = "expired"])
      BY <1>2 DEF Reconcile, StoreExpired, NotSettled
    <2>3. PayTypeOK'
      BY <1>0, <1>1, <2>1, <2>2 DEF PayTypeOK, Status
    <2>4. \A i \in Intents : db'[i] = "settled" => db[i] = "settled"
      BY <1>0, <2>2 DEF PayTypeOK
    <2> QED
      BY <1>1, <2>1, <2>2, <2>3, <2>4, PayQuietStep
  <1>3. CASE LoopExpire(p) \/ LoopAsk(p)
    <2>1. PICK i \in proc[p].todo, at \in {"expire", "ask"} :
            /\ Enter(p, [at |-> at, intent |-> i, ref |-> Fresh, todo |-> proc[p].todo \ {i}])
            /\ mem' = mem \/ mem' = [mem EXCEPT ![i] = "expired"]
            /\ db' = db
      BY <1>3 DEF LoopExpire, LoopAsk, Oldest
    <2> DEFINE state == [at |-> at, intent |-> i, ref |-> Fresh, todo |-> proc[p].todo \ {i}]
    <2>2. state \in Proc /\ state.at = at /\ state.intent = i /\ i \in Intents
      BY <1>0 DEF Proc
    <2>3. /\ proc' \in [Procs -> Proc]
          /\ proc'[p] = state
          /\ \A q \in Procs \ {p} : proc'[q] = proc[q]
      BY <1>0, <2>1, <2>2, EnterType
    <2>4. PayTypeOK'
      BY <1>0, <1>1, <2>1, <2>2, <2>3 DEF PayTypeOK, Status
    <2>5. \A j \in Intents : mem'[j] = "settled" => mem[j] = "settled"
      BY <1>0, <2>1 DEF PayTypeOK
    <2> HIDE DEF state
    <2> QED
      BY <1>1, <2>1, <2>2, <2>3, <2>4, <2>5, PayQuietStep
  <1> QED
    BY <1>2, <1>3

(* settleIntent's first step keeps the invariant: a reference that passes  *)
(* the check has credited nothing and nobody else holds it.                *)
LEMMA BeginInv ==
    ASSUME PayInv, NEW p \in Procs, NEW i \in Intents, NEW ref \in Intents \union {Fresh},
           NEW rest \in SUBSET Intents, Begin(p, i, ref, rest),
           UNCHANGED << world, mem, db, history >>
    PROVE  PayInv'
  <1>0. PayTypeOK
    BY DEF PayInv
  <1>1. UNCHANGED << issued, paid, old, mem, db, minted, credited >>
    BY DEF world, history
  <1>2. CASE ref \in settledTxRefs
    <2>1. PayIdle \in Proc /\ PayIdle.at = "idle"
      BY DEF PayIdle, Proc
    <2>2. /\ proc' \in [Procs -> Proc]
          /\ proc'[p].at = "idle"
          /\ \A q \in Procs \ {p} : proc'[q] = proc[q]
          /\ settledTxRefs' = settledTxRefs
      BY <1>0, <1>2, <2>1, EnterType DEF Begin
    <2>3. PayTypeOK'
      BY <1>0, <1>1, <2>2 DEF PayTypeOK
    <2> QED
      BY <1>1, <2>2, <2>3, PayQuietStep
  <1>3. CASE ref \notin settledTxRefs
    <2> DEFINE state == [at |-> "credit", intent |-> i, ref |-> ref, todo |-> rest]
    <2>1. /\ state \in Proc
          /\ state.at = "credit" /\ state.intent = i /\ state.ref = ref
      BY DEF Proc
    <2>2. /\ proc' \in [Procs -> Proc]
          /\ proc'[p] = state
          /\ \A q \in Procs \ {p} : proc'[q] = proc[q]
          /\ settledTxRefs' = settledTxRefs \union ({ref} \intersect Intents)
      BY <1>0, <1>3, <2>1, EnterType DEF Begin
    <2> HIDE DEF state
    <2>3. PayTypeOK'
      BY <1>0, <1>1, <2>2 DEF PayTypeOK
    <2>4. SettledIsMinted'
      BY <1>1 DEF PayInv, SettledIsMinted
    <2>5. PastCredit'
      BY <1>1, <2>1, <2>2 DEF PayInv, PastCredit, Settling
    <2>6. \A q \in Procs, j \in Intents :
            Minting(q, j)' => \/ q # p /\ Minting(q, j)
                              \/ q = p /\ j = i /\ ref = i
      BY <2>1, <2>2 DEF Minting
    <2>7. RefsReserved'
      BY <1>1, <2>2, <2>6 DEF PayInv, RefsReserved
    <2>8. ref = i => i \notin credited /\ \A q \in Procs : ~Minting(q, i)
      BY <1>3 DEF PayInv, RefsReserved
    <2>9. RefMintsOnce'
      BY <1>1, <2>6, <2>8 DEF PayInv, RefMintsOnce
    <2> QED
      BY <2>3, <2>4, <2>5, <2>7, <2>9 DEF PayInv
  <1> QED
    BY <1>2, <1>3

(* Webhook, confirm and the loops reach settleIntent only with an intent   *)
(* and a reference, its own or any other.                                  *)
LEMMA SettleStartInv ==
    ASSUME PayInv, NEW p \in Procs,
           \/ LoopSettle(p)
           \/ \E i \in Intents : \E ref \in Intents \union {Fresh} : Webhook(p, i, ref) \/ Confirm(p, i, ref)
    PROVE  PayInv'
  <1>0. proc[p].todo \in SUBSET Intents
    BY DEF PayInv, PayTypeOK, Proc
  <1>1. CASE LoopSettle(p)
    <2>1. proc[p].intent \in Intents
      BY <1>1 DEF LoopSettle, PayInv, PastCredit, Settling
    <2>2. PICK ref \in Intents \union {Fresh} : Begin(p, proc[p].intent, ref, proc[p].todo)
      BY <1>1, <2>1 DEF LoopSettle
    <2> QED
      BY <1>0, <1>1, <2>1, <2>2, BeginInv DEF LoopSettle
  <1>2. ASSUME NEW i \in Intents, NEW ref \in Intents \union {Fresh}, Webhook(p, i, ref) \/ Confirm(p, i, ref)
        PROVE  PayInv'
    BY <1>2, BeginInv DEF Webhook, Confirm
  <1> QED
    BY <1>1, <1>2

(* The credit write keeps the invariant: the handler leaves "credit", and  *)
(* no other handler is about to credit under the same reference.           *)
LEMMA CreditInv ==
    ASSUME PayInv, NEW p \in Procs, Credit(p) \/ CreditUnanswered(p)
    PROVE  PayInv'
  <1> DEFINE i == proc[p].intent
  <1>0. /\ PayTypeOK /\ proc[p] \in Proc /\ proc[p].at = "credit"
        /\ i \in Intents /\ Minted(p)
        /\ UNCHANGED << issued, paid, old, mem, db, settledTxRefs >>
    BY DEF PayInv, PayTypeOK, PastCredit, Settling, Credit, CreditUnanswered, world
  <1>1. /\ proc' \in [Procs -> Proc]
        /\ \A q \in Procs \ {p} : proc'[q] = proc[q]
        /\ \/ proc'[p].at = "idle"
           \/ proc'[p].at = "mark" /\ proc'[p].intent = i
    <2>1. CASE Credit(p)
      <3> DEFINE state == [proc[p] EXCEPT !.at = "mark", !.ref = Fresh]
      <3>1. state \in Proc /\ state.at = "mark" /\ state.intent = i
        BY <1>0 DEF Proc
      <3>2. Enter(p, state)
        BY <2>1 DEF Credit
      <3> HIDE DEF state
      <3> QED
        BY <1>0, <3>1, <3>2, EnterType
    <2>2. CASE CreditUnanswered(p)
      <3>1. PayIdle \in Proc /\ PayIdle.at = "idle"
        BY DEF PayIdle, Proc
      <3> QED
        BY <1>0, <2>2, <3>1, EnterType DEF CreditUnanswered
    <2> QED
      BY <2>1, <2>2
  <1>2. /\ minted' \in [Intents -> 0..MaxMints]
        /\ \A j \in Intents : minted'[j] >= minted[j]
        /\ minted'[i] > 0
    <2>1. minted \in [Intents -> 0..MaxMints] /\ minted' = [minted EXCEPT ![i] = More(minted[i])]
      BY <1>0 DEF PayTypeOK, Minted
    <2>2. More(minted[i]) \in 0..MaxMints /\ More(minted[i]) > 0 /\ More(minted[i]) >= minted[i]
      BY <1>0, <2>1, MoreType
    <2>3. \A j \in Intents : minted[j] >= minted[j]
      BY <2>1
    <2> QED
      BY <1>0, <2>1, <2>2, <2>3
  <1>3. credited' = IF proc[p].ref = i THEN credited \union {i} ELSE credited
    BY <1>0 DEF Minted
  <1> HIDE DEF i
  <1>4. PayTypeOK'
    BY <1>0, <1>1, <1>2, <1>3 DEF PayTypeOK
  <1>5. \A j \in Intents : minted[j] > 0 => minted'[j] > 0
    BY <1>0, <1>2 DEF PayTypeOK
  <1>6. SettledIsMinted'
    BY <1>0, <1>5 DEF PayInv, SettledIsMinted
  <1>7. PastCredit'
    BY <1>0, <1>1, <1>2, <1>5 DEF PayInv, PastCredit, Settling
  <1>8. \A q \in Procs, j \in Intents : Minting(q, j)' => q # p /\ Minting(q, j)
    BY <1>1 DEF Minting
  <1>9. proc[p].ref = i => Minting(p, i)
    BY <1>0 DEF Minting, i
  <1>10. RefsReserved'
    BY <1>0, <1>3, <1>8, <1>9 DEF PayInv, RefsReserved
  <1>11. RefMintsOnce'
    BY <1>0, <1>3, <1>8, <1>9 DEF PayInv, RefMintsOnce
  <1> QED
    BY <1>4, <1>6, <1>7, <1>10, <1>11 DEF PayInv

(* After a restart no handler runs and no reference counts.                *)
LEMMA RestartInv == ASSUME PayInv, Restart PROVE PayInv'
  <1>1. PayIdle \in Proc /\ PayIdle.at = "idle"
    BY DEF PayIdle, Proc
  <1>2. \A p \in Procs : proc'[p] = PayIdle
    BY DEF Restart
  <1>3. PayTypeOK'
    BY <1>1 DEF Restart, PayInv, PayTypeOK, Status, world
  <1>4. SettledIsMinted'
    BY DEF Restart, PayInv, SettledIsMinted, world
  <1>5. PastCredit' /\ RefsReserved' /\ RefMintsOnce'
    BY <1>1, <1>2 DEF Restart, PastCredit, Settling, RefsReserved, RefMintsOnce, Minting
  <1> QED
    BY <1>3, <1>4, <1>5 DEF PayInv

-----------------------------------------------------------------------------
(* The invariant holds in every reachable state.                           *)
THEOREM PayInvariance == PaySafetySpec => []PayInv
  <1>1. ASSUME PayInv, [PayNext]_payVars PROVE PayInv'
    <2>1. CASE UNCHANGED payVars
      <3>1. PayTypeOK'
        BY <1>1, <2>1 DEF payVars, PayInv, PayTypeOK
      <3> QED
        BY <1>1, <2>1, <3>1, PayQuietStep DEF payVars
    <2>2. CASE Create \/ \E i \in Intents : Pay(i) \/ Age(i)
      BY <1>1, <2>2, WorldInv
    <2>3. ASSUME NEW p \in Procs,
                 \/ Settle(p) \/ CreditUnanswered(p) \/ Throws(p)
                 \/ Reconcile(p) \/ Loop(p) \/ NotSettled(p)
                 \/ \E i \in Intents : \E ref \in Intents \union {Fresh} :
                      Webhook(p, i, ref) \/ Confirm(p, i, ref)
          PROVE  PayInv'
      BY <1>1, <2>3, AfterCreditInv, LoopInv, SettleStartInv, CreditInv DEF Settle, Loop
    <2>4. CASE Restart
      BY <1>1, <2>4, RestartInv
    <2> QED
      BY <1>1, <2>1, <2>2, <2>3, <2>4 DEF PayNext
  <1> QED
    BY <1>1, PayInitInv, PTL DEF PaySafetySpec

(* Whatever fails or restarts, an intent shown as settled was credited     *)
(* (settleIntent: adjustCredits before paymentIntents.set and upsert).     *)
THEOREM SettledMeansMinted == PaySafetySpec => []SettledIsMinted
  BY PayInvariance, PTL DEF PayInv

(* settledTxRefs works: between restarts, the reference of an invoice      *)
(* credits once.                                                           *)
THEOREM RefsMintOnce == PaySafetySpec => []RefMintsOnce
  BY PayInvariance, PTL DEF PayInv

-----------------------------------------------------------------------------
(***************************************************************************)
(* PaymentIntents implements PurchaseLife.  A handler reads an intent, or  *)
(* what is pending, some steps before it credits or writes: PurchaseInv    *)
(* says that what it works on has been offered, and that nothing else is   *)
(* in memory or in the store.                                              *)
(***************************************************************************)
Offered == 1 .. issued

(* What a process at state works on has been offered.                      *)
WorksOnKnown(state, off) ==
    /\ state.todo \subseteq off
    /\ state.at \in Settling \union {"ask", "expire"} => state.intent \in off

PurchaseInv ==
    /\ \A i \in Intents : db[i] # "none" \/ mem[i] # "none" => i \in Offered
    /\ \A p \in Procs : WorksOnKnown(proc[p], Offered)

(* Offers are never taken back, so what was known stays known.             *)
LEMMA StaysKnown ==
    ASSUME NEW state, NEW off, NEW off2, WorksOnKnown(state, off), off \subseteq off2
    PROVE  WorksOnKnown(state, off2)
BY DEF WorksOnKnown

(* A step of one process that moves to something known keeps PurchaseInv.  *)
LEMMA ProcessStep ==
    ASSUME PayTypeOK, PurchaseInv, NEW p \in Procs, NEW state \in Proc, Enter(p, state),
           UNCHANGED issued,
           WorksOnKnown(state, Offered),
           \A i \in Intents : \/ db'[i] = db[i] /\ mem'[i] = mem[i]
                              \/ i \in Offered
    PROVE  PurchaseInv'
<1>1. UNCHANGED Offered
  BY DEF Offered
<1>2. /\ proc'[p] = state
      /\ \A q \in Procs \ {p} : proc'[q] = proc[q]
  BY EnterType
<1> QED BY <1>1, <1>2 DEF PurchaseInv

(* A process that goes on with a list of offered intents, or rests.        *)
LEMMA AdvanceKnown ==
    ASSUME PayTypeOK, PurchaseInv, NEW p \in Procs, NEW rest \in SUBSET Intents, Advance(p, rest),
           rest \subseteq Offered, UNCHANGED issued,
           \A i \in Intents : \/ db'[i] = db[i] /\ mem'[i] = mem[i]
                              \/ i \in Offered
    PROVE  PurchaseInv'
<1> DEFINE state == IF rest = {} THEN PayIdle
                    ELSE [at |-> "loop", intent |-> NoIntent, ref |-> Fresh, todo |-> rest]
<1>1. state \in Proc /\ WorksOnKnown(state, Offered)
  BY DEF Proc, PayIdle, WorksOnKnown, Settling
<1>2. Enter(p, state)
  BY DEF Advance
<1> HIDE DEF state
<1> QED BY <1>1, <1>2, ProcessStep

(* A handler that rests works on nothing.                                  *)
LEMMA IdleKnown == PayIdle \in Proc /\ WorksOnKnown(PayIdle, Offered)
BY DEF PayIdle, Proc, WorksOnKnown, Settling

(* Creating and paying an intent, and time, keep what is known.            *)
LEMMA WorldKnown ==
    ASSUME PayInv, PurchaseInv, Create \/ \E i \in Intents : Pay(i) \/ Age(i)
    PROVE  PurchaseInv'
<1>1. issued \in Nat /\ issued' \in Nat /\ Offered \subseteq Offered' /\ UNCHANGED proc
  BY PaymentAssumption DEF Create, Pay, Age, Offered, PayInv, PayTypeOK, history
<1>2. \A i \in Intents : db'[i] # "none" \/ mem'[i] # "none" => i \in Offered'
  <2>1. CASE Create
    <3>1. issued + 1 \in Offered'
      BY <1>1, <2>1 DEF Create, Offered
    <3>2. \A i \in Intents \ {issued + 1} : db'[i] = db[i] /\ mem'[i] = mem[i]
      BY <2>1 DEF Create, PayInv, PayTypeOK
    <3> QED BY <1>1, <3>1, <3>2 DEF PurchaseInv
  <2>2. CASE \E i \in Intents : Pay(i) \/ Age(i)
    BY <1>1, <2>2 DEF Pay, Age, PurchaseInv
  <2> QED BY <2>1, <2>2
<1>3. \A p \in Procs : WorksOnKnown(proc'[p], Offered')
  BY <1>1, StaysKnown DEF PurchaseInv
<1> QED BY <1>2, <1>3 DEF PurchaseInv

(* settleIntent after its check and the ends of a handler.                 *)
LEMMA SettleKnown ==
    ASSUME PayInv, PurchaseInv, NEW p \in Procs,
           \/ Settle(p) \/ CreditUnanswered(p) \/ Throws(p) \/ NotSettled(p) \/ StoreExpired(p)
    PROVE  PurchaseInv'
<1>1. /\ PayTypeOK /\ proc[p] \in Proc /\ proc[p].todo \in SUBSET Intents
      /\ WorksOnKnown(proc[p], Offered) /\ proc[p].todo \subseteq Offered
      /\ proc[p].at \in Settling \union {"ask", "expire"} => proc[p].intent \in Intents
  BY DEF PayInv, PayTypeOK, Proc, PurchaseInv, PastCredit, WorksOnKnown
<1>2. UNCHANGED issued
  BY DEF Settle, Credit, Mark, Store, Fee, CreditUnanswered, Throws, NotSettled, StoreExpired, world
<1>3. \A i \in Intents : \/ db'[i] = db[i] /\ mem'[i] = mem[i]
                         \/ i \in Offered
  BY <1>1 DEF Settle, Credit, Mark, Store, Fee, CreditUnanswered, Throws, NotSettled, StoreExpired,
              PayInv, PayTypeOK, Settling, WorksOnKnown
<1>4. CASE Fee(p) \/ NotSettled(p) \/ StoreExpired(p)
  <2>1. Advance(p, proc[p].todo)
    BY <1>4 DEF Fee, NotSettled, StoreExpired
  <2> QED BY <1>1, <1>2, <1>3, <2>1, AdvanceKnown
<1>5. CASE CreditUnanswered(p) \/ Throws(p)
  <2>1. Enter(p, PayIdle)
    BY <1>5 DEF CreditUnanswered, Throws
  <2> QED BY <1>1, <1>2, <1>3, <2>1, IdleKnown, ProcessStep
<1>6. CASE Mark(p) \/ Store(p)
  <2>1. PICK at \in {"store", "fee"} : Enter(p, [proc[p] EXCEPT !.at = at])
    BY <1>6 DEF Mark, Store
  <2>2. proc[p].at \in Settling
    BY <1>6 DEF Mark, Store, Settling
  <2>3. [proc[p] EXCEPT !.at = at] \in Proc /\ WorksOnKnown([proc[p] EXCEPT !.at = at], Offered)
    BY <1>1, <2>2 DEF Proc, WorksOnKnown
  <2> QED BY <1>1, <1>2, <1>3, <2>1, <2>3, ProcessStep
<1>7. CASE Credit(p)
  <2> DEFINE state == [proc[p] EXCEPT !.at = "mark", !.ref = Fresh]
  <2>1. Enter(p, state)
    BY <1>7 DEF Credit
  <2>2. proc[p].at \in Settling
    BY <1>7 DEF Credit, Settling
  <2>3. state \in Proc /\ WorksOnKnown(state, Offered)
    BY <1>1, <2>2 DEF Proc, WorksOnKnown
  <2> HIDE DEF state
  <2> QED BY <1>1, <1>2, <1>3, <2>1, <2>3, ProcessStep
<1> QED BY <1>4, <1>5, <1>6, <1>7 DEF Settle

(* Whoever begins a settlement has found the intent.                       *)
LEMMA BeginKnown ==
    ASSUME PayTypeOK, PurchaseInv, NEW p \in Procs, NEW i \in Intents,
           NEW ref \in Intents \union {Fresh}, NEW rest \in SUBSET Intents,
           Begin(p, i, ref, rest), i \in Offered, rest \subseteq Offered,
           UNCHANGED << issued, mem, db >>
    PROVE  PurchaseInv'
<1> DEFINE state == [at |-> "credit", intent |-> i, ref |-> ref, todo |-> rest]
<1>1. state \in Proc /\ WorksOnKnown(state, Offered)
  BY DEF Proc, WorksOnKnown
<1>2. Enter(p, PayIdle) \/ Enter(p, state)
  BY DEF Begin
<1> HIDE DEF state
<1> QED BY <1>1, <1>2, IdleKnown, ProcessStep

(* Webhooks, confirmations and the loops read before they act.             *)
LEMMA ReadersKnown ==
    ASSUME PayInv, PurchaseInv, NEW p \in Procs,
           \/ \E i \in Intents : \E ref \in Intents \union {Fresh} : Webhook(p, i, ref) \/ Confirm(p, i, ref)
           \/ Reconcile(p) \/ LoopExpire(p) \/ LoopAsk(p) \/ LoopSettle(p)
    PROVE  PurchaseInv'
<1>1. /\ PayTypeOK /\ proc[p] \in Proc /\ proc[p].todo \in SUBSET Intents
      /\ proc[p].todo \subseteq Offered
      /\ WorksOnKnown(proc[p], Offered)
  BY DEF PayInv, PayTypeOK, Proc, PurchaseInv, WorksOnKnown
<1>2. UNCHANGED << issued, db >>
  BY DEF Webhook, Confirm, Reconcile, LoopExpire, LoopAsk, LoopSettle, world
<1>3. ASSUME NEW i \in Intents, NEW ref \in Intents \union {Fresh}, Webhook(p, i, ref) \/ Confirm(p, i, ref)
      PROVE  PurchaseInv'
  <2>1. Begin(p, i, ref, {}) /\ i \in Offered /\ UNCHANGED mem
    BY <1>3 DEF Webhook, Confirm, PurchaseInv
  <2> QED BY <1>1, <1>2, <2>1, BeginKnown
<1>4. CASE Reconcile(p)
  <2> DEFINE pending == {i \in Intents : db[i] = "created"}
  <2>1. Advance(p, pending) /\ pending \in SUBSET Intents /\ pending \subseteq Offered
    BY <1>4 DEF Reconcile, PurchaseInv
  <2> HIDE DEF pending
  <2>2. UNCHANGED mem
    BY <1>4 DEF Reconcile
  <2> QED BY <1>1, <1>2, <2>1, <2>2, AdvanceKnown
<1>5. CASE LoopExpire(p) \/ LoopAsk(p)
  <2>1. PICK i \in proc[p].todo, at \in {"expire", "ask"} :
           Enter(p, [at |-> at, intent |-> i, ref |-> Fresh, todo |-> proc[p].todo \ {i}])
    BY <1>5 DEF LoopExpire, LoopAsk, Oldest
  <2> DEFINE state == [at |-> at, intent |-> i, ref |-> Fresh, todo |-> proc[p].todo \ {i}]
  <2>2. state \in Proc /\ WorksOnKnown(state, Offered)
    BY <1>1 DEF Proc, WorksOnKnown
  <2>3. \A j \in Intents : mem'[j] = mem[j] \/ j \in Offered
    BY <1>1, <1>5 DEF LoopExpire, LoopAsk, Oldest, PayTypeOK
  <2> HIDE DEF state
  <2> QED BY <1>1, <1>2, <2>1, <2>2, <2>3, ProcessStep DEF state
<1>6. CASE LoopSettle(p)
  <2>1. proc[p].intent \in Intents /\ proc[p].intent \in Offered /\ UNCHANGED mem
    BY <1>1, <1>6 DEF LoopSettle, PayInv, PastCredit, Settling, WorksOnKnown
  <2>2. PICK ref \in Intents \union {Fresh} : Begin(p, proc[p].intent, ref, proc[p].todo)
    BY <1>6, <2>1 DEF LoopSettle
  <2> QED BY <1>1, <1>2, <1>6, <2>1, <2>2, BeginKnown DEF LoopSettle
<1> QED BY <1>3, <1>4, <1>5, <1>6

(* After a restart nothing is under way.                                   *)
LEMMA RestartKnown == ASSUME PurchaseInv, Restart PROVE PurchaseInv'
<1>1. UNCHANGED << issued, db >> /\ \A p \in Procs : proc'[p] = PayIdle
  BY DEF Restart, world
<1>2. \A i \in Intents : mem'[i] # "none" => db[i] # "none"
  BY DEF Restart
<1> QED BY <1>1, <1>2, IdleKnown DEF PurchaseInv, Offered

(* What handlers work on has been offered, in every state.                 *)
LEMMA KnownInvariance == PaySafetySpec => []PurchaseInv
<1>1. PayInit => PurchaseInv
  BY DEF PayInit, PurchaseInv, PayIdle, WorksOnKnown, Settling
<1>2. PayInv /\ PurchaseInv /\ [PayNext]_payVars => PurchaseInv'
  <2> SUFFICES ASSUME PayInv, PurchaseInv, [PayNext]_payVars PROVE PurchaseInv'
    OBVIOUS
  <2>1. CASE Create \/ \E i \in Intents : Pay(i) \/ Age(i)
    BY <2>1, WorldKnown
  <2>2. ASSUME NEW p \in Procs,
               \/ Settle(p) \/ CreditUnanswered(p) \/ Throws(p)
               \/ Reconcile(p) \/ Loop(p) \/ NotSettled(p)
               \/ \E i \in Intents : \E ref \in Intents \union {Fresh} :
                    Webhook(p, i, ref) \/ Confirm(p, i, ref)
        PROVE  PurchaseInv'
    BY <2>2, SettleKnown, ReadersKnown DEF Loop
  <2>3. CASE Restart
    BY <2>3, RestartKnown
  <2>4. CASE UNCHANGED payVars
    BY <2>4 DEF payVars, PurchaseInv, Offered
  <2> QED BY <2>1, <2>2, <2>3, <2>4 DEF PayNext
<1> QED BY <1>1, <1>2, PayInvariance, PTL DEF PaySafetySpec

(* A step that touches neither the world nor the store nor the credits is  *)
(* none of the purchase's.                                                 *)
LEMMA QuietPurchase ==
    ASSUME UNCHANGED << issued, minted, credited, db >>
    PROVE  UNCHANGED Purchase!lifeVars
BY DEF Purchase!lifeVars

(* The step that offers an invoice.                                        *)
LEMMA CreateOffers == ASSUME PayInv, Create PROVE Purchase!LifeNext
<1>1. issued \in Nat /\ issued + 1 \in Intents /\ issued' = issued + 1
  BY PaymentAssumption DEF Create, PayInv, PayTypeOK, Intents
<1>2. issued + 1 \notin 1 .. issued /\ 1 .. issued' = (1 .. issued) \union {issued + 1}
  BY <1>1
<1>3. Purchase!Offer(issued + 1)
  BY <1>2 DEF Create, Purchase!Offer, history
<1> QED BY <1>1, <1>3 DEF Purchase!LifeNext

(* The credit write, answered or not: what it credits was offered, and     *)
(* under its own reference it was not credited before (RefMintsOnce).      *)
LEMMA CreditCredits ==
    ASSUME PayInv, PurchaseInv, NEW p \in Procs, Credit(p) \/ CreditUnanswered(p)
    PROVE  Purchase!LifeNext
<1> DEFINE i == proc[p].intent
           own == proc[p].ref = i
<1>1. proc[p].at = "credit" /\ Minted(p) /\ UNCHANGED << issued, db >>
  BY DEF Credit, CreditUnanswered, world
<1>2. i \in Intents /\ i \in 1 .. issued
  BY <1>1 DEF PayInv, PastCredit, Settling, PurchaseInv, WorksOnKnown, Offered
<1>3. own => i \notin credited
  BY <1>1, <1>2 DEF PayInv, RefMintsOnce, Minting
<1>4. /\ credited' = IF own THEN credited \union {i} ELSE credited
      /\ minted' = [minted EXCEPT ![i] = IF @ < MaxMints THEN @ + 1 ELSE @]
  BY <1>1 DEF Minted, More
<1>5. own \in BOOLEAN
  OBVIOUS
<1> HIDE DEF i, own
<1>6. Purchase!CreditOnce(i, own)
  BY <1>1, <1>2, <1>3, <1>4 DEF Purchase!CreditOnce
<1> QED BY <1>2, <1>5, <1>6 DEF Purchase!LifeNext

(* The writes of how an intent ended.                                      *)
LEMMA WriteEnds ==
    ASSUME PayInv, PurchaseInv, NEW p \in Procs, Store(p) \/ StoreExpired(p)
    PROVE  Purchase!LifeNext
<1> DEFINE i == proc[p].intent
<1>1. i \in Offered /\ i \in Intents
  BY DEF Store, StoreExpired, PayInv, PastCredit, Settling, PurchaseInv, WorksOnKnown
<1>2. CASE Store(p)
  <2>1. minted[i] > 0
    BY <1>2 DEF Store, PayInv, PastCredit, Settling
  <2>2. db' = [db EXCEPT ![i] = "settled"] /\ UNCHANGED << issued, minted, credited >>
    BY <1>2 DEF Store, world, history
  <2> HIDE DEF i
  <2>3. Purchase!Ends(i, "settled")
    BY <1>1, <2>1, <2>2 DEF Purchase!Ends, Offered
  <2> QED BY <1>1, <2>3 DEF Purchase!LifeNext
<1>3. CASE StoreExpired(p)
  <2>1. db' = [db EXCEPT ![i] = "expired"] /\ UNCHANGED << issued, minted, credited >>
    BY <1>3 DEF StoreExpired, world, history
  <2> HIDE DEF i
  <2>2. Purchase!Ends(i, "expired")
    BY <1>1, <2>1 DEF Purchase!Ends, Offered
  <2> QED BY <1>1, <2>2 DEF Purchase!LifeNext
<1> QED BY <1>2, <1>3

(* For any number of intents, handlers and restarts, the coordinator does  *)
(* with a purchase what PurchaseLife allows: it credits what was offered,  *)
(* once per node's reference while it remembers it, and its books show an  *)
(* intent as settled only after that and never as pending again.           *)
THEOREM IntentsImplementPurchase == PaySafetySpec => BooksFollowCredits
<1>1. PayInit => Purchase!LifeInit
  <2>1. ASSUME PayInit PROVE 1 .. issued = {}
    BY <2>1 DEF PayInit
  <2> QED BY <2>1 DEF PayInit, Purchase!LifeInit
<1>2. PayInv /\ PurchaseInv /\ [PayNext]_payVars => [Purchase!LifeNext]_(Purchase!lifeVars)
  <2> SUFFICES ASSUME PayInv, PurchaseInv, [PayNext]_payVars
               PROVE  Purchase!LifeNext \/ UNCHANGED Purchase!lifeVars
    OBVIOUS
  <2>1. CASE Create
    BY <2>1, CreateOffers
  <2>2. ASSUME NEW p \in Procs, Credit(p) \/ CreditUnanswered(p) PROVE Purchase!LifeNext
    BY <2>2, CreditCredits
  <2>3. ASSUME NEW p \in Procs, Store(p) \/ StoreExpired(p) PROVE Purchase!LifeNext
    BY <2>3, WriteEnds
  <2>4. CASE Restart
    BY <2>4 DEF Restart, world, Purchase!LifeNext, Purchase!Forget
  <2>5. ASSUME NEW p \in Procs,
               \/ Mark(p) \/ Fee(p) \/ Throws(p) \/ Reconcile(p) \/ NotSettled(p)
               \/ LoopExpire(p) \/ LoopAsk(p) \/ LoopSettle(p)
               \/ \E i \in Intents : \E ref \in Intents \union {Fresh} :
                    Webhook(p, i, ref) \/ Confirm(p, i, ref)
        PROVE  UNCHANGED Purchase!lifeVars
    <3>1. UNCHANGED << issued, minted, credited, db >>
      BY <2>5 DEF Mark, Fee, Throws, Reconcile, NotSettled, LoopExpire, LoopAsk, LoopSettle,
                  Webhook, Confirm, world, history
    <3> QED BY <3>1, QuietPurchase
  <2>6. CASE (\E i \in Intents : Pay(i) \/ Age(i)) \/ UNCHANGED payVars
    <3>1. UNCHANGED << issued, minted, credited, db >>
      BY <2>6 DEF Pay, Age, payVars, history
    <3> QED BY <3>1, QuietPurchase
  <2> QED BY <2>1, <2>2, <2>3, <2>4, <2>5, <2>6 DEF PayNext, Settle, Loop
<1> QED BY <1>1, <1>2, PayInvariance, KnownInvariance, PTL
        DEF PaySafetySpec, BooksFollowCredits, Purchase!LifeSpec

-----------------------------------------------------------------------------
(***************************************************************************)
(* Robot task queue. LedgerMatchesTasks needs two facts to be inductive:   *)
(* entries refer to existing tasks, and a task whose proof was submitted   *)
(* has a claimant. The rest is the arithmetic of computeIntentFee          *)
(* (FeeSplit).                                                             *)
(***************************************************************************)
(* The types the ledger depends on.                                        *)
LedgerTypes ==
    /\ agents \subseteq Robots
    /\ tasks \in Seq(Task)
    /\ Len(tasks) <= MaxTasks
    /\ earnings \in Seq(Entry)

EntriesHaveTasks == \A k \in DOMAIN earnings : earnings[k].task \in DOMAIN tasks

ClaimedHasRobot ==
    \A t \in DOMAIN tasks :
      tasks[t].status \in {"claimed", "proof_submitted"} => tasks[t].claimedBy \in Robots

RobotInv == LedgerTypes /\ EntriesHaveTasks /\ ClaimedHasRobot /\ LedgerMatchesTasks

-----------------------------------------------------------------------------
(* The fee never exceeds the amount, and fee and net amount add up to it.  *)
LEMMA FeeSplit ==
    ASSUME NEW amount \in Nat
    PROVE  /\ FeeSats(amount) \in Nat
           /\ NetSats(amount) \in Nat
           /\ amount = FeeSats(amount) + NetSats(amount)
  <1>1. FeeBps \in Nat /\ FeeBps <= 10000
    BY RobotAssumption
  <1>2. amount * FeeBps \in Nat /\ amount * FeeBps <= amount * 10000
    BY <1>1
  <1>3. FeeSats(amount) \in Nat /\ FeeSats(amount) <= amount
    <2> DEFINE x == amount * FeeBps
    <2>1. x \in Nat /\ x <= 10000 * amount
      BY <1>2
    <2> HIDE DEF x
    <2>2. x \div 10000 \in Nat /\ x \div 10000 <= amount
      BY <2>1
    <2> QED
      BY <2>2 DEF FeeSats, x
  <1> QED
    BY <1>3 DEF NetSats

(* The initial state satisfies the invariant.                              *)
LEMMA RobotInitInv == Init => RobotInv
  BY RobotAssumption DEF Init, RobotInv, LedgerTypes, EntriesHaveTasks, ClaimedHasRobot, LedgerMatchesTasks

(* A step that changes some tasks, but neither their sats nor which of     *)
(* them are settled, nor the claimant of a settled one.                    *)
LEMMA TaskStep ==
    ASSUME RobotInv, agents' \subseteq Robots, earnings' = earnings,
           tasks' \in Seq(Task), Len(tasks') = Len(tasks),
           \A t \in 1..Len(tasks) :
             /\ tasks'[t].escrowSats = tasks[t].escrowSats
             /\ tasks'[t].rewardSats = tasks[t].rewardSats
             /\ tasks'[t].coordinatorFeeSats = tasks[t].coordinatorFeeSats
             /\ tasks'[t].status = "settled" <=> tasks[t].status = "settled"
             /\ tasks[t].status = "settled" => tasks'[t].claimedBy = tasks[t].claimedBy
             /\ tasks'[t].status \in {"claimed", "proof_submitted"} => tasks'[t].claimedBy \in Robots
    PROVE  RobotInv'
  <1>1. DOMAIN tasks' = 1..Len(tasks) /\ DOMAIN tasks = 1..Len(tasks)
    BY DEF RobotInv, LedgerTypes
  <1>2. LedgerTypes' /\ EntriesHaveTasks' /\ ClaimedHasRobot'
    BY <1>1 DEF RobotInv, LedgerTypes, EntriesHaveTasks, ClaimedHasRobot
  <1>3. LedgerMatchesTasks'
    <2>1. \A t \in DOMAIN tasks' :
            /\ tasks'[t].escrowSats = tasks'[t].coordinatorFeeSats + tasks'[t].rewardSats
            /\ tasks'[t].status = "settled" <=> \E k \in DOMAIN earnings : earnings[k].task = t
      BY <1>1 DEF RobotInv, LedgerMatchesTasks
    <2>2. ASSUME NEW k \in DOMAIN earnings
          PROVE  /\ earnings[k].agent = tasks'[earnings[k].task].claimedBy
                 /\ earnings[k].sats = tasks'[earnings[k].task].rewardSats
      <3>1. earnings[k].task \in 1..Len(tasks) /\ tasks[earnings[k].task].status = "settled"
        BY <1>1 DEF RobotInv, EntriesHaveTasks, LedgerMatchesTasks
      <3> QED
        BY <3>1 DEF RobotInv, LedgerMatchesTasks
    <2> QED
      BY <2>1, <2>2 DEF RobotInv, LedgerMatchesTasks
  <1> QED
    BY <1>2, <1>3 DEF RobotInv

(* Overwriting one field-changed task keeps a sequence of tasks.           *)
LEMMA SetTask ==
    ASSUME NEW s \in Seq(Task), NEW t \in DOMAIN s, NEW x \in Task
    PROVE  /\ [s EXCEPT ![t] = x] \in Seq(Task)
           /\ Len([s EXCEPT ![t] = x]) = Len(s)
           /\ \A u \in 1..Len(s) : [s EXCEPT ![t] = x][u] = IF u = t THEN x ELSE s[u]
  OBVIOUS

(* The life-cycle steps of one task.                                       *)
LEMMA OneTaskInv ==
    ASSUME RobotInv, NEW t \in DOMAIN tasks,
           \/ MarkFunded(t) \/ TimePasses(t) \/ DisputeTask(t)
           \/ \E r \in Robots : ClaimTask(t, r) \/ SubmitProof(t, r)
    PROVE  RobotInv'
  <1>0. /\ tasks \in Seq(Task) /\ tasks[t] \in Task
        /\ UNCHANGED << agents, earnings >>
    <2>1. tasks \in Seq(Task)
      BY DEF RobotInv, LedgerTypes
    <2>2. tasks[t] \in Task
      BY <2>1
    <2>3. UNCHANGED << agents, earnings >>
      BY DEF MarkFunded, TimePasses, DisputeTask, ClaimTask, SubmitProof
    <2> QED
      BY <2>1, <2>2, <2>3
  <1>1. PICK x \in Task :
          /\ tasks' = [tasks EXCEPT ![t] = x]
          /\ x.escrowSats = tasks[t].escrowSats
          /\ x.rewardSats = tasks[t].rewardSats
          /\ x.coordinatorFeeSats = tasks[t].coordinatorFeeSats
          /\ tasks[t].status # "settled" /\ x.status # "settled"
          /\ x.status \in {"claimed", "proof_submitted"} => x.claimedBy \in Robots
    <2>1. CASE MarkFunded(t)
      <3>1. [tasks[t] EXCEPT !.status = "funded"] \in Task
        BY <1>0 DEF Task, Statuses
      <3> QED
        BY <1>0, <2>1, <3>1 DEF MarkFunded, Task
    <2>2. CASE TimePasses(t)
      <3>1. [tasks[t] EXCEPT !.late = TRUE] \in Task
        BY <1>0 DEF Task, Statuses
      <3> QED
        BY <1>0, <2>2, <3>1 DEF TimePasses, Task, RobotInv, ClaimedHasRobot
    <2>3. CASE DisputeTask(t)
      <3>1. [tasks[t] EXCEPT !.status = "disputed"] \in Task
        BY <1>0 DEF Task, Statuses
      <3> QED
        BY <1>0, <2>3, <3>1 DEF DisputeTask, Task
    <2>4. ASSUME NEW r \in Robots, ClaimTask(t, r)
          PROVE  \E x \in Task :
                   /\ tasks' = [tasks EXCEPT ![t] = x]
                   /\ x.escrowSats = tasks[t].escrowSats
                   /\ x.rewardSats = tasks[t].rewardSats
                   /\ x.coordinatorFeeSats = tasks[t].coordinatorFeeSats
                   /\ tasks[t].status # "settled" /\ x.status # "settled"
                   /\ x.status \in {"claimed", "proof_submitted"} => x.claimedBy \in Robots
      <3> DEFINE x == [tasks[t] EXCEPT !.status = "claimed", !.claimedBy = r]
      <3>1. x \in Task
        BY <1>0 DEF Task, Statuses
      <3>2. tasks' = [tasks EXCEPT ![t] = x]
        BY <1>0, <2>4 DEF ClaimTask
      <3> WITNESS x \in Task
      <3> QED
        BY <1>0, <2>4, <3>2 DEF ClaimTask, Task
    <2>5. ASSUME NEW r \in Robots, SubmitProof(t, r)
          PROVE  \E x \in Task :
                   /\ tasks' = [tasks EXCEPT ![t] = x]
                   /\ x.escrowSats = tasks[t].escrowSats
                   /\ x.rewardSats = tasks[t].rewardSats
                   /\ x.coordinatorFeeSats = tasks[t].coordinatorFeeSats
                   /\ tasks[t].status # "settled" /\ x.status # "settled"
                   /\ x.status \in {"claimed", "proof_submitted"} => x.claimedBy \in Robots
      <3>1. [tasks[t] EXCEPT !.status = "proof_submitted"] \in Task
        BY <1>0 DEF Task, Statuses
      <3> QED
        BY <1>0, <2>5, <3>1 DEF SubmitProof, Task
    <2> QED
      BY <2>1, <2>2, <2>3, <2>4, <2>5
  <1>2. /\ tasks' \in Seq(Task) /\ Len(tasks') = Len(tasks)
        /\ \A u \in 1..Len(tasks) : tasks'[u] = IF u = t THEN x ELSE tasks[u]
    BY <1>0, <1>1, SetTask
  <1>3. agents' \subseteq Robots /\ earnings' = earnings
    BY <1>0 DEF RobotInv, LedgerTypes
  <1>4. \A u \in 1..Len(tasks) :
          tasks[u].status \in {"claimed", "proof_submitted"} => tasks[u].claimedBy \in Robots
    BY DEF RobotInv, LedgerTypes, ClaimedHasRobot
  <1> QED
    BY <1>1, <1>2, <1>3, <1>4, TaskStep

(* expireStale touches claimed tasks only.                                 *)
LEMMA ExpireStaleInv == ASSUME RobotInv, ExpireStale PROVE RobotInv'
  <1>0. tasks \in Seq(Task) /\ DOMAIN tasks = 1..Len(tasks) /\ Len(tasks) \in Nat
    BY DEF RobotInv, LedgerTypes
  <1>1. tasks' = [ t \in 1..Len(tasks) |-> IF t \in Expiring
                    THEN [tasks[t] EXCEPT !.status = "expired"] ELSE tasks[t] ]
    BY <1>0 DEF ExpireStale
  <1>2. \A t \in 1..Len(tasks) :
          (IF t \in Expiring THEN [tasks[t] EXCEPT !.status = "expired"] ELSE tasks[t]) \in Task
    <2> TAKE t \in 1..Len(tasks)
    <2>1. tasks[t] \in Task
      BY <1>0
    <2>2. [tasks[t] EXCEPT !.status = "expired"] \in Task
      BY <2>1 DEF Task, Statuses
    <2> QED
      BY <2>1, <2>2
  <1>3. tasks' \in Seq(Task) /\ Len(tasks') = Len(tasks)
    BY <1>0, <1>1, <1>2
  <1>4. ASSUME NEW t \in 1..Len(tasks)
        PROVE  /\ tasks'[t].escrowSats = tasks[t].escrowSats
               /\ tasks'[t].rewardSats = tasks[t].rewardSats
               /\ tasks'[t].coordinatorFeeSats = tasks[t].coordinatorFeeSats
               /\ tasks'[t].status = "settled" <=> tasks[t].status = "settled"
               /\ tasks[t].status = "settled" => tasks'[t].claimedBy = tasks[t].claimedBy
               /\ tasks'[t].status \in {"claimed", "proof_submitted"} => tasks'[t].claimedBy \in Robots
    <2>1. tasks[t] \in Task
      BY <1>0
    <2>2. CASE t \in Expiring
      BY <1>1, <2>1, <2>2 DEF Expiring, Task
    <2>3. CASE t \notin Expiring
      BY <1>0, <1>1, <2>3 DEF RobotInv, ClaimedHasRobot
    <2> QED
      BY <2>2, <2>3
  <1> QED
    BY <1>3, <1>4, TaskStep DEF ExpireStale, RobotInv, LedgerTypes

(* A new task has no entry, and its fee and reward add up.                 *)
LEMMA CreateTaskInv ==
    ASSUME RobotInv, NEW amount \in Amounts, NEW needs \in SUBSET Capabilities,
           CreateTask(amount, needs)
    PROVE  RobotInv'
  <1> DEFINE n == Len(tasks)
             new == [ needs |-> needs, escrowSats |-> amount, rewardSats |-> NetSats(amount),
                      coordinatorFeeSats |-> FeeSats(amount), status |-> "pending_funding",
                      claimedBy |-> NoRobot, late |-> FALSE ]
  <1>0. /\ tasks \in Seq(Task) /\ n \in Nat /\ DOMAIN tasks = 1..n /\ n < MaxTasks
        /\ MaxTasks \in Nat /\ UNCHANGED << agents, earnings >>
    BY RobotAssumption DEF RobotInv, LedgerTypes, CreateTask
  <1>1. amount \in Nat /\ FeeSats(amount) \in Nat /\ NetSats(amount) \in Nat
        /\ amount = FeeSats(amount) + NetSats(amount)
    BY RobotAssumption, FeeSplit
  <1>2. /\ new \in Task
        /\ new.escrowSats = new.coordinatorFeeSats + new.rewardSats
        /\ new.status = "pending_funding"
    BY <1>1 DEF Task, Statuses
  <1>3. tasks' = Append(tasks, new)
    BY DEF CreateTask
  <1> HIDE DEF new
  <1>4. /\ tasks' \in Seq(Task) /\ Len(tasks') = n + 1 /\ DOMAIN tasks' = 1..(n + 1)
        /\ tasks'[n + 1] = new
        /\ \A t \in 1..n : tasks'[t] = tasks[t]
    BY <1>0, <1>2, <1>3
  <1>5. \A k \in DOMAIN earnings : earnings[k].task \in 1..n
    BY <1>0 DEF RobotInv, EntriesHaveTasks
  <1> HIDE DEF n
  <1>6. LedgerTypes' /\ EntriesHaveTasks' /\ ClaimedHasRobot'
    <2>1. \A t \in 1..(n + 1) : t \in 1..n \/ t = n + 1
      BY <1>0
    <2> QED
      BY <1>0, <1>2, <1>4, <1>5, <2>1 DEF RobotInv, LedgerTypes, EntriesHaveTasks, ClaimedHasRobot
  <1>7. LedgerMatchesTasks'
    <2>1. \A t \in 1..(n + 1) : t \in 1..n \/ (t = n + 1 /\ t \notin 1..n)
      BY <1>0
    <2>2. \A t \in DOMAIN tasks' :
            /\ tasks'[t].escrowSats = tasks'[t].coordinatorFeeSats + tasks'[t].rewardSats
            /\ tasks'[t].status = "settled" <=> \E k \in DOMAIN earnings' : earnings'[k].task = t
      BY <1>0, <1>2, <1>4, <1>5, <2>1 DEF RobotInv, LedgerMatchesTasks
    <2>3. \A k \in DOMAIN earnings' :
            /\ earnings'[k].agent = tasks'[earnings'[k].task].claimedBy
            /\ earnings'[k].sats = tasks'[earnings'[k].task].rewardSats
            /\ \A l \in DOMAIN earnings' : earnings'[k].task = earnings'[l].task => k = l
      BY <1>0, <1>4, <1>5 DEF RobotInv, LedgerMatchesTasks
    <2> QED
      BY <2>2, <2>3 DEF LedgerMatchesTasks
  <1> QED
    BY <1>6, <1>7 DEF RobotInv

(* Settling writes the first and only entry of the task.                   *)
LEMMA SettleTaskInv == ASSUME RobotInv, NEW t \in DOMAIN tasks, SettleTask(t) PROVE RobotInv'
  <1> DEFINE r == tasks[t].claimedBy
             x == [tasks[t] EXCEPT !.status = "settled"]
             e == [agent |-> r, task |-> t, sats |-> tasks[t].rewardSats, status |-> "accrued"]
             n == Len(earnings)
  <1>0. /\ tasks \in Seq(Task) /\ tasks[t] \in Task /\ Len(tasks) \in Nat
        /\ DOMAIN tasks = 1..Len(tasks)
        /\ tasks[t].status = "proof_submitted" /\ r \in Robots
        /\ earnings \in Seq(Entry) /\ n \in Nat /\ DOMAIN earnings = 1..n
        /\ UNCHANGED agents
    BY DEF RobotInv, LedgerTypes, SettleTask, ClaimedHasRobot
  <1>1. /\ x \in Task /\ x.status = "settled" /\ x.claimedBy = r
        /\ x.escrowSats = tasks[t].escrowSats /\ x.rewardSats = tasks[t].rewardSats
        /\ x.coordinatorFeeSats = tasks[t].coordinatorFeeSats
    BY <1>0 DEF Task, Statuses
  <1>2. /\ e \in Entry /\ e.agent = r /\ e.task = t /\ e.sats = tasks[t].rewardSats
    <2>1. t \in 1..MaxTasks
      BY <1>0, RobotAssumption DEF RobotInv, LedgerTypes
    <2> QED
      BY <1>0, <2>1 DEF Entry, Task
  <1>3. tasks' = [tasks EXCEPT ![t] = x] /\ earnings' = Append(earnings, e)
    BY DEF SettleTask
  <1> HIDE DEF x, e, r
  <1>4. /\ tasks' \in Seq(Task) /\ Len(tasks') = Len(tasks) /\ DOMAIN tasks' = DOMAIN tasks
        /\ \A u \in DOMAIN tasks : tasks'[u] = IF u = t THEN x ELSE tasks[u]
    BY <1>0, <1>1, <1>3, SetTask
  <1>5. /\ earnings' \in Seq(Entry) /\ DOMAIN earnings' = 1..(n + 1)
        /\ earnings'[n + 1] = e
        /\ \A k \in 1..n : earnings'[k] = earnings[k]
    BY <1>0, <1>2, <1>3
  <1>6. /\ \A k \in 1..n : earnings[k].task # t /\ earnings[k].task \in DOMAIN tasks
        /\ \A k \in 1..(n + 1) : k \in 1..n \/ (k = n + 1 /\ k \notin 1..n)
        /\ 1..n \subseteq 1..(n + 1) /\ n + 1 \in 1..(n + 1)
    BY <1>0 DEF RobotInv, LedgerMatchesTasks, EntriesHaveTasks
  <1> HIDE DEF n
  <1>7. LedgerTypes' /\ EntriesHaveTasks' /\ ClaimedHasRobot'
    BY <1>0, <1>1, <1>2, <1>4, <1>5, <1>6 DEF RobotInv, LedgerTypes, EntriesHaveTasks, ClaimedHasRobot
  <1>8. LedgerMatchesTasks'
    <2>1. \A u \in DOMAIN tasks' :
            tasks'[u].escrowSats = tasks'[u].coordinatorFeeSats + tasks'[u].rewardSats
      BY <1>1, <1>4 DEF RobotInv, LedgerMatchesTasks
    <2>2. \A u \in DOMAIN tasks' :
            tasks'[u].status = "settled" <=> \E k \in DOMAIN earnings' : earnings'[k].task = u
      <3> TAKE u \in DOMAIN tasks'
      <3>1. CASE u = t
        BY <1>1, <1>2, <1>4, <1>5, <1>6, <3>1
      <3>2. CASE u # t
        <4>1. tasks'[u].status = "settled" <=> \E k \in 1..n : earnings[k].task = u
          BY <1>0, <1>4, <3>2 DEF RobotInv, LedgerMatchesTasks
        <4>2. (\E k \in 1..n : earnings[k].task = u) <=> \E k \in 1..(n + 1) : earnings'[k].task = u
          BY <1>2, <1>5, <1>6, <3>2
        <4> QED
          BY <1>5, <4>1, <4>2
      <3> QED
        BY <3>1, <3>2
    <2>3. \A k \in DOMAIN earnings' :
            /\ earnings'[k].agent = tasks'[earnings'[k].task].claimedBy
            /\ earnings'[k].sats = tasks'[earnings'[k].task].rewardSats
      <3> TAKE k \in DOMAIN earnings'
      <3>1. CASE k \in 1..n
        BY <1>0, <1>4, <1>5, <1>6, <3>1 DEF RobotInv, LedgerMatchesTasks
      <3>2. CASE k = n + 1
        BY <1>1, <1>2, <1>4, <1>5, <3>2
      <3> QED
        BY <1>5, <1>6, <3>1, <3>2
    <2>4. \A k, l \in DOMAIN earnings' : earnings'[k].task = earnings'[l].task => k = l
      <3>1. \A k, l \in 1..n : earnings[k].task = earnings[l].task => k = l
        BY <1>0 DEF RobotInv, LedgerMatchesTasks
      <3>2. /\ \A k \in 1..n : earnings'[k].task = earnings[k].task /\ earnings'[k].task # t
            /\ earnings'[n + 1].task = t
        BY <1>2, <1>5, <1>6
      <3>3. \A k \in DOMAIN earnings' : k \in 1..n \/ k = n + 1
        BY <1>5, <1>6
      <3> QED
        BY <3>1, <3>2, <3>3
    <2> QED
      BY <2>1, <2>2, <2>3, <2>4 DEF LedgerMatchesTasks
  <1> QED
    BY <1>7, <1>8 DEF RobotInv

(* A sweep changes the status of entries and nothing else.                 *)
LEMMA MarkSweptInv == ASSUME RobotInv, NEW r \in Robots, MarkSwept(r) PROVE RobotInv'
  <1>0. /\ earnings \in Seq(Entry) /\ Len(earnings) \in Nat
        /\ DOMAIN earnings = 1..Len(earnings) /\ UNCHANGED << agents, tasks >>
    BY DEF RobotInv, LedgerTypes, MarkSwept
  <1>1. earnings' = [ k \in 1..Len(earnings) |-> IF earnings[k].agent = r
                        THEN [earnings[k] EXCEPT !.status = "swept"] ELSE earnings[k] ]
    BY <1>0 DEF MarkSwept
  <1>2. \A k \in 1..Len(earnings) :
          (IF earnings[k].agent = r THEN [earnings[k] EXCEPT !.status = "swept"]
                                    ELSE earnings[k]) \in Entry
    <2> TAKE k \in 1..Len(earnings)
    <2>1. earnings[k] \in Entry
      BY <1>0
    <2>2. [earnings[k] EXCEPT !.status = "swept"] \in Entry
      BY <2>1 DEF Entry
    <2> QED
      BY <2>1, <2>2
  <1>3. earnings' \in Seq(Entry) /\ DOMAIN earnings' = DOMAIN earnings
    BY <1>0, <1>1, <1>2
  <1>4. \A k \in DOMAIN earnings : /\ earnings'[k].agent = earnings[k].agent
                                   /\ earnings'[k].task = earnings[k].task
                                   /\ earnings'[k].sats = earnings[k].sats
    BY <1>0, <1>1 DEF Entry
  <1>5. LedgerTypes' /\ EntriesHaveTasks' /\ ClaimedHasRobot'
    BY <1>0, <1>3, <1>4 DEF RobotInv, LedgerTypes, EntriesHaveTasks, ClaimedHasRobot
  <1>6. LedgerMatchesTasks'
    BY <1>0, <1>3, <1>4 DEF RobotInv, LedgerMatchesTasks
  <1> QED
    BY <1>5, <1>6 DEF RobotInv

(* Registration does not touch tasks or ledger.                            *)
LEMMA RegisterAgentInv == ASSUME RobotInv, NEW r \in Robots, RegisterAgent(r) PROVE RobotInv'
  BY DEF RegisterAgent, RobotInv, LedgerTypes, EntriesHaveTasks, ClaimedHasRobot, LedgerMatchesTasks

-----------------------------------------------------------------------------
(* Every step keeps the invariant of the robots' queue.                    *)
LEMMA RobotInvariance == Spec => []RobotInv
  <1>1. ASSUME RobotInv, [Next]_vars PROVE RobotInv'
    <2>1. CASE UNCHANGED vars
      BY <1>1, <2>1 DEF vars, RobotInv, LedgerTypes, EntriesHaveTasks, ClaimedHasRobot,
                        LedgerMatchesTasks
    <2>2. CASE RouteNext
      BY <1>1, <2>2, RegisterAgentInv, CreateTaskInv, OneTaskInv, SettleTaskInv DEF RouteNext
    <2>3. CASE \E t \in DOMAIN tasks : MarkFunded(t)
      BY <1>1, <2>3, OneTaskInv
    <2>4. CASE ExpireStale
      BY <1>1, <2>4, ExpireStaleInv
    <2>5. CASE \E r \in Robots : MarkSwept(r)
      BY <1>1, <2>5, MarkSweptInv
    <2> QED
      BY <1>1, <2>1, <2>2, <2>3, <2>4, <2>5 DEF Next
  <1> QED
    BY <1>1, RobotInitInv, PTL DEF Spec

(* Every sat of every escrow is accounted for: fee plus reward, and the    *)
(* reward of each settled task stands once in the ledger, for its claimant *)
(* (createTask, settleTask, markSwept).                                    *)
THEOREM LedgerIsExact == Spec => []LedgerMatchesTasks
  <1>1. RobotInv => LedgerMatchesTasks
    BY DEF RobotInv
  <1> QED
    BY <1>1, RobotInvariance, PTL

-----------------------------------------------------------------------------
(***************************************************************************)
(* The counters. They are written in two places, and what they count is a  *)
(* property of tasks: a task that is settled or expired must stay so, in   *)
(* the hands of the same robot, and each step that ends tasks must raise   *)
(* the counters by as many as it ends.                                     *)
(***************************************************************************)
Counted == counts \in [Robots -> [success : Nat, failure : Nat]]

CountsInv == Counted /\ CountsMatchTasks

(* Only finitely many tasks have a given status.                           *)
LEMMA TasksWithFinite ==
    ASSUME LedgerTypes, NEW s, NEW r
    PROVE  /\ IsFiniteSet(TasksWith(s, r))
           /\ Cardinality(TasksWith(s, r)) \in Nat
  <1>1. TasksWith(s, r) \subseteq 1..Len(tasks) /\ Len(tasks) \in Nat
    BY DEF LedgerTypes, TasksWith
  <1>2. IsFiniteSet(1..Len(tasks))
    BY <1>1, FS_Interval
  <1> QED
    BY <1>1, <1>2, FS_Subset, FS_CardinalityType

(* A step that leaves the counters alone ends no task and opens none again.*)
LEMMA SameEnded ==
    ASSUME CountsInv, counts' = counts,
           \A s \in {"settled", "expired"}, r \in Robots : TasksWith(s, r)' = TasksWith(s, r)
    PROVE  CountsInv'
  <1>1. \A r \in Robots : /\ TasksWith("settled", r)' = TasksWith("settled", r)
                          /\ TasksWith("expired", r)' = TasksWith("expired", r)
    OBVIOUS
  <1> QED
    BY <1>1 DEF CountsInv, Counted, CountsMatchTasks

(* A task that is set to something that has not ended, and had not ended.  *)
LEMMA OneTaskCounts ==
    ASSUME RobotInv, CountsInv, NEW t \in DOMAIN tasks,
           \/ MarkFunded(t) \/ TimePasses(t) \/ DisputeTask(t)
           \/ \E r \in Robots : ClaimTask(t, r) \/ SubmitProof(t, r)
    PROVE  CountsInv'
  <1>1. tasks \in Seq(Task) /\ tasks[t] \in Task
    BY DEF RobotInv, LedgerTypes
  <1>2. counts' = counts
    BY DEF MarkFunded, TimePasses, DisputeTask, ClaimTask, SubmitProof
  <1>3. /\ DOMAIN tasks' = DOMAIN tasks
        /\ \A u \in DOMAIN tasks : u # t => tasks'[u] = tasks[u]
    BY <1>1 DEF MarkFunded, TimePasses, DisputeTask, ClaimTask, SubmitProof
  <1>4. tasks[t].status \notin {"settled", "expired"}
    BY DEF MarkFunded, TimePasses, DisputeTask, ClaimTask, SubmitProof
  <1>5. tasks'[t].status \notin {"settled", "expired"}
    BY <1>1 DEF MarkFunded, TimePasses, DisputeTask, ClaimTask, SubmitProof, Task
  <1>6. ASSUME NEW s \in {"settled", "expired"}, NEW r \in Robots
        PROVE  TasksWith(s, r)' = TasksWith(s, r)
    BY <1>3, <1>4, <1>5, <1>6 DEF TasksWith
  <1> QED
    BY <1>2, <1>6, SameEnded

(* A new task waits for its funds.                                         *)
LEMMA CreateTaskCounts ==
    ASSUME RobotInv, CountsInv, NEW amount \in Amounts, NEW needs \in SUBSET Capabilities,
           CreateTask(amount, needs)
    PROVE  CountsInv'
  <1>1. PICK x : tasks' = Append(tasks, x) /\ x.status = "pending_funding"
    BY DEF CreateTask
  <1>2. /\ tasks \in Seq(Task) /\ Len(tasks) \in Nat /\ DOMAIN tasks = 1..Len(tasks)
        /\ DOMAIN tasks' = 1..(Len(tasks) + 1)
        /\ \A u \in DOMAIN tasks : tasks'[u] = tasks[u]
        /\ tasks'[Len(tasks) + 1] = x
    BY <1>1 DEF RobotInv, LedgerTypes
  <1>3. \A u \in DOMAIN tasks' : u \in DOMAIN tasks \/ tasks'[u] = x
    BY <1>2
  <1>4. DOMAIN tasks \subseteq DOMAIN tasks'
    BY <1>2
  <1>5. ASSUME NEW s \in {"settled", "expired"}, NEW r \in Robots
        PROVE  TasksWith(s, r)' = TasksWith(s, r)
    BY <1>1, <1>2, <1>3, <1>4, <1>5 DEF TasksWith
  <1>6. counts' = counts
    BY DEF CreateTask
  <1> QED
    BY <1>5, <1>6, SameEnded

(* settleTask: one more settled task, and one more success of its robot.   *)
LEMMA SettleTaskCounts ==
    ASSUME RobotInv, CountsInv, NEW t \in DOMAIN tasks, SettleTask(t)
    PROVE  CountsInv'
  <1>1. tasks \in Seq(Task) /\ tasks[t] \in Task /\ tasks[t].claimedBy \in Robots
    BY DEF RobotInv, LedgerTypes, ClaimedHasRobot, SettleTask
  <1> PICK q \in Robots : q = tasks[t].claimedBy
    BY <1>1
  <1>2. /\ DOMAIN tasks' = DOMAIN tasks
        /\ \A u \in DOMAIN tasks : u # t => tasks'[u] = tasks[u]
        /\ tasks'[t].status = "settled" /\ tasks'[t].claimedBy = q
        /\ tasks[t].status = "proof_submitted"
    BY <1>1 DEF SettleTask, Task
  <1>3. counts' = [counts EXCEPT ![q].success = counts[q].success + 1]
    BY DEF SettleTask
  <1>4. Counted /\ q \in DOMAIN counts /\ counts[q].success \in Nat
    BY <1>1 DEF CountsInv, Counted
  <1>5. Counted'
    <2> DEFINE y == [counts[q] EXCEPT !.success = counts[q].success + 1]
    <2>1. y \in [success : Nat, failure : Nat]
      BY <1>4 DEF Counted
    <2>2. counts' = [counts EXCEPT ![q] = y]
      BY <1>3
    <2> HIDE DEF y
    <2> QED
      BY <1>4, <2>1, <2>2 DEF Counted
  <1>6. /\ counts'[q].success = counts[q].success + 1
        /\ \A r \in Robots : r # q => counts'[r].success = counts[r].success
        /\ \A r \in Robots : counts'[r].failure = counts[r].failure
    BY <1>1, <1>3, <1>4 DEF Counted
  <1>7. /\ TasksWith("settled", q)' = TasksWith("settled", q) \union {t}
        /\ t \notin TasksWith("settled", q)
    BY <1>2 DEF TasksWith
  <1>8. \A r \in Robots : r # q => TasksWith("settled", r)' = TasksWith("settled", r)
    BY <1>2 DEF TasksWith
  <1>9. \A r \in Robots : TasksWith("expired", r)' = TasksWith("expired", r)
    BY <1>2 DEF TasksWith
  <1>10. Cardinality(TasksWith("settled", q)') = Cardinality(TasksWith("settled", q)) + 1
    BY <1>7, TasksWithFinite, FS_AddElement DEF RobotInv
  <1>11. ASSUME NEW r \in Robots
         PROVE  /\ counts'[r].success = Cardinality(TasksWith("settled", r)')
                /\ counts'[r].failure = Cardinality(TasksWith("expired", r)')
    <2>1. /\ counts[r].success = Cardinality(TasksWith("settled", r))
          /\ counts[r].failure = Cardinality(TasksWith("expired", r))
      BY DEF CountsInv, CountsMatchTasks
    <2>2. Cardinality(TasksWith("expired", r)') = Cardinality(TasksWith("expired", r))
      BY <1>9, Zenon
    <2>3. CASE r = q
      <3>1. Cardinality(TasksWith("settled", r)') = Cardinality(TasksWith("settled", r)) + 1
        BY <1>10, <2>3, Zenon
      <3> QED
        BY <1>6, <2>1, <2>2, <2>3, <3>1
    <2>4. CASE r # q
      <3>1. Cardinality(TasksWith("settled", r)') = Cardinality(TasksWith("settled", r))
        BY <1>8, <2>4, Zenon
      <3> QED
        BY <1>6, <2>1, <2>2, <2>4, <3>1
    <2> QED
      BY <2>3, <2>4
  <1>12. CountsMatchTasks'
    BY <1>11 DEF CountsMatchTasks
  <1> QED
    BY <1>5, <1>12 DEF CountsInv

(* expireStale: as many failures more as tasks expire in a robot's hands.  *)
LEMMA ExpireStaleCounts == ASSUME RobotInv, CountsInv, ExpireStale PROVE CountsInv'
  <1> DEFINE Lost(r) == { t \in Expiring : tasks[t].claimedBy = r }
  <1>1. \A t \in DOMAIN tasks : tasks[t] \in Task
    BY DEF RobotInv, LedgerTypes
  <1>2. /\ DOMAIN tasks' = DOMAIN tasks
        /\ \A u \in DOMAIN tasks : u \notin Expiring => tasks'[u] = tasks[u]
        /\ \A u \in Expiring : /\ u \in DOMAIN tasks /\ tasks[u].status = "claimed"
                                /\ tasks'[u].status = "expired"
                                /\ tasks'[u].claimedBy = tasks[u].claimedBy
    BY <1>1 DEF ExpireStale, Expiring, Task
  <1>3. counts' = [r \in Robots |-> [counts[r] EXCEPT !.failure = counts[r].failure + Cardinality(Lost(r))]]
    BY DEF ExpireStale
  <1>4. ASSUME NEW r \in Robots
        PROVE  /\ TasksWith("expired", r)' = TasksWith("expired", r) \union Lost(r)
               /\ TasksWith("expired", r) \intersect Lost(r) = {}
               /\ TasksWith("settled", r)' = TasksWith("settled", r)
    BY <1>2 DEF TasksWith
  <1>5. ASSUME NEW r \in Robots
        PROVE  IsFiniteSet(Lost(r)) /\ Cardinality(Lost(r)) \in Nat
    <2>1. Lost(r) \subseteq TasksWith("claimed", r)
      BY <1>2 DEF TasksWith
    <2> QED
      BY <2>1, TasksWithFinite, FS_Subset, FS_CardinalityType DEF RobotInv
  <1>6. ASSUME NEW r \in Robots
        PROVE  Cardinality(TasksWith("expired", r)') =
                 Cardinality(TasksWith("expired", r)) + Cardinality(Lost(r))
    <2>1. /\ IsFiniteSet(TasksWith("expired", r))
          /\ Cardinality(TasksWith("expired", r)) \in Nat
      BY TasksWithFinite DEF RobotInv
    <2>2. Cardinality(TasksWith("expired", r) \union Lost(r)) =
            Cardinality(TasksWith("expired", r)) + Cardinality(Lost(r)) - Cardinality({})
      BY <1>4, <1>5, <2>1, FS_Union
    <2>3. Cardinality(TasksWith("expired", r)') = Cardinality(TasksWith("expired", r) \union Lost(r))
      BY <1>4, Zenon
    <2>4. Cardinality({}) = 0
      BY FS_EmptySet
    <2> HIDE DEF Lost
    <2> QED
      BY <1>5, <2>1, <2>2, <2>3, <2>4
  <1> HIDE DEF Lost
  <1>7. \A r \in Robots : counts[r] \in [success : Nat, failure : Nat]
    BY DEF CountsInv, Counted
  <1>8. /\ Counted'
        /\ \A r \in Robots : /\ counts'[r].success = counts[r].success
                              /\ counts'[r].failure = counts[r].failure + Cardinality(Lost(r))
    BY <1>3, <1>5, <1>7 DEF Counted
  <1>9. CountsMatchTasks'
    BY <1>4, <1>6, <1>8 DEF CountsInv, CountsMatchTasks
  <1> QED
    BY <1>8, <1>9 DEF CountsInv

(* The counters of robots are exact, whatever order claims, late proofs,   *)
(* settlements and expiries come in (settleTask, expireStale, and          *)
(* registerAgent, which keeps what it finds).                              *)
THEOREM CountsAreExact == Spec => []CountsMatchTasks
  <1>1. Init => CountsInv
    <2>1. ASSUME Init, NEW s, NEW r PROVE TasksWith(s, r) = {}
      BY <2>1 DEF Init, TasksWith
    <2>2. Cardinality({}) = 0
      BY FS_EmptySet
    <2>3. ASSUME Init, NEW s, NEW r PROVE Cardinality(TasksWith(s, r)) = 0
      BY <2>1, <2>2, <2>3
    <2>4. ASSUME Init PROVE Counted /\ \A r \in Robots : counts[r].success = 0 /\ counts[r].failure = 0
      BY <2>4 DEF Init, Counted
    <2> QED
      BY <2>3, <2>4 DEF CountsInv, CountsMatchTasks
  <1>2. ASSUME RobotInv, CountsInv, [Next]_vars PROVE CountsInv'
    <2>1. CASE tasks' = tasks /\ counts' = counts
      BY <1>2, <2>1, SameEnded DEF TasksWith
    <2>2. CASE RouteNext
      <3>1. CASE \E r \in Robots : RegisterAgent(r)
        BY <2>1, <3>1 DEF RegisterAgent
      <3> QED
        BY <1>2, <2>2, <3>1, CreateTaskCounts, OneTaskCounts, SettleTaskCounts DEF RouteNext
    <2>3. CASE \E t \in DOMAIN tasks : MarkFunded(t)
      BY <1>2, <2>3, OneTaskCounts
    <2>4. CASE ExpireStale
      BY <1>2, <2>4, ExpireStaleCounts
    <2>5. CASE \E r \in Robots : MarkSwept(r)
      BY <2>1, <2>5 DEF MarkSwept
    <2>6. CASE UNCHANGED vars
      BY <2>1, <2>6 DEF vars
    <2> QED
      BY <1>2, <2>2, <2>3, <2>4, <2>5, <2>6 DEF Next
  <1>3. CountsInv => CountsMatchTasks
    BY DEF CountsInv
  <1> QED
    BY <1>1, <1>2, <1>3, RobotInvariance, PTL DEF Spec

(* Ledger and counters together say what became of the tasks.              *)
THEOREM RobotBooksAreExact == Spec => []RobotBooksAgree
BY LedgerIsExact, CountsAreExact, PTL DEF RobotBooksAgree

-----------------------------------------------------------------------------
(***************************************************************************)
(* Credits. With Postgres an account may be overdrawn by one credit for    *)
(* each submission that read the balance before another had spent: a       *)
(* submission between its two statements (Spending) still has its credit,  *)
(* and that is the strengthening (BooksInv). A Bluetooth row that will not *)
(* be sent again was settled: in a batch under way, each transaction is    *)
(* settled, refused or still to come (BatchOk).                            *)
(***************************************************************************)
(* What every state keeps about accounts and requests.                     *)
SumsOk == DOMAIN sums = Accounts
          /\ \A a \in Accounts : DOMAIN sums[a] = {"balance", "earned", "spent"} /\ sums[a].balance \in Int

RequestOk(r) ==
    /\ DOMAIN rq[r] = {"at", "about", "seen"}
    /\ rq[r].at \in {"idle", "stats", "policy", "spend", "insert", "earn", "report", "next", "credit", "debit"}

(* The submissions that have seen credit and not spent it yet.             *)
Spending(a) == {r \in Requests : rq[r].at = "insert" /\ Account(r) = a}

(* An account has a credit for every submission about to spend one, except *)
(* those that overlapped.                                                  *)
BooksInv ==
    /\ SumsOk
    /\ usesPg \in BOOLEAN
    /\ DOMAIN rq = Requests /\ \A r \in Requests : RequestOk(r) /\ (rq[r].at = "insert" => usesPg)
    /\ \A a \in Owners : sums[a].balance
         >= IF usesPg THEN 1 - Cardinality(Requests) + Cardinality(Spending(a)) ELSE 0

(* There are finitely many requests, so those of any kind can be counted.  *)
LEMMA SpendingFinite ==
    ASSUME NEW S \in SUBSET Requests
    PROVE  IsFiniteSet(S) /\ Cardinality(S) \in Nat /\ Cardinality(S) <= Cardinality(Requests)
           /\ Cardinality(Requests) \in Nat \ {0}
<1>1. IsFiniteSet(Requests) /\ Requests # {}
  BY CreditsAssumption
<1> QED BY <1>1, FS_Subset, FS_CardinalityType, FS_EmptySet

(* A subset of some requests counts no more than they do.                  *)
LEMMA FewerSpending ==
    ASSUME NEW S \in SUBSET Requests, NEW T \in SUBSET S
    PROVE  Cardinality(T) <= Cardinality(S)
BY SpendingFinite, FS_Subset

(* One row more changes one balance by n.                                  *)
LEMMA InsertAdds ==
    ASSUME SumsOk, NEW account, NEW n \in Int, NEW reason, Insert(account, n, reason)
    PROVE  /\ SumsOk'
           /\ \A a \in Accounts : sums'[a].balance = IF a = account THEN sums[a].balance + n ELSE sums[a].balance
<1> DEFINE row(s) == [ balance |-> s.balance + n,
                       earned  |-> IF reason = "compute_contribution" THEN s.earned + n ELSE s.earned,
                       spent   |-> IF reason = "task_submit" THEN s.spent - n ELSE s.spent ]
<1>1. sums' = [sums EXCEPT ![account] = row(sums[account])]
  BY DEF Insert
<1>2. /\ DOMAIN row(sums[account]) = {"balance", "earned", "spent"}
      /\ row(sums[account]).balance = sums[account].balance + n
  OBVIOUS
<1> HIDE DEF row
<1> QED BY <1>1, <1>2 DEF SumsOk

(* Requests that go on, begin or end without a row of an owner that goes   *)
(* down: nobody new is about to spend.                                     *)
LEMMA NobodyNewSpends ==
    ASSUME BooksInv, SumsOk', UNCHANGED usesPg,
           DOMAIN rq' = Requests, \A r \in Requests : RequestOk(r)',
           \A r \in Requests : rq'[r].at = "insert" => rq[r].at = "insert" /\ rq'[r].about = rq[r].about,
           \A a \in Owners : sums'[a].balance >= sums[a].balance
    PROVE  BooksInv'
<1>1. ASSUME NEW a \in Owners
      PROVE  sums'[a].balance >= IF usesPg' THEN 1 - Cardinality(Requests) + Cardinality(Spending(a)') ELSE 0
  <2>1. Spending(a)' \subseteq Spending(a) /\ Spending(a) \subseteq Requests
    BY DEF Spending, Account
  <2>2. /\ Cardinality(Spending(a)') <= Cardinality(Spending(a))
        /\ Cardinality(Spending(a)') \in Nat /\ Cardinality(Spending(a)) \in Nat
        /\ Cardinality(Requests) \in Nat
    BY <2>1, FewerSpending, SpendingFinite
  <2>3. sums[a].balance \in Int /\ sums'[a].balance \in Int
    BY DEF BooksInv, SumsOk, Accounts
  <2> QED BY <2>2, <2>3 DEF BooksInv
<1> QED BY <1>1 DEF BooksInv

(* A request changes its step.                                             *)
LEMMA GotoOk ==
    ASSUME BooksInv, NEW r \in Requests, NEW at, Goto(r, at),
           at \in {"idle", "stats", "policy", "spend", "insert", "earn", "report", "next", "credit", "debit"}
    PROVE  /\ DOMAIN rq' = Requests /\ \A x \in Requests : RequestOk(x)'
           /\ \A x \in Requests \ {r} : rq'[x] = rq[x]
           /\ rq'[r].at = at /\ (at # "idle" => rq'[r].about = rq[r].about /\ rq'[r].seen = rq[r].seen)
BY DEF BooksInv, RequestOk, Goto, Idle

(* A request begins with what it is about.                                 *)
LEMMA StartOk ==
    ASSUME BooksInv, NEW r \in Requests, NEW at, NEW about, Start(r, at, about),
           at \in {"stats", "spend", "earn", "next"}
    PROVE  /\ DOMAIN rq' = Requests /\ \A x \in Requests : RequestOk(x)'
           /\ \A x \in Requests \ {r} : rq'[x] = rq[x]
           /\ rq'[r].at = at /\ rq'[r].about = about /\ rq'[r].seen = about
BY DEF BooksInv, RequestOk, Start, Idle

(* spendCredits: with Postgres the submission joins those about to spend,  *)
(* which had a credit left; in memory it spends at once.                   *)
LEMMA SpendKeeps ==
    ASSUME BooksInv, NEW r \in Requests, SpendCredits(r)
    PROVE  BooksInv'
<1> DEFINE enough == sums[Account(r)].balance >= 1
<1>1. UNCHANGED usesPg /\ rq[r].at = "spend"
  BY DEF SpendCredits
<1>2. CASE ~enough
  <2>1. Goto(r, "idle") /\ UNCHANGED sums
    BY <1>2 DEF SpendCredits
  <2> QED BY <1>1, <2>1, GotoOk, NobodyNewSpends DEF BooksInv, SumsOk, Accounts
<1>3. CASE enough /\ usesPg
  <2>1. Goto(r, "insert") /\ UNCHANGED sums
    BY <1>3 DEF SpendCredits
  <2>2. /\ DOMAIN rq' = Requests /\ \A x \in Requests : RequestOk(x)'
        /\ \A x \in Requests \ {r} : rq'[x] = rq[x]
        /\ rq'[r].at = "insert" /\ rq'[r].about = rq[r].about
    BY <2>1, GotoOk
  <2>3. ASSUME NEW a \in Owners
        PROVE  sums'[a].balance >= 1 - Cardinality(Requests) + Cardinality(Spending(a)')
    <3>1. sums[a].balance \in Int
      BY DEF BooksInv, SumsOk, Accounts
    <3>2. CASE a = Account(r)
      <4>1. sums'[a].balance >= 1
        BY <1>3, <2>1, <3>2
      <4>2. Spending(a)' \in SUBSET Requests
        BY DEF Spending
      <4> QED BY <2>1, <3>1, <4>1, <4>2, SpendingFinite
    <3>3. CASE a # Account(r)
      <4>1. Spending(a)' = Spending(a)
        BY <1>1, <2>2, <3>3 DEF Spending, Account
      <4> QED BY <1>3, <2>1, <4>1 DEF BooksInv
    <3> QED BY <3>2, <3>3
  <2> QED BY <1>1, <1>3, <2>1, <2>2, <2>3 DEF BooksInv, SumsOk
<1>4. CASE enough /\ ~usesPg
  <2>1. Goto(r, "idle") /\ Insert(Account(r), -1, "task_submit")
    BY <1>4 DEF SpendCredits
  <2>2. \A a \in Owners : sums'[a].balance >= 0
    BY <1>4, <2>1, InsertAdds DEF BooksInv, SumsOk, Accounts
  <2>3. SumsOk'
    BY <2>1, InsertAdds DEF BooksInv
  <2>4. /\ DOMAIN rq' = Requests /\ \A x \in Requests : RequestOk(x)'
        /\ \A x \in Requests \ {r} : rq'[x] = rq[x]
        /\ rq'[r].at = "idle"
    BY <2>1, GotoOk
  <2> QED BY <1>1, <1>4, <2>2, <2>3, <2>4 DEF BooksInv
<1> QED BY <1>2, <1>3, <1>4 DEF BooksInv

(* The second statement: one credit less, and one submission less.         *)
LEMMA SpendInsertKeeps ==
    ASSUME BooksInv, NEW r \in Requests, SpendInsert(r)
    PROVE  BooksInv'
<1>1. UNCHANGED usesPg /\ rq[r].at = "insert" /\ usesPg /\ Goto(r, "idle")
        /\ Insert(Account(r), -1, "task_submit")
  BY DEF SpendInsert, BooksInv
<1>2. /\ DOMAIN rq' = Requests /\ \A x \in Requests : RequestOk(x)'
      /\ \A x \in Requests \ {r} : rq'[x] = rq[x]
      /\ rq'[r].at = "idle"
  BY <1>1, GotoOk
<1>3. SumsOk' /\ \A a \in Accounts :
        sums'[a].balance = IF a = Account(r) THEN sums[a].balance - 1 ELSE sums[a].balance
  <2>1. SumsOk /\ -1 \in Int
    BY DEF BooksInv
  <2> QED BY <1>1, <2>1, InsertAdds DEF SumsOk
<1>4. ASSUME NEW a \in Owners
      PROVE  sums'[a].balance >= 1 - Cardinality(Requests) + Cardinality(Spending(a)')
  <2>1. sums[a].balance \in Int /\ a \in Accounts
    BY DEF BooksInv, SumsOk, Accounts
  <2>2. sums[a].balance >= 1 - Cardinality(Requests) + Cardinality(Spending(a))
    BY <1>1 DEF BooksInv
  <2>3. Spending(a) \in SUBSET Requests
    BY DEF Spending
  <2>4. CASE a = Account(r)
    <3>1. Spending(a)' = Spending(a) \ {r} /\ r \in Spending(a)
      <4>1. r \in Spending(a) /\ r \notin Spending(a)'
        BY <1>1, <1>2, <2>4 DEF Spending
      <4>2. \A x \in Requests \ {r} : x \in Spending(a)' <=> x \in Spending(a)
        BY <1>2 DEF Spending, Account
      <4> QED BY <4>1, <4>2 DEF Spending
    <3>2. Cardinality(Spending(a)') = Cardinality(Spending(a)) - 1
      BY <2>3, <3>1, SpendingFinite, FS_RemoveElement
    <3> QED BY <1>3, <2>1, <2>2, <2>3, <2>4, <3>2, SpendingFinite
  <2>5. CASE a # Account(r)
    <3>1. Spending(a)' = Spending(a)
      <4>1. r \notin Spending(a) /\ r \notin Spending(a)'
        BY <1>1, <1>2, <2>5 DEF Spending
      <4>2. \A x \in Requests \ {r} : x \in Spending(a)' <=> x \in Spending(a)
        BY <1>2 DEF Spending, Account
      <4> QED BY <4>1, <4>2 DEF Spending
    <3> QED BY <1>3, <2>1, <2>2, <2>5, <3>1
  <2> QED BY <2>4, <2>5
<1> QED BY <1>1, <1>2, <1>3, <1>4 DEF BooksInv

-----------------------------------------------------------------------------
(* The transactions of a batch are known, settled or still to come.        *)
Settled(t) == bleTxs[t].credited > 0 /\ bleTxs[t].debited > 0
Done(t) == t \in Unverified \/ Settled(t)
InBatch(r) == rq[r].at \in {"next", "credit", "debit"}

BatchOk(r) ==
    /\ rq[r].about \in Seq(BleTxs) /\ rq[r].seen \in Seq(BleTxs)
    /\ \A i \in 1 .. Len(rq[r].seen) :
         Done(rq[r].seen[i]) \/ \E j \in 1 .. Len(rq[r].about) : rq[r].about[j] = rq[r].seen[i]
    /\ rq[r].at \in {"credit", "debit"} => rq[r].about # << >>
    /\ rq[r].at = "debit" => bleTxs[Head(rq[r].about)].credited > 0

TxsOk == /\ DOMAIN bleTxs = BleTxs
         /\ \A t \in BleTxs : /\ DOMAIN bleTxs[t] = {"credited", "debited", "cut"}
                             /\ bleTxs[t].credited \in Nat /\ bleTxs[t].debited \in Nat

SettleInv ==
    /\ TxsOk
    /\ DOMAIN bleRows = BleTxs
    /\ \A t \in BleTxs \ Unverified : bleRows[t] = "synced" => Settled(t)
    /\ bleSynced \subseteq BleTxs /\ \A t \in bleSynced : Settled(t)
    /\ DOMAIN rq = Requests /\ \A r \in Requests : RequestOk(r) /\ (InBatch(r) => BatchOk(r))

(* What has been credited and debited stays so.                            *)
TxsGrow == \A t \in BleTxs : bleTxs'[t].credited >= bleTxs[t].credited /\ bleTxs'[t].debited
  >= bleTxs[t].debited

(* What is settled, or was refused, stays so while counts only grow.       *)
LEMMA SettledStays ==
    ASSUME TxsOk, TxsOk', TxsGrow
    PROVE  /\ \A t \in BleTxs : (Settled(t) => Settled(t)') /\ (Done(t) => Done(t)')
           /\ \A t \in BleTxs : bleTxs[t].credited > 0 => bleTxs'[t].credited > 0
BY DEF TxsOk, TxsGrow, Settled, Done

(* A batch that is not touched stays right while counts only grow.         *)
LEMMA BatchStays ==
    ASSUME TxsOk, TxsOk', TxsGrow, NEW r \in Requests, BatchOk(r), rq'[r] = rq[r]
    PROVE  BatchOk(r)'
<1>1. /\ rq[r].about \in Seq(BleTxs) /\ rq[r].seen \in Seq(BleTxs)
      /\ \A i \in 1 .. Len(rq[r].seen) : rq[r].seen[i] \in BleTxs
      /\ rq[r].at = "debit" => Head(rq[r].about) \in BleTxs
  BY DEF BatchOk
<1>2. (\A i \in 1 .. Len(rq[r].seen) :
         Done(rq[r].seen[i]) \/ \E j \in 1 .. Len(rq[r].about) : rq[r].about[j] = rq[r].seen[i])'
  <2> SUFFICES ASSUME NEW i \in 1 .. Len(rq[r].seen)
               PROVE  Done(rq[r].seen[i])' \/ \E j \in 1 .. Len(rq[r].about) :
                      rq[r].about[j] = rq[r].seen[i]
    OBVIOUS
  <2>1. PICK t : t = rq[r].seen[i]
    OBVIOUS
  <2>2. Done(t) => Done(t)'
    BY <1>1, <2>1, SettledStays
  <2> QED BY <2>1, <2>2 DEF BatchOk
<1>3. (rq[r].at = "debit" => bleTxs[Head(rq[r].about)].credited > 0)'
  BY <1>1, SettledStays DEF BatchOk
<1> QED BY <1>1, <1>2, <1>3 DEF BatchOk

(* What is settled grows, and whatever is newly marked or remembered is    *)
(* settled.                                                                *)
LEMMA SettlesMore ==
    ASSUME SettleInv, TxsOk', TxsGrow, DOMAIN bleRows' = BleTxs,
           \A t \in BleTxs \ Unverified : bleRows'[t] = "synced" => bleRows[t] = "synced" \/ Settled(t)',
           bleSynced' \subseteq BleTxs, \A t \in bleSynced' : t \in bleSynced \/ Settled(t)',
           DOMAIN rq' = Requests, \A r \in Requests : RequestOk(r)',
           \A r \in Requests : rq'[r] = rq[r] \/ (InBatch(r)' => BatchOk(r)')
    PROVE  SettleInv'
<1>1. ASSUME NEW r \in Requests PROVE InBatch(r)' => BatchOk(r)'
  <2>1. CASE rq'[r] = rq[r]
    BY <2>1, BatchStays DEF SettleInv, InBatch
  <2> QED BY <2>1
<1>2. \A t \in BleTxs : Settled(t) => Settled(t)'
  BY SettledStays DEF SettleInv
<1> QED BY <1>1, <1>2 DEF SettleInv

(* A step that settles and marks nothing keeps what is known of the rows.  *)
LEMMA NothingSettles ==
    ASSUME SettleInv, UNCHANGED << bleTxs, bleRows, bleSynced >>,
           DOMAIN rq' = Requests, \A r \in Requests : RequestOk(r)',
           \A r \in Requests : rq'[r] = rq[r] \/ (InBatch(r)' => BatchOk(r)')
    PROVE  SettleInv'
<1>1. TxsOk' /\ TxsGrow
  BY DEF SettleInv, TxsOk, TxsGrow
<1>2. /\ DOMAIN bleRows' = BleTxs /\ bleSynced' \subseteq BleTxs
      /\ \A t \in BleTxs : bleRows'[t] = bleRows[t]
      /\ \A t \in bleSynced' : t \in bleSynced
  BY DEF SettleInv
<1> QED BY <1>1, <1>2, SettlesMore

(* flushOfflineLedger sends all rows: all of them are still to come.       *)
LEMMA FlushBatch ==
    ASSUME NEW r \in Requests, rq[r].at = "next", rq[r].seen = rq[r].about, rq[r].about \in Seq(BleTxs)
    PROVE  BatchOk(r)
BY DEF BatchOk

(* An order of unsynced rows is a sequence of transactions.                *)
LEMMA OrdersAreSeqs ==
    ASSUME NEW q \in Batches(Unsynced)
    PROVE  q \in Seq(BleTxs)
<1>1. IsFiniteSet(Unsynced) /\ Unsynced \subseteq BleTxs
  BY CreditsAssumption, FS_Subset DEF Unsynced
<1>2. Cardinality(Unsynced) \in Nat
  BY <1>1, FS_CardinalityType
<1>3. q \in [1 .. Cardinality(Unsynced) -> BleTxs]
  BY <1>1 DEF Batches
<1> QED BY <1>2, <1>3

(* The transaction at the head of a batch is done with: the others are     *)
(* still to come.                                                          *)
LEMMA HeadDone ==
    ASSUME NEW r \in Requests, BatchOk(r), rq[r].about # << >>, TxsOk, TxsOk', TxsGrow,
           NEW t \in BleTxs, t = Tx(r), Done(t)',
           rq'[r].about = Tail(rq[r].about), rq'[r].seen = rq[r].seen, rq'[r].at = "next"
    PROVE  BatchOk(r)'
<1>1. /\ rq[r].about \in Seq(BleTxs) /\ rq[r].seen \in Seq(BleTxs)
      /\ \A i \in 1 .. Len(rq[r].seen) : rq[r].seen[i] \in BleTxs
  BY DEF BatchOk
<1>2. Tail(rq[r].about) \in Seq(BleTxs)
      /\ \A j \in 1 .. Len(rq[r].about) : j # 1 => j - 1 \in 1 .. Len(Tail(rq[r].about))
                                                /\ Tail(rq[r].about)[j - 1] = rq[r].about[j]
  BY <1>1
<1>3. ASSUME NEW i \in 1 .. Len(rq[r].seen), NEW u \in BleTxs, u = rq[r].seen[i]
      PROVE  Done(u)' \/ \E j \in 1 .. Len(Tail(rq[r].about)) : Tail(rq[r].about)[j] = u
  <2>1. CASE Done(u)
    BY <2>1, SettledStays
  <2>2. CASE ~Done(u)
    <3>1. PICK j \in 1 .. Len(rq[r].about) : rq[r].about[j] = u
      BY <1>3, <2>2 DEF BatchOk
    <3>2. CASE j = 1
      <4>1. u = t
        BY <1>1, <3>1, <3>2 DEF Tx
      <4> QED BY <4>1
    <3>3. CASE j # 1
      BY <1>2, <3>1, <3>3
    <3> QED BY <3>2, <3>3
  <2> QED BY <2>1, <2>2
<1>4. (\A i \in 1 .. Len(rq[r].seen) :
         Done(rq[r].seen[i]) \/ \E j \in 1 .. Len(rq[r].about) : rq[r].about[j] = rq[r].seen[i])'
  <2> SUFFICES ASSUME NEW i \in 1 .. Len(rq'[r].seen)
               PROVE  Done(rq[r].seen[i])' \/ \E j \in 1 .. Len(rq'[r].about) :
                      rq'[r].about[j] = rq'[r].seen[i]
    OBVIOUS
  <2>1. i \in 1 .. Len(rq[r].seen) /\ rq'[r].seen[i] \in BleTxs
    BY <1>1
  <2>2. PICK u \in BleTxs : u = rq'[r].seen[i]
    BY <2>1
  <2> QED BY <1>3, <2>1, <2>2
<1> QED BY <1>1, <1>2, <1>4 DEF BatchOk

-----------------------------------------------------------------------------
(* Both invariants, and a step of each action.                             *)
BooksAndSettles == BooksInv /\ SettleInv

(* Requests of the coordinator that move no credit.                        *)
LEMMA QuietStep ==
    ASSUME BooksAndSettles, NEW r \in Requests,
           UNCHANGED << usesPg, bleTxs, bleRows, bleSynced >>, SumsOk',
           \A a \in Owners : sums'[a].balance >= sums[a].balance,
           DOMAIN rq' = Requests, \A x \in Requests : RequestOk(x)',
           \A x \in Requests \ {r} : rq'[x] = rq[x],
           rq'[r].at \notin {"insert", "credit", "debit"}, rq'[r].at = "next" => BatchOk(r)'
    PROVE  BooksAndSettles'
<1>1. \A x \in Requests : rq'[x].at = "insert" => rq[x].at = "insert" /\ rq'[x].about = rq[x].about
  OBVIOUS
<1>2. \A x \in Requests : rq'[x] = rq[x] \/ (InBatch(x)' => BatchOk(x)')
  BY DEF InBatch
<1>3. BooksInv'
  BY <1>1, NobodyNewSpends DEF BooksAndSettles
<1>4. SettleInv'
  BY <1>2, NothingSettles DEF BooksAndSettles
<1> QED BY <1>3, <1>4 DEF BooksAndSettles

(* Balances that stay keep their bounds.                                   *)
LEMMA SameSums ==
    ASSUME BooksInv, UNCHANGED sums
    PROVE  SumsOk' /\ \A a \in Owners : sums'[a].balance >= sums[a].balance
BY DEF BooksInv, SumsOk, Accounts

(* A request goes on to a step that moves no credit.                       *)
LEMMA QuietGoto ==
    ASSUME BooksAndSettles, NEW r \in Requests, NEW at, Goto(r, at),
           UNCHANGED << usesPg, sums, bleTxs, bleRows, bleSynced >>,
           at \in {"idle", "stats", "policy", "spend", "earn", "report"}
    PROVE  BooksAndSettles'
<1>1. /\ DOMAIN rq' = Requests /\ \A x \in Requests : RequestOk(x)'
      /\ \A x \in Requests \ {r} : rq'[x] = rq[x]
      /\ rq'[r].at = at
  BY GotoOk DEF BooksAndSettles
<1> QED BY <1>1, SameSums, QuietStep DEF BooksAndSettles

(* A request begins with a step that moves no credit.                      *)
LEMMA QuietStart ==
    ASSUME BooksAndSettles, NEW r \in Requests, NEW at, NEW about, Start(r, at, about),
           UNCHANGED << usesPg, sums, bleTxs, bleRows, bleSynced >>,
           at \in {"stats", "spend", "earn"}
    PROVE  BooksAndSettles'
<1>1. /\ DOMAIN rq' = Requests /\ \A x \in Requests : RequestOk(x)'
      /\ \A x \in Requests \ {r} : rq'[x] = rq[x]
      /\ rq'[r].at = at
  BY StartOk DEF BooksAndSettles
<1> QED BY <1>1, SameSums, QuietStep DEF BooksAndSettles

(* The policy's statistics are read, and nothing is written.               *)
LEMMA PolicyStatsKeeps ==
    ASSUME BooksAndSettles, NEW r \in Requests, PolicyStats(r)
    PROVE  BooksAndSettles'
<1>1. /\ DOMAIN rq' = Requests /\ \A x \in Requests : RequestOk(x)'
      /\ \A x \in Requests \ {r} : rq'[x] = rq[x]
      /\ rq'[r].at = "policy"
  BY DEF PolicyStats, BooksAndSettles, BooksInv, RequestOk
<1> QED BY <1>1, SameSums, QuietStep DEF BooksAndSettles, PolicyStats, bleVars

(* A spend touches no transaction of the Bluetooth ledger.                 *)
LEMMA SpendStep ==
    ASSUME BooksAndSettles, NEW r \in Requests, SpendCredits(r) \/ SpendInsert(r)
    PROVE  BooksAndSettles'
<1>1. BooksInv'
  BY SpendKeeps, SpendInsertKeeps DEF BooksAndSettles
<1>2. UNCHANGED << bleTxs, bleRows, bleSynced >>
  BY DEF SpendCredits, SpendInsert, bleVars
<1>3. PICK at \in {"idle", "insert"} : Goto(r, at)
  BY DEF SpendCredits, SpendInsert
<1>4. /\ DOMAIN rq' = Requests /\ \A x \in Requests : RequestOk(x)'
      /\ \A x \in Requests \ {r} : rq'[x] = rq[x]
      /\ rq'[r].at = at
  BY <1>3, GotoOk DEF BooksAndSettles
<1>5. \A x \in Requests : rq'[x] = rq[x] \/ (InBatch(x)' => BatchOk(x)')
  BY <1>4 DEF InBatch
<1> QED BY <1>1, <1>2, <1>4, <1>5, NothingSettles DEF BooksAndSettles

(* Accruing credits raises one balance.                                    *)
LEMMA AccrueStep ==
    ASSUME BooksAndSettles, NEW r \in Requests, AccrueCredits(r)
    PROVE  BooksAndSettles'
<1>1. PICK at \in {"idle", "report"} : Goto(r, at)
  BY DEF AccrueCredits
<1>2. /\ DOMAIN rq' = Requests /\ \A x \in Requests : RequestOk(x)'
      /\ \A x \in Requests \ {r} : rq'[x] = rq[x]
      /\ rq'[r].at = at
  BY <1>1, GotoOk DEF BooksAndSettles
<1>3. SumsOk' /\ \A a \in Owners : sums'[a].balance >= sums[a].balance
  <2>1. SumsOk /\ Insert(Account(r), 1, "compute_contribution")
    BY DEF AccrueCredits, BooksAndSettles, BooksInv
  <2>2. SumsOk' /\ \A a \in Accounts :
          sums'[a].balance = IF a = Account(r) THEN sums[a].balance + 1 ELSE sums[a].balance
    BY <2>1, InsertAdds
  <2> QED BY <2>1, <2>2 DEF SumsOk, Accounts
<1> QED BY <1>2, <1>3, QuietStep DEF AccrueCredits, bleVars

(* A worker sends a batch of all its rows.                                 *)
LEMMA FlushStep ==
    ASSUME BooksAndSettles, NEW r \in Requests, FlushOfflineLedger(r)
    PROVE  BooksAndSettles'
<1>1. PICK q \in Batches(Unsynced) : Start(r, "next", q)
  BY DEF FlushOfflineLedger
<1>2. q \in Seq(BleTxs)
  BY OrdersAreSeqs
<1>3. /\ DOMAIN rq' = Requests /\ \A x \in Requests : RequestOk(x)'
      /\ \A x \in Requests \ {r} : rq'[x] = rq[x]
      /\ rq'[r].at = "next" /\ rq'[r].about = q /\ rq'[r].seen = q
  BY <1>1, StartOk DEF BooksAndSettles
<1>4. BatchOk(r)'
  BY <1>2, <1>3 DEF BatchOk
<1> QED BY <1>3, <1>4, SameSums, QuietStep DEF FlushOfflineLedger, BooksAndSettles

(* The transaction at the head of a batch.                                 *)
LEMMA HeadOfBatch ==
    ASSUME NEW r \in Requests, BatchOk(r), rq[r].about # << >>
    PROVE  Tx(r) \in BleTxs /\ Tx(r) = rq[r].about[1] /\ Tail(rq[r].about) \in Seq(BleTxs)
BY DEF BatchOk, Tx

(* The next transaction of a batch: skipped when it was settled or is      *)
(* refused, settled otherwise.                                             *)
LEMMA SyncNextStep ==
    ASSUME BooksAndSettles, NEW r \in Requests, SyncNext(r)
    PROVE  BooksAndSettles'
<1>1. /\ BatchOk(r) /\ rq[r].about # << >> /\ rq[r].at = "next"
      /\ UNCHANGED << usesPg, sums, bleTxs, bleRows, bleSynced >>
  BY DEF SyncNext, BooksAndSettles, SettleInv, InBatch, bleVars
<1>2. PICK t \in BleTxs : t = Tx(r)
  BY <1>1, HeadOfBatch
<1>3. TxsOk /\ TxsOk' /\ TxsGrow
  BY <1>1 DEF BooksAndSettles, SettleInv, TxsOk, TxsGrow
<1>4. DOMAIN rq = Requests /\ DOMAIN rq[r] = {"at", "about", "seen"}
  BY DEF BooksAndSettles, BooksInv, RequestOk
<1>5. CASE t \in bleSynced \union Unverified
  <2>1. rq' = [rq EXCEPT ![r] = [rq[r] EXCEPT !.about = Tail(rq[r].about)]]
    BY <1>2, <1>5 DEF SyncNext
  <2>2. /\ DOMAIN rq' = Requests /\ \A x \in Requests \ {r} : rq'[x] = rq[x]
        /\ DOMAIN rq'[r] = {"at", "about", "seen"}
        /\ rq'[r].about = Tail(rq[r].about) /\ rq'[r].seen = rq[r].seen /\ rq'[r].at = "next"
    BY <1>1, <1>4, <2>1
  <2>3. Done(t)'
    <3>1. Done(t)
      BY <1>5 DEF Done, BooksAndSettles, SettleInv
    <3> QED BY <1>3, <3>1, SettledStays
  <2>4. BatchOk(r)'
    BY <1>1, <1>2, <1>3, <2>2, <2>3, HeadDone
  <2>5. \A x \in Requests : RequestOk(x)'
    BY <2>2 DEF RequestOk, BooksAndSettles, BooksInv
  <2> QED BY <1>1, <2>2, <2>4, <2>5, SameSums, QuietStep DEF BooksAndSettles
<1>6. CASE t \notin bleSynced \union Unverified
  <2>1. rq' = [rq EXCEPT ![r] = [rq[r] EXCEPT !.at = "credit"]]
    BY <1>2, <1>6 DEF SyncNext
  <2>2. /\ DOMAIN rq' = Requests /\ \A x \in Requests \ {r} : rq'[x] = rq[x]
        /\ DOMAIN rq'[r] = {"at", "about", "seen"}
        /\ rq'[r].about = rq[r].about /\ rq'[r].seen = rq[r].seen /\ rq'[r].at = "credit"
    BY <1>1, <1>4, <2>1
  <2>3. \A x \in Requests : RequestOk(x)'
    BY <2>2 DEF RequestOk, BooksAndSettles, BooksInv
  <2>4. BatchOk(r)'
    BY <1>1, <2>2 DEF BatchOk, Done, Settled
  <2>5. \A x \in Requests : rq'[x] = rq[x] \/ (InBatch(x)' => BatchOk(x)')
    BY <2>2, <2>4
  <2>6. SettleInv'
    BY <1>1, <2>2, <2>3, <2>5, NothingSettles DEF BooksAndSettles
  <2>7. \A x \in Requests : rq'[x].at = "insert" => rq[x].at = "insert" /\ rq'[x].about = rq[x].about
    BY <2>2
  <2>8. BooksInv'
    BY <1>1, <2>2, <2>3, <2>7, SameSums, NobodyNewSpends DEF BooksAndSettles
  <2> QED BY <2>6, <2>8 DEF BooksAndSettles
<1> QED BY <1>5, <1>6

(* A side of a transaction is counted once more.                           *)
LEMMA CountedOnce ==
    ASSUME TxsOk, NEW t \in BleTxs,
           \/ bleTxs' = [bleTxs EXCEPT ![t].credited = @ + 1]
           \/ bleTxs' = [bleTxs EXCEPT ![t].debited = @ + 1]
    PROVE  /\ TxsOk' /\ TxsGrow
           /\ bleTxs' = [bleTxs EXCEPT ![t].credited = @ + 1] => bleTxs'[t].credited > 0
           /\ bleTxs' = [bleTxs EXCEPT ![t].debited = @ + 1] => bleTxs'[t].debited > 0
BY DEF TxsOk, TxsGrow

(* The provider of the transaction is credited; its debit comes next.      *)
LEMMA SyncCreditStep ==
    ASSUME BooksAndSettles, NEW r \in Requests, SyncCredit(r)
    PROVE  BooksAndSettles'
<1>1. /\ BatchOk(r) /\ rq[r].about # << >> /\ rq[r].at = "credit"
      /\ UNCHANGED << usesPg, bleRows, bleSynced >>
  BY DEF SyncCredit, BooksAndSettles, SettleInv, InBatch, BatchOk
<1>2. PICK t \in BleTxs : t = Tx(r)
  BY <1>1, HeadOfBatch
<1>3. bleTxs' = [bleTxs EXCEPT ![t].credited = @ + 1] /\ Goto(r, "debit")
  BY <1>2 DEF SyncCredit
<1>4. TxsOk /\ TxsOk' /\ TxsGrow /\ bleTxs'[t].credited > 0
  BY <1>3, CountedOnce DEF BooksAndSettles, SettleInv
<1>5. /\ DOMAIN rq' = Requests /\ \A x \in Requests : RequestOk(x)'
      /\ \A x \in Requests \ {r} : rq'[x] = rq[x]
      /\ rq'[r].at = "debit" /\ rq'[r].about = rq[r].about /\ rq'[r].seen = rq[r].seen
  BY <1>3, GotoOk DEF BooksAndSettles
<1>6. BatchOk(r)'
  <2>1. /\ rq[r].about \in Seq(BleTxs) /\ rq[r].seen \in Seq(BleTxs)
        /\ \A i \in 1 .. Len(rq[r].seen) : rq[r].seen[i] \in BleTxs
    BY <1>1 DEF BatchOk
  <2>2. (\A i \in 1 .. Len(rq[r].seen) :
           Done(rq[r].seen[i]) \/ \E j \in 1 .. Len(rq[r].about) : rq[r].about[j] = rq[r].seen[i])'
    <3> SUFFICES ASSUME NEW i \in 1 .. Len(rq'[r].seen)
                 PROVE  Done(rq[r].seen[i])' \/ \E j \in 1 .. Len(rq'[r].about) :
                        rq'[r].about[j] = rq'[r].seen[i]
      OBVIOUS
    <3>1. PICK u \in BleTxs : u = rq'[r].seen[i]
      BY <1>5, <2>1
    <3>2. Done(u) => Done(u)'
      BY <1>4, SettledStays
    <3> QED BY <1>1, <1>5, <3>1, <3>2 DEF BatchOk
  <2> QED BY <1>1, <1>2, <1>4, <1>5, <2>1, <2>2 DEF BatchOk, Tx
<1>7. \A x \in Requests : rq'[x] = rq[x] \/ (InBatch(x)' => BatchOk(x)')
  BY <1>5, <1>6
<1>8. SettleInv'
  <2>1. /\ DOMAIN bleRows' = BleTxs /\ bleSynced' \subseteq BleTxs
        /\ \A x \in BleTxs : bleRows'[x] = bleRows[x]
        /\ \A x \in bleSynced' : x \in bleSynced
    BY <1>1 DEF BooksAndSettles, SettleInv
  <2> QED BY <1>4, <1>5, <1>7, <2>1, SettlesMore DEF BooksAndSettles
<1>9. SumsOk' /\ \A a \in Owners : sums'[a].balance >= sums[a].balance
  <2> DEFINE acc == RewardAccount(Provider[Tx(r)])
  <2>1. SumsOk /\ Insert(acc, 1, "ble_compute")
    BY DEF SyncCredit, BooksAndSettles, BooksInv
  <2> HIDE DEF acc
  <2>2. SumsOk' /\ \A a \in Accounts :
          sums'[a].balance = IF a = acc THEN sums[a].balance + 1 ELSE sums[a].balance
    BY <2>1, InsertAdds
  <2> QED BY <2>1, <2>2 DEF SumsOk, Accounts
<1>10. BooksInv'
  <2>1. \A x \in Requests : rq'[x].at = "insert" => rq[x].at = "insert" /\ rq'[x].about = rq[x].about
    BY <1>5
  <2> QED BY <1>1, <1>5, <1>9, <2>1, NobodyNewSpends DEF BooksAndSettles
<1> QED BY <1>8, <1>10 DEF BooksAndSettles

(* The requester's account is its agent id, which no owner has.            *)
LEMMA SyncDebitStep ==
    ASSUME BooksAndSettles, NEW r \in Requests, SyncDebit(r)
    PROVE  BooksAndSettles'
<1>1. /\ BatchOk(r) /\ rq[r].about # << >> /\ rq[r].at = "debit"
      /\ UNCHANGED << usesPg, bleRows >>
  BY DEF SyncDebit, BooksAndSettles, SettleInv, InBatch, BatchOk
<1>2. PICK t \in BleTxs : t = Tx(r)
  BY <1>1, HeadOfBatch
<1>3. /\ bleTxs' = [bleTxs EXCEPT ![t].debited = @ + 1]
      /\ bleSynced' = bleSynced \union {t}
      /\ Insert(Requester[t], -1, "ble_compute")
      /\ rq' = [rq EXCEPT ![r].at = "next", ![r].about = Tail(@)]
  BY <1>2 DEF SyncDebit
<1>4. TxsOk /\ TxsOk' /\ TxsGrow /\ bleTxs'[t].debited > 0 /\ Settled(t)'
  <2>1. TxsOk /\ TxsOk' /\ TxsGrow /\ bleTxs'[t].debited > 0
    BY <1>3, CountedOnce DEF BooksAndSettles, SettleInv
  <2>2. bleTxs[t].credited > 0
    BY <1>1, <1>2 DEF BatchOk, Tx
  <2> QED BY <2>1, <2>2 DEF Settled, TxsGrow, TxsOk
<1>5. /\ DOMAIN rq' = Requests /\ \A x \in Requests : RequestOk(x)'
      /\ \A x \in Requests \ {r} : rq'[x] = rq[x]
      /\ rq'[r].at = "next" /\ rq'[r].about = Tail(rq[r].about) /\ rq'[r].seen = rq[r].seen
  BY <1>3 DEF BooksAndSettles, BooksInv, RequestOk
<1>6. BatchOk(r)'
  <2>1. Done(t)'
    BY <1>4 DEF Done
  <2> QED BY <1>1, <1>2, <1>4, <1>5, <2>1, HeadDone
<1>7. \A x \in Requests : rq'[x] = rq[x] \/ (InBatch(x)' => BatchOk(x)')
  BY <1>5, <1>6
<1>8. SettleInv'
  <2>1. /\ DOMAIN bleRows' = BleTxs /\ bleSynced' \subseteq BleTxs
        /\ \A x \in BleTxs : bleRows'[x] = bleRows[x]
    BY <1>1, <1>3 DEF BooksAndSettles, SettleInv
  <2>2. \A x \in bleSynced' : x \in bleSynced \/ Settled(x)'
    <3> SUFFICES ASSUME NEW x \in bleSynced', x \notin bleSynced PROVE Settled(x)'
      OBVIOUS
    <3>1. x = t
      BY <1>3
    <3> QED BY <1>4, <3>1
  <2> QED BY <1>4, <1>5, <1>7, <2>1, <2>2, SettlesMore DEF BooksAndSettles
<1>9. SumsOk' /\ \A a \in Owners : sums'[a].balance >= sums[a].balance
  <2>1. Requester[t] \notin Owners
    BY CreditsAssumption
  <2>2. SumsOk /\ -1 \in Int
    BY DEF BooksAndSettles, BooksInv
  <2>3. SumsOk' /\ \A a \in Accounts :
          sums'[a].balance = IF a = Requester[t] THEN sums[a].balance + (-1) ELSE sums[a].balance
    BY <1>3, <2>2, InsertAdds
  <2> QED BY <2>1, <2>2, <2>3 DEF SumsOk, Accounts
<1>10. BooksInv'
  <2>1. \A x \in Requests : rq'[x].at = "insert" => rq[x].at = "insert" /\ rq'[x].about = rq[x].about
    BY <1>5
  <2> QED BY <1>1, <1>5, <1>9, <2>1, NobodyNewSpends DEF BooksAndSettles
<1> QED BY <1>8, <1>10 DEF BooksAndSettles

(* The batch is answered: no transaction is left to settle in it, so every *)
(* row it sent is settled or was refused.                                  *)
LEMMA SyncAnsweredStep ==
    ASSUME BooksAndSettles, NEW r \in Requests, SyncAnswered(r)
    PROVE  BooksAndSettles'
<1>1. /\ BatchOk(r) /\ rq[r].about = << >> /\ Goto(r, "idle")
      /\ UNCHANGED << usesPg, sums, bleTxs, bleSynced >>
  BY DEF SyncAnswered, BooksAndSettles, SettleInv, InBatch
<1>2. /\ DOMAIN rq' = Requests /\ \A x \in Requests : RequestOk(x)'
      /\ \A x \in Requests \ {r} : rq'[x] = rq[x]
      /\ rq'[r].at = "idle"
  BY <1>1, GotoOk DEF BooksAndSettles
<1>3. TxsOk /\ TxsOk' /\ TxsGrow
  BY <1>1 DEF BooksAndSettles, SettleInv, TxsOk, TxsGrow
<1>4. \A i \in 1 .. Len(rq[r].seen) : Done(rq[r].seen[i]) /\ rq[r].seen[i] \in BleTxs
  <2>1. Len(rq[r].about) = 0
    BY <1>1
  <2> QED BY <1>1, <2>1 DEF BatchOk
<1>5. DOMAIN bleRows' = BleTxs
      /\ \A t \in BleTxs \ Unverified : bleRows'[t] = "synced" => bleRows[t] = "synced" \/ Settled(t)'
  <2>1. CASE flushing = r
    <3>1. bleRows' = [ t \in BleTxs |-> IF \E i \in DOMAIN rq[r].seen : rq[r].seen[i] = t
                                         THEN "synced" ELSE bleRows[t] ]
      BY <2>1 DEF SyncAnswered
    <3>2. ASSUME NEW t \in BleTxs \ Unverified, bleRows'[t] = "synced", bleRows[t] # "synced"
          PROVE  Settled(t)'
      <4>1. PICK i \in DOMAIN rq[r].seen : rq[r].seen[i] = t
        BY <3>1, <3>2
      <4>2. i \in 1 .. Len(rq[r].seen)
        BY <1>1 DEF BatchOk
      <4>3. Settled(t)
        BY <1>4, <4>1, <4>2 DEF Done
      <4> QED BY <1>3, <4>3, SettledStays
    <3> QED BY <3>1, <3>2
  <2>2. CASE flushing # r
    BY <2>2 DEF SyncAnswered, BooksAndSettles, SettleInv
  <2> QED BY <2>1, <2>2
<1>6. SettleInv'
  <2>1. bleSynced' \subseteq BleTxs /\ \A t \in bleSynced' : t \in bleSynced
    BY <1>1 DEF BooksAndSettles, SettleInv
  <2>2. \A x \in Requests : rq'[x] = rq[x] \/ (InBatch(x)' => BatchOk(x)')
    BY <1>2 DEF InBatch
  <2> QED BY <1>2, <1>3, <1>5, <2>1, <2>2, SettlesMore DEF BooksAndSettles
<1>7. BooksInv'
  <2>1. \A x \in Requests : rq'[x].at = "insert" => rq[x].at = "insert" /\ rq'[x].about = rq[x].about
    BY <1>2
  <2> QED BY <1>1, <1>2, <2>1, SameSums, NobodyNewSpends DEF BooksAndSettles
<1> QED BY <1>6, <1>7 DEF BooksAndSettles

(* What a crash cuts short stays counted.                                  *)
LEMMA CutKeepsCounts ==
    ASSUME TxsOk, NEW R, CutShort(R)
    PROVE  TxsOk' /\ TxsGrow
<1> DEFINE cut(t) == bleTxs[t].cut + Cardinality({r \in R : rq[r].at = "debit" /\ Tx(r) = t})
<1>1. bleTxs' = [t \in BleTxs |-> [bleTxs[t] EXCEPT !.cut = cut(t)]]
  BY DEF CutShort
<1> HIDE DEF cut
<1> QED BY <1>1 DEF TxsOk, TxsGrow

(* A statement that fails ends its request; what it had written stays.     *)
LEMMA FailsStep ==
    ASSUME BooksAndSettles, NEW r \in Requests, StatementFails(r)
    PROVE  BooksAndSettles'
<1>1. CutShort({r}) /\ Goto(r, "idle") /\ UNCHANGED << usesPg, sums, bleRows, bleSynced >>
  BY DEF StatementFails
<1>2. /\ DOMAIN rq' = Requests /\ \A x \in Requests : RequestOk(x)'
      /\ \A x \in Requests \ {r} : rq'[x] = rq[x]
      /\ rq'[r].at = "idle"
  BY <1>1, GotoOk DEF BooksAndSettles
<1>3. TxsOk /\ TxsOk' /\ TxsGrow
  BY <1>1, CutKeepsCounts DEF BooksAndSettles, SettleInv
<1>4. SettleInv'
  <2>1. /\ DOMAIN bleRows' = BleTxs /\ bleSynced' \subseteq BleTxs
        /\ \A t \in BleTxs : bleRows'[t] = bleRows[t]
        /\ \A t \in bleSynced' : t \in bleSynced
    BY <1>1 DEF BooksAndSettles, SettleInv
  <2>2. \A x \in Requests : rq'[x] = rq[x] \/ (InBatch(x)' => BatchOk(x)')
    BY <1>2 DEF InBatch
  <2> QED BY <1>2, <1>3, <2>1, <2>2, SettlesMore DEF BooksAndSettles
<1>5. BooksInv'
  <2>1. \A x \in Requests : rq'[x].at = "insert" => rq[x].at = "insert" /\ rq'[x].about = rq[x].about
    BY <1>2
  <2> QED BY <1>1, <1>2, <2>1, SameSums, NobodyNewSpends DEF BooksAndSettles
<1> QED BY <1>4, <1>5 DEF BooksAndSettles

(* A row that is recorded is not yet marked as synced.                     *)
LEMMA RecordStep ==
    ASSUME BooksAndSettles, NEW t \in BleTxs, RecordBleTx(t)
    PROVE  BooksAndSettles'
<1>1. UNCHANGED << usesPg, sums, rq, bleSynced, bleTxs >> /\ bleRows' = [bleRows EXCEPT ![t] = "unsynced"]
  BY DEF RecordBleTx
<1>2. TxsOk /\ TxsOk' /\ TxsGrow
  BY <1>1 DEF BooksAndSettles, SettleInv, TxsOk, TxsGrow
<1>3. DOMAIN rq' = Requests /\ \A x \in Requests : RequestOk(x)'
  BY <1>1 DEF BooksAndSettles, BooksInv, RequestOk
<1>4. SettleInv'
  <2>1. /\ DOMAIN bleRows' = BleTxs /\ bleSynced' \subseteq BleTxs
        /\ \A x \in BleTxs : bleRows'[x] = "synced" => bleRows[x] = "synced"
        /\ \A x \in bleSynced' : x \in bleSynced
    BY <1>1 DEF BooksAndSettles, SettleInv
  <2> QED BY <1>1, <1>2, <1>3, <2>1, SettlesMore DEF BooksAndSettles
<1>5. BooksInv'
  BY <1>1, <1>3, SameSums, NobodyNewSpends DEF BooksAndSettles
<1> QED BY <1>4, <1>5 DEF BooksAndSettles

(* An answer that is lost changes neither the books nor the rows.          *)
LEMMA LostStep ==
    ASSUME BooksAndSettles, UNCHANGED << usesPg, sums, rq, bleSynced, bleRows, bleTxs >>
    PROVE  BooksAndSettles'
<1>1. DOMAIN rq' = Requests /\ \A x \in Requests : RequestOk(x)'
  BY DEF BooksAndSettles, BooksInv, RequestOk
<1> QED BY <1>1, SameSums, NobodyNewSpends, NothingSettles DEF BooksAndSettles

(* A restart ends every request; the balances of the engine in memory      *)
(* start at zero.                                                          *)
LEMMA RestartStep ==
    ASSUME BooksAndSettles, CreditsRestart
    PROVE  BooksAndSettles'
<1>1. /\ CutShort(Requests) /\ rq' = [x \in Requests |-> Idle] /\ bleSynced' = {}
      /\ UNCHANGED << usesPg, bleRows >>
  BY DEF CreditsRestart
<1>2. /\ DOMAIN rq' = Requests /\ \A x \in Requests : RequestOk(x)' /\ rq'[x].at = "idle"
  BY <1>1 DEF Idle, RequestOk
<1>3. TxsOk /\ TxsOk' /\ TxsGrow
  BY <1>1, CutKeepsCounts DEF BooksAndSettles, SettleInv
<1>4. SettleInv'
  <2>1. /\ DOMAIN bleRows' = BleTxs /\ \A t \in BleTxs : bleRows'[t] = bleRows[t]
    BY <1>1 DEF BooksAndSettles, SettleInv
  <2>2. \A x \in Requests : rq'[x] = rq[x] \/ (InBatch(x)' => BatchOk(x)')
    BY <1>2 DEF InBatch
  <2> QED BY <1>1, <1>2, <1>3, <2>1, <2>2, SettlesMore DEF BooksAndSettles
<1>5. BooksInv'
  <2>1. CASE usesPg
    <3>1. UNCHANGED sums
      BY <2>1 DEF CreditsRestart
    <3> QED BY <1>1, <1>2, <3>1, SameSums, NobodyNewSpends DEF BooksAndSettles
  <2>2. CASE ~usesPg
    <3>1. sums' = [a \in Accounts |-> [balance |-> 0, earned |-> 0, spent |-> 0]]
      BY <2>2 DEF CreditsRestart
    <3> QED BY <1>1, <1>2, <2>2, <3>1 DEF BooksInv, BooksAndSettles, SumsOk, Accounts
  <2> QED BY <2>1, <2>2 DEF BooksAndSettles, BooksInv
<1> QED BY <1>4, <1>5 DEF BooksAndSettles

(* At the start all balances are zero and nothing was sent.                *)
LEMMA BooksStart ==
    ASSUME CreditsInit
    PROVE  BooksAndSettles
<1>1. /\ DOMAIN rq = Requests /\ \A x \in Requests : RequestOk(x) /\ rq[x].at = "idle"
  BY DEF CreditsInit, Idle, RequestOk
<1>2. SettleInv
  BY <1>1 DEF CreditsInit, SettleInv, TxsOk, InBatch
<1>3. SumsOk /\ usesPg \in BOOLEAN /\ \A a \in Owners : sums[a].balance = 0
  BY DEF CreditsInit, SumsOk, Accounts
<1>4. ASSUME NEW a \in Owners
      PROVE  sums[a].balance >= IF usesPg THEN 1 - Cardinality(Requests) + Cardinality(Spending(a)) ELSE 0
  <2>1. Spending(a) = {}
    BY <1>1 DEF Spending
  <2>2. Cardinality(Spending(a)) = 0 /\ Cardinality(Requests) \in Nat \ {0}
    BY <2>1, FS_EmptySet, SpendingFinite
  <2> QED BY <1>3, <2>2
<1>5. BooksInv
  BY <1>1, <1>3, <1>4 DEF BooksInv
<1> QED BY <1>2, <1>5 DEF BooksAndSettles

(* Every action keeps both invariants.                                     *)
LEMMA BooksGoOn ==
    ASSUME BooksAndSettles, [CreditsNext]_cvars
    PROVE  BooksAndSettles'
<1>1. CASE UNCHANGED cvars
  BY <1>1, LostStep DEF cvars, bleVars
<1>2. ASSUME NEW r \in Requests, NEW a \in Owners, SubmitBegins(r, a) PROVE BooksAndSettles'
  <2>1. PICK at \in {"stats", "spend"} : Start(r, at, << a >>)
    BY <1>2 DEF SubmitBegins
  <2> QED BY <1>2, <2>1, QuietStart DEF SubmitBegins, bleVars
<1>3. ASSUME NEW r \in Requests, PolicyStats(r) PROVE BooksAndSettles'
  BY <1>3, PolicyStatsKeeps
<1>4. ASSUME NEW r \in Requests, EnforceContributionFirst(r) PROVE BooksAndSettles'
  <2>1. PICK at \in {"spend", "idle"} : Goto(r, at)
    BY <1>4 DEF EnforceContributionFirst
  <2> QED BY <1>4, <2>1, QuietGoto DEF EnforceContributionFirst, bleVars
<1>5. ASSUME NEW r \in Requests, SpendCredits(r) \/ SpendInsert(r) PROVE BooksAndSettles'
  BY <1>5, SpendStep
<1>6. ASSUME NEW r \in Requests, NEW w \in Workers, RewardBegins(r, w) PROVE BooksAndSettles'
  BY <1>6, QuietStart DEF RewardBegins, bleVars
<1>7. ASSUME NEW r \in Requests, AccrueCredits(r) PROVE BooksAndSettles'
  BY <1>7, AccrueStep
<1>8. ASSUME NEW r \in Requests, AccrueReport(r) PROVE BooksAndSettles'
  BY <1>8, QuietGoto DEF AccrueReport, bleVars
<1>9. ASSUME NEW r \in Requests, FlushOfflineLedger(r) PROVE BooksAndSettles'
  BY <1>9, FlushStep
<1>10. ASSUME NEW r \in Requests, SyncNext(r) \/ SyncCredit(r) \/ SyncDebit(r) \/ SyncAnswered(r)
       PROVE  BooksAndSettles'
  BY <1>10, SyncNextStep, SyncCreditStep, SyncDebitStep, SyncAnsweredStep
<1>11. ASSUME NEW r \in Requests, StatementFails(r) PROVE BooksAndSettles'
  BY <1>11, FailsStep
<1>12. ASSUME NEW t \in BleTxs, RecordBleTx(t) PROVE BooksAndSettles'
  BY <1>12, RecordStep
<1>13. CASE AnswerLost
  BY <1>13, LostStep DEF AnswerLost
<1>14. CASE CreditsRestart
  BY <1>14, RestartStep
<1> QED BY <1>1, <1>2, <1>3, <1>4, <1>5, <1>6, <1>7, <1>8, <1>9, <1>10, <1>11, <1>12, <1>13, <1>14
        DEF CreditsNext

(* However statements interleave, fail or are cut short by a restart, an   *)
(* account is overdrawn by at most one credit for each other request under *)
(* way (in memory, never), and a row a worker will not send again has been *)
(* credited and debited.                                                   *)
THEOREM BooksAreSound == CreditsSpec => []CreditsSafe
<1>1. BooksAndSettles => CreditsSafe
  <2>1. ASSUME BooksAndSettles, NEW a \in Owners
        PROVE  sums[a].balance >= IF usesPg THEN 1 - Cardinality(Requests) ELSE 0
    <3>1. Spending(a) \in SUBSET Requests
      BY DEF Spending
    <3>2. Cardinality(Spending(a)) \in Nat /\ Cardinality(Requests) \in Nat
      BY <3>1, SpendingFinite
    <3>3. sums[a].balance \in Int
      BY <2>1 DEF BooksAndSettles, BooksInv, SumsOk, Accounts
    <3> QED BY <2>1, <3>2, <3>3 DEF BooksAndSettles, BooksInv
  <2> QED BY <2>1 DEF BooksAndSettles, SettleInv, Settled, CreditsSafe, OverdrawIsBounded, SyncedIsSettled
<1> QED BY <1>1, BooksStart, BooksGoOn, PTL DEF CreditsSpec
=============================================================================

------------------------------ MODULE Credits ------------------------------
(***************************************************************************)
(* Credit accounts: what /submit spends, what /result earns, and what      *)
(* /credits/ble-sync settles for work done over Bluetooth while a worker   *)
(* was offline (credits/store.ts, credits/engine.ts, the handlers of       *)
(* swarm/coordinator.ts that call them, flushOfflineLedger of              *)
(* swarm/worker-runner.ts).                                                *)
(*                                                                         *)
(* With Postgres every statement is an await: two requests interleave      *)
(* between them, a statement may fail, and the process may stop.  Without  *)
(* it the engine in memory does each call at once.  Credits are counted in *)
(* units of one task submission.                                           *)
(***************************************************************************)
EXTENDS Integers, Sequences, FiniteSets

CONSTANTS
    Owners,          \* accounts people submit tasks from
    Workers,         \* agent ids; an agent without an owner is its own account
    OwnedBy,         \* agent_ownership: from some workers to owners
    BleTxs,          \* transactions done over Bluetooth
    Unverified,      \* those with a signature that does not verify
    Requester, Provider,   \* the two agents of a Bluetooth transaction
    Requests,        \* requests the coordinator can have under way
    NoRequest,
    BurstCredits,    \* CONTRIBUTION_BURST_CREDITS
    MinRatio,        \* MIN_CONTRIBUTION_RATIO
    MaxEarned,       \* bound on the credits an account ever earns
    MaxFaults        \* bound on failing statements, lost answers and restarts

(* The portal names the account of a user acct-... and no agent has such   *)
(* an id.                                                                  *)
ASSUME CreditsAssumption ==
    /\ Owners \cap Workers = {}
    /\ IsFiniteSet(Requests) /\ Requests # {} /\ IsFiniteSet(BleTxs)
    /\ DOMAIN OwnedBy \subseteq Workers /\ \A w \in DOMAIN OwnedBy : OwnedBy[w] \in Owners
    /\ Unverified \subseteq BleTxs
    /\ Requester \in [BleTxs -> Workers] /\ Provider \in [BleTxs -> Workers]
    /\ NoRequest \notin Requests
    /\ BurstCredits \in Nat /\ MinRatio \in Nat /\ MaxEarned \in Nat /\ MaxFaults \in Nat

VARIABLES
    usesPg,     \* whether DATABASE_URL is set
    sums,       \* per account: what the queries over credit_transactions return
    reported,   \* per account: contribution reports stored for issuance
    rq,         \* the requests under way
    bleSynced,  \* syncedBLETxIds, in the coordinator's memory
    bleRows,    \* the worker's ble_credit_ledger
    bleTxs,     \* how often each Bluetooth transaction credited, debited, was cut short
    flushing,   \* the request flushOfflineLedger waits for
    cfaults     \* faults so far

bleVars == << bleSynced, bleRows, bleTxs, flushing >>
cvars == << usesPg, sums, reported, rq, bleVars, cfaults >>

Accounts == Owners \union Workers

(* rewardAccountForAgent: the owning account, or the agent itself.         *)
RewardAccount(w) == IF usesPg /\ w \in DOMAIN OwnedBy THEN OwnedBy[w] ELSE w

(* A request: its handler, the statement it is at, the account or the      *)
(* transactions it still has to treat, and those sent or the sums read.    *)
Idle == [ at |-> "idle", about |-> << >>, seen |-> << >> ]
Start(r, at, about) ==
    rq[r] = Idle /\ rq' = [rq EXCEPT ![r] = [at |-> at, about |-> about, seen |-> about]]
Goto(r, at) == rq' = [rq EXCEPT ![r] = IF at = "idle" THEN Idle ELSE [@ EXCEPT !.at = at]]
Account(r) == rq[r].about[1]

(* What one more row of credit_transactions adds to the balance and to the *)
(* two sums creditContributionStats reads.                                 *)
Insert(account, n, reason) ==
    sums' = [ sums EXCEPT ![account] =
                [ balance |-> @.balance + n,
                  earned  |-> IF reason = "compute_contribution" THEN @.earned + n ELSE @.earned,
                  spent   |-> IF reason = "task_submit" THEN @.spent - n ELSE @.spent ] ]

CreditsInit ==
    /\ usesPg \in BOOLEAN
    /\ sums = [a \in Accounts |-> [balance |-> 0, earned |-> 0, spent |-> 0]]
    /\ reported = [a \in Accounts |-> 0]
    /\ rq = [r \in Requests |-> Idle]
    /\ bleSynced = {}
    /\ bleRows = [t \in BleTxs |-> "none"]
    /\ bleTxs = [t \in BleTxs |-> [credited |-> 0, debited |-> 0, cut |-> 0]]
    /\ flushing = NoRequest
    /\ cfaults = 0

-----------------------------------------------------------------------------
(* POST /submit starts with enforceContributionFirstPolicy, which asks     *)
(* nothing without Postgres.                                               *)
SubmitBegins(r, a) ==
    /\ Start(r, IF usesPg THEN "stats" ELSE "spend", << a >>)
    /\ UNCHANGED << usesPg, sums, reported, bleVars, cfaults >>

(* creditContributionStats answers ...                                     *)
PolicyStats(r) ==
    /\ rq[r].at = "stats"
    /\ rq' = [rq EXCEPT ![r].at = "policy", ![r].seen = << sums[Account(r)] >>]
    /\ UNCHANGED << usesPg, sums, reported, bleVars, cfaults >>

(* ... then creditBalance, and the policy decides: 403 or go on.           *)
EnforceContributionFirst(r) ==
    LET stats == rq[r].seen[1]
        ok == \/ sums[Account(r)].balance >= BurstCredits
              \/ stats.spent <= 0
              \/ stats.earned >= MinRatio * stats.spent
    IN  /\ rq[r].at = "policy"
        /\ Goto(r, IF ok THEN "spend" ELSE "idle")
        /\ UNCHANGED << usesPg, sums, reported, bleVars, cfaults >>

(* Faulty variant of SpendCredits: an account at zero may still spend.     *)
SpendCreditsAtZero(r) ==
    LET enough == sums[Account(r)].balance >= 0
    IN  /\ rq[r].at = "spend"
        /\ Goto(r, IF enough /\ usesPg THEN "insert" ELSE "idle")
        /\ IF enough /\ ~usesPg THEN Insert(Account(r), -1, "task_submit") ELSE UNCHANGED sums
        /\ UNCHANGED << usesPg, reported, bleVars, cfaults >>

(* spendCredits reads the balance: 402 when it is below 1.  The engine in  *)
(* memory adds the transaction in the same step.                           *)
SpendCredits(r) ==
    LET enough == sums[Account(r)].balance >= 1
    IN  /\ rq[r].at = "spend"
        /\ Goto(r, IF enough /\ usesPg THEN "insert" ELSE "idle")
        /\ IF enough /\ ~usesPg THEN Insert(Account(r), -1, "task_submit") ELSE UNCHANGED sums
        /\ UNCHANGED << usesPg, reported, bleVars, cfaults >>

(* With Postgres the spend is a second statement.  What follows in /submit *)
(* never gives the credit back.                                            *)
SpendInsert(r) ==
    /\ rq[r].at = "insert"
    /\ Insert(Account(r), -1, "task_submit")
    /\ Goto(r, "idle")
    /\ UNCHANGED << usesPg, reported, bleVars, cfaults >>

(* /result has completed a subtask of worker w and rewards its account.    *)
RewardBegins(r, w) ==
    /\ sums[RewardAccount(w)].earned < MaxEarned
    /\ Start(r, "earn", << RewardAccount(w) >>)
    /\ UNCHANGED << usesPg, sums, reported, bleVars, cfaults >>

(* accrueCredits inserts the transaction; the engine in memory is done.    *)
AccrueCredits(r) ==
    /\ rq[r].at = "earn"
    /\ Insert(Account(r), 1, "compute_contribution")
    /\ Goto(r, IF usesPg THEN "report" ELSE "idle")
    /\ UNCHANGED << usesPg, reported, bleVars, cfaults >>

(* ... then the contribution report, which is what issuance counts.        *)
AccrueReport(r) ==
    /\ rq[r].at = "report"
    /\ reported' = [reported EXCEPT ![Account(r)] = @ + 1]
    /\ Goto(r, "idle")
    /\ UNCHANGED << usesPg, sums, bleVars, cfaults >>

-----------------------------------------------------------------------------
Unsynced == { t \in BleTxs : bleRows[t] = "unsynced" }
Batches(S) == { q \in [1..Cardinality(S) -> S] : \A i, j \in DOMAIN q : i # j => q[i] # q[j] }

(* routeTask completed a task at a peer: OfflineLedger.record.             *)
RecordBleTx(t) ==
    /\ bleRows[t] = "none"
    /\ bleRows' = [bleRows EXCEPT ![t] = "unsynced"]
    /\ UNCHANGED << usesPg, sums, reported, rq, bleSynced, bleTxs, flushing, cfaults >>

(* flushOfflineLedger posts every unsynced row in one request.             *)
FlushOfflineLedger(r) ==
    /\ flushing = NoRequest /\ Unsynced # {}
    /\ \E q \in Batches(Unsynced) : Start(r, "next", q)
    /\ flushing' = r
    /\ UNCHANGED << usesPg, sums, reported, bleSynced, bleRows, bleTxs, cfaults >>

Tx(r) == Head(rq[r].about)

(* POST /credits/ble-sync takes the next transaction and skips one whose   *)
(* id it knows or whose signature is wrong.                                *)
SyncNext(r) ==
    /\ rq[r].at = "next" /\ rq[r].about # << >>
    /\ rq' = [rq EXCEPT ![r] = IF Tx(r) \in bleSynced \union Unverified
                               THEN [@ EXCEPT !.about = Tail(rq[r].about)]
                               ELSE [@ EXCEPT !.at = "credit"]]
    /\ UNCHANGED << usesPg, sums, reported, bleVars, cfaults >>

(* Faulty variant of SyncCredit: the id is remembered before the           *)
(* transaction is settled.                                                 *)
SyncCreditRemembered(r) ==
    /\ rq[r].at = "credit"
    /\ Insert(RewardAccount(Provider[Tx(r)]), 1, "ble_compute")
    /\ bleTxs' = [bleTxs EXCEPT ![Tx(r)].credited = @ + 1]
    /\ bleSynced' = bleSynced \union {Tx(r)}
    /\ Goto(r, "debit")
    /\ UNCHANGED << usesPg, reported, bleRows, flushing, cfaults >>

(* The provider's account is credited ...                                  *)
SyncCredit(r) ==
    /\ rq[r].at = "credit"
    /\ Insert(RewardAccount(Provider[Tx(r)]), 1, "ble_compute")
    /\ bleTxs' = [bleTxs EXCEPT ![Tx(r)].credited = @ + 1]
    /\ Goto(r, "debit")
    /\ UNCHANGED << usesPg, reported, bleSynced, bleRows, flushing, cfaults >>

(* ... the requester is debited, under its agent id because the worker     *)
(* keeps no account, whatever its balance, and the id is remembered.       *)
SyncDebit(r) ==
    /\ rq[r].at = "debit"
    /\ Insert(Requester[Tx(r)], -1, "ble_compute")
    /\ bleTxs' = [bleTxs EXCEPT ![Tx(r)].debited = @ + 1]
    /\ bleSynced' = bleSynced \union {Tx(r)}
    /\ rq' = [rq EXCEPT ![r].at = "next", ![r].about = Tail(@)]
    /\ UNCHANGED << usesPg, reported, bleRows, flushing, cfaults >>

(* The batch is done; a worker still waiting marks the rows it sent.       *)
SyncAnswered(r) ==
    /\ rq[r].at = "next" /\ rq[r].about = << >>
    /\ Goto(r, "idle")
    /\ IF flushing = r
       THEN /\ bleRows' = [ t \in BleTxs |-> IF \E i \in DOMAIN rq[r].seen : rq[r].seen[i] = t
                                             THEN "synced" ELSE bleRows[t] ]
            /\ flushing' = NoRequest
       ELSE UNCHANGED << bleRows, flushing >>
    /\ UNCHANGED << usesPg, sums, reported, bleSynced, bleTxs, cfaults >>

-----------------------------------------------------------------------------
(* A transaction that credited and will not debit in this attempt.         *)
CutShort(R) ==
    bleTxs' = [ t \in BleTxs |-> [bleTxs[t] EXCEPT !.cut =
                  @ + Cardinality({ r \in R : rq[r].at = "debit" /\ Tx(r) = t })] ]

(* A statement throws: the request ends with an error, and so does a flush *)
(* that waits for it.                                                      *)
StatementFails(r) ==
    /\ usesPg /\ rq[r].at \notin {"idle", "next"}
    /\ cfaults < MaxFaults /\ cfaults' = cfaults + 1
    /\ CutShort({r})
    /\ Goto(r, "idle")
    /\ flushing' = IF flushing = r THEN NoRequest ELSE flushing
    /\ UNCHANGED << usesPg, sums, reported, bleSynced, bleRows >>

(* The worker gives up waiting (or restarts) while the coordinator goes on *)
(* with the batch; it will send the same rows again.                       *)
AnswerLost ==
    /\ flushing # NoRequest
    /\ cfaults < MaxFaults /\ cfaults' = cfaults + 1
    /\ flushing' = NoRequest
    /\ UNCHANGED << usesPg, sums, reported, rq, bleSynced, bleRows, bleTxs >>

(* The coordinator restarts: Postgres keeps the transactions, the engine   *)
(* in memory and the set of synced ids are gone.                           *)
CreditsRestart ==
    /\ cfaults < MaxFaults /\ cfaults' = cfaults + 1
    /\ CutShort(Requests)
    /\ rq' = [r \in Requests |-> Idle]
    /\ flushing' = NoRequest
    /\ bleSynced' = {}
    /\ sums' = IF usesPg THEN sums
               ELSE [a \in Accounts |-> [balance |-> 0, earned |-> 0, spent |-> 0]]
    /\ UNCHANGED << usesPg, reported, bleRows >>

CreditsNext ==
    \/ \E r \in Requests :
         \/ \E a \in Owners : SubmitBegins(r, a)
         \/ PolicyStats(r) \/ EnforceContributionFirst(r) \/ SpendCredits(r) \/ SpendInsert(r)
         \/ \E w \in Workers : RewardBegins(r, w)
         \/ AccrueCredits(r) \/ AccrueReport(r)
         \/ FlushOfflineLedger(r)
         \/ SyncNext(r) \/ SyncCredit(r) \/ SyncDebit(r) \/ SyncAnswered(r)
         \/ StatementFails(r)
    \/ \E t \in BleTxs : RecordBleTx(t)
    \/ AnswerLost
    \/ CreditsRestart

CreditsSpec == CreditsInit /\ [][CreditsNext]_cvars

-----------------------------------------------------------------------------

(* spendCredits checks the balance and spends in two statements, so an     *)
(* account can be overdrawn, but only by submissions that overlap: at most *)
(* one credit for each other request under way.  In memory, never.         *)
OverdrawIsBounded ==
    \A a \in Owners : sums[a].balance >= IF usesPg THEN 1 - Cardinality(Requests) ELSE 0

(* A row the worker marks as synced, and so never sends again, was settled *)
(* on both sides, except one whose signature was refused.                  *)
SyncedIsSettled ==
    \A t \in BleTxs \ Unverified :
      bleRows[t] = "synced" => bleTxs[t].credited > 0 /\ bleTxs[t].debited > 0

(* Both of them.                                                           *)
CreditsSafe == OverdrawIsBounded /\ SyncedIsSettled
=============================================================================

------------------------------ MODULE Issuance ------------------------------
(***************************************************************************)
(* Hourly issuance in swarm/coordinator.ts with economy/issuance.ts and    *)
(* the tables of db/postgres.ts: coordinators that share a database propose*)
(* epochs, write the allocations, vote, and whoever sees a quorum commits  *)
(* the epoch and marks it final.  Final epochs are anchored and are what a *)
(* settled payment is shared out by.  The quorum is a majority of the      *)
(* coordinators the treasury policy approves, as the coordinator has it in *)
(* memory.  Every database call is a step of its own.  A second state      *)
(* machine below is the negotiation of prices between coordinators.        *)
(***************************************************************************)
EXTENDS Integers, Sequences, FiniteSets, SequencesExt, FiniteSetsExt

CONSTANTS
    Issuers,        \* coordinators on one database
    Contributors,   \* accounts with contributions in the window
    MaxEpochs,      \* bound on proposed epochs
    PolicySets,     \* the coordinators a policy may approve
    MaxAnchors,     \* bound on anchors
    MaxCalls,       \* bound on votes handled at a time
    PriceQuotes,    \* what peers may answer: [value, weight]
    MaxQuotes       \* bound on the quotes of a negotiation

ASSUME IssuanceAssumption ==
    /\ IsFiniteSet(Issuers) /\ MaxEpochs \in Nat /\ {MaxAnchors, MaxCalls} \subseteq Nat
    /\ PolicySets \subseteq SUBSET Issuers
    /\ PriceQuotes \subseteq [value : Nat, weight : Nat \ {0}]

VARIABLES
    policyOf,      \* treasuryPolicy in each memory: who is approved, {} without one
    policyStored,  \* the policy last written
    epochs,        \* issuance_epochs in the order of creation
    allocated,     \* issuance_allocations: the accounts written for each epoch
    quorumLog,     \* quorum_ledger_records, without their order
    tick,          \* what each coordinator's runIssuanceTick does
    finalizers,    \* calls of maybeFinalizeIssuanceEpoch under way
    anchorLog,     \* bitcoin_anchor_records: epochs, 0 for a stats checkpoint
    paidOut        \* payout events: the epoch each settled payment went by

ivars == << policyOf, policyStored, epochs, allocated, quorumLog, tick,
            finalizers, anchorLog, paidOut >>

NoTick == [step |-> "idle", epoch |-> 0]

IssuanceInit ==
    /\ policyOf = [c \in Issuers |-> {}] /\ policyStored = {}
    /\ epochs = << >> /\ allocated = << >> /\ quorumLog = {}
    /\ tick = [c \in Issuers |-> NoTick] /\ finalizers = {}
    /\ anchorLog = << >> /\ paidOut = {}

-----------------------------------------------------------------------------
(* POST /economy/treasury/policies: the draft counts at once, in this      *)
(* coordinator's memory; activation changes only its status.               *)
CreatePolicy(c, approved) ==
    /\ policyOf' = [policyOf EXCEPT ![c] = approved]
    /\ policyStored' = approved
    /\ UNCHANGED << epochs, allocated, quorumLog, tick, finalizers, anchorLog, paidOut >>

QuorumThreshold(c) ==
    IF policyOf[c] = {} THEN 1 ELSE Cardinality(policyOf[c]) \div 2 + 1

(* appendQuorumRecord.                                                     *)
QuorumRecord(type, e, c, approve) ==
    [type |-> type, epoch |-> e, by |-> c, approve |-> approve]

AppendQuorumRecord(type, e, c, approve) ==
    quorumLog' = quorumLog \union {QuorumRecord(type, e, c, approve)}

(* Whom an epoch pays: every account with contributions.                   *)
Due == Contributors

(* runIssuanceTick reads the shares and writes the epoch.                  *)
TickBegins(c) ==
    /\ tick[c] = NoTick /\ Len(epochs) < MaxEpochs
    /\ epochs' = Append(epochs, [by |-> c, final |-> FALSE])
    /\ allocated' = Append(allocated, {})
    /\ tick' = [tick EXCEPT ![c] = [step |-> "allocate", epoch |-> Len(epochs) + 1]]
    /\ UNCHANGED << policyOf, policyStored, quorumLog, finalizers, anchorLog, paidOut >>

(* replaceIssuanceAllocations: a row per contributor, one after another.   *)
WriteAllocation(c, a) ==
    LET e == tick[c].epoch IN
    /\ tick[c].step = "allocate" /\ a \notin allocated[e]
    /\ allocated' = [allocated EXCEPT ![e] = @ \union {a}]
    /\ UNCHANGED << policyOf, policyStored, epochs, quorumLog, tick, finalizers, anchorLog, paidOut >>

ProposeEpoch(c) ==
    LET e == tick[c].epoch IN
    /\ tick[c].step = "allocate" /\ allocated[e] = Due
    /\ AppendQuorumRecord("proposal", e, c, TRUE)
    /\ tick' = [tick EXCEPT ![c].step = "vote"]
    /\ UNCHANGED << policyOf, policyStored, epochs, allocated, finalizers, anchorLog, paidOut >>

Finalizer(c, e) == [by |-> c, epoch |-> e, step |-> "read", approvals |-> {},
                    needed |-> 1, hasCommit |-> FALSE]

VoteForOwn(c) ==
    /\ tick[c].step = "vote"
    /\ AppendQuorumRecord("vote", tick[c].epoch, c, TRUE)
    /\ finalizers' = finalizers \union {Finalizer(c, tick[c].epoch)}
    /\ tick' = [tick EXCEPT ![c] = NoTick]
    /\ UNCHANGED << policyOf, policyStored, epochs, allocated, anchorLog, paidOut >>

(* POST /economy/issuance/quorum/vote at c.                                *)
CastVote(c, e, approve) ==
    /\ Cardinality(finalizers) < MaxCalls
    /\ AppendQuorumRecord("vote", e, c, approve)
    /\ finalizers' = finalizers \union {Finalizer(c, e)}
    /\ UNCHANGED << policyOf, policyStored, epochs, allocated, tick, anchorLog, paidOut >>

(* Faulty variant of Counts: a vote counts whatever it says.               *)
CountsAnyVote(r) == r.type \in {"proposal", "vote"}

(* Which records count as approval.                                        *)
Counts(r) == r.type = "proposal" \/ (r.type = "vote" /\ r.approve)

RecordsOf(e) == {r \in quorumLog : r.epoch = e}

(* maybeFinalizeIssuanceEpoch reads the epoch's records.  Without a quorum *)
(* it returns; with one it commits, unless somebody did.                   *)
ReadApprovals(f) ==
    LET seen == {r.by : r \in {s \in RecordsOf(f.epoch) : Counts(s)}} IN
    /\ f \in finalizers /\ f.step = "read"
    /\ finalizers' = (finalizers \ {f}) \union
         (IF Cardinality(seen) >= QuorumThreshold(f.by)
          THEN {[f EXCEPT !.step = "commit", !.approvals = seen, !.needed = QuorumThreshold(f.by),
                          !.hasCommit = \E r \in RecordsOf(f.epoch) : r.type = "commit"]}
          ELSE {})
    /\ UNCHANGED << policyOf, policyStored, epochs, allocated, quorumLog, tick, anchorLog, paidOut >>

(* The commit says whose approvals it counted, and how many it needed.     *)
CommitRecord(f) ==
    [type |-> "commit", epoch |-> f.epoch, by |-> f.by, approve |-> TRUE,
     approvals |-> f.approvals, needed |-> f.needed]

CommitEpoch(f) ==
    /\ f \in finalizers /\ f.step = "commit"
    /\ quorumLog' = IF f.hasCommit THEN quorumLog ELSE quorumLog \union {CommitRecord(f)}
    /\ finalizers' = (finalizers \ {f}) \union {[f EXCEPT !.step = "final"]}
    /\ UNCHANGED << policyOf, policyStored, epochs, allocated, tick, anchorLog, paidOut >>

MarkFinal(f) ==
    /\ f \in finalizers /\ f.step = "final"
    /\ finalizers' = finalizers \ {f}
    /\ epochs' = [epochs EXCEPT ![f.epoch].final = TRUE]
    /\ UNCHANGED << policyOf, policyStored, allocated, quorumLog, tick, anchorLog, paidOut >>

-----------------------------------------------------------------------------

(* latestIssuanceEpoch(true), 0 for none.                                  *)
LatestFinal == Max({0} \union {e \in DOMAIN epochs : epochs[e].final})

LatestAnchor == IF anchorLog = << >> THEN 0 ELSE Last(anchorLog)

(* maybeAnchorLatestFinalizedEpoch: nothing to do only if the very last    *)
(* anchor is for this epoch.                                               *)
AnchorEpoch(c) ==
    LET e == LatestFinal IN
    /\ e # 0 /\ LatestAnchor # e /\ Len(anchorLog) < MaxAnchors
    /\ AppendQuorumRecord("checkpoint", e, c, TRUE)
    /\ anchorLog' = Append(anchorLog, e)
    /\ UNCHANGED << policyOf, policyStored, epochs, allocated, tick, finalizers, paidOut >>

(* maybeAnchorLatestStatsCheckpoint writes to the same table.              *)
AnchorStats ==
    /\ Len(anchorLog) < MaxAnchors
    /\ anchorLog' = Append(anchorLog, 0)
    /\ UNCHANGED << policyOf, policyStored, epochs, allocated, quorumLog, tick, finalizers, paidOut >>

(* allocateIntentPayouts for a settled payment.                            *)
AllocatePayouts ==
    LET e == LatestFinal IN
    /\ e # 0 /\ allocated[e] # {}
    /\ paidOut' = paidOut \union {[epoch |-> e, to |-> allocated[e]]}
    /\ UNCHANGED << policyOf, policyStored, epochs, allocated, quorumLog, tick, finalizers, anchorLog >>

(* A coordinator restarts: what it was doing ends, it reads the policy.    *)
IssuerRestart(c) ==
    /\ tick' = [tick EXCEPT ![c] = NoTick]
    /\ finalizers' = {f \in finalizers : f.by # c}
    /\ policyOf' = [policyOf EXCEPT ![c] = policyStored]
    /\ UNCHANGED << policyStored, epochs, allocated, quorumLog, anchorLog, paidOut >>

IssuanceNext ==
    \/ \E c \in Issuers :
         \/ TickBegins(c) \/ ProposeEpoch(c) \/ VoteForOwn(c) \/ AnchorEpoch(c) \/ IssuerRestart(c)
         \/ \E approved \in PolicySets : CreatePolicy(c, approved)
         \/ \E a \in Due : WriteAllocation(c, a)
         \/ \E e \in DOMAIN epochs, approve \in BOOLEAN : CastVote(c, e, approve)
    \/ \E f \in finalizers : ReadApprovals(f) \/ CommitEpoch(f) \/ MarkFinal(f)
    \/ AnchorStats \/ AllocatePayouts

IssuanceSpec == IssuanceInit /\ [][IssuanceNext]_ivars

-----------------------------------------------------------------------------
(* A final epoch rests on a commit whose approvals reached the threshold   *)
(* when the committing coordinator counted them, each from a coordinator   *)
(* that did propose or approve that epoch, counted once however often it   *)
(* voted, although votes, commits and policies come in between.            *)
FinalHasQuorum ==
    \A e \in DOMAIN epochs : epochs[e].final =>
      \E r \in RecordsOf(e) :
        /\ r.type = "commit" /\ Cardinality(r.approvals) >= r.needed
        /\ \A c \in r.approvals : \E s \in RecordsOf(e) :
             s.by = c /\ s.type \in {"proposal", "vote"} /\ s.approve

-----------------------------------------------------------------------------
(* POST /economy/price/consensus: a coordinator asks its approved peers    *)
(* for a quote and takes the weighted median of its own and theirs.        *)
VARIABLES
    quotes,    \* answers to the negotiation under way
    price      \* the price last agreed on, with the quotes it came from

prvars == << quotes, price >>

PricesInit == quotes = << >> /\ price = << >>

(* POST /economy/price/consensus: the local quote and the answers of those *)
(* peers that do answer, in the order they come.                           *)
QuoteArrives(q) ==
    /\ Len(quotes) < MaxQuotes
    /\ quotes' = Append(quotes, q)
    /\ UNCHANGED price

(* The weight of the entries at the positions I.                           *)
WeightAt(entries, I) ==
    LET sum[k \in 0 .. Len(entries)] ==
          IF k = 0 THEN 0 ELSE sum[k - 1] + (IF k \in I THEN entries[k].weight ELSE 0)
    IN  sum[Len(entries)]

TotalWeight(entries) == WeightAt(entries, DOMAIN entries)

(* The positions of the entries from the cheapest to the dearest.          *)
IsPriceOrder(o, entries) ==
    /\ \A i \in DOMAIN entries : \E j \in DOMAIN entries : o[j] = i
    /\ \A j, k \in DOMAIN entries : j < k => entries[o[j]].value <= entries[o[k]].value

PriceOrder(entries) ==
    CHOOSE o \in [DOMAIN entries -> DOMAIN entries] : IsPriceOrder(o, entries)

(* Faulty variant of MedianReached: more than half.                        *)
MedianReachedAbove(cumulative, total) == 2 * cumulative > total + 1

MedianReached(cumulative, total) == 2 * cumulative >= total

(* weightedMedian: the value at which the sorted weights reach a half.     *)
WeightedMedian(entries) ==
    LET o == PriceOrder(entries)
        reached == {k \in DOMAIN entries :
                      MedianReached(WeightAt(entries, {o[j] : j \in 1 .. k}), TotalWeight(entries))}
    IN IF reached = {} THEN entries[o[Len(entries)]].value ELSE entries[o[Min(reached)]].value

AgreeOnPrice ==
    /\ quotes # << >>
    /\ price' = << [agreed |-> WeightedMedian(quotes), from |-> quotes] >>
    /\ quotes' = << >>

(* POST /economy/price/propose: this coordinator's own price for what the  *)
(* proposer reports.                                                       *)
ProposePrice(q) ==
    /\ price' = << [agreed |-> q.value, from |-> << q >>] >>
    /\ UNCHANGED quotes

PricesNext == AgreeOnPrice \/ \E q \in PriceQuotes : QuoteArrives(q) \/ ProposePrice(q)

PricesSpec == PricesInit /\ [][PricesNext]_prvars

-----------------------------------------------------------------------------
(* Neither the entries below p nor those above it outweigh the rest.       *)
IsMedian(p, entries) ==
    /\ 2 * WeightAt(entries, {j \in DOMAIN entries : entries[j].value < p}) < TotalWeight(entries)
    /\ 2 * WeightAt(entries, {j \in DOMAIN entries : entries[j].value > p}) <= TotalWeight(entries)

(* The agreed price is a median of the quotes: neither the cheaper nor the *)
(* dearer quotes together outweigh the rest.                               *)
PriceIsMedian == \A i \in DOMAIN price : IsMedian(price[i].agreed, price[i].from)
=============================================================================

----------------------------- MODULE StatsLedger -----------------------------
(***************************************************************************)
(* The stats ledger of every coordinator (swarm/coordinator.ts, ledger/,   *)
(* db/postgres.ts): records are signed, stored and given to other          *)
(* coordinators; a coordinator signs the head of its ledger as a           *)
(* checkpoint, commits a checkpoint that enough coordinators have signed,  *)
(* and anchors the head.  The projections that follow every record (node   *)
(* status, earnings) are left out.  Ticks, ingests and requests overlap at *)
(* every await.  Records are numbered in the order of their time stamps    *)
(* (issued_at_ms, then id); a hash stands for its record.                  *)
(*                                                                         *)
(* syncStatsLedgerFromPeer looks for issuedAtMs at the top of the answer   *)
(* of /stats/ledger/head, which has it under "head", and always returns    *)
(* there: records only travel by POST /stats/ledger/ingest.                *)
(***************************************************************************)
EXTENDS Naturals, FiniteSets, FiniteSetsExt

CONSTANTS
    Members,     \* coordinators
    MaxRecords,  \* bound on records
    MaxRuns      \* bound on finalisations that overlap at one coordinator

ASSUME StatsAssumption == MaxRecords \in Nat /\ MaxRuns \in Nat

VARIABLES
    ledger,     \* the records issued so far, by number
    statsRows,  \* stats_ledger_records of each coordinator
    known,      \* the peers each coordinator knows
    finalizing, \* finalisations under way
    anchored    \* the checkpoint of the newest of the bitcoin_anchor_records

svars == << ledger, statsRows, known, finalizing, anchored >>

Ids == 1 .. MaxRecords
NoRecord == 0
Next1 == Cardinality(DOMAIN ledger) + 1

StatsInit ==
    /\ ledger = [r \in {} |-> 0]
    /\ statsRows = [c \in Members |-> {}]
    /\ known = [c \in Members |-> {}]
    /\ finalizing = {} /\ anchored = NoRecord

(* ordering.append of a new record.                                        *)
Issue(rec) ==
    /\ Next1 <= MaxRecords
    /\ ledger' = [r \in DOMAIN ledger \union {Next1} |-> IF r = Next1 THEN rec ELSE ledger[r]]

(* latestStatsLedgerHead.                                                  *)
StatsHead(c) == IF statsRows[c] = {} THEN NoRecord ELSE Max(statsRows[c])

(* statsQuorumThreshold.                                                   *)
StatsQuorum(c) == (Cardinality(known[c]) + 1) \div 2 + 1

(* checkpointSignatureStatus.                                              *)
HasCommit(c, cp) == \E r \in statsRows[c] : ledger[r].kind = "commit" /\ ledger[r].cp = cp

(* Faulty variant of Signatures: of any checkpoint.                        *)
SignaturesOfAny(c, cp) == {r \in statsRows[c] : ledger[r].kind = "signature"}

Signatures(c, cp) == {r \in statsRows[c] : ledger[r].kind = "signature" /\ ledger[r].cp = cp}
SignersOf(sigs) == {ledger[r].by : r \in sigs}

-----------------------------------------------------------------------------
(* A handler issues a record and stores it.                                *)
AppendStats(c) ==
    /\ Issue([kind |-> "event", by |-> c])
    /\ statsRows' = [statsRows EXCEPT ![c] = @ \union {Next1}]
    /\ UNCHANGED << known, finalizing, anchored >>

(* A finalisation begins by reading the head: a tick, or after an ingest.  *)
ReadHead(c) == [by |-> c, at |-> "head", cp |-> StatsHead(c), commit |-> FALSE, sigs |-> {}, own |-> NoRecord]
MayFinalize(c) == Cardinality({f \in finalizing : f.by = c}) < MaxRuns

FinalizeTick(c) ==
    /\ StatsHead(c) # NoRecord /\ MayFinalize(c)
    /\ finalizing' = finalizing \union {ReadHead(c)}
    /\ UNCHANGED << ledger, statsRows, known, anchored >>

(* verifyStatsLedgerRecord: the issuer is known and the record is its own. *)
Verifies(c, r) == ledger[r].by \in known[c] \union {c}

(* POST /stats/ledger/ingest of records, new or not, that known            *)
(* coordinators have signed, then a finalisation; a record that is stored  *)
(* already only brings the finalisation.                                   *)
IngestStats(c, r) ==
    /\ r \in DOMAIN ledger \ statsRows[c] /\ Verifies(c, r) /\ MayFinalize(c)
    /\ statsRows' = [statsRows EXCEPT ![c] = @ \union {r}]
    /\ finalizing' = finalizing \union {[ReadHead(c) EXCEPT !.cp = Max(statsRows[c] \union {r})]}
    /\ UNCHANGED << ledger, known, anchored >>

(* The signatures are read; without one of its own the coordinator signs.  *)
SignCheckpoint(f) ==
    LET sigs == Signatures(f.by, f.cp)
    IN  /\ f \in finalizing /\ f.at = "head"
        /\ IF f.by \in SignersOf(sigs)
           THEN /\ UNCHANGED ledger
                /\ finalizing' = (finalizing \ {f}) \union
                     {[f EXCEPT !.at = "signed", !.commit = HasCommit(f.by, f.cp), !.sigs = sigs]}
           ELSE /\ Issue([kind |-> "signature", by |-> f.by, cp |-> f.cp])
                /\ finalizing' = (finalizing \ {f}) \union
                     {[f EXCEPT !.at = "signing", !.commit = HasCommit(f.by, f.cp),
                                !.sigs = sigs \union {Next1}, !.own = Next1]}
        /\ UNCHANGED << statsRows, known, anchored >>

(* The signature is stored, or storing it fails and the run ends.          *)
StoreSignature(f, ok) ==
    /\ f \in finalizing /\ f.at = "signing"
    /\ finalizing' = (finalizing \ {f}) \union {g \in {[f EXCEPT !.at = "signed"]} : ok}
    /\ statsRows' = [statsRows EXCEPT ![f.by] = @ \union {r \in {f.own} : ok}]
    /\ UNCHANGED << ledger, known, anchored >>

(* Enough coordinators have signed.                                        *)
Enough(f) == Cardinality(SignersOf(f.sigs)) >= StatsQuorum(f.by)

(* A commit is issued and stored, or the run ends without one.             *)
CommitCheckpoint(f) ==
    /\ f \in finalizing /\ f.at = "signed"
    /\ finalizing' = finalizing \ {f}
    /\ IF ~f.commit /\ Enough(f)
       THEN /\ Issue([kind |-> "commit", by |-> f.by, cp |-> f.cp,
                      threshold |-> StatsQuorum(f.by), signers |-> SignersOf(f.sigs)])
            /\ statsRows' = [statsRows EXCEPT ![f.by] = @ \union {Next1}]
       ELSE UNCHANGED << ledger, statsRows >>
    /\ UNCHANGED << known, anchored >>

-----------------------------------------------------------------------------
(* maybeAnchorLatestStatsCheckpoint: the head, whatever it is, is booked   *)
(* as anchored; what happens between reading and writing has no effect.    *)
AnchorHead(c) ==
    /\ StatsHead(c) # NoRecord
    /\ anchored' = StatsHead(c)
    /\ UNCHANGED << ledger, statsRows, known, finalizing >>

(* A coordinator learns of a peer.                                         *)
LearnPeer(c, d) ==
    /\ d # c /\ d \notin known[c]
    /\ known' = [known EXCEPT ![c] = @ \union {d}]
    /\ UNCHANGED << ledger, statsRows, finalizing, anchored >>

(* A coordinator restarts: what is under way is lost, its peers too.       *)
StatsRestart(c) ==
    /\ finalizing' = {f \in finalizing : f.by # c}
    /\ known' = [known EXCEPT ![c] = {}]
    /\ UNCHANGED << ledger, statsRows, anchored >>

StatsNext ==
    \/ \E c \in Members :
         \/ AppendStats(c) \/ FinalizeTick(c) \/ AnchorHead(c) \/ StatsRestart(c)
         \/ \E r \in Ids : IngestStats(c, r)
         \/ \E d \in Members : LearnPeer(c, d)
    \/ \E f \in finalizing :
         \/ SignCheckpoint(f) \/ CommitCheckpoint(f)
         \/ \E ok \in BOOLEAN : StoreSignature(f, ok)

StatsSpec == StatsInit /\ [][StatsNext]_svars

-----------------------------------------------------------------------------
(* A commit is backed: as many different coordinators as its threshold     *)
(* says have each signed exactly the checkpoint it commits, although       *)
(* finalisations overlap and each of them may sign.                        *)
CommitBacked ==
    \A r \in DOMAIN ledger : ledger[r].kind = "commit" =>
      /\ Cardinality(ledger[r].signers) >= ledger[r].threshold
      /\ \A c \in ledger[r].signers :
           \E s \in DOMAIN ledger : ledger[s].kind = "signature" /\ ledger[s].by = c /\ ledger[s].cp = ledger[r].cp
=============================================================================

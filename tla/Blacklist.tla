------------------------------ MODULE Blacklist ------------------------------
(***************************************************************************)
(* The blacklist of every coordinator (swarm/coordinator.ts,               *)
(* security/blacklist.ts, db/postgres.ts): local reports and automatic     *)
(* bans are appended to a hash chain and sent to the peers, which append   *)
(* them to their own.  Records are written to the database without waiting *)
(* and read back at startup, while requests are already served.            *)
(* A record's hash stands for the record; clocks agree.                    *)
(***************************************************************************)
EXTENDS Naturals, Sequences, FiniteSets, SequencesExt

CONSTANTS
    Peers,      \* coordinators
    Suspects,   \* agents that are reported
    MaxReports, \* bound on records, whose ids are their numbers
    MaxDay,     \* bound on time
    MaxStarts   \* bound on restarts

Never == MaxDay + 1
Genesis == 0     \* the hash before the first record
ASSUME BlacklistAssumption == {MaxReports, MaxDay, MaxStarts} \subseteq Nat

VARIABLES
    day,        \* time
    record,     \* the records issued so far
    byAgent,    \* blacklistByAgent: record ids, at each coordinator
    auditLog,   \* blacklistAuditLog
    chainHead,  \* lastBlacklistEventHash
    rows,       \* blacklist_events in each database
    unwritten,  \* records on their way to the database
    sent,       \* gossip under way: record and receiver
    loading,    \* what startup has read from the database and not yet taken in
    early,      \* a record was taken in while startup was loading
    starts      \* restarts so far

lvars == << day, record, byAgent, auditLog, chainHead, rows, unwritten, sent, loading, early, starts >>

Issued == DOMAIN record
Idle == [busy |-> FALSE, log |-> << >>]

BlacklistInit ==
    /\ day = 0 /\ record = [e \in {} |-> 0]
    /\ byAgent = [c \in Peers |-> [a \in Suspects |-> Genesis]]
    /\ auditLog = [c \in Peers |-> << >>] /\ chainHead = [c \in Peers |-> Genesis]
    /\ rows = [c \in Peers |-> {}] /\ unwritten = [c \in Peers |-> {}]
    /\ sent = {} /\ loading = [c \in Peers |-> Idle]
    /\ early = {} /\ starts = 0

(* activeBlacklistRecord: the record that counts, Genesis for none.        *)
ActiveRecord(c, a) ==
    IF byAgent[c][a] # Genesis /\ record[byAgent[c][a]].until >= day THEN byAgent[c][a] ELSE Genesis

(* appendBlacklistRecord.                                                  *)
AppendRecord(c, e, a) ==
    /\ byAgent' = [byAgent EXCEPT ![c][a] = e]
    /\ auditLog' = [auditLog EXCEPT ![c] = Append(@, e)]
    /\ chainHead' = [chainHead EXCEPT ![c] = e]
    /\ unwritten' = [unwritten EXCEPT ![c] = @ \union {e}]
    /\ early' = early \union {d \in {c} : loading[d].busy}

(* POST /security/blacklist, for good or for some time, and the automatic  *)
(* bans of the behaviour monitor: chained, appended, broadcast.            *)
Report(c, a, e, until) ==
    /\ e = Cardinality(Issued) + 1 /\ until \in {day, Never}
    /\ record' = [f \in Issued \union {e} |->
                    IF f = e THEN [agent |-> a, at |-> day, until |-> until, prev |-> chainHead[c]]
                    ELSE record[f]]
    /\ AppendRecord(c, e, a)
    /\ sent' = sent \union {[what |-> e, to |-> d] : d \in Peers \ {c}}
    /\ UNCHANGED << day, rows, loading, starts >>

(* Faulty variant of Supersedes: what comes last counts.                   *)
SupersedesAlways(c, e) == TRUE

(* A record from a peer is taken unless a newer one counts.                *)
Supersedes(c, e) ==
    LET active == ActiveRecord(c, record[e].agent)
    IN  active = Genesis \/ record[e].at >= record[active].at

(* A blacklist_update that validates arrives; its signature is that of the *)
(* peer that issued the record.  A copy is dropped by its message id; a    *)
(* message that is lost stays in "sent".                                   *)
IngestRecord(m) ==
    /\ m \in sent /\ sent' = sent \ {m}
    /\ IF Supersedes(m.to, m.what) THEN AppendRecord(m.to, m.what, record[m.what].agent)
       ELSE UNCHANGED << byAgent, auditLog, chainHead, unwritten, early >>
    /\ UNCHANGED << day, record, rows, loading, starts >>

(* persistBlacklistEvent ends; nothing notices when it never does.         *)
PersistRecord(c, e) ==
    /\ e \in unwritten[c]
    /\ unwritten' = [unwritten EXCEPT ![c] = @ \ {e}]
    /\ rows' = [rows EXCEPT ![c] = @ \union {e}]
    /\ UNCHANGED << day, record, byAgent, auditLog, chainHead, sent, loading, early, starts >>

(* A coordinator restarts: requests are served at once, and startup reads  *)
(* the table in the order of the time stamps.                              *)
StartLoading(c) ==
    /\ starts < MaxStarts /\ starts' = starts + 1
    /\ byAgent' = [byAgent EXCEPT ![c] = [a \in Suspects |-> Genesis]]
    /\ auditLog' = [auditLog EXCEPT ![c] = << >>]
    /\ chainHead' = [chainHead EXCEPT ![c] = Genesis]
    /\ unwritten' = [unwritten EXCEPT ![c] = {}]
    /\ early' = early \ {c}
    /\ \E log \in SetToSeqs(rows[c]) :
         /\ \A i, j \in DOMAIN log : i <= j => record[log[i]].at <= record[log[j]].at
         /\ loading' = [loading EXCEPT ![c] = [busy |-> TRUE, log |-> log]]
    /\ UNCHANGED << day, record, rows, sent >>

(* The record of a suspect after the rows were gone through.               *)
LastOf(log, a, default) ==
    LET mine == {i \in DOMAIN log : record[log[i]].agent = a}
    IN  IF mine = {} THEN default ELSE log[Max(mine)]

(* The rows are taken in, over what was appended meanwhile.                *)
EndLoading(c) ==
    LET log == loading[c].log
    IN  /\ loading[c].busy
        /\ loading' = [loading EXCEPT ![c] = Idle]
        /\ auditLog' = [auditLog EXCEPT ![c] = @ \o log]
        /\ byAgent' = [byAgent EXCEPT ![c] = [a \in Suspects |-> LastOf(log, a, @[a])]]
        /\ chainHead' = [chainHead EXCEPT ![c] = IF log = << >> THEN @ ELSE Last(log)]
        /\ UNCHANGED << day, record, rows, unwritten, sent, early, starts >>

NextDay ==
    /\ day < MaxDay /\ day' = day + 1
    /\ UNCHANGED << record, byAgent, auditLog, chainHead, rows, unwritten, sent, loading, early, starts >>

BlacklistNext ==
    \/ \E c \in Peers :
         \/ \E a \in Suspects, e \in 1 .. MaxReports, until \in 0 .. Never : Report(c, a, e, until)
         \/ \E e \in unwritten[c] : PersistRecord(c, e)
         \/ StartLoading(c) \/ EndLoading(c)
    \/ \E m \in sent : IngestRecord(m)
    \/ NextDay
    \/ Cardinality(Issued) = MaxReports /\ UNCHANGED lvars

BlacklistSpec == BlacklistInit /\ [][BlacklistNext]_lvars

-----------------------------------------------------------------------------
(* A ban for good holds: an agent with such a record in the log is banned, *)
(* whatever late gossip and restarts bring, unless a later report for some *)
(* time has taken its place and is over.  (Unless a record was taken in    *)
(* while startup was loading: the rows, older ones too, go over it.)       *)
BanHolds ==
    \A c \in Peers \ early : ~loading[c].busy =>
      \A i \in 1 .. Len(auditLog[c]) :
        LET e == record[auditLog[c][i]]
        IN  e.until = Never =>
              \/ ActiveRecord(c, e.agent) # Genesis
              \/ \E j \in 1 .. Len(auditLog[c]) :
                   LET f == record[auditLog[c][j]]
                   IN  f.agent = e.agent /\ f.until < day /\ f.at >= e.at

(* What bootstrap/verify-blacklist-audit.ts verifies: every record of the  *)
(* audit log is linked to the one before it.                               *)
AuditChainIntact ==
    \A c \in Peers :
      /\ \A i \in 1 .. Len(auditLog[c]) :
           record[auditLog[c][i]].prev = IF i = 1 THEN Genesis ELSE auditLog[c][i - 1]
      /\ chainHead[c] = IF auditLog[c] = << >> THEN Genesis ELSE Last(auditLog[c])

-----------------------------------------------------------------------------
(***************************************************************************)
(* Behaviour monitoring of one agent (security/behavior-tracker.ts,        *)
(* anomaly-detector.ts, auto-blacklister.ts, and their use in              *)
(* swarm/coordinator.ts): events are kept for a sliding window, ten rules  *)
(* look at the statistics after each registration and each result, and     *)
(* strikes lead to a ban, which has no end.  Only counts, averages and     *)
(* runs matter to the rules: an output is a length and a hash, a standard  *)
(* deviation below the threshold means equal durations.                    *)
(***************************************************************************)
CONSTANTS
    Outcomes,        \* results an agent may post: [ok, hash, length, duration]
    TrackerWindow,   \* the tracker's window
    StrikeWindow,    \* the window of strikes
    FastBelow, FastMin, FastAverage, EmptyMin, IdenticalMin, CollapseMin, ProtocolMin,
    GapAbove, RegistrationMin, PrecisionMin, TinyMin, TinyAverage,   \* AnomalyConfig
    StrikeThreshold, \* strikes that lead to a ban
    MaxTime, MaxEvents   \* bounds

ASSUME BehaviourAssumption ==
    {TrackerWindow, StrikeWindow, StrikeThreshold, MaxTime, MaxEvents} \subseteq Nat

VARIABLES
    time,
    tasks,        \* results, with their times
    violations,   \* times of bad signatures and replays
    registrations, claims, heartbeats,   \* times
    anomalyLog,   \* history: times of all strikes ever given
    strikes,      \* the numbers in it of the strikes on the agent's account
    bans,       \* times of bans
    events        \* recorded so far

bvars == << time, tasks, violations, registrations, claims, heartbeats, strikes, anomalyLog,
            bans, events >>
trackerVars == << tasks, violations, registrations, claims, heartbeats >>

BehaviourInit ==
    /\ time = 0 /\ tasks = << >> /\ violations = << >> /\ registrations = << >>
    /\ claims = << >> /\ heartbeats = << >> /\ strikes = {} /\ anomalyLog = << >>
    /\ bans = << >> /\ events = 0

(* pruneWindow.                                                            *)
PruneWindow(times) == SelectSeq(times, LAMBDA t : t + TrackerWindow >= time)
PruneTasks(ts) == SelectSeq(ts, LAMBDA t : t.at + TrackerWindow >= time)

SumOf(ts, field) == FoldSeq(LAMBDA t, sum : sum + t[field], 0, ts)
Successes(ts) == Len(SelectSeq(ts, LAMBDA t : t.ok))

(* The longest run of equal output hashes, as getStats counts it.          *)
IdenticalRun(ts) ==
    LET step(acc, i) == IF ts[i].hash = ts[i - 1].hash
                        THEN [run |-> acc.run + 1,
                              best |-> IF acc.run + 1 > acc.best THEN acc.run + 1 ELSE acc.best]
                        ELSE [acc EXCEPT !.run = 1]
    IN  IF Len(ts) < 2 THEN 0
        ELSE FoldLeft(step, [run |-> 1, best |-> 0], [k \in 1 .. Len(ts) - 1 |-> k + 1]).best

(* The widest gap between two heartbeats.                                  *)
WideGap(beats) == \E i \in 1 .. Len(beats) - 1 : beats[i + 1] > beats[i] + GapAbove

-----------------------------------------------------------------------------
(* The rules of the anomaly detector, on the pruned windows.  Nothing      *)
(* records requeues or concurrent claims, so the rule on hoarding          *)
(* (BHV007) never fires.                                                   *)
SuspiciouslyFast(ts) ==
    /\ Len(SelectSeq(ts, LAMBDA t : t.duration < FastBelow)) >= FastMin
    /\ SumOf(ts, "duration") < FastAverage * Len(ts)
MassEmptyOutputs(ts) ==
    LET empty == Len(SelectSeq(ts, LAMBDA t : t.length = 0))
    IN  empty >= EmptyMin /\ 10 * empty > 6 * Len(ts)
DuplicateForgery(ts) == IdenticalRun(ts) >= IdenticalMin
SuccessCollapse(ts) ==
    Len(ts) >= CollapseMin /\ 100 * Successes(ts) < 15 * Len(ts)
ProtocolAbuse(vs) == Len(vs) >= ProtocolMin
HeartbeatManipulation(beats, cs) == WideGap(beats) /\ Len(cs) > 0
RegistrationStorm(rs) == Len(rs) >= RegistrationMin
RobotPrecision(ts) ==
    Len(ts) >= PrecisionMin /\ Cardinality({ts[i].duration : i \in 1 .. Len(ts)}) <= 1
TinyOutputs(ts) ==
    /\ Len(ts) >= TinyMin /\ SumOf(ts, "length") < TinyAverage * Len(ts)
    /\ 10 * Successes(ts) > 8 * Len(ts)

(* AnomalyDetector.evaluate: the critical rules, and how many others fire. *)
Critical(ts, vs) == SuspiciouslyFast(ts) \/ DuplicateForgery(ts) \/ ProtocolAbuse(vs)
Warnings(ts, rs, cs, beats) ==
    Cardinality({r \in 1 .. 6 :
      << MassEmptyOutputs(ts), SuccessCollapse(ts), HeartbeatManipulation(beats, cs),
         RegistrationStorm(rs), RobotPrecision(ts), TinyOutputs(ts) >>[r]})

-----------------------------------------------------------------------------
(* Faulty variant of LiveStrikes: strikes never get too old.               *)
LiveStrikesAll == strikes

(* The strikes inside the window.                                          *)
LiveStrikes == {k \in strikes : anomalyLog[k] + StrikeWindow >= time}

EnoughStrikes(all) == Cardinality(all) >= StrikeThreshold

(* evaluateAndEnforce with AutoBlacklister.processAnomalies, on the        *)
(* windows as getStats leaves them.                                        *)
EvaluateAgent(ts, vs, rs, cs, beats) ==
    LET n == Warnings(ts, rs, cs, beats)
        all == LiveStrikes \union (Len(anomalyLog) + 1 .. Len(anomalyLog) + n)
    IN  IF Critical(ts, vs)
        THEN bans' = Append(bans, time) /\ UNCHANGED << strikes, anomalyLog >>
        ELSE /\ anomalyLog' = anomalyLog \o [i \in 1 .. n |-> time]
             /\ IF n > 0 /\ EnoughStrikes(all)
                THEN strikes' = {} /\ bans' = Append(bans, time)
                ELSE /\ strikes' = IF n = 0 THEN strikes ELSE all
                     /\ UNCHANGED bans

Record == events < MaxEvents /\ events' = events + 1 /\ UNCHANGED time
Admitted == bans = << >>

(* The windows after getStats, with one of them just written.              *)
GetStats(ts, vs, rs, cs, beats) ==
    /\ tasks' = PruneTasks(ts) /\ violations' = PruneWindow(vs)
    /\ registrations' = PruneWindow(rs) /\ claims' = PruneWindow(cs)
    /\ heartbeats' = PruneWindow(beats)
    /\ EvaluateAgent(tasks', violations', registrations', claims', heartbeats')

(* POST /register of an agent that is not banned.                          *)
RecordRegistration ==
    /\ Record /\ Admitted
    /\ GetStats(tasks, violations, Append(registrations, time), claims, heartbeats)

(* POST /result.                                                           *)
RecordTaskResult(o) ==
    /\ Record /\ Admitted
    /\ GetStats(Append(tasks, [o EXCEPT !.at = time]), violations, registrations, claims, heartbeats)

(* POST /heartbeat, and a task given out by /pull.                         *)
RecordHeartbeat ==
    /\ Record /\ Admitted
    /\ heartbeats' = Append(PruneWindow(heartbeats), time)
    /\ UNCHANGED << tasks, violations, registrations, claims, strikes, anomalyLog, bans >>

RecordTaskClaim ==
    /\ Record /\ Admitted
    /\ claims' = Append(PruneWindow(claims), time)
    /\ UNCHANGED << tasks, violations, registrations, heartbeats, strikes, anomalyLog, bans >>

(* verifyAgentRequest refuses a request, also one of a banned agent.       *)
RecordProtocolViolation ==
    /\ Record
    /\ violations' = Append(PruneWindow(violations), time)
    /\ UNCHANGED << tasks, registrations, claims, heartbeats, strikes, anomalyLog, bans >>

BehaviourTick ==
    /\ time < MaxTime /\ time' = time + 1
    /\ UNCHANGED << trackerVars, strikes, anomalyLog, bans, events >>

BehaviourNext ==
    \/ RecordRegistration \/ RecordHeartbeat \/ RecordTaskClaim \/ RecordProtocolViolation
    \/ BehaviourTick
    \/ \E o \in Outcomes : RecordTaskResult(o)
    \/ time = MaxTime /\ UNCHANGED bvars

BehaviourSpec == BehaviourInit /\ [][BehaviourNext]_bvars

-----------------------------------------------------------------------------
(* A ban is earned: it comes while a critical symptom is in the window, or *)
(* at the third strike of one strike window, never from strikes that add   *)
(* up over a longer time.                                                  *)
BanIsEarned ==
    [][ bans' # bans =>
          \/ Critical(tasks', violations')
          \/ Cardinality({k \in DOMAIN anomalyLog' : anomalyLog'[k] + StrikeWindow >= time})
                >= StrikeThreshold ]_bvars
=============================================================================

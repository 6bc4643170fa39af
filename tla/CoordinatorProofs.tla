------------------------- MODULE CoordinatorProofs --------------------------
(***************************************************************************)
(* The coordinator's records: nonces, bans, the ledger of statistics,      *)
(* issuance, tunnels and gossip, for any number of agents, coordinators    *)
(* and records.                                                            *)
(***************************************************************************)
EXTENDS AgentAuth, Blacklist, StatsLedger, Issuance, AgentMesh, Gossip,
        FiniteSetTheorems, SequenceTheorems, WellFoundedInduction, TLAPS

-----------------------------------------------------------------------------
(***************************************************************************)
(* Numbers. Arguments over lists of any length need a least counterexample *)
(* or induction; the library's induction rules take predicates, so this is *)
(* done with sets, from the fact that < is well-founded.                   *)
(***************************************************************************)
Below == {s \in Nat \X Nat : s[1] < s[2]}

LEMMA BelowIsWellFounded == IsWellFoundedOn(Below, Nat)
<1>1. OpToRel(<, Nat) = Below
  BY DEF OpToRel, Below
<1> QED BY <1>1, NatLessThanWellFounded

(* A set of numbers has a least member.                                    *)
LEMMA LeastMember ==
    ASSUME NEW T, T \subseteq Nat, T # {}
    PROVE  \E x \in T : \A y \in T : x <= y
<1>1. PICK x \in T : \A y \in T : << y, x >> \notin Below
  BY BelowIsWellFounded, WFMin
<1>2. ASSUME NEW y \in T PROVE x <= y
  <2>1. x \in Nat /\ y \in Nat /\ << y, x >> \notin Below
    BY <1>1
  <2>2. y < x => << y, x >> \in Below
    BY <2>1 DEF Below
  <2> QED BY <2>1, <2>2
<1> QED BY <1>2

(* A set that has 0, and n + 1 with every n, has all numbers.              *)
LEMMA Induction ==
    ASSUME NEW S, 0 \in S, \A n \in Nat : n \in S => n + 1 \in S
    PROVE  \A n \in Nat : n \in S
<1> DEFINE T == Nat \ S
<1>1. SUFFICES ASSUME T # {} PROVE FALSE
  OBVIOUS
<1>2. T \subseteq Nat
  OBVIOUS
<1>3. PICK x \in T : \A y \in T : x <= y
  <2> HIDE DEF T
  <2> QED BY <1>1, <1>2, LeastMember
<1>4. x \in Nat /\ x # 0 /\ x - 1 \in Nat /\ x - 1 \notin T
  BY <1>3
<1> QED BY <1>4

-----------------------------------------------------------------------------
(***************************************************************************)
(* Nonces. A nonce that the store forgets must be one that verification    *)
(* refuses anyhow, since its time stamp is too old: an accepted nonce is   *)
(* held at least as long.                                                  *)
(***************************************************************************)
(* A nonce that was accepted is held at least until its time stamp is too  *)
(* old, which is what makes ReplayRefused inductive.                       *)
HeldWhileFresh ==
    \A n \in usedNonces :
      \/ signedAt[n] + MaxSkew < now
      \/ n \in DOMAIN nonceStore /\ signedAt[n] + MaxSkew <= nonceStore[n]

(* A check saw a time stamp that is not too far ahead.                     *)
StampsAreNear == \A c \in checking : signedAt[c.nonce] <= c.at + MaxSkew

AuthInv ==
    /\ now \in Nat /\ signedAt \in [Nonces -> Nat]
    /\ checking \subseteq [nonce : Nonces, at : Nat, late : BOOLEAN]
    /\ nonceStore \in [DOMAIN nonceStore -> Nat]
    /\ usedNonces \subseteq Nonces
    /\ \A n \in Nonces : n \in usedNonces \/ (\E c \in checking : c.nonce = n) => signedAt[n] # Unsigned
    /\ StampsAreNear /\ HeldWhileFresh /\ ReplayRefused

(* A request signed later is not among those checked or accepted.          *)
LEMMA SignInv ==
    ASSUME AuthInv, NEW n \in Nonces, NEW ts \in 0 .. MaxNow, SignRequest(n, ts)
    PROVE  AuthInv'
<1> USE AuthAssumption DEF AuthInv, SignRequest
<1>1. signedAt' \in [Nonces -> Nat] /\ ts # Unsigned
  BY DEF Unsigned
<1>2. n \notin usedNonces /\ \A c \in checking : c.nonce # n
  OBVIOUS
<1>3. \A m \in Nonces \ {n} : signedAt'[m] = signedAt[m]
  OBVIOUS
<1>4. \A m \in Nonces : m \in usedNonces \/ (\E c \in checking : c.nonce = m) => signedAt'[m] # Unsigned
  BY <1>1, <1>3
<1>5. StampsAreNear'
  BY <1>2, <1>3 DEF StampsAreNear
<1>6. HeldWhileFresh'
  BY <1>2, <1>3 DEF HeldWhileFresh
<1> QED BY <1>1, <1>4, <1>5, <1>6 DEF ReplayRefused, Unsigned

(* A nonce that is not held was never accepted: its time stamp is good.    *)
LEMMA CheckInv ==
    ASSUME AuthInv, NEW n \in Nonces, NonceUnknown(n)
    PROVE  AuthInv'
<1> DEFINE c == [nonce |-> n, at |-> now, late |-> FALSE]
<1> USE AuthAssumption DEF AuthInv
<1>1. signedAt[n] <= now + MaxSkew /\ now <= signedAt[n] + MaxSkew
  BY DEF NonceUnknown, SkewOf
<1>2. (n \in usedNonces) = FALSE
  BY <1>1 DEF NonceUnknown, HeldWhileFresh
<1>3. checking' = checking \union {[nonce |-> n, at |-> now, late |-> n \in usedNonces]}
  BY DEF NonceUnknown
<1>4. checking' = checking \union {c}
  BY <1>2, <1>3, Zenon
<1>5. UNCHANGED << now, signedAt, nonceStore, usedNonces >> /\ signedAt[n] # Unsigned
  BY DEF NonceUnknown
<1>6. c \in [nonce : Nonces, at : Nat, late : BOOLEAN] /\ c.nonce = n /\ c.at = now /\ ~c.late
  OBVIOUS
<1> HIDE DEF c
<1>7. checking' \subseteq [nonce : Nonces, at : Nat, late : BOOLEAN]
  BY <1>4, <1>6
<1>8. StampsAreNear'
  BY <1>1, <1>4, <1>5, <1>6 DEF StampsAreNear
<1>9. ReplayRefused'
  BY <1>4, <1>6 DEF ReplayRefused
<1>10. \A m \in Nonces : m \in usedNonces \/ (\E d \in checking' : d.nonce = m) => signedAt[m] # Unsigned
  BY <1>4, <1>5, <1>6
<1> QED BY <1>5, <1>7, <1>8, <1>9, <1>10 DEF HeldWhileFresh, Unsigned

(* The nonce of a check is held until its time stamp is too old, since a   *)
(* nonce lives for twice the skew that a request may have.                 *)
LEMMA StoreInv ==
    ASSUME AuthInv, NEW c \in checking, StoreNonce(c)
    PROVE  AuthInv'
<1> USE AuthAssumption DEF AuthInv
<1>1. /\ checking' = checking \ {c} /\ usedNonces' = usedNonces \union {c.nonce}
      /\ UNCHANGED << now, signedAt >>
      /\ nonceStore' = [n \in DOMAIN nonceStore \union {c.nonce} |->
                           IF n = c.nonce THEN c.at + NonceTtl ELSE nonceStore[n]]
  BY DEF StoreNonce, ExpiresAt
<1>2. c.nonce \in Nonces /\ c.at \in Nat
  OBVIOUS
<1>3. nonceStore' \in [DOMAIN nonceStore' -> Nat] /\ DOMAIN nonceStore' = DOMAIN nonceStore \union {c.nonce}
  BY <1>1, <1>2
<1>4. signedAt[c.nonce] + MaxSkew <= c.at + NonceTtl
  BY <1>2 DEF StampsAreNear
<1>5. HeldWhileFresh'
  <2> SUFFICES ASSUME NEW n \in usedNonces', ~(signedAt[n] + MaxSkew < now)
               PROVE  n \in DOMAIN nonceStore' /\ signedAt[n] + MaxSkew <= nonceStore'[n]
    BY <1>1 DEF HeldWhileFresh
  <2>1. CASE n = c.nonce
    BY <1>1, <1>3, <1>4, <2>1
  <2>2. CASE n # c.nonce
    BY <1>1, <1>3, <2>2 DEF HeldWhileFresh
  <2> QED BY <2>1, <2>2
<1> QED BY <1>1, <1>2, <1>3, <1>5 DEF StampsAreNear, ReplayRefused, Unsigned

(* What is pruned has a time stamp that is too old.                        *)
LEMMA PruneInv ==
    ASSUME AuthInv, PruneNonces
    PROVE  AuthInv'
<1> USE AuthAssumption DEF AuthInv
<1>1. /\ nonceStore' = [n \in {m \in DOMAIN nonceStore : nonceStore[m] >= now} |-> nonceStore[n]]
      /\ UNCHANGED << now, signedAt, usedNonces, checking >>
  BY DEF PruneNonces
<1>2. nonceStore' \in [DOMAIN nonceStore' -> Nat]
  BY <1>1
<1>3. HeldWhileFresh'
  BY <1>1 DEF HeldWhileFresh
<1> QED BY <1>1, <1>2, <1>3 DEF StampsAreNear, ReplayRefused, Unsigned

(* For any number of requests, every limit and every skew of the clocks,   *)
(* no copy of a request passes the check once another was accepted, as     *)
(* long as a nonce lives for twice the skew.                               *)
THEOREM ReplaysAreRefused == AgentAuthSpec => []ReplayRefused
<1>1. AgentAuthInit => AuthInv
  BY AuthAssumption DEF AgentAuthInit, AuthInv, Unsigned, StampsAreNear, HeldWhileFresh, ReplayRefused
<1>2. AuthInv /\ [AgentAuthNext]_avars => AuthInv'
  <2> SUFFICES ASSUME AuthInv, [AgentAuthNext]_avars PROVE AuthInv'
    OBVIOUS
  <2> USE AuthAssumption
  <2>1. ASSUME UNCHANGED << now, signedAt, nonceStore, usedNonces, checking >> PROVE AuthInv'
    BY <2>1 DEF AuthInv, StampsAreNear, HeldWhileFresh, ReplayRefused, Unsigned
  <2>2. CASE AuthTick
    BY <2>2 DEF AuthTick, AuthInv, StampsAreNear, HeldWhileFresh, ReplayRefused, Unsigned
  <2>3. CASE RateLimitHit \/ NoPublicKey \/ RequestRefused
    BY <2>1, <2>3 DEF RateLimitHit, NoPublicKey, RequestRefused
  <2>4. CASE AuthRestart
    BY <2>4 DEF AuthRestart, AuthInv, StampsAreNear, HeldWhileFresh, ReplayRefused, Unsigned
  <2>5. ASSUME NEW key \in BOOLEAN, RegisterKey(key) PROVE AuthInv'
    BY <2>1, <2>5 DEF RegisterKey
  <2>6. CASE UNCHANGED avars
    BY <2>1, <2>6 DEF avars
  <2> QED BY <2>2, <2>3, <2>4, <2>5, <2>6, SignInv, CheckInv, StoreInv, PruneInv DEF AgentAuthNext
<1>3. AuthInv => ReplayRefused
  BY DEF AuthInv
<1> QED BY <1>1, <1>2, <1>3, PTL DEF AgentAuthSpec

-----------------------------------------------------------------------------
(***************************************************************************)
(* Bans. After a restart a coordinator bans on what the database returned, *)
(* so an invariant on bans alone is not enough: for every suspect, the     *)
(* record its ban rests on is the latest of those about it that are logged *)
(* (Backed), and while rows are being loaded the log is the rows gone      *)
(* through, in the order of their time (LoadingOk). The last row about a   *)
(* suspect is then the latest (LastBacks).                                 *)
(***************************************************************************)
(* A non-empty set of positions has a greatest one.                        *)
LEMMA GreatestPosition ==
    ASSUME NEW n \in Nat, NEW S \in SUBSET (1 .. n), S # {}
    PROVE  Max(S) \in S /\ \A y \in S : y <= Max(S)
<1> DEFINE Above == {k \in Nat : \A y \in S : y <= k}
<1>1. n \in Above
  OBVIOUS
<1>2. Above \subseteq Nat /\ Above # {}
  BY <1>1
<1>3. PICK k \in Above : \A j \in Above : ~ (<< j, k >> \in OpToRel(<, Nat))
  BY <1>2, NatLessThanWellFounded, WFMin
<1>4. \A j \in Above : ~ (j < k)
  BY <1>3 DEF OpToRel
<1>5. k \in S
  <2> SUFFICES ASSUME k \notin S PROVE FALSE
    OBVIOUS
  <2>1. PICK y \in S : TRUE
    OBVIOUS
  <2>2. k >= 1
    BY <2>1
  <2>3. k - 1 \in Above
    BY <2>2
  <2> QED BY <1>4, <2>3
<1>6. \E x \in S : \A y \in S : x >= y
  BY <1>5
<1> QED BY <1>6 DEF Max

-----------------------------------------------------------------------------
(* The records in the log of a coordinator.                                *)
Logged(c) == {auditLog[c][i] : i \in 1 .. Len(auditLog[c])}

(* What counts for a suspect is as late as each ban for good in the log,   *)
(* or a later report for some time was in its place and is over.           *)
Backed(c, a) ==
    \A x \in Logged(c) : record[x].agent = a /\ record[x].until = Never =>
        /\ byAgent[c][a] \in Logged(c) /\ record[byAgent[c][a]].agent = a
        /\ \/ record[byAgent[c][a]].at >= record[x].at
           \/ \E f \in Logged(c) : record[f].agent = a /\ record[f].until < day /\ record[f].at
                >= record[x].at

EntryOk(e) == record[e].agent \in Suspects /\ record[e].at \in 0 .. day /\ record[e].until \in Nat

Sorted(log) == \A i, j \in DOMAIN log : i <= j => record[log[i]].at <= record[log[j]].at

BlacklistTypes ==
    /\ day \in 0 .. MaxDay
    /\ \E n \in Nat : Issued = 1 .. n
    /\ \A e \in Issued : EntryOk(e)
    /\ DOMAIN byAgent = Peers /\ \A c \in Peers : DOMAIN byAgent[c] = Suspects
    /\ auditLog \in [Peers -> Seq(Issued)]
    /\ rows \in [Peers -> SUBSET Issued] /\ unwritten \in [Peers -> SUBSET Issued]
    /\ \A m \in sent : m.what \in Issued /\ m.to \in Peers
    /\ DOMAIN loading = Peers

(* While startup loads and nothing came in, memory is empty; the rows it   *)
(* goes through are in the order of time.                                  *)
LoadingOk(c) ==
    loading[c].busy => /\ loading[c].log \in Seq(Issued) /\ Sorted(loading[c].log)
                       /\ c \notin early => auditLog[c] = << >>

BlacklistInv ==
    /\ BlacklistTypes
    /\ \A c \in Peers : LoadingOk(c)
    /\ \A c \in Peers \ early : ~loading[c].busy => \A a \in Suspects : Backed(c, a)

-----------------------------------------------------------------------------
(* Records are only ever added.                                            *)
RecordsGrow == Issued \subseteq Issued' /\ \A e \in Issued : record'[e] = record[e]

(* What is logged was issued.                                              *)
LEMMA LoggedIssued ==
    ASSUME BlacklistTypes, NEW c \in Peers
    PROVE  Logged(c) \subseteq Issued
BY DEF BlacklistTypes, Logged

(* An appended record joins those that are logged.                         *)
LEMMA LoggedAppend ==
    ASSUME BlacklistTypes, NEW c \in Peers, NEW e \in Issued', Issued \subseteq Issued',
           auditLog' = [auditLog EXCEPT ![c] = Append(auditLog[c], e)]
    PROVE  /\ auditLog' \in [Peers -> Seq(Issued')]
           /\ Logged(c)' = Logged(c) \union {e} /\ \A d \in Peers \ {c} : Logged(d)' = Logged(d)
<1>1. PICK I, J : I = Issued /\ J = Issued'
  OBVIOUS
<1>2. auditLog \in [Peers -> Seq(I)] /\ I \subseteq J /\ e \in J
  BY <1>1 DEF BlacklistTypes
<1>3. \A s \in Seq(I) : s \in Seq(J) /\ Append(s, e) \in Seq(J)
  BY <1>2
<1>4. auditLog' \in [Peers -> Seq(J)]
  BY <1>2, <1>3
<1>5. /\ Len(auditLog'[c]) = Len(auditLog[c]) + 1 /\ auditLog'[c][Len(auditLog[c]) + 1] = e
      /\ Len(auditLog[c]) \in Nat
      /\ \A i \in 1 .. Len(auditLog[c]) : auditLog'[c][i] = auditLog[c][i]
  BY <1>2
<1>6. 1 .. (Len(auditLog[c]) + 1) = (1 .. Len(auditLog[c])) \union {Len(auditLog[c]) + 1}
  BY <1>5
<1>7. Logged(c)' = Logged(c) \union {e}
  <2>1. \A x \in Logged(c)' : x \in Logged(c) \union {e}
    BY <1>5, <1>6 DEF Logged
  <2>2. \A x \in Logged(c) : x \in Logged(c)'
    BY <1>5, <1>6 DEF Logged
  <2>3. e \in Logged(c)'
    BY <1>5, <1>6 DEF Logged
  <2> QED BY <2>1, <2>2, <2>3
<1>8. \A d \in Peers \ {c} : auditLog'[d] = auditLog[d]
  BY <1>2
<1> QED BY <1>1, <1>4, <1>7, <1>8 DEF Logged

(* What backs the bans of a log stays when time passes or others report.   *)
LEMMA BackedStays ==
    ASSUME BlacklistTypes, RecordsGrow, day' \in Nat, day <= day', NEW c \in Peers, NEW a \in Suspects,
           Backed(c, a),
           auditLog'[c] = auditLog[c], byAgent'[c] = byAgent[c]
    PROVE  Backed(c, a)'
<1>1. Logged(c)' = Logged(c) /\ Logged(c) \subseteq Issued
  BY LoggedIssued DEF Logged
<1>2. \A e \in Logged(c) : record'[e] = record[e] /\ record[e].until \in Nat
  BY <1>1 DEF RecordsGrow, BlacklistTypes, EntryOk
<1>3. day \in Nat
  BY DEF BlacklistTypes
<1> SUFFICES ASSUME NEW x \in Logged(c), record[x].agent = a, record[x].until = Never
             PROVE  /\ byAgent[c][a] \in Logged(c) /\ record[byAgent[c][a]].agent = a
                    /\ \/ record[byAgent[c][a]].at >= record[x].at
                       \/ \E f \in Logged(c) : record[f].agent = a /\ record[f].until < day'
                            /\ record[f].at >= record[x].at
  BY <1>1, <1>2 DEF Backed, Never
<1>4. \A f \in Logged(c) : record[f].until < day => record[f].until < day'
  BY <1>2, <1>3
<1> QED BY <1>4 DEF Backed

(* A record is appended that is not older than what counted before.        *)
LEMMA BackedAppend ==
    ASSUME BlacklistTypes, RecordsGrow, day' = day, NEW c \in Peers, NEW b \in Suspects, NEW e \in Issued',
           EntryOk(e)', record'[e].agent = b, AppendRecord(c, e, b),
           NEW a \in Suspects, Backed(c, a),
           \A p \in Issued : p = byAgent[c][b] /\ record[p].until >= day => record'[e].at >= record[p].at
    PROVE  Backed(c, a)'
<1>1. /\ Logged(c)' = Logged(c) \union {e} /\ Logged(c) \subseteq Issued
      /\ byAgent'[c][b] = e /\ \A d \in Suspects \ {b} : byAgent'[c][d] = byAgent[c][d]
  BY LoggedAppend, LoggedIssued DEF AppendRecord, RecordsGrow, BlacklistTypes
<1>2. /\ \A f \in Logged(c) : record'[f] = record[f] /\ record[f].until \in Nat /\ record[f].at \in Nat
      /\ record'[e].at \in Nat /\ record'[e].until \in Nat
  BY <1>1 DEF RecordsGrow, BlacklistTypes, EntryOk
<1>3. day \in Nat
  BY DEF BlacklistTypes
<1>4. CASE a # b
  BY <1>1, <1>2, <1>4 DEF Backed, Never
<1>5. CASE a = b
  <2>1. ASSUME NEW x \in Logged(c), record[x].agent = a, record[x].until = Never
        PROVE  \/ record'[e].at >= record[x].at
               \/ \E f \in Logged(c) : record[f].agent = a /\ record[f].until < day /\ record[f].at
                    >= record[x].at
    <3>1. PICK p \in Logged(c) : p = byAgent[c][a] /\ record[p].agent = a
      BY <2>1 DEF Backed
    <3>2. CASE record[p].at >= record[x].at
      <4>1. CASE record[p].until < day
        BY <3>1, <3>2, <4>1
      <4>2. CASE record[p].until >= day
        <5>1. record'[e].at >= record[p].at
          BY <1>1, <1>5, <3>1, <4>2
        <5> QED BY <1>2, <3>2, <5>1
      <4> QED BY <1>2, <1>3, <4>1, <4>2
    <3>3. CASE ~(record[p].at >= record[x].at)
      BY <2>1, <3>1, <3>3 DEF Backed
    <3> QED BY <3>2, <3>3
  <2>2. byAgent'[c][a] = e /\ e \in Logged(c)' /\ record'[e].agent = a
    BY <1>1, <1>5
  <2>3. ASSUME NEW x \in Logged(c)', record'[x].agent = a, record'[x].until = Never
        PROVE  \/ record'[e].at >= record'[x].at
               \/ \E f \in Logged(c)' : record'[f].agent = a /\ record'[f].until < day'
                    /\ record'[f].at >= record'[x].at
    <3>1. CASE x = e
      BY <1>2, <3>1
    <3>2. CASE x \in Logged(c)
      BY <1>1, <1>2, <2>1, <2>3, <3>2
    <3> QED BY <1>1, <3>1, <3>2
  <2> QED BY <2>2, <2>3 DEF Backed, Never
<1> QED BY <1>4, <1>5
-----------------------------------------------------------------------------
(* The rows that startup goes through stay as they are.                    *)
LEMMA LoadingStays ==
    ASSUME RecordsGrow, NEW c \in Peers, LoadingOk(c), loading'[c] = loading[c],
           loading[c].busy /\ c \notin early' => c \notin early /\ auditLog'[c] = auditLog[c]
    PROVE  LoadingOk(c)'
<1> SUFFICES ASSUME loading[c].busy
             PROVE  /\ loading[c].log \in Seq(Issued') /\ Sorted(loading[c].log)'
                    /\ c \notin early' => auditLog'[c] = << >>
  BY DEF LoadingOk
<1>1. PICK log \in Seq(Issued) : log = loading[c].log
  BY DEF LoadingOk
<1>2. log \in Seq(Issued')
  <2>1. PICK I, J : I = Issued /\ J = Issued'
    OBVIOUS
  <2>2. I \subseteq J
    BY <2>1 DEF RecordsGrow
  <2> QED BY <1>1, <2>1, <2>2
<1>3. \A i \in DOMAIN log : record'[log[i]] = record[log[i]]
  BY <1>1 DEF RecordsGrow
<1>4. Sorted(loading[c].log)'
  BY <1>1, <1>3 DEF LoadingOk, Sorted
<1> QED BY <1>1, <1>2, <1>4 DEF LoadingOk

(* Records appended to logs, with bans that rest on them, keep the         *)
(* invariant.                                                              *)
LEMMA AppendKeepsBans ==
    ASSUME BlacklistInv, RecordsGrow, UNCHANGED << day, rows, loading >>,
           \E n \in Nat : Issued' = 1 .. n, \A f \in Issued' : EntryOk(f)',
           \A m \in sent' : m.what \in Issued' /\ m.to \in Peers,
           NEW c \in Peers, NEW b \in Suspects, NEW e \in Issued', record'[e].agent = b,
             AppendRecord(c, e, b),
           \A p \in Issued : p = byAgent[c][b] /\ record[p].until >= day => record'[e].at >= record[p].at
    PROVE  BlacklistInv'
<1>1. BlacklistTypes /\ Issued \subseteq Issued'
  BY DEF BlacklistInv, RecordsGrow
<1>2. /\ auditLog' = [auditLog EXCEPT ![c] = Append(auditLog[c], e)]
      /\ unwritten' = [unwritten EXCEPT ![c] = unwritten[c] \union {e}]
      /\ byAgent' = [byAgent EXCEPT ![c][b] = e] /\ early' = early \union {d \in {c} : loading[d].busy}
  BY DEF AppendRecord
<1>3. auditLog' \in [Peers -> Seq(Issued')]
  BY <1>1, <1>2, LoggedAppend
<1>4. rows' \in [Peers -> SUBSET Issued'] /\ unwritten' \in [Peers -> SUBSET Issued']
  BY <1>1, <1>2 DEF BlacklistTypes
<1>5. DOMAIN byAgent' = Peers /\ \A d \in Peers : DOMAIN byAgent'[d] = Suspects
  BY <1>1, <1>2 DEF BlacklistTypes
<1>6. BlacklistTypes'
  BY <1>1, <1>3, <1>4, <1>5 DEF BlacklistTypes
<1>7. \A d \in Peers \ {c} : auditLog'[d] = auditLog[d] /\ byAgent'[d] = byAgent[d]
  BY <1>1, <1>2 DEF BlacklistTypes
<1>8. ASSUME NEW d \in Peers PROVE LoadingOk(d)'
  <2>1. loading[d].busy /\ d \notin early' => d \notin early /\ auditLog'[d] = auditLog[d]
    BY <1>2, <1>7
  <2> QED BY <2>1, LoadingStays DEF BlacklistInv
<1>9. ASSUME NEW d \in Peers \ early', ~loading[d].busy, NEW a \in Suspects PROVE Backed(d, a)'
  <2>1. Backed(d, a)
    BY <1>2, <1>9 DEF BlacklistInv
  <2>2. CASE d = c
    BY <1>1, <2>1, <2>2, BackedAppend
  <2>3. CASE d # c
    <3>1. day' \in Nat /\ day <= day'
      BY <1>1 DEF BlacklistTypes
    <3> QED BY <1>1, <1>7, <2>1, <2>3, <3>1, BackedStays
  <2> QED BY <2>2, <2>3
<1> QED BY <1>6, <1>8, <1>9 DEF BlacklistInv

(* A step that neither adds records nor touches what a coordinator has in  *)
(* memory.                                                                 *)
LEMMA MemoryStays ==
    ASSUME BlacklistInv, UNCHANGED << record, byAgent, auditLog, loading, early >>,
           day' \in 0 .. MaxDay, day <= day',
           rows' \in [Peers -> SUBSET Issued], unwritten' \in [Peers -> SUBSET Issued],
           \A m \in sent' : m.what \in Issued /\ m.to \in Peers
    PROVE  BlacklistInv'
<1>1. RecordsGrow /\ Issued' = Issued /\ BlacklistTypes /\ day' \in Nat
  BY DEF RecordsGrow, BlacklistInv, Issued
<1>2. BlacklistTypes'
  <2>1. \A f \in Issued : EntryOk(f)'
    <3>1. \A k \in 0 .. day : k \in 0 .. day'
      BY <1>1 DEF BlacklistTypes
    <3> QED BY <1>1, <3>1 DEF BlacklistTypes, EntryOk
  <2> HIDE DEF Issued
  <2> QED BY <1>1, <2>1 DEF BlacklistTypes
<1>3. ASSUME NEW d \in Peers PROVE LoadingOk(d)'
  BY <1>1, LoadingStays DEF BlacklistInv
<1>4. ASSUME NEW d \in Peers \ early, ~loading[d].busy, NEW a \in Suspects PROVE Backed(d, a)'
  BY <1>1, <1>4, BackedStays DEF BlacklistInv
<1> QED BY <1>2, <1>3, <1>4 DEF BlacklistInv

(* A report appends its record, and bans on the strength of it.            *)
LEMMA ReportKeepsBans ==
    ASSUME BlacklistInv, NEW c \in Peers, NEW a \in Suspects, NEW e, NEW until, Report(c, a, e, until)
    PROVE  BlacklistInv'
<1>1. PICK n \in Nat : Issued = 1 .. n
  BY DEF BlacklistInv, BlacklistTypes
<1>2. e = n + 1
  <2>1. Cardinality(1 .. n) = n
    BY FS_Interval
  <2>2. e = Cardinality(Issued) + 1
    BY DEF Report
  <2> QED BY <1>1, <2>1, <2>2
<1>3. Issued' = 1 .. (n + 1) /\ \A f \in Issued : record'[f] = record[f]
  <2>1. Issued' = Issued \union {e} /\ \A f \in Issued : record'[f] = record[f]
    BY <1>1, <1>2 DEF Report, Issued
  <2> QED BY <1>1, <1>2, <2>1
<1>4. record'[e] = [agent |-> a, at |-> day, until |-> until, prev |-> chainHead[c]]
  BY DEF Report
<1>5. day \in 0 .. MaxDay /\ day \in Nat /\ until \in Nat
  BY BlacklistAssumption DEF BlacklistInv, BlacklistTypes, Report, Never
<1>6. RecordsGrow /\ e \in Issued' /\ record'[e].agent = a /\ AppendRecord(c, e, a) /\ UNCHANGED << day,
        rows, loading >>
  BY <1>1, <1>2, <1>3, <1>4 DEF RecordsGrow, Report
<1>7. \A f \in Issued' : EntryOk(f)'
  <2> SUFFICES ASSUME NEW f \in Issued' PROVE EntryOk(f)'
    OBVIOUS
  <2>1. CASE f \in Issued
    BY <1>3, <1>6, <2>1 DEF EntryOk, BlacklistInv, BlacklistTypes
  <2>2. CASE f = e
    BY <1>4, <1>5, <1>6, <2>2 DEF EntryOk
  <2> QED BY <1>1, <1>2, <1>3, <2>1, <2>2
<1>8. \A m \in sent' : m.what \in Issued' /\ m.to \in Peers
  <2>1. sent' = sent \union {[what |-> e, to |-> d] : d \in Peers \ {c}}
    BY DEF Report
  <2>2. \A m \in sent : m.what \in Issued' /\ m.to \in Peers
    BY <1>6 DEF BlacklistInv, BlacklistTypes, RecordsGrow
  <2> QED BY <1>6, <2>1, <2>2
<1>9. \A p \in Issued : record'[e].at >= record[p].at
  BY <1>4, <1>5 DEF BlacklistInv, BlacklistTypes, EntryOk
<1> QED BY <1>3, <1>6, <1>7, <1>8, <1>9, AppendKeepsBans

(* A record that is ingested is appended, and its ban is taken over.       *)
LEMMA IngestKeepsBans ==
    ASSUME BlacklistInv, NEW m \in sent, IngestRecord(m)
    PROVE  BlacklistInv'
<1>1. m.what \in Issued /\ m.to \in Peers /\ record[m.what].agent \in Suspects
  BY DEF BlacklistInv, BlacklistTypes, EntryOk
<1>2. /\ UNCHANGED << day, record, rows, loading >> /\ Issued' = Issued /\ RecordsGrow
      /\ \A x \in sent' : x.what \in Issued /\ x.to \in Peers
  BY DEF IngestRecord, RecordsGrow, Issued, BlacklistInv, BlacklistTypes
<1>3. CASE ~Supersedes(m.to, m.what)
  <2>1. UNCHANGED << byAgent, auditLog, unwritten, early >>
    BY <1>3 DEF IngestRecord
  <2>2. day' \in 0 .. MaxDay /\ day <= day' /\ rows' \in [Peers -> SUBSET Issued]
          /\ unwritten' \in [Peers -> SUBSET Issued]
    BY <1>2, <2>1 DEF BlacklistInv, BlacklistTypes
  <2> QED BY <1>2, <2>1, <2>2, MemoryStays
<1>4. CASE Supersedes(m.to, m.what)
  <2>1. PICK c \in Peers, e \in Issued, b \in Suspects : c = m.to /\ e = m.what /\ b = record[m.what].agent
    BY <1>1
  <2>2. AppendRecord(c, e, b) /\ record'[e].agent = b /\ e \in Issued'
    BY <1>2, <1>4, <2>1 DEF IngestRecord
  <2>3. \A p \in Issued : p = byAgent[c][b] /\ record[p].until >= day => record'[e].at >= record[p].at
    <3> SUFFICES ASSUME NEW p \in Issued, p = byAgent[c][b], record[p].until >= day
                 PROVE  record[e].at >= record[p].at
      BY <1>2
    <3>1. p # Genesis
      BY DEF BlacklistInv, BlacklistTypes, Genesis
    <3>2. ActiveRecord(c, b) = p
      BY <3>1 DEF ActiveRecord
    <3> QED BY <1>4, <2>1, <3>1, <3>2 DEF Supersedes
  <2>4. (\E n \in Nat : Issued' = 1 .. n) /\ \A f \in Issued' : EntryOk(f)'
    BY <1>2 DEF BlacklistInv, BlacklistTypes, EntryOk
  <2> HIDE DEF Issued
  <2>5. \A x \in sent' : x.what \in Issued' /\ x.to \in Peers
    BY <1>2
  <2> QED BY <1>2, <2>1, <2>2, <2>3, <2>4, <2>5, AppendKeepsBans
<1> QED BY <1>3, <1>4

-----------------------------------------------------------------------------
(* A restart reads the rows of the database in the order of their time.    *)
LEMMA StartKeepsBans ==
    ASSUME BlacklistInv, NEW c \in Peers, StartLoading(c)
    PROVE  BlacklistInv'
<1>1. BlacklistTypes /\ Issued' = Issued /\ RecordsGrow /\ UNCHANGED << day, record, rows, sent >>
  BY DEF BlacklistInv, StartLoading, RecordsGrow, Issued
<1>2. PICK log \in SetToSeqs(rows[c]) :
        /\ \A i, j \in DOMAIN log : i <= j => record[log[i]].at <= record[log[j]].at
        /\ loading' = [loading EXCEPT ![c] = [busy |-> TRUE, log |-> log]]
  BY DEF StartLoading
<1>3. log \in Seq(Issued)
  <2>1. PICK n \in Nat : Issued = 1 .. n
    BY <1>1 DEF BlacklistTypes
  <2>2. IsFiniteSet(rows[c])
    <3>1. IsFiniteSet(1 .. n) /\ rows[c] \subseteq 1 .. n
      BY <1>1, <2>1, FS_Interval DEF BlacklistTypes
    <3> QED BY <3>1, FS_Subset
  <2>3. PICK k \in Nat : k = Cardinality(rows[c])
    BY <2>2, FS_CardinalityType
  <2>4. log \in [1 .. k -> rows[c]]
    BY <2>3 DEF SetToSeqs
  <2>5. PICK S : S = Issued /\ rows[c] \subseteq S
    BY <1>1 DEF BlacklistTypes
  <2> QED BY <2>4, <2>5
<1>4. /\ byAgent' = [byAgent EXCEPT ![c] = [a \in Suspects |-> Genesis]]
      /\ auditLog' = [auditLog EXCEPT ![c] = << >>] /\ unwritten' = [unwritten EXCEPT ![c] = {}]
      /\ early' = early \ {c}
  BY DEF StartLoading
<1>5. /\ auditLog'[c] = << >> /\ loading'[c].busy /\ loading'[c].log = log
      /\ \A d \in Peers \ {c} : auditLog'[d] = auditLog[d] /\ byAgent'[d] = byAgent[d]
           /\ loading'[d] = loading[d]
  BY <1>1, <1>2, <1>4 DEF BlacklistTypes
<1>6. BlacklistTypes'
  <2>1. auditLog' \in [Peers -> Seq(Issued)]
    <3>1. << >> \in Seq(Issued) /\ auditLog \in [Peers -> Seq(Issued)]
      <4> HIDE DEF Issued
      <4> QED BY <1>1 DEF BlacklistTypes
    <3>2. PICK S : S = Seq(Issued) /\ << >> \in S /\ auditLog \in [Peers -> S]
      BY <3>1
    <3> QED BY <1>4, <3>2
  <2>2. DOMAIN loading' = Peers /\ DOMAIN byAgent' = Peers /\ \A d \in Peers :
          DOMAIN byAgent'[d] = Suspects
    BY <1>1, <1>2, <1>4 DEF BlacklistTypes
  <2>3. unwritten' \in [Peers -> SUBSET Issued]
    BY <1>1, <1>4 DEF BlacklistTypes
  <2>4. \A f \in Issued : EntryOk(f)'
    BY <1>1 DEF BlacklistTypes, EntryOk
  <2> HIDE DEF Issued
  <2> QED BY <1>1, <2>1, <2>2, <2>3, <2>4 DEF BlacklistTypes
<1>7. ASSUME NEW d \in Peers PROVE LoadingOk(d)'
  <2>1. CASE d = c
    BY <1>1, <1>2, <1>3, <1>5, <2>1 DEF LoadingOk, Sorted
  <2>2. CASE d # c
    BY <1>1, <1>4, <1>5, <2>2, LoadingStays DEF BlacklistInv
  <2> QED BY <2>1, <2>2
<1>8. ASSUME NEW d \in Peers \ early', ~loading'[d].busy, NEW a \in Suspects PROVE Backed(d, a)'
  <2>1. d # c
    BY <1>5, <1>8
  <2>2. d \notin early /\ ~loading[d].busy
    BY <1>4, <1>5, <1>8, <2>1
  <2>3. Backed(d, a)
    BY <2>2 DEF BlacklistInv
  <2>4. day' \in Nat /\ day <= day'
    BY <1>1 DEF BlacklistTypes
  <2> QED BY <1>1, <1>5, <2>1, <2>3, <2>4, BackedStays
<1> QED BY <1>6, <1>7, <1>8 DEF BlacklistInv

(* The rows that were gone through back the bans among them: the last one  *)
(* about a suspect is the latest.                                          *)
LEMMA LastBacks ==
    ASSUME BlacklistTypes, NEW c \in Peers, NEW log \in Seq(Issued), Sorted(log), NEW a \in Suspects,
           NEW default, byAgent'[c][a] = LastOf(log, a, default), auditLog'[c] = log, UNCHANGED record
    PROVE  Backed(c, a)'
<1>1. Len(log) \in Nat /\ DOMAIN log = 1 .. Len(log)
  OBVIOUS
<1> DEFINE mine == {i \in DOMAIN log : record[log[i]].agent = a}
<1> SUFFICES ASSUME NEW x \in Logged(c)', record[x].agent = a
             PROVE  /\ byAgent'[c][a] \in Logged(c)' /\ record[byAgent'[c][a]].agent = a
                    /\ record[byAgent'[c][a]].at >= record[x].at
  BY DEF Backed
<1>2. PICK i \in 1 .. Len(log) : log[i] = x
  BY DEF Logged
<1>3. mine \in SUBSET (1 .. Len(log)) /\ i \in mine /\ mine # {}
  BY <1>1, <1>2
<1>4. Max(mine) \in mine /\ i <= Max(mine)
  <2> HIDE DEF mine
  <2> QED BY <1>1, <1>3, GreatestPosition
<1>5. PICK m \in mine : m = Max(mine) /\ i <= m
  BY <1>4
<1>6. byAgent'[c][a] = log[m]
  <2>1. LastOf(log, a, default) = log[Max(mine)]
    BY <1>3 DEF LastOf
  <2> QED BY <1>5, <2>1
<1>7. record[x].at <= record[log[m]].at
  BY <1>1, <1>2, <1>5 DEF Sorted
<1>8. record[x].at \in Nat /\ record[log[m]].at \in Nat
  <2>1. x \in Issued /\ log[m] \in Issued
    BY <1>1, <1>2, <1>5
  <2> QED BY <2>1 DEF BlacklistTypes, EntryOk
<1>9. log[m] \in Logged(c)' /\ record[log[m]].agent = a
  BY <1>1, <1>5 DEF Logged
<1> QED BY <1>6, <1>7, <1>8, <1>9

(* Loading ends with, for each agent, the ban of the last record of it.    *)
LEMMA EndKeepsBans ==
    ASSUME BlacklistInv, NEW c \in Peers, EndLoading(c)
    PROVE  BlacklistInv'
<1>1. /\ BlacklistTypes /\ Issued' = Issued /\ RecordsGrow
      /\ UNCHANGED << day, record, rows, unwritten, sent, early >> /\ loading[c].busy
  BY DEF BlacklistInv, EndLoading, RecordsGrow, Issued
<1>2. PICK log \in Seq(Issued) : log = loading[c].log /\ Sorted(log)
  BY <1>1 DEF BlacklistInv, LoadingOk
<1>3. PICK was \in Seq(Issued) : was = auditLog[c]
  BY <1>1 DEF BlacklistTypes
<1>4. /\ loading' = [loading EXCEPT ![c] = Idle] /\ auditLog' = [auditLog EXCEPT ![c] = was \o log]
      /\ byAgent' = [byAgent EXCEPT ![c] = [a \in Suspects |-> LastOf(log, a, byAgent[c][a])]]
  BY <1>2, <1>3 DEF EndLoading
<1>5. was \o log \in Seq(Issued)
  <2>1. PICK S : S = Issued
    OBVIOUS
  <2> HIDE DEF Issued
  <2> QED OBVIOUS
<1>6. /\ auditLog'[c] = was \o log /\ ~loading'[c].busy
      /\ \A d \in Peers \ {c} : auditLog'[d] = auditLog[d] /\ byAgent'[d] = byAgent[d]
           /\ loading'[d] = loading[d]
  BY <1>1, <1>4 DEF BlacklistTypes, Idle
<1>7. BlacklistTypes'
  <2>1. auditLog' \in [Peers -> Seq(Issued)]
    <3>1. PICK S : S = Seq(Issued) /\ was \o log \in S /\ auditLog \in [Peers -> S]
      BY <1>1, <1>5 DEF BlacklistTypes
    <3> QED BY <1>4, <3>1
  <2>2. DOMAIN loading' = Peers /\ DOMAIN byAgent' = Peers /\ \A d \in Peers :
          DOMAIN byAgent'[d] = Suspects
    BY <1>1, <1>4 DEF BlacklistTypes
  <2>3. \A f \in Issued : EntryOk(f)'
    BY <1>1 DEF BlacklistTypes, EntryOk
  <2> HIDE DEF Issued
  <2> QED BY <1>1, <2>1, <2>2, <2>3 DEF BlacklistTypes
<1>8. ASSUME NEW d \in Peers PROVE LoadingOk(d)'
  <2>1. CASE d = c
    BY <1>6, <2>1 DEF LoadingOk
  <2>2. CASE d # c
    BY <1>1, <1>6, <2>2, LoadingStays DEF BlacklistInv
  <2> QED BY <2>1, <2>2
<1>9. ASSUME NEW d \in Peers \ early, ~loading'[d].busy, NEW a \in Suspects PROVE Backed(d, a)'
  <2>1. CASE d = c
    <3>1. was = << >>
      BY <1>1, <1>3, <1>9, <2>1 DEF BlacklistInv, LoadingOk
    <3>2. was \o log = log
      <4>1. PICK S : S = Issued
        OBVIOUS
      <4> HIDE DEF Issued
      <4> QED BY <3>1
    <3>3. byAgent'[c][a] = LastOf(log, a, byAgent[c][a])
      BY <1>1, <1>4 DEF BlacklistTypes
    <3>4. PICK default : default = byAgent[c][a]
      OBVIOUS
    <3> HIDE DEF Issued
    <3> QED BY <1>1, <1>2, <1>6, <2>1, <3>2, <3>3, <3>4, LastBacks
  <2>2. CASE d # c
    <3>1. Backed(d, a)
      BY <1>6, <1>9, <2>2 DEF BlacklistInv
    <3>2. day' \in Nat /\ day <= day'
      BY <1>1 DEF BlacklistTypes
    <3> QED BY <1>1, <1>6, <2>2, <3>1, <3>2, BackedStays
  <2> QED BY <2>1, <2>2
<1> QED BY <1>1, <1>7, <1>8, <1>9 DEF BlacklistInv

(* A ban for good holds, whatever late gossip, restarts and later reports  *)
(* bring.                                                                  *)
THEOREM BansHold == BlacklistSpec => []BanHolds
<1>1. BlacklistInit => BlacklistInv
  <2> SUFFICES ASSUME BlacklistInit PROVE BlacklistInv
    OBVIOUS
  <2>1. Issued = 1 .. 0 /\ day = 0 /\ 0 \in 0 .. MaxDay
    BY BlacklistAssumption DEF BlacklistInit, Issued
  <2>2. \A c \in Peers : Logged(c) = {} /\ ~loading[c].busy
    BY DEF BlacklistInit, Logged, Idle
  <2>3. auditLog \in [Peers -> Seq(Issued)]
    <3> HIDE DEF Issued
    <3> QED BY DEF BlacklistInit
  <2>4. BlacklistTypes
    BY <2>1, <2>3 DEF BlacklistInit, BlacklistTypes
  <2> QED BY <2>2, <2>4 DEF BlacklistInv, LoadingOk, Backed
<1>2. BlacklistInv /\ [BlacklistNext]_lvars => BlacklistInv'
  <2> SUFFICES ASSUME BlacklistInv, [BlacklistNext]_lvars PROVE BlacklistInv'
    OBVIOUS
  <2>1. /\ BlacklistTypes /\ day \in Nat /\ day \in 0 .. MaxDay
        /\ rows \in [Peers -> SUBSET Issued] /\ unwritten \in [Peers -> SUBSET Issued]
        /\ \A m \in sent : m.what \in Issued /\ m.to \in Peers
    <3> HIDE DEF Issued
    <3>1. BlacklistTypes
      BY DEF BlacklistInv
    <3>2. day \in 0 .. MaxDay
      BY <3>1 DEF BlacklistTypes
    <3>3. day \in Nat
      BY <3>2
    <3>4. rows \in [Peers -> SUBSET Issued] /\ unwritten \in [Peers -> SUBSET Issued]
      BY <3>1 DEF BlacklistTypes
    <3>5. \A m \in sent : m.what \in Issued /\ m.to \in Peers
      BY <3>1 DEF BlacklistTypes
    <3> QED BY <3>1, <3>2, <3>3, <3>4, <3>5
  <2>2. ASSUME NEW c \in Peers, NEW a \in Suspects, NEW e \in 1 .. MaxReports, NEW until \in 0 .. Never,
               Report(c, a, e, until)
        PROVE  BlacklistInv'
    BY <2>2, ReportKeepsBans
  <2>3. ASSUME NEW c \in Peers, NEW e \in unwritten[c], PersistRecord(c, e) PROVE BlacklistInv'
    <3>1. rows' \in [Peers -> SUBSET Issued] /\ unwritten' \in [Peers -> SUBSET Issued]
      BY <2>1, <2>3 DEF PersistRecord
    <3> HIDE DEF Issued
    <3> QED BY <2>1, <2>3, <3>1, MemoryStays DEF PersistRecord
  <2>4. ASSUME NEW c \in Peers, StartLoading(c) PROVE BlacklistInv'
    BY <2>4, StartKeepsBans
  <2>5. ASSUME NEW c \in Peers, EndLoading(c) PROVE BlacklistInv'
    BY <2>5, EndKeepsBans
  <2>6. ASSUME NEW m \in sent, IngestRecord(m) PROVE BlacklistInv'
    BY <2>6, IngestKeepsBans
  <2>7. CASE NextDay
    <3>1. day' \in 0 .. MaxDay /\ day <= day'
      BY <2>1, <2>7, BlacklistAssumption DEF NextDay
    <3> HIDE DEF Issued
    <3> QED BY <2>1, <2>7, <3>1, MemoryStays DEF NextDay
  <2>8. CASE UNCHANGED lvars
    <3> HIDE DEF Issued
    <3> QED BY <2>1, <2>8, MemoryStays DEF lvars
  <2> QED BY <2>2, <2>3, <2>4, <2>5, <2>6, <2>7, <2>8 DEF BlacklistNext
<1>3. BlacklistInv => BanHolds
  <2> SUFFICES ASSUME BlacklistInv, NEW c \in Peers \ early, ~loading[c].busy,
                      NEW i \in 1 .. Len(auditLog[c]), record[auditLog[c][i]].until = Never
               PROVE  \/ ActiveRecord(c, record[auditLog[c][i]].agent) # Genesis
                      \/ \E j \in 1 .. Len(auditLog[c]) :
                           /\ record[auditLog[c][j]].agent = record[auditLog[c][i]].agent
                           /\ record[auditLog[c][j]].until < day
                           /\ record[auditLog[c][j]].at >= record[auditLog[c][i]].at
    BY DEF BanHolds
  <2>1. PICK x \in Logged(c) : x = auditLog[c][i]
    BY DEF Logged
  <2>2. Logged(c) \subseteq Issued
    BY LoggedIssued DEF BlacklistInv
  <2>3. PICK a \in Suspects : a = record[x].agent
    BY <2>2 DEF BlacklistInv, BlacklistTypes, EntryOk
  <2>4. PICK p \in Logged(c) : /\ p = byAgent[c][a] /\ record[p].agent = a
                               /\ \/ record[p].at >= record[x].at
                                  \/ \E f \in Logged(c) : record[f].agent = a
                                       /\ record[f].until < day /\ record[f].at >= record[x].at
    BY <2>1, <2>3 DEF BlacklistInv, Backed
  <2>5. p # Genesis /\ record[p].until \in Nat /\ day \in Nat
    BY <2>2 DEF BlacklistInv, BlacklistTypes, EntryOk, Genesis
  <2>6. CASE record[p].until >= day
    BY <2>1, <2>3, <2>4, <2>5, <2>6 DEF ActiveRecord
  <2>7. CASE record[p].until < day
    <3>1. PICK f \in Logged(c) : record[f].agent = a /\ record[f].until < day /\ record[f].at
                 >= record[x].at
      BY <2>4, <2>7
    <3> QED BY <2>1, <2>3, <3>1 DEF Logged
  <2> QED BY <2>5, <2>6, <2>7
<1> QED BY <1>1, <1>2, <1>3, PTL DEF BlacklistSpec

-----------------------------------------------------------------------------
(***************************************************************************)
(* Behaviour. A strike on the agent's account is an entry of the log of    *)
(* strikes, so those that are still in the window when a ban comes are     *)
(* among the entries of the log that are.                                  *)
(***************************************************************************)
(* What is known of the strikes: they are entries of the anomaly log.      *)
StrikesInv ==
    /\ time \in Nat
    /\ anomalyLog \in Seq(Nat)
    /\ strikes \subseteq DOMAIN anomalyLog

(* Enough strikes were given within the window.                            *)
StruckEnough ==
    Cardinality({k \in DOMAIN anomalyLog' : anomalyLog'[k] + StrikeWindow >= time}) >= StrikeThreshold

(* An evaluation keeps the strikes within the log, and a ban for strikes   *)
(* has as many of them in the window as are needed.                        *)
LEMMA EvaluationInv ==
    ASSUME StrikesInv, UNCHANGED time,
           NEW ts, NEW vs, NEW rs, NEW cs, NEW beats,
           EvaluateAgent(ts, vs, rs, cs, beats)
    PROVE  /\ StrikesInv'
           /\ bans' # bans =>
                Critical(ts, vs) \/ StruckEnough
<1>1. CASE Critical(ts, vs)
  BY <1>1 DEF EvaluateAgent, StrikesInv
<1>2. CASE ~Critical(ts, vs)
  <2> DEFINE n == Warnings(ts, rs, cs, beats)
             new == Len(anomalyLog) + 1 .. Len(anomalyLog) + n
             all == LiveStrikes \union new
             live == {k \in DOMAIN anomalyLog' : anomalyLog'[k] + StrikeWindow >= time}
  <2>1. n \in Nat
    <3> DEFINE rules == << MassEmptyOutputs(ts), SuccessCollapse(ts), HeartbeatManipulation(beats, cs),
                           RegistrationStorm(rs), RobotPrecision(ts), TinyOutputs(ts) >>
               fired == {r \in 1 .. 6 : rules[r]}
    <3>1. n = Cardinality(fired)
      BY DEF Warnings
    <3> HIDE DEF rules
    <3>2. fired \subseteq 1 .. 6
      BY Zenon
    <3> HIDE DEF fired
    <3>3. IsFiniteSet(1 .. 6)
      <4>1. PICK one \in Int, six \in Int : one = 1 /\ six = 6
        OBVIOUS
      <4>2. IsFiniteSet(one .. six)
        BY FS_Interval
      <4> QED BY <4>1, <4>2
    <3>4. IsFiniteSet(fired)
      BY <3>2, <3>3, FS_Subset
    <3> QED BY <3>1, <3>4, FS_CardinalityType
  <2>2. /\ anomalyLog' = anomalyLog \o [i \in 1 .. n |-> time]
        /\ (n > 0 /\ EnoughStrikes(all)) => strikes' = {}
        /\ ~(n > 0 /\ EnoughStrikes(all)) =>
             strikes' = (IF n = 0 THEN strikes ELSE all) /\ bans' = bans
    <3> HIDE DEF n
    <3>1. n = Warnings(ts, rs, cs, beats)
      BY DEF n
    <3> QED BY <1>2, <3>1 DEF EvaluateAgent
  <2> HIDE DEF n
  <2>3. /\ anomalyLog' \in Seq(Nat)
        /\ DOMAIN anomalyLog' = 1 .. Len(anomalyLog) + n
        /\ DOMAIN anomalyLog = 1 .. Len(anomalyLog) /\ Len(anomalyLog) \in Nat
        /\ \A k \in DOMAIN anomalyLog : anomalyLog'[k] = anomalyLog[k]
        /\ \A k \in new : anomalyLog'[k] = time
    <3>1. [i \in 1 .. n |-> time] \in Seq(Nat) /\ Len([i \in 1 .. n |-> time]) = n
      BY <2>1 DEF StrikesInv
    <3> QED BY <2>1, <2>2, <3>1 DEF StrikesInv
  <2>4. StrikeWindow \in Nat /\ StrikeThreshold \in Nat /\ time \in Nat
    BY BehaviourAssumption DEF StrikesInv
  <2>5. all \subseteq live
    <3>1. LiveStrikes \subseteq live
      BY <2>1, <2>3 DEF LiveStrikes, StrikesInv
    <3>2. new \subseteq live
      BY <2>1, <2>3, <2>4
    <3> QED BY <3>1, <3>2
  <2>6. StrikesInv'
    <3>1. all \subseteq DOMAIN anomalyLog'
      BY <2>5
    <3>2. strikes \subseteq DOMAIN anomalyLog'
      BY <2>1, <2>3 DEF StrikesInv
    <3>3. strikes' \in {{}, strikes, all}
      BY <2>2
    <3> QED BY <2>3, <2>4, <3>1, <3>2, <3>3 DEF StrikesInv
  <2>7. ASSUME bans' # bans PROVE Cardinality(live) >= StrikeThreshold
    <3>1. Cardinality(all) >= StrikeThreshold
      BY <2>2, <2>7 DEF EnoughStrikes
    <3>2. IsFiniteSet(live)
      <4>1. IsFiniteSet(DOMAIN anomalyLog') /\ live \subseteq DOMAIN anomalyLog'
        BY <2>1, <2>3, FS_Interval
      <4> QED BY <4>1, FS_Subset
    <3> HIDE DEF all, live
    <3>3. IsFiniteSet(all) /\ Cardinality(all) <= Cardinality(live)
      BY <2>5, <3>2, FS_Subset
    <3>4. Cardinality(all) \in Nat /\ Cardinality(live) \in Nat
      BY <3>2, <3>3, FS_CardinalityType
    <3> QED BY <2>4, <3>1, <3>3, <3>4
  <2> QED BY <2>6, <2>7 DEF StruckEnough
<1> QED BY <1>1, <1>2

(* One step of the monitor.                                                *)
LEMMA BehaviourStep ==
    ASSUME StrikesInv, [BehaviourNext]_bvars
    PROVE  /\ StrikesInv'
           /\ bans' # bans =>
                Critical(tasks', violations') \/ StruckEnough
<1> USE DEF Record
<1>1. CASE RecordRegistration
  BY <1>1, EvaluationInv DEF RecordRegistration, GetStats
<1>2. ASSUME NEW o \in Outcomes, RecordTaskResult(o)
      PROVE  StrikesInv' /\ (bans' # bans => Critical(tasks', violations') \/ StruckEnough)
  BY <1>2, EvaluationInv DEF RecordTaskResult, GetStats
<1>3. CASE RecordHeartbeat \/ RecordTaskClaim \/ RecordProtocolViolation
  BY <1>3 DEF RecordHeartbeat, RecordTaskClaim, RecordProtocolViolation, StrikesInv
<1>4. CASE BehaviourTick
  BY <1>4 DEF BehaviourTick, StrikesInv
<1>5. CASE UNCHANGED bvars
  BY <1>5 DEF bvars, StrikesInv
<1> QED BY <1>1, <1>2, <1>3, <1>4, <1>5 DEF BehaviourNext

(* A ban of the behaviour monitor has its critical symptom in the window,  *)
(* or enough strikes of one window.                                        *)
THEOREM BansAreEarned == BehaviourSpec => BanIsEarned
<1>1. BehaviourInit => StrikesInv
  BY DEF BehaviourInit, StrikesInv
<1>2. StrikesInv /\ [BehaviourNext]_bvars =>
        /\ StrikesInv'
        /\ [bans' # bans => Critical(tasks', violations') \/ StruckEnough]_bvars
  BY BehaviourStep
<1> QED BY <1>1, <1>2, PTL DEF BehaviourSpec, BanIsEarned, StruckEnough

-----------------------------------------------------------------------------
(***************************************************************************)
(* The ledger of statistics. A finaliser commits on the signatures it      *)
(* counted some steps before; they must still be of its checkpoint, and    *)
(* issued records are never taken away (LedgerInv).                        *)
(***************************************************************************)
(* A signature of the checkpoint cp.                                       *)
SignatureOf(s, cp) == s \in DOMAIN ledger /\ ledger[s].kind = "signature" /\ ledger[s].cp = cp

(* The ledger has the numbers 1, 2, ...; coordinators store what was       *)
(* issued, and a finalisation counts signatures of its checkpoint only.    *)
LedgerInv ==
    /\ \E n \in Nat : DOMAIN ledger = 1 .. n
    /\ DOMAIN statsRows = Members /\ \A c \in Members : statsRows[c] \subseteq DOMAIN ledger
    /\ \A f \in finalizing :
         /\ f.by \in Members
         /\ DOMAIN f = {"by", "at", "cp", "commit", "sigs", "own"}
         /\ f.at \in {"signing", "signed"} => \A s \in f.sigs : SignatureOf(s, f.cp)
         /\ f.at = "signing" => f.own \in DOMAIN ledger
    /\ CommitBacked

(* The next number is not in use, and leaves no gap.                       *)
LEMMA NextIsNew ==
    ASSUME LedgerInv
    PROVE  Next1 \notin DOMAIN ledger /\ \E n \in Nat : DOMAIN ledger \union {Next1} = 1 .. n
<1>1. PICK n \in Nat : DOMAIN ledger = 1 .. n
  BY DEF LedgerInv
<1>2. Cardinality(DOMAIN ledger) = n
  BY <1>1, FS_Interval
<1> QED BY <1>1, <1>2 DEF Next1

(* Issuing a record adds one; the rest of the ledger is as it was.         *)
LEMMA IssueAdds ==
    ASSUME LedgerInv, NEW rec, Issue(rec)
    PROVE  /\ DOMAIN ledger' = DOMAIN ledger \union {Next1}
           /\ ledger'[Next1] = rec /\ Next1 \notin DOMAIN ledger
           /\ \A r \in DOMAIN ledger : ledger'[r] = ledger[r]
           /\ \E n \in Nat : DOMAIN ledger' = 1 .. n
BY NextIsNew DEF Issue

(* What is issued later takes no signature away.                           *)
LEMMA SignaturesStay ==
    ASSUME LedgerInv, UNCHANGED ledger \/ (\E rec : Issue(rec)), NEW s, NEW cp, SignatureOf(s, cp)
    PROVE  SignatureOf(s, cp)'
BY IssueAdds DEF SignatureOf

(* A record that is no commit, or a commit that is backed, keeps commits   *)
(* backed.                                                                 *)
LEMMA CommitStaysBacked ==
    ASSUME LedgerInv, NEW rec, Issue(rec),
           rec.kind = "commit" =>
             /\ Cardinality(rec.signers) >= rec.threshold
             /\ \A c \in rec.signers : \E s \in DOMAIN ledger : SignatureOf(s, rec.cp) /\ ledger[s].by = c
    PROVE  CommitBacked'
<1>1. /\ DOMAIN ledger' = DOMAIN ledger \union {Next1}
      /\ ledger'[Next1] = rec /\ Next1 \notin DOMAIN ledger
      /\ \A r \in DOMAIN ledger : ledger'[r] = ledger[r]
  BY IssueAdds
<1>2. CommitBacked
  BY DEF LedgerInv
<1> QED BY <1>1, <1>2 DEF CommitBacked, SignatureOf

(* A finaliser that begins is its coordinator's, and at the head.          *)
LEMMA ReadHeadFields ==
    ASSUME NEW c
    PROVE  /\ ReadHead(c).by = c /\ ReadHead(c).at = "head"
           /\ DOMAIN ReadHead(c) = {"by", "at", "cp", "commit", "sigs", "own"}
BY DEF ReadHead

(* For any coordinators, and however ticks, ingests, overlapping           *)
(* finalisations, failed writes and restarts fall: a commit is backed by   *)
(* as many signers of its checkpoint as it says.                           *)
THEOREM CommitsAreBacked == StatsSpec => []CommitBacked
<1>1. StatsInit => LedgerInv
  <2> SUFFICES ASSUME StatsInit PROVE LedgerInv
    OBVIOUS
  <2>1. DOMAIN ledger = {} /\ {} = 1 .. 0
    BY DEF StatsInit
  <2> QED BY <2>1 DEF StatsInit, LedgerInv, CommitBacked
<1>2. LedgerInv /\ [StatsNext]_svars => LedgerInv'
  <2> SUFFICES ASSUME LedgerInv, [StatsNext]_svars PROVE LedgerInv'
    OBVIOUS
  <2>1. ASSUME NEW c \in Members, AppendStats(c) PROVE LedgerInv'
    <3>1. /\ Issue([kind |-> "event", by |-> c]) /\ UNCHANGED finalizing
          /\ statsRows' = [statsRows EXCEPT ![c] = @ \union {Next1}]
      BY <2>1 DEF AppendStats
    <3>2. CommitBacked'
      BY <3>1, CommitStaysBacked
    <3> QED BY <3>1, <3>2, IssueAdds, SignaturesStay DEF LedgerInv
  <2>2. ASSUME NEW c \in Members, FinalizeTick(c) PROVE LedgerInv'
    <3>1. /\ UNCHANGED << ledger, statsRows >> /\ finalizing' = finalizing \union {ReadHead(c)}
      BY <2>2 DEF FinalizeTick
    <3> QED BY <3>1, ReadHeadFields DEF LedgerInv, CommitBacked, SignatureOf
  <2>3. ASSUME NEW c \in Members, NEW r \in Ids, IngestStats(c, r) PROVE LedgerInv'
    <3> DEFINE f == [ReadHead(c) EXCEPT !.cp = Max(statsRows[c] \union {r})]
    <3>1. /\ UNCHANGED ledger /\ r \in DOMAIN ledger
          /\ statsRows' = [statsRows EXCEPT ![c] = @ \union {r}]
          /\ finalizing' = finalizing \union {f}
      BY <2>3 DEF IngestStats
    <3>2. f.by = c /\ f.at = "head" /\ DOMAIN f = {"by", "at", "cp", "commit", "sigs", "own"}
      BY DEF ReadHead
    <3> HIDE DEF f
    <3> QED BY <3>1, <3>2 DEF LedgerInv, CommitBacked, SignatureOf
  <2>4. ASSUME NEW f \in finalizing, SignCheckpoint(f) PROVE LedgerInv'
    <3> DEFINE sigs == Signatures(f.by, f.cp)
    <3>1. /\ f.by \in Members /\ DOMAIN f = {"by", "at", "cp", "commit", "sigs", "own"}
          /\ \A s \in sigs : SignatureOf(s, f.cp)
      BY DEF LedgerInv, Signatures, SignatureOf
    <3>2. CASE f.by \in SignersOf(sigs)
      <4> DEFINE g == [f EXCEPT !.at = "signed", !.commit = HasCommit(f.by, f.cp), !.sigs = sigs]
      <4>1. UNCHANGED << ledger, statsRows >> /\ finalizing' = (finalizing \ {f}) \union {g}
        BY <2>4, <3>2 DEF SignCheckpoint
      <4>2. /\ g.by = f.by /\ g.at = "signed" /\ g.cp = f.cp /\ g.sigs = sigs
            /\ DOMAIN g = {"by", "at", "cp", "commit", "sigs", "own"}
        BY <3>1
      <4> HIDE DEF g, sigs
      <4> QED BY <3>1, <4>1, <4>2 DEF LedgerInv, CommitBacked, SignatureOf
    <3>3. CASE f.by \notin SignersOf(sigs)
      <4> DEFINE g == [f EXCEPT !.at = "signing", !.commit = HasCommit(f.by, f.cp),
                                !.sigs = sigs \union {Next1}, !.own = Next1]
                 rec == [kind |-> "signature", by |-> f.by, cp |-> f.cp]
      <4>1. /\ Issue(rec) /\ UNCHANGED statsRows /\ finalizing' = (finalizing \ {f}) \union {g}
        BY <2>4, <3>3 DEF SignCheckpoint
      <4>2. /\ g.by = f.by /\ g.at = "signing" /\ g.cp = f.cp /\ g.sigs = sigs \union {Next1}
                 /\ g.own = Next1
            /\ DOMAIN g = {"by", "at", "cp", "commit", "sigs", "own"}
        BY <3>1
      <4>3. rec.kind = "signature" /\ rec.cp = f.cp
        OBVIOUS
      <4> HIDE DEF g, sigs, rec
      <4>4. CommitBacked'
        BY <4>1, <4>3, CommitStaysBacked
      <4>7. PICK n, h : n = Next1 /\ h = g
        OBVIOUS
      <4>5. SignatureOf(n, f.cp)'
        BY <4>1, <4>3, <4>7, IssueAdds DEF SignatureOf
      <4>6. \A s \in h.sigs : SignatureOf(s, h.cp)'
        BY <3>1, <4>1, <4>2, <4>5, <4>7, SignaturesStay
      <4> QED BY <3>1, <4>1, <4>2, <4>4, <4>6, <4>7, IssueAdds, SignaturesStay DEF LedgerInv
    <3> QED BY <3>2, <3>3
  <2>5. ASSUME NEW f \in finalizing, NEW ok \in BOOLEAN, StoreSignature(f, ok) PROVE LedgerInv'
    <3> DEFINE g == [f EXCEPT !.at = "signed"]
    <3>1. /\ UNCHANGED ledger /\ f.at = "signing"
          /\ \A h \in finalizing' : h \in finalizing \/ h = g
          /\ DOMAIN statsRows' = DOMAIN statsRows
          /\ \A c \in DOMAIN statsRows : statsRows'[c] \subseteq statsRows[c] \union {f.own}
      BY <2>5 DEF StoreSignature, LedgerInv
    <3>2. /\ g.by = f.by /\ g.at = "signed" /\ g.cp = f.cp /\ g.sigs = f.sigs
          /\ DOMAIN g = {"by", "at", "cp", "commit", "sigs", "own"}
      BY DEF LedgerInv
    <3> HIDE DEF g
    <3> QED BY <3>1, <3>2 DEF LedgerInv, CommitBacked, SignatureOf
  <2>6. ASSUME NEW f \in finalizing, CommitCheckpoint(f) PROVE LedgerInv'
    <3>1. CASE ~f.commit /\ Enough(f)
      <4> DEFINE rec == [kind |-> "commit", by |-> f.by, cp |-> f.cp,
                         threshold |-> StatsQuorum(f.by), signers |-> SignersOf(f.sigs)]
      <4>1. /\ Issue(rec) /\ finalizing' = finalizing \ {f} /\ f.at = "signed"
            /\ statsRows' = [statsRows EXCEPT ![f.by] = @ \union {Next1}]
        BY <2>6, <3>1 DEF CommitCheckpoint
      <4>2. rec.cp = f.cp /\ rec.threshold = StatsQuorum(f.by) /\ rec.signers = SignersOf(f.sigs)
        OBVIOUS
      <4> HIDE DEF rec
      <4>3. Cardinality(rec.signers) >= rec.threshold
        BY <3>1, <4>2 DEF Enough
      <4>4. \A c \in rec.signers : \E s \in DOMAIN ledger : SignatureOf(s, rec.cp) /\ ledger[s].by = c
        BY <4>1, <4>2 DEF SignersOf, LedgerInv, SignatureOf
      <4>5. CommitBacked'
        BY <4>1, <4>3, <4>4, CommitStaysBacked
      <4> QED BY <4>1, <4>5, IssueAdds, SignaturesStay DEF LedgerInv
    <3>2. CASE ~(~f.commit /\ Enough(f))
      <4>1. UNCHANGED << ledger, statsRows >> /\ finalizing' = finalizing \ {f}
        BY <2>6, <3>2 DEF CommitCheckpoint
      <4> QED BY <4>1 DEF LedgerInv, CommitBacked, SignatureOf
    <3> QED BY <3>1, <3>2
  <2>7. CASE \/ \E c \in Members : AnchorHead(c) \/ StatsRestart(c) \/ \E d \in Members : LearnPeer(c, d)
             \/ UNCHANGED svars
    <3>1. UNCHANGED << ledger, statsRows >> /\ finalizing' \subseteq finalizing
      BY <2>7 DEF AnchorHead, StatsRestart, LearnPeer, svars
    <3> QED BY <3>1 DEF LedgerInv, CommitBacked, SignatureOf
  <2> QED BY <2>1, <2>2, <2>3, <2>4, <2>5, <2>6, <2>7 DEF StatsNext
<1>3. LedgerInv => CommitBacked
  BY DEF LedgerInv
<1> QED BY <1>1, <1>2, <1>3, PTL DEF StatsSpec

-----------------------------------------------------------------------------
(***************************************************************************)
(* Issuance. A finaliser counted coordinators that had decided in favour   *)
(* of its epoch some steps before it commits (FinalizerOk); decisions are  *)
(* records that stay, and every commit rests on its voters (RecordOk).     *)
(***************************************************************************)
(* Every one of S has proposed or approved epoch e.                        *)
Approved(e, S) ==
    \A c \in S : \E s \in quorumLog :
      s.epoch = e /\ s.by = c /\ s.type \in {"proposal", "vote"} /\ s.approve

Committed(e) == \E r \in quorumLog : r.epoch = e /\ r.type = "commit"

FinalizerFields == {"by", "epoch", "step", "approvals", "needed", "hasCommit"}

(* What a call that will commit has counted, and that whoever will mark an *)
(* epoch final has seen or written its commit.                             *)
FinalizerOk(f) ==
    /\ DOMAIN f = FinalizerFields
    /\ f.step = "commit" =>
         IF f.hasCommit THEN Committed(f.epoch)
         ELSE Cardinality(f.approvals) >= f.needed /\ Approved(f.epoch, f.approvals)
    /\ f.step = "final" => Committed(f.epoch)

RecordOk(r) ==
    /\ r.type = "proposal" => r.approve
    /\ r.type = "commit" => Cardinality(r.approvals) >= r.needed /\ Approved(r.epoch, r.approvals)

IssuanceInv ==
    /\ epochs \in Seq([by : Issuers, final : BOOLEAN])
    /\ \A f \in finalizers : FinalizerOk(f)
    /\ \A r \in quorumLog : RecordOk(r)
    /\ \A e \in DOMAIN epochs : epochs[e].final => Committed(e)

(* Records are only ever added, so what was approved or committed stays.   *)
LEMMA LogGrows ==
    ASSUME IssuanceInv, quorumLog \subseteq quorumLog'
    PROVE  /\ \A e, S : Approved(e, S) => Approved(e, S)'
           /\ \A e : Committed(e) => Committed(e)'
           /\ \A f : FinalizerOk(f) => FinalizerOk(f)'
           /\ \A r \in quorumLog : RecordOk(r)'
<1>1. /\ \A e, S : Approved(e, S) => Approved(e, S)'
      /\ \A e : Committed(e) => Committed(e)'
  BY DEF Approved, Committed
<1> QED BY <1>1 DEF IssuanceInv, FinalizerOk, RecordOk

(* A record that is added by itself.                                       *)
LEMMA RecordAdded ==
    ASSUME IssuanceInv, NEW r, quorumLog' = quorumLog \union {r}, RecordOk(r)',
           UNCHANGED epochs, \A f \in finalizers' : FinalizerOk(f)'
    PROVE  IssuanceInv'
BY LogGrows DEF IssuanceInv

(* Without a new record, only the finalisers have to be looked at.         *)
LEMMA LogUnchanged ==
    ASSUME IssuanceInv, UNCHANGED << quorumLog, epochs >>, \A f \in finalizers' : FinalizerOk(f)
    PROVE  IssuanceInv'
BY LogGrows DEF IssuanceInv

(* A finaliser that begins has approvals of nobody.                        *)
LEMMA NewFinalizerOk ==
    ASSUME NEW c, NEW e
    PROVE  FinalizerOk(Finalizer(c, e))
BY DEF Finalizer, FinalizerOk, FinalizerFields

(* Any number of coordinators, contributors, policies and overlapping      *)
(* calls: an epoch is final only with a commit that counted enough         *)
(* coordinators, each of which had proposed or approved that epoch.        *)
THEOREM FinalRestsOnQuorum == IssuanceSpec => []FinalHasQuorum
<1>1. IssuanceInit => IssuanceInv
  BY DEF IssuanceInit, IssuanceInv
<1>2. IssuanceInv /\ [IssuanceNext]_ivars => IssuanceInv'
  <2> SUFFICES ASSUME IssuanceInv, [IssuanceNext]_ivars PROVE IssuanceInv'
    OBVIOUS
  <2>1. ASSUME NEW c \in Issuers, TickBegins(c) PROVE IssuanceInv'
    <3> DEFINE new == [by |-> c, final |-> FALSE]
    <3>1. epochs' = Append(epochs, new) /\ UNCHANGED << quorumLog, finalizers >>
      BY <2>1 DEF TickBegins
    <3>2. new \in [by : Issuers, final : BOOLEAN] /\ ~new.final
      OBVIOUS
    <3> HIDE DEF new
    <3>3. epochs \in Seq([by : Issuers, final : BOOLEAN])
      BY DEF IssuanceInv
    <3>4. epochs' \in Seq([by : Issuers, final : BOOLEAN])
      BY <3>1, <3>2, <3>3
    <3>5. /\ DOMAIN epochs' = (DOMAIN epochs) \union {Len(epochs) + 1}
          /\ epochs'[Len(epochs) + 1] = new
          /\ \A e \in DOMAIN epochs : epochs'[e] = epochs[e]
      <4> DEFINE ET == [by : Issuers, final : BOOLEAN]
      <4>1. epochs \in Seq(ET) /\ new \in ET
        BY <3>2, <3>3
      <4> HIDE DEF ET
      <4> QED BY <3>1, <4>1
    <3> QED BY <3>1, <3>2, <3>4, <3>5, LogGrows DEF IssuanceInv
  <2>2. ASSUME NEW c \in Issuers, ProposeEpoch(c) PROVE IssuanceInv'
    <3>1. PICK r : r = QuorumRecord("proposal", tick[c].epoch, c, TRUE)
      OBVIOUS
    <3>2. RecordOk(r)'
      BY <3>1 DEF RecordOk, QuorumRecord
    <3>3. quorumLog' = quorumLog \union {r} /\ UNCHANGED << epochs, finalizers >>
      BY <2>2, <3>1 DEF ProposeEpoch, AppendQuorumRecord
    <3> QED BY <3>2, <3>3, RecordAdded, LogGrows DEF IssuanceInv
  <2>3. ASSUME NEW c \in Issuers, VoteForOwn(c) PROVE IssuanceInv'
    <3>1. PICK e : e = tick[c].epoch
      OBVIOUS
    <3>2. RecordOk(QuorumRecord("vote", e, c, TRUE))'
      BY DEF RecordOk, QuorumRecord
    <3>3. quorumLog' = quorumLog \union {QuorumRecord("vote", e, c, TRUE)} /\ UNCHANGED epochs
          /\ finalizers' = finalizers \union {Finalizer(c, e)}
      BY <2>3, <3>1 DEF VoteForOwn, AppendQuorumRecord
    <3> QED BY <3>2, <3>3, RecordAdded, LogGrows, NewFinalizerOk DEF IssuanceInv
  <2>4. ASSUME NEW c \in Issuers, NEW e \in DOMAIN epochs, NEW approve \in BOOLEAN, CastVote(c, e, approve)
        PROVE  IssuanceInv'
    <3>1. PICK r : r = QuorumRecord("vote", e, c, approve)
      OBVIOUS
    <3>2. RecordOk(r)'
      BY <3>1 DEF RecordOk, QuorumRecord
    <3>3. quorumLog' = quorumLog \union {r} /\ UNCHANGED epochs
          /\ finalizers' = finalizers \union {Finalizer(c, e)}
      BY <2>4, <3>1 DEF CastVote, AppendQuorumRecord
    <3> QED BY <3>2, <3>3, RecordAdded, LogGrows, NewFinalizerOk DEF IssuanceInv
  <2>5. ASSUME NEW c \in Issuers, AnchorEpoch(c) PROVE IssuanceInv'
    <3>1. PICK r : r = QuorumRecord("checkpoint", LatestFinal, c, TRUE)
      OBVIOUS
    <3>2. RecordOk(r)'
      BY <3>1 DEF RecordOk, QuorumRecord
    <3>3. quorumLog' = quorumLog \union {r} /\ UNCHANGED << epochs, finalizers >>
      BY <2>5, <3>1 DEF AnchorEpoch, AppendQuorumRecord
    <3> QED BY <3>2, <3>3, RecordAdded, LogGrows DEF IssuanceInv
  <2>6. ASSUME NEW f \in finalizers, ReadApprovals(f) PROVE IssuanceInv'
    <3> DEFINE voted == {r.by : r \in {s \in RecordsOf(f.epoch) : Counts(s)}}
               some == \E r \in RecordsOf(f.epoch) : r.type = "commit"
               g == [f EXCEPT !.step = "commit", !.approvals = voted, !.needed = QuorumThreshold(f.by),
                              !.hasCommit = some]
    <3>1. CASE ~(Cardinality(voted) >= QuorumThreshold(f.by))
      <4>1. finalizers' = (finalizers \ {f}) \union {} /\ UNCHANGED << quorumLog, epochs >>
        BY <2>6, <3>1, Zenon DEF ReadApprovals
      <4> QED BY <4>1, LogUnchanged DEF IssuanceInv
    <3>2. CASE Cardinality(voted) >= QuorumThreshold(f.by)
      <4>1. finalizers' = (finalizers \ {f}) \union {g} /\ UNCHANGED << quorumLog, epochs >>
        BY <2>6, <3>2, Zenon DEF ReadApprovals
      <4>2. Approved(f.epoch, voted)
        BY DEF Approved, RecordsOf, Counts, IssuanceInv, RecordOk
      <4>3. some => Committed(f.epoch)
        BY DEF Committed, RecordsOf
      <4>4. DOMAIN f = FinalizerFields
        BY DEF IssuanceInv, FinalizerOk
      <4> HIDE DEF voted, some
      <4>5. /\ DOMAIN g = FinalizerFields /\ g.step = "commit" /\ g.epoch = f.epoch
            /\ g.approvals = voted /\ g.needed = QuorumThreshold(f.by)
        BY <4>4 DEF FinalizerFields
      <4>6. g.hasCommit = some
        BY <4>4, Zenon DEF FinalizerFields
      <4> HIDE DEF g
      <4>7. g.hasCommit => Committed(g.epoch)
        BY <4>3, <4>5, <4>6, Zenon
      <4>8. Cardinality(g.approvals) >= g.needed
        BY <3>2, <4>5
      <4>9. FinalizerOk(g)
        BY <4>2, <4>5, <4>7, <4>8 DEF FinalizerOk
      <4> QED BY <4>1, <4>9, LogUnchanged DEF IssuanceInv
    <3> QED BY <3>1, <3>2
  <2>7. ASSUME NEW f \in finalizers, CommitEpoch(f) PROVE IssuanceInv'
    <3> DEFINE g == [f EXCEPT !.step = "final"]
               r == CommitRecord(f)
    <3>1. /\ f.step = "commit" /\ UNCHANGED epochs /\ finalizers' = (finalizers \ {f}) \union {g}
          /\ quorumLog' = IF f.hasCommit THEN quorumLog ELSE quorumLog \union {r}
          /\ FinalizerOk(f)
      BY <2>7 DEF CommitEpoch, IssuanceInv
    <3>2. DOMAIN g = FinalizerFields /\ g.step = "final" /\ g.epoch = f.epoch
      BY <3>1 DEF FinalizerOk, FinalizerFields
    <3>3. r.type = "commit" /\ r.epoch = f.epoch /\ r.approvals = f.approvals /\ r.needed = f.needed
      BY DEF CommitRecord
    <3> HIDE DEF g, r
    <3>4. CASE f.hasCommit
      <4>1. FinalizerOk(g)
        BY <3>1, <3>2, <3>4 DEF FinalizerOk
      <4> QED BY <3>1, <3>4, <4>1, LogUnchanged DEF IssuanceInv
    <3>5. CASE ~f.hasCommit
      <4>1. quorumLog' = quorumLog \union {r}
        BY <3>1, <3>5
      <4>2. RecordOk(r)'
        BY <3>1, <3>3, <3>5, <4>1, LogGrows DEF FinalizerOk, RecordOk
      <4>3. FinalizerOk(g)'
        BY <3>2, <3>3, <4>1 DEF FinalizerOk, Committed
      <4> QED BY <3>1, <4>1, <4>2, <4>3, RecordAdded, LogGrows DEF IssuanceInv
    <3> QED BY <3>4, <3>5
  <2>8. ASSUME NEW f \in finalizers, MarkFinal(f) PROVE IssuanceInv'
    <3>1. /\ UNCHANGED quorumLog /\ finalizers' = finalizers \ {f} /\ Committed(f.epoch)
          /\ epochs' = [epochs EXCEPT ![f.epoch].final = TRUE]
      BY <2>8 DEF MarkFinal, IssuanceInv, FinalizerOk
    <3>2. /\ DOMAIN epochs' = DOMAIN epochs
          /\ \A e \in DOMAIN epochs : e # f.epoch => epochs'[e] = epochs[e]
      BY <3>1
    <3>3. epochs' \in Seq([by : Issuers, final : BOOLEAN])
      <4> DEFINE ET == [by : Issuers, final : BOOLEAN]
                 new == [epochs[f.epoch] EXCEPT !.final = TRUE]
      <4>1. epochs \in Seq(ET) /\ epochs' = [epochs EXCEPT ![f.epoch] = new]
        BY <3>1 DEF IssuanceInv
      <4>2. ASSUME f.epoch \in DOMAIN epochs PROVE new \in ET
        <5>1. epochs[f.epoch] \in ET
          <6> HIDE DEF ET, new
          <6> QED BY <4>1, <4>2
        <5> QED BY <5>1
      <4> HIDE DEF ET, new
      <4>3. epochs' \in Seq(ET)
        <5>1. CASE f.epoch \in DOMAIN epochs
          BY <5>1, <4>1, <4>2, ExceptSeq, LenProperties
        <5>2. CASE f.epoch \notin DOMAIN epochs
          <6>1. epochs = [i \in 1 .. Len(epochs) |-> epochs[i]] /\ DOMAIN epochs = 1 .. Len(epochs)
            BY <4>1, LenProperties
          <6>2. epochs' = epochs
            BY <5>2, <4>1, <6>1
          <6> QED BY <6>2, <4>1
        <5> QED BY <5>1, <5>2
      <4> QED BY <4>3 DEF ET
    <3> QED BY <3>1, <3>2, <3>3, LogGrows DEF IssuanceInv
  <2>9. CASE \/ \E c \in Issuers :
                  \/ IssuerRestart(c) \/ \E approved \in PolicySets : CreatePolicy(c, approved)
                  \/ \E a \in Due : WriteAllocation(c, a)
             \/ AnchorStats \/ AllocatePayouts \/ UNCHANGED ivars
    <3>1. UNCHANGED << quorumLog, epochs >> /\ finalizers' \subseteq finalizers
      BY <2>9 DEF IssuerRestart, CreatePolicy, WriteAllocation, AnchorStats, AllocatePayouts, ivars
    <3> QED BY <3>1, LogUnchanged DEF IssuanceInv
  <2> QED BY <2>1, <2>2, <2>3, <2>4, <2>5, <2>6, <2>7, <2>8, <2>9 DEF IssuanceNext
<1>3. IssuanceInv => FinalHasQuorum
  BY DEF IssuanceInv, FinalHasQuorum, Committed, RecordOk, Approved, RecordsOf
<1> QED BY <1>1, <1>2, <1>3, PTL DEF IssuanceSpec

-----------------------------------------------------------------------------
(***************************************************************************)
(* Tunnels. Two agents are connected over a tunnel that is there; invites  *)
(* still under way must be of the tunnel of their pair, if it is still     *)
(* there (MeshInv), so that accepting a stale one connects nobody.         *)
(***************************************************************************)
(* An invite that is still good is one to the tunnel of its two agents.    *)
InviteOk(a, i) ==
    i.kind = "invite" =>
      /\ i.peer \in Agents /\ i.token \in usedTokens
      /\ i.token \in DOMAIN tunnels => Ends(i.token) = PairKey(a, i.peer)

MeshTypes ==
    /\ DOMAIN invites = Agents /\ DOMAIN notices = Agents /\ DOMAIN todo = Agents
    /\ connected \in [Agents -> SUBSET Agents]
    /\ DOMAIN tunnelOfPair = Pairs
    /\ usedTokens \subseteq Tokens /\ DOMAIN tunnels \subseteq usedTokens

(* The tunnels and the table of pairs agree, invites are right wherever    *)
(* they are, and what is connected is so over a tunnel.                    *)
MeshInv ==
    /\ MeshTypes
    /\ \A t \in DOMAIN tunnels : Ends(t) \in Pairs /\ tunnelOfPair[Ends(t)] = t
    /\ \A a \in Agents : \A i \in invites[a] \union todo[a] : InviteOk(a, i)
    /\ \A a \in Agents : \A n \in notices[a] : n.kind = "close"
    /\ ConnectedOverTunnel

(* The key of two different agents is one of the pairs.                    *)
LEMMA PairInPairs ==
    ASSUME NEW a \in Agents, NEW b \in Agents, a # b
    PROVE  PairKey(a, b) \in Pairs
BY DEF PairKey, Pairs

(* Steps that leave the coordinator's records of tunnels alone.            *)
LEMMA RecordsStay ==
    ASSUME MeshInv, UNCHANGED << tunnels, tunnelOfPair, connected, usedTokens >>,
           DOMAIN invites' = Agents, DOMAIN notices' = Agents, DOMAIN todo' = Agents,
           \A a \in Agents : \A i \in invites'[a] \union todo'[a] :
              i \in invites[a] \union todo[a] \/ i.kind = "close",
           \A a \in Agents : \A n \in notices'[a] : n \in notices[a]
    PROVE  MeshInv'
<1>1. /\ MeshTypes'
      /\ (\A t \in DOMAIN tunnels : Ends(t) \in Pairs /\ tunnelOfPair[Ends(t)] = t)'
      /\ (\A a \in Agents : \A n \in notices[a] : n.kind = "close")'
      /\ ConnectedOverTunnel'
  BY DEF MeshInv, MeshTypes, ConnectedOverTunnel, Ends
<1>2. ASSUME NEW a \in Agents, NEW i \in invites'[a] \union todo'[a] PROVE InviteOk(a, i)'
  <2>1. CASE i.kind = "close"
    BY <2>1 DEF InviteOk
  <2>2. CASE i \in invites[a] \union todo[a]
    BY <2>2 DEF MeshInv, InviteOk, Ends
  <2> QED BY <2>1, <2>2
<1> QED BY <1>1, <1>2 DEF MeshInv

(* Closing or cleaning up: everything about the pair goes together.        *)
LEMMA RemoveKeeps ==
    ASSUME MeshInv, NEW t \in DOMAIN tunnels, RemoveTunnel(t),
           UNCHANGED << invites, todo, usedTokens >>, DOMAIN notices' = Agents,
           \A a \in Agents : \A n \in notices'[a] : n.kind = "close"
    PROVE  MeshInv'
<1> USE DEF MeshInv
<1>1. /\ DOMAIN tunnels' = DOMAIN tunnels \ {t}
      /\ \A s \in DOMAIN tunnels' : tunnels'[s] = tunnels[s]
      /\ DOMAIN tunnelOfPair' = Pairs /\ tunnelOfPair'[Ends(t)] = NoToken
      /\ \A p \in Pairs \ {Ends(t)} : tunnelOfPair'[p] = tunnelOfPair[p]
  BY DEF RemoveTunnel, MeshTypes
<1>2. /\ connected' \in [Agents -> SUBSET Agents]
      /\ \A a \in Agents : connected'[a] = IF a \in Ends(t) THEN connected[a] \ Ends(t) ELSE connected[a]
  BY DEF RemoveTunnel, MeshTypes
<1>3. MeshTypes'
  BY <1>1, <1>2 DEF MeshTypes
<1>4. ASSUME NEW s \in DOMAIN tunnels' PROVE Ends(s)' = Ends(s) /\ Ends(s) \in Pairs
             /\ tunnelOfPair'[Ends(s)] = s
  BY <1>1 DEF Ends
<1>5. ASSUME NEW a \in Agents, NEW b \in Agents, b \in connected'[a]
      PROVE  a \in connected'[b] /\ tunnelOfPair'[PairKey(a, b)] # NoToken
  <2>1. b \in connected[a] /\ a \in connected[b] /\ tunnelOfPair[PairKey(a, b)] # NoToken
    BY <1>2, <1>5 DEF ConnectedOverTunnel
  <2>2. PairKey(a, b) # Ends(t)
    <3> SUFFICES ASSUME PairKey(a, b) = Ends(t) PROVE FALSE
      OBVIOUS
    <3>1. a \in Ends(t) /\ b \in Ends(t)
      BY DEF PairKey
    <3> QED BY <1>2, <1>5, <3>1
  <2>3. a \in connected'[b]
    <3>1. ~(a \in Ends(t) /\ b \in Ends(t))
      BY <1>2, <1>5
    <3> QED BY <2>1, <3>1, <1>2
  <2>4. tunnelOfPair'[PairKey(a, b)] = tunnelOfPair[PairKey(a, b)]
    BY <2>2 DEF RemoveTunnel, MeshTypes
  <2> QED BY <2>1, <2>3, <2>4
<1>6. ASSUME NEW a \in Agents, NEW i \in invites[a] \union todo[a] PROVE InviteOk(a, i)'
  BY <1>1, <1>4 DEF InviteOk
<1> QED BY <1>3, <1>4, <1>5, <1>6 DEF ConnectedOverTunnel

(* A new tunnel takes a token and a pair that have none.                   *)
LEMMA ConnectKeeps ==
    ASSUME MeshInv, NEW a \in Agents, NEW b \in Agents, NEW t \in Tokens, Connect(a, b, t)
    PROVE  MeshInv'
<1> USE DEF MeshInv
<1>1. CASE ExistingTunnel(a, b) # NoToken
  <2>1. UNCHANGED << tunnels, tunnelOfPair, connected, usedTokens, invites, notices, todo >>
    BY <1>1 DEF Connect
  <2> QED BY <2>1, RecordsStay DEF MeshTypes
<1>2. CASE ExistingTunnel(a, b) = NoToken
  <2> DEFINE i0 == [kind |-> "invite", peer |-> a, token |-> t]
  <2>1. /\ t \notin usedTokens /\ usedTokens' = usedTokens \union {t} /\ a # b
        /\ tunnels' = [s \in DOMAIN tunnels \union {t} |->
                         IF s = t THEN [from |-> a, to |-> b] ELSE tunnels[s]]
        /\ tunnelOfPair' = [tunnelOfPair EXCEPT ![PairKey(a, b)] = t]
        /\ invites' = [invites EXCEPT ![b] = @ \union {i0}]
        /\ UNCHANGED << connected, notices, todo >>
    BY <1>2 DEF Connect, Wants
  <2>2. i0.kind = "invite" /\ i0.peer = a /\ i0.token = t
    OBVIOUS
  <2> HIDE DEF i0
  <2>3. PairKey(a, b) \in Pairs
    BY <2>1, PairInPairs
  <2>4. /\ DOMAIN tunnels' = DOMAIN tunnels \union {t}
        /\ \A s \in DOMAIN tunnels : s # t /\ tunnels'[s] = tunnels[s]
        /\ tunnels'[t].from = a /\ tunnels'[t].to = b
        /\ DOMAIN tunnelOfPair' = Pairs /\ tunnelOfPair'[PairKey(a, b)] = t
        /\ \A p \in Pairs \ {PairKey(a, b)} : tunnelOfPair'[p] = tunnelOfPair[p]
    BY <2>1, <2>3 DEF MeshTypes
  <2>5. MeshTypes'
    BY <2>1, <2>4 DEF MeshTypes
  <2>6. Ends(t)' = PairKey(a, b)
    BY <2>4 DEF Ends
  <2>7. ASSUME NEW s \in DOMAIN tunnels PROVE Ends(s)' = Ends(s) /\ Ends(s) # PairKey(a, b)
    <3>1. s \in Tokens /\ tunnelOfPair[Ends(s)] = s /\ s # NoToken
      BY AgentMeshAssumption DEF MeshTypes
    <3>2. tunnelOfPair[PairKey(a, b)] = NoToken
      BY <1>2 DEF ExistingTunnel
    <3> QED BY <3>1, <3>2, <2>4 DEF Ends
  <2>8. \A s \in DOMAIN tunnels' : Ends(s)' \in Pairs /\ tunnelOfPair'[Ends(s)'] = s
    BY <2>3, <2>4, <2>6, <2>7
  <2>9. t # NoToken
    BY AgentMeshAssumption
  <2>10. ConnectedOverTunnel'
    <3> SUFFICES ASSUME NEW x \in Agents, NEW y \in Agents, y \in connected[x]
                 PROVE  x \in connected[y] /\ tunnelOfPair'[PairKey(x, y)] # NoToken
      BY <2>1 DEF ConnectedOverTunnel
    <3>1. x \in connected[y] /\ tunnelOfPair[PairKey(x, y)] # NoToken
      BY DEF ConnectedOverTunnel
    <3>2. tunnelOfPair'[PairKey(x, y)] \in {t, tunnelOfPair[PairKey(x, y)]}
      BY <2>1 DEF MeshTypes
    <3> QED BY <3>1, <3>2, <2>9
  <2>11. ASSUME NEW x \in Agents, NEW i \in invites'[x] \union todo'[x] PROVE InviteOk(x, i)'
    <3>1. CASE i = i0 /\ x = b
      <4>1. PairKey(a, b) = PairKey(b, a)
        BY DEF PairKey
      <4> QED BY <3>1, <2>1, <2>2, <2>6, <4>1 DEF InviteOk
    <3>2. CASE i \in invites[x] \union todo[x]
      <4>1. InviteOk(x, i)
        BY <3>2
      <4> QED BY <4>1, <2>1, <2>4, <2>7 DEF InviteOk
    <3> QED BY <2>1, <2>11, <3>1, <3>2 DEF MeshTypes
  <2> QED BY <2>1, <2>5, <2>8, <2>10, <2>11
<1> QED BY <1>1, <1>2

(* An invite is accepted only while its tunnel is there.                   *)
LEMMA AcceptKeeps ==
    ASSUME MeshInv, NEW a \in Agents, NEW i \in todo[a], Accept(a, i)
    PROVE  MeshInv'
<1> USE DEF MeshInv
<1>1. CASE i.token \in DOMAIN tunnels /\ a \notin banned
  <2>1. /\ connected' = [connected EXCEPT ![a] = @ \union {i.peer}, ![i.peer] = @ \union {a}]
        /\ todo' = [todo EXCEPT ![a] = @ \ {i}] /\ i.kind = "invite"
        /\ UNCHANGED << tunnels, tunnelOfPair, invites, notices, usedTokens >>
    BY <1>1 DEF Accept
  <2>2. InviteOk(a, i)
    OBVIOUS
  <2>3. i.peer \in Agents /\ Ends(i.token) = PairKey(a, i.peer)
    BY <1>1, <2>1, <2>2 DEF InviteOk
  <2>4. tunnelOfPair[PairKey(a, i.peer)] # NoToken
    BY <1>1, <2>3, AgentMeshAssumption DEF MeshTypes
  <2>5. connected' \in [Agents -> SUBSET Agents]
        /\ \A x, y \in Agents : y \in connected'[x] <=>
             y \in connected[x] \/ (x = a /\ y = i.peer) \/ (x = i.peer /\ y = a)
    BY <2>1, <2>3 DEF MeshTypes
  <2>6. PairKey(a, i.peer) = PairKey(i.peer, a)
    BY DEF PairKey
  <2>7. ConnectedOverTunnel'
    BY <2>1, <2>3, <2>4, <2>5, <2>6 DEF ConnectedOverTunnel
  <2>8. MeshTypes'
    BY <2>1, <2>5 DEF MeshTypes
  <2>9. \A x \in Agents : \A j \in invites'[x] \union todo'[x] : InviteOk(x, j)'
    BY <2>1 DEF InviteOk, MeshTypes, Ends
  <2> QED BY <2>1, <2>7, <2>8, <2>9 DEF Ends
<1>2. CASE ~(i.token \in DOMAIN tunnels /\ a \notin banned)
  <2>1. /\ todo' = [todo EXCEPT ![a] = {}]
        /\ UNCHANGED << tunnels, tunnelOfPair, connected, invites, notices, usedTokens >>
    BY <1>2 DEF Accept
  <2> QED BY <2>1, RecordsStay DEF MeshTypes
<1> QED BY <1>1, <1>2

(* For any agents, tokens and offers, and however invites, closes, cleanup *)
(* and lost answers cross: what a coordinator lists as connected is so in  *)
(* both directions and over a tunnel.                                      *)
THEOREM NoHalfConnection == AgentMeshSpec => []ConnectedOverTunnel
<1>1. AgentMeshInit => MeshInv
  BY DEF AgentMeshInit, MeshInv, MeshTypes, InviteOk, ConnectedOverTunnel
<1>2. MeshInv /\ [AgentMeshNext]_mvars => MeshInv'
  <2> SUFFICES ASSUME MeshInv, [AgentMeshNext]_mvars PROVE MeshInv'
    OBVIOUS
  <2>1. ASSUME NEW a \in Agents, Heartbeat(a) PROVE MeshInv'
    <3>1. /\ invites' = [invites EXCEPT ![a] = {}] /\ notices' = [notices EXCEPT ![a] = {}]
          /\ todo' = todo \/ todo' = [todo EXCEPT ![a] = invites[a] \union notices[a]]
          /\ UNCHANGED << tunnels, tunnelOfPair, connected, usedTokens >>
      BY <2>1 DEF Heartbeat
    <3>2. DOMAIN invites' = Agents /\ DOMAIN notices' = Agents /\ DOMAIN todo' = Agents
      BY <3>1 DEF MeshInv, MeshTypes
    <3>3. ASSUME NEW b \in Agents, NEW i \in invites'[b] \union todo'[b]
          PROVE  i \in invites[b] \union todo[b] \/ i.kind = "close"
      BY <3>1 DEF MeshInv, MeshTypes
    <3>4. \A b \in Agents : \A n \in notices'[b] : n \in notices[b]
      BY <3>1 DEF MeshInv, MeshTypes
    <3> QED BY <3>1, <3>2, <3>3, <3>4, RecordsStay
  <2>2. ASSUME NEW a \in Agents, NEW n \in todo[a], TakeNotice(a, n) PROVE MeshInv'
    <3>1. /\ todo' = [todo EXCEPT ![a] = @ \ {n}]
          /\ notices' = [notices EXCEPT ![a] = {m \in @ : m.token # n.token}]
          /\ UNCHANGED << tunnels, tunnelOfPair, connected, invites, usedTokens >>
      BY <2>2 DEF TakeNotice
    <3> QED BY <3>1, RecordsStay DEF MeshInv, MeshTypes
  <2>3. ASSUME NEW a \in Agents, NEW i \in todo[a], Accept(a, i) PROVE MeshInv'
    BY <2>3, AcceptKeeps
  <2>4. ASSUME NEW a \in Agents, NEW b \in Agents, NEW t \in Tokens, Connect(a, b, t) PROVE MeshInv'
    BY <2>4, ConnectKeeps
  <2>5. ASSUME NEW a \in Agents, NEW t \in DOMAIN tunnels, Close(a, t) PROVE MeshInv'
    <3>1. /\ RemoveTunnel(t) /\ UNCHANGED << invites, todo, usedTokens >>
          /\ \E b : notices' = [notices EXCEPT ![b] = @ \union {[kind |-> "close", peer |-> a, token |-> t]}]
      BY <2>5 DEF Close
    <3> DEFINE n0 == [kind |-> "close", peer |-> a, token |-> t]
    <3>2. n0.kind = "close" /\ \E b : notices' = [notices EXCEPT ![b] = @ \union {n0}]
      BY <3>1
    <3> HIDE DEF n0
    <3>3. DOMAIN notices' = Agents /\ \A b \in Agents : \A n \in notices'[b] : n.kind = "close"
      BY <3>2 DEF MeshInv, MeshTypes
    <3> QED BY <3>1, <3>3, RemoveKeeps
  <2>6. ASSUME NEW t \in DOMAIN tunnels, CleanupTunnel(t) PROVE MeshInv'
    <3>1. RemoveTunnel(t) /\ UNCHANGED << invites, todo, usedTokens, notices >>
      BY <2>6 DEF CleanupTunnel
    <3> QED BY <3>1, RemoveKeeps DEF MeshInv, MeshTypes
  <2>7. ASSUME NEW a \in Agents,
               \/ Ban(a) \/ AgentRestarts(a)
               \/ \E b \in Agents : RelayRefused(a, b) \/ \E o \in Offers : OfferWork(a, b, o)
               \/ \E o \in Offers : AcceptWork(a, o)
        PROVE  MeshInv'
    <3>1. /\ UNCHANGED << tunnels, tunnelOfPair, connected, usedTokens, invites, notices >>
          /\ todo' = todo \/ todo' = [todo EXCEPT ![a] = {}]
      BY <2>7 DEF Ban, AgentRestarts, RelayRefused, OfferWork, AcceptWork, tunnelVars
    <3> QED BY <3>1, RecordsStay DEF MeshInv, MeshTypes
  <2>8. CASE UNCHANGED mvars \/ \E r \in running : WorkResult(r)
    <3>1. UNCHANGED << tunnels, tunnelOfPair, connected, usedTokens, invites, notices, todo >>
      BY <2>8 DEF mvars, WorkResult, tunnelVars
    <3> QED BY <3>1, RecordsStay DEF MeshInv, MeshTypes
  <2> QED BY <2>1, <2>2, <2>3, <2>4, <2>5, <2>6, <2>7, <2>8 DEF AgentMeshNext
<1>3. MeshInv => ConnectedOverTunnel
  BY DEF MeshInv
<1> QED BY <1>1, <1>2, <1>3, PTL DEF AgentMeshSpec

-----------------------------------------------------------------------------
(***************************************************************************)
(* Gossip. The remembered ids are the last ones taken in, as many as fit,  *)
(* and all different (LastTaken); so between two times a message is taken  *)
(* in, as many others were as the list holds (Once).                       *)
(***************************************************************************)
(* The remembered ids are the last ones taken in, as many as fit, and all  *)
(* different.                                                              *)
LastTaken(ids, tk) ==
    /\ ids \in Seq(Msgs) /\ tk \in Seq(Msgs)
    /\ Len(ids) <= Len(tk) /\ Len(ids) <= SeenLimit
    /\ Len(ids) < SeenLimit => Len(ids) = Len(tk)
    /\ \A p \in 1 .. Len(ids) : ids[p] = tk[Len(tk) - Len(ids) + p]
    /\ \A p, q \in 1 .. Len(ids) : ids[p] = ids[q] => p = q

Once(tk) ==
    \A i, j \in DOMAIN tk :
      i < j /\ tk[i] = tk[j] => Cardinality({tk[l] : l \in i + 1 .. j - 1}) >= SeenLimit

GossipInv ==
    /\ seen = [c \in GNodes |-> seen[c]] /\ taken = [c \in GNodes |-> taken[c]]
    /\ \A c \in GNodes : LastTaken(seen[c], taken[c]) /\ Once(taken[c])
    /\ \A k \in copies : k.msg \in Msgs

(* Remembering one more id drops at most the oldest.                       *)
LEMMA RememberSlides ==
    ASSUME NEW ids, NEW tk, LastTaken(ids, tk), NEW m \in Msgs, ~Contains(ids, m)
    PROVE  LastTaken(Remember(ids, m), Append(tk, m))
<1> DEFINE k == Len(ids)
           n == Len(tk)
           more == Append(ids, m)
           longer == Append(tk, m)
<1>1. /\ SeenLimit \in Nat /\ k \in Nat /\ n \in Nat /\ k <= n /\ k <= SeenLimit
      /\ k < SeenLimit => k = n
      /\ \A p \in 1 .. k : ids[p] = tk[n - k + p]
      /\ \A p, q \in 1 .. k : ids[p] = ids[q] => p = q
      /\ \A p \in 1 .. k : ids[p] # m
  BY GossipAssumption, SMTT(60) DEF LastTaken, Contains
<1>2. /\ longer \in Seq(Msgs) /\ Len(longer) = n + 1
      /\ \A p \in 1 .. n : longer[p] = tk[p]
      /\ longer[n + 1] = m
  BY DEF LastTaken
<1>3. /\ more \in Seq(Msgs) /\ Len(more) = k + 1
      /\ \A p \in 1 .. k : more[p] = ids[p]
      /\ more[k + 1] = m
  BY DEF LastTaken
<1>4. CASE k + 1 > SeenLimit
  <2>1. Remember(ids, m) = Tail(more)
    BY <1>4 DEF Remember
  <2>2. /\ Tail(more) \in Seq(Msgs) /\ Len(Tail(more)) = k
        /\ \A p \in 1 .. k : Tail(more)[p] = more[p + 1]
    <3> HIDE DEF k, more
    <3>1. more # << >>
      BY <1>1, <1>3
    <3> QED BY <1>1, <1>3, <3>1
  <2> DEFINE kept == Tail(more)
  <2> HIDE DEF k, n, more, longer, kept
  <2>3. \A p \in 1 .. k : kept[p] = longer[(n + 1) - k + p]
    <3> SUFFICES ASSUME NEW p \in 1 .. k PROVE kept[p] = longer[(n + 1) - k + p]
      OBVIOUS
    <3>1. CASE p = k
      BY <3>1, <1>1, <1>2, <1>3, <2>2 DEF kept
    <3>2. CASE p # k
      <4>1. p + 1 \in 1 .. k /\ n - k + (p + 1) \in 1 .. n /\ n - k + (p + 1) = (n + 1) - k + p
        BY <3>2, <1>1
      <4>2. kept[p] = more[p + 1]
        BY <2>2 DEF kept
      <4>3. more[p + 1] = tk[n - k + (p + 1)]
        BY <4>1, <1>1, <1>3
      <4>4. longer[n - k + (p + 1)] = tk[n - k + (p + 1)]
        BY <4>1, <1>2
      <4> QED BY <4>1, <4>2, <4>3, <4>4
    <3> QED BY <3>1, <3>2
  <2>4. \A p, q \in 1 .. k : kept[p] = kept[q] => p = q
    <3> SUFFICES ASSUME NEW p \in 1 .. k, NEW q \in 1 .. k, kept[p] = kept[q] PROVE p = q
      OBVIOUS
    <3>1. more[p + 1] = more[q + 1]
      BY <2>2 DEF kept
    <3>2. p + 1 \in 1 .. (k + 1) /\ q + 1 \in 1 .. (k + 1)
      BY <1>1
    <3> QED BY <1>1, <1>3, <3>1, <3>2
  <2>5. kept \in Seq(Msgs) /\ Len(kept) = k
    BY <2>2 DEF kept
  <2>6. Remember(ids, m) = kept
    BY <2>1 DEF kept
  <2>7. LastTaken(kept, longer)
    BY <1>1, <1>2, <1>4, <2>3, <2>4, <2>5 DEF LastTaken
  <2> QED BY <2>6, <2>7 DEF longer
<1>5. CASE ~(k + 1 > SeenLimit)
  <2>1. Remember(ids, m) = more
    BY <1>5 DEF Remember
  <2> HIDE DEF k, n, more, longer
  <2>2. k = n /\ \A p \in 1 .. (k + 1) : more[p] = longer[p]
    BY <1>1, <1>2, <1>3, <1>5
  <2>3. \A p, q \in 1 .. (k + 1) : more[p] = more[q] => p = q
    BY <1>1, <1>3
  <2>4. LastTaken(more, longer)
    BY <1>1, <1>2, <1>3, <1>5, <2>2, <2>3 DEF LastTaken
  <2> QED BY <2>1, <2>4 DEF longer
<1> QED BY <1>4, <1>5

(* An id that is not remembered was last taken in before all of those that *)
(* are.                                                                    *)
LEMMA AppendOnce ==
    ASSUME NEW ids, NEW tk, LastTaken(ids, tk), Once(tk), NEW m \in Msgs, ~Contains(ids, m)
    PROVE  Once(Append(tk, m))
<1> DEFINE k == Len(ids)
           n == Len(tk)
           longer == Append(tk, m)
           Between(s, i, j) == {s[l] : l \in i + 1 .. j - 1}
<1>1. /\ SeenLimit \in Nat /\ k \in Nat /\ n \in Nat /\ k <= n /\ k <= SeenLimit
      /\ k < SeenLimit => k = n
      /\ \A p \in 1 .. k : ids[p] = tk[n - k + p]
      /\ \A p, q \in 1 .. k : ids[p] = ids[q] => p = q
      /\ \A p \in 1 .. k : ids[p] # m
  BY GossipAssumption, SMTT(60) DEF LastTaken, Contains
<1>2. /\ DOMAIN longer = 1 .. (n + 1) /\ DOMAIN tk = 1 .. n
      /\ \A p \in 1 .. n : longer[p] = tk[p]
      /\ longer[n + 1] = m
  BY DEF LastTaken
<1> HIDE DEF k, n, longer
<1>3. SUFFICES ASSUME NEW i \in 1 .. (n + 1), NEW j \in 1 .. (n + 1), i < j, longer[i] = longer[j]
               PROVE  Cardinality({longer[l] : l \in i + 1 .. j - 1}) >= SeenLimit
  BY <1>2 DEF Once, longer
<1>4. {longer[l] : l \in i + 1 .. j - 1} = {tk[l] : l \in i + 1 .. j - 1}
  <2>1. \A l \in i + 1 .. j - 1 : l \in 1 .. n
    BY <1>1
  <2> QED BY <1>2, <2>1
<1>5. CASE j # n + 1
  <2>1. i \in 1 .. n /\ j \in 1 .. n /\ tk[i] = tk[j]
    BY <1>1, <1>2, <1>3, <1>5
  <2>2. Cardinality({tk[l] : l \in i + 1 .. j - 1}) >= SeenLimit
    BY <1>2, <1>3, <2>1, Zenon DEF Once
  <2> QED BY <1>4, <2>2
<1>6. CASE j = n + 1
  <2> DEFINE T == {tk[l] : l \in i + 1 .. j - 1}
             h == [l \in i + 1 .. j - 1 |-> tk[l]]
             g == [p \in 1 .. k |-> ids[p]]
  <2>1. i \in 1 .. n /\ tk[i] = m
    BY <1>1, <1>2, <1>3, <1>6
  <2>2. i <= n - k
    <3> SUFFICES ASSUME i > n - k PROVE FALSE
      BY <1>1
    <3>1. i - (n - k) \in 1 .. k /\ n - k + (i - (n - k)) = i
      BY <1>1, <2>1
    <3> QED BY <1>1, <2>1, <3>1
  <2>3. k = SeenLimit
    BY <1>1, <2>1, <2>2
  <2>4. IsFiniteSet(T)
    <3>1. h \in Surjection(i + 1 .. j - 1, T)
      BY DEF Surjection
    <3>2. IsFiniteSet(i + 1 .. j - 1)
      BY <1>1, FS_Interval
    <3> QED BY <3>1, <3>2, FS_Surjection
  <2>5. g \in Injection(1 .. k, T)
    <3>1. ASSUME NEW p \in 1 .. k PROVE ids[p] \in T
      <4>1. n - k + p \in i + 1 .. j - 1
        BY <1>1, <1>6, <2>1, <2>2
      <4> QED BY <4>1, <1>1
    <3> HIDE DEF T
    <3> QED BY <1>1, <3>1 DEF Injection, IsInjective
  <2>6. Cardinality(1 .. k) = k
    BY <1>1, FS_Interval
  <2>7. Cardinality(1 .. k) <= Cardinality(T)
    BY <2>4, <2>5, FS_Injection
  <2>8. Cardinality(T) \in Nat
    BY <2>4, FS_CardinalityType
  <2> QED BY <1>4, <2>3, <2>6, <2>7, <2>8
<1> QED BY <1>5, <1>6

(* Taking a message in.                                                    *)
LEMMA TakeInKeeps ==
    ASSUME GossipInv, NEW c, NEW m \in Msgs, Ingests(c, m), TakeIn(c, m),
           \A k \in copies' : k.msg \in Msgs
    PROVE  GossipInv'
<1>1. CASE Known(c, m) /\ c \in GNodes
  <2>1. /\ seen' = [seen EXCEPT ![c] = Remember(@, m)] /\ taken' = [taken EXCEPT ![c] = Append(@, m)]
        /\ ~Contains(seen[c], m)
    BY <1>1 DEF TakeIn, Ingests
  <2>2. /\ seen' = [d \in GNodes |-> seen'[d]] /\ taken' = [d \in GNodes |-> taken'[d]]
        /\ seen'[c] = Remember(seen[c], m) /\ taken'[c] = Append(taken[c], m)
        /\ \A d \in GNodes \ {c} : seen'[d] = seen[d] /\ taken'[d] = taken[d]
    BY <1>1, <2>1 DEF GossipInv
  <2>3. LastTaken(seen[c], taken[c]) /\ Once(taken[c])
    BY <1>1 DEF GossipInv
  <2>4. LastTaken(seen'[c], taken'[c]) /\ Once(taken'[c])
    BY <2>1, <2>2, <2>3, RememberSlides, AppendOnce
  <2> QED BY <2>2, <2>4 DEF GossipInv
<1>2. CASE ~(Known(c, m) /\ c \in GNodes)
  <2>1. UNCHANGED << seen, taken >>
    <3>1. CASE Known(c, m)
      <4>1. /\ seen' = [seen EXCEPT ![c] = Remember(@, m)] /\ taken' = [taken EXCEPT ![c] = Append(@, m)]
            /\ c \notin GNodes
        BY <1>2, <3>1 DEF TakeIn
      <4>2. seen = [d \in GNodes |-> seen[d]] /\ taken = [d \in GNodes |-> taken[d]]
        BY DEF GossipInv
      <4>3. seen' = [d \in GNodes |-> seen[d]] /\ taken' = [d \in GNodes |-> taken[d]]
        BY <4>1, <4>2
      <4> QED BY <4>2, <4>3
    <3>2. CASE ~Known(c, m)
      BY <3>2 DEF TakeIn
    <3> QED BY <3>1, <3>2
  <2> QED BY <2>1 DEF GossipInv
<1> QED BY <1>1, <1>2

(* Steps at which nothing is taken in; a node that restarts forgets.       *)
LEMMA NothingTaken ==
    ASSUME GossipInv, UNCHANGED << seen, taken >>, \A k \in copies' : k.msg \in Msgs
    PROVE  GossipInv'
BY DEF GossipInv

(* The memory of ids stays the end of what was taken in, whatever comes.   *)
LEMMA GossipInvariance == GossipSpec => []GossipInv
<1>1. GossipInit => GossipInv
  <2> SUFFICES ASSUME GossipInit PROVE GossipInv
    OBVIOUS
  <2>1. LastTaken(<< >>, << >>) /\ Once(<< >>)
    BY GossipAssumption DEF LastTaken, Once
  <2> QED BY <2>1 DEF GossipInit, GossipInv
<1>2. GossipInv /\ [GossipNext]_gvars => GossipInv'
  <2> SUFFICES ASSUME GossipInv, [GossipNext]_gvars PROVE GossipInv'
    OBVIOUS
  <2>1. ASSUME NEW c \in GNodes, GossipRestart(c) PROVE GossipInv'
    <3>1. LastTaken(<< >>, << >>) /\ Once(<< >>)
      BY GossipAssumption DEF LastTaken, Once
    <3>2. /\ seen' = [seen EXCEPT ![c] = << >>] /\ taken' = [taken EXCEPT ![c] = << >>]
          /\ copies' \subseteq copies
      BY <2>1 DEF GossipRestart
    <3> QED BY <3>1, <3>2 DEF GossipInv
  <2>2. ASSUME NEW c \in GNodes, NEW d \in GNodes,
               BootstrapPeer(c, d) \/ SocketOpens(c, d) \/ SocketCloses(c, d)
        PROVE  GossipInv'
    <3>1. UNCHANGED << seen, taken, copies >>
      BY <2>2 DEF BootstrapPeer, SocketOpens, SocketCloses
    <3> QED BY <3>1, NothingTaken DEF GossipInv
  <2>3. ASSUME NEW m \in Msgs, Broadcasts(m) PROVE GossipInv'
    <3>1. /\ UNCHANGED << seen, taken >>
          /\ copies' = copies \union {Copy(m, d, FirstWay(Sender[m], d), Sender[m]) : d \in peersOf[Sender[m]]}
      BY <2>3 DEF Broadcasts
    <3>2. \A d, way, by : Copy(m, d, way, by).msg = m
      BY DEF Copy
    <3> QED BY <3>1, <3>2, NothingTaken DEF GossipInv
  <2>4. ASSUME NEW k \in copies, Arrives(k) PROVE GossipInv'
    <3>1. /\ Ingests(k.to, k.msg) /\ TakeIn(k.to, k.msg) /\ k.msg \in Msgs
          /\ copies' = (copies \ {k}) \union FanOut(k.to, k.msg)
      BY <2>4 DEF Arrives, GossipInv
    <3>4. \A d, way, by : Copy(k.msg, d, way, by).msg = k.msg
      BY DEF Copy
    <3>2. ASSUME NEW e \in FanOut(k.to, k.msg) PROVE e.msg = k.msg
      <4>1. PICK d : e = Copy(k.msg, d, "ws", k.to)
        BY Zenon DEF FanOut
      <4> QED BY <3>4, <4>1
    <3>3. \A e \in copies' : e.msg \in Msgs
      BY <3>1, <3>2 DEF GossipInv
    <3> QED BY <3>1, <3>3, TakeInKeeps
  <2>5. ASSUME NEW k \in copies, NEW r \in GNodes, Relay(k, r) PROVE GossipInv'
    <3>1. /\ Ingests(r, k.msg) /\ TakeIn(r, k.msg) /\ k.msg \in Msgs
          /\ copies' = (copies \ {k}) \union {Copy(k.msg, k.to, "ws", r)}
      BY <2>5 DEF Relay, GossipInv
    <3>2. Copy(k.msg, k.to, "ws", r).msg = k.msg
      BY DEF Copy
    <3>3. \A e \in copies' : e.msg \in Msgs
      BY <3>1, <3>2 DEF GossipInv
    <3> QED BY <3>1, <3>3, TakeInKeeps
  <2>6. ASSUME NEW k \in copies, Refused(k) \/ CallFails(k) \/ CopyLost(k) PROVE GossipInv'
    <3>1. \A way, by : Copy(k.msg, k.to, way, by).msg = k.msg
      BY DEF Copy
    <3>2. /\ UNCHANGED << seen, taken >>
          /\ \A e \in copies' : e \in copies
               \/ e \in {Copy(k.msg, k.to, way, k.by) : way \in {"relay", "ws"}}
      BY <2>6 DEF Refused, CallFails, CopyLost
    <3> QED BY <3>1, <3>2, NothingTaken DEF GossipInv
  <2>7. CASE UNCHANGED gvars
    BY <2>7, NothingTaken DEF gvars, GossipInv
  <2> QED BY <2>1, <2>2, <2>3, <2>4, <2>5, <2>6, <2>7 DEF GossipNext
<1> QED BY <1>1, <1>2, PTL DEF GossipSpec

(* For any nodes, messages and limits, and however many copies of a        *)
(* message come by whatever ways: it is taken in again only once at least  *)
(* as many others as the memory of ids holds came in between.              *)
THEOREM TakenAgainOnlyAfterOverflow == GossipSpec => []TakenOnce
<1>1. GossipInv => TakenOnce
  BY DEF GossipInv, Once, TakenOnce
<1> QED BY <1>1, GossipInvariance, PTL

(* A list that satisfies Once has no id twice, if all ids fit in memory:   *)
(* of the repetitions one ends first, and between its two ends all ids     *)
(* would have been taken, so that another one ends before it.              *)
LEMMA RoomForAll ==
    ASSUME IsFiniteSet(Msgs), Cardinality(Msgs) <= SeenLimit,
           NEW tk \in Seq(Msgs), Once(tk)
    PROVE  \A i, j \in DOMAIN tk : tk[i] = tk[j] => i = j
<1> DEFINE Repeats == {j \in DOMAIN tk : \E i \in DOMAIN tk : i < j /\ tk[i] = tk[j]}
<1>1. Repeats = {}
  <2> SUFFICES ASSUME Repeats # {} PROVE FALSE
    OBVIOUS
  <2>1. Repeats \subseteq Nat
    OBVIOUS
  <2>2. PICK j \in Repeats : \A k \in Repeats : j <= k
    <3> HIDE DEF Repeats
    <3> QED BY <2>1, LeastMember
  <2>3. PICK i \in DOMAIN tk : i < j /\ tk[i] = tk[j]
    BY <2>2
  <2> DEFINE B == {tk[l] : l \in i + 1 .. j - 1}
  <2>4. i \in Nat /\ j \in DOMAIN tk /\ i + 1 .. j - 1 \subseteq DOMAIN tk
    BY <2>2, <2>3
  <2>5. B \subseteq Msgs
    BY <2>4
  <2>6. Cardinality(B) >= SeenLimit
    BY <2>3, <2>4 DEF Once
  <2> HIDE DEF B
  <2>7. IsFiniteSet(B) /\ Cardinality(B) \in Nat /\ Cardinality(Msgs) \in Nat
    BY <2>5, FS_Subset, FS_CardinalityType
  <2>8. B = Msgs
    <3>1. SUFFICES ASSUME B # Msgs PROVE FALSE
      OBVIOUS
    <3>2. Cardinality(B) < Cardinality(Msgs)
      BY <2>5, <2>7, <3>1, FS_Subset
    <3> QED BY <2>6, <2>7, <3>2, GossipAssumption
  <2>9. PICK l \in i + 1 .. j - 1 : tk[l] = tk[i]
    BY <2>4, <2>8 DEF B
  <2>10. l \in Nat /\ l \in DOMAIN tk /\ i < l /\ l < j
    BY <2>4, <2>9
  <2>11. l \in Repeats
    BY <2>9, <2>10
  <2> HIDE DEF Repeats
  <2> QED BY <2>1, <2>2, <2>10, <2>11
<1> QED BY <1>1

(* What MeshTasks builds on: as long as there are no more messages than    *)
(* SEEN_CACHE_LIMIT, a coordinator takes each in once in its life.         *)
THEOREM TakenOnceWithinMemory ==
    ASSUME IsFiniteSet(Msgs), Cardinality(Msgs) <= SeenLimit
    PROVE  GossipSpec =>
             [](\A c \in GNodes : \A i, j \in DOMAIN taken[c] : taken[c][i] = taken[c][j] => i = j)
<1>1. GossipInv => \A c \in GNodes : \A i, j \in DOMAIN taken[c] : taken[c][i] = taken[c][j] => i = j
  BY RoomForAll DEF GossipInv, LastTaken
<1> QED BY <1>1, GossipInvariance, PTL

-----------------------------------------------------------------------------
(***************************************************************************)
(* Prices. The weighted median is computed along sorted quotes and running *)
(* sums. That quotes can be sorted and that sums add up is shown by        *)
(* induction on their number.                                              *)
(***************************************************************************)
(* The sums of WeightAt, as a function of how many entries are summed.     *)
IsSum(g, n, a) ==
    g = [k \in 0 .. n |-> IF k = 0 THEN 0 ELSE g[k - 1] + a[k]]

LEMMA SumExists ==
    ASSUME NEW a
    PROVE  \A n \in Nat : \E g : IsSum(g, n, a)
<1> DEFINE S == {n \in Nat : \E g : IsSum(g, n, a)}
<1>1. 0 \in S
  <2> DEFINE g == [k \in 0 .. 0 |-> 0]
  <2>1. IsSum(g, 0, a)
    BY DEF IsSum
  <2> HIDE DEF g
  <2> QED BY <2>1
<1>2. ASSUME NEW n \in Nat, n \in S PROVE n + 1 \in S
  <2>1. PICK g : IsSum(g, n, a)
    BY <1>2
  <2> DEFINE h == [k \in 0 .. n + 1 |-> IF k <= n THEN g[k] ELSE g[n] + a[n + 1]]
  <2>2. ASSUME NEW k \in 0 .. n + 1
        PROVE  h[k] = IF k = 0 THEN 0 ELSE h[k - 1] + a[k]
    <3>1. CASE k = 0
      BY <2>1, <3>1 DEF IsSum
    <3>2. CASE k \in 1 .. n
      BY <2>1, <3>2 DEF IsSum
    <3>3. CASE k = n + 1
      BY <3>3
    <3> QED BY <3>1, <3>2, <3>3
  <2>3. IsSum(h, n + 1, a)
    BY <2>2 DEF IsSum
  <2> HIDE DEF h
  <2> QED BY <2>3
<1>3. \A n \in Nat : n \in S
  <2> HIDE DEF S
  <2> QED BY <1>1, <1>2, Induction
<1> QED BY <1>3

(* WeightAt is the last of a series of sums.                               *)
Addend(entries, I, k) == IF k \in I THEN entries[k].weight ELSE 0

Sums(s, entries, I) ==
    /\ s[0] = 0
    /\ \A k \in 1 .. Len(entries) : s[k] = s[k - 1] + Addend(entries, I, k)

Quotes == Seq([value : Nat, weight : Nat \ {0}])

LEMMA WeightIsSum ==
    ASSUME NEW entries \in Quotes, NEW I
    PROVE  \E s : Sums(s, entries, I) /\ WeightAt(entries, I) = s[Len(entries)]
<1> DEFINE n == Len(entries)
           a == [k \in 1 .. n |-> Addend(entries, I, k)]
           Sum(g) == g = [k \in 0 .. n |->
                           IF k = 0 THEN 0 ELSE g[k - 1] + (IF k \in I THEN entries[k].weight ELSE 0)]
           s == CHOOSE g : Sum(g)
<1>1. n \in Nat
  BY DEF Quotes
<1>2. \E g : Sum(g)
  <2>1. PICK g : IsSum(g, n, a)
    <3> HIDE DEF a, n
    <3> QED BY <1>1, SumExists
  <2>2. g = [k \in 0 .. n |-> g[k]]
    BY <2>1 DEF IsSum
  <2>3. ASSUME NEW k \in 0 .. n
        PROVE  g[k] = IF k = 0 THEN 0
                      ELSE g[k - 1] + (IF k \in I THEN entries[k].weight ELSE 0)
    <3>1. CASE k = 0
      BY <2>1, <3>1, <1>1 DEF IsSum
    <3>2. CASE k \in 1 .. n
      <4>1. g[k] = g[k - 1] + a[k]
        <5> HIDE DEF a, n
        <5> QED BY <2>1, <3>2, <1>1 DEF IsSum
      <4> QED BY <4>1, <3>2, <1>1 DEF Addend
    <3> QED BY <3>1, <3>2, <1>1
  <2>4. Sum(g)
    BY <2>2, <2>3, Zenon
  <2> HIDE DEF Sum
  <2> QED BY <2>4
<1>3. Sum(s)
  <2> HIDE DEF Sum
  <2> QED BY <1>2
<1>4. WeightAt(entries, I) = s[n]
  BY DEF WeightAt
<1>5. Sums(s, entries, I)
  <2> HIDE DEF s
  <2>1. s[0] = 0
    BY <1>1, <1>3
  <2>2. ASSUME NEW k \in 1 .. n
        PROVE  s[k] = s[k - 1] + Addend(entries, I, k)
    <3>1. k \in 0 .. n /\ k # 0
      BY <1>1
    <3> HIDE DEF n
    <3> QED BY <1>3, <3>1 DEF Addend
  <2> QED BY <2>1, <2>2 DEF Sums
<1> HIDE DEF s
<1> QED BY <1>4, <1>5

LEMMA AddendIsWeight ==
    ASSUME NEW entries \in Quotes, NEW I, NEW k \in 1 .. Len(entries)
    PROVE  entries[k].weight \in Nat \ {0} /\ Addend(entries, I, k) \in Nat
<1>1. entries[k] \in [value : Nat, weight : Nat \ {0}]
  BY ElementOfSeq DEF Quotes
<1> QED BY <1>1 DEF Addend

LEMMA SumStep ==
    ASSUME NEW entries \in Quotes, NEW I, NEW s, Sums(s, entries, I),
           NEW k \in Nat, k + 1 <= Len(entries)
    PROVE  /\ k + 1 \in 1 .. Len(entries) /\ k \in 0 .. Len(entries)
           /\ s[k + 1] = s[k] + Addend(entries, I, k + 1)
<1>1. Len(entries) \in Nat
  BY DEF Quotes
<1>2. k + 1 \in 1 .. Len(entries) /\ k \in 0 .. Len(entries) /\ k + 1 - 1 = k
  BY <1>1
<1>3. s[k + 1] = s[k + 1 - 1] + Addend(entries, I, k + 1)
  BY <1>2 DEF Sums
<1> QED BY <1>2, <1>3

LEMMA SumsAreNat ==
    ASSUME NEW entries \in Quotes, NEW I, NEW s, Sums(s, entries, I)
    PROVE  \A k \in 0 .. Len(entries) : s[k] \in Nat
<1> DEFINE n == Len(entries)
           S == {k \in Nat : k <= n => s[k] \in Nat}
<1>1. n \in Nat /\ 0 \in S
  BY DEF Quotes, Sums
<1>2. ASSUME NEW k \in Nat, k \in S PROVE k + 1 \in S
  <2>1. SUFFICES ASSUME k + 1 <= n PROVE s[k + 1] \in Nat
    OBVIOUS
  <2>2. k + 1 \in 1 .. n /\ k <= n /\ s[k + 1] = s[k] + Addend(entries, I, k + 1)
    BY <2>1, <1>1, SumStep
  <2>3. Addend(entries, I, k + 1) \in Nat
    BY <2>2, AddendIsWeight
  <2> QED BY <1>2, <2>2, <2>3
<1>3. \A k \in Nat : k \in S
  <2> HIDE DEF S
  <2> QED BY <1>1, <1>2, Induction
<1> QED BY <1>1, <1>3

(* Weights of disjoint sets of positions add up.                           *)
LEMMA WeightsAdd ==
    ASSUME NEW entries \in Quotes, NEW I, NEW J, I \cap J = {}
    PROVE  /\ WeightAt(entries, I) \in Nat /\ WeightAt(entries, J) \in Nat
           /\ WeightAt(entries, I \cup J) = WeightAt(entries, I) + WeightAt(entries, J)
<1>1. PICK s : Sums(s, entries, I) /\ WeightAt(entries, I) = s[Len(entries)]
  BY WeightIsSum
<1>2. PICK t : Sums(t, entries, J) /\ WeightAt(entries, J) = t[Len(entries)]
  BY WeightIsSum
<1>3. PICK u : Sums(u, entries, I \cup J) /\ WeightAt(entries, I \cup J) = u[Len(entries)]
  BY WeightIsSum
<1> DEFINE n == Len(entries)
           S == {k \in Nat : k <= n => u[k] = s[k] + t[k]}
<1>4. n \in Nat /\ 0 \in S
  BY <1>1, <1>2, <1>3 DEF Quotes, Sums
<1>5. (\A k \in 0 .. n : s[k] \in Nat) /\ (\A k \in 0 .. n : t[k] \in Nat)
  BY <1>1, <1>2, SumsAreNat
<1>6. ASSUME NEW k \in Nat, k \in S PROVE k + 1 \in S
  <2>1. SUFFICES ASSUME k + 1 <= n PROVE u[k + 1] = s[k + 1] + t[k + 1]
    OBVIOUS
  <2>2. k + 1 \in 1 .. n /\ k \in 0 .. n /\ k <= n
    BY <2>1, <1>4
  <2>3. /\ s[k + 1] = s[k] + Addend(entries, I, k + 1)
        /\ t[k + 1] = t[k] + Addend(entries, J, k + 1)
        /\ u[k + 1] = u[k] + Addend(entries, I \cup J, k + 1)
    BY <2>1, <1>1, <1>2, <1>3, SumStep
  <2>4. /\ Addend(entries, I \cup J, k + 1) = Addend(entries, I, k + 1) + Addend(entries, J, k + 1)
        /\ Addend(entries, I, k + 1) \in Nat /\ Addend(entries, J, k + 1) \in Nat
    <3>1. entries[k + 1].weight \in Nat
      BY <2>2, AddendIsWeight
    <3> QED BY <3>1 DEF Addend
  <2>5. s[k] \in Nat /\ t[k] \in Nat /\ u[k] = s[k] + t[k]
    BY <1>5, <1>6, <2>2
  <2> HIDE DEF n
  <2> QED BY <2>3, <2>4, <2>5
<1>7. \A k \in Nat : k \in S
  <2> HIDE DEF S
  <2> QED BY <1>4, <1>6, Induction
<1>8. u[n] = s[n] + t[n]
  BY <1>4, <1>7
<1> QED BY <1>1, <1>2, <1>3, <1>4, <1>5, <1>8

LEMMA WeightIsNat ==
    ASSUME NEW entries \in Quotes, NEW I
    PROVE  WeightAt(entries, I) \in Nat
BY WeightsAdd, I \cap {} = {}

(* More positions weigh no less, and all together weigh something.         *)
LEMMA WeightGrows ==
    ASSUME NEW entries \in Quotes, NEW I, NEW J, I \subseteq J
    PROVE  WeightAt(entries, I) <= WeightAt(entries, J)
<1>1. I \cup (J \ I) = J
  OBVIOUS
<1>2. /\ WeightAt(entries, I) \in Nat /\ WeightAt(entries, J \ I) \in Nat
      /\ WeightAt(entries, J) = WeightAt(entries, I) + WeightAt(entries, J \ I)
  BY <1>1, WeightsAdd, I \cap (J \ I) = {}
<1> QED BY <1>2

LEMMA NothingWeighsNothing ==
    ASSUME NEW entries \in Quotes
    PROVE  WeightAt(entries, {}) = 0
<1>1. {} \cap {} = {} /\ {} \cup {} = {}
  OBVIOUS
<1>2. /\ WeightAt(entries, {}) \in Nat
      /\ WeightAt(entries, {} \cup {}) = WeightAt(entries, {}) + WeightAt(entries, {})
  BY <1>1, WeightsAdd
<1>3. WeightAt(entries, {}) = WeightAt(entries, {}) + WeightAt(entries, {})
  BY <1>1, <1>2, Zenon
<1>4. \A w \in Nat : w = w + w => w = 0
  OBVIOUS
<1> QED BY <1>2, <1>3, <1>4, Zenon

LEMMA TotalIsPositive ==
    ASSUME NEW entries \in Quotes, entries # << >>
    PROVE  TotalWeight(entries) \in Nat \ {0}
<1> DEFINE n == Len(entries)
<1>1. n \in Nat \ {0} /\ n \in DOMAIN entries /\ n \in 1 .. n /\ n - 1 \in 0 .. n
  BY DEF Quotes
<1>2. PICK s : Sums(s, entries, DOMAIN entries) /\ TotalWeight(entries) = s[n]
  BY WeightIsSum DEF TotalWeight
<1>3. s[n] = s[n - 1] + Addend(entries, DOMAIN entries, n)
  BY <1>1, <1>2 DEF Sums
<1>4. s[n - 1] \in Nat
  BY <1>1, <1>2, SumsAreNat
<1>5. Addend(entries, DOMAIN entries, n) \in Nat \ {0}
  BY <1>1, AddendIsWeight DEF Addend
<1> HIDE DEF n
<1> QED BY <1>2, <1>3, <1>4, <1>5

(* Numbers can be sorted: the least goes first, the last takes its place.  *)
IsOrder(o, n, f) ==
    /\ o \in [1 .. n -> 1 .. n]
    /\ \A i \in 1 .. n : \E j \in 1 .. n : o[j] = i
    /\ \A j, k \in 1 .. n : j < k => f[o[j]] <= f[o[k]]

Sortable(n) == \A f \in [1 .. n -> Nat] : \E o : IsOrder(o, n, f)

LEMMA OneMoreSorts ==
    ASSUME NEW n \in Nat, Sortable(n)
    PROVE  Sortable(n + 1)
<1> SUFFICES ASSUME NEW f \in [1 .. n + 1 -> Nat] PROVE \E q : IsOrder(q, n + 1, f)
  BY DEF Sortable
<1>1. PICK m \in 1 .. n + 1 : \A i \in 1 .. n + 1 : f[m] <= f[i]
  <2> DEFINE T == {f[i] : i \in 1 .. n + 1}
  <2>1. T \subseteq Nat /\ f[1] \in T
    OBVIOUS
  <2>2. PICK x \in T : \A y \in T : x <= y
    <3> HIDE DEF T
    <3> QED BY <2>1, LeastMember
  <2> QED BY <2>2
<1> DEFINE g == [i \in 1 .. n |-> IF i = m THEN f[n + 1] ELSE f[i]]
           h(i) == IF i = m THEN n + 1 ELSE i
<1>2. g \in [1 .. n -> Nat] /\ \A i \in 1 .. n : h(i) \in 1 .. n + 1 /\ f[h(i)] = g[i]
  OBVIOUS
<1>3. PICK o : IsOrder(o, n, g)
  <2> HIDE DEF g
  <2> QED BY <1>2 DEF Sortable
<1> DEFINE q == [j \in 1 .. n + 1 |-> IF j = 1 THEN m ELSE h(o[j - 1])]
<1>4. /\ q[1] = m
      /\ \A j \in 1 .. n : q[j + 1] = h(o[j]) /\ o[j] \in 1 .. n
  <2>1. q[1] = m
    OBVIOUS
  <2>2. ASSUME NEW j \in 1 .. n PROVE q[j + 1] = h(o[j]) /\ o[j] \in 1 .. n
    <3>1. j + 1 \in 1 .. n + 1 /\ j + 1 # 1 /\ j + 1 - 1 = j
      OBVIOUS
    <3>2. q[j + 1] = h(o[j + 1 - 1])
      BY <3>1
    <3> QED BY <3>1, <3>2, <1>3 DEF IsOrder
  <2> QED BY <2>1, <2>2
<1>5. q \in [1 .. n + 1 -> 1 .. n + 1]
  <2>1. \A j \in 1 .. n + 1 : j # 1 => j - 1 \in 1 .. n
    OBVIOUS
  <2>2. \A j \in 1 .. n + 1 : j # 1 => o[j - 1] \in 1 .. n
    BY <2>1, <1>3 DEF IsOrder
  <2> QED BY <2>2
<1>6. ASSUME NEW i \in 1 .. n + 1 PROVE \E j \in 1 .. n + 1 : q[j] = i
  <2>1. CASE i = m
    BY <2>1, <1>4, 1 \in 1 .. n + 1
  <2>2. CASE i # m
    <3>1. PICK e \in 1 .. n : h(e) = i
      BY <2>2
    <3>2. PICK j \in 1 .. n : o[j] = e
      BY <1>3 DEF IsOrder
    <3>3. q[j + 1] = i /\ j + 1 \in 1 .. n + 1
      BY <1>4, <3>1, <3>2
    <3> HIDE DEF q
    <3> QED BY <3>3
  <2> QED BY <2>1, <2>2
<1>7. ASSUME NEW j \in 1 .. n + 1, NEW k \in 1 .. n + 1, j < k
      PROVE  f[q[j]] <= f[q[k]]
  <2>1. CASE j = 1
    BY <2>1, <1>1, <1>4, <1>5
  <2>2. CASE j # 1
    <3>1. PICK a \in 1 .. n, b \in 1 .. n : j = a + 1 /\ k = b + 1 /\ a < b
      <4>1. j - 1 \in 1 .. n /\ k - 1 \in 1 .. n /\ j = j - 1 + 1 /\ k = k - 1 + 1 /\ j - 1 < k - 1
        BY <2>2, <1>7
      <4> QED BY <4>1
    <3>2. q[j] = h(o[a]) /\ q[k] = h(o[b]) /\ o[a] \in 1 .. n /\ o[b] \in 1 .. n
      BY <1>4, <3>1
    <3>3. f[q[j]] = g[o[a]] /\ f[q[k]] = g[o[b]]
      <4> HIDE DEF q, g, h
      <4> QED BY <1>2, <3>2
    <3>4. g[o[a]] <= g[o[b]]
      BY <1>3, <3>1 DEF IsOrder
    <3> QED BY <3>3, <3>4
  <2> QED BY <2>1, <2>2
<1>8. IsOrder(q, n + 1, f)
  <2> HIDE DEF q
  <2> QED BY <1>5, <1>6, <1>7 DEF IsOrder
<1> HIDE DEF q
<1> QED BY <1>8

LEMMA AllSort == \A n \in Nat : Sortable(n)
<1> DEFINE S == {n \in Nat : Sortable(n)}
<1>1. 0 \in S
  <2> SUFFICES ASSUME NEW f \in [1 .. 0 -> Nat] PROVE \E o : IsOrder(o, 0, f)
    BY DEF Sortable
  <2>1. 1 .. 0 = {}
    OBVIOUS
  <2>2. IsOrder([i \in {} |-> i], 0, f)
    BY <2>1 DEF IsOrder
  <2> QED BY <2>2
<1>2. \A n \in Nat : n \in S => n + 1 \in S
  BY OneMoreSorts
<1>3. \A n \in Nat : n \in S
  <2> HIDE DEF S
  <2> QED BY <1>1, <1>2, Induction
<1> QED BY <1>3

LEMMA PriceOrderSorts ==
    ASSUME NEW entries \in Quotes
    PROVE  /\ PriceOrder(entries) \in [DOMAIN entries -> DOMAIN entries]
           /\ IsPriceOrder(PriceOrder(entries), entries)
<1> DEFINE n == Len(entries)
           f == [i \in 1 .. n |-> entries[i].value]
<1>1. n \in Nat /\ DOMAIN entries = 1 .. n
  BY DEF Quotes
<1>2. f \in [1 .. n -> Nat]
  <2>1. \A i \in 1 .. n : entries[i] \in [value : Nat, weight : Nat \ {0}]
    BY ElementOfSeq DEF Quotes
  <2> QED BY <2>1
<1>3. PICK o : IsOrder(o, n, f)
  <2> HIDE DEF f, n
  <2> QED BY <1>1, <1>2, AllSort DEF Sortable
<1>4. o \in [DOMAIN entries -> DOMAIN entries] /\ IsPriceOrder(o, entries)
  <2>1. \A j \in 1 .. n : o[j] \in 1 .. n /\ f[o[j]] = entries[o[j]].value
    BY <1>3 DEF IsOrder
  <2>2. ASSUME NEW j \in 1 .. n, NEW k \in 1 .. n, j < k
        PROVE  entries[o[j]].value <= entries[o[k]].value
    <3>1. f[o[j]] <= f[o[k]]
      BY <1>3, <2>2 DEF IsOrder
    <3> QED BY <2>1, <3>1
  <2> HIDE DEF f, n
  <2>3. o \in [1 .. n -> 1 .. n] /\ \A i \in 1 .. n : \E j \in 1 .. n : o[j] = i
    BY <1>3 DEF IsOrder
  <2> QED BY <1>1, <2>2, <2>3 DEF IsPriceOrder
<1> HIDE DEF f, n
<1> QED BY <1>4 DEF PriceOrder

(* At the least place at which the running sum reaches a half, what is     *)
(* cheaper comes before, what is dearer after it.                          *)
LEMMA WeightedMedianIsMedian ==
    ASSUME NEW entries \in Quotes, entries # << >>
    PROVE  IsMedian(WeightedMedian(entries), entries)
<1> DEFINE n == Len(entries)
           o == PriceOrder(entries)
           total == TotalWeight(entries)
           P(k) == {o[j] : j \in 1 .. k}
           reached == {k \in DOMAIN entries : MedianReached(WeightAt(entries, P(k)), total)}
<1>1. n \in Nat \ {0} /\ DOMAIN entries = 1 .. n
  BY DEF Quotes
<1>2. o \in [1 .. n -> 1 .. n] /\ IsPriceOrder(o, entries)
  BY <1>1, PriceOrderSorts
<1>3. total \in Nat \ {0}
  BY TotalIsPositive
<1>4. \A i \in 1 .. n : entries[i].value \in Nat
  <2>1. \A i \in 1 .. n : entries[i] \in [value : Nat, weight : Nat \ {0}]
    BY ElementOfSeq DEF Quotes
  <2> QED BY <2>1
<1>5. n \in reached
  <2>1. P(n) = DOMAIN entries
    BY <1>1, <1>2 DEF IsPriceOrder
  <2>2. WeightAt(entries, P(n)) = total
    BY <2>1 DEF TotalWeight
  <2> HIDE DEF total, P
  <2> QED BY <1>1, <1>3, <2>2 DEF MedianReached
<1> DEFINE m == Min(reached)
<1>6. m \in reached /\ \A k \in reached : m <= k
  <2>1. reached \subseteq Nat
    BY <1>1
  <2> HIDE DEF reached
  <2>2. \E x \in reached : \A k \in reached : x <= k
    BY <1>5, <2>1, LeastMember
  <2> QED BY <2>2 DEF Min
<1> DEFINE p == entries[o[m]].value
<1>7. WeightedMedian(entries) = p
  BY <1>5 DEF WeightedMedian
<1> HIDE DEF o, m
<1>8. m \in 1 .. n /\ o[m] \in 1 .. n /\ p \in Nat
  BY <1>1, <1>2, <1>4, <1>6
<1>9. 2 * WeightAt(entries, {j \in DOMAIN entries : entries[j].value < p}) < total
  <2> DEFINE cheap == {j \in DOMAIN entries : entries[j].value < p}
  <2>1. cheap \subseteq P(m - 1)
    <3> SUFFICES ASSUME NEW i \in 1 .. n, entries[i].value < p PROVE i \in P(m - 1)
      BY <1>1
    <3>1. PICK j \in 1 .. n : o[j] = i
      BY <1>1, <1>2 DEF IsPriceOrder
    <3>2. j < m
      <4>1. m < j => p <= entries[i].value
        BY <1>1, <1>2, <1>8, <3>1 DEF IsPriceOrder
      <4>2. m = j => p = entries[i].value
        BY <3>1
      <4>3. entries[i].value \in Nat
        BY <1>4
      <4> QED BY <1>8, <4>1, <4>2, <4>3
    <3>3. j \in 1 .. m - 1
      BY <1>8, <3>2
    <3> QED BY <3>1, <3>3
  <2>2. 2 * WeightAt(entries, P(m - 1)) < total
    <3>1. CASE m = 1
      <4>1. P(m - 1) = {}
        BY <3>1
      <4>2. WeightAt(entries, P(m - 1)) = 0
        BY <4>1, NothingWeighsNothing
      <4> HIDE DEF P, total
      <4> QED BY <1>3, <4>2
    <3>2. CASE m # 1
      <4>1. m - 1 \in DOMAIN entries /\ m - 1 \notin reached
        <5>1. m - 1 \in 1 .. n /\ ~(m <= m - 1)
          BY <1>8, <3>2
        <5> HIDE DEF reached
        <5> QED BY <1>1, <1>6, <5>1
      <4>2. ~(2 * WeightAt(entries, P(m - 1)) >= total)
        BY <4>1 DEF MedianReached
      <4>3. WeightAt(entries, P(m - 1)) \in Nat
        BY WeightIsNat
      <4> HIDE DEF P, total
      <4> QED BY <1>3, <4>2, <4>3
    <3> QED BY <3>1, <3>2
  <2>3. WeightAt(entries, cheap) <= WeightAt(entries, P(m - 1))
    <3> HIDE DEF cheap, P
    <3> QED BY <2>1, WeightGrows
  <2>4. WeightAt(entries, cheap) \in Nat /\ WeightAt(entries, P(m - 1)) \in Nat
    BY WeightIsNat
  <2>5. 2 * WeightAt(entries, cheap) < total
    <3> HIDE DEF cheap, P, total
    <3> QED BY <1>3, <2>2, <2>3, <2>4
  <2> QED BY <2>5
<1>10. 2 * WeightAt(entries, {j \in DOMAIN entries : entries[j].value > p}) <= total
  <2> DEFINE dear == {j \in DOMAIN entries : entries[j].value > p}
  <2>1. dear \cap P(m) = {} /\ dear \cup P(m) \subseteq DOMAIN entries
    <3>1. ASSUME NEW j \in 1 .. m PROVE o[j] \in DOMAIN entries /\ ~(entries[o[j]].value > p)
      <4>1. j \in 1 .. n /\ o[j] \in 1 .. n
        BY <1>1, <1>2, <1>8
      <4>2. entries[o[j]].value <= p
        <5>1. CASE j = m
          BY <5>1, <1>8
        <5>2. CASE j < m
          BY <5>2, <1>1, <1>2, <1>8, <4>1 DEF IsPriceOrder
        <5> QED BY <5>1, <5>2, <1>8
      <4>3. entries[o[j]].value \in Nat
        BY <1>4, <4>1
      <4> QED BY <1>1, <1>8, <4>1, <4>2, <4>3
    <3> QED BY <3>1
  <2>2. /\ WeightAt(entries, dear) \in Nat /\ WeightAt(entries, P(m)) \in Nat
        /\ WeightAt(entries, dear \cup P(m)) = WeightAt(entries, dear) + WeightAt(entries, P(m))
    <3> HIDE DEF dear, P
    <3> QED BY <2>1, WeightsAdd
  <2>3. WeightAt(entries, dear \cup P(m)) <= total
    <3> HIDE DEF dear, P
    <3> QED BY <2>1, WeightGrows DEF TotalWeight
  <2>4. 2 * WeightAt(entries, P(m)) >= total
    BY <1>6 DEF MedianReached
  <2>5. 2 * WeightAt(entries, dear) <= total
    <3> HIDE DEF dear, P, total
    <3> QED BY <1>3, <2>2, <2>3, <2>4
  <2> QED BY <2>5
<1> QED
  <2> HIDE DEF p, total
  <2> QED BY <1>7, <1>9, <1>10 DEF IsMedian, total

(* The state of a negotiation: quotes are quotes, the price is a median of *)
(* those it came from.                                                     *)
PricesInv ==
    /\ quotes \in Quotes
    /\ \/ price = << >>
       \/ \E p, from : price = << [agreed |-> p, from |-> from] >> /\ IsMedian(p, from)

LEMMA PricesStep ==
    ASSUME PricesInv, [PricesNext]_prvars
    PROVE  PricesInv'
<1>1. CASE AgreeOnPrice
  <2>1. IsMedian(WeightedMedian(quotes), quotes)
    BY <1>1, WeightedMedianIsMedian DEF PricesInv, AgreeOnPrice
  <2>2. quotes' = << >> /\ price' = << [agreed |-> WeightedMedian(quotes), from |-> quotes] >>
    BY <1>1 DEF AgreeOnPrice
  <2>3. << >> \in Quotes
    BY DEF Quotes
  <2> QED BY <2>1, <2>2, <2>3 DEF PricesInv
<1>2. ASSUME NEW q \in PriceQuotes, QuoteArrives(q) PROVE PricesInv'
  <2>1. Append(quotes, q) \in Quotes
    BY IssuanceAssumption DEF PricesInv, Quotes, IssuanceAssumption
  <2> QED BY <1>2, <2>1 DEF PricesInv, QuoteArrives
<1>3. ASSUME NEW q \in PriceQuotes, ProposePrice(q) PROVE PricesInv'
  <2> DEFINE from == << q >>
  <2>1. from \in Quotes /\ from # << >> /\ DOMAIN from = {1} /\ from[1] = q /\ q.value \in Nat
    BY IssuanceAssumption DEF Quotes, IssuanceAssumption
  <2>2. /\ {j \in DOMAIN from : from[j].value < q.value} = {}
        /\ {j \in DOMAIN from : from[j].value > q.value} = {}
    BY <2>1
  <2>3. WeightAt(from, {}) = 0 /\ TotalWeight(from) \in Nat \ {0}
    BY <2>1, NothingWeighsNothing, TotalIsPositive
  <2> HIDE DEF from
  <2>4. IsMedian(q.value, from)
    <3>1. /\ WeightAt(from, {j \in DOMAIN from : from[j].value < q.value}) = 0
          /\ WeightAt(from, {j \in DOMAIN from : from[j].value > q.value}) = 0
      BY <2>2, <2>3, Zenon
    <3>2. 2 * 0 < TotalWeight(from) /\ 2 * 0 <= TotalWeight(from)
      BY <2>3
    <3> QED BY <3>1, <3>2, Zenon DEF IsMedian
  <2>5. price' = << [agreed |-> q.value, from |-> from] >> /\ quotes' = quotes
    BY <1>3 DEF ProposePrice, from
  <2> QED BY <2>4, <2>5 DEF PricesInv
<1>4. CASE UNCHANGED prvars
  BY <1>4 DEF PricesInv, prvars
<1> QED BY <1>1, <1>2, <1>3, <1>4 DEF PricesNext

(* Whatever prices and weights peers answer, in whatever order and however *)
(* many they are, the price a coordinator agrees on is a weighted median.  *)
THEOREM PricesAreMedians == PricesSpec => []PriceIsMedian
<1>1. PricesInit => PricesInv
  BY DEF PricesInit, PricesInv, Quotes
<1>2. PricesInv /\ [PricesNext]_prvars => PricesInv'
  BY PricesStep
<1>3. PricesInv => PriceIsMedian
  BY DEF PricesInv, PriceIsMedian
<1> QED BY <1>1, <1>2, <1>3, PTL DEF PricesSpec

=============================================================================

---------------------------- MODULE SubtaskLife -----------------------------
(***************************************************************************)
(* What the coordinator's queue promises about the life of a subtask,      *)
(* without agents, claims, envelopes or time: it is accepted, held or open *)
(* to workers; a held one is opened; an open one is closed once, for good, *)
(* by its first result or by a peer; only a result makes a reward due, and *)
(* a due reward is paid once or lost.  SwarmQueue is shown to implement    *)
(* this specification.                                                     *)
(***************************************************************************)
EXTENDS Naturals

CONSTANT Ids    \* subtask ids

VARIABLES
    held,       \* waiting for other subtasks
    open,       \* workers may be given it
    closed,     \* no worker will be given it again
    due,        \* closed by a result, the reward not yet paid
    paid        \* rewards paid for each subtask

lifeVars == << held, open, closed, due, paid >>

LifeInit ==
    /\ held = {} /\ open = {} /\ closed = {} /\ due = {}
    /\ paid = [s \in Ids |-> 0]

Unknown == Ids \ (held \union open \union closed)

Accept(H, O) ==
    /\ held' = held \union H
    /\ open' = open \union O
    /\ UNCHANGED << closed, due, paid >>

(* The first result for s, which opens what waited for it.                 *)
Finish(s, R) ==
    /\ held' = held \ R
    /\ open' = (open \ {s}) \union R
    /\ closed' = closed \union {s}
    /\ due' = due \union {s}
    /\ UNCHANGED paid

(* A result for something that is not open opens what waited for it.       *)
Release(R) ==
    /\ held' = held \ R
    /\ open' = open \union R
    /\ UNCHANGED << closed, due, paid >>

(* A peer has taken s.                                                     *)
GiveUp(s) ==
    /\ open' = open \ {s}
    /\ closed' = closed \union {s}
    /\ UNCHANGED << held, due, paid >>

Reward(s) ==
    /\ due' = due \ {s}
    /\ paid' = [paid EXCEPT ![s] = @ + 1]
    /\ UNCHANGED << held, open, closed >>

LoseReward(s) ==
    /\ due' = due \ {s}
    /\ UNCHANGED << held, open, closed, paid >>

LifeNext ==
    \/ \E H \in SUBSET Unknown : \E O \in SUBSET (Unknown \ H) : Accept(H, O)
    \/ \E R \in SUBSET held : Release(R) \/ \E s \in open : Finish(s, R)
    \/ \E s \in open : GiveUp(s)
    \/ \E s \in due : Reward(s) \/ LoseReward(s)

LifeSpec == LifeInit /\ [][LifeNext]_lifeVars
=============================================================================

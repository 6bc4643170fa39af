---------------------------- MODULE PurchaseLife ----------------------------
(***************************************************************************)
(* What a coordinator promises about a purchase of credits, without a word *)
(* about handlers, loops and writes: an invoice is offered, the account is *)
(* credited, and the books show how it ended.                              *)
(*                                                                         *)
(*  - Only an invoice that was offered is credited.  That it was paid is   *)
(*    no part of the promise: the coordinator believes who says so.        *)
(*  - The node's own reference for an invoice credits once, as long as the *)
(*    coordinator remembers it.  A settlement under another reference is   *)
(*    not recognised as a repetition, and after Forget no one is.          *)
(*  - The books show an invoice as settled only after it was credited, and *)
(*    never again as pending once they have shown how it ended.  They may  *)
(*    say "expired" of one that was settled.                               *)
(*                                                                         *)
(* PaymentIntents implements it: see Purchase there.                       *)
(***************************************************************************)
EXTENDS Naturals

CONSTANTS
    Invoices,     \* the invoices that may be offered
    MaxCredits    \* bound at which the count of credits saturates

VARIABLES
    offered,      \* invoices handed out
    credits,      \* how often each was credited
    spent,        \* invoices credited under their own reference, as remembered
    books         \* what the store shows of each

lifeVars == << offered, credits, spent, books >>

LifeInit ==
    /\ offered = {} /\ spent = {}
    /\ credits = [i \in Invoices |-> 0]
    /\ books = [i \in Invoices |-> "none"]

Offer(i) ==
    /\ i \notin offered
    /\ offered' = offered \union {i}
    /\ books' = [books EXCEPT ![i] = "created"]
    /\ UNCHANGED << credits, spent >>

(* The account is credited, under the invoice's own reference or another.  *)
CreditOnce(i, own) ==
    /\ i \in offered
    /\ own => i \notin spent
    /\ spent' = IF own THEN spent \union {i} ELSE spent
    /\ credits' = [credits EXCEPT ![i] = IF @ < MaxCredits THEN @ + 1 ELSE @]
    /\ UNCHANGED << offered, books >>

Ends(i, how) ==
    /\ i \in offered
    /\ how = "settled" => credits[i] > 0
    /\ books' = [books EXCEPT ![i] = how]
    /\ UNCHANGED << offered, credits, spent >>

(* The coordinator restarts.                                               *)
Forget ==
    /\ spent' = {}
    /\ UNCHANGED << offered, credits, books >>

LifeNext ==
    \/ \E i \in Invoices :
         \/ Offer(i)
         \/ \E own \in BOOLEAN : CreditOnce(i, own)
         \/ \E how \in {"settled", "expired"} : Ends(i, how)
    \/ Forget

LifeSpec == LifeInit /\ [][LifeNext]_lifeVars

=============================================================================

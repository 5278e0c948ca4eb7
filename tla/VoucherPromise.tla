--------------------------- MODULE VoucherPromise ---------------------------
(***************************************************************************)
(* What "Push to Tally" promises the shop, with no queue, agent or timeout *)
(* in sight.  Each document (a finalized invoice or an approved bill) has  *)
(* a number of vouchers in TallyPrime and a state in Metal's book:         *)
(*                                                                         *)
(*   closed     nobody waits for it; a push may be asked for               *)
(*   open       a push is under way, or may have landed unheard            *)
(*   confirmed  Metal has linked it to its voucher (tally_link)            *)
(*                                                                         *)
(* A voucher is saved only for an open document and only once; an open     *)
(* document is closed again only while Tally has nothing.                  *)
(***************************************************************************)
EXTENDS Naturals

CONSTANT Doc

VARIABLES book, vouchers

vars == <<book, vouchers>>

PromiseTypeOK == /\ book \in [Doc -> {"closed", "open", "confirmed"}]
                 /\ vouchers \in [Doc -> 0..1]

Init == /\ book = [d \in Doc |-> "closed"]
        /\ vouchers = [d \in Doc |-> 0]

\* The shop asks for the document to be pushed.
Ask(d) == /\ book[d] = "closed"
          /\ book' = [book EXCEPT ![d] = "open"]
          /\ UNCHANGED vouchers

\* TallyPrime saves the voucher.
Save(d) == /\ book[d] = "open"
           /\ vouchers[d] = 0
           /\ vouchers' = [vouchers EXCEPT ![d] = 1]
           /\ UNCHANGED book

\* Metal learns that the voucher is there.
Confirm(d) == /\ book[d] = "open"
              /\ vouchers[d] = 1
              /\ book' = [book EXCEPT ![d] = "confirmed"]
              /\ UNCHANGED vouchers

\* Metal tells the shop that the push failed for good: Tally has nothing.
Withdraw(d) == /\ book[d] = "open"
               /\ vouchers[d] = 0
               /\ book' = [book EXCEPT ![d] = "closed"]
               /\ UNCHANGED vouchers

Next == \E d \in Doc : Ask(d) \/ Save(d) \/ Confirm(d) \/ Withdraw(d)

Spec == Init /\ [][Next]_vars
=============================================================================

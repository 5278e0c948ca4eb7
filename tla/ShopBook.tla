------------------------------ MODULE ShopBook ------------------------------
(***************************************************************************)
(* The shop's invoices, the customer orders they are made from and the     *)
(* payments received against them, as the HTTP requests of several people  *)
(* change them at once.  Every request is one PostgreSQL transaction at    *)
(* READ COMMITTED (app/db.py: one session per request, autoflush off,      *)
(* committed when the handler returns, rolled back when it raises).  Its   *)
(* steps here are the moments at which it reads what others commit, takes  *)
(* or waits for a row lock, and commits; what it writes is seen by the     *)
(* others at the commit.                                                   *)
(*                                                                         *)
(* A finalize, a delete and every step of an order read their row without  *)
(* a lock and act on that copy; Overlap says whether two of them may do so *)
(* at once on one row.  Payments and numbering take locks, and overlap     *)
(* freely.                                                                 *)
(*                                                                         *)
(* A definition whose comment begins with "Slip" is a deliberate mistake   *)
(* that stands for no code: it takes the place of the definition after it  *)
(* to show that the properties notice it.                                  *)
(***************************************************************************)
EXTENDS Integers, Sequences, FiniteSets, FiniteSetsExt

CONSTANTS Requests,     \* the requests the server works on at once
          Invoices,     \* invoice rows that may be made
          Orders,       \* customer orders
          Payments,     \* payment rows that may be made
          Worths,       \* what a bill may come to
          Amounts,      \* what one allocation of a payment may be
          MaxParts,     \* allocations one payment may name
          Overlap,      \* may unlocked requests overlap on one invoice or order?
          None

ASSUME ConstantsOK ==
  /\ Worths \subseteq Nat \ {0}
  /\ Amounts \subseteq Nat \ {0}
  /\ MaxParts \in Nat
  /\ Overlap \in BOOLEAN
  /\ None \notin Requests \cup Invoices \cup Orders \cup Payments

Series == {"Sales", "Payment"}      \* the rows of number_sequence

VARIABLES
  status,    \* [Invoices -> {"none", "draft", "final", "gone"}]
  worth,     \* what the lines and the discount of the invoice now come to
  number,    \* the number printed on it, 0 while a draft
  total,     \* the grand_total frozen on it
  source,    \* the order its note names, or None
  ostatus,   \* [Orders -> {"new", "accepted", "invoiced", "rejected"}]
  obill,     \* the order's invoice_id, or None
  paid,      \* [Payments -> {"none", "posted", "reversed"}]
  voucher,   \* its voucher_no, 0 before it has one
  parts,     \* its allocations: a sequence of [bill, amount]
  last,      \* number_sequence.last_value
  seqLock,   \* [Series -> Requests \cup {None}]: who holds the row of the series
  rowLock,   \* [Invoices -> Requests \cup {None}]: who holds the row of the invoice
  tx         \* [Requests -> Transactions \cup {Idle}]

invoiceVars == <<status, worth, number, total, source>>
orderVars   == <<ostatus, obill>>
paymentVars == <<paid, voucher, parts>>
lockVars    == <<seqLock, rowLock>>
vars == <<invoiceVars, orderVars, paymentVars, last, lockVars, tx>>

Part == [bill : Invoices, amount : Amounts]

(* What a request carries from one step to the next: the row it works on,  *)
(* the copy of it that it read, the number it claimed, and for a payment   *)
(* the allocations it has still to check and those it has inserted.        *)
Idle == [op |-> "idle"]
Finalizing(i, w) == [op |-> "finalize", bill |-> i, worth |-> w, claim |-> 0]
Deleting(i)      == [op |-> "delete", bill |-> i]
Handling(o, s, act) == [op |-> act, order |-> o, seen |-> s]
Paying(p, todo)  == [op |-> "pay", payment |-> p, todo |-> todo, done |-> <<>>, claim |-> 0]

Working(r) == tx[r].op # "idle"

(* Nobody else is working on this row from a copy it read without a lock. *)
AloneOnBill(i) ==
  Overlap \/ \A r \in Requests : tx[r].op \in {"finalize", "delete"} => tx[r].bill # i
AloneOnOrder(o) ==
  Overlap \/ \A r \in Requests : tx[r].op \in {"make", "accept", "reject"} => tx[r].order # o

(* The transaction ends: its row locks fall, committed or not. *)
Finish(r) ==
  /\ tx' = [tx EXCEPT ![r] = Idle]
  /\ seqLock' = [s \in Series |-> IF seqLock[s] = r THEN None ELSE seqLock[s]]
  /\ rowLock' = [i \in Invoices |-> IF rowLock[i] = r THEN None ELSE rowLock[i]]

-----------------------------------------------------------------------------
(* Money against an invoice. *)

SumOf(ps, i) ==     \* what a sequence of allocations puts against invoice i
  MapThenSumSet(LAMBDA k : ps[k].amount, {k \in DOMAIN ps : ps[k].bill = i})

PaidAmount(i) == MapThenSumSet(LAMBDA p : SumOf(parts[p], i), {p \in Payments : paid[p] = "posted"})

BalanceDue(i) == total[i] - PaidAmount(i)

-----------------------------------------------------------------------------
(* Drafts. *)

NewDraft(i, w, from) ==
  /\ status[i] = "none"
  /\ status' = [status EXCEPT ![i] = "draft"]
  /\ worth' = [worth EXCEPT ![i] = w]
  /\ source' = [source EXCEPT ![i] = from]
  /\ UNCHANGED <<number, total>>

(* A new draft, a copy of another invoice, a photographed slip. *)
CreateDraft(i, w) ==
  /\ NewDraft(i, w, None)
  /\ UNCHANGED <<orderVars, paymentVars, last, lockVars, tx>>

(* The editor saves.  The row is locked from the read to the commit, so    *)
(* the whole request is one step; a save refused as made from a stale copy *)
(* changes nothing.                                                        *)
Save(i, w) ==
  /\ status[i] = "draft"
  /\ rowLock[i] = None
  /\ worth' = [worth EXCEPT ![i] = w]
  /\ UNCHANGED <<status, number, total, source, orderVars, paymentVars, last, lockVars, tx>>

(* No posted payment has an allocation to the invoice. *)
NoMoneyOn(i) ==
  \A p \in Payments : paid[p] = "posted" => \A k \in DOMAIN parts[p] : parts[p][k].bill # i

(* Slip: the delete does not ask whether the invoice is a draft. *)
LoadToDelete_AnyStatus(r, i) ==
  /\ ~Working(r)
  /\ status[i] \in {"draft", "final"}
  /\ NoMoneyOn(i)
  /\ AloneOnBill(i)
  /\ tx' = [tx EXCEPT ![r] = Deleting(i)]
  /\ UNCHANGED <<invoiceVars, orderVars, paymentVars, last, lockVars>>

LoadToDelete(r, i) ==
  /\ ~Working(r)
  /\ status[i] = "draft"
  /\ NoMoneyOn(i)
  /\ AloneOnBill(i)
  /\ tx' = [tx EXCEPT ![r] = Deleting(i)]
  /\ UNCHANGED <<invoiceVars, orderVars, paymentVars, last, lockVars>>

(* The row goes, whatever it has become since it was read; the order it    *)
(* was made from is open again, and an allocation loses its invoice.       *)
CommitDelete(r) ==
  /\ tx[r].op = "delete"
  /\ LET i == tx[r].bill IN
       /\ status[i] # "gone"
       /\ rowLock[i] = None
       /\ status' = [status EXCEPT ![i] = "gone"]
       /\ ostatus' = [o \in Orders |-> IF obill[o] = i THEN "accepted" ELSE ostatus[o]]
       /\ obill' = [o \in Orders |-> IF obill[o] = i THEN None ELSE obill[o]]
       /\ parts' = [p \in Payments |->
                      [k \in DOMAIN parts[p] |->
                         IF parts[p][k].bill = i THEN [parts[p][k] EXCEPT !.bill = None]
                                                 ELSE parts[p][k]]]
  /\ Finish(r)
  /\ UNCHANGED <<worth, number, total, source, paid, voucher, last>>

-----------------------------------------------------------------------------
(* Numbering and finalize. *)

LoadToFinalize(r, i) ==
  /\ ~Working(r)
  /\ status[i] = "draft"
  /\ AloneOnBill(i)
  /\ tx' = [tx EXCEPT ![r] = Finalizing(i, worth[i])]
  /\ UNCHANGED <<invoiceVars, orderVars, paymentVars, last, lockVars>>

(* Slip: the number is taken from a counter outside the transaction. *)
ClaimFrom_OutsideTransaction(r, s) ==
  /\ seqLock[s] = None
  /\ last' = [last EXCEPT ![s] = @ + 1]
  /\ tx' = [tx EXCEPT ![r].claim = last[s] + 1]
  /\ UNCHANGED <<invoiceVars, orderVars, paymentVars, seqLock, rowLock>>

(* The row of the series is locked until the transaction ends, and the     *)
(* number is the one after the last committed.                             *)
ClaimFrom(r, s) ==
  /\ seqLock[s] = None
  /\ seqLock' = [seqLock EXCEPT ![s] = r]
  /\ tx' = [tx EXCEPT ![r].claim = last[s] + 1]
  /\ UNCHANGED <<invoiceVars, orderVars, paymentVars, last, rowLock>>

ClaimNumber(r) ==
  /\ tx[r].op = "finalize"
  /\ tx[r].claim = 0
  /\ ClaimFrom(r, "Sales")

(* The figures of the copy are frozen and the order is invoiced.  The row  *)
(* may have changed since it was read; if it is gone the request fails.    *)
CommitFinalize(r) ==
  /\ tx[r].op = "finalize"
  /\ tx[r].claim # 0
  /\ LET i == tx[r].bill IN
       /\ status[i] # "gone"
       /\ rowLock[i] = None
       /\ status' = [status EXCEPT ![i] = "final"]
       /\ number' = [number EXCEPT ![i] = tx[r].claim]
       /\ total' = [total EXCEPT ![i] = tx[r].worth]
       /\ ostatus' = [o \in Orders |-> IF obill[o] = i THEN "invoiced" ELSE ostatus[o]]
  /\ last' = [last EXCEPT !["Sales"] = tx[r].claim]
  /\ Finish(r)
  /\ UNCHANGED <<worth, source, obill, paymentVars>>

-----------------------------------------------------------------------------
(* Orders. *)

(* Slip: an order is open as long as its status says so. *)
Open_ByStatus(o) == ostatus[o] \in {"new", "accepted"}

Open(o) == ostatus[o] \in {"new", "accepted"} /\ obill[o] = None

LoadOrder(r, o, act) ==
  /\ ~Working(r)
  /\ \/ act = "accept" /\ ostatus[o] = "new"
     \/ act \in {"make", "reject"} /\ Open(o)
  /\ AloneOnOrder(o)
  /\ tx' = [tx EXCEPT ![r] = Handling(o, ostatus[o], act)]
  /\ UNCHANGED <<invoiceVars, orderVars, paymentVars, last, lockVars>>

CommitStatus(r) ==
  /\ tx[r].op \in {"accept", "reject"}
  /\ ostatus' = [ostatus EXCEPT ![tx[r].order] =
                   IF tx[r].op = "accept" THEN "accepted" ELSE "rejected"]
  /\ Finish(r)
  /\ UNCHANGED <<invoiceVars, obill, paymentVars, last>>

CommitMake(r, i, w) ==
  /\ tx[r].op = "make"
  /\ NewDraft(i, w, tx[r].order)
  /\ obill' = [obill EXCEPT ![tx[r].order] = i]
  /\ ostatus' = IF tx[r].seen = "new" THEN [ostatus EXCEPT ![tx[r].order] = "accepted"]
                                      ELSE ostatus
  /\ Finish(r)
  /\ UNCHANGED <<paymentVars, last>>

-----------------------------------------------------------------------------
(* Payments. *)

BeginPayment(r, p, todo) ==
  /\ ~Working(r)
  /\ paid[p] = "none"
  /\ \A q \in Requests : tx[q].op = "pay" => tx[q].payment # p
  /\ tx' = [tx EXCEPT ![r] = Paying(p, todo)]
  /\ UNCHANGED <<invoiceVars, orderVars, paymentVars, last, lockVars>>

Wanted(r) == Head(tx[r].todo)
(* Slip: the allocations of the payment itself are not flushed before the   *)
(* next is checked.                                                        *)
Allowed_WithoutOwn(r) ==
  LET i == Wanted(r).bill IN
  /\ status[i] = "final"
  /\ Wanted(r).amount <= BalanceDue(i)

Allowed(r) ==
  LET i == Wanted(r).bill IN
  /\ status[i] = "final"
  /\ Wanted(r).amount <= BalanceDue(i) - SumOf(tx[r].done, i)

Checking(r) == tx[r].op = "pay" /\ tx[r].todo # <<>>

(* Slip: a row the request has locked itself makes it wait. *)
Allocate_WaitsForItself(r) ==
  /\ Checking(r)
  /\ rowLock[Wanted(r).bill] = None
  /\ Allowed(r)
  /\ rowLock' = [rowLock EXCEPT ![Wanted(r).bill] = r]
  /\ tx' = [tx EXCEPT ![r].done = Append(@, Wanted(r)), ![r].todo = Tail(@)]
  /\ UNCHANGED <<invoiceVars, orderVars, paymentVars, last, seqLock>>

(* Slip: the allocation that was inserted is taken again. *)
Allocate_Again(r) ==
  /\ Checking(r)
  /\ rowLock[Wanted(r).bill] \in {None, r}
  /\ Allowed(r)
  /\ rowLock' = [rowLock EXCEPT ![Wanted(r).bill] = r]
  /\ tx' = [tx EXCEPT ![r].done = Append(@, Wanted(r))]
  /\ UNCHANGED <<invoiceVars, orderVars, paymentVars, last, seqLock>>

(* The invoice of the next allocation is locked, then checked, then the    *)
(* allocation is inserted.                                                 *)
Allocate(r) ==
  /\ Checking(r)
  /\ rowLock[Wanted(r).bill] \in {None, r}
  /\ Allowed(r)
  /\ rowLock' = [rowLock EXCEPT ![Wanted(r).bill] = r]
  /\ tx' = [tx EXCEPT ![r].done = Append(@, Wanted(r)), ![r].todo = Tail(@)]
  /\ UNCHANGED <<invoiceVars, orderVars, paymentVars, last, seqLock>>

ClaimVoucher(r) ==
  /\ tx[r].op = "pay"
  /\ tx[r].todo = <<>>
  /\ tx[r].claim = 0
  /\ ClaimFrom(r, "Payment")

CommitPayment(r) ==
  /\ tx[r].op = "pay"
  /\ tx[r].claim # 0
  /\ LET p == tx[r].payment IN
       /\ paid' = [paid EXCEPT ![p] = "posted"]
       /\ voucher' = [voucher EXCEPT ![p] = tx[r].claim]
       /\ parts' = [parts EXCEPT ![p] = tx[r].done]
  /\ last' = [last EXCEPT !["Payment"] = tx[r].claim]
  /\ Finish(r)
  /\ UNCHANGED <<invoiceVars, orderVars>>

(* A posted payment is reversed; its allocations stay but no longer count. *)
Reverse(p) ==
  /\ paid[p] = "posted"
  /\ paid' = [paid EXCEPT ![p] = "reversed"]
  /\ UNCHANGED <<invoiceVars, orderVars, voucher, parts, last, lockVars, tx>>

-----------------------------------------------------------------------------
(* A transaction that does not commit. *)

RollBack(r) ==
  /\ Finish(r)
  /\ UNCHANGED <<invoiceVars, orderVars, paymentVars, last>>

(* The handler raises: the allocation is not allowed, or the row that a    *)
(* finalize is to write is gone; a delete then finds nothing to delete.    *)
(* (No row left to insert is a bound of the model.)                        *)
Refuse(r) ==
  /\ \/ Checking(r) /\ rowLock[Wanted(r).bill] \in {None, r} /\ ~Allowed(r)
     \/ tx[r].op \in {"finalize", "delete"} /\ status[tx[r].bill] = "gone"
     \/ tx[r].op = "make" /\ \A i \in Invoices : status[i] # "none"
  /\ RollBack(r)

(* The request dies: a broken connection, a restart of the server. *)
Die(r) == Working(r) /\ RollBack(r)

WaitsFor(r, q) ==
  /\ Checking(r)
  /\ q # r
  /\ rowLock[Wanted(r).bill] = q

(* The database breaks a circle of waiting payments at one of them. *)
Victim(r) ==
  /\ \E ring \in SUBSET Requests :
       /\ r \in ring
       /\ \A q \in ring : \E t \in ring : WaitsFor(q, t)
       /\ \A q \in ring : \E t \in ring : WaitsFor(t, q)
  /\ RollBack(r)

-----------------------------------------------------------------------------
Init ==
  /\ status = [i \in Invoices |-> "none"]
  /\ worth = [i \in Invoices |-> 0]
  /\ number = [i \in Invoices |-> 0]
  /\ total = [i \in Invoices |-> 0]
  /\ source = [i \in Invoices |-> None]
  /\ ostatus = [o \in Orders |-> "new"]
  /\ obill = [o \in Orders |-> None]
  /\ paid = [p \in Payments |-> "none"]
  /\ voucher = [p \in Payments |-> 0]
  /\ parts = [p \in Payments |-> <<>>]
  /\ last = [s \in Series |-> 0]
  /\ seqLock = [s \in Series |-> None]
  /\ rowLock = [i \in Invoices |-> None]
  /\ tx = [r \in Requests |-> Idle]

Todos == UNION {[1..n -> Part] : n \in 0..MaxParts}

Start(r) ==
  \/ \E i \in Invoices : LoadToDelete(r, i) \/ LoadToFinalize(r, i)
  \/ \E o \in Orders, act \in {"make", "accept", "reject"} : LoadOrder(r, o, act)
  \/ \E p \in Payments, todo \in Todos : BeginPayment(r, p, todo)

Go(r) ==      \* the request goes on, or fails for a reason of its own
  \/ ClaimNumber(r) \/ CommitFinalize(r)
  \/ CommitDelete(r)
  \/ CommitStatus(r)
  \/ \E i \in Invoices, w \in Worths : CommitMake(r, i, w)
  \/ Allocate(r) \/ ClaimVoucher(r) \/ CommitPayment(r)
  \/ Refuse(r)

Next ==
  \/ \E i \in Invoices, w \in Worths : CreateDraft(i, w) \/ Save(i, w)
  \/ \E r \in Requests : Start(r) \/ Go(r) \/ Die(r) \/ Victim(r)
  \/ \E p \in Payments : Reverse(p)

Spec == Init /\ [][Next]_vars

(* A lock is granted in the order it was asked for, and the deadlock       *)
(* detector runs.                                                          *)
FairSpec == Spec /\ \A r \in Requests : SF_vars(Go(r)) /\ WF_vars(Victim(r))

-----------------------------------------------------------------------------
(* Properties. *)

Final == {i \in Invoices : status[i] = "final"}
Recorded == {p \in Payments : paid[p] # "none"}

(* What the variables hold.  A payment checks each allocation it was asked  *)
(* for once.                                                               *)
Transactions ==
  {Idle}
    \cup [op : {"finalize"}, bill : Invoices, worth : Worths, claim : Nat]
    \cup [op : {"delete"}, bill : Invoices]
    \cup [op : {"make", "accept", "reject"}, order : Orders, seen : {"new", "accepted"}]
    \cup [op : {"pay"}, payment : Payments, todo : Seq(Part), done : Seq(Part), claim : Nat]

OpenPart == [bill : Invoices \cup {None}, amount : Amounts]

TypeOK ==
  /\ status \in [Invoices -> {"none", "draft", "final", "gone"}]
  /\ worth \in [Invoices -> Worths \cup {0}]
  /\ \A i \in Invoices : status[i] = "draft" => worth[i] \in Worths
  /\ number \in [Invoices -> Nat]
  /\ total \in [Invoices -> Worths \cup {0}]
  /\ source \in [Invoices -> Orders \cup {None}]
  /\ ostatus \in [Orders -> {"new", "accepted", "invoiced", "rejected"}]
  /\ obill \in [Orders -> Invoices \cup {None}]
  /\ paid \in [Payments -> {"none", "posted", "reversed"}]
  /\ voucher \in [Payments -> Nat]
  /\ parts \in [Payments -> Seq(OpenPart)]
  /\ last \in [Series -> Nat]
  /\ seqLock \in [Series -> Requests \cup {None}]
  /\ rowLock \in [Invoices -> Requests \cup {None}]
  /\ tx \in [Requests -> Transactions]
  /\ \A r \in Requests : tx[r].op = "pay" => Len(tx[r].done) + Len(tx[r].todo) <= MaxParts

(* models/common.py and finalize.py:105 call the numbers gap-free: the      *)
(* finalized invoices carry 1, 2, 3 ... up to the counter, each once, in   *)
(* spite of requests that claim a number and roll back.                    *)
InvoicesGapFree ==
  /\ {number[i] : i \in Final} = 1..last["Sales"]
  /\ \A i, j \in Final : number[i] = number[j] => i = j

(* models/payment.py:60 says the same of the vouchers of the payments,      *)
(* posted or reversed.                                                     *)
VouchersGapFree ==
  /\ {voucher[p] : p \in Recorded} = 1..last["Payment"]
  /\ \A p, q \in Recorded : voucher[p] = voucher[q] => p = q

(* However many payments are entered at once, in whatever order they lock   *)
(* their invoices, an invoice is never paid beyond what it came to, and    *)
(* money recorded against an invoice keeps an invoice it belongs to        *)
(* (routers/payments.py:141-204).                                          *)
NeverOverpaid ==
  /\ \A i \in Invoices : BalanceDue(i) >= 0
  /\ \A p \in Payments : paid[p] = "posted" =>
       \A k \in DOMAIN parts[p] : parts[p][k].bill \in Final

(* An order is billed once: every draft or invoice made from it is the one  *)
(* it points to, it is invoiced exactly when that one is final, and a      *)
(* rejected order has none (routers/orders.py:452-483).                    *)
BilledOnce ==
  /\ \A i \in Invoices :
       status[i] \in {"draft", "final"} /\ source[i] # None => obill[source[i]] = i
  /\ \A o \in Orders :
       /\ ostatus[o] = "invoiced" <=> obill[o] \in Final
       /\ ostatus[o] = "rejected" => obill[o] = None

(* Two payments that lock the same invoices in opposite orders wait for     *)
(* each other, yet every request ends: it commits, is refused, or is the   *)
(* one the database gives up.                                              *)
EveryRequestEnds == \A r \in Requests : Working(r) ~> ~Working(r)

(* "A finalized invoice is permanent: its number is issued and it may       *)
(* already be in the customer's hands" (routers/invoices.py:831-832).      *)
FinalIsPermanent ==
  [][\A i \in Final : status'[i] = "final" /\ number'[i] = number[i] /\ total'[i] = total[i]]_vars

(* No request works on a copy of invoice i that it read before i was final. *)
Settled(i) ==
  /\ i \in Final
  /\ \A r \in Requests : tx[r].op \in {"finalize", "delete"} => tx[r].bill # i

(* What the code keeps of that promise: whatever overlaps, once every       *)
(* request that read the draft has ended, nothing changes the number or    *)
(* the total of a finalized invoice, nothing removes it, and no request    *)
(* that could do so begins (routers/invoices.py:740, finalize_blockers).   *)
SettledIsPermanent ==
  [][\A i \in Invoices : Settled(i) =>
       Settled(i)' /\ number'[i] = number[i] /\ total'[i] = total[i]]_vars
=============================================================================

--------------------------- MODULE ShopBookProofs ---------------------------
(***************************************************************************)
(* Proofs about ShopBook, for any number of requests, invoices, orders and *)
(* payments.  Whatever overlaps, vouchers are gap-free, and a final        *)
(* invoice that no request still takes for a draft stays as it is; the     *)
(* numbers of invoices, the link between an order and its bill, and what   *)
(* is paid against an invoice need that no two requests work on one draft  *)
(* or one order from unlocked copies at once.                              *)
(***************************************************************************)
EXTENDS ShopBook, DataLemmas, SequenceTheorems

(* What each working request may rely on.                                  *)

VoucherClaims ==      \* the claimed voucher is the next one, behind the lock
  \A r \in Requests : tx[r].op = "pay" =>
    /\ paid[tx[r].payment] = "none"
    /\ tx[r].claim # 0 => /\ seqLock["Payment"] = r
                          /\ tx[r].claim = last["Payment"] + 1
    /\ \A q \in Requests : tx[q].op = "pay" /\ tx[q].payment = tx[r].payment => q = r

NumberClaims ==       \* and so is the claimed number
  \A r \in Requests : tx[r].op = "finalize" /\ tx[r].claim # 0 =>
    /\ seqLock["Sales"] = r
    /\ tx[r].claim = last["Sales"] + 1

DraftsHeld ==         \* a draft read without a lock is still one, and read by nobody else
  \A r \in Requests : tx[r].op \in {"finalize", "delete"} =>
    /\ status[tx[r].bill] = "draft"
    /\ \A q \in Requests :
         tx[q].op \in {"finalize", "delete"} /\ tx[q].bill = tx[r].bill => q = r

OrdersHeld ==         \* an order read without a lock is as it was read
  \A r \in Requests : tx[r].op \in {"make", "accept", "reject"} =>
    /\ ostatus[tx[r].order] = tx[r].seen
    /\ obill[tx[r].order] = None
    /\ \A q \in Requests :
         tx[q].op \in {"make", "accept", "reject"} /\ tx[q].order = tx[r].order => q = r

BillsPointBack ==     \* a bill of an order names it, and a new order has none
  \A o \in Orders :
    /\ obill[o] # None => source[obill[o]] = o /\ status[obill[o]] \in {"draft", "final"}
    /\ ostatus[o] = "new" => obill[o] = None

-----------------------------------------------------------------------------
(* Types. *)

LEMMA TodosAreSequences == \A todo \in Todos : todo \in Seq(Part) /\ Len(todo) <= MaxParts
  BY ConstantsOK DEF Todos

(* The steps of a request touch the types through tx and the locks only in  *)
(* these two ways.                                                         *)
LEMMA FinishType ==
  ASSUME TypeOK, NEW r \in Requests, Finish(r)
  PROVE  /\ tx' \in [Requests -> Transactions]
         /\ \A q \in Requests : tx'[q].op = "pay" => Len(tx'[q].done) + Len(tx'[q].todo) <= MaxParts
         /\ seqLock' \in [Series -> Requests \cup {None}]
         /\ rowLock' \in [Invoices -> Requests \cup {None}]
<1>1. Idle \in Transactions /\ Idle.op # "pay"
  BY DEF Transactions, Idle
<1>2. /\ tx' \in [Requests -> Transactions]
      /\ \A q \in Requests : tx'[q] = IF q = r THEN Idle ELSE tx[q]
  BY <1>1 DEF TypeOK, Finish
<1>3. \A q \in Requests : tx'[q].op = "pay" => Len(tx'[q].done) + Len(tx'[q].todo) <= MaxParts
  BY <1>1, <1>2 DEF TypeOK
<1>4. /\ seqLock' \in [Series -> Requests \cup {None}]
      /\ rowLock' \in [Invoices -> Requests \cup {None}]
  BY DEF TypeOK, Finish
<1> QED BY <1>2, <1>3, <1>4

(* What a request holds, by the kind of work it does. *)
LEMMA Held ==
  ASSUME TypeOK, NEW r \in Requests
  PROVE  /\ tx[r].op = "finalize" =>
              tx[r] \in [op : {"finalize"}, bill : Invoices, worth : Worths, claim : Nat]
         /\ tx[r].op = "delete" => tx[r] \in [op : {"delete"}, bill : Invoices]
         /\ tx[r].op \in {"make", "accept", "reject"} =>
              tx[r] \in [op : {"make", "accept", "reject"}, order : Orders,
                          seen : {"new", "accepted"}]
         /\ tx[r].op = "pay" =>
              tx[r] \in [op : {"pay"}, payment : Payments, todo : Seq(Part), done : Seq(Part),
                          claim : Nat]
<1>1. tx[r] \in Transactions
  BY DEF TypeOK
<1> QED BY <1>1 DEF Transactions, Idle

(* A request that takes a new step carries a transaction of its kind. *)
LEMMA StartType ==
  ASSUME TypeOK, NEW r \in Requests, NEW t \in Transactions,
         t.op = "pay" => Len(t.done) + Len(t.todo) <= MaxParts,
         tx' = [tx EXCEPT ![r] = t]
  PROVE  /\ tx' \in [Requests -> Transactions]
         /\ \A q \in Requests : tx'[q].op = "pay" => Len(tx'[q].done) + Len(tx'[q].todo) <= MaxParts
<1>1. \A q \in Requests : tx'[q] = IF q = r THEN t ELSE tx[q]
  BY DEF TypeOK
<1> QED BY <1>1 DEF TypeOK

(* Rewriting the entries of a payment's allocations keeps them a sequence. *)
LEMMA SeqMap ==
  ASSUME NEW S, NEW T, NEW s \in Seq(S), NEW f, f = [k \in DOMAIN s |-> f[k]],
         \A k \in DOMAIN s : f[k] \in T
  PROVE  f \in Seq(T)
<1>1. PICK n \in Nat : s \in [1..n -> S]
  BY SeqDef
<1>2. f \in [1..n -> T]
  BY <1>1
<1> QED BY <1>2, SeqDef

LEMMA SeqOfMore ==
  ASSUME NEW S, NEW T, S \subseteq T
  PROVE  Seq(S) \subseteq Seq(T)
<1> SUFFICES ASSUME NEW s \in Seq(S) PROVE s \in Seq(T)
  OBVIOUS
<1>1. PICK n \in Nat : s \in [1..n -> S]
  BY SeqDef
<1>2. s \in [1..n -> T]
  BY <1>1
<1> QED BY <1>2, SeqDef

LEMMA DraftType ==
  ASSUME TypeOK, NEW i \in Invoices, NEW w \in Worths, NEW from \in Orders \cup {None},
         NewDraft(i, w, from)
  PROVE  /\ status' \in [Invoices -> {"none", "draft", "final", "gone"}]
         /\ worth' \in [Invoices -> Worths \cup {0}]
         /\ \A j \in Invoices : status'[j] = "draft" => worth'[j] \in Worths
         /\ number' \in [Invoices -> Nat]
         /\ total' \in [Invoices -> Worths \cup {0}]
         /\ source' \in [Invoices -> Orders \cup {None}]
<1>1. /\ status' \in [Invoices -> {"none", "draft", "final", "gone"}]
      /\ worth' \in [Invoices -> Worths \cup {0}]
      /\ source' \in [Invoices -> Orders \cup {None}]
  BY DEF NewDraft, TypeOK
<1>2. \A j \in Invoices : status'[j] = "draft" => worth'[j] \in Worths
  BY DEF NewDraft, TypeOK
<1> QED BY <1>1, <1>2 DEF NewDraft, TypeOK

LEMMA TypeInit == Init => TypeOK
<1> SUFFICES ASSUME Init PROVE TypeOK
  OBVIOUS
<1>1. Idle \in Transactions /\ Idle.op # "pay"
  BY DEF Transactions, Idle
<1>2. <<>> \in Seq(OpenPart)
  OBVIOUS
<1>3. /\ status \in [Invoices -> {"none", "draft", "final", "gone"}]
      /\ \A i \in Invoices : status[i] = "draft" => worth[i] \in Worths
      /\ worth \in [Invoices -> Worths \cup {0}] /\ total \in [Invoices -> Worths \cup {0}]
      /\ number \in [Invoices -> Nat] /\ source \in [Invoices -> Orders \cup {None}]
  BY DEF Init
<1>4. /\ parts \in [Payments -> Seq(OpenPart)]
      /\ paid \in [Payments -> {"none", "posted", "reversed"}]
      /\ voucher \in [Payments -> Nat]
      /\ ostatus \in [Orders -> {"new", "accepted", "invoiced", "rejected"}]
      /\ obill \in [Orders -> Invoices \cup {None}]
  BY <1>2 DEF Init
<1>5. /\ last \in [Series -> Nat] /\ seqLock \in [Series -> Requests \cup {None}]
      /\ rowLock \in [Invoices -> Requests \cup {None}]
      /\ tx \in [Requests -> Transactions] /\ \A r \in Requests : tx[r].op # "pay"
  BY <1>1 DEF Init
<1> QED BY <1>3, <1>4, <1>5 DEF TypeOK

LEMMA TypeStep == TypeOK /\ [Next]_vars => TypeOK'
<1> SUFFICES ASSUME TypeOK, [Next]_vars PROVE TypeOK'
  OBVIOUS
<1> USE DEF invoiceVars, orderVars, paymentVars, lockVars
<1>1. ASSUME NEW i \in Invoices, NEW w \in Worths, CreateDraft(i, w) \/ Save(i, w)
      PROVE  TypeOK'
  <2>1. CASE CreateDraft(i, w)
    BY <2>1, DraftType DEF CreateDraft, TypeOK
  <2>2. CASE Save(i, w)
    BY <2>2 DEF Save, TypeOK
  <2> QED BY <1>1, <2>1, <2>2
<1>2. ASSUME NEW r \in Requests, Start(r) PROVE TypeOK'
  <2>1. ASSUME NEW i \in Invoices, LoadToDelete(r, i) \/ LoadToFinalize(r, i) PROVE TypeOK'
    <3>1. /\ Deleting(i) \in Transactions /\ Deleting(i).op # "pay"
          /\ worth[i] \in Worths => /\ Finalizing(i, worth[i]) \in Transactions
                                    /\ Finalizing(i, worth[i]).op # "pay"
      BY DEF Transactions, Deleting, Finalizing
    <3>2. worth[i] \in Worths
      BY <2>1 DEF TypeOK, LoadToDelete, LoadToFinalize
    <3>3. PICK t \in Transactions : t.op # "pay" /\ tx' = [tx EXCEPT ![r] = t]
      BY <2>1, <3>1, <3>2 DEF LoadToDelete, LoadToFinalize
    <3>4. UNCHANGED <<invoiceVars, orderVars, paymentVars, last, lockVars>>
      BY <2>1 DEF LoadToDelete, LoadToFinalize
    <3> QED BY <3>3, <3>4, StartType DEF TypeOK
  <2>2. ASSUME NEW o \in Orders, NEW act \in {"make", "accept", "reject"}, LoadOrder(r, o, act)
        PROVE  TypeOK'
    <3>1. Handling(o, ostatus[o], act) \in Transactions /\ Handling(o, ostatus[o], act).op # "pay"
      BY <2>2 DEF Transactions, Handling, LoadOrder, Open
    <3> QED BY <2>2, <3>1, StartType DEF LoadOrder, TypeOK
  <2>3. ASSUME NEW p \in Payments, NEW todo \in Todos, BeginPayment(r, p, todo) PROVE TypeOK'
    <3>1. /\ Paying(p, todo) \in Transactions
          /\ Len(Paying(p, todo).done) + Len(Paying(p, todo).todo) <= MaxParts
      BY TodosAreSequences DEF Transactions, Paying
    <3> QED BY <2>3, <3>1, StartType DEF BeginPayment, TypeOK
  <2> QED BY <1>2, <2>1, <2>2, <2>3 DEF Start
<1>3. ASSUME NEW r \in Requests, Go(r) PROVE TypeOK'
  <2>1. ASSUME NEW s \in Series, ClaimFrom(r, s),
               \/ tx[r].op = "finalize"
               \/ tx[r].op = "pay"
        PROVE  TypeOK'
    <3> DEFINE t == [tx[r] EXCEPT !.claim = last[s] + 1]
    <3>1. last[s] + 1 \in Nat
      BY DEF TypeOK
    <3>2. t \in Transactions /\ (t.op = "pay" => Len(t.done) + Len(t.todo) <= MaxParts)
      BY <2>1, <3>1, Held DEF Transactions, TypeOK
    <3>3. tx' = [tx EXCEPT ![r] = t]
      BY <2>1 DEF ClaimFrom
    <3> HIDE DEF t
    <3> QED BY <2>1, <3>2, <3>3, StartType DEF ClaimFrom, TypeOK
  <2>2. CASE ClaimNumber(r) \/ ClaimVoucher(r)
    BY <2>1, <2>2 DEF ClaimNumber, ClaimVoucher, Series
  <2>3. CASE CommitFinalize(r)
    BY <2>3, FinishType, Held DEF CommitFinalize, TypeOK
  <2>4. CASE CommitDelete(r)
    <3> DEFINE without(p) ==
                 [k \in DOMAIN parts[p] |->
                    IF parts[p][k].bill = tx[r].bill THEN [parts[p][k] EXCEPT !.bill = None]
                                                     ELSE parts[p][k]]
    <3>1. ASSUME NEW p \in Payments PROVE without(p) \in Seq(OpenPart)
      <4>1. parts[p] \in Seq(OpenPart)
        BY DEF TypeOK
      <4>2. \A k \in DOMAIN parts[p] : parts[p][k] \in OpenPart
        BY <4>1
      <4>3. \A k \in DOMAIN parts[p] : without(p)[k] \in OpenPart
        BY <4>2 DEF OpenPart
      <4>4. without(p) = [k \in DOMAIN parts[p] |-> without(p)[k]]
        OBVIOUS
      <4> HIDE DEF without
      <4> QED BY <4>1, <4>3, <4>4, SeqMap
    <3>2. parts' = [p \in Payments |-> without(p)]
      BY <2>4 DEF CommitDelete
    <3> HIDE DEF without
    <3>3. parts' \in [Payments -> Seq(OpenPart)]
      BY <3>1, <3>2
    <3> QED BY <2>4, <3>3, FinishType, Held DEF CommitDelete, TypeOK
  <2>5. CASE CommitStatus(r)
    BY <2>5, FinishType, Held DEF CommitStatus, TypeOK
  <2>6. ASSUME NEW i \in Invoices, NEW w \in Worths, CommitMake(r, i, w) PROVE TypeOK'
    BY <2>6, FinishType, Held, DraftType DEF CommitMake, TypeOK
  <2>7. CASE Allocate(r)
    <3> DEFINE t == [tx[r] EXCEPT !.done = Append(@, Wanted(r)), !.todo = Tail(@)]
    <3>1. /\ tx[r].todo \in Seq(Part) /\ tx[r].done \in Seq(Part) /\ tx[r].todo # <<>>
          /\ tx[r] \in [op : {"pay"}, payment : Payments, todo : Seq(Part), done : Seq(Part),
                          claim : Nat]
      BY <2>7, Held DEF Allocate, Checking
    <3>2. /\ Wanted(r) \in Part
          /\ Append(tx[r].done, Wanted(r)) \in Seq(Part) /\ Tail(tx[r].todo) \in Seq(Part)
          /\ Len(Append(tx[r].done, Wanted(r))) + Len(Tail(tx[r].todo))
               = Len(tx[r].done) + Len(tx[r].todo)
      <4>1. /\ Wanted(r) \in Part /\ Tail(tx[r].todo) \in Seq(Part)
            /\ Len(Tail(tx[r].todo)) = Len(tx[r].todo) - 1
        BY <3>1, HeadTailProperties DEF Wanted
      <4>2. /\ Append(tx[r].done, Wanted(r)) \in Seq(Part)
            /\ Len(Append(tx[r].done, Wanted(r))) = Len(tx[r].done) + 1
        BY <3>1, <4>1, AppendProperties
      <4>3. Len(tx[r].todo) \in Nat /\ Len(tx[r].done) \in Nat
        BY <3>1, LenProperties
      <4>4. \A a, b \in Nat : (a + 1) + (b - 1) = a + b
        OBVIOUS
      <4>5. Len(Append(tx[r].done, Wanted(r))) + Len(Tail(tx[r].todo))
              = (Len(tx[r].done) + 1) + (Len(tx[r].todo) - 1)
        BY <4>1, <4>2, Zenon
      <4>6. (Len(tx[r].done) + 1) + (Len(tx[r].todo) - 1) = Len(tx[r].done) + Len(tx[r].todo)
        BY <4>3, <4>4
      <4> QED BY <4>1, <4>2, <4>5, <4>6, Zenon
    <3>3. t \in Transactions /\ Len(t.done) + Len(t.todo) <= MaxParts
      BY <3>1, <3>2 DEF Transactions, TypeOK
    <3>4. tx' = [tx EXCEPT ![r] = t]
      BY <2>7 DEF Allocate
    <3> HIDE DEF t
    <3> QED BY <2>7, <3>3, <3>4, <3>2, StartType DEF Allocate, TypeOK, Part
  <2>8. CASE CommitPayment(r)
    <3>1. Seq(Part) \subseteq Seq(OpenPart)
      BY SeqOfMore DEF Part, OpenPart
    <3> QED BY <2>8, <3>1, FinishType, Held DEF CommitPayment, TypeOK, Series
  <2>9. CASE Refuse(r)
    BY <2>9, FinishType DEF Refuse, RollBack, TypeOK
  <2> QED BY <1>3, <2>2, <2>3, <2>4, <2>5, <2>6, <2>7, <2>8, <2>9 DEF Go
<1>4. ASSUME NEW r \in Requests, Die(r) \/ Victim(r) PROVE TypeOK'
  BY <1>4, FinishType DEF Die, Victim, RollBack, TypeOK
<1>5. ASSUME NEW p \in Payments, Reverse(p) PROVE TypeOK'
  BY <1>5 DEF Reverse, TypeOK
<1>6. CASE UNCHANGED vars
  BY <1>6 DEF vars, TypeOK
<1> QED BY <1>1, <1>2, <1>3, <1>4, <1>5, <1>6 DEF Next

(* Every variable keeps its type. *)
THEOREM TypeCorrect == Spec => []TypeOK
  BY TypeInit, TypeStep, PTL DEF Spec

-----------------------------------------------------------------------------
(* What a step leaves of the requests. *)

(* A request that ends frees its own locks and disturbs no other. *)
LEMMA Finished ==
  ASSUME TypeOK, NEW r \in Requests, Finish(r)
  PROVE  /\ \A q \in Requests : tx'[q] = IF q = r THEN Idle ELSE tx[q]
         /\ tx'[r].op = "idle"
         /\ \A s \in Series, q \in Requests : q # r /\ seqLock[s] = q => seqLock'[s] = q
  BY DEF TypeOK, Finish, Idle

(* A request that begins is the only one changed. *)
LEMMA Begun ==
  ASSUME TypeOK, NEW r \in Requests, NEW t, tx' = [tx EXCEPT ![r] = t]
  PROVE  \A q \in Requests : tx'[q] = IF q = r THEN t ELSE tx[q]
  BY DEF TypeOK

(* A claim changes the claim of its request and takes a free series. *)
LEMMA Claimed ==
  ASSUME TypeOK, NEW r \in Requests, NEW s \in Series, ClaimFrom(r, s),
         tx[r].op \in {"finalize", "pay"}
  PROVE  /\ \A q \in Requests : q # r => tx'[q] = tx[q]
         /\ tx'[r].op = tx[r].op
         /\ tx[r].op = "finalize" => tx'[r].bill = tx[r].bill /\ tx'[r].worth = tx[r].worth
         /\ tx[r].op = "pay" => /\ tx'[r].payment = tx[r].payment /\ tx'[r].done = tx[r].done
                                /\ tx'[r].todo = tx[r].todo
         /\ tx'[r].claim = last[s] + 1
         /\ seqLock[s] = None /\ seqLock'[s] = r
         /\ \A u \in Series : u # s => seqLock'[u] = seqLock[u]
<1>1. /\ tx[r].op = "finalize" => tx[r] \in [op : {"finalize"}, bill : Invoices, worth : Worths,
                                              claim : Nat]
      /\ tx[r].op = "pay" => tx[r] \in [op : {"pay"}, payment : Payments, todo : Seq(Part),
                                         done : Seq(Part), claim : Nat]
  BY Held
<1>2. \A q \in Requests :
        tx'[q] = IF q = r THEN [tx[r] EXCEPT !.claim = last[s] + 1] ELSE tx[q]
  BY DEF ClaimFrom, TypeOK
<1>3. /\ seqLock[s] = None /\ seqLock'[s] = r
      /\ \A u \in Series : u # s => seqLock'[u] = seqLock[u]
  BY DEF ClaimFrom, TypeOK
<1>4. CASE tx[r].op = "finalize"
  BY <1>1, <1>2, <1>3, <1>4
<1>5. CASE tx[r].op = "pay"
  BY <1>1, <1>2, <1>3, <1>5
<1> QED BY <1>4, <1>5

(* An allocation keeps everything of its payment but the work done. *)
LEMMA Allocated ==
  ASSUME TypeOK, NEW r \in Requests, Allocate(r)
  PROVE  /\ \A q \in Requests : q # r => tx'[q] = tx[q]
         /\ tx[r].op = "pay" /\ tx'[r].op = "pay"
         /\ tx'[r].payment = tx[r].payment /\ tx'[r].claim = tx[r].claim
<1>1. tx[r] \in [op : {"pay"}, payment : Payments, todo : Seq(Part), done : Seq(Part),
                  claim : Nat]
  BY Held DEF Allocate, Checking
<1>2. /\ tx'[r] = [tx[r] EXCEPT !.done = Append(@, Wanted(r)), !.todo = Tail(@)]
      /\ \A q \in Requests : q # r => tx'[q] = tx[q]
  BY DEF Allocate, TypeOK
<1> QED BY <1>1, <1>2

-----------------------------------------------------------------------------
(* Vouchers. *)

VoucherInv == TypeOK /\ VoucherClaims /\ VouchersGapFree

(* Most steps touch no voucher: at most some requests end. *)
LEMMA VoucherQuiet ==
  ASSUME VoucherClaims, VouchersGapFree,
         UNCHANGED <<paid, voucher>>, last'["Payment"] = last["Payment"],
         \A q \in Requests : tx'[q].op = "pay" =>
           /\ tx[q].op = "pay" /\ tx'[q].payment = tx[q].payment /\ tx'[q].claim = tx[q].claim
           /\ seqLock["Payment"] = q => seqLock'["Payment"] = q
  PROVE  VoucherClaims' /\ VouchersGapFree'
  BY DEF VoucherClaims, VouchersGapFree, Recorded

(* The payment at the head of the series takes the next voucher. *)
LEMMA VoucherCommit ==
  ASSUME VoucherInv, NEW r \in Requests, CommitPayment(r)
  PROVE  VoucherClaims' /\ VouchersGapFree'
<1> DEFINE p == tx[r].payment
           n == last["Payment"]
<1> USE DEF VoucherInv
<1>1. /\ p \in Payments /\ paid[p] = "none" /\ n \in Nat
      /\ seqLock["Payment"] = r /\ tx[r].claim = n + 1
  BY Held DEF CommitPayment, VoucherClaims, TypeOK, Series
<1>2. /\ paid' = [paid EXCEPT ![p] = "posted"] /\ voucher' = [voucher EXCEPT ![p] = n + 1]
      /\ last'["Payment"] = n + 1
  BY <1>1 DEF CommitPayment, TypeOK, Series
<1>3. Recorded' = Recorded \cup {p} /\ p \notin Recorded
  BY <1>1, <1>2 DEF Recorded, TypeOK
<1>4. \A q \in Recorded : voucher'[q] = voucher[q] /\ voucher[q] \in 1..n
  BY <1>1, <1>2, <1>3 DEF VouchersGapFree, Recorded, TypeOK
<1>5. voucher'[p] = n + 1
  BY <1>1, <1>2 DEF TypeOK
<1>6. {voucher'[q] : q \in Recorded'} = 1..last'["Payment"]
  <2>1. {voucher'[q] : q \in Recorded'} = {voucher[q] : q \in Recorded} \cup {n + 1}
    BY <1>3, <1>4, <1>5
  <2>2. {voucher[q] : q \in Recorded} = 1..n
    BY DEF VouchersGapFree
  <2>3. (1..n) \cup {n + 1} = 1..(n + 1)
    BY <1>1
  <2> QED BY <1>2, <2>1, <2>2, <2>3
<1>7. \A q, u \in Recorded' : voucher'[q] = voucher'[u] => q = u
  BY <1>1, <1>3, <1>4, <1>5 DEF VouchersGapFree
<1>8. VoucherClaims'
  <2>1. \A q \in Requests : tx'[q] = IF q = r THEN Idle ELSE tx[q]
    BY Finished DEF CommitPayment
  <2>2. tx'[r].op = "idle"
    BY Finished DEF CommitPayment
  <2>3. \A q \in Requests : tx'[q].op = "pay" => /\ q # r /\ tx'[q] = tx[q] /\ tx[q].op = "pay"
                                                  /\ tx[q].payment # p /\ tx[q].claim = 0
    BY <1>1, <2>1, <2>2 DEF VoucherClaims, CommitPayment
  <2>4. \A q \in Requests : tx[q].op = "pay" => tx[q].payment \in Payments
    BY Held
  <2> QED BY <1>2, <2>3, <2>4 DEF VoucherClaims, TypeOK
<1> HIDE DEF p, n
<1> QED BY <1>6, <1>7, <1>8 DEF VouchersGapFree

LEMMA VoucherStep == VoucherInv /\ [Next]_vars => VoucherInv'
<1> SUFFICES ASSUME VoucherInv, [Next]_vars PROVE VoucherClaims' /\ VouchersGapFree'
  BY TypeStep DEF VoucherInv
<1> USE DEF VoucherInv, invoiceVars, orderVars, paymentVars, lockVars
<1>1. ASSUME NEW i \in Invoices, NEW w \in Worths, CreateDraft(i, w) \/ Save(i, w)
      PROVE  VoucherClaims' /\ VouchersGapFree'
  BY <1>1, VoucherQuiet DEF CreateDraft, Save
<1>2. ASSUME NEW r \in Requests, Start(r) PROVE VoucherClaims' /\ VouchersGapFree'
  <2>1. ASSUME NEW i \in Invoices, LoadToDelete(r, i) \/ LoadToFinalize(r, i)
        PROVE  VoucherClaims' /\ VouchersGapFree'
    <3>1. PICK t : t.op # "pay" /\ tx' = [tx EXCEPT ![r] = t]
      BY <2>1 DEF LoadToDelete, LoadToFinalize, Deleting, Finalizing
    <3> QED BY <2>1, <3>1, Begun, VoucherQuiet DEF LoadToDelete, LoadToFinalize
  <2>2. ASSUME NEW o \in Orders, NEW act \in {"make", "accept", "reject"}, LoadOrder(r, o, act)
        PROVE  VoucherClaims' /\ VouchersGapFree'
    <3>1. PICK t : t.op # "pay" /\ tx' = [tx EXCEPT ![r] = t]
      BY <2>2 DEF LoadOrder, Handling
    <3> QED BY <2>2, <3>1, Begun, VoucherQuiet DEF LoadOrder
  <2>3. ASSUME NEW p \in Payments, NEW todo \in Todos, BeginPayment(r, p, todo)
        PROVE  VoucherClaims' /\ VouchersGapFree'
    <3>1. /\ Paying(p, todo).op = "pay" /\ Paying(p, todo).payment = p
          /\ Paying(p, todo).claim = 0
      BY DEF Paying
    <3>2. \A q \in Requests : tx'[q] = IF q = r THEN Paying(p, todo) ELSE tx[q]
      BY <2>3, Begun DEF BeginPayment
    <3>3. /\ paid[p] = "none" /\ \A q \in Requests : tx[q].op = "pay" => tx[q].payment # p
          /\ UNCHANGED <<paid, voucher, last, seqLock>>
      BY <2>3 DEF BeginPayment
    <3>4. VouchersGapFree'
      BY <3>3 DEF VouchersGapFree, Recorded
    <3>5. VoucherClaims'
      BY <3>1, <3>2, <3>3 DEF VoucherClaims
    <3> QED BY <3>4, <3>5
  <2> QED BY <1>2, <2>1, <2>2, <2>3 DEF Start
<1>3. ASSUME NEW r \in Requests, Go(r) PROVE VoucherClaims' /\ VouchersGapFree'
  <2>1. CASE ClaimNumber(r)
    <3>1. tx[r].op = "finalize" /\ ClaimFrom(r, "Sales")
      BY <2>1 DEF ClaimNumber
    <3> QED BY <3>1, Claimed, VoucherQuiet DEF ClaimFrom, Series
  <2>2. CASE CommitFinalize(r)
    <3>1. Finish(r) /\ UNCHANGED <<paid, voucher>> /\ last'["Payment"] = last["Payment"]
      BY <2>2 DEF CommitFinalize, TypeOK, Series
    <3> QED BY <3>1, Finished, VoucherQuiet DEF Series
  <2>3. CASE CommitDelete(r)
    <3>1. Finish(r) /\ UNCHANGED <<paid, voucher, last>>
      BY <2>3 DEF CommitDelete
    <3> QED BY <3>1, Finished, VoucherQuiet DEF Series
  <2>4. CASE CommitStatus(r)
    <3>1. Finish(r) /\ UNCHANGED <<paid, voucher, last>>
      BY <2>4 DEF CommitStatus
    <3> QED BY <3>1, Finished, VoucherQuiet DEF Series
  <2>5. ASSUME NEW i \in Invoices, NEW w \in Worths, CommitMake(r, i, w)
        PROVE  VoucherClaims' /\ VouchersGapFree'
    <3>1. Finish(r) /\ UNCHANGED <<paid, voucher, last>>
      BY <2>5 DEF CommitMake
    <3> QED BY <3>1, Finished, VoucherQuiet DEF Series
  <2>6. CASE Allocate(r)
    BY <2>6, Allocated, VoucherQuiet DEF Allocate
  <2>7. CASE ClaimVoucher(r)
    <3>1. /\ tx[r].op = "pay" /\ ClaimFrom(r, "Payment")
          /\ UNCHANGED <<paid, voucher, last>>
      BY <2>7 DEF ClaimVoucher, ClaimFrom
    <3>2. VouchersGapFree'
      BY <3>1 DEF VouchersGapFree, Recorded
    <3>3. /\ \A q \in Requests : q # r => tx'[q] = tx[q]
          /\ tx'[r].op = "pay" /\ tx'[r].payment = tx[r].payment
          /\ tx'[r].claim = last["Payment"] + 1
          /\ seqLock["Payment"] = None /\ seqLock'["Payment"] = r
      BY <3>1, Claimed DEF Series
    <3>4. \A q \in Requests : q # None
      BY ConstantsOK
    <3>5. VoucherClaims'
      BY <3>1, <3>3, <3>4 DEF VoucherClaims
    <3> QED BY <3>2, <3>5
  <2>8. CASE CommitPayment(r)
    BY <2>8, VoucherCommit
  <2>9. CASE Refuse(r)
    <3>1. Finish(r) /\ UNCHANGED <<paid, voucher, last>>
      BY <2>9 DEF Refuse, RollBack
    <3> QED BY <3>1, Finished, VoucherQuiet DEF Series
  <2> QED BY <1>3, <2>1, <2>2, <2>3, <2>4, <2>5, <2>6, <2>7, <2>8, <2>9 DEF Go
<1>4. ASSUME NEW r \in Requests, Die(r) \/ Victim(r) PROVE VoucherClaims' /\ VouchersGapFree'
  <2>1. Finish(r) /\ UNCHANGED <<paid, voucher, last>>
    BY <1>4 DEF Die, Victim, RollBack
  <2> QED BY <2>1, Finished, VoucherQuiet DEF Series
<1>5. ASSUME NEW p \in Payments, Reverse(p) PROVE VoucherClaims' /\ VouchersGapFree'
  <2>1. /\ Recorded' = Recorded
        /\ \A q \in Payments : paid[q] = "none" => paid'[q] = "none"
    BY <1>5 DEF Reverse, Recorded, TypeOK
  <2>2. UNCHANGED <<voucher, last, tx, seqLock>>
    BY <1>5 DEF Reverse
  <2>3. \A q \in Requests : tx[q].op = "pay" => tx[q].payment \in Payments
    BY Held
  <2> QED BY <2>1, <2>2, <2>3 DEF VoucherClaims, VouchersGapFree
<1>6. CASE UNCHANGED vars
  BY <1>6 DEF vars, VoucherClaims, VouchersGapFree, Recorded
<1> QED BY <1>1, <1>2, <1>3, <1>4, <1>5, <1>6 DEF Next

LEMMA VoucherInit == Init => VoucherInv
<1> SUFFICES ASSUME Init PROVE VoucherClaims /\ VouchersGapFree
  BY TypeInit DEF VoucherInv
<1>1. \A r \in Requests : tx[r].op # "pay"
  BY DEF Init, Idle
<1>2. Recorded = {} /\ last["Payment"] = 0
  BY DEF Init, Recorded, Series
<1> QED BY <1>1, <1>2 DEF VoucherClaims, VouchersGapFree

(* The vouchers of the recorded payments run 1, 2, 3 ... whatever the      *)
(* requests do to each other.                                              *)
THEOREM VouchersCorrect == Spec => []VouchersGapFree
<1>1. VoucherInv => VouchersGapFree
  BY DEF VoucherInv
<1> QED BY <1>1, VoucherInit, VoucherStep, PTL DEF Spec

-----------------------------------------------------------------------------
(* Numbers. *)

NumberInv == TypeOK /\ NumberClaims /\ DraftsHeld /\ InvoicesGapFree

(* Most steps make no invoice final: at most some requests end, and a draft *)
(* that a request still works on stays one.                                *)
LEMMA NumberQuiet ==
  ASSUME NumberInv,
         Final' = Final, \A i \in Final : number'[i] = number[i],
         last'["Sales"] = last["Sales"],
         \A q \in Requests : tx'[q].op \in {"finalize", "delete"} =>
           /\ tx'[q].op = tx[q].op /\ tx'[q].bill = tx[q].bill
           /\ status'[tx[q].bill] = status[tx[q].bill]
           /\ tx[q].op = "finalize" =>
                tx'[q].claim = tx[q].claim /\ (seqLock["Sales"] = q => seqLock'["Sales"] = q)
  PROVE  NumberClaims' /\ DraftsHeld' /\ InvoicesGapFree'
<1> USE DEF NumberInv
<1>1. InvoicesGapFree'
  BY DEF InvoicesGapFree
<1>2. NumberClaims'
  BY DEF NumberClaims
<1>3. DraftsHeld'
  BY DEF DraftsHeld
<1> QED BY <1>1, <1>2, <1>3

(* The finalize at the head of the series takes the next number. *)
LEMMA NumberCommit ==
  ASSUME NumberInv, NEW r \in Requests, CommitFinalize(r)
  PROVE  NumberClaims' /\ DraftsHeld' /\ InvoicesGapFree'
<1> DEFINE i == tx[r].bill
           n == last["Sales"]
<1> USE DEF NumberInv
<1>1. /\ i \in Invoices /\ status[i] = "draft" /\ n \in Nat
      /\ seqLock["Sales"] = r /\ tx[r].claim = n + 1
  BY Held DEF CommitFinalize, NumberClaims, DraftsHeld, TypeOK, Series
<1>2. /\ status' = [status EXCEPT ![i] = "final"] /\ number' = [number EXCEPT ![i] = n + 1]
      /\ last'["Sales"] = n + 1
  BY <1>1 DEF CommitFinalize, TypeOK, Series
<1>3. Final' = Final \cup {i} /\ i \notin Final
  BY <1>1, <1>2 DEF Final, TypeOK
<1>4. \A j \in Final : number'[j] = number[j] /\ number[j] \in 1..n
  BY <1>1, <1>2, <1>3 DEF InvoicesGapFree, Final, TypeOK
<1>5. number'[i] = n + 1
  BY <1>1, <1>2 DEF TypeOK
<1>6. {number'[j] : j \in Final'} = 1..last'["Sales"]
  <2>1. {number'[j] : j \in Final'} = {number[j] : j \in Final} \cup {n + 1}
    BY <1>3, <1>4, <1>5
  <2>2. {number[j] : j \in Final} = 1..n
    BY DEF InvoicesGapFree
  <2>3. (1..n) \cup {n + 1} = 1..(n + 1)
    BY <1>1
  <2> QED BY <1>2, <2>1, <2>2, <2>3
<1>7. \A j, k \in Final' : number'[j] = number'[k] => j = k
  BY <1>1, <1>3, <1>4, <1>5 DEF InvoicesGapFree
<1>8. \A q \in Requests : tx'[q].op \in {"finalize", "delete"} =>
        /\ q # r /\ tx'[q] = tx[q] /\ tx[q].bill \in Invoices \ {i}
        /\ tx[q].op = "finalize" => tx[q].claim = 0
  <2>1. /\ \A q \in Requests : tx'[q] = IF q = r THEN Idle ELSE tx[q]
        /\ tx'[r].op = "idle"
    BY Finished DEF CommitFinalize
  <2>2. \A q \in Requests : tx[q].op \in {"finalize", "delete"} => tx[q].bill \in Invoices
    BY Held
  <2> QED BY <1>1, <2>1, <2>2 DEF NumberClaims, DraftsHeld, CommitFinalize
<1>9. NumberClaims' /\ DraftsHeld'
  BY <1>2, <1>8 DEF NumberClaims, DraftsHeld, TypeOK
<1> HIDE DEF i, n
<1> QED BY <1>6, <1>7, <1>9 DEF InvoicesGapFree

(* A delete takes away a draft, which has no number. *)
LEMMA NumberDelete ==
  ASSUME NumberInv, NEW r \in Requests, CommitDelete(r)
  PROVE  /\ NumberClaims' /\ DraftsHeld' /\ InvoicesGapFree'
         /\ Final' = Final
         /\ tx[r].bill \in Invoices /\ status[tx[r].bill] = "draft"
         /\ \A q \in Requests : tx'[q].op \in {"finalize", "delete"} =>
              q # r /\ tx'[q] = tx[q] /\ tx[q].bill # tx[r].bill
<1> DEFINE i == tx[r].bill
<1> USE DEF NumberInv
<1>1. i \in Invoices /\ status[i] = "draft"
  BY Held DEF CommitDelete, DraftsHeld
<1>2. status' = [status EXCEPT ![i] = "gone"] /\ Finish(r) /\ UNCHANGED <<number, last>>
  BY DEF CommitDelete
<1>3. Final' = Final
  BY <1>1, <1>2 DEF Final, TypeOK
<1>4. /\ \A q \in Requests : tx'[q] = IF q = r THEN Idle ELSE tx[q]
      /\ tx'[r].op = "idle"
      /\ \A q \in Requests : q # r /\ seqLock["Sales"] = q => seqLock'["Sales"] = q
  BY <1>2, Finished DEF Series
<1>5. \A q \in Requests : tx'[q].op \in {"finalize", "delete"} =>
        q # r /\ tx'[q] = tx[q] /\ tx[q].bill # i
  BY <1>4 DEF DraftsHeld, CommitDelete
<1>6. \A q \in Requests : tx[q].op \in {"finalize", "delete"} => tx[q].bill \in Invoices
  BY Held
<1>7. NumberClaims' /\ DraftsHeld' /\ InvoicesGapFree'
  BY <1>2, <1>3, <1>4, <1>5, <1>6, NumberQuiet DEF TypeOK
<1> QED BY <1>1, <1>3, <1>5, <1>7

(* A new draft is a row that nobody works on. *)
LEMMA NumberDraft ==
  ASSUME NumberInv, NEW i \in Invoices, NEW w \in Worths, NEW from, NewDraft(i, w, from)
  PROVE  /\ Final' = Final /\ UNCHANGED number
         /\ \A q \in Requests : tx[q].op \in {"finalize", "delete"} =>
              status'[tx[q].bill] = status[tx[q].bill]
<1>1. Final' = Final /\ UNCHANGED number
  BY DEF NewDraft, Final, NumberInv, TypeOK
<1>2. \A q \in Requests : tx[q].op \in {"finalize", "delete"} =>
        tx[q].bill \in Invoices /\ tx[q].bill # i
  BY Held DEF NewDraft, NumberInv, DraftsHeld
<1> QED BY <1>1, <1>2 DEF NewDraft, NumberInv, TypeOK

LEMMA NumberStep ==
  ASSUME ~Overlap
  PROVE  NumberInv /\ [Next]_vars => NumberInv'
<1> SUFFICES ASSUME NumberInv, [Next]_vars PROVE NumberClaims' /\ DraftsHeld' /\ InvoicesGapFree'
  BY TypeStep DEF NumberInv
<1> USE DEF invoiceVars, orderVars, paymentVars, lockVars
<1>0. TypeOK
  BY DEF NumberInv
<1>1. ASSUME NEW i \in Invoices, NEW w \in Worths, CreateDraft(i, w) \/ Save(i, w)
      PROVE  NumberClaims' /\ DraftsHeld' /\ InvoicesGapFree'
  <2>1. CASE CreateDraft(i, w)
    BY <2>1, NumberDraft, NumberQuiet DEF CreateDraft
  <2>2. CASE Save(i, w)
    BY <2>2, NumberQuiet DEF Save, Final
  <2> QED BY <1>1, <2>1, <2>2
<1>2. ASSUME NEW r \in Requests, Start(r)
      PROVE  NumberClaims' /\ DraftsHeld' /\ InvoicesGapFree'
  <2>1. ASSUME NEW i \in Invoices, LoadToDelete(r, i) \/ LoadToFinalize(r, i)
        PROVE  NumberClaims' /\ DraftsHeld' /\ InvoicesGapFree'
    <3>1. PICK t : /\ t.op \in {"finalize", "delete"} /\ t.bill = i
                   /\ t.op = "finalize" => t.claim = 0
                   /\ tx' = [tx EXCEPT ![r] = t]
      BY <2>1 DEF LoadToDelete, LoadToFinalize, Deleting, Finalizing
    <3>2. /\ status[i] = "draft" /\ UNCHANGED <<status, number, last, seqLock>>
          /\ \A q \in Requests : tx[q].op \in {"finalize", "delete"} => tx[q].bill # i
      BY <2>1 DEF LoadToDelete, LoadToFinalize, AloneOnBill
    <3>3. \A q \in Requests : tx'[q] = IF q = r THEN t ELSE tx[q]
      BY <1>0, <3>1, Begun
    <3>4. InvoicesGapFree'
      BY <3>2 DEF NumberInv, InvoicesGapFree, Final
    <3>5. NumberClaims'
      BY <3>1, <3>2, <3>3 DEF NumberInv, NumberClaims
    <3>6. DraftsHeld'
      BY <3>1, <3>2, <3>3 DEF NumberInv, DraftsHeld
    <3> QED BY <3>4, <3>5, <3>6
  <2>2. ASSUME NEW o \in Orders, NEW act \in {"make", "accept", "reject"}, LoadOrder(r, o, act)
        PROVE  NumberClaims' /\ DraftsHeld' /\ InvoicesGapFree'
    <3>1. PICK t : t.op \notin {"finalize", "delete"} /\ tx' = [tx EXCEPT ![r] = t]
      BY <2>2 DEF LoadOrder, Handling
    <3> QED BY <1>0, <2>2, <3>1, Begun, NumberQuiet DEF LoadOrder, Final
  <2>3. ASSUME NEW p \in Payments, NEW todo \in Todos, BeginPayment(r, p, todo)
        PROVE  NumberClaims' /\ DraftsHeld' /\ InvoicesGapFree'
    <3>1. PICK t : t.op \notin {"finalize", "delete"} /\ tx' = [tx EXCEPT ![r] = t]
      BY <2>3 DEF BeginPayment, Paying
    <3> QED BY <1>0, <2>3, <3>1, Begun, NumberQuiet DEF BeginPayment, Final
  <2> QED BY <1>2, <2>1, <2>2, <2>3 DEF Start
<1>3. ASSUME NEW r \in Requests, Go(r)
      PROVE  NumberClaims' /\ DraftsHeld' /\ InvoicesGapFree'
  <2>1. CASE ClaimNumber(r)
    <3>1. /\ tx[r].op = "finalize" /\ ClaimFrom(r, "Sales")
          /\ UNCHANGED <<status, number, last>>
      BY <2>1 DEF ClaimNumber, ClaimFrom
    <3>2. /\ \A q \in Requests : q # r => tx'[q] = tx[q]
          /\ tx'[r].op = "finalize" /\ tx'[r].bill = tx[r].bill
          /\ tx'[r].claim = last["Sales"] + 1
          /\ seqLock["Sales"] = None /\ seqLock'["Sales"] = r
      BY <1>0, <3>1, Claimed DEF Series
    <3>3. \A q \in Requests : q # None
      BY ConstantsOK
    <3>4. InvoicesGapFree'
      BY <3>1 DEF NumberInv, InvoicesGapFree, Final
    <3>5. NumberClaims'
      BY <3>1, <3>2, <3>3 DEF NumberInv, NumberClaims
    <3>6. DraftsHeld'
      BY <3>1, <3>2 DEF NumberInv, DraftsHeld
    <3> QED BY <3>4, <3>5, <3>6
  <2>2. CASE CommitFinalize(r)
    BY <2>2, NumberCommit
  <2>3. CASE CommitDelete(r)
    BY <2>3, NumberDelete
  <2>4. CASE CommitStatus(r)
    <3>1. Finish(r) /\ UNCHANGED <<status, number, last>>
      BY <2>4 DEF CommitStatus
    <3> QED BY <1>0, <3>1, Finished, NumberQuiet DEF Series, Final
  <2>5. ASSUME NEW i \in Invoices, NEW w \in Worths, CommitMake(r, i, w)
        PROVE  NumberClaims' /\ DraftsHeld' /\ InvoicesGapFree'
    <3>1. Finish(r) /\ UNCHANGED last /\ NewDraft(i, w, tx[r].order)
      BY <2>5 DEF CommitMake
    <3> QED BY <1>0, <3>1, Finished, NumberDraft, NumberQuiet DEF Series
  <2>6. CASE Allocate(r)
    <3>1. UNCHANGED <<status, number, last, seqLock>>
      BY <2>6 DEF Allocate
    <3> QED BY <1>0, <2>6, <3>1, Allocated, NumberQuiet DEF Final
  <2>7. CASE ClaimVoucher(r)
    <3>1. /\ tx[r].op = "pay" /\ ClaimFrom(r, "Payment")
          /\ UNCHANGED <<status, number, last>>
      BY <2>7 DEF ClaimVoucher, ClaimFrom
    <3> QED BY <1>0, <3>1, Claimed, NumberQuiet DEF Series, Final
  <2>8. CASE CommitPayment(r)
    <3>1. Finish(r) /\ UNCHANGED <<status, number>> /\ last'["Sales"] = last["Sales"]
      BY <1>0, <2>8 DEF CommitPayment, TypeOK, Series
    <3> QED BY <1>0, <3>1, Finished, NumberQuiet DEF Series, Final
  <2>9. CASE Refuse(r)
    <3>1. Finish(r) /\ UNCHANGED <<status, number, last>>
      BY <2>9 DEF Refuse, RollBack
    <3> QED BY <1>0, <3>1, Finished, NumberQuiet DEF Series, Final
  <2> QED BY <1>3, <2>1, <2>2, <2>3, <2>4, <2>5, <2>6, <2>7, <2>8, <2>9 DEF Go
<1>4. ASSUME NEW r \in Requests, Die(r) \/ Victim(r)
      PROVE  NumberClaims' /\ DraftsHeld' /\ InvoicesGapFree'
  <2>1. Finish(r) /\ UNCHANGED <<status, number, last>>
    BY <1>4 DEF Die, Victim, RollBack
  <2> QED BY <1>0, <2>1, Finished, NumberQuiet DEF Series, Final
<1>5. ASSUME NEW p \in Payments, Reverse(p)
      PROVE  NumberClaims' /\ DraftsHeld' /\ InvoicesGapFree'
  BY <1>5, NumberQuiet DEF Reverse, Final
<1>6. CASE UNCHANGED vars
  BY <1>6, NumberQuiet DEF vars, Final
<1> QED BY <1>1, <1>2, <1>3, <1>4, <1>5, <1>6 DEF Next

LEMMA NumberInit == Init => NumberInv
<1> SUFFICES ASSUME Init PROVE NumberClaims /\ DraftsHeld /\ InvoicesGapFree
  BY TypeInit DEF NumberInv
<1>1. \A r \in Requests : tx[r].op = "idle"
  BY DEF Init, Idle
<1>2. Final = {} /\ last["Sales"] = 0
  BY DEF Init, Final, Series
<1> QED BY <1>1, <1>2 DEF NumberClaims, DraftsHeld, InvoicesGapFree

LEMMA NumberInvariant ==
  ASSUME ~Overlap
  PROVE  Spec => []NumberInv
  BY NumberInit, NumberStep, PTL DEF Spec

(* The numbers of the finalized invoices run 1, 2, 3 ... as long as no two  *)
(* requests finalize or delete one draft at once.                          *)
THEOREM InvoicesCorrect ==
  ASSUME ~Overlap
  PROVE  Spec => []InvoicesGapFree
<1>1. NumberInv => InvoicesGapFree
  BY DEF NumberInv
<1> QED BY <1>1, NumberInvariant, PTL

-----------------------------------------------------------------------------
(* Final invoices, whatever overlaps. *)

KeepsSettled(i) ==    \* SettledIsPermanent, of one step and one invoice
  Settled(i) => Settled(i)' /\ number'[i] = number[i] /\ total'[i] = total[i]

(* A step that leaves the row of i alone keeps it settled, if no request    *)
(* begins to work on it.                                                   *)
LEMMA RowAlone ==
  ASSUME NEW i \in Invoices,
         status'[i] = status[i] /\ number'[i] = number[i] /\ total'[i] = total[i],
         \A q \in Requests : tx'[q].op \in {"finalize", "delete"} =>
           \/ tx'[q].op = tx[q].op /\ tx'[q].bill = tx[q].bill
           \/ status[i] # "final"
           \/ tx'[q].bill # i
  PROVE  KeepsSettled(i)
<1> SUFFICES ASSUME Settled(i)
             PROVE  Settled(i)' /\ number'[i] = number[i] /\ total'[i] = total[i]
  BY DEF KeepsSettled
<1>1. status[i] = "final" /\ i \in Final'
  BY DEF Settled, Final
<1>2. \A r \in Requests : tx'[r].op \in {"finalize", "delete"} => tx'[r].bill # i
  BY <1>1 DEF Settled
<1> QED BY <1>1, <1>2 DEF Settled

LEMMA BeginKeepsSettled ==
  ASSUME TypeOK, NEW i \in Invoices, NEW r \in Requests, Start(r)
  PROVE  KeepsSettled(i)
<1>1. UNCHANGED <<status, number, total>>
  BY DEF Start, LoadToDelete, LoadToFinalize, LoadOrder, BeginPayment, invoiceVars
<1>2. ASSUME NEW j \in Invoices, NEW t, tx' = [tx EXCEPT ![r] = t], t.bill = j, status[j] = "draft"
      PROVE  KeepsSettled(i)
  <2>1. \A q \in Requests : tx'[q] = IF q = r THEN t ELSE tx[q]
    BY <1>2, Begun
  <2> QED BY <1>1, <1>2, <2>1, RowAlone
<1>3. ASSUME NEW t, tx' = [tx EXCEPT ![r] = t], t.op \notin {"finalize", "delete"}
      PROVE  KeepsSettled(i)
  <2>1. \A q \in Requests : tx'[q] = IF q = r THEN t ELSE tx[q]
    BY <1>3, Begun
  <2> QED BY <1>1, <1>3, <2>1, RowAlone
<1>4. ASSUME NEW j \in Invoices, LoadToDelete(r, j) \/ LoadToFinalize(r, j)
      PROVE  KeepsSettled(i)
  <2>1. Deleting(j).bill = j /\ Finalizing(j, worth[j]).bill = j
    BY DEF Deleting, Finalizing
  <2>2. CASE LoadToDelete(r, j)
    BY <1>2, <2>1, <2>2 DEF LoadToDelete
  <2>3. CASE LoadToFinalize(r, j)
    BY <1>2, <2>1, <2>3 DEF LoadToFinalize
  <2> QED BY <1>4, <2>2, <2>3
<1>5. ASSUME NEW o \in Orders, NEW act \in {"make", "accept", "reject"}, LoadOrder(r, o, act)
      PROVE  KeepsSettled(i)
  <2>1. Handling(o, ostatus[o], act).op \notin {"finalize", "delete"}
    BY DEF Handling
  <2> QED BY <1>3, <1>5, <2>1 DEF LoadOrder
<1>6. ASSUME NEW p \in Payments, NEW todo \in Todos, BeginPayment(r, p, todo)
      PROVE  KeepsSettled(i)
  <2>1. Paying(p, todo).op \notin {"finalize", "delete"}
    BY DEF Paying
  <2> QED BY <1>3, <1>6, <2>1 DEF BeginPayment
<1> QED BY <1>4, <1>5, <1>6 DEF Start

(* A request that ends may have written only what it worked on.             *)
LEMMA EndKeepsSettled ==
  ASSUME TypeOK, NEW i \in Invoices, NEW r \in Requests, Finish(r),
         \/ status'[i] = status[i] /\ number'[i] = number[i] /\ total'[i] = total[i]
         \/ tx[r].op \in {"finalize", "delete"} /\ tx[r].bill = i
         \/ status[i] # "final"
  PROVE  KeepsSettled(i)
<1>1. /\ \A q \in Requests : q # r => tx'[q] = tx[q]
      /\ tx'[r].op = "idle"
  BY Finished
<1>2. CASE status'[i] = status[i] /\ number'[i] = number[i] /\ total'[i] = total[i]
  BY <1>1, <1>2, RowAlone
<1>3. CASE tx[r].op \in {"finalize", "delete"} /\ tx[r].bill = i
  BY <1>3 DEF KeepsSettled, Settled
<1>4. CASE status[i] # "final"
  BY <1>4 DEF KeepsSettled, Settled, Final
<1> QED BY <1>2, <1>3, <1>4

LEMMA GoKeepsSettled ==
  ASSUME TypeOK, NEW i \in Invoices, NEW r \in Requests, Go(r)
  PROVE  KeepsSettled(i)
<1> USE DEF invoiceVars
<1>1. CASE ClaimNumber(r) \/ ClaimVoucher(r)
  <2>1. PICK s \in Series : ClaimFrom(r, s) /\ tx[r].op \in {"finalize", "pay"}
    BY <1>1 DEF ClaimNumber, ClaimVoucher, Series
  <2>2. /\ \A q \in Requests : q # r => tx'[q] = tx[q]
        /\ tx'[r].op = tx[r].op
        /\ tx[r].op = "finalize" => tx'[r].bill = tx[r].bill
    BY <2>1, Claimed
  <2>3. UNCHANGED <<status, number, total>>
    BY <2>1 DEF ClaimFrom
  <2> QED BY <2>1, <2>2, <2>3, RowAlone
<1>2. CASE CommitFinalize(r) \/ CommitDelete(r)
  <2>1. /\ Finish(r) /\ tx[r].op \in {"finalize", "delete"} /\ tx[r].bill \in Invoices
    BY <1>2, Held DEF CommitFinalize, CommitDelete
  <2>2. CASE tx[r].bill = i
    BY <2>1, <2>2, EndKeepsSettled
  <2>3. CASE tx[r].bill # i
    <3>1. status'[i] = status[i] /\ number'[i] = number[i] /\ total'[i] = total[i]
      BY <1>2, <2>1, <2>3 DEF CommitFinalize, CommitDelete, TypeOK
    <3> QED BY <2>1, <3>1, EndKeepsSettled
  <2> QED BY <2>2, <2>3
<1>3. ASSUME NEW j \in Invoices, NEW w \in Worths, CommitMake(r, j, w)
      PROVE  KeepsSettled(i)
  <2>1. Finish(r) /\ NewDraft(j, w, tx[r].order)
    BY <1>3 DEF CommitMake
  <2>2. \/ status'[i] = status[i] /\ number'[i] = number[i] /\ total'[i] = total[i]
        \/ status[i] # "final"
    BY <2>1 DEF NewDraft, TypeOK
  <2> QED BY <2>1, <2>2, EndKeepsSettled
<1>4. CASE CommitStatus(r) \/ CommitPayment(r) \/ Refuse(r)
  <2>1. Finish(r) /\ UNCHANGED <<status, number, total>>
    BY <1>4 DEF CommitStatus, CommitPayment, Refuse, RollBack
  <2> QED BY <2>1, EndKeepsSettled
<1>5. CASE Allocate(r)
  <2>1. /\ \A q \in Requests : q # r => tx'[q] = tx[q]
        /\ tx'[r].op = "pay"
    BY <1>5, Allocated
  <2>2. UNCHANGED <<status, number, total>>
    BY <1>5 DEF Allocate
  <2> QED BY <2>1, <2>2, RowAlone
<1> QED BY <1>1, <1>2, <1>3, <1>4, <1>5 DEF Go

(* Whatever overlaps: an invoice that is final, and that no request still   *)
(* takes for a draft, is permanent.                                        *)
THEOREM SettledStays == Spec => SettledIsPermanent
<1> DEFINE Kept == \A i \in Invoices : KeepsSettled(i)
<1>1. ASSUME TypeOK, [Next]_vars, NEW i \in Invoices PROVE KeepsSettled(i)
  <2>1. CASE UNCHANGED <<status, number, total, tx>>
    BY <2>1, RowAlone
  <2>2. ASSUME NEW j \in Invoices, NEW w \in Worths, CreateDraft(j, w) \/ Save(j, w)
        PROVE  KeepsSettled(i)
    <3>1. tx' = tx
      BY <2>2 DEF CreateDraft, Save
    <3>2. \/ status'[i] = status[i] /\ number'[i] = number[i] /\ total'[i] = total[i]
          \/ status[i] # "final"
      BY <1>1, <2>2 DEF CreateDraft, Save, NewDraft, TypeOK
    <3>3. CASE status[i] # "final"
      BY <3>3 DEF KeepsSettled, Settled, Final
    <3> QED BY <3>1, <3>2, <3>3, RowAlone
  <2>3. ASSUME NEW r \in Requests, Start(r) PROVE KeepsSettled(i)
    BY <1>1, <2>3, BeginKeepsSettled
  <2>4. ASSUME NEW r \in Requests, Go(r) PROVE KeepsSettled(i)
    BY <1>1, <2>4, GoKeepsSettled
  <2>5. ASSUME NEW r \in Requests, Die(r) \/ Victim(r) PROVE KeepsSettled(i)
    <3>1. Finish(r) /\ UNCHANGED <<status, number, total>>
      BY <2>5 DEF Die, Victim, RollBack, invoiceVars
    <3> QED BY <1>1, <3>1, EndKeepsSettled
  <2>6. ASSUME NEW p \in Payments, Reverse(p) PROVE KeepsSettled(i)
    BY <2>1, <2>6 DEF Reverse, invoiceVars
  <2> QED BY <1>1, <2>1, <2>2, <2>3, <2>4, <2>5, <2>6 DEF Next, vars, invoiceVars
<1>2. TypeOK /\ [Next]_vars => [Kept]_vars
  BY <1>1
<1> HIDE DEF Kept
<1>3. Spec => [][Kept]_vars
  BY <1>2, TypeCorrect, PTL DEF Spec
<1> QED BY <1>3 DEF SettledIsPermanent, Kept, KeepsSettled

-----------------------------------------------------------------------------
(* Orders. *)

OrderInv == NumberInv /\ OrdersHeld /\ BillsPointBack /\ BilledOnce

(* Most steps touch no order and no bill of one: at most some requests end. *)
LEMMA OrderQuiet ==
  ASSUME OrderInv, UNCHANGED <<status, source, ostatus, obill>>,
         \A q \in Requests : tx'[q].op \in {"make", "accept", "reject"} =>
           /\ tx[q].op \in {"make", "accept", "reject"}
           /\ tx'[q].order = tx[q].order /\ tx'[q].seen = tx[q].seen
  PROVE  OrdersHeld' /\ BillsPointBack' /\ BilledOnce'
<1> USE DEF OrderInv
<1>1. OrdersHeld'
  BY DEF OrdersHeld
<1>2. BillsPointBack' /\ BilledOnce'
  BY DEF BillsPointBack, BilledOnce, Final
<1> QED BY <1>1, <1>2

(* The requests that go on working on orders once r has ended. *)
LEMMA OthersOnOrders ==
  ASSUME OrderInv, NEW r \in Requests, Finish(r)
  PROVE  \A q \in Requests : tx'[q].op \in {"make", "accept", "reject"} =>
           /\ q # r /\ tx'[q] = tx[q] /\ tx[q].order \in Orders
           /\ tx[r].op \in {"make", "accept", "reject"} => tx[q].order # tx[r].order
<1> USE DEF OrderInv, NumberInv
<1>1. /\ \A q \in Requests : tx'[q] = IF q = r THEN Idle ELSE tx[q]
      /\ tx'[r].op = "idle"
  BY Finished
<1>2. \A q \in Requests : tx[q].op \in {"make", "accept", "reject"} => tx[q].order \in Orders
  BY Held
<1> QED BY <1>1, <1>2 DEF OrdersHeld

LEMMA OrderOfDelete ==
  ASSUME OrderInv, NEW r \in Requests, CommitDelete(r)
  PROVE  OrdersHeld' /\ BillsPointBack' /\ BilledOnce'
<1> DEFINE i == tx[r].bill
<1> USE DEF OrderInv, NumberInv
<1>1. i \in Invoices /\ status[i] = "draft" /\ Final' = Final
  BY NumberDelete
<1>2. /\ \A j \in Invoices : status'[j] = IF j = i THEN "gone" ELSE status[j]
      /\ \A o \in Orders : ostatus'[o] = IF obill[o] = i THEN "accepted" ELSE ostatus[o]
      /\ \A o \in Orders : obill'[o] = IF obill[o] = i THEN None ELSE obill[o]
      /\ UNCHANGED source /\ Finish(r)
  BY <1>1 DEF CommitDelete, TypeOK
<1>3. None \notin Final /\ None # i
  BY <1>1, ConstantsOK DEF Final
<1>4. \A o \in Orders : obill[o] \in Invoices \cup {None}
  BY DEF TypeOK
<1>5. \A j \in Invoices : source[j] # None => source[j] \in Orders
  BY DEF TypeOK
<1> HIDE DEF i
<1>6. OrdersHeld'
  BY <1>2, <1>3, OthersOnOrders DEF OrdersHeld
<1>7. BillsPointBack'
  BY <1>2, <1>4 DEF BillsPointBack
<1>8. BilledOnce'
  <2>1. \A j \in Invoices : status'[j] \in {"draft", "final"} /\ source'[j] # None
                              => obill'[source'[j]] = j
    BY <1>2, <1>5 DEF BilledOnce
  <2>2. \A o \in Orders : ostatus'[o] = "invoiced" <=> obill'[o] \in Final'
    BY <1>1, <1>2, <1>3 DEF BilledOnce, Final
  <2>3. \A o \in Orders : ostatus'[o] = "rejected" => obill'[o] = None
    BY <1>2 DEF BilledOnce
  <2> QED BY <2>1, <2>2, <2>3 DEF BilledOnce
<1> QED BY <1>6, <1>7, <1>8

LEMMA OrderOfFinalize ==
  ASSUME OrderInv, NEW r \in Requests, CommitFinalize(r)
  PROVE  OrdersHeld' /\ BillsPointBack' /\ BilledOnce'
<1> DEFINE i == tx[r].bill
<1> USE DEF OrderInv, NumberInv
<1>1. i \in Invoices /\ status[i] = "draft"
  BY Held DEF CommitFinalize, DraftsHeld
<1>2. /\ \A j \in Invoices : status'[j] = IF j = i THEN "final" ELSE status[j]
      /\ \A o \in Orders : ostatus'[o] = IF obill[o] = i THEN "invoiced" ELSE ostatus[o]
      /\ UNCHANGED <<source, obill>> /\ Finish(r)
  BY <1>1 DEF CommitFinalize, TypeOK
<1>3. Final' = Final \cup {i} /\ None \notin Invoices
  BY <1>1, <1>2, ConstantsOK DEF Final
<1> HIDE DEF i
<1>4. OrdersHeld'
  BY <1>1, <1>2, <1>3, OthersOnOrders DEF OrdersHeld
<1>5. BillsPointBack'
  <2>1. \A o \in Orders : obill[o] \in Invoices \cup {None}
    BY DEF TypeOK
  <2> QED BY <1>2, <2>1 DEF BillsPointBack
<1>6. BilledOnce'
  <2>1. \A j \in Invoices : status'[j] \in {"draft", "final"} /\ source'[j] # None
                              => obill'[source'[j]] = j
    BY <1>1, <1>2 DEF BilledOnce
  <2>2. \A o \in Orders : ostatus'[o] = "invoiced" <=> obill'[o] \in Final'
    BY <1>2, <1>3 DEF BilledOnce
  <2>3. \A o \in Orders : ostatus'[o] = "rejected" => obill'[o] = None
    BY <1>2 DEF BilledOnce
  <2> QED BY <2>1, <2>2, <2>3 DEF BilledOnce
<1> QED BY <1>4, <1>5, <1>6

LEMMA OrderOfStatus ==
  ASSUME OrderInv, NEW r \in Requests, CommitStatus(r)
  PROVE  OrdersHeld' /\ BillsPointBack' /\ BilledOnce'
<1> DEFINE o == tx[r].order
<1> USE DEF OrderInv, NumberInv
<1>1. o \in Orders /\ obill[o] = None
  BY Held DEF CommitStatus, OrdersHeld
<1>2. /\ \A u \in Orders : u # o => ostatus'[u] = ostatus[u]
      /\ ostatus'[o] \in {"accepted", "rejected"}
      /\ UNCHANGED <<status, source, obill>> /\ Finish(r)
      /\ tx[r].op \in {"make", "accept", "reject"}
  BY <1>1 DEF CommitStatus, TypeOK, invoiceVars
<1>3. None \notin Final /\ Final' = Final
  BY <1>2, ConstantsOK DEF Final
<1>4. \A q \in Requests : tx'[q].op \in {"make", "accept", "reject"} =>
        q # r /\ tx'[q] = tx[q] /\ tx[q].order \in Orders /\ tx[q].order # o
  BY <1>2, OthersOnOrders
<1> HIDE DEF o
<1>5. OrdersHeld'
  BY <1>2, <1>4 DEF OrdersHeld
<1>6. BillsPointBack'
  BY <1>1, <1>2 DEF BillsPointBack
<1>7. BilledOnce'
  BY <1>1, <1>2, <1>3 DEF BilledOnce
<1> QED BY <1>5, <1>6, <1>7

LEMMA OrderOfMake ==
  ASSUME OrderInv, NEW r \in Requests, NEW i \in Invoices, NEW w \in Worths, CommitMake(r, i, w)
  PROVE  OrdersHeld' /\ BillsPointBack' /\ BilledOnce'
<1> DEFINE o == tx[r].order
<1> USE DEF OrderInv, NumberInv
<1>1. /\ o \in Orders /\ obill[o] = None /\ tx[r].seen = ostatus[o]
      /\ ostatus[o] \in {"new", "accepted"}
      /\ tx[r].op \in {"make", "accept", "reject"}
  BY Held DEF CommitMake, OrdersHeld
<1>2. /\ status[i] = "none"
      /\ \A j \in Invoices : status'[j] = IF j = i THEN "draft" ELSE status[j]
      /\ \A j \in Invoices : source'[j] = IF j = i THEN o ELSE source[j]
      /\ \A u \in Orders : obill'[u] = IF u = o THEN i ELSE obill[u]
      /\ \A u \in Orders : ostatus'[u] = IF u = o THEN "accepted" ELSE ostatus[u]
      /\ Finish(r)
  BY <1>1 DEF CommitMake, NewDraft, TypeOK
<1>3. Final' = Final /\ i \notin Final /\ i # None
  BY <1>2, ConstantsOK DEF Final
<1>4. \A q \in Requests : tx'[q].op \in {"make", "accept", "reject"} =>
        q # r /\ tx'[q] = tx[q] /\ tx[q].order \in Orders /\ tx[q].order # o
  BY <1>1, <1>2, OthersOnOrders
<1>5. \A u \in Orders : obill[u] \in Invoices \cup {None} /\ obill[u] # i
  BY <1>2, <1>3 DEF TypeOK, BillsPointBack
<1>6. \A j \in Invoices : source[j] # None => source[j] \in Orders
  BY DEF TypeOK
<1>7. None \notin Invoices
  BY ConstantsOK
<1> HIDE DEF o
<1>8. OrdersHeld'
  BY <1>2, <1>4 DEF OrdersHeld
<1>9. BillsPointBack'
  BY <1>1, <1>2, <1>5 DEF BillsPointBack
<1>10. BilledOnce'
  <2>1. \A j \in Invoices : status'[j] \in {"draft", "final"} /\ source'[j] # None
                              => obill'[source'[j]] = j
    BY <1>1, <1>2, <1>6, <1>7 DEF BilledOnce
  <2>2. \A u \in Orders : ostatus'[u] = "invoiced" <=> obill'[u] \in Final'
    BY <1>2, <1>3 DEF BilledOnce
  <2>3. \A u \in Orders : ostatus'[u] = "rejected" => obill'[u] = None
    BY <1>2 DEF BilledOnce
  <2> QED BY <2>1, <2>2, <2>3 DEF BilledOnce
<1> QED BY <1>8, <1>9, <1>10

LEMMA OrderStep ==
  ASSUME ~Overlap
  PROVE  OrderInv /\ [Next]_vars => OrderInv'
<1> SUFFICES ASSUME OrderInv, [Next]_vars PROVE OrdersHeld' /\ BillsPointBack' /\ BilledOnce'
  BY NumberStep DEF OrderInv
<1> USE DEF invoiceVars, orderVars, paymentVars, lockVars
<1>0. NumberInv /\ TypeOK
  BY DEF OrderInv, NumberInv
<1>1. ASSUME NEW i \in Invoices, NEW w \in Worths, CreateDraft(i, w) \/ Save(i, w)
      PROVE  OrdersHeld' /\ BillsPointBack' /\ BilledOnce'
  <2>1. CASE CreateDraft(i, w)
    <3>1. /\ status[i] = "none"
          /\ \A j \in Invoices : status'[j] = IF j = i THEN "draft" ELSE status[j]
          /\ \A j \in Invoices : source'[j] = IF j = i THEN None ELSE source[j]
          /\ UNCHANGED <<ostatus, obill, tx>>
      BY <1>0, <2>1 DEF CreateDraft, NewDraft, TypeOK
    <3>2. Final' = Final
      BY <3>1 DEF Final
    <3>3. \A o \in Orders : obill[o] # None => obill[o] \in Invoices \ {i}
      BY <1>0, <3>1 DEF OrderInv, BillsPointBack, TypeOK
    <3>4. OrdersHeld'
      BY <3>1 DEF OrderInv, OrdersHeld
    <3>5. BillsPointBack'
      BY <3>1, <3>3 DEF OrderInv, BillsPointBack
    <3>6. BilledOnce'
      BY <3>1, <3>2 DEF OrderInv, BilledOnce
    <3> QED BY <3>4, <3>5, <3>6
  <2>2. CASE Save(i, w)
    BY <2>2, OrderQuiet DEF Save
  <2> QED BY <1>1, <2>1, <2>2
<1>2. ASSUME NEW r \in Requests, Start(r)
      PROVE  OrdersHeld' /\ BillsPointBack' /\ BilledOnce'
  <2>1. ASSUME NEW i \in Invoices, LoadToDelete(r, i) \/ LoadToFinalize(r, i)
        PROVE  OrdersHeld' /\ BillsPointBack' /\ BilledOnce'
    <3>1. PICK t : t.op \notin {"make", "accept", "reject"} /\ tx' = [tx EXCEPT ![r] = t]
      BY <2>1 DEF LoadToDelete, LoadToFinalize, Deleting, Finalizing
    <3> QED BY <1>0, <2>1, <3>1, Begun, OrderQuiet DEF LoadToDelete, LoadToFinalize
  <2>2. ASSUME NEW o \in Orders, NEW act \in {"make", "accept", "reject"}, LoadOrder(r, o, act)
        PROVE  OrdersHeld' /\ BillsPointBack' /\ BilledOnce'
    <3>1. /\ obill[o] = None
          /\ UNCHANGED <<status, source, ostatus, obill>>
          /\ \A q \in Requests : tx[q].op \in {"make", "accept", "reject"} => tx[q].order # o
      BY <2>2 DEF LoadOrder, Open, AloneOnOrder, OrderInv, BillsPointBack
    <3>2. PICK t : /\ t.op \in {"make", "accept", "reject"} /\ t.order = o /\ t.seen = ostatus[o]
                   /\ tx' = [tx EXCEPT ![r] = t]
      BY <2>2 DEF LoadOrder, Handling
    <3>3. \A q \in Requests : tx'[q] = IF q = r THEN t ELSE tx[q]
      BY <1>0, <3>2, Begun
    <3>4. OrdersHeld'
      BY <3>1, <3>2, <3>3 DEF OrderInv, OrdersHeld
    <3>5. BillsPointBack' /\ BilledOnce'
      BY <3>1 DEF OrderInv, BillsPointBack, BilledOnce, Final
    <3> QED BY <3>4, <3>5
  <2>3. ASSUME NEW p \in Payments, NEW todo \in Todos, BeginPayment(r, p, todo)
        PROVE  OrdersHeld' /\ BillsPointBack' /\ BilledOnce'
    <3>1. PICK t : t.op \notin {"make", "accept", "reject"} /\ tx' = [tx EXCEPT ![r] = t]
      BY <2>3 DEF BeginPayment, Paying
    <3> QED BY <1>0, <2>3, <3>1, Begun, OrderQuiet DEF BeginPayment
  <2> QED BY <1>2, <2>1, <2>2, <2>3 DEF Start
<1>3. ASSUME NEW r \in Requests, Go(r)
      PROVE  OrdersHeld' /\ BillsPointBack' /\ BilledOnce'
  <2>1. CASE ClaimNumber(r)
    <3>1. /\ tx[r].op = "finalize" /\ ClaimFrom(r, "Sales")
          /\ UNCHANGED <<status, source, ostatus, obill>>
      BY <2>1 DEF ClaimNumber, ClaimFrom
    <3> QED BY <1>0, <3>1, Claimed, OrderQuiet DEF Series
  <2>2. CASE ClaimVoucher(r)
    <3>1. /\ tx[r].op = "pay" /\ ClaimFrom(r, "Payment")
          /\ UNCHANGED <<status, source, ostatus, obill>>
      BY <2>2 DEF ClaimVoucher, ClaimFrom
    <3> QED BY <1>0, <3>1, Claimed, OrderQuiet DEF Series
  <2>3. CASE Allocate(r)
    BY <1>0, <2>3, Allocated, OrderQuiet DEF Allocate
  <2>4. CASE CommitPayment(r) \/ Refuse(r)
    <3>1. Finish(r) /\ UNCHANGED <<status, source, ostatus, obill>>
      BY <2>4 DEF CommitPayment, Refuse, RollBack
    <3> QED BY <1>0, <3>1, Finished, OrderQuiet
  <2> QED BY <1>3, <2>1, <2>2, <2>3, <2>4, OrderOfFinalize, OrderOfDelete, OrderOfStatus,
             OrderOfMake DEF Go
<1>4. ASSUME NEW r \in Requests, Die(r) \/ Victim(r)
      PROVE  OrdersHeld' /\ BillsPointBack' /\ BilledOnce'
  <2>1. Finish(r) /\ UNCHANGED <<status, source, ostatus, obill>>
    BY <1>4 DEF Die, Victim, RollBack
  <2> QED BY <1>0, <2>1, Finished, OrderQuiet
<1>5. ASSUME NEW p \in Payments, Reverse(p)
      PROVE  OrdersHeld' /\ BillsPointBack' /\ BilledOnce'
  BY <1>5, OrderQuiet DEF Reverse
<1>6. CASE UNCHANGED vars
  BY <1>6, OrderQuiet DEF vars
<1> QED BY <1>1, <1>2, <1>3, <1>4, <1>5, <1>6 DEF Next

LEMMA OrderInit == Init => OrderInv
<1> SUFFICES ASSUME Init PROVE OrdersHeld /\ BillsPointBack /\ BilledOnce
  BY NumberInit DEF OrderInv
<1>1. \A r \in Requests : tx[r].op = "idle"
  BY DEF Init, Idle
<1>2. /\ Final = {}
      /\ \A o \in Orders : ostatus[o] = "new" /\ obill[o] = None
      /\ \A i \in Invoices : status[i] = "none"
  BY DEF Init, Final
<1> QED BY <1>1, <1>2 DEF OrdersHeld, BillsPointBack, BilledOnce

(* As long as no two requests handle one order, or finalize or delete one   *)
(* draft, at once, an order is billed by the one draft it points to.       *)
THEOREM OrdersBilledOnce ==
  ASSUME ~Overlap
  PROVE  Spec => []BilledOnce
<1>1. OrderInv => BilledOnce
  BY DEF OrderInv
<1> QED BY <1>1, OrderInit, OrderStep, PTL DEF Spec

-----------------------------------------------------------------------------
(* Money. *)

Posted == {p \in Payments : paid[p] = "posted"}

(* SumOf and PaidAmount as sums of functions. *)
AmountsIn(ps) == [k \in DOMAIN ps |-> ps[k].amount]
PlacesOf(ps, i) == {k \in DOMAIN ps : ps[k].bill = i}

LEMMA SumOfIs ==
  ASSUME NEW ps, NEW i
  PROVE  SumOf(ps, i) = SumFunctionOnSet(AmountsIn(ps), PlacesOf(ps, i))
<1>1. SumOf(ps, i) = SumFunctionOnSet([k \in DOMAIN ps |-> ps[k].amount],
                                      {k \in DOMAIN ps : ps[k].bill = i})
  BY DEF SumOf, SumFunctionOnSet, FoldFunctionOnSet, MapThenSumSet, MapThenFoldSet
<1> QED BY <1>1 DEF AmountsIn, PlacesOf

SumsOn(ps, i) == [p \in Payments |-> SumOf(ps[p], i)]

LEMMA PaidAmountIs ==
  ASSUME NEW i
  PROVE  /\ PaidAmount(i) = SumFunctionOnSet(SumsOn(parts, i), Posted)
         /\ PaidAmount(i)' = SumFunctionOnSet(SumsOn(parts', i), Posted')
<1>1. PaidAmount(i) = SumFunctionOnSet([p \in Payments |-> SumOf(parts[p], i)],
                                       {p \in Payments : paid[p] = "posted"})
  BY DEF PaidAmount, SumFunctionOnSet, FoldFunctionOnSet, MapThenSumSet, MapThenFoldSet
<1>2. PaidAmount(i)' = SumFunctionOnSet([p \in Payments |-> SumOf(parts'[p], i)],
                                        {p \in Payments : paid'[p] = "posted"})
  BY DEF PaidAmount, SumFunctionOnSet, FoldFunctionOnSet, MapThenSumSet, MapThenFoldSet
<1> QED BY <1>1, <1>2 DEF SumsOn, Posted

LEMMA PlacesFinite ==
  ASSUME NEW S, NEW ps \in Seq(S), NEW i
  PROVE  IsFiniteSet(PlacesOf(ps, i)) /\ DOMAIN ps = 1..Len(ps) /\ Len(ps) \in Nat
<1>1. DOMAIN ps = 1..Len(ps) /\ Len(ps) \in Nat
  BY LenProperties
<1>2. IsFiniteSet(1..Len(ps))
  BY <1>1, FS_Interval
<1>3. PlacesOf(ps, i) \in SUBSET (1..Len(ps))
  BY <1>1 DEF PlacesOf
<1> QED BY <1>1, <1>2, <1>3, FS_Subset

LEMMA SumOfNat ==
  ASSUME NEW ps \in Seq(OpenPart), NEW i
  PROVE  /\ SumOf(ps, i) \in Nat
         /\ (\A k \in DOMAIN ps : ps[k].bill # i) => SumOf(ps, i) = 0
<1>1. IsFiniteSet(PlacesOf(ps, i))
  BY PlacesFinite
<1>2. \A k \in DOMAIN ps : ps[k].amount \in Nat
  <2>1. \A k \in DOMAIN ps : ps[k] \in OpenPart
    BY PlacesFinite
  <2> QED BY <2>1, ConstantsOK DEF OpenPart
<1>3. \A k \in PlacesOf(ps, i) : AmountsIn(ps)[k] \in Nat
  BY <1>2 DEF AmountsIn, PlacesOf
<1>4. SumOf(ps, i) \in Nat
  BY <1>1, <1>3, SumNat, SumOfIs
<1>5. ASSUME \A k \in DOMAIN ps : ps[k].bill # i PROVE SumOf(ps, i) = 0
  <2>1. PlacesOf(ps, i) = {}
    BY <1>5 DEF PlacesOf
  <2> QED BY <2>1, SumOfIs, SumEmpty
<1> QED BY <1>4, <1>5

LEMMA SumOfAppend ==
  ASSUME NEW ps \in Seq(OpenPart), NEW part \in OpenPart, NEW i
  PROVE  SumOf(Append(ps, part), i)
           = SumOf(ps, i) + (IF part.bill = i THEN part.amount ELSE 0)
<1> DEFINE qs == Append(ps, part)
           n == Len(ps) + 1
           S == PlacesOf(ps, i)
<1>1. /\ n \in Nat /\ DOMAIN ps = 1..(n - 1) /\ IsFiniteSet(S)
      /\ qs \in Seq(OpenPart) /\ DOMAIN qs = 1..n
      /\ \A k \in 1..(n - 1) : qs[k] = ps[k]
      /\ qs[n] = part
  BY PlacesFinite, AppendProperties
<1>2. \A k \in 1..n : qs[k].amount \in Int
  <2>1. \A k \in 1..n : qs[k] \in OpenPart
    BY <1>1
  <2>2. \A q \in OpenPart : q.amount \in Amounts
    BY DEF OpenPart
  <2>3. Amounts \subseteq Int
    BY ConstantsOK
  <2> HIDE DEF qs, n
  <2> QED BY <2>1, <2>2, <2>3
<1> HIDE DEF qs
<1>3. AmountsIn(qs) = [k \in 1..n |-> qs[k].amount]
  BY <1>1 DEF AmountsIn
<1>4. S \subseteq 1..(n - 1) /\ \A k \in S : AmountsIn(ps)[k] = AmountsIn(qs)[k]
  BY <1>1, <1>3 DEF PlacesOf, AmountsIn
<1>5. SumFunctionOnSet(AmountsIn(ps), S) = SumFunctionOnSet(AmountsIn(qs), S)
  BY <1>1, <1>4, SumSame
<1>6. CASE part.bill = i
  <2>1. PlacesOf(qs, i) = S \cup {n} /\ n \notin S
    BY <1>1, <1>6 DEF PlacesOf
  <2>2. \A k \in S \cup {n} : AmountsIn(qs)[k] \in Int
    BY <1>1, <1>2, <1>3, <1>4
  <2>3. SumFunctionOnSet(AmountsIn(qs), S \cup {n})
          = AmountsIn(qs)[n] + SumFunctionOnSet(AmountsIn(qs), S)
    BY <1>1, <2>1, <2>2, SumAdd
  <2>4. AmountsIn(qs)[n] = part.amount /\ part.amount \in Int
    BY <1>1, <1>2, <1>3
  <2>5. SumOf(ps, i) \in Int
    BY SumOfNat
  <2>6. SumOf(qs, i) = part.amount + SumOf(ps, i)
    BY <1>5, <2>1, <2>3, <2>4, SumOfIs
  <2> QED BY <1>6, <2>4, <2>5, <2>6 DEF qs
<1>7. CASE part.bill # i
  <2>1. PlacesOf(qs, i) = S
    BY <1>1, <1>7 DEF PlacesOf
  <2>2. SumOf(ps, i) \in Int
    BY SumOfNat
  <2> QED BY <1>5, <1>7, <2>1, <2>2, SumOfIs DEF qs
<1> QED BY <1>6, <1>7

(* Every recorded allocation is on a finalized invoice. *)
PartsOnFinal ==
  \A p \in Payments : \A k \in DOMAIN parts[p] : parts[p][k].bill \in Final

(* A payment under way holds the row of every invoice it has put money on,  *)
(* and what it has put there is still due.                                 *)
Allocations ==
  \A r \in Requests : tx[r].op = "pay" =>
    /\ \A k \in DOMAIN tx[r].done : /\ tx[r].done[k].bill \in Final
                                    /\ rowLock[tx[r].done[k].bill] = r
    /\ \A i \in Invoices : SumOf(tx[r].done, i) <= BalanceDue(i)

Money == PartsOnFinal /\ Allocations /\ NeverOverpaid /\ IsFiniteSet(Posted)

MoneyInv == VoucherInv /\ NumberInv /\ Money

LEMMA PaidAmountNat ==
  ASSUME TypeOK, IsFiniteSet(Posted), NEW i \in Invoices
  PROVE  /\ PaidAmount(i) \in Nat /\ total[i] \in Nat
         /\ BalanceDue(i) = total[i] - PaidAmount(i) /\ BalanceDue(i) \in Int
         /\ \A p \in Payments : SumsOn(parts, i)[p] = SumOf(parts[p], i) /\ SumOf(parts[p], i) \in Nat
<1>1. \A p \in Payments : SumsOn(parts, i)[p] = SumOf(parts[p], i) /\ SumOf(parts[p], i) \in Nat
  <2>1. \A p \in Payments : parts[p] \in Seq(OpenPart)
    BY DEF TypeOK
  <2> QED BY <2>1, SumOfNat DEF SumsOn
<1>2. PaidAmount(i) \in Nat
  <2>1. \A p \in Posted : SumsOn(parts, i)[p] \in Nat
    BY <1>1 DEF Posted
  <2> QED BY <2>1, SumNat, PaidAmountIs
<1>3. total[i] \in Nat
  <2>1. total[i] \in Worths \/ total[i] = 0
    BY DEF TypeOK
  <2>2. \A w \in Worths : w \in Nat
    BY ConstantsOK
  <2>3. 0 \in Nat
    OBVIOUS
  <2> QED BY <2>1, <2>2, <2>3, Zenon
<1> QED BY <1>1, <1>2, <1>3 DEF BalanceDue

LEMMA UnpaidAmount ==
  ASSUME TypeOK, IsFiniteSet(Posted), PartsOnFinal, NEW i \in Invoices \ Final
  PROVE  PaidAmount(i) = 0
<1>1. ASSUME NEW p \in Posted PROVE SumsOn(parts, i)[p] = 0
  <2>1. p \in Payments /\ parts[p] \in Seq(OpenPart)
    BY DEF TypeOK, Posted
  <2>2. \A k \in DOMAIN parts[p] : parts[p][k].bill # i
    BY <2>1 DEF PartsOnFinal
  <2> QED BY <2>1, <2>2, SumOfNat DEF SumsOn
<1> QED BY <1>1, SumZero, PaidAmountIs

(* What a payment under way has put on the invoices. *)
LEMMA DoneSums ==
  ASSUME TypeOK, NEW r \in Requests, tx[r].op = "pay", NEW i
  PROVE  /\ tx[r].done \in Seq(OpenPart) /\ tx[r].todo \in Seq(Part)
         /\ tx[r].payment \in Payments
         /\ SumOf(tx[r].done, i) \in Nat
         /\ (\A k \in DOMAIN tx[r].done : tx[r].done[k].bill # i) => SumOf(tx[r].done, i) = 0
<1>1. tx[r].done \in Seq(Part) /\ tx[r].todo \in Seq(Part) /\ tx[r].payment \in Payments
  BY Held
<1>2. Seq(Part) \subseteq Seq(OpenPart)
  BY SeqOfMore DEF Part, OpenPart
<1> QED BY <1>1, <1>2, SumOfNat

LEMMA PaidAmountSame ==
  ASSUME UNCHANGED <<paid, parts>>, NEW i
  PROVE  PaidAmount(i)' = PaidAmount(i) /\ Posted' = Posted
<1>1. Posted' = Posted /\ SumsOn(parts', i) = SumsOn(parts, i)
  BY DEF Posted, SumsOn
<1> QED BY <1>1, PaidAmountIs

(* Nobody's row but the ending request's own is freed. *)
LEMMA FinishedRows ==
  ASSUME TypeOK, NEW r \in Requests, Finish(r)
  PROVE  /\ \A q \in Requests : tx'[q].op = "pay" => q # r /\ tx'[q] = tx[q]
         /\ \A i \in Invoices, q \in Requests : q # r /\ rowLock[i] = q => rowLock'[i] = q
<1>1. \A q \in Requests : tx'[q] = IF q = r THEN Idle ELSE tx[q]
  BY Finished
<1>2. Idle.op # "pay"
  BY DEF Idle
<1> QED BY <1>1, <1>2 DEF Finish

(* Most steps touch no money: at most some requests end or begin. *)
LEMMA MoneyQuiet ==
  ASSUME MoneyInv, Final' = Final, UNCHANGED <<paid, parts, total>>,
         \A q \in Requests : tx'[q].op = "pay" =>
           \/ tx'[q].done = <<>>
           \/ /\ tx[q].op = "pay" /\ tx'[q].done = tx[q].done
              /\ \A i \in Invoices : rowLock[i] = q => rowLock'[i] = q
  PROVE  Money'
<1> USE DEF MoneyInv, VoucherInv, Money
<1>1. Posted' = Posted /\ \A i \in Invoices : BalanceDue(i)' = BalanceDue(i)
  BY PaidAmountSame DEF BalanceDue
<1>2. PartsOnFinal' /\ NeverOverpaid' /\ IsFiniteSet(Posted')
  BY <1>1 DEF PartsOnFinal, NeverOverpaid
<1>3. ASSUME NEW q \in Requests, tx'[q].op = "pay"
      PROVE  /\ \A k \in DOMAIN tx'[q].done : /\ tx'[q].done[k].bill \in Final'
                                              /\ rowLock'[tx'[q].done[k].bill] = q
             /\ \A i \in Invoices : SumOf(tx'[q].done, i) <= BalanceDue(i)'
  <2>1. CASE tx'[q].done = <<>>
    <3>1. \A i \in Invoices : SumOf(<<>>, i) = 0
      <4>1. <<>> \in Seq(OpenPart) /\ DOMAIN <<>> = {}
        OBVIOUS
      <4> QED BY <4>1, SumOfNat
    <3>2. \A i \in Invoices : 0 <= BalanceDue(i)
      BY PaidAmountNat DEF NeverOverpaid
    <3> QED BY <1>1, <2>1, <3>1, <3>2
  <2>2. CASE /\ tx[q].op = "pay" /\ tx'[q].done = tx[q].done
             /\ \A i \in Invoices : rowLock[i] = q => rowLock'[i] = q
    <3>1. Final \subseteq Invoices
      BY DEF Final
    <3> QED BY <1>1, <2>2, <3>1 DEF Allocations
  <2> QED BY <1>3, <2>1, <2>2
<1>4. Allocations'
  BY <1>3 DEF Allocations
<1> QED BY <1>2, <1>4

(* A finalized draft has nothing on it yet. *)
LEMMA MoneyFinalize ==
  ASSUME MoneyInv, NEW r \in Requests, CommitFinalize(r)
  PROVE  Money'
<1> USE DEF MoneyInv, VoucherInv, NumberInv, Money
<1>1. PICK b \in Invoices, w \in Nat :
        b = tx[r].bill /\ w = tx[r].worth /\ status[b] = "draft"
  BY Held, ConstantsOK DEF CommitFinalize, DraftsHeld
<1>2. /\ status' = [status EXCEPT ![b] = "final"] /\ total' = [total EXCEPT ![b] = w]
      /\ UNCHANGED <<paid, parts>> /\ Finish(r)
  BY <1>1 DEF CommitFinalize, paymentVars
<1>3. Final' = Final \cup {b} /\ b \notin Final
  BY <1>1, <1>2 DEF Final, TypeOK
<1>4. PaidAmount(b) = 0 /\ Posted' = Posted /\ \A i \in Invoices : PaidAmount(i)' = PaidAmount(i)
  BY <1>1, <1>2, <1>3, UnpaidAmount, PaidAmountSame
<1>5. /\ BalanceDue(b)' = w
      /\ \A i \in Invoices \ {b} : BalanceDue(i)' = BalanceDue(i)
  <2>1. total'[b] = w /\ \A i \in Invoices \ {b} : total'[i] = total[i]
    BY <1>2 DEF TypeOK
  <2>2. PaidAmount(b)' = 0
    BY <1>4
  <2> QED BY <1>4, <2>1, <2>2 DEF BalanceDue
<1>6. PartsOnFinal' /\ NeverOverpaid' /\ IsFiniteSet(Posted')
  <2>1. \A i \in Invoices : BalanceDue(i)' >= 0
    BY <1>1, <1>5 DEF NeverOverpaid
  <2>2. PartsOnFinal'
    BY <1>2, <1>3 DEF PartsOnFinal
  <2> QED BY <1>2, <1>4, <2>1, <2>2 DEF PartsOnFinal, NeverOverpaid
<1>7. ASSUME NEW q \in Requests, tx'[q].op = "pay"
      PROVE  /\ \A k \in DOMAIN tx'[q].done : /\ tx'[q].done[k].bill \in Final'
                                              /\ rowLock'[tx'[q].done[k].bill] = q
             /\ \A i \in Invoices : SumOf(tx'[q].done, i) <= BalanceDue(i)'
  <2>1. /\ q # r /\ tx'[q] = tx[q] /\ tx[q].op = "pay"
        /\ \A i \in Invoices : rowLock[i] = q => rowLock'[i] = q
    BY <1>2, <1>7, FinishedRows
  <2>2. /\ \A k \in DOMAIN tx[q].done : /\ tx[q].done[k].bill \in Final
                                        /\ rowLock[tx[q].done[k].bill] = q
        /\ \A i \in Invoices : SumOf(tx[q].done, i) <= BalanceDue(i)
    BY <2>1 DEF Allocations
  <2>3. Final \subseteq Invoices
    BY DEF Final
  <2>4. SumOf(tx[q].done, b) = 0
    BY <1>3, <2>1, <2>2, DoneSums
  <2>5. \A i \in Invoices : SumOf(tx'[q].done, i) <= BalanceDue(i)'
    BY <1>1, <1>5, <2>1, <2>2, <2>4
  <2> QED BY <1>3, <2>1, <2>2, <2>3, <2>5
<1>8. Allocations'
  BY <1>7 DEF Allocations
<1> QED BY <1>6, <1>8

(* The row of the invoice is the payment's own, so what is due there can    *)
(* only be taken by it.                                                    *)
LEMMA MoneyAllocate ==
  ASSUME MoneyInv, NEW r \in Requests, Allocate(r)
  PROVE  Money'
<1> USE DEF MoneyInv, VoucherInv, NumberInv, Money
<1> DEFINE part == Wanted(r)
           b == Wanted(r).bill
<1>1. tx[r].op = "pay" /\ tx[r].todo # <<>> /\ tx[r].todo \in Seq(Part)
  BY Held DEF Allocate, Checking
<1>2. part \in Part /\ part \in OpenPart /\ b \in Invoices /\ part.amount \in Nat
  <2>1. part \in Part
    BY <1>1, HeadTailProperties DEF Wanted
  <2> QED BY <2>1, ConstantsOK DEF Part, OpenPart
<1>3. /\ b \in Final /\ part.amount <= BalanceDue(b) - SumOf(tx[r].done, b)
      /\ rowLock[b] \in {None, r} /\ rowLock' = [rowLock EXCEPT ![b] = r]
      /\ UNCHANGED <<status, total, paid, parts>>
  BY <1>2 DEF Allocate, Allowed, invoiceVars, paymentVars, Final
<1>4. /\ \A q \in Requests : q # r => tx'[q] = tx[q]
      /\ tx'[r].done = Append(tx[r].done, part)
  <2>1. tx[r] \in [op : {"pay"}, payment : Payments, todo : Seq(Part), done : Seq(Part),
                    claim : Nat]
    BY <1>1, Held
  <2> QED BY <2>1 DEF Allocate, TypeOK
<1>5. Final' = Final /\ Final \subseteq Invoices
  BY <1>3 DEF Final
<1>6. Posted' = Posted /\ \A i \in Invoices : BalanceDue(i)' = BalanceDue(i)
  BY <1>3, PaidAmountSame DEF BalanceDue
<1>7. PartsOnFinal' /\ NeverOverpaid' /\ IsFiniteSet(Posted')
  BY <1>3, <1>5, <1>6 DEF PartsOnFinal, NeverOverpaid
<1>8. ASSUME NEW q \in Requests \ {r}, tx'[q].op = "pay"
      PROVE  /\ \A k \in DOMAIN tx'[q].done : /\ tx'[q].done[k].bill \in Final'
                                              /\ rowLock'[tx'[q].done[k].bill] = q
             /\ \A i \in Invoices : SumOf(tx'[q].done, i) <= BalanceDue(i)'
  <2>1. tx'[q] = tx[q] /\ tx[q].op = "pay"
    BY <1>4, <1>8
  <2>2. /\ \A k \in DOMAIN tx[q].done : /\ tx[q].done[k].bill \in Final
                                        /\ rowLock[tx[q].done[k].bill] = q
        /\ \A i \in Invoices : SumOf(tx[q].done, i) <= BalanceDue(i)
    BY <2>1 DEF Allocations
  <2>3. \A i \in Invoices : rowLock[i] = q => rowLock'[i] = q
    <3>1. q # None
      BY ConstantsOK
    <3> QED BY <1>2, <1>3, <3>1 DEF TypeOK
  <2> QED BY <1>5, <1>6, <2>1, <2>2, <2>3
<1>9. /\ \A k \in DOMAIN tx'[r].done : /\ tx'[r].done[k].bill \in Final'
                                       /\ rowLock'[tx'[r].done[k].bill] = r
      /\ \A i \in Invoices : SumOf(tx'[r].done, i) <= BalanceDue(i)'
  <2>1. /\ \A k \in DOMAIN tx[r].done : /\ tx[r].done[k].bill \in Final
                                        /\ rowLock[tx[r].done[k].bill] = r
        /\ \A i \in Invoices : SumOf(tx[r].done, i) <= BalanceDue(i)
    BY <1>1 DEF Allocations
  <2>2. tx[r].done \in Seq(OpenPart)
    BY <1>1, DoneSums
  <2>3. ASSUME NEW k \in DOMAIN tx'[r].done
        PROVE  tx'[r].done[k] = part \/ (k \in DOMAIN tx[r].done /\ tx'[r].done[k] = tx[r].done[k])
    <3> HIDE DEF part
    <3> QED BY <1>2, <1>4, <2>2, AppendProperties
  <2>4. \A i \in Invoices : rowLock[i] = r => rowLock'[i] = r
    BY <1>2, <1>3 DEF TypeOK
  <2>5. rowLock'[b] = r
    BY <1>2, <1>3 DEF TypeOK
  <2>6. ASSUME NEW i \in Invoices PROVE SumOf(tx'[r].done, i) <= BalanceDue(i)
    <3>1. SumOf(tx'[r].done, i) = SumOf(tx[r].done, i) + (IF b = i THEN part.amount ELSE 0)
      BY <1>2, <1>4, <2>2, SumOfAppend
    <3>2. SumOf(tx[r].done, i) \in Nat /\ BalanceDue(i) \in Int
      BY <1>1, DoneSums, PaidAmountNat
    <3>3. SumOf(tx[r].done, i) <= BalanceDue(i)
      BY <2>1
    <3> QED BY <1>2, <1>3, <3>1, <3>2, <3>3
  <2>7. ASSUME NEW k \in DOMAIN tx'[r].done
        PROVE  tx'[r].done[k].bill \in Final' /\ rowLock'[tx'[r].done[k].bill] = r
    <3>1. CASE tx'[r].done[k] = part
      BY <1>3, <1>5, <2>5, <3>1
    <3>2. CASE k \in DOMAIN tx[r].done /\ tx'[r].done[k] = tx[r].done[k]
      BY <1>5, <2>1, <2>4, <3>2
    <3> QED BY <2>3, <3>1, <3>2
  <2> QED BY <1>6, <2>6, <2>7
<1>10. Allocations'
  BY <1>8, <1>9 DEF Allocations
<1> QED BY <1>7, <1>10

(* A payment that commits takes what it held; nobody else held anything of  *)
(* an invoice it put money on.                                             *)
LEMMA MoneyCommit ==
  ASSUME MoneyInv, NEW r \in Requests, CommitPayment(r)
  PROVE  Money'
<1> USE DEF MoneyInv, VoucherInv, NumberInv, Money
<1>1. PICK p \in Payments, done \in Seq(OpenPart) :
        /\ p = tx[r].payment /\ done = tx[r].done /\ paid[p] = "none" /\ tx[r].op = "pay"
  BY DoneSums DEF CommitPayment, VoucherClaims
<1>2. /\ paid' = [paid EXCEPT ![p] = "posted"] /\ parts' = [parts EXCEPT ![p] = done]
      /\ UNCHANGED <<status, total>> /\ Finish(r)
  BY <1>1 DEF CommitPayment, invoiceVars
<1>3. /\ Posted' = Posted \cup {p} /\ p \notin Posted /\ Posted \subseteq Payments
      /\ Final' = Final /\ Final \subseteq Invoices
  BY <1>1, <1>2 DEF Posted, Final, TypeOK
<1>4. /\ \A k \in DOMAIN done : done[k].bill \in Final /\ rowLock[done[k].bill] = r
      /\ \A i \in Invoices : SumOf(done, i) <= BalanceDue(i)
  BY <1>1 DEF Allocations
<1>5. ASSUME NEW i \in Invoices
      PROVE  /\ BalanceDue(i)' = BalanceDue(i) - SumOf(done, i)
             /\ BalanceDue(i) \in Int /\ SumOf(done, i) \in Nat
  <2>1. /\ PaidAmount(i) = SumFunctionOnSet(SumsOn(parts, i), Posted)
        /\ PaidAmount(i)' = SumFunctionOnSet(SumsOn(parts', i), Posted')
    BY PaidAmountIs
  <2>2. /\ \A q \in Payments : SumsOn(parts, i)[q] = SumOf(parts[q], i)
        /\ \A q \in Payments : SumOf(parts[q], i) \in Nat
        /\ PaidAmount(i) \in Nat /\ total[i] \in Nat
        /\ BalanceDue(i) = total[i] - PaidAmount(i)
    BY PaidAmountNat
  <2>3. /\ SumsOn(parts', i)[p] = SumOf(done, i)
        /\ \A q \in Posted : SumsOn(parts', i)[q] = SumsOn(parts, i)[q]
    BY <1>2, <1>3 DEF SumsOn, TypeOK
  <2>4. SumOf(done, i) \in Nat
    BY SumOfNat
  <2>5. SumFunctionOnSet(SumsOn(parts', i), Posted) = PaidAmount(i)
    BY <2>1, <2>3, SumSame
  <2>6. \A q \in Posted \cup {p} : SumsOn(parts', i)[q] \in Int
    BY <1>3, <2>2, <2>3, <2>4
  <2>7. PaidAmount(i)' = SumOf(done, i) + PaidAmount(i)
    BY <1>3, <2>1, <2>3, <2>5, <2>6, SumAdd
  <2>8. BalanceDue(i)' = total[i] - PaidAmount(i)'
    BY <1>2 DEF BalanceDue
  <2> QED BY <2>2, <2>4, <2>7, <2>8
<1>6. PartsOnFinal'
  BY <1>2, <1>3, <1>4 DEF PartsOnFinal, TypeOK
<1>7. \A i \in Invoices : BalanceDue(i)' >= 0
  BY <1>4, <1>5
<1>8. NeverOverpaid'
  BY <1>6, <1>7 DEF PartsOnFinal, NeverOverpaid
<1>9. IsFiniteSet(Posted')
  BY <1>3, FS_AddElement
<1>10. ASSUME NEW q \in Requests, tx'[q].op = "pay"
       PROVE  /\ \A k \in DOMAIN tx'[q].done : /\ tx'[q].done[k].bill \in Final'
                                               /\ rowLock'[tx'[q].done[k].bill] = q
              /\ \A i \in Invoices : SumOf(tx'[q].done, i) <= BalanceDue(i)'
  <2>1. /\ q # r /\ tx'[q] = tx[q] /\ tx[q].op = "pay"
        /\ \A i \in Invoices : rowLock[i] = q => rowLock'[i] = q
    BY <1>2, <1>10, FinishedRows
  <2>2. /\ \A k \in DOMAIN tx[q].done : /\ tx[q].done[k].bill \in Final
                                        /\ rowLock[tx[q].done[k].bill] = q
        /\ \A i \in Invoices : SumOf(tx[q].done, i) <= BalanceDue(i)
    BY <2>1 DEF Allocations
  <2>3. ASSUME NEW i \in Invoices PROVE SumOf(tx'[q].done, i) <= BalanceDue(i)'
    <3>1. CASE \E k \in DOMAIN tx[q].done : tx[q].done[k].bill = i
      <4>1. \A k \in DOMAIN done : done[k].bill # i
        BY <1>4, <2>1, <2>2, <3>1
      <4>2. SumOf(done, i) = 0
        BY <4>1, SumOfNat
      <4>3. SumOf(tx[q].done, i) <= BalanceDue(i)
        BY <2>2
      <4> QED BY <1>5, <2>1, <4>2, <4>3
    <3>2. CASE \A k \in DOMAIN tx[q].done : tx[q].done[k].bill # i
      <4>1. SumOf(tx[q].done, i) = 0
        BY <2>1, <3>2, DoneSums
      <4>2. SumOf(done, i) <= BalanceDue(i)
        BY <1>4
      <4> QED BY <1>5, <2>1, <4>1, <4>2
    <3> QED BY <3>1, <3>2
  <2> QED BY <1>3, <2>1, <2>2, <2>3
<1>11. Allocations'
  BY <1>10 DEF Allocations
<1> QED BY <1>6, <1>8, <1>9, <1>11

(* A reversed payment gives back what it took. *)
LEMMA MoneyReverse ==
  ASSUME MoneyInv, NEW p \in Payments, Reverse(p)
  PROVE  Money'
<1> USE DEF MoneyInv, VoucherInv, NumberInv, Money
<1>1. /\ paid[p] = "posted" /\ paid' = [paid EXCEPT ![p] = "reversed"]
      /\ UNCHANGED <<status, total, parts, rowLock, tx>>
  BY DEF Reverse, invoiceVars, lockVars
<1>2. /\ Posted' = Posted \ {p} /\ p \in Posted /\ Posted \subseteq Payments
      /\ Final' = Final
  BY <1>1 DEF Posted, Final, TypeOK
<1>3. ASSUME NEW i \in Invoices
      PROVE  BalanceDue(i)' >= BalanceDue(i) /\ BalanceDue(i)' \in Int /\ BalanceDue(i) \in Int
  <2>1. /\ PaidAmount(i) = SumFunctionOnSet(SumsOn(parts, i), Posted)
        /\ PaidAmount(i)' = SumFunctionOnSet(SumsOn(parts, i), Posted \ {p})
    BY <1>1, <1>2, PaidAmountIs
  <2>2. /\ \A q \in Payments : SumsOn(parts, i)[q] = SumOf(parts[q], i)
        /\ \A q \in Payments : SumOf(parts[q], i) \in Nat
        /\ PaidAmount(i) \in Nat /\ total[i] \in Nat
        /\ BalanceDue(i) = total[i] - PaidAmount(i)
    BY PaidAmountNat
  <2>3. \A q \in Posted : SumsOn(parts, i)[q] \in Int
    BY <1>2, <2>2
  <2>4. IsFiniteSet(Posted \ {p})
    BY FS_RemoveElement
  <2>5. PaidAmount(i)' \in Int
    BY <2>1, <2>3, <2>4, SumInt
  <2>6. PaidAmount(i) = SumOf(parts[p], i) + PaidAmount(i)'
    BY <1>2, <2>1, <2>2, <2>3, SumRemove
  <2>7. BalanceDue(i)' = total[i] - PaidAmount(i)'
    BY <1>1 DEF BalanceDue
  <2>8. SumOf(parts[p], i) \in Nat
    BY <2>2
  <2> QED BY <2>2, <2>5, <2>6, <2>7, <2>8
<1>4. PartsOnFinal'
  BY <1>1, <1>2 DEF PartsOnFinal
<1>5. \A i \in Invoices : BalanceDue(i)' >= 0
  BY <1>3 DEF NeverOverpaid
<1>6. NeverOverpaid'
  BY <1>4, <1>5 DEF PartsOnFinal, NeverOverpaid
<1>7. Allocations'
  <2>1. ASSUME NEW q \in Requests, tx[q].op = "pay", NEW i \in Invoices
        PROVE  SumOf(tx[q].done, i) <= BalanceDue(i)'
    <3>1. SumOf(tx[q].done, i) <= BalanceDue(i)
      BY <2>1 DEF Allocations
    <3>2. SumOf(tx[q].done, i) \in Nat
      BY <2>1, DoneSums
    <3> QED BY <1>3, <3>1, <3>2
  <2> QED BY <1>1, <1>2, <2>1 DEF Allocations
<1>8. IsFiniteSet(Posted')
  BY <1>2, FS_RemoveElement
<1> QED BY <1>4, <1>6, <1>7, <1>8

(* Nothing is allocated to a draft, so a delete takes no allocation along. *)
LEMMA MoneyDelete ==
  ASSUME MoneyInv, NEW r \in Requests, CommitDelete(r)
  PROVE  Money'
<1> USE DEF MoneyInv, VoucherInv, NumberInv, Money
<1>1. tx[r].bill \notin Final /\ Final' = Final /\ Finish(r)
  BY NumberDelete DEF CommitDelete, Final
<1>2. parts' = [p \in Payments |->
                  [k \in DOMAIN parts[p] |->
                     IF parts[p][k].bill = tx[r].bill THEN [parts[p][k] EXCEPT !.bill = None]
                                                      ELSE parts[p][k]]]
  BY DEF CommitDelete
<1>3. ASSUME NEW p \in Payments
      PROVE  [k \in DOMAIN parts[p] |->
                IF parts[p][k].bill = tx[r].bill THEN [parts[p][k] EXCEPT !.bill = None]
                                                 ELSE parts[p][k]] = parts[p]
  <2>1. \A k \in DOMAIN parts[p] : parts[p][k].bill # tx[r].bill
    BY <1>1 DEF PartsOnFinal
  <2>2. parts[p] = [k \in DOMAIN parts[p] |-> parts[p][k]]
    <3>1. parts[p] \in Seq(OpenPart)
      BY DEF TypeOK
    <3> QED BY <3>1
  <2> QED BY <2>1, <2>2
<1>4. parts' = parts
  <2>1. parts' = [p \in Payments |-> parts[p]]
    BY <1>2, <1>3
  <2> QED BY <2>1 DEF TypeOK
<1>5. UNCHANGED <<paid, total>>
  BY DEF CommitDelete
<1> QED BY <1>1, <1>4, <1>5, FinishedRows, MoneyQuiet

LEMMA MoneyStep ==
  ASSUME ~Overlap
  PROVE  MoneyInv /\ [Next]_vars => MoneyInv'
<1> SUFFICES ASSUME MoneyInv, [Next]_vars PROVE Money'
  BY VoucherStep, NumberStep DEF MoneyInv
<1> USE DEF invoiceVars, orderVars, paymentVars, lockVars
<1>0. NumberInv /\ TypeOK
  BY DEF MoneyInv, NumberInv
<1>1. ASSUME NEW i \in Invoices, NEW w \in Worths, CreateDraft(i, w) \/ Save(i, w)
      PROVE  Money'
  <2>1. CASE CreateDraft(i, w)
    <3>1. Final' = Final
      BY <1>0, <2>1, NumberDraft DEF CreateDraft
    <3> QED BY <2>1, <3>1, MoneyQuiet DEF CreateDraft, NewDraft
  <2>2. CASE Save(i, w)
    BY <2>2, MoneyQuiet DEF Save, Final
  <2> QED BY <1>1, <2>1, <2>2
<1>2. ASSUME NEW r \in Requests, Start(r) PROVE Money'
  <2>1. PICK t : /\ tx' = [tx EXCEPT ![r] = t] /\ (t.op = "pay" => t.done = <<>>)
                 /\ UNCHANGED <<status, paid, parts, total, rowLock>>
    <3>1. ASSUME NEW i \in Invoices, LoadToDelete(r, i) \/ LoadToFinalize(r, i)
          PROVE  \E t : /\ tx' = [tx EXCEPT ![r] = t] /\ (t.op = "pay" => t.done = <<>>)
                        /\ UNCHANGED <<status, paid, parts, total, rowLock>>
      <4>1. Deleting(i).op # "pay" /\ Finalizing(i, worth[i]).op # "pay"
        BY DEF Deleting, Finalizing
      <4> QED BY <3>1, <4>1 DEF LoadToDelete, LoadToFinalize
    <3>2. ASSUME NEW o \in Orders, NEW act \in {"make", "accept", "reject"}, LoadOrder(r, o, act)
          PROVE  \E t : /\ tx' = [tx EXCEPT ![r] = t] /\ (t.op = "pay" => t.done = <<>>)
                        /\ UNCHANGED <<status, paid, parts, total, rowLock>>
      <4>1. Handling(o, ostatus[o], act).op # "pay"
        BY DEF Handling
      <4> QED BY <3>2, <4>1 DEF LoadOrder
    <3>3. ASSUME NEW p \in Payments, NEW todo \in Todos, BeginPayment(r, p, todo)
          PROVE  \E t : /\ tx' = [tx EXCEPT ![r] = t] /\ (t.op = "pay" => t.done = <<>>)
                        /\ UNCHANGED <<status, paid, parts, total, rowLock>>
      <4>1. Paying(p, todo).done = <<>>
        BY DEF Paying
      <4> QED BY <3>3, <4>1 DEF BeginPayment
    <3> QED BY <1>2, <3>1, <3>2, <3>3 DEF Start
  <2>2. \A q \in Requests : tx'[q] = IF q = r THEN t ELSE tx[q]
    BY <1>0, <2>1, Begun
  <2> QED BY <2>1, <2>2, MoneyQuiet DEF Final
<1>3. ASSUME NEW r \in Requests, Go(r) PROVE Money'
  <2>1. ASSUME Finish(r), UNCHANGED <<status, total, paid, parts>> PROVE Money'
    BY <1>0, <2>1, FinishedRows, MoneyQuiet DEF Final
  <2>2. CASE ClaimNumber(r)
    <3>1. /\ tx[r].op = "finalize" /\ ClaimFrom(r, "Sales")
          /\ UNCHANGED <<status, total, paid, parts, rowLock>>
      BY <2>2 DEF ClaimNumber, ClaimFrom
    <3> QED BY <1>0, <3>1, Claimed, MoneyQuiet DEF Series, Final
  <2>3. CASE ClaimVoucher(r)
    <3>1. /\ tx[r].op = "pay" /\ ClaimFrom(r, "Payment")
          /\ UNCHANGED <<status, total, paid, parts, rowLock>>
      BY <2>3 DEF ClaimVoucher, ClaimFrom
    <3> QED BY <1>0, <3>1, Claimed, MoneyQuiet DEF Series, Final
  <2>4. CASE CommitFinalize(r)
    BY <2>4, MoneyFinalize
  <2>5. CASE CommitDelete(r)
    BY <2>5, MoneyDelete
  <2>6. CASE CommitStatus(r)
    BY <2>1, <2>6 DEF CommitStatus
  <2>7. ASSUME NEW i \in Invoices, NEW w \in Worths, CommitMake(r, i, w) PROVE Money'
    <3>1. Final' = Final
      BY <1>0, <2>7, NumberDraft DEF CommitMake
    <3>2. Finish(r) /\ UNCHANGED <<total, paid, parts>>
      BY <2>7 DEF CommitMake, NewDraft
    <3> QED BY <1>0, <3>1, <3>2, FinishedRows, MoneyQuiet
  <2>8. CASE Allocate(r)
    BY <2>8, MoneyAllocate
  <2>9. CASE CommitPayment(r)
    BY <2>9, MoneyCommit
  <2>10. CASE Refuse(r)
    BY <2>1, <2>10 DEF Refuse, RollBack
  <2> QED BY <1>3, <2>2, <2>3, <2>4, <2>5, <2>6, <2>7, <2>8, <2>9, <2>10 DEF Go
<1>4. ASSUME NEW r \in Requests, Die(r) \/ Victim(r) PROVE Money'
  <2>1. Finish(r) /\ UNCHANGED <<status, total, paid, parts>>
    BY <1>4 DEF Die, Victim, RollBack
  <2> QED BY <1>0, <2>1, FinishedRows, MoneyQuiet DEF Final
<1>5. ASSUME NEW p \in Payments, Reverse(p) PROVE Money'
  BY <1>5, MoneyReverse
<1>6. CASE UNCHANGED vars
  BY <1>6, MoneyQuiet DEF vars, Final
<1> QED BY <1>1, <1>2, <1>3, <1>4, <1>5, <1>6 DEF Next

LEMMA MoneyInit == Init => MoneyInv
<1> SUFFICES ASSUME Init PROVE Money
  BY VoucherInit, NumberInit DEF MoneyInv
<1>1. Posted = {} /\ IsFiniteSet(Posted)
  BY FS_EmptySet DEF Init, Posted
<1>2. \A i \in Invoices : BalanceDue(i) = 0
  <2>1. \A i \in Invoices : PaidAmount(i) = 0
    BY <1>1, PaidAmountIs, SumEmpty
  <2> QED BY <2>1 DEF Init, BalanceDue
<1>3. \A p \in Payments : DOMAIN parts[p] = {}
  BY DEF Init
<1>4. \A r \in Requests : tx[r].op # "pay"
  BY DEF Init, Idle
<1> QED BY <1>1, <1>2, <1>3, <1>4 DEF Money, PartsOnFinal, Allocations, NeverOverpaid

(* However many payments are entered at once, no invoice is ever paid       *)
(* beyond what it came to, and recorded money stays on finalized invoices, *)
(* as long as no two requests finalize or delete one draft at once.        *)
THEOREM NothingOverpaid ==
  ASSUME ~Overlap
  PROVE  Spec => []NeverOverpaid
<1>1. MoneyInv => NeverOverpaid
  BY DEF MoneyInv, Money
<1> QED BY <1>1, MoneyInit, MoneyStep, PTL DEF Spec
=============================================================================

--------------------------- MODULE ItemPushProofs ---------------------------
(***************************************************************************)
(* Proofs about ItemPush, for any number of items, rates, batches, edits   *)
(* and of users who ask for runs at the same time.  Finite sets matter     *)
(* only to the size of a batch, and no property looks at that.             *)
(***************************************************************************)
EXTENDS ItemPush, TLAPS, SequenceTheorems

Statuses == {"none", "queued", "error", "synced"}

LiveIn(bs, k) == bs[k].status \in {"queued", "sent"}

(* What holds of the batches bs, where Tally shows t and the items d are   *)
(* in doubt: a run has the number of its first batch; of the run of a      *)
(* batch in flight every other batch went well; the agent has not seen a   *)
(* batch that is queued; a batch that may reach Tally after it was given   *)
(* up is in doubt; what Tally has taken in a batch in flight, it shows.    *)
Orderly(bs, d, t) ==
  /\ bs \in Seq(Batch)
  /\ \A k \in DOMAIN bs : bs[k].run <= k
  /\ \A k, c \in DOMAIN bs :
       LiveIn(bs, k) /\ k # c /\ bs[c].run = bs[k].run => bs[c].status = "ok"
  /\ \A k \in DOMAIN bs : bs[k].status = "queued" => bs[k].agent = "none"
  /\ \A k \in DOMAIN bs : ~LiveIn(bs, k) /\ bs[k].agent = "held" => DOMAIN bs[k].price \subseteq d
  /\ \A k \in DOMAIN bs : \A i \in DOMAIN bs[k].price :
       LiveIn(bs, k) /\ bs[k].agent = "accepted" => i \in d \/ t[i] = bs[k].price[i]

WaitsIn(bs, i) ==     \* i is in a batch in flight, or in one to come
  \E k \in DOMAIN bs : LiveIn(bs, k) /\ i \in DOMAIN bs[k].price \cup bs[k].rest

OvertakenIn(bs, i) == \* Tally may show what a batch in flight has brought
  \E k \in DOMAIN bs :
    LiveIn(bs, k) /\ i \in DOMAIN bs[k].price /\ bs[k].agent \in {"accepted", "silent"}

Waiting == \A i \in Items : push[i] = "queued" => WaitsIn(batches, i)

SyncedIsShown ==
  \A i \in Items :
    push[i] = "synced" /\ i \notin doubtful /\ ~OvertakenIn(batches, i) =>
      tally[i] = sent[i] /\ sent[i] # NotThere

IInv == ItemTypeOK /\ Orderly(batches, doubtful, tally) /\ Waiting /\ SyncedIsShown

FailureStops ==       \* FirstFailureStopsRun, of one step
  \A b \in DOMAIN batches' \ DOMAIN batches :
    \A c \in DOMAIN batches' \ {b} :
      batches'[c].run = batches'[b].run => batches'[c].status = "ok"

-----------------------------------------------------------------------------
(* Price lists, batches and rows. *)

LEMMA PriceLists ==
  /\ \A p \in PriceList : DOMAIN p \subseteq Items /\ \A i \in DOMAIN p : p[i] \in Rates
  /\ \A S \in SUBSET Items : \A p :
       (\A i \in S : p[i] \in Rates) => [i \in S |-> p[i]] \in PriceList
<1>1. ASSUME NEW p \in PriceList
      PROVE  DOMAIN p \subseteq Items /\ \A i \in DOMAIN p : p[i] \in Rates
  <2>1. PICK S \in SUBSET Items : p \in [S -> Rates]
    BY DEF PriceList
  <2> QED BY <2>1
<1>2. ASSUME NEW S \in SUBSET Items, NEW p, \A i \in S : p[i] \in Rates
      PROVE  [i \in S |-> p[i]] \in PriceList
  <2>1. [i \in S |-> p[i]] \in [S -> Rates]
    BY <1>2
  <2> QED BY <2>1 DEF PriceList
<1> QED BY <1>1, <1>2

LEMMA Domain ==
  ASSUME IInv
  PROVE  /\ batches \in Seq(Batch) /\ Len(batches) \in Nat
         /\ DOMAIN batches = 1..Len(batches)
         /\ \A b \in DOMAIN batches :
              /\ batches[b] \in Batch /\ b \in Nat
              /\ ItemsOf(b) = DOMAIN batches[b].price /\ ItemsOf(b) \in SUBSET Items
              /\ \A i \in ItemsOf(b) : i \in Items /\ batches[b].price[i] \in Rates
<1>1. /\ batches \in Seq(Batch) /\ Len(batches) \in Nat
      /\ DOMAIN batches = 1..Len(batches)
      /\ \A b \in DOMAIN batches : batches[b] \in Batch /\ b \in Nat
  BY LenProperties, ElementOfSeq DEF IInv, ItemTypeOK
<1>2. ASSUME NEW b \in DOMAIN batches
      PROVE  /\ ItemsOf(b) = DOMAIN batches[b].price /\ ItemsOf(b) \in SUBSET Items
             /\ \A i \in ItemsOf(b) : i \in Items /\ batches[b].price[i] \in Rates
  <2>1. batches[b].price \in PriceList
    BY <1>1 DEF Batch
  <2> QED BY <2>1, PriceLists DEF ItemsOf
<1> QED BY <1>1, <1>2

(* SetStatus on items, pointwise. *)
LEMMA Setting ==
  ASSUME NEW from \in [Items -> Statuses], NEW ids \in SUBSET Items, NEW value \in Statuses
  PROVE  /\ SetStatus(from, ids, value) \in [Items -> Statuses]
         /\ \A i \in Items \ ids : SetStatus(from, ids, value)[i] = from[i]
         /\ value \in {"none", "error"} =>
              /\ \A i \in ids : SetStatus(from, ids, value)[i] # "queued"
              /\ \A i \in Items : SetStatus(from, ids, value)[i] = "synced" <=> from[i] = "synced"
              /\ \A i \in Items : SetStatus(from, ids, value)[i] = "queued" => from[i] = "queued"
         /\ value = "queued" =>
              \A i \in Items : SetStatus(from, ids, value)[i] = "synced" <=> from[i] = "synced"
         /\ value = "synced" => \A i \in ids : SetStatus(from, ids, value)[i] = "synced"
  BY DEF SetStatus, Statuses

(* Of a run one batch at most is in flight, since of the others of its run *)
(* every one went well.                                                    *)
LEMMA Typed ==
  ASSUME IInv, Orderly(batches', doubtful', tally'),
         UNCHANGED <<rate, edits, known, fresh>>,
         asked' \in [Users -> PriceList \cup {NoPush}],
         push' \in [Items -> Statuses],
         sent' \in [Items -> Rates \cup {NotThere}],
         tally' \in [Items -> Rates \cup {NotThere}],
         doubtful' \in SUBSET Items
  PROVE  ItemTypeOK'
<1>1. batches' \in Seq(Batch)
  BY DEF Orderly
<1>2. \A b, c \in DOMAIN batches' :
        Live(b)' /\ Live(c)' /\ batches'[b].run = batches'[c].run => b = c
  BY DEF Orderly, LiveIn, Live
<1> QED BY <1>1, <1>2 DEF IInv, ItemTypeOK, Statuses

-----------------------------------------------------------------------------
(* Steps that leave the batches alone. *)

LEMMA QuietStep ==
  ASSUME IInv,
         \/ \E i \in Items, p \in Rates : EditRate(i, p)
         \/ \E u \in Users, todo \in SUBSET Items : Preflight(u, todo)
         \/ \E u \in Users : PushFails(u)
         \/ CheckTally
         \/ GoesStale
         \/ UNCHANGED itemVars
  PROVE  IInv' /\ batches' = batches
<1>1. UNCHANGED <<push, sent, batches, tally, doubtful>>
  BY DEF EditRate, Preflight, PushFails, CheckTally, GoesStale, itemVars, stateVars
<1>2. /\ rate' \in [Items -> Rates] /\ edits' \in 0..MaxEdits
      /\ known' \subseteq Items /\ fresh' \in BOOLEAN
      /\ asked' \in [Users -> PriceList \cup {NoPush}]
  <2>1. CASE \E i \in Items, p \in Rates : EditRate(i, p)
    BY <2>1, ItemConstantsOK DEF EditRate, checkVars, IInv, ItemTypeOK
  <2>2. CASE CheckTally \/ GoesStale \/ UNCHANGED itemVars
    BY <2>2 DEF CheckTally, GoesStale, itemVars, shopVars, checkVars, IInv, ItemTypeOK
  <2>3. CASE \E u \in Users, todo \in SUBSET Items : Preflight(u, todo)
    <3>1. PICK u \in Users, todo \in SUBSET Items : Preflight(u, todo)
      BY <2>3
    <3>2. rate \in [Items -> Rates]
      BY DEF IInv, ItemTypeOK
    <3>3. [i \in todo |-> rate[i]] \in PriceList
      BY <3>2, PriceLists
    <3> QED BY <3>1, <3>3 DEF Preflight, checkVars, IInv, ItemTypeOK
  <2>4. CASE \E u \in Users : PushFails(u)
    BY <2>4 DEF PushFails, checkVars, IInv, ItemTypeOK
  <2> QED BY <2>1, <2>2, <2>3, <2>4
<1>3. ItemTypeOK'
  BY <1>1, <1>2 DEF IInv, ItemTypeOK, Live
<1> QED BY <1>1, <1>3 DEF IInv, Waiting, SyncedIsShown

-----------------------------------------------------------------------------
(* One batch changes. *)

(* b may become new, and Tally t and the items in doubt d with it.         *)
Fits(b, new, bs, d, t) ==
  /\ b \in DOMAIN batches /\ new \in Batch /\ bs = [batches EXCEPT ![b] = new]
  /\ d \in SUBSET Items /\ doubtful \subseteq d
  /\ t = tally \/ \A k \in DOMAIN batches \ {b} : batches[k].agent # "accepted"
  /\ new.price = batches[b].price /\ new.run = batches[b].run
  /\ new.status \in {"queued", "sent"} => Live(b)
  /\ batches[b].status = "ok" => new.status = "ok"
  /\ new.status = "queued" => new.agent = "none"
  /\ new.status \notin {"queued", "sent"} /\ new.agent = "held" => ItemsOf(b) \subseteq d
  /\ new.status \in {"queued", "sent"} /\ new.agent = "accepted" =>
       \A i \in ItemsOf(b) : i \in d \/ t[i] = batches[b].price[i]

(* What holds of the batches then holds still.                             *)
LEMMA Replaced ==
  ASSUME IInv, NEW b, NEW new, NEW bs, NEW d, NEW t, Fits(b, new, bs, d, t)
  PROVE  /\ Orderly(bs, d, t)
         /\ DOMAIN bs = DOMAIN batches /\ Len(bs) = Len(batches)
         /\ \A k \in DOMAIN batches : bs[k] = IF k = b THEN new ELSE batches[k]
<1> USE DEF Fits
<1>1. /\ b \in 1..Len(batches) /\ batches \in Seq(Batch) /\ DOMAIN batches = 1..Len(batches)
      /\ new \in Batch /\ bs = [batches EXCEPT ![b] = new]
  BY Domain
<1>2. /\ bs \in Seq(Batch) /\ Len(bs) = Len(batches) /\ DOMAIN bs = DOMAIN batches
      /\ \A k \in DOMAIN batches : bs[k] = IF k = b THEN new ELSE batches[k]
  BY <1>1, ExceptSeq
<1>3. Orderly(batches, doubtful, tally)
  BY DEF IInv
<1>4. \A k \in DOMAIN bs : bs[k].run <= k
  BY <1>2, <1>3 DEF Orderly
<1>5. ASSUME NEW k \in DOMAIN bs, NEW c \in DOMAIN bs,
             LiveIn(bs, k), k # c, bs[c].run = bs[k].run
      PROVE  bs[c].status = "ok"
  <2>1. LiveIn(batches, k) /\ batches[c].run = batches[k].run
    BY <1>2, <1>5 DEF LiveIn, Live
  <2>2. batches[c].status = "ok"
    BY <1>2, <1>3, <1>5, <2>1 DEF Orderly
  <2> QED BY <1>2, <2>2
<1>6. \A k \in DOMAIN bs : bs[k].status = "queued" => bs[k].agent = "none"
  BY <1>2, <1>3 DEF Orderly
<1>7. ASSUME NEW k \in DOMAIN bs, ~LiveIn(bs, k), bs[k].agent = "held"
      PROVE  DOMAIN bs[k].price \subseteq d
  <2>1. CASE k = b
    BY <1>2, <1>7, <2>1 DEF LiveIn, ItemsOf
  <2>2. CASE k # b
    BY <1>2, <1>3, <1>7, <2>2 DEF LiveIn, Orderly
  <2> QED BY <2>1, <2>2
<1>8. ASSUME NEW k \in DOMAIN bs, NEW i \in DOMAIN bs[k].price,
             LiveIn(bs, k), bs[k].agent = "accepted"
      PROVE  i \in d \/ t[i] = bs[k].price[i]
  <2>1. CASE k = b
    BY <1>2, <1>8, <2>1 DEF LiveIn, ItemsOf
  <2>2. CASE k # b
    <3>1. bs[k] = batches[k] /\ t = tally
      BY <1>2, <1>8, <2>2
    <3> QED BY <1>2, <1>3, <1>8, <3>1 DEF LiveIn, Orderly
  <2> QED BY <2>1, <2>2
<1> HIDE DEF Fits
<1>9. Orderly(bs, d, t)
  BY <1>2, <1>4, <1>5, <1>6, <1>7, <1>8 DEF Orderly
<1> QED BY <1>2, <1>9

(* A step of the agent leaves the batch in flight, or as it ended, with    *)
(* the items that wait in it.                                              *)
LEMMA AgentShape ==
  ASSUME IInv, NEW b \in DOMAIN batches, NEW new \in Batch,
         DOMAIN batches' = DOMAIN batches,
         \A k \in DOMAIN batches : batches'[k] = IF k = b THEN new ELSE batches[k],
         Orderly(batches', doubtful', tally'),
         new.price = batches[b].price, new.rest = batches[b].rest,
         \/ new.status = batches[b].status
         \/ batches[b].status = "queued" /\ new.status = "sent",
         UNCHANGED <<rate, edits, asked, push, sent, known, fresh>>,
         tally' \in [Items -> Rates \cup {NotThere}], doubtful' \in SUBSET Items
  PROVE  ItemTypeOK' /\ Waiting'
<1>1. ItemTypeOK'
  BY Typed DEF IInv, ItemTypeOK, Statuses
<1>2. \A i \in Items : WaitsIn(batches, i) => WaitsIn(batches', i)
  BY DEF WaitsIn, LiveIn
<1> QED BY <1>1, <1>2 DEF IInv, Waiting

(* What a synced item was backed by, it is backed by still, if no rate in  *)
(* Tally and no row changes and no batch is withdrawn.                     *)
LEMMA StillShown ==
  ASSUME IInv, UNCHANGED <<push, sent, tally>>, doubtful \subseteq doubtful',
         \A i \in Items : OvertakenIn(batches, i) => OvertakenIn(batches', i)
  PROVE  SyncedIsShown'
  BY DEF IInv, SyncedIsShown

LEMMA DeliverStep ==
  ASSUME IInv, NEW b \in DOMAIN batches, Deliver(b)
  PROVE  IInv' /\ DOMAIN batches' = DOMAIN batches
<1> DEFINE new == [batches[b] EXCEPT !.status = "sent", !.agent = "held"]
<1>1. batches[b] \in Batch /\ batches[b].status = "queued" /\ batches[b].agent = "none" /\ Live(b)
  BY Domain DEF IInv, Deliver, Orderly, Live
<1>2. /\ new \in Batch /\ new.price = batches[b].price
      /\ new.rest = batches[b].rest /\ new.run = batches[b].run
      /\ new.status = "sent" /\ new.agent = "held"
  BY <1>1 DEF Batch
<1>3. /\ batches' = [batches EXCEPT ![b] = new]
      /\ UNCHANGED <<rate, edits, asked, push, sent, known, fresh, tally, doubtful>>
  BY DEF Deliver, shopVars, stateVars, checkVars
<1> HIDE DEF new
<1>4. tally' \in [Items -> Rates \cup {NotThere}] /\ doubtful' \in SUBSET Items
  BY <1>3 DEF IInv, ItemTypeOK
<1>5. /\ Orderly(batches', doubtful', tally')
      /\ DOMAIN batches' = DOMAIN batches
      /\ \A k \in DOMAIN batches : batches'[k] = IF k = b THEN new ELSE batches[k]
  <2>1. Fits(b, new, batches', doubtful', tally')
    BY <1>1, <1>2, <1>3, <1>4 DEF Fits
  <2> QED BY <2>1, Replaced
<1>6. ItemTypeOK' /\ Waiting'
  BY <1>1, <1>2, <1>3, <1>4, <1>5, AgentShape
<1>7. \A i \in Items : OvertakenIn(batches, i) => OvertakenIn(batches', i)
  BY <1>1, <1>5 DEF OvertakenIn, LiveIn
<1>8. SyncedIsShown'
  BY <1>3, <1>7, StillShown
<1> QED BY <1>5, <1>6, <1>8 DEF IInv

(* The agent stops holding the batch: nothing of it was sent, or it will   *)
(* never report.                                                           *)
LEMMA LetGoStep ==
  ASSUME IInv, NEW b \in DOMAIN batches,
         StopAtCompany(b) \/ Lose(b) \/ ReportIgnored(b)
  PROVE  IInv' /\ DOMAIN batches' = DOMAIN batches
<1>1. PICK a \in {"refused", "silent"} :
        /\ batches' = [batches EXCEPT ![b].agent = a]
        /\ a = "refused" => batches[b].agent = "held"
  BY DEF StopAtCompany, Lose, ReportIgnored
<1> DEFINE new == [batches[b] EXCEPT !.agent = a]
<1>2. /\ batches[b] \in Batch /\ batches[b].status # "queued"
      /\ batches[b].agent \in {"accepted", "silent"} => a = "silent"
  BY <1>1, Domain DEF IInv, Orderly, StopAtCompany, Lose, ReportIgnored
<1>3. /\ new \in Batch /\ new.price = batches[b].price
      /\ new.rest = batches[b].rest /\ new.run = batches[b].run
      /\ new.status = batches[b].status /\ new.agent = a
  BY <1>2 DEF Batch
<1>4. /\ batches' = [batches EXCEPT ![b] = new]
      /\ UNCHANGED <<rate, edits, asked, push, sent, known, fresh, tally, doubtful>>
  BY <1>1 DEF StopAtCompany, Lose, ReportIgnored, shopVars, stateVars, checkVars
<1> HIDE DEF new
<1>5. tally' \in [Items -> Rates \cup {NotThere}] /\ doubtful' \in SUBSET Items
  BY <1>4 DEF IInv, ItemTypeOK
<1>6. /\ Orderly(batches', doubtful', tally')
      /\ DOMAIN batches' = DOMAIN batches
      /\ \A k \in DOMAIN batches : batches'[k] = IF k = b THEN new ELSE batches[k]
  <2>1. new.status \notin {"queued", "sent"} /\ new.agent = "held" => ItemsOf(b) \subseteq doubtful'
    BY <1>3
  <2>2. new.agent # "accepted"
    BY <1>3
  <2>3. Fits(b, new, batches', doubtful', tally')
    BY <1>2, <1>3, <1>4, <1>5, <2>1, <2>2 DEF Fits, Live
  <2> QED BY <2>3, Replaced
<1>7. ItemTypeOK' /\ Waiting'
  BY <1>3, <1>4, <1>5, <1>6, AgentShape
<1>8. \A i \in Items : OvertakenIn(batches, i) => OvertakenIn(batches', i)
  BY <1>2, <1>3, <1>6 DEF OvertakenIn, LiveIn
<1>9. SyncedIsShown'
  BY <1>4, <1>8, StillShown
<1> QED BY <1>6, <1>7, <1>9 DEF IInv

LEMMA ImportStep ==
  ASSUME IInv, NEW b \in DOMAIN batches, Import(b)
  PROVE  IInv' /\ DOMAIN batches' = DOMAIN batches
<1>1. PICK taken \in SUBSET ItemsOf(b), answered \in BOOLEAN :
        /\ tally' = [i \in Items |-> IF i \in taken THEN batches[b].price[i] ELSE tally[i]]
        /\ batches' = [batches EXCEPT ![b].agent =
                         IF answered /\ taken = ItemsOf(b) THEN "accepted" ELSE "refused"]
  BY DEF Import
<1> DEFINE a == IF answered /\ taken = ItemsOf(b) THEN "accepted" ELSE "refused"
           new == [batches[b] EXCEPT !.agent = a]
<1>2. /\ batches[b] \in Batch /\ batches[b].status # "queued" /\ batches[b].agent = "held"
      /\ \A k \in DOMAIN batches : batches[k].agent # "accepted"
  BY Domain DEF IInv, Orderly, Import, Reporting
<1>3. a \in {"accepted", "refused"} /\ (a = "accepted" => taken = ItemsOf(b))
  OBVIOUS
<1>4. batches' = [batches EXCEPT ![b].agent = a]
  BY <1>1
<1> HIDE DEF a
<1>5. /\ new \in Batch /\ new.price = batches[b].price
      /\ new.rest = batches[b].rest /\ new.run = batches[b].run
      /\ new.status = batches[b].status /\ new.agent = a
  BY <1>2, <1>3 DEF Batch
<1>6. /\ batches' = [batches EXCEPT ![b] = new]
      /\ UNCHANGED <<rate, edits, asked, push, sent, known, fresh>>
  BY <1>4 DEF Import, shopVars, stateVars, checkVars
<1> HIDE DEF new
<1>7. /\ ItemsOf(b) \in SUBSET Items /\ ItemsOf(b) = DOMAIN batches[b].price
      /\ \A i \in ItemsOf(b) : batches[b].price[i] \in Rates
      /\ batches'[b].agent = a
  <2>1. /\ ItemsOf(b) \in SUBSET Items /\ ItemsOf(b) = DOMAIN batches[b].price
        /\ \A i \in ItemsOf(b) : batches[b].price[i] \in Rates
    BY Domain
  <2>2. batches'[b].agent = a
    BY <1>5, <1>6
  <2> QED BY <2>1, <2>2
<1>8. doubtful' = IF a = "refused" THEN doubtful \cup ItemsOf(b) ELSE doubtful
  BY <1>7 DEF Import
<1>9. /\ doubtful' \in SUBSET Items /\ doubtful \subseteq doubtful'
      /\ tally' \in [Items -> Rates \cup {NotThere}]
      /\ \A i \in Items : i \notin taken => tally'[i] = tally[i]
      /\ \A i \in taken : tally'[i] = batches[b].price[i]
  BY <1>1, <1>7, <1>8 DEF IInv, ItemTypeOK
<1>10. ~Live(b) => ItemsOf(b) \subseteq doubtful
  BY <1>2, <1>7 DEF IInv, Orderly, LiveIn, Live
<1>11. a = "accepted" => \A i \in ItemsOf(b) : tally'[i] = batches[b].price[i]
  BY <1>3, <1>9
<1>12. new.status \in {"queued", "sent"} => Live(b)
  BY <1>5 DEF Live
<1>13. new.agent # "held"
  BY <1>3, <1>5
<1>14. /\ Orderly(batches', doubtful', tally')
       /\ DOMAIN batches' = DOMAIN batches
       /\ \A k \in DOMAIN batches : batches'[k] = IF k = b THEN new ELSE batches[k]
  <2>1. Fits(b, new, batches', doubtful', tally')
    BY <1>2, <1>5, <1>6, <1>9, <1>11, <1>12, <1>13 DEF Fits
  <2> QED BY <2>1, Replaced
<1>15. ItemTypeOK' /\ Waiting'
  BY <1>5, <1>6, <1>9, <1>14, AgentShape
<1>16. SyncedIsShown'
  <2> SUFFICES ASSUME NEW i \in Items, push[i] = "synced", i \notin doubtful',
                      ~OvertakenIn(batches', i)
               PROVE  tally'[i] = sent[i] /\ sent[i] # NotThere
    BY <1>6 DEF SyncedIsShown
  <2>1. ~OvertakenIn(batches, i)
    BY <1>2, <1>14 DEF OvertakenIn, LiveIn
  <2>2. tally[i] = sent[i] /\ sent[i] # NotThere
    BY <1>9, <2>1 DEF IInv, SyncedIsShown
  <2>3. i \in ItemsOf(b) => Live(b) /\ a = "accepted"
    BY <1>3, <1>8, <1>9, <1>10
  <2>4. i \notin ItemsOf(b)
    <3> SUFFICES ASSUME i \in ItemsOf(b) PROVE FALSE
      OBVIOUS
    <3>1. LiveIn(batches', b) /\ batches'[b].agent = "accepted" /\ i \in DOMAIN batches'[b].price
      BY <1>5, <1>7, <1>14, <2>3 DEF LiveIn, Live
    <3> QED BY <1>14, <3>1 DEF OvertakenIn
  <2> QED BY <1>9, <2>2, <2>4
<1> QED BY <1>14, <1>15, <1>16 DEF IInv

-----------------------------------------------------------------------------
(* Steps of the shop's server: a batch ends, or one begins.                *)

(* b ends as new.                                                          *)
Ends(b, new, bs, d) ==
  /\ b \in DOMAIN batches /\ Live(b) /\ new \in Batch /\ bs = [batches EXCEPT ![b] = new]
  /\ new.status \in {"ok", "error"} /\ new.run = batches[b].run
  /\ new.price = batches[b].price
  /\ d \in SUBSET Items /\ doubtful \subseteq d
  /\ new.agent = "held" => ItemsOf(b) \subseteq d

(* Then the other batches go on as they were; what waited elsewhere waits  *)
(* there still.                                                            *)
LEMMA EndShape ==
  ASSUME IInv, NEW b, NEW new, NEW bs, NEW d, Ends(b, new, bs, d)
  PROVE  /\ Orderly(bs, d, tally)
         /\ DOMAIN bs = DOMAIN batches /\ Len(bs) = Len(batches)
         /\ bs[b] = new
         /\ \A k \in DOMAIN batches : k # b => bs[k] = batches[k]
         /\ \A k \in DOMAIN bs : bs[k].run = batches[b].run => bs[k].status = "ok" \/ k = b
         /\ \A i \in Items : WaitsIn(batches, i) =>
              i \in ItemsOf(b) \cup batches[b].rest \/ WaitsIn(bs, i)
         /\ \A i \in Items : OvertakenIn(batches, i) =>
              \/ i \in ItemsOf(b) /\ batches[b].agent \in {"accepted", "silent"}
              \/ OvertakenIn(bs, i)
<1>1. /\ Orderly(bs, d, tally) /\ DOMAIN bs = DOMAIN batches /\ Len(bs) = Len(batches)
      /\ \A k \in DOMAIN batches : bs[k] = IF k = b THEN new ELSE batches[k]
      /\ b \in DOMAIN batches /\ Live(b) /\ ~(new.status \in {"queued", "sent"})
  <2>1. Fits(b, new, bs, d, tally)
    BY DEF Ends, Fits, Live
  <2> QED BY <2>1, Replaced DEF Ends
<1>2. \A k \in DOMAIN bs : bs[k].run = batches[b].run => bs[k].status = "ok" \/ k = b
  BY <1>1 DEF IInv, Orderly, LiveIn, Live
<1>3. \A i \in Items : WaitsIn(batches, i) =>
        i \in ItemsOf(b) \cup batches[b].rest \/ WaitsIn(bs, i)
  BY <1>1 DEF WaitsIn, LiveIn, ItemsOf
<1>4. \A i \in Items : OvertakenIn(batches, i) =>
        \/ i \in ItemsOf(b) /\ batches[b].agent \in {"accepted", "silent"}
        \/ OvertakenIn(bs, i)
  BY <1>1 DEF OvertakenIn, LiveIn, ItemsOf
<1> QED BY <1>1, <1>2, <1>3, <1>4

LEMMA ExpireStep ==
  ASSUME IInv, NEW b \in DOMAIN batches, Expire(b)
  PROVE  IInv' /\ DOMAIN batches' = DOMAIN batches
<1> DEFINE a == IF batches[b].agent = "none" THEN "silent" ELSE batches[b].agent
           new == [batches[b] EXCEPT !.status = "error", !.rest = {}, !.agent = a]
           gone == ItemsOf(b) \cup batches[b].rest
<1>1. /\ batches[b] \in Batch /\ Live(b) /\ gone \in SUBSET Items
      /\ ItemsOf(b) \in SUBSET Items
  BY Domain DEF Expire, Batch
<1>2. /\ a \in {"held", "accepted", "refused", "silent"}
      /\ a # "silent" => batches[b].agent = a /\ batches[b].agent # "none"
  BY <1>1 DEF Batch
<1>3. batches' = [batches EXCEPT ![b].status = "error", ![b].rest = {}, ![b].agent = a]
  BY DEF Expire
<1> HIDE DEF a
<1>4. /\ new \in Batch /\ new.price = batches[b].price /\ new.run = batches[b].run
      /\ new.status = "error" /\ new.agent = a
  BY <1>1, <1>2 DEF Batch
<1>5. /\ batches' = [batches EXCEPT ![b] = new]
      /\ UNCHANGED <<rate, edits, asked, known, fresh, tally, sent>>
  BY <1>3 DEF Expire, shopVars, checkVars
<1> HIDE DEF new, gone
<1>6. /\ push' = SetStatus(push, gone, "none")
      /\ doubtful' = IF batches[b].agent = "none" THEN doubtful ELSE doubtful \cup ItemsOf(b)
  BY DEF Expire, gone
<1>7. /\ push' \in [Items -> Statuses]
      /\ \A i \in Items : push'[i] = "queued" => push[i] = "queued" /\ i \notin gone
      /\ \A i \in Items : push'[i] = "synced" <=> push[i] = "synced"
  BY <1>1, <1>6, Setting DEF IInv, ItemTypeOK, Statuses
<1>8. /\ doubtful' \in SUBSET Items /\ doubtful \subseteq doubtful'
      /\ batches[b].agent # "none" => ItemsOf(b) \subseteq doubtful'
  BY <1>1, <1>6 DEF IInv, ItemTypeOK
<1>9. /\ Orderly(batches', doubtful', tally)
      /\ DOMAIN batches' = DOMAIN batches
      /\ \A i \in Items : WaitsIn(batches, i) => i \in gone \/ WaitsIn(batches', i)
      /\ \A i \in Items : OvertakenIn(batches, i) =>
           \/ i \in ItemsOf(b) /\ batches[b].agent \in {"accepted", "silent"}
           \/ OvertakenIn(batches', i)
  <2>1. Ends(b, new, batches', doubtful')
    BY <1>1, <1>2, <1>4, <1>5, <1>8 DEF Ends
  <2> QED BY <2>1, EndShape DEF gone
<1>10. ItemTypeOK'
  BY <1>5, <1>7, <1>8, <1>9, Typed DEF IInv, ItemTypeOK
<1>11. Waiting'
  BY <1>7, <1>9 DEF IInv, Waiting
<1>12. SyncedIsShown'
  <2> SUFFICES ASSUME NEW i \in Items, push[i] = "synced", i \notin doubtful',
                      ~OvertakenIn(batches', i)
               PROVE  tally[i] = sent[i] /\ sent[i] # NotThere
    BY <1>5, <1>7 DEF SyncedIsShown
  <2>1. ~OvertakenIn(batches, i)
    BY <1>8, <1>9
  <2> QED BY <1>8, <2>1 DEF IInv, SyncedIsShown
<1> QED BY <1>5, <1>9, <1>10, <1>11, <1>12 DEF IInv

LEMMA FailedStep ==
  ASSUME IInv, NEW b \in DOMAIN batches, ReportFailed(b)
  PROVE  IInv' /\ DOMAIN batches' = DOMAIN batches
<1> DEFINE new == [batches[b] EXCEPT !.status = "error", !.rest = {}, !.agent = "silent"]
           failed == SetStatus(push, ItemsOf(b), "error")
<1>1. /\ batches[b] \in Batch /\ Live(b) /\ batches[b].agent = "refused"
      /\ ItemsOf(b) \in SUBSET Items /\ batches[b].rest \in SUBSET Items
  BY Domain DEF ReportFailed, Batch
<1>2. /\ new \in Batch /\ new.price = batches[b].price /\ new.run = batches[b].run
      /\ new.status = "error" /\ new.agent = "silent"
  BY <1>1 DEF Batch
<1>3. /\ batches' = [batches EXCEPT ![b] = new]
      /\ UNCHANGED <<rate, edits, asked, known, fresh, tally, sent, doubtful>>
      /\ push' = SetStatus(failed, batches[b].rest, "none")
  BY DEF ReportFailed, shopVars, checkVars
<1> HIDE DEF new
<1>4. /\ failed \in [Items -> Statuses]
      /\ \A i \in Items : failed[i] = "queued" => push[i] = "queued" /\ i \notin ItemsOf(b)
      /\ \A i \in Items : failed[i] = "synced" <=> push[i] = "synced"
  BY <1>1, Setting DEF IInv, ItemTypeOK, Statuses
<1> HIDE DEF failed
<1>5. /\ push' \in [Items -> Statuses]
      /\ \A i \in Items : push'[i] = "queued" => failed[i] = "queued" /\ i \notin batches[b].rest
      /\ \A i \in Items : push'[i] = "synced" <=> failed[i] = "synced"
  BY <1>1, <1>3, <1>4, Setting DEF Statuses
<1>6. doubtful' \in SUBSET Items
  BY <1>3 DEF IInv, ItemTypeOK
<1>7. /\ Orderly(batches', doubtful', tally)
      /\ DOMAIN batches' = DOMAIN batches
      /\ \A i \in Items : WaitsIn(batches, i) =>
           i \in ItemsOf(b) \cup batches[b].rest \/ WaitsIn(batches', i)
      /\ \A i \in Items : OvertakenIn(batches, i) =>
           \/ i \in ItemsOf(b) /\ batches[b].agent \in {"accepted", "silent"}
           \/ OvertakenIn(batches', i)
  <2>1. Ends(b, new, batches', doubtful')
    BY <1>1, <1>2, <1>3, <1>6 DEF Ends
  <2> QED BY <1>3, <2>1, EndShape
<1>8. ItemTypeOK'
  BY <1>3, <1>5, <1>6, <1>7, Typed DEF IInv, ItemTypeOK
<1>9. Waiting'
  BY <1>4, <1>5, <1>7 DEF IInv, Waiting
<1>10. SyncedIsShown'
  BY <1>1, <1>3, <1>4, <1>5, <1>7 DEF IInv, SyncedIsShown
<1> QED BY <1>3, <1>7, <1>8, <1>9, <1>10 DEF IInv

(* A new batch of todo follows bs, where all of its run went well.         *)
Follows(bs, run, todo, price) ==
  /\ Orderly(bs, doubtful, tally) /\ DOMAIN bs = DOMAIN batches
  /\ run \in Nat /\ run <= Len(bs) + 1
  /\ \A k \in DOMAIN bs : bs[k].run = run => bs[k].status = "ok"
  /\ todo \in SUBSET Items /\ \A i \in todo : price[i] \in Rates
  /\ batches' \in Enqueue(bs, run, todo, price)

(* Then the batches are as they should be, and no failure was passed over. *)
LEMMA BeginShape ==
  ASSUME NEW bs, NEW run, NEW todo, NEW price, Follows(bs, run, todo, price)
  PROVE  /\ Orderly(batches', doubtful, tally) /\ FailureStops
         /\ \A i \in Items : i \in todo \/ WaitsIn(bs, i) => WaitsIn(batches', i)
         /\ \A i \in Items : OvertakenIn(bs, i) => OvertakenIn(batches', i)
<1> DEFINE n == Len(bs) + 1
<1> USE DEF Follows
<1>1. /\ batches' \in Seq(Batch)
      /\ n \in Nat /\ n \notin DOMAIN bs /\ DOMAIN batches' = DOMAIN bs \cup {n}
      /\ \A k \in DOMAIN bs : batches'[k] = bs[k]
      /\ batches'[n].status = "queued" /\ batches'[n].agent = "none" /\ batches'[n].run = run
      /\ DOMAIN batches'[n].price \cup batches'[n].rest = todo
  <2>1. PICK s \in SUBSET todo :
          batches' = Append(bs, [status |-> "queued", price |-> [i \in s |-> price[i]],
                                 rest |-> todo \ s, run |-> run, agent |-> "none"])
    BY DEF Enqueue
  <2> DEFINE new == [status |-> "queued", price |-> [i \in s |-> price[i]], rest |-> todo \ s,
                     run |-> run, agent |-> "none"]
  <2>2. [i \in s |-> price[i]] \in PriceList
    BY PriceLists
  <2>3. /\ new \in Batch /\ new.status = "queued" /\ new.agent = "none" /\ new.run = run
        /\ DOMAIN new.price \cup new.rest = todo
    BY <2>2 DEF Batch
  <2>4. batches' = Append(bs, new)
    BY <2>1
  <2> HIDE DEF new
  <2>5. /\ batches' \in Seq(Batch) /\ Len(batches') = Len(bs) + 1
        /\ \A k \in 1..Len(bs) : batches'[k] = bs[k]
        /\ batches'[Len(bs) + 1] = new
    BY <2>3, <2>4, AppendProperties DEF Orderly
  <2>6. /\ Len(bs) \in Nat /\ DOMAIN bs = 1..Len(bs)
        /\ DOMAIN batches' = 1..(Len(bs) + 1)
    BY <2>5, LenProperties DEF Orderly
  <2>7. 1..(Len(bs) + 1) = 1..Len(bs) \cup {Len(bs) + 1} /\ Len(bs) + 1 \notin 1..Len(bs)
    BY <2>6
  <2> QED BY <2>3, <2>5, <2>6, <2>7
<1>2. run <= n
  OBVIOUS
<1> HIDE DEF n
<1>3. LiveIn(batches', n) /\ \A k \in DOMAIN bs : LiveIn(batches', k) <=> LiveIn(bs, k)
  BY <1>1 DEF LiveIn
<1>4. \A k \in DOMAIN batches' : batches'[k].run <= k
  BY <1>1, <1>2 DEF Orderly
<1>5. ASSUME NEW k \in DOMAIN batches', NEW c \in DOMAIN batches',
             LiveIn(batches', k), k # c, batches'[c].run = batches'[k].run
      PROVE  batches'[c].status = "ok"
  <2>1. CASE k = n
    BY <1>1, <1>5, <2>1
  <2>2. CASE k # n /\ c # n
    BY <1>1, <1>3, <1>5, <2>2 DEF Orderly
  <2>3. CASE k # n /\ c = n
    <3>1. bs[k].status = "ok"
      BY <1>1, <1>5, <2>3
    <3> QED BY <1>1, <1>3, <1>5, <2>3, <3>1 DEF LiveIn
  <2> QED BY <2>1, <2>2, <2>3
<1>6. \A k \in DOMAIN batches' : batches'[k].status = "queued" => batches'[k].agent = "none"
  BY <1>1 DEF Orderly
<1>7. /\ \A k \in DOMAIN batches' : ~LiveIn(batches', k) /\ batches'[k].agent = "held" =>
           DOMAIN batches'[k].price \subseteq doubtful
      /\ \A k \in DOMAIN batches' : \A i \in DOMAIN batches'[k].price :
           LiveIn(batches', k) /\ batches'[k].agent = "accepted" =>
             i \in doubtful \/ tally[i] = batches'[k].price[i]
  BY <1>1, <1>3 DEF Orderly
<1>8. Orderly(batches', doubtful, tally)
  BY <1>1, <1>4, <1>5, <1>6, <1>7 DEF Orderly
<1>9. FailureStops
  BY <1>1 DEF FailureStops
<1>10. \A i \in Items : i \in todo \/ WaitsIn(bs, i) => WaitsIn(batches', i)
  BY <1>1, <1>3 DEF WaitsIn
<1>11. \A i \in Items : OvertakenIn(bs, i) => OvertakenIn(batches', i)
  BY <1>1, <1>3 DEF OvertakenIn
<1> QED BY <1>8, <1>9, <1>10, <1>11

LEMMA StartStep ==
  ASSUME IInv, NEW u \in Users, StartRun(u)
  PROVE  IInv' /\ FailureStops
<1> DEFINE run == Len(batches) + 1
           todo == DOMAIN asked[u]
<1>1. /\ batches \in Seq(Batch) /\ run \in Nat /\ run <= Len(batches) + 1
      /\ DOMAIN batches = 1..Len(batches) /\ Len(batches) \in Nat
      /\ \A k \in DOMAIN batches : batches[k] \in Batch
  BY Domain
<1>2. \A k \in DOMAIN batches : batches[k].run = run => batches[k].status = "ok"
  <2> TAKE k \in DOMAIN batches
  <2>1. batches[k].run \in Nat /\ batches[k].run <= k /\ k < run
    BY <1>1 DEF IInv, Orderly, Batch
  <2> QED BY <1>1, <2>1
<1>3. asked[u] \in PriceList
  BY DEF StartRun, IInv, ItemTypeOK
<1>4. todo \in SUBSET Items /\ \A i \in todo : asked[u][i] \in Rates
  BY <1>3, PriceLists
<1>5. /\ batches' \in Enqueue(batches, run, todo, asked[u])
      /\ UNCHANGED <<rate, edits, sent, known, fresh, tally, doubtful>>
      /\ push' = SetStatus(push, todo, "queued")
      /\ asked' \in [Users -> PriceList \cup {NoPush}]
  BY DEF StartRun, checkVars, IInv, ItemTypeOK
<1> HIDE DEF run, todo
<1>6. /\ push' \in [Items -> Statuses]
      /\ \A i \in Items \ todo : push'[i] = push[i]
      /\ \A i \in Items : push'[i] = "synced" <=> push[i] = "synced"
  BY <1>4, <1>5, Setting DEF IInv, ItemTypeOK, Statuses
<1>7. /\ Orderly(batches', doubtful, tally) /\ FailureStops
      /\ \A i \in Items : i \in todo \/ WaitsIn(batches, i) => WaitsIn(batches', i)
      /\ \A i \in Items : OvertakenIn(batches, i) => OvertakenIn(batches', i)
  <2>1. Follows(batches, run, todo, asked[u])
    BY <1>1, <1>2, <1>4, <1>5 DEF IInv, Follows
  <2> QED BY <2>1, BeginShape
<1>8. ItemTypeOK'
  BY <1>5, <1>6, <1>7, Typed DEF IInv, ItemTypeOK
<1>9. Waiting'
  BY <1>6, <1>7 DEF IInv, Waiting
<1>10. SyncedIsShown'
  BY <1>5, <1>6, <1>7 DEF IInv, SyncedIsShown
<1> QED BY <1>5, <1>7, <1>8, <1>9, <1>10 DEF IInv

LEMMA AcceptedStep ==
  ASSUME IInv, NEW b \in DOMAIN batches, ReportAccepted(b)
  PROVE  IInv' /\ FailureStops
<1> DEFINE new == [batches[b] EXCEPT !.status = "ok", !.rest = {}, !.agent = "silent"]
           bs == [batches EXCEPT ![b] = new]
           now == SetStatus(push, ItemsOf(b), "synced")
           rest == batches[b].rest
           run == batches[b].run
<1>1. /\ batches[b] \in Batch /\ Live(b) /\ batches[b].agent = "accepted"
      /\ ItemsOf(b) \in SUBSET Items /\ ItemsOf(b) = DOMAIN batches[b].price
      /\ rest \in SUBSET Items /\ run \in Nat
      /\ \A i \in ItemsOf(b) : batches[b].price[i] \in Rates
  BY Domain DEF ReportAccepted, Batch
<1>2. /\ new \in Batch /\ new.price = batches[b].price /\ new.run = run
      /\ new.status = "ok" /\ new.agent = "silent"
  BY <1>1 DEF Batch
<1>3. /\ UNCHANGED <<rate, edits, asked, known, fresh, tally, doubtful>>
      /\ sent' = [i \in Items |-> IF i \in ItemsOf(b) THEN batches[b].price[i] ELSE sent[i]]
      /\ \/ batches' \in Enqueue(bs, run, rest, rate) /\ push' = now
         \/ batches' = bs /\ push' = SetStatus(now, rest, "none")
  BY DEF ReportAccepted, RecordSent, shopVars, checkVars
<1> HIDE DEF new
<1>4. /\ now \in [Items -> Statuses]
      /\ \A i \in ItemsOf(b) : now[i] = "synced"
      /\ \A i \in Items \ ItemsOf(b) : now[i] = push[i]
  BY <1>1, Setting DEF IInv, ItemTypeOK, Statuses
<1> HIDE DEF now
<1>5. /\ push' \in [Items -> Statuses]
      /\ \A i \in Items : push'[i] = "synced" <=> now[i] = "synced"
      /\ \A i \in Items : push'[i] = "queued" => push[i] = "queued" /\ i \notin ItemsOf(b)
      /\ batches' = bs => \A i \in rest : push'[i] # "queued" \/ batches' \in Enqueue(bs, run, rest, rate)
  <2>1. CASE push' = now /\ batches' \in Enqueue(bs, run, rest, rate)
    BY <1>4, <2>1
  <2>2. CASE push' = SetStatus(now, rest, "none")
    BY <1>1, <1>4, <2>2, Setting DEF Statuses
  <2> QED BY <1>3, <2>1, <2>2
<1>6. /\ sent' \in [Items -> Rates \cup {NotThere}] /\ doubtful \in SUBSET Items
      /\ rate \in [Items -> Rates]
  BY <1>1, <1>3 DEF IInv, ItemTypeOK
<1>7. /\ Orderly(bs, doubtful, tally)
      /\ DOMAIN bs = DOMAIN batches /\ Len(bs) = Len(batches) /\ bs[b] = new
      /\ \A k \in DOMAIN bs : bs[k].run = run => bs[k].status = "ok" \/ k = b
      /\ \A i \in Items : WaitsIn(batches, i) => i \in ItemsOf(b) \cup rest \/ WaitsIn(bs, i)
      /\ \A i \in Items : OvertakenIn(batches, i) => i \in ItemsOf(b) \/ OvertakenIn(bs, i)
  <2>1. Ends(b, new, bs, doubtful)
    BY <1>1, <1>2, <1>6 DEF Ends
  <2> HIDE DEF bs
  <2> QED BY <1>1, <2>1, EndShape
<1> HIDE DEF bs, rest, run
<1>8. /\ Orderly(batches', doubtful, tally) /\ FailureStops
      /\ \A i \in Items : push'[i] = "queued" => WaitsIn(batches', i)
      /\ \A i \in Items : OvertakenIn(bs, i) => OvertakenIn(batches', i)
  <2>1. CASE batches' \in Enqueue(bs, run, rest, rate)
    <3>1. run <= Len(bs) + 1
      <4>1. run <= b /\ b \in 1..Len(batches) /\ Len(batches) \in Nat
        BY Domain DEF IInv, Orderly, run
      <4> QED BY <1>1, <1>7, <4>1
    <3>2. \A k \in DOMAIN bs : bs[k].run = run => bs[k].status = "ok"
      BY <1>2, <1>7
    <3>3. \A i \in rest : rate[i] \in Rates
      BY <1>1, <1>6
    <3>4. /\ Orderly(batches', doubtful, tally) /\ FailureStops
          /\ \A i \in Items : i \in rest \/ WaitsIn(bs, i) => WaitsIn(batches', i)
          /\ \A i \in Items : OvertakenIn(bs, i) => OvertakenIn(batches', i)
      <4>1. Follows(bs, run, rest, rate)
        BY <1>1, <1>7, <2>1, <3>1, <3>2, <3>3 DEF Follows
      <4> QED BY <4>1, BeginShape
    <3> QED BY <1>5, <1>7, <3>4 DEF IInv, Waiting
  <2>2. CASE batches' = bs /\ batches' \notin Enqueue(bs, run, rest, rate)
    BY <1>5, <1>7, <2>2 DEF IInv, Waiting, FailureStops
  <2> QED BY <1>3, <2>1, <2>2
<1>9. ItemTypeOK'
  BY <1>3, <1>5, <1>6, <1>8, Typed DEF IInv, ItemTypeOK
<1>10. SyncedIsShown'
  <2> SUFFICES ASSUME NEW i \in Items, push'[i] = "synced", i \notin doubtful,
                      ~OvertakenIn(batches', i)
               PROVE  tally[i] = sent'[i] /\ sent'[i] # NotThere
    BY <1>3 DEF SyncedIsShown
  <2>1. CASE i \in ItemsOf(b)
    <3>1. tally[i] = batches[b].price[i]
      BY <1>1, <2>1 DEF IInv, Orderly, LiveIn, Live
    <3>2. sent'[i] = batches[b].price[i] /\ batches[b].price[i] \in Rates
      BY <1>1, <1>3, <2>1
    <3> QED BY <3>1, <3>2, ItemConstantsOK DEF NotThere
  <2>2. CASE i \notin ItemsOf(b)
    <3>1. push[i] = "synced" /\ sent'[i] = sent[i]
      BY <1>3, <1>4, <1>5, <2>2
    <3>2. ~OvertakenIn(batches, i)
      BY <1>7, <1>8, <2>2
    <3> QED BY <3>1, <3>2 DEF IInv, SyncedIsShown
  <2> QED BY <2>1, <2>2
<1> QED BY <1>3, <1>8, <1>9, <1>10 DEF IInv, Waiting

-----------------------------------------------------------------------------
(* The invariant, and what it says.                                        *)

LEMMA ItemStart == ItemInit => IInv
<1> SUFFICES ASSUME ItemInit PROVE IInv
  OBVIOUS
<1>1. /\ batches = <<>> /\ DOMAIN batches = {} /\ batches \in Seq(Batch)
      /\ \A i \in Items : push[i] = "none"
  BY EmptySeq DEF ItemInit
<1>2. ItemTypeOK
  <2>1. edits \in 0..MaxEdits
    BY ItemConstantsOK DEF ItemInit
  <2>2. /\ push \in [Items -> {"none", "queued", "error", "synced"}]
        /\ sent \in [Items -> Rates \cup {NotThere}]
        /\ tally \in [Items -> Rates \cup {NotThere}]
        /\ asked \in [Users -> PriceList \cup {NoPush}]
    BY DEF ItemInit
  <2> QED BY <1>1, <2>1, <2>2 DEF ItemInit, ItemTypeOK
<1> QED BY <1>1, <1>2 DEF IInv, Waiting, Orderly, SyncedIsShown

LEMMA ItemStep ==
  ASSUME IInv, [ItemNext]_itemVars
  PROVE  IInv' /\ FailureStops
<1>1. CASE \/ \E i \in Items, p \in Rates : EditRate(i, p)
           \/ \E u \in Users : PushFails(u)
           \/ CheckTally
           \/ GoesStale
           \/ UNCHANGED itemVars
  BY <1>1, QuietStep DEF FailureStops
<1>2. ASSUME NEW u \in Users, NEW chosen \in SUBSET Items, NEW includeSynced \in BOOLEAN,
             NEW skipExisting \in BOOLEAN, Preflight(u, ToPush(chosen, includeSynced, skipExisting))
      PROVE  IInv' /\ FailureStops
  <2>1. ToPush(chosen, includeSynced, skipExisting) \in SUBSET Items
    BY DEF ToPush
  <2> QED BY <1>2, <2>1, QuietStep DEF FailureStops
<1>3. CASE \E u \in Users : StartRun(u)
  BY <1>3, StartStep
<1>4. ASSUME NEW b \in DOMAIN batches, Agent(b) \/ Report(b) \/ Expire(b)
      PROVE  IInv' /\ FailureStops
  <2>1. CASE Deliver(b)
    BY <2>1, DeliverStep DEF FailureStops
  <2>2. CASE Import(b)
    BY <2>2, ImportStep DEF FailureStops
  <2>3. CASE StopAtCompany(b) \/ Lose(b) \/ ReportIgnored(b)
    BY <2>3, LetGoStep DEF FailureStops
  <2>4. CASE ReportFailed(b)
    BY <2>4, FailedStep DEF FailureStops
  <2>5. CASE ReportAccepted(b)
    BY <2>5, AcceptedStep
  <2>6. CASE Expire(b)
    BY <2>6, ExpireStep DEF FailureStops
  <2> QED BY <1>4, <2>1, <2>2, <2>3, <2>4, <2>5, <2>6 DEF Agent, Report
<1> QED BY <1>1, <1>2, <1>3, <1>4 DEF ItemNext, Shop, StockCheck

(* The agreement of the batches with the items, the agent and Tally is     *)
(* kept by every step: IInv is inductive.                                  *)
THEOREM ItemInvariant == ItemSpec => []IInv
<1>1. IInv /\ [ItemNext]_itemVars => IInv'
  BY ItemStep
<1> QED BY <1>1, ItemStart, PTL DEF ItemSpec

(* The state keeps its shape, and of each run one batch at most is in      *)
(* flight, however many runs there are at once.                            *)
THEOREM ItemTypes == ItemSpec => []ItemTypeOK
<1>1. IInv => ItemTypeOK
  BY DEF IInv
<1> QED BY <1>1, ItemInvariant, PTL

(* An item marked queued waits in a batch in flight or behind it.          *)
THEOREM NoneLeftQueued == ItemSpec => []RowsFollowBatch
<1>1. IInv => RowsFollowBatch
  BY DEF IInv, Waiting, WaitsIn, LiveIn, RowsFollowBatch, Live, ItemsOf
<1> QED BY <1>1, ItemInvariant, PTL

(* An item held to be in Tally at a price is there at it, or may not be    *)
(* for a reason the server could know of.                                  *)
THEOREM PricesKnown == ItemSpec => []PriceKnown
<1>1. IInv => PriceKnown
  BY DEF IInv, SyncedIsShown, OvertakenIn, LiveIn, PriceKnown, Live, ItemsOf
<1> QED BY <1>1, ItemInvariant, PTL

(* A batch follows only batches of its run that went well.                 *)
THEOREM NothingAfterFailure == ItemSpec => FirstFailureStopsRun
<1>1. IInv /\ [ItemNext]_itemVars => [FailureStops]_itemVars
  BY ItemStep
<1>2. ItemSpec => [][FailureStops]_itemVars
  <2> HIDE DEF FailureStops
  <2> QED BY <1>1, ItemInvariant, PTL DEF ItemSpec
<1> QED BY <1>2 DEF FailureStops, FirstFailureStopsRun
=============================================================================

------------------------------ MODULE ItemPush ------------------------------
(***************************************************************************)
(* Sending the shop's items to its Tally company: a run of small batches,  *)
(* one Tally job each, strictly one after the other, the first failure     *)
(* ending the run.  A batch is given to the agent once; an agent that      *)
(* stops never answers, and a batch that has waited ten minutes is given   *)
(* up by whoever looks next, even if Tally has taken it, or takes it yet.  *)
(* A request for a run looks whether one is in flight and queues its first *)
(* batch later, with no lock in between: two requests may both find none.  *)
(*                                                                         *)
(* A definition whose comment begins with "Slip" is a deliberate mistake   *)
(* that stands for no code: it takes the place of the definition after it  *)
(* to show that the properties notice it.                                  *)
(***************************************************************************)
EXTENDS Integers, Sequences, FiniteSets

CONSTANTS Items,        \* items of the shop; each has a name of its own
          Rates,        \* what an item may be sold for
          BatchSize,    \* BATCH_SIZE
          Users,        \* who may ask for a run at the same time
          NoPush,       \* no request of this user is under way
          MaxBatches,   \* bound: batches ever made
          MaxEdits      \* bound: how often a rate is changed

(* The rates of some items: what a request has decided to send, and what   *)
(* is in a batch.                                                          *)
PriceList == UNION {[S -> Rates] : S \in SUBSET Items}

ASSUME ItemConstantsOK ==
  /\ IsFiniteSet(Items)
  /\ Rates \subseteq Nat \ {0}
  /\ BatchSize \in Nat \ {0}
  /\ NoPush \notin PriceList
  /\ {MaxBatches, MaxEdits} \subseteq Nat

NotThere == 0           \* the rate of an item Tally does not have

VARIABLES
  rate,      \* [Items -> the item's own selling rate]
  edits,     \* how often one was changed
  asked,     \* [Users -> the run a request is about to start, or NoPush]
  push,      \* item_tally_state.status
  sent,      \* item_tally_state.price, NotThere before the first
  known,     \* known_stock_items: the items whose names the last check saw
  fresh,     \* is that check recent enough (STALE_AFTER)?
  batches,   \* the push_items jobs, by created_at
  tally,     \* [Items -> the rate Tally shows, or NotThere]
  doubtful   \* history: items of a batch that may have reached Tally unnoticed

shopVars  == <<rate, edits, asked>>
stateVars == <<push, sent>>
checkVars == <<known, fresh>>
itemVars  == <<shopVars, stateVars, checkVars, batches, tally, doubtful>>

(* A batch: its job's status, the items in it with the rates sent, the     *)
(* items of the run after it, the run it is of, and how far the agent is:  *)
(* it has not been given the job, holds it, has Tally's answer, or will    *)
(* never report.                                                           *)
Batch == [status : {"queued", "sent", "ok", "error"},
          price : PriceList, rest : SUBSET Items, run : Nat,
          agent : {"none", "held", "accepted", "refused", "silent"}]

ItemsOf(b) == DOMAIN batches[b].price

Live(b) == batches[b].status \in {"queued", "sent"}
InFlight == \E b \in DOMAIN batches : Live(b)

(* item_state.set_status: only first sends move between the states. *)
SetStatus(from, ids, value) ==
  [i \in Items |->
     IF i \notin ids THEN from[i]
     ELSE IF value = "queued" /\ from[i] = "synced" THEN from[i]
     ELSE IF value \in {"none", "error"} /\ from[i] # "queued" THEN from[i]
     ELSE value]

-----------------------------------------------------------------------------
(* The shop and its check of Tally. *)

EditRate(i, p) ==
  /\ edits < MaxEdits
  /\ p # rate[i]
  /\ rate' = [rate EXCEPT ![i] = p]
  /\ edits' = edits + 1
  /\ UNCHANGED <<asked, stateVars, checkVars, batches, tally, doubtful>>

(* enqueue_stock_check to apply_stock_check, at the moment the agent reads *)
(* the masters: what happens until they arrive is as if it came after.     *)
CheckTally ==
  /\ known' = {i \in Items : tally[i] # NotThere}
  /\ fresh' = TRUE
  /\ UNCHANGED <<shopVars, stateVars, batches, tally, doubtful>>

GoesStale ==
  /\ fresh
  /\ fresh' = FALSE
  /\ UNCHANGED <<shopVars, stateVars, known, batches, tally, doubtful>>

-----------------------------------------------------------------------------
(* A run. *)

(* bs with a batch of the first items of todo, at these rates.             *)
Enqueue(bs, run, todo, price) ==
  LET size == IF Cardinality(todo) < BatchSize THEN Cardinality(todo) ELSE BatchSize IN
  {Append(bs, [status |-> "queued", price |-> [i \in s |-> price[i]], rest |-> todo \ s,
               run |-> run, agent |-> "none"]) : s \in {s \in SUBSET todo : Cardinality(s) = size}}

PriceChanged(i) == push[i] = "synced" /\ sent[i] # rate[i]

(* What preflight leaves of a selection. *)
ToPush(chosen, includeSynced, skipExisting) ==
  {i \in chosen :
     /\ includeSynced \/ push[i] # "synced" \/ PriceChanged(i)
     /\ ~(skipExisting /\ push[i] # "synced" /\ i \in known)}

Collisions(todo) == {i \in todo : push[i] # "synced" /\ i \in known}

(* preflight finds no blocker, no run in flight among them.                *)
Preflight(u, todo) ==
  /\ asked[u] = NoPush
  /\ fresh
  /\ ~InFlight
  /\ todo # {} /\ Collisions(todo) = {}
  /\ asked' = [asked EXCEPT ![u] = [i \in todo |-> rate[i]]]
  /\ UNCHANGED <<rate, edits, stateVars, checkVars, batches, tally, doubtful>>

(* start_run queues the first batch, whatever happened since.              *)
StartRun(u) ==
  /\ asked[u] # NoPush
  /\ Len(batches) < MaxBatches
  /\ push' = SetStatus(push, DOMAIN asked[u], "queued")
  /\ batches' \in Enqueue(batches, Len(batches) + 1, DOMAIN asked[u], asked[u])
  /\ asked' = [asked EXCEPT ![u] = NoPush]
  /\ UNCHANGED <<rate, edits, sent, checkVars, tally, doubtful>>

(* The request fails and is rolled back; two that make the state rows of   *)
(* one item do so at their unique index.                                   *)
PushFails(u) ==
  /\ asked[u] # NoPush
  /\ asked' = [asked EXCEPT ![u] = NoPush]
  /\ UNCHANGED <<rate, edits, stateVars, checkVars, batches, tally, doubtful>>

(* Slip: the items of the batches to come stay queued. *)
Expire_ForgetsRest(b) ==
  /\ Live(b)
  /\ push' = SetStatus(push, ItemsOf(b), "none")
  /\ batches' = [batches EXCEPT ![b].status = "error", ![b].rest = {},
                                ![b].agent = IF @ = "none" THEN "silent" ELSE @]
  /\ doubtful' = IF batches[b].agent = "none" THEN doubtful ELSE doubtful \cup ItemsOf(b)
  /\ UNCHANGED <<shopVars, sent, checkVars, tally>>

(* Slip: a batch the agent has is waited for. *)
Expire_IfNotTaken(b) ==
  /\ batches[b].status = "queued"
  /\ push' = SetStatus(push, ItemsOf(b) \cup batches[b].rest, "none")
  /\ batches' = [batches EXCEPT ![b].status = "error", ![b].rest = {}, ![b].agent = "silent"]
  /\ UNCHANGED <<shopVars, sent, checkVars, tally, doubtful>>

(* Somebody asks for the run, or for a new one, ten minutes after a batch  *)
(* was made: it is given up, and the agent gets it no more if it had not.  *)
Expire(b) ==
  /\ Live(b)
  /\ push' = SetStatus(push, ItemsOf(b) \cup batches[b].rest, "none")
  /\ batches' = [batches EXCEPT ![b].status = "error", ![b].rest = {},
                                ![b].agent = IF @ = "none" THEN "silent" ELSE @]
  /\ doubtful' = IF batches[b].agent = "none" THEN doubtful ELSE doubtful \cup ItemsOf(b)
  /\ UNCHANGED <<shopVars, sent, checkVars, tally>>

-----------------------------------------------------------------------------
(* The agent and Tally. *)

Deliver(b) ==
  /\ batches[b].status = "queued"
  /\ batches' = [batches EXCEPT ![b].status = "sent", ![b].agent = "held"]
  /\ UNCHANGED <<shopVars, stateVars, checkVars, tally, doubtful>>

(* The agent takes one job after the other, and reports each before it     *)
(* goes on.                                                                *)
Reporting == \E b \in DOMAIN batches : batches[b].agent \in {"accepted", "refused"}

(* Tally takes every item of the batch or only some, and answers in time   *)
(* or does not: then the agent reports a failure.                          *)
Import(b) ==
  /\ batches[b].agent = "held" /\ ~Reporting
  /\ \E taken \in SUBSET ItemsOf(b), answered \in BOOLEAN :
       /\ tally' = [i \in Items |-> IF i \in taken THEN batches[b].price[i] ELSE tally[i]]
       /\ batches' = [batches EXCEPT ![b].agent =
                        IF answered /\ taken = ItemsOf(b) THEN "accepted" ELSE "refused"]
  /\ doubtful' = IF batches'[b].agent = "refused" THEN doubtful \cup ItemsOf(b) ELSE doubtful
  /\ UNCHANGED <<shopVars, stateVars, checkVars>>

(* Another company is open in Tally: nothing is sent.                      *)
StopAtCompany(b) ==
  /\ batches[b].agent = "held" /\ ~Reporting
  /\ batches' = [batches EXCEPT ![b].agent = "refused"]
  /\ UNCHANGED <<shopVars, stateVars, checkVars, tally, doubtful>>

(* The agent is stopped, has kept the batch for as long as it tries        *)
(* (RetryWindow), or its report is lost.                                   *)
Lose(b) ==
  /\ batches[b].agent \in {"held", "accepted", "refused"}
  /\ batches' = [batches EXCEPT ![b].agent = "silent"]
  /\ UNCHANGED <<shopVars, stateVars, checkVars, tally, doubtful>>

(* A report that comes after the batch was given up changes nothing. *)
ReportIgnored(b) ==
  /\ batches[b].agent \in {"accepted", "refused"}
  /\ ~Live(b)
  /\ batches' = [batches EXCEPT ![b].agent = "silent"]
  /\ UNCHANGED <<shopVars, stateVars, checkVars, tally, doubtful>>

(* Slip: one batch fails, the next is sent. *)
ReportFailed_GoesOn(b) ==
  /\ batches[b].agent = "refused"
  /\ Live(b)
  /\ push' = SetStatus(push, ItemsOf(b), "error")
  /\ LET bs == [batches EXCEPT ![b].status = "error", ![b].rest = {}, ![b].agent = "silent"] IN
       batches' \in IF batches[b].rest = {} \/ Len(batches) = MaxBatches THEN {bs}
                    ELSE Enqueue(bs, batches[b].run, batches[b].rest, rate)
  /\ UNCHANGED <<shopVars, sent, checkVars, tally, doubtful>>

ReportFailed(b) ==
  /\ batches[b].agent = "refused"
  /\ Live(b)
  /\ push' = SetStatus(SetStatus(push, ItemsOf(b), "error"), batches[b].rest, "none")
  /\ batches' = [batches EXCEPT ![b].status = "error", ![b].rest = {}, ![b].agent = "silent"]
  /\ UNCHANGED <<shopVars, sent, checkVars, tally, doubtful>>

(* Slip: the rate of the moment is noted, not the one that was sent. *)
RecordSent_RateNow(b) ==
  sent' = [i \in Items |-> IF i \in ItemsOf(b) THEN rate[i] ELSE sent[i]]

RecordSent(b) ==
  sent' = [i \in Items |-> IF i \in ItemsOf(b) THEN batches[b].price[i] ELSE sent[i]]

(* Slip: the next batch is queued while the one before it is in flight.    *)
ReportAccepted_LeavesOpen(b) ==
  /\ batches[b].agent = "accepted"
  /\ Live(b)
  /\ RecordSent(b)
  /\ LET rest == batches[b].rest
         bs == [batches EXCEPT ![b].rest = {}, ![b].agent = "silent"]
         now == SetStatus(push, ItemsOf(b), "synced") IN
       \/ /\ rest # {}
          /\ Len(batches) < MaxBatches
          /\ batches' \in Enqueue(bs, batches[b].run, rest, rate)
          /\ push' = now
       \/ /\ batches' = [bs EXCEPT ![b].status = "ok"]
          /\ push' = SetStatus(now, rest, "none")
  /\ UNCHANGED <<shopVars, checkVars, tally, doubtful>>

(* The batch was accepted: its items are in Tally, and the next batch is   *)
(* queued, or, with Tally out of reach, the rest goes back to unsent.      *)
ReportAccepted(b) ==
  /\ batches[b].agent = "accepted"
  /\ Live(b)
  /\ RecordSent(b)
  /\ LET rest == batches[b].rest
         bs == [batches EXCEPT ![b].status = "ok", ![b].rest = {}, ![b].agent = "silent"]
         now == SetStatus(push, ItemsOf(b), "synced") IN
       \/ /\ rest # {}
          /\ Len(batches) < MaxBatches
          /\ batches' \in Enqueue(bs, batches[b].run, rest, rate)
          /\ push' = now
       \/ /\ batches' = bs
          /\ push' = SetStatus(now, rest, "none")
  /\ UNCHANGED <<shopVars, checkVars, tally, doubtful>>

-----------------------------------------------------------------------------
ItemInit ==
  /\ rate \in [Items -> Rates]
  /\ edits = 0
  /\ asked = [u \in Users |-> NoPush]
  /\ push = [i \in Items |-> "none"]
  /\ sent = [i \in Items |-> NotThere]
  /\ known = {} /\ fresh = FALSE
  /\ batches = <<>>
  /\ tally = [i \in Items |-> NotThere]
  /\ doubtful = {}

Shop ==
  \/ \E i \in Items, p \in Rates : EditRate(i, p)
  \/ \E u \in Users, chosen \in SUBSET Items, includeSynced, skipExisting \in BOOLEAN :
       Preflight(u, ToPush(chosen, includeSynced, skipExisting))
  \/ \E u \in Users : StartRun(u) \/ PushFails(u)

StockCheck == CheckTally \/ GoesStale

Agent(b) == Deliver(b) \/ Import(b) \/ StopAtCompany(b) \/ Lose(b)

Report(b) == ReportIgnored(b) \/ ReportFailed(b) \/ ReportAccepted(b)

ItemNext ==
  \/ Shop
  \/ StockCheck
  \/ \E b \in DOMAIN batches : Agent(b) \/ Report(b) \/ Expire(b)

(* Whoever waits for a run asks after it (GET /run, or the next push). *)
ItemFairness == WF_itemVars(\E b \in DOMAIN batches : Expire(b))

ItemSpec == ItemInit /\ [][ItemNext]_itemVars

-----------------------------------------------------------------------------
(* The shape of the state; of each run one batch at most is in flight      *)
(* (process_items_result queues the next when the one before is over).     *)
ItemTypeOK ==
  /\ rate \in [Items -> Rates]
  /\ edits \in 0..MaxEdits
  /\ asked \in [Users -> PriceList \cup {NoPush}]
  /\ push \in [Items -> {"none", "queued", "error", "synced"}]
  /\ sent \in [Items -> Rates \cup {NotThere}]
  /\ known \subseteq Items
  /\ fresh \in BOOLEAN
  /\ batches \in Seq(Batch)
  /\ tally \in [Items -> Rates \cup {NotThere}]
  /\ doubtful \subseteq Items
  /\ \A b, c \in DOMAIN batches :
       Live(b) /\ Live(c) /\ batches[b].run = batches[c].run => b = c

(* An item marked queued is waiting in a batch in flight or behind it: no  *)
(* end of a run leaves one behind (set_status, expire_stalled_run,         *)
(* process_items_result).                                                  *)
RowsFollowBatch ==
  \A i \in Items :
    push[i] = "queued" =>
      \E b \in DOMAIN batches : Live(b) /\ i \in ItemsOf(b) \cup batches[b].rest

(* An item held to be in Tally at a price is there at that price, unless   *)
(* a batch with it in it failed, or was given up after the agent had it    *)
(* (record_sent; such an item must be looked up in Tally).                 *)
PriceKnown ==
  \A i \in Items :
    push[i] = "synced" =>
      \/ i \in doubtful
      \/ tally[i] = sent[i] /\ sent[i] # NotThere
      \/ \E b \in DOMAIN batches : Live(b) /\ i \in ItemsOf(b) /\ batches[b].agent # "none"

(* "The first batch with an exception stops the run before anything else   *)
(* is sent": a batch follows only batches of its run that went well.       *)
FirstFailureStopsRun ==
  [][\A b \in DOMAIN batches' \ DOMAIN batches :
       \A c \in DOMAIN batches' \ {b} :
         batches'[c].run = batches'[b].run => batches'[c].status = "ok"]_itemVars

(* A queued item does not stay queued for ever (expire_stalled_run). *)
RunEnds == \A i \in Items : (push[i] = "queued") ~> (push[i] # "queued")
=============================================================================

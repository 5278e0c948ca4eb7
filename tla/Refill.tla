------------------------------- MODULE Refill -------------------------------
(***************************************************************************)
(* The refresh of what a shop's Tally holds: a chain of reads, one Tally   *)
(* job each, first the masters, then the sales in windows of days, newest  *)
(* first.  A window Tally is too slow for is cut in halves and read again, *)
(* a single day is passed over, and after MaxTimeouts slow answers the     *)
(* rest of the sales is left.  Records carry a number that grows with      *)
(* every change; a read of changes asks only for those above the number    *)
(* that was seen last.                                                     *)
(*                                                                         *)
(* A definition whose comment begins with "Slip" is a deliberate mistake   *)
(* that stands for no code: it takes the place of the definition after it  *)
(* to show that the properties notice it.                                  *)
(***************************************************************************)
EXTENDS Integers, FiniteSets, SequencesExt

CONSTANTS Span,         \* the days of sales a read goes back; day Span is today
          HalfMonth,    \* the first windows, when Tally's pace is not known
          MaxWindow,    \* SALES_MAX_WINDOW
          MaxTimeouts,  \* MAX_TIMEOUTS
          MaxReads,     \* bound: reads started
          MaxChanges    \* bound: changes made in Tally to each kind of master

ASSUME RefillConstantsOK ==
  /\ {Span, HalfMonth, MaxWindow, MaxTimeouts} \subseteq Nat \ {0}
  /\ {MaxReads, MaxChanges} \subseteq Nat

Marked == {"items", "ledgers"}      \* the masters read by their changes

VARIABLES
  chain,     \* the jobs of the latest read, by created_at
  reads,     \* how many reads were started
  recent,    \* was the last complete read within FULL_EVERY_DAYS?
  marker,    \* [Marked -> items_alter_id, ledgers_alter_id]
  applied,   \* [Marked -> every change up to this one is in our books]
  change     \* [Marked -> the number of the latest change in Tally]

refillVars == <<chain, reads, recent, marker, applied, change>>

(* A step reads one kind of master, or the sales of the days lo..hi. *)
Master(kind) == [kind |-> kind, lo |-> 0, hi |-> 0]
Sales(lo, hi) == [kind |-> "sales", lo |-> lo, hi |-> hi]

Larger(a, b) == IF a > b THEN a ELSE b
Smaller(a, b) == IF a < b THEN a ELSE b

Size(s) == s.hi - s.lo + 1

(* [lo, hi] in pieces of at most size days, newest first. *)
Chunks(lo, hi, size) ==
  [k \in 1..((hi - lo + size) \div size) |->
     Sales(Larger(lo, hi - k * size + 1), hi - (k - 1) * size)]

(* _resize: each window is cut; no two are put together. *)
Resize(steps, size) ==
  FlattenSeq([k \in DOMAIN steps |-> IF steps[k].kind = "sales"
                                     THEN Chunks(steps[k].lo, steps[k].hi, size)
                                     ELSE <<steps[k]>>])

Plan(mode, window) ==
  <<Master("groups"), Master("items"), Master("ledgers")>>
    \o (IF mode = "full" THEN <<Master("bills")>> ELSE <<>>)
    \o <<Master("vtypes")>>
    \o Chunks(1, Span, IF window > 0 THEN window ELSE HalfMonth)

(* The job of the first of steps.  Its state is queued or sent while it is *)
(* in flight, then ok, failed, or slow (Tally did not answer in time).     *)
Job(steps, mode, slow, window) ==
  [step |-> Head(steps), left |-> Tail(steps), mode |-> mode,
   timeouts |-> slow, window |-> window, state |-> "queued", seen |-> 0]

Last1 == chain[Len(chain)]
ReadInFlight == chain # <<>> /\ Last1.state \in {"queued", "sent"}

(* learned_window: the window_days of the latest job.  Every job carries   *)
(* it on, so a read that has begun is all that is looked at.               *)
Learned == IF chain = <<>> THEN 0 ELSE Smaller(MaxWindow, Last1.window)

Mode == IF recent /\ \A k \in Marked : marker[k] > 0 THEN "changes" ELSE "full"

-----------------------------------------------------------------------------
(* A read begins, when none is in flight. *)
StartRead(mode) ==
  /\ ~ReadInFlight
  /\ reads < MaxReads
  /\ mode \in {"full", Mode}
  /\ reads' = reads + 1
  /\ chain' = <<Job(Plan(mode, Learned), mode, 0, Learned)>>
  /\ UNCHANGED <<recent, marker, applied, change>>

(* The agent takes the job and reads Tally as it is now. *)
AgentReads ==
  /\ ReadInFlight /\ Last1.state = "queued"
  /\ chain' = [chain EXCEPT ![Len(chain)].state = "sent",
                            ![Len(chain)].seen = IF Last1.step.kind \in Marked
                                                 THEN change[Last1.step.kind] ELSE 0]
  /\ UNCHANGED <<reads, recent, marker, applied, change>>

Close(state, window) ==    \* the chain with its last job at its end
  [chain EXCEPT ![Len(chain)].state = state, ![Len(chain)].window = window]

(* The next job of the read, or, when it cannot be queued, none. *)
Following(closed, steps, slow, window) ==
  IF steps = <<>> THEN {closed}
  ELSE {closed, Append(closed, Job(steps, Last1.mode, slow, window))}

(* Slip: the marker moves to what Tally has by now. *)
Advance_ToNow(k) == [marker EXCEPT ![k] = Larger(@, change[k])]

(* _advance: up only, and only on what Tally sent.  An empty answer moves  *)
(* nothing, as then the latest number is at or below the marker.           *)
Advance(k) == [marker EXCEPT ![k] = Larger(@, Last1.seen)]

(* A master list is read and applied. *)
MasterApplied ==
  /\ ReadInFlight /\ Last1.state = "sent" /\ Last1.step.kind # "sales"
  /\ LET k == Last1.step.kind IN
       IF k \in Marked
       THEN /\ marker' = Advance(k)
            /\ applied' = IF Last1.mode = "full" \/ marker[k] <= applied[k]
                          THEN [applied EXCEPT ![k] = Larger(@, Last1.seen)] ELSE applied
       ELSE UNCHANGED <<marker, applied>>
  /\ recent' = (recent \/ (Last1.mode = "full" /\ Last1.step.kind = "bills"))
  /\ chain' \in Following(Close("ok", Last1.window), Last1.left, Last1.timeouts, Last1.window)
  /\ UNCHANGED <<reads, change>>

(* A window of sales is read and applied.  Its size is noted, or twice its *)
(* size when the answer was quick and windows are left.                    *)
SalesApplied(quick) ==
  /\ ReadInFlight /\ Last1.state = "sent" /\ Last1.step.kind = "sales"
  /\ LET size == Size(Last1.step)
         grows == quick /\ size < MaxWindow /\ Last1.left # <<>>
         window == IF grows THEN Smaller(MaxWindow, size * 2) ELSE size
         left == IF grows THEN Resize(Last1.left, window) ELSE Last1.left IN
       chain' \in Following(Close("ok", window), left, Last1.timeouts, window)
  /\ recent' = (recent \/ (Last1.mode = "full" /\ Last1.left = <<>>))
  /\ UNCHANGED <<reads, marker, applied, change>>

(* Slip: the slow answers are counted anew after each one. *)
TooSlow_Forgets ==
  /\ ReadInFlight /\ Last1.state = "sent" /\ Last1.step.kind = "sales"
  /\ LET days == Size(Last1.step)
         size == Larger(1, days \div 2)
         steps == IF days > 1 THEN Resize(<<Last1.step>> \o Last1.left, size) ELSE Last1.left IN
       chain' \in Following(Close("slow", Last1.window), steps, 0,
                            IF days > 1 THEN size ELSE Last1.window)
  /\ UNCHANGED <<reads, recent, marker, applied, change>>

(* Slip: what is left is cut, what was too slow is forgotten. *)
TooSlow_DropsHalf ==
  /\ ReadInFlight /\ Last1.state = "sent" /\ Last1.step.kind = "sales"
  /\ LET days == Size(Last1.step)
         size == Larger(1, days \div 2)
         steps == IF Last1.timeouts + 1 >= MaxTimeouts THEN <<>>
                  ELSE IF days > 1 THEN Tail(Resize(<<Last1.step>> \o Last1.left, size))
                  ELSE Last1.left IN
       chain' \in Following(Close("slow", Last1.window), steps, Last1.timeouts + 1,
                            IF days > 1 THEN size ELSE Last1.window)
  /\ UNCHANGED <<reads, recent, marker, applied, change>>

(* _after_failure: Tally did not answer in time for a window of sales. *)
TooSlow ==
  /\ ReadInFlight /\ Last1.state = "sent" /\ Last1.step.kind = "sales"
  /\ LET days == Size(Last1.step)
         size == Larger(1, days \div 2)
         stop == Last1.timeouts + 1 >= MaxTimeouts
         window == IF ~stop /\ days > 1 THEN size ELSE Last1.window
         steps == IF stop THEN <<>>
                  ELSE IF days > 1 THEN Resize(<<Last1.step>> \o Last1.left, size)
                  ELSE Last1.left IN
       chain' \in Following(Close("slow", window), steps, Last1.timeouts + 1, window)
  /\ UNCHANGED <<reads, recent, marker, applied, change>>

(* Any other error, an answer that cannot be applied, a master list that   *)
(* is too slow, or no answer for so long that the next read gives the job  *)
(* up: the chain ends.  An answer to a job that has ended changes nothing. *)
Fails ==
  /\ ReadInFlight
  /\ chain' = Close("failed", Last1.window)
  /\ UNCHANGED <<reads, recent, marker, applied, change>>

WeekPasses ==
  /\ recent
  /\ recent' = FALSE
  /\ UNCHANGED <<chain, reads, marker, applied, change>>

TallyChanges(k) ==
  /\ change[k] < MaxChanges
  /\ change' = [change EXCEPT ![k] = @ + 1]
  /\ UNCHANGED <<chain, reads, recent, marker, applied>>

-----------------------------------------------------------------------------
RefillInit ==
  /\ chain = <<>> /\ reads = 0 /\ recent = FALSE
  /\ marker = [k \in Marked |-> 0]
  /\ applied = [k \in Marked |-> 0]
  /\ change = [k \in Marked |-> 1]

RefillNext ==
  \/ \E mode \in {"full", "changes"} : StartRead(mode)
  \/ AgentReads
  \/ MasterApplied
  \/ \E quick \in BOOLEAN : SalesApplied(quick)
  \/ TooSlow
  \/ Fails
  \/ WeekPasses
  \/ \E k \in Marked : TallyChanges(k)

RefillSpec == RefillInit /\ [][RefillNext]_refillVars

-----------------------------------------------------------------------------
Days(s) == s.lo..s.hi

(* The days of sales the read has behind it: applied, or passed over as a  *)
(* single day that Tally cannot answer for.                                *)
Behind ==
  UNION {Days(chain[k].step) :
           k \in {k \in DOMAIN chain : /\ chain[k].step.kind = "sales"
                                      /\ \/ chain[k].state = "ok"
                                         \/ chain[k].state = "slow" /\ Size(chain[k].step) = 1}}

(* Which of the steps are windows of sales, and the days of those.         *)
Windows(steps) == {k \in DOMAIN steps : steps[k].kind = "sales"}

Ahead(steps) == UNION {Days(steps[k]) : k \in Windows(steps)}

(* While a read goes on, the days behind it, the window it is at and the   *)
(* windows ahead are the whole span, each day once and the newest first,   *)
(* however often windows were cut (_chunks, _resize, _after_failure).      *)
DaysCovered ==
  ReadInFlight =>
    LET steps == <<Last1.step>> \o Last1.left IN
      /\ Behind \cup Ahead(steps) = 1..Span
      /\ \A d \in Behind, e \in Ahead(steps) : d > e
      /\ \A j, k \in Windows(steps) : j < k => steps[j].lo > steps[k].hi

(* One read leaves Tally with no more than MaxTimeouts requests that it    *)
(* was too slow for ("every abandoned request may still be running inside  *)
(* the shop's Tally").                                                     *)
TimeoutsBounded ==
  Cardinality({k \in DOMAIN chain : chain[k].state = "slow"}) <= MaxTimeouts

(* A change in Tally at or below the marker is in our books: no read of    *)
(* changes passes one over (_advance, apply_refill_result).                *)
MarkerSound == \A k \in Marked : marker[k] <= applied[k]
=============================================================================

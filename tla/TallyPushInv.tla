---------------------------- MODULE TallyPushInv ----------------------------
(***************************************************************************)
(* The inductive invariants behind the theorems of TallyPushProofs.        *)
(*                                                                         *)
(* AnyInv holds whatever goes wrong.  PushInv says where the one push that *)
(* may still post a document's voucher can be; ReadyInv is it for a shop   *)
(* where Tally is open with the right company and answers in XML, and      *)
(* InTimeInv for one where Tally may be closed but the agent is punctual.  *)
(***************************************************************************)
EXTENDS TallyPush

\* Every job the agent or the outbox knows of has been created.
Created == 1..njobs
Slots ==
  /\ \A j \in Jobs : /\ j \in Created <=> kind[j] # "none"
                     /\ j \in Created <=> status[j] # "none"
                     /\ j \in Created => entity[j] \in Voucher
                     /\ j \notin Created => j \notin unknown /\ outbox[j] = "none"
  /\ pending \cup held \subseteq Created
  /\ cur # 0 => cur \in held /\ pc = "work"
  /\ cur = 0 <=> answer = "none"

\* An answer that will be taken for a success is about a voucher Tally has.
AnswerIsTrue == answer \in {"created", "found"} => posted[entity[cur]] > 0

AnyInv == TypeOK /\ Slots /\ AnswerIsTrue /\ LinkedIsPosted

-----------------------------------------------------------------------------
\* Tally answers in XML, and no other company is open in it.
Readable == Faults \cap {"wrong_company", "garbled"} = {}

\* Tally is open with the right company, and answers in XML.
Ready == Faults \cap {"not_ready", "wrong_company", "garbled"} = {}

\* Tally may be closed, but the agent is punctual, keeps running and always reaches
\* the backend, and drops a held job before the backend may give it up.
InTime == /\ Faults \cap {"restart", "lost", "slow", "wrong_company", "garbled"} = {}
          /\ RetryWindow + Lag < StuckAfter

\* A push whose voucher is not settled: in flight, or in doubt.
Open(j) == kind[j] = "push" /\ (Live(j) \/ j \in unknown)

\* The jobs the agent has fetched and not finished, but for those the next round
\* drops. A round takes in what PendingOutbox holds and the agent does not.
InHand == {j \in held : pc = "round" => heldAge[j] <= RetryWindow}
            \cup (IF pc = "round" THEN pending \ held ELSE {})

\* The agent may yet run the job.
Runnable(j) == outbox[j] = "queued" \/ (j \in InHand /\ j # cur)

\* After an early checkin PendingOutbox holds no job the agent has finished, so
\* that the round after a skipped checkin takes none in again.
PaceShape ==
  /\ pc = "round" => pace # "fast"
  /\ pace = "early" => IF pc = "round" THEN pending \cap held = {} ELSE pending \subseteq held

\* The outbox item of a job is handed out when the job is marked sent.
OutboxShape ==
  /\ \A j \in Jobs : outbox[j] = "queued" <=> status[j] = "queued"
  /\ \A j \in InHand : outbox[j] = "sent"

\* What an answer says about the job it is for.
AnswerShape ==
  /\ answer \in {"created", "refused", "no_answer"} => kind[cur] = "push"
  /\ answer \in {"found", "absent", "failed"} => kind[cur] = "check"
  /\ answer \notin {"garbled", "stopped"}
  /\ answer \in {"refused", "absent"} /\ Live(cur) /\ entity[cur] \in Checked
       => posted[entity[cur]] = 0

JobShape ==
  \A j \in Jobs : /\ j \in unknown => kind[j] = "push" /\ status[j] = "error"
                  /\ kind[j] = "check" => entity[j] \in Checked

\* At most one push of a document is open, at most one check is in flight, a check
\* is made only for a push in doubt, and nothing is open once linked.
OneOpen ==
  \A i, j \in Jobs :
    entity[i] = entity[j] /\ entity[i] \in Checked =>
      /\ Open(i) /\ Open(j) => i = j
      /\ Open(i) => entity[i] \notin linked
      /\ kind[i] = "check" /\ Live(i) /\ kind[j] = "check" /\ Live(j) => i = j
CheckHasReason ==
  \A c \in Jobs : kind[c] = "check" /\ Live(c)
                    => \E j \in Jobs : entity[j] = entity[c] /\ kind[j] = "push" /\ j \in unknown

\* A push the agent may yet run is open, and its voucher is not in Tally.
RunnableIsOpen ==
  \A j \in Jobs : kind[j] = "push" /\ entity[j] \in Checked /\ Runnable(j)
                    => Open(j) /\ posted[entity[j]] = 0

\* The agent never holds a check together with a push of the same document.
CheckRunsAlone ==
  \A c, j \in InHand : kind[c] = "check" /\ Live(c) /\ kind[j] = "push"
                         => entity[c] # entity[j]

\* A voucher in Tally that is not linked belongs to an open push.
OpenIfPosted ==
  \A d \in Checked : /\ posted[d] <= 1
                     /\ posted[d] = 1 /\ d \notin linked
                          => \E j \in Jobs : entity[j] = d /\ Open(j)

\* Where the agent and each job stand; what is open for each document; what the agent
\* may still do.
ShapeInv == PaceShape /\ OutboxShape /\ AnswerShape /\ JobShape
BookInv == OneOpen /\ CheckHasReason /\ OpenIfPosted
HandInv == RunnableIsOpen /\ CheckRunsAlone

PushInv == AnyInv /\ ShapeInv /\ BookInv /\ HandInv

-----------------------------------------------------------------------------
(* What keeps PushInv going when a job that may yet run is given up: with  *)
(* Ready that it is flagged as in doubt, with InTime that it never is.     *)

\* A round finishes every job it takes in, and no job is ever "not ready".
RoundShape ==
  /\ pc = "work" => todo = held
  /\ pc # "work" => held = {}
  /\ waiting = {}

ReadyInv == PushInv /\ RoundShape

\* A job on its way to the agent is young, and one the agent holds has been held for
\* all but Lag ticks of its life.
Timely ==
  /\ \A j \in Jobs : Live(j) /\ (outbox[j] = "queued" \/ (pc = "round" /\ j \in pending \ held))
                       => age[j] <= Lag
  /\ \A j \in held : Live(j) /\ heldAge[j] <= RetryWindow => age[j] <= heldAge[j] + Lag
  /\ pc # "round" => \A j \in held : heldAge[j] <= RetryWindow
  /\ \A j \in Jobs \ Created : age[j] = 0

\* The agent holds no job the backend has closed.
HandLive == \A j \in InHand : Live(j)

\* The voucher of a push in flight is not in Tally, unless its answer is under way.
LiveUnposted ==
  \A j \in Jobs \ {cur} : kind[j] = "push" /\ entity[j] \in Checked /\ Live(j)
                            => posted[entity[j]] = 0

InTimeInv == PushInv /\ Timely /\ HandLive /\ LiveUnposted

-----------------------------------------------------------------------------
(* What a request for the voucher v does to the jobs X it gives up, with   *)
(* PushInv: every job in flight for v is out of the way before one more    *)
(* is queued.                                                              *)
InFlight(v) == {j \in Jobs : entity[j] = v /\ Live(j)}
Doubtful(X, v) == \E j \in UnknownAfter(X) : entity[j] = v

GivesUpOnly(X, v) == /\ X \subseteq InFlight(v) /\ \A j \in X : kind[j] = "push"
                     /\ GiveUp(X)
QueuesCheck(X, v) == /\ X = InFlight(v) /\ v \in Checked \ linked /\ Doubtful(X, v)
                     /\ GiveUpAndQueue(X, "check", v)
QueuesPush(X, v) == /\ X = InFlight(v) /\ v \in Checked \ linked /\ ~Doubtful(X, v)
                    /\ GiveUpAndQueue(X, "push", v)
QueuesUnchecked(X, v) == /\ X \subseteq InFlight(v) /\ v \notin Checked
                         /\ GiveUpAndQueue(X, "push", v)

\* A push of X that is not flagged is not in Tally, and the agent will not run it.
SafeToGiveUp(X) ==
  \A j \in X : kind[j] = "push" /\ entity[j] \in Checked /\ j \notin UnknownAfter(X)
                => posted[entity[j]] = 0 /\ j \notin InHand

\* What giving X up and queueing a job for v makes of every job.
Booked(X, k, v) ==
  /\ njobs + 1 \in Jobs /\ njobs + 1 \notin Created
  /\ kind'[njobs + 1] = k /\ entity'[njobs + 1] = v
  /\ status'[njobs + 1] = "queued" /\ outbox'[njobs + 1] = "queued"
  /\ njobs + 1 \notin unknown'
  /\ \A j \in Jobs \ {njobs + 1} :
       /\ kind'[j] = kind[j] /\ entity'[j] = entity[j]
       /\ status'[j] = IF j \in X THEN "error" ELSE status[j]
       /\ outbox'[j] = IF j \in X /\ outbox[j] = "queued" THEN "expired" ELSE outbox[j]
       /\ j \in unknown' <=> j \in UnknownAfter(X)
  /\ waiting' = waiting /\ linked' = linked

-----------------------------------------------------------------------------
(* How a step changes the documents, for the refinement of VoucherPromise. *)

\* A push of d is open.
Underway(d) == \E j \in Jobs : entity[j] = d /\ Open(j)

\* The step concerns no document but e; it saves e's voucher only while a push of it
\* is open, and then links nothing.
TouchesOnly(e) ==
  /\ \A d \in Checked \ {e} :
       /\ Underway(d)' <=> Underway(d)
       /\ d \in linked' <=> d \in linked
       /\ posted'[d] = posted[d]
  /\ linked \subseteq linked'
  /\ e \in Checked /\ posted'[e] # posted[e] => Underway(e) /\ posted[e] = 0 /\ linked' = linked
=============================================================================

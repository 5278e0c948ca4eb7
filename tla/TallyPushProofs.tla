-------------------------- MODULE TallyPushProofs --------------------------
(***************************************************************************)
(* What holds of TallyPush, whatever goes wrong, with a Tally that is      *)
(* ready and with an agent that is in time: for every set of documents and *)
(* receipts, any number of jobs and faults, and any windows.               *)
(***************************************************************************)
EXTENDS TallyPushInv, TLAPS

-----------------------------------------------------------------------------
(* Whatever goes wrong.                                                    *)

\* The slot of a new job.
LEMMA NextSlot ==
  ASSUME TypeOK, njobs < MaxJobs
  PROVE  njobs + 1 \in Jobs /\ njobs + 1 \in 0..MaxJobs /\ njobs + 1 \notin Created
  BY BoundsAssumption DEF TypeOK, Jobs, Created

\* A request gives some jobs up, and may queue one.
LEMMA RequestCases ==
  ASSUME TypeOK, Request
  PROVE  /\ \E X \in SUBSET {j \in Jobs : Live(j)} :
              \/ GiveUp(X)
              \/ \E k \in {"push", "check"}, v \in Voucher : GiveUpAndQueue(X, k, v)
         /\ UNCHANGED <<healthVars, agentVars, posted>>
         /\ NoFault
<1>1. \A v, X : X \in GivenUp(LivePush(v)) \/ X \in GivenUp(LiveCheck(v))
                  => X \in SUBSET {j \in Jobs : Live(j)}
  BY DEF GivenUp, LivePush, LiveCheck, LiveOf
<1>2. ASSUME NEW d \in Doc, RequestPush(d)
      PROVE  \E X \in SUBSET {j \in Jobs : Live(j)} :
               GiveUp(X) \/ \E k \in {"push", "check"} : GiveUpAndQueue(X, k, d)
  <2>1. CASE PushLinked(d) BY <1>1, <2>1 DEF PushLinked
  <2>2. CASE PushHandsBackCheck(d) BY <1>1, <2>2 DEF PushHandsBackCheck
  <2>3. CASE PushQueuesCheck(d) BY <1>1, <2>3 DEF PushQueuesCheck
  <2>4. CASE PushQueuesPush(d) BY <1>1, <2>4 DEF PushQueuesPush
  <2> QED BY <1>2, <2>1, <2>2, <2>3, <2>4 DEF RequestPush
<1>3. ASSUME NEW r \in Receipt, RequestReceipt(r)
      PROVE  GiveUpAndQueue({}, "push", r)
  BY <1>3 DEF RequestReceipt
<1>4. UNCHANGED <<healthVars, agentVars, posted>> /\ NoFault
  BY DEF Request, RequestPush, PushLinked, PushHandsBackCheck, PushQueuesCheck, PushQueuesPush,
         RequestReceipt
<1> QED BY <1>2, <1>3, <1>4 DEF Request, Voucher

\* Init establishes everything AnyInv says.
LEMMA InitAny == Init => AnyInv
<1> SUFFICES ASSUME Init PROVE AnyInv
  OBVIOUS
<1>1. TypeOK
  BY BoundsAssumption, WindowsAssumption DEF Init, TypeOK, Outcomes
<1>2. Slots
  BY DEF Init, Slots, Created, Jobs
<1>3. AnswerIsTrue /\ LinkedIsPosted
  BY DEF Init, AnswerIsTrue, LinkedIsPosted
<1> QED BY <1>1, <1>2, <1>3 DEF AnyInv

\* Every step keeps the types.
LEMMA TypeStep == ASSUME TypeOK, Slots, [Next]_vars PROVE TypeOK'
<1> USE BoundsAssumption, WindowsAssumption DEF TypeOK, Outcomes
<1>1. CASE Request
  <2>1. PICK X \in SUBSET {j \in Jobs : Live(j)} :
              \/ GiveUp(X)
              \/ \E k \in {"push", "check"}, v \in Voucher : GiveUpAndQueue(X, k, v)
    BY <1>1, RequestCases
  <2>2. UNCHANGED <<healthVars, agentVars, posted>> /\ NoFault
    BY <1>1, RequestCases
  <2>3. CASE GiveUp(X)
    BY <2>2, <2>3 DEF GiveUp, StatusAfter, UnknownAfter, OutboxAfter, healthVars, agentVars, NoFault
  <2>4. ASSUME NEW k \in {"push", "check"}, NEW v \in Voucher, GiveUpAndQueue(X, k, v)
        PROVE  TypeOK'
    BY <2>2, <2>4, NextSlot DEF GiveUpAndQueue, StatusAfter, UnknownAfter, OutboxAfter, healthVars,
                                agentVars, NoFault
  <2> QED BY <2>1, <2>3, <2>4
<1>2. CASE BeginRound
  BY <1>2 DEF BeginRound, jobVars, healthVars, NoFault
<1>3. ASSUME NEW j \in Jobs,
             \/ PostVoucher(j) \/ RunCheck(j) \/ ImportRefused(j) \/ ImportUnanswered(j)
             \/ ImportGarbled(j) \/ CheckFails(j) \/ StopForCompany(j)
      PROVE  TypeOK'
  BY <1>3 DEF PostVoucher, RunCheck, ImportRefused, ImportUnanswered, ImportGarbled, CheckFails,
              StopForCompany, Obtains, Saved, NotSaved, Fault, NoFault, jobVars, healthVars
<1>4. ASSUME NEW j \in Jobs, NotReady(j) PROVE TypeOK'
  <2>1. waiting' \subseteq Jobs /\ status' \in [Jobs -> {"none", "queued", "sent", "ok", "error"}]
    BY <1>4 DEF NotReady
  <2>2. todo' \subseteq held' /\ nfaults' \in 0..MaxFaults
    BY <1>4 DEF NotReady, Fault, NoFault
  <2> QED BY <1>4, <2>1, <2>2 DEF NotReady, healthVars
<1>5. CASE Result \/ ResultLost \/ ResultAbsentBlocked
  <2> USE DEF LetGo, Live, Fault, NoFault, jobVars, healthVars
  <2>1. CASE ResultTooLate \/ ResultLost
    BY <2>1 DEF ResultTooLate, ResultLost
  <2>2. cur # 0 => entity[cur] \in Voucher
    BY DEF Slots
  <2>3. CASE ResultCreated
    BY <2>2, <2>3 DEF ResultCreated
  <2>4. CASE ResultError
    BY <2>4 DEF ResultError
  <2>5. CASE ResultFound
    BY <2>2, <2>5 DEF ResultFound, Prior, UnknownPush
  <2>6. CASE ResultAbsent
    BY <2>6, NextSlot DEF ResultAbsent
  <2>7. CASE ResultAbsentBlocked
    BY <2>7 DEF ResultAbsentBlocked
  <2> QED BY <1>5, <2>1, <2>3, <2>4, <2>5, <2>6, <2>7 DEF Result
<1>6. CASE EndRound \/ SkipCheckin \/ Restart
  BY <1>6 DEF EndRound, SkipCheckin, Restart, Fault, NoFault, jobVars, healthVars
<1>7. CASE Checkin \/ CheckinAnswerLost \/ CheckinLost
  BY <1>7 DEF Checkin, CheckinAnswerLost, CheckinLost, AfterCheckin, HandOver, Queued, Probes,
              Fault, NoFault, jobVars, healthVars
<1>8. CASE Tick
  BY <1>8 DEF Tick, NoFault
<1>9. CASE UNCHANGED vars
  BY <1>9 DEF vars, jobVars, healthVars, agentVars
<1> QED
  BY <1>1, <1>2, <1>3, <1>4, <1>5, <1>6, <1>7, <1>8, <1>9 DEF Next, AgentStep, AgentFault

\* Jobs are created in order, and the agent only holds created ones.
LEMMA SlotsStep == ASSUME TypeOK, Slots, [Next]_vars PROVE Slots'
<1> USE DEF TypeOK, Slots, Created
<1>1. CASE Request
  <2>1. PICK X \in SUBSET {j \in Jobs : Live(j)} :
              \/ GiveUp(X)
              \/ \E k \in {"push", "check"}, v \in Voucher : GiveUpAndQueue(X, k, v)
    BY <1>1, RequestCases
  <2>2. UNCHANGED <<healthVars, agentVars, posted>> /\ NoFault
    BY <1>1, RequestCases
  <2>3. CASE GiveUp(X)
    BY <2>2, <2>3 DEF GiveUp, StatusAfter, UnknownAfter, OutboxAfter, agentVars, Live
  <2>4. ASSUME NEW k \in {"push", "check"}, NEW v \in Voucher, GiveUpAndQueue(X, k, v)
        PROVE  Slots'
    BY <2>2, <2>4, NextSlot DEF GiveUpAndQueue, StatusAfter, UnknownAfter, OutboxAfter, agentVars,
                                Live
  <2> QED BY <2>1, <2>3, <2>4
<1>2. CASE BeginRound
  BY <1>2 DEF BeginRound, jobVars
<1>3. ASSUME NEW j \in Jobs,
             \/ PostVoucher(j) \/ RunCheck(j) \/ ImportRefused(j) \/ ImportUnanswered(j)
             \/ ImportGarbled(j) \/ CheckFails(j) \/ StopForCompany(j)
      PROVE  Slots'
  <2>1. Obtains(j, answer') /\ answer' # "none"
    BY <1>3 DEF PostVoucher, RunCheck, ImportRefused, ImportUnanswered, ImportGarbled, CheckFails,
                StopForCompany, Obtains
  <2> QED BY <2>1 DEF Obtains, jobVars, Jobs
<1>4. ASSUME NEW j \in Jobs, NotReady(j) PROVE Slots'
  BY <1>4 DEF NotReady
<1>5. CASE Result \/ ResultLost \/ ResultAbsentBlocked
  <2> USE DEF LetGo, Live, jobVars, healthVars
  <2>1. CASE ResultTooLate \/ ResultLost
    BY <2>1 DEF ResultTooLate, ResultLost
  <2>3. CASE ResultCreated
    BY <2>3 DEF ResultCreated
  <2>4. CASE ResultError
    BY <2>4 DEF ResultError
  <2>5. CASE ResultFound
    BY <2>5 DEF ResultFound, Prior, UnknownPush
  <2>6. CASE ResultAbsent
    <3>1. /\ njobs + 1 \in Jobs /\ njobs + 1 \notin Created /\ njobs' = njobs + 1
          /\ Created' = Created \cup {njobs + 1} /\ cur \in Created /\ entity[cur] \in Voucher
      BY <2>6, NextSlot DEF ResultAbsent
    <3>2. /\ kind'[njobs + 1] = "push" /\ status'[njobs + 1] = "queued"
          /\ entity'[njobs + 1] = entity[cur]
          /\ \A j \in Jobs \ {njobs + 1} :
               /\ kind'[j] = kind[j] /\ entity'[j] = entity[j] /\ outbox'[j] = outbox[j]
               /\ j # cur => status'[j] = status[j]
          /\ status'[cur] = "ok" /\ unknown' \subseteq unknown
      BY <2>6, <3>1 DEF ResultAbsent
    <3>3. held' \subseteq held /\ pending' = pending /\ cur' = 0 /\ answer' = "none"
      BY <2>6 DEF ResultAbsent
    <3> HIDE DEF Created
    <3> QED BY <3>1, <3>2, <3>3
  <2>7. CASE ResultAbsentBlocked
    BY <2>7 DEF ResultAbsentBlocked
  <2> QED BY <1>5, <2>1, <2>3, <2>4, <2>5, <2>6, <2>7 DEF Result
<1>6. CASE EndRound \/ SkipCheckin \/ Restart
  BY <1>6 DEF EndRound, SkipCheckin, Restart, jobVars
<1>7. CASE Checkin \/ CheckinAnswerLost \/ CheckinLost
  BY <1>7 DEF Checkin, CheckinAnswerLost, CheckinLost, AfterCheckin, HandOver, Queued, jobVars
<1>8. CASE Tick
  BY <1>8 DEF Tick
<1>9. CASE UNCHANGED vars
  BY <1>9 DEF vars, jobVars, agentVars
<1> QED
  BY <1>1, <1>2, <1>3, <1>4, <1>5, <1>6, <1>7, <1>8, <1>9 DEF Next, AgentStep, AgentFault

\* No step takes a voucher out of Tally.
LEMMA PostedGrows ==
  ASSUME TypeOK, Slots, [Next]_vars, NEW v \in Voucher PROVE posted'[v] >= posted[v]
<1> USE DEF TypeOK
<1>1. CASE \E j \in Jobs : PostVoucher(j) \/ ImportUnanswered(j) \/ ImportGarbled(j)
  BY <1>1 DEF PostVoucher, ImportUnanswered, ImportGarbled, Saved, NotSaved
<1>2. CASE \E j \in Jobs : RunCheck(j) \/ ImportRefused(j) \/ CheckFails(j) \/ StopForCompany(j)
                           \/ NotReady(j)
  BY <1>2 DEF RunCheck, ImportRefused, CheckFails, StopForCompany, NotReady, NotSaved
<1>3. CASE Request
  BY <1>3, RequestCases
<1>4. CASE \/ BeginRound \/ EndRound \/ Checkin \/ SkipCheckin \/ CheckinLost
           \/ CheckinAnswerLost \/ Restart \/ Tick \/ UNCHANGED vars
  BY <1>4 DEF BeginRound, EndRound, Checkin, SkipCheckin, CheckinLost, CheckinAnswerLost,
              AfterCheckin, Restart, Tick, vars
<1>5. CASE Result \/ ResultLost \/ ResultAbsentBlocked
  BY <1>5 DEF Result, ResultTooLate, ResultCreated, ResultError, ResultFound, ResultAbsent,
              ResultLost, ResultAbsentBlocked, LetGo
<1> QED BY <1>1, <1>2, <1>3, <1>4, <1>5 DEF Next, AgentStep, AgentFault

\* A created or found answer is about a voucher that is in Tally.
LEMMA AnswerStep == ASSUME AnyInv, [Next]_vars PROVE AnswerIsTrue'
<1> USE DEF AnyInv, AnswerIsTrue
<1>0. \A v \in Voucher : posted'[v] >= posted[v]
  BY PostedGrows
<1>00. /\ cur # 0 => cur \in Created /\ entity[cur] \in Voucher
       /\ posted \in [Voucher -> Nat]
       /\ cur = 0 <=> answer = "none"
  BY DEF Slots, TypeOK
<1>1. ASSUME answer' = answer, cur' = cur, \A j \in Created : entity'[j] = entity[j],
             posted' \in [Voucher -> Nat]
      PROVE  AnswerIsTrue'
  BY <1>0, <1>00, <1>1
<1>2. posted' \in [Voucher -> Nat]
  BY TypeStep DEF TypeOK
<1>3. CASE Request
  <2>1. PICK X \in SUBSET {j \in Jobs : Live(j)} :
              \/ GiveUp(X)
              \/ \E k \in {"push", "check"}, v \in Voucher : GiveUpAndQueue(X, k, v)
    BY <1>3, RequestCases
  <2>2. UNCHANGED agentVars
    BY <1>3, RequestCases
  <2>3. CASE GiveUp(X)
    BY <1>1, <1>2, <2>2, <2>3 DEF agentVars, GiveUp
  <2>4. ASSUME NEW k \in {"push", "check"}, NEW v \in Voucher, GiveUpAndQueue(X, k, v)
        PROVE  AnswerIsTrue'
    <3>1. \A j \in Created : entity'[j] = entity[j]
      BY <2>4, NextSlot DEF GiveUpAndQueue, TypeOK
    <3> QED BY <1>1, <1>2, <2>2, <3>1 DEF agentVars
  <2> QED BY <2>1, <2>3, <2>4
<1>4. ASSUME NEW j \in Jobs, PostVoucher(j) \/ RunCheck(j) PROVE AnswerIsTrue'
  <2>1. entity[j] \in Voucher
    BY <1>4 DEF PostVoucher, RunCheck, Obtains, Slots, TypeOK
  <2>2. CASE PostVoucher(j)
    BY <1>00, <2>1, <2>2 DEF PostVoucher, Obtains, Saved, jobVars
  <2>3. CASE RunCheck(j)
    <3>1. answer' = (IF posted[entity[j]] > 0 THEN "found" ELSE "absent")
      BY <2>3 DEF RunCheck, Obtains
    <3>2. posted' = posted /\ entity' = entity /\ cur' = j
      BY <2>3 DEF RunCheck, Obtains, NotSaved, jobVars
    <3> QED BY <3>1, <3>2
  <2> QED BY <1>4, <2>2, <2>3
<1>5. CASE \E j \in Jobs : \/ ImportRefused(j) \/ ImportUnanswered(j) \/ ImportGarbled(j)
                          \/ CheckFails(j) \/ StopForCompany(j)
  BY <1>5 DEF ImportRefused, ImportUnanswered, ImportGarbled, CheckFails, StopForCompany, Obtains
<1>6. CASE \/ BeginRound \/ EndRound \/ Checkin \/ SkipCheckin \/ CheckinLost \/ CheckinAnswerLost
           \/ Tick \/ UNCHANGED vars \/ \E j \in Jobs : NotReady(j)
  <2>1. answer' = answer /\ cur' = cur /\ entity' = entity
    BY <1>6 DEF BeginRound, EndRound, Checkin, SkipCheckin, CheckinLost, CheckinAnswerLost,
                AfterCheckin, HandOver, Tick, NotReady, vars, jobVars, agentVars
  <2> QED BY <1>1, <1>2, <2>1
<1>7. CASE Result \/ ResultLost \/ ResultAbsentBlocked \/ Restart
  BY <1>7 DEF Result, ResultTooLate, ResultCreated, ResultError, ResultFound, ResultAbsent,
              ResultLost, ResultAbsentBlocked, LetGo, Restart
<1> QED BY <1>3, <1>4, <1>5, <1>6, <1>7 DEF Next, AgentStep, AgentFault

\* Only a created or found voucher is linked.
LEMMA LinkedStep == ASSUME AnyInv, [Next]_vars PROVE LinkedIsPosted'
<1> USE DEF AnyInv, LinkedIsPosted
<1>1. linked \subseteq Voucher /\ posted \in [Voucher -> Nat] /\ posted' \in [Voucher -> Nat]
  BY TypeStep DEF TypeOK
<1>2. \A v \in Voucher : posted'[v] >= posted[v]
  BY PostedGrows
<1>3. ASSUME NEW v \in linked', v \notin linked PROVE v = entity[cur] /\ answer \in {"created", "found"}
  <2>1. CASE Request
    BY <1>3, <2>1, RequestCases DEF GiveUp, GiveUpAndQueue
  <2>2. CASE ResultCreated
    BY <1>3, <2>2 DEF ResultCreated
  <2>3. CASE ResultFound
    BY <1>3, <2>3 DEF ResultFound, Prior, UnknownPush
  <2>4. linked' = linked \/ Request \/ ResultCreated \/ ResultFound
    BY DEF Next, AgentStep, AgentFault, BeginRound, EndRound, Checkin, SkipCheckin, CheckinLost,
           CheckinAnswerLost, HandOver, Tick, NotReady, vars, jobVars, Result, ResultTooLate,
           ResultError, ResultAbsent, ResultLost, ResultAbsentBlocked, Restart, PostVoucher,
           RunCheck, ImportRefused, ImportUnanswered, ImportGarbled, CheckFails, StopForCompany,
           Obtains
  <2> QED BY <1>3, <2>1, <2>2, <2>3, <2>4
<1>4. ASSUME NEW v \in linked' PROVE posted'[v] > 0
  <2>1. posted[v] > 0
    BY <1>3, <1>4 DEF AnswerIsTrue
  <2>2. v \in Voucher
    BY <1>4, TypeStep DEF TypeOK
  <2> QED BY <1>1, <1>2, <2>1, <2>2
<1> QED BY <1>4

\* AnyInv is inductive, whatever goes wrong.
LEMMA AnyStep == AnyInv /\ [Next]_vars => AnyInv'
  BY TypeStep, SlotsStep, AnswerStep, LinkedStep DEF AnyInv

LEMMA AnyInvariant == Spec => []AnyInv
  BY InitAny, AnyStep, PTL DEF Spec

\* The variables keep their types in every behaviour.
THEOREM TypeCorrect == Spec => []TypeOK
<1>1. AnyInv => TypeOK
  BY DEF AnyInv
<1> QED BY <1>1, AnyInvariant, PTL

\* Whatever goes wrong, a voucher shown as pushed is in TallyPrime.
THEOREM LinkedVouchersExist == Spec => []LinkedIsPosted
<1>1. AnyInv => LinkedIsPosted
  BY DEF AnyInv
<1> QED BY <1>1, AnyInvariant, PTL

-----------------------------------------------------------------------------
(* What pushing vouchers promises a shop whose Tally is open with the      *)
(* right company and answers in XML (Ready), where restarts, lost requests *)
(* and answers, imports without an answer, refusals, failed checks and an  *)
(* agent that stops for any length of time are all allowed; and a shop     *)
(* whose Tally is closed at times, but whose agent is punctual and always  *)
(* reaches the backend (InTime).                                           *)
(*                                                                         *)
(* PushInv carries both.  CheckQueued, PushQueued, UncheckedQueued and     *)
(* OnlyGivenUp take the requests of the shop, which touch all of the job   *)
(* book at once, given that the jobs they give up are safe to give up;     *)
(* ShapeStep, BookStep and HandStep take its parts through the other       *)
(* steps.  ReadyInv and InTimeInv add why giving up is safe.               *)

\* In PushInv a request gives up all that is in flight before it queues a job.
LEMMA PushRequest ==
  ASSUME PushInv, Request
  PROVE  /\ \E X \in SUBSET Jobs, v \in Voucher :
              /\ \A j \in X : Stuck(j)
              /\ GivesUpOnly(X, v) \/ QueuesCheck(X, v) \/ QueuesPush(X, v) \/ QueuesUnchecked(X, v)
         /\ UNCHANGED <<healthVars, agentVars, posted>>
         /\ NoFault
<1>1. UNCHANGED <<healthVars, agentVars, posted>> /\ NoFault
  BY RequestCases DEF PushInv, AnyInv
<1>2. ASSUME NEW r \in Receipt, RequestReceipt(r)
      PROVE  QueuesUnchecked({}, r)
  BY <1>2, SetsAssumption DEF RequestReceipt, QueuesUnchecked, Checked
<1>3. ASSUME NEW d \in Doc, RequestPush(d)
      PROVE  \E X \in SUBSET Jobs :
               /\ \A j \in X : Stuck(j)
               /\ GivesUpOnly(X, d) \/ QueuesCheck(X, d) \/ QueuesPush(X, d) \/ QueuesUnchecked(X, d)
  <2>1. \A X \in GivenUp(LivePush(d)) :
          /\ X \in SUBSET Jobs /\ X \subseteq InFlight(d)
          /\ \A j \in X : kind[j] = "push" /\ Stuck(j)
    BY DEF GivenUp, LivePush, LiveOf, InFlight
  <2>2. \A X \in GivenUp(LiveCheck(d)) :
          /\ X \in SUBSET Jobs /\ X \subseteq InFlight(d)
          /\ \A j \in X : kind[j] = "check" /\ Stuck(j)
    BY DEF GivenUp, LiveCheck, LiveOf, InFlight
  \* With at most one push and one check in flight, what is given up is all there is.
  <2>3. ASSUME d \in Checked, NEW old \in GivenUp(LivePush(d)), NEW chk \in GivenUp(LiveCheck(d))
        PROVE  /\ old \cup chk = InFlight(d)
               /\ UnknownAfter(old \cup chk) = UnknownAfter(old)
    <3>1. \A i, j \in LivePush(d) : i = j
      BY <2>3 DEF PushInv, BookInv, OneOpen, Open, LivePush, LiveOf
    <3>2. \A i, j \in LiveCheck(d) : i = j
      BY <2>3 DEF PushInv, BookInv, OneOpen, LiveCheck, LiveOf
    <3>3. old = LivePush(d)
      BY <2>3, <3>1 DEF GivenUp
    <3>4. chk = LiveCheck(d)
      BY <2>3, <3>2 DEF GivenUp
    <3>5. InFlight(d) = LivePush(d) \cup LiveCheck(d)
      BY DEF InFlight, LivePush, LiveCheck, LiveOf, Live, PushInv, AnyInv, TypeOK, Slots
    <3>6. UnknownAfter(old \cup chk) = UnknownAfter(old)
      BY <2>2, <2>3 DEF UnknownAfter
    <3> QED BY <3>3, <3>4, <3>5, <3>6
  <2>4. CASE PushLinked(d)
    BY <2>1, <2>4 DEF PushLinked, GivesUpOnly
  <2>5. CASE PushHandsBackCheck(d)
    BY <2>1, <2>5 DEF PushHandsBackCheck, GivesUpOnly
  <2>6. CASE PushQueuesCheck(d)
    BY <2>1, <2>2, <2>3, <2>6 DEF PushQueuesCheck, QueuesCheck, Doubtful, Checked
  <2>7. CASE PushQueuesPush(d)
    <3>1. CASE d \in NoRef
      BY <2>1, <2>7, <3>1 DEF PushQueuesPush, QueuesUnchecked, Checked
    <3>2. CASE d \notin NoRef
      BY <2>1, <2>2, <2>3, <2>7, <3>2 DEF PushQueuesPush, QueuesPush, Doubtful, Checked
    <3> QED BY <3>1, <3>2
  <2> QED BY <1>3, <2>4, <2>5, <2>6, <2>7 DEF RequestPush
<1> QED BY <1>1, <1>2, <1>3 DEF Request, Voucher

\* A request that queues a job, job by job.
LEMMA QueueBooks ==
  ASSUME TypeOK, Slots, NEW v \in Voucher, NEW X \in SUBSET InFlight(v),
         NEW k \in {"push", "check"}, GiveUpAndQueue(X, k, v)
  PROVE  Booked(X, k, v)
<1>1. njobs + 1 \in Jobs /\ njobs + 1 \notin Created
  BY NextSlot DEF GiveUpAndQueue
<1>2. njobs + 1 \notin X /\ njobs + 1 \notin unknown /\ X \subseteq Jobs
  BY <1>1 DEF InFlight, Live, Slots
<1> QED BY <1>1, <1>2 DEF Booked, GiveUpAndQueue, StatusAfter, UnknownAfter, OutboxAfter, TypeOK

\* A check is queued: everything else in flight for its document is given up, and a
\* push of it is in doubt.
LEMMA CheckQueued ==
  ASSUME PushInv, NEW v \in Voucher, NEW X \in SUBSET Jobs, QueuesCheck(X, v),
         SafeToGiveUp(X), UNCHANGED <<agentVars, posted>>
  PROVE  BookInv' /\ HandInv'
<1> DEFINE n == njobs + 1
<1>1. Booked(X, "check", v) /\ X = InFlight(v) /\ v \in Checked /\ v \in Doc
  BY QueueBooks DEF QueuesCheck, PushInv, AnyInv, Checked
<1>2. /\ n \in Jobs /\ kind'[n] = "check" /\ entity'[n] = v /\ n \notin unknown'
      /\ linked' = linked /\ posted' = posted
  BY <1>1 DEF Booked
<1>3. ASSUME NEW j \in Jobs, j # n
      PROVE  /\ kind'[j] = kind[j] /\ entity'[j] = entity[j]
             /\ Live(j)' <=> Live(j) /\ entity[j] # v
             /\ j \in unknown => j \in unknown'
             /\ j \in unknown' => j \in unknown \/ (kind[j] = "push" /\ Live(j))
             /\ outbox'[j] = "queued" => outbox[j] = "queued" /\ ~(Live(j) /\ entity[j] = v)
  BY <1>1, <1>3 DEF Booked, InFlight, Live, UnknownAfter
<1>4. \A j \in Jobs : Open(j)' => j # n /\ Open(j)
  BY <1>2, <1>3 DEF Open
<1>5. PICK u \in Jobs : u # n /\ u \in unknown' /\ entity'[u] = v /\ kind'[u] = "push"
  <2>1. PICK u \in UnknownAfter(X) : entity[u] = v
    BY DEF QueuesCheck, Doubtful
  <2>2. u \in Jobs /\ kind[u] = "push"
    BY <1>1, <2>1 DEF UnknownAfter, PushInv, AnyInv, TypeOK, ShapeInv, JobShape, InFlight
  <2>3. u # n
    BY <1>1, <2>1, <2>2 DEF UnknownAfter, PushInv, AnyInv, Slots, Booked, InFlight, Live
  <2> QED BY <1>1, <2>1, <2>2, <2>3 DEF Booked
<1>6. OneOpen'
  <2>1. OneOpen
    BY DEF PushInv, BookInv
  <2>2. \A j \in Jobs : kind'[j] = "check" /\ Live(j)' /\ entity'[j] = v => j = n
    BY <1>3
  <2>3. \A j \in Jobs : kind'[j] = "check" /\ Live(j)' /\ j # n => kind[j] = "check" /\ Live(j)
    BY <1>3
  <2>4. \A j \in Jobs : j # n => entity'[j] = entity[j]
    BY <1>3
  <2>5. n \in Jobs /\ entity'[n] = v /\ linked' = linked
    BY <1>2
  <2> HIDE DEF n
  <2>6. Checked' = Checked
    BY DEF Checked
  <2> SUFFICES ASSUME NEW i \in Jobs, NEW j \in Jobs, entity'[i] = entity'[j], entity'[i] \in Checked
               PROVE  /\ Open(i)' /\ Open(j)' => i = j
                      /\ Open(i)' => entity'[i] \notin linked'
                      /\ kind'[i] = "check" /\ Live(i)' /\ kind'[j] = "check" /\ Live(j)' => i = j
    BY <2>6 DEF OneOpen
  <2>7. Open(i)' /\ Open(j)' => i = j
    BY <1>4, <2>1, <2>4 DEF OneOpen
  <2>8. Open(i)' => entity'[i] \notin linked'
    BY <1>4, <2>1, <2>4, <2>5 DEF OneOpen
  <2>9. kind'[i] = "check" /\ Live(i)' /\ kind'[j] = "check" /\ Live(j)' => i = j
    BY <2>1, <2>2, <2>3, <2>4, <2>5 DEF OneOpen
  <2> QED BY <2>7, <2>8, <2>9
<1>7. CheckHasReason'
  <2> SUFFICES ASSUME NEW c \in Jobs, kind'[c] = "check", Live(c)'
               PROVE  \E j \in Jobs : entity'[j] = entity'[c] /\ kind'[j] = "push" /\ j \in unknown'
    BY DEF CheckHasReason
  <2>1. CASE c = n
    BY <1>2, <1>5, <2>1
  <2>2. CASE c # n
    <3>1. PICK j \in Jobs : entity[j] = entity[c] /\ kind[j] = "push" /\ j \in unknown
      BY <1>3, <2>2 DEF PushInv, BookInv, CheckHasReason
    <3>2. j # n
      BY <1>1, <3>1 DEF PushInv, AnyInv, Slots, Booked
    <3> QED BY <1>3, <2>2, <3>1, <3>2
  <2> QED BY <2>1, <2>2
<1>8. OpenIfPosted'
  <2> SUFFICES ASSUME NEW d \in Checked, posted[d] = 1, d \notin linked
               PROVE  \E j \in Jobs : entity'[j] = d /\ Open(j)'
    BY <1>2 DEF OpenIfPosted, PushInv, BookInv, Checked
  <2>1. CASE d = v
    BY <1>5, <2>1 DEF Open
  <2>2. CASE d # v
    <3>1. PICK j \in Jobs : entity[j] = d /\ Open(j)
      BY DEF PushInv, BookInv, OpenIfPosted
    <3>2. j # n
      BY <1>1, <3>1 DEF PushInv, AnyInv, Slots, Booked, Open
    <3> QED BY <1>3, <2>2, <3>1, <3>2 DEF Open
  <2> QED BY <2>1, <2>2
<1>9. InHand' = InHand /\ cur' = cur /\ n \notin InHand
  BY <1>1 DEF agentVars, InHand, Booked, PushInv, AnyInv, Slots
<1>10. RunnableIsOpen'
  <2> SUFFICES ASSUME NEW j \in Jobs, kind'[j] = "push", entity'[j] \in Checked, Runnable(j)'
               PROVE  Open(j)' /\ posted[entity'[j]] = 0
    BY <1>2 DEF RunnableIsOpen, Checked
  <2>1. j # n
    BY <1>2
  <2>2. Runnable(j)
    BY <1>3, <1>9, <2>1 DEF Runnable
  <2>3. Open(j) /\ posted[entity[j]] = 0
    BY <1>3, <2>1, <2>2 DEF PushInv, HandInv, RunnableIsOpen
  <2>4. CASE Live(j) /\ entity[j] = v
    <3>1. j \in InHand
      BY <1>3, <1>9, <2>1, <2>4 DEF Runnable
    <3>2. j \in UnknownAfter(X)
      BY <1>1, <1>3, <2>1, <2>4, <3>1 DEF SafeToGiveUp, InFlight
    <3> QED BY <1>1, <1>3, <2>1, <2>3, <3>2 DEF Booked, Open
  <2>5. CASE ~(Live(j) /\ entity[j] = v)
    BY <1>3, <2>1, <2>3, <2>5 DEF Open
  <2> QED BY <2>4, <2>5
<1>11. CheckRunsAlone'
  <2> SUFFICES ASSUME NEW c \in InHand, NEW j \in InHand, kind'[c] = "check", Live(c)', kind'[j] = "push"
               PROVE  entity'[c] # entity'[j]
    BY <1>9 DEF CheckRunsAlone
  <2>1. c # n /\ j # n /\ c \in Jobs /\ j \in Jobs
    BY <1>9 DEF InHand, PushInv, AnyInv, TypeOK
  <2>2. kind[c] = "check" /\ Live(c) /\ kind[j] = "push"
    BY <1>3, <2>1
  <2>3. entity[c] # entity[j]
    BY <2>2 DEF PushInv, HandInv, CheckRunsAlone
  <2> QED BY <1>3, <2>1, <2>3
<1> QED BY <1>6, <1>7, <1>8, <1>10, <1>11 DEF BookInv, HandInv

\* A push is queued: nothing is in doubt, so what was in flight for its document and is
\* given up had not left the outbox, and the voucher is not in Tally.
LEMMA PushQueued ==
  ASSUME PushInv, NEW v \in Voucher, NEW X \in SUBSET Jobs, QueuesPush(X, v),
         SafeToGiveUp(X), UNCHANGED <<agentVars, posted>>
  PROVE  BookInv' /\ HandInv'
<1> DEFINE n == njobs + 1
<1>1. Booked(X, "push", v) /\ X = InFlight(v) /\ v \in Checked \ linked /\ v \in Doc
  BY QueueBooks DEF QueuesPush, PushInv, AnyInv, Checked
<1>2. /\ n \in Jobs /\ kind'[n] = "push" /\ entity'[n] = v /\ status'[n] = "queued"
      /\ linked' = linked /\ posted' = posted
  BY <1>1 DEF Booked
<1>3. ASSUME NEW j \in Jobs, entity[j] = v
      PROVE  /\ j \notin unknown
             /\ kind[j] = "push" /\ Live(j) => posted[v] = 0 /\ j \notin InHand
  <2>1. j \notin UnknownAfter(X)
    BY <1>3 DEF QueuesPush, Doubtful
  <2>2. kind[j] = "push" /\ Live(j) => posted[v] = 0 /\ j \notin InHand
    BY <1>1, <1>3, <2>1 DEF SafeToGiveUp, InFlight
  <2> QED BY <1>3, <2>1, <2>2 DEF UnknownAfter
<1>4. posted[v] = 0
  <2>1. posted[v] \in Nat /\ posted[v] <= 1
    BY <1>1 DEF PushInv, AnyInv, TypeOK, BookInv, OpenIfPosted
  <2>2. ASSUME posted[v] = 1 PROVE FALSE
    <3>1. PICK j \in Jobs : entity[j] = v /\ Open(j)
      BY <1>1, <2>2 DEF PushInv, BookInv, OpenIfPosted
    <3> QED BY <1>3, <2>2, <3>1 DEF Open
  <2> QED BY <2>1, <2>2
<1>5. ASSUME NEW j \in Jobs, j # n
      PROVE  /\ kind'[j] = kind[j] /\ entity'[j] = entity[j]
             /\ Live(j)' <=> Live(j) /\ entity[j] # v
             /\ j \in unknown' <=> j \in unknown
             /\ outbox'[j] = "queued" => outbox[j] = "queued" /\ ~(Live(j) /\ entity[j] = v)
  <2>1. entity[j] = v => j \notin UnknownAfter(X)
    BY DEF QueuesPush, Doubtful
  <2> QED BY <1>1, <1>5, <2>1 DEF Booked, InFlight, Live, UnknownAfter
<1>6. \A j \in Jobs : j # n /\ Open(j)' => Open(j) /\ entity[j] # v
  BY <1>3, <1>5 DEF Open
<1>7. OneOpen'
  <2>1. OneOpen
    BY DEF PushInv, BookInv
  <2>2. \A j \in Jobs : kind'[j] = "check" /\ Live(j)' => j # n /\ kind[j] = "check" /\ Live(j)
    BY <1>2, <1>5
  <2>3. \A j \in Jobs : j # n => entity'[j] = entity[j]
    BY <1>5
  <2>4. n \in Jobs /\ entity'[n] = v /\ linked' = linked /\ v \notin linked
    BY <1>1, <1>2
  <2> HIDE DEF n
  <2>5. Checked' = Checked
    BY DEF Checked
  <2> SUFFICES ASSUME NEW i \in Jobs, NEW j \in Jobs, entity'[i] = entity'[j], entity'[i] \in Checked
               PROVE  /\ Open(i)' /\ Open(j)' => i = j
                      /\ Open(i)' => entity'[i] \notin linked'
                      /\ kind'[i] = "check" /\ Live(i)' /\ kind'[j] = "check" /\ Live(j)' => i = j
    BY <2>5 DEF OneOpen
  <2>6. Open(i)' /\ Open(j)' => i = j
    BY <1>6, <2>1, <2>3, <2>4 DEF OneOpen
  <2>7. Open(i)' => entity'[i] \notin linked'
    BY <1>6, <2>1, <2>3, <2>4 DEF OneOpen
  <2>8. kind'[i] = "check" /\ Live(i)' /\ kind'[j] = "check" /\ Live(j)' => i = j
    BY <2>1, <2>2, <2>3 DEF OneOpen
  <2> QED BY <2>6, <2>7, <2>8
<1>8. CheckHasReason'
  <2> SUFFICES ASSUME NEW c \in Jobs, kind'[c] = "check", Live(c)'
               PROVE  \E j \in Jobs : entity'[j] = entity'[c] /\ kind'[j] = "push" /\ j \in unknown'
    BY DEF CheckHasReason
  <2>1. c # n
    BY <1>2
  <2>2. PICK j \in Jobs : entity[j] = entity[c] /\ kind[j] = "push" /\ j \in unknown
    BY <1>5, <2>1 DEF PushInv, BookInv, CheckHasReason
  <2>3. j # n
    BY <1>1, <2>2 DEF PushInv, AnyInv, Slots, Booked
  <2> QED BY <1>5, <2>1, <2>2, <2>3
<1>9. OpenIfPosted'
  <2> SUFFICES ASSUME NEW d \in Checked, posted[d] = 1, d \notin linked
               PROVE  \E j \in Jobs : entity'[j] = d /\ Open(j)'
    BY <1>2 DEF OpenIfPosted, PushInv, BookInv, Checked
  <2>1. d # v
    BY <1>4
  <2>2. PICK j \in Jobs : entity[j] = d /\ Open(j)
    BY DEF PushInv, BookInv, OpenIfPosted
  <2>3. j # n
    BY <1>1, <2>2 DEF PushInv, AnyInv, Slots, Booked, Open
  <2> QED BY <1>5, <2>1, <2>2, <2>3 DEF Open
<1>10. InHand' = InHand /\ cur' = cur /\ n \notin InHand
  BY <1>1 DEF agentVars, InHand, Booked, PushInv, AnyInv, Slots
<1>11. RunnableIsOpen'
  <2> SUFFICES ASSUME NEW j \in Jobs, kind'[j] = "push", entity'[j] \in Checked, Runnable(j)'
               PROVE  Open(j)' /\ posted[entity'[j]] = 0
    BY <1>2 DEF RunnableIsOpen, Checked
  <2>1. CASE j = n
    BY <1>2, <1>4, <2>1 DEF Open, Live
  <2>2. CASE j # n
    <3>1. Runnable(j)
      BY <1>5, <1>10, <2>2 DEF Runnable
    <3>2. Open(j) /\ posted[entity[j]] = 0
      BY <1>5, <2>2, <3>1 DEF PushInv, HandInv, RunnableIsOpen
    <3>3. CASE entity[j] = v
      <4>1. kind[j] = "push" /\ Live(j) /\ j \notin InHand
        BY <1>3, <3>2, <3>3 DEF Open
      <4> QED BY <1>1, <1>5, <1>10, <2>2, <3>3, <4>1 DEF Runnable
    <3>4. CASE entity[j] # v
      BY <1>5, <2>2, <3>2, <3>4 DEF Open
    <3> QED BY <3>3, <3>4
  <2> QED BY <2>1, <2>2
<1>12. CheckRunsAlone'
  <2> SUFFICES ASSUME NEW c \in InHand, NEW j \in InHand, kind'[c] = "check", Live(c)', kind'[j] = "push"
               PROVE  entity'[c] # entity'[j]
    BY <1>10 DEF CheckRunsAlone
  <2>1. c # n /\ j # n /\ c \in Jobs /\ j \in Jobs
    BY <1>10 DEF InHand, PushInv, AnyInv, TypeOK
  <2>2. kind[c] = "check" /\ Live(c) /\ kind[j] = "push"
    BY <1>5, <2>1
  <2>3. entity[c] # entity[j]
    BY <2>2 DEF PushInv, HandInv, CheckRunsAlone
  <2> QED BY <1>5, <2>1, <2>3
<1> QED BY <1>7, <1>8, <1>9, <1>11, <1>12 DEF BookInv, HandInv

\* A push the check does not protect is queued: nothing changes for the others.
LEMMA UncheckedQueued ==
  ASSUME PushInv, NEW v \in Voucher, NEW X \in SUBSET Jobs, QueuesUnchecked(X, v),
         UNCHANGED <<agentVars, posted>>
  PROVE  BookInv' /\ HandInv'
<1> DEFINE n == njobs + 1
<1>1. Booked(X, "push", v) /\ X \subseteq InFlight(v) /\ v \notin Checked
  BY QueueBooks DEF QueuesUnchecked, PushInv, AnyInv
<1>2. n \in Jobs /\ entity'[n] = v /\ kind'[n] = "push" /\ linked' = linked /\ posted' = posted
  BY <1>1 DEF Booked
<1>3. ASSUME NEW j \in Jobs, j # n
      PROVE  /\ kind'[j] = kind[j] /\ entity'[j] = entity[j]
             /\ Live(j)' => Live(j)
             /\ entity[j] # v => /\ Live(j)' <=> Live(j)
                                 /\ j \in unknown' <=> j \in unknown
             /\ outbox'[j] = "queued" => outbox[j] = "queued"
             /\ j \in unknown => j \in unknown'
  BY <1>1, <1>3 DEF Booked, InFlight, Live, UnknownAfter
<1>4. \A j \in Jobs : entity'[j] \in Checked => j # n /\ entity[j] \in Checked /\ (Open(j)' <=> Open(j))
  BY <1>1, <1>2, <1>3 DEF Open
<1>5. Checked' = Checked /\ InHand' = InHand /\ cur' = cur /\ n \notin InHand
  BY <1>1 DEF agentVars, InHand, Booked, PushInv, AnyInv, Slots, Checked
<1>6. OneOpen'
  <2>1. OneOpen
    BY DEF PushInv, BookInv
  <2>2. \A j \in Jobs : kind'[j] = "check" /\ Live(j)' => j # n /\ kind[j] = "check" /\ Live(j)
    BY <1>2, <1>3
  <2>3. \A j \in Jobs : j # n => entity'[j] = entity[j]
    BY <1>3
  <2> HIDE DEF n
  <2> SUFFICES ASSUME NEW i \in Jobs, NEW j \in Jobs, entity'[i] = entity'[j], entity'[i] \in Checked
               PROVE  /\ Open(i)' /\ Open(j)' => i = j
                      /\ Open(i)' => entity'[i] \notin linked'
                      /\ kind'[i] = "check" /\ Live(i)' /\ kind'[j] = "check" /\ Live(j)' => i = j
    BY <1>5 DEF OneOpen
  <2>4. Open(i)' /\ Open(j)' => i = j
    BY <1>4, <2>1, <2>3 DEF OneOpen
  <2>5. Open(i)' => entity'[i] \notin linked'
    BY <1>2, <1>4, <2>1, <2>3 DEF OneOpen
  <2>6. kind'[i] = "check" /\ Live(i)' /\ kind'[j] = "check" /\ Live(j)' => i = j
    BY <1>4, <2>1, <2>2, <2>3 DEF OneOpen
  <2> QED BY <2>4, <2>5, <2>6
<1>7. CheckHasReason'
  <2> SUFFICES ASSUME NEW c \in Jobs, kind'[c] = "check", Live(c)'
               PROVE  \E j \in Jobs : entity'[j] = entity'[c] /\ kind'[j] = "push" /\ j \in unknown'
    BY DEF CheckHasReason
  <2>1. c # n
    BY <1>2
  <2>2. PICK j \in Jobs : entity[j] = entity[c] /\ kind[j] = "push" /\ j \in unknown
    BY <1>3, <2>1 DEF PushInv, BookInv, CheckHasReason
  <2>3. j # n
    BY <1>1, <2>2 DEF PushInv, AnyInv, Slots, Booked
  <2> QED BY <1>3, <2>1, <2>2, <2>3
<1>8. OpenIfPosted'
  <2> SUFFICES ASSUME NEW d \in Checked, posted[d] = 1, d \notin linked
               PROVE  \E j \in Jobs : entity'[j] = d /\ Open(j)'
    BY <1>2, <1>5 DEF OpenIfPosted, PushInv, BookInv
  <2>1. PICK j \in Jobs : entity[j] = d /\ Open(j)
    BY DEF PushInv, BookInv, OpenIfPosted
  <2>2. j # n
    BY <1>1, <2>1 DEF PushInv, AnyInv, Slots, Booked, Open
  <2> QED BY <1>3, <1>4, <2>1, <2>2
<1>9. RunnableIsOpen'
  <2> SUFFICES ASSUME NEW j \in Jobs, kind'[j] = "push", entity'[j] \in Checked, Runnable(j)'
               PROVE  Open(j)' /\ posted[entity'[j]] = 0
    BY <1>2, <1>5 DEF RunnableIsOpen
  <2>1. j # n /\ entity[j] \in Checked
    BY <1>4
  <2>2. Runnable(j)
    BY <1>3, <1>5, <2>1 DEF Runnable
  <2> QED BY <1>3, <1>4, <2>1, <2>2 DEF PushInv, HandInv, RunnableIsOpen
<1>10. CheckRunsAlone'
  <2> SUFFICES ASSUME NEW c \in InHand, NEW j \in InHand, kind'[c] = "check", Live(c)', kind'[j] = "push"
               PROVE  entity'[c] # entity'[j]
    BY <1>5 DEF CheckRunsAlone
  <2>1. c # n /\ j # n /\ c \in Jobs /\ j \in Jobs
    BY <1>5 DEF InHand, PushInv, AnyInv, TypeOK
  <2>2. kind[c] = "check" /\ Live(c) /\ kind[j] = "push"
    BY <1>3, <2>1
  <2>3. entity[c] # entity[j]
    BY <2>2 DEF PushInv, HandInv, CheckRunsAlone
  <2> QED BY <1>3, <2>1, <2>3
<1> QED BY <1>6, <1>7, <1>8, <1>9, <1>10 DEF BookInv, HandInv


\* Pushes of a document are given up and nothing is queued.
LEMMA OnlyGivenUp ==
  ASSUME PushInv, NEW v \in Voucher, NEW X \in SUBSET Jobs, GivesUpOnly(X, v),
         SafeToGiveUp(X), UNCHANGED <<agentVars, posted>>
  PROVE  BookInv' /\ HandInv'
<1> USE DEF PushInv
<1>1. /\ X \subseteq InFlight(v) /\ \A j \in X : kind[j] = "push"
      /\ kind' = kind /\ entity' = entity /\ linked' = linked /\ posted' = posted
      /\ Checked' = Checked
  BY DEF GivesUpOnly, GiveUp, Checked
<1>2. ASSUME NEW j \in Jobs
      PROVE  /\ Live(j)' <=> Live(j) /\ j \notin X
             /\ j \in unknown => j \in unknown'
             /\ j \in unknown' <=> j \in UnknownAfter(X)
             /\ j \in unknown' => j \in unknown \/ (kind[j] = "push" /\ Live(j))
             /\ outbox'[j] = "queued" => outbox[j] = "queued" /\ j \notin X
  BY <1>1 DEF GivesUpOnly, GiveUp, StatusAfter, UnknownAfter, OutboxAfter, InFlight, Live, AnyInv,
              TypeOK
<1>3. \A j \in Jobs : Open(j)' => Open(j)
  BY <1>1, <1>2 DEF Open
<1>4. InHand' = InHand /\ cur' = cur
  BY DEF agentVars, InHand
<1>5. OneOpen'
  BY <1>1, <1>2, <1>3 DEF BookInv, OneOpen
<1>6. CheckHasReason'
  BY <1>1, <1>2 DEF BookInv, CheckHasReason
<1>7. OpenIfPosted'
  <2> SUFFICES ASSUME NEW d \in Checked, posted[d] = 1, d \notin linked
               PROVE  \E j \in Jobs : entity[j] = d /\ Open(j)'
    BY <1>1 DEF OpenIfPosted, BookInv
  <2>1. PICK j \in Jobs : entity[j] = d /\ Open(j)
    BY DEF BookInv, OpenIfPosted
  <2>2. j \in X => j \in unknown'
    BY <1>1, <1>2, <2>1 DEF SafeToGiveUp
  <2> QED BY <1>1, <1>2, <2>1, <2>2 DEF Open
<1>8. RunnableIsOpen'
  <2> SUFFICES ASSUME NEW j \in Jobs, kind[j] = "push", entity[j] \in Checked, Runnable(j)'
               PROVE  Open(j)' /\ posted[entity[j]] = 0
    BY <1>1 DEF RunnableIsOpen
  <2>1. Runnable(j)
    BY <1>2, <1>4 DEF Runnable
  <2>2. Open(j) /\ posted[entity[j]] = 0
    BY <2>1 DEF HandInv, RunnableIsOpen
  <2>3. j \in X => j \in unknown'
    BY <1>2, <1>4 DEF SafeToGiveUp, Runnable
  <2> QED BY <1>1, <1>2, <2>2, <2>3 DEF Open
<1>9. CheckRunsAlone'
  <2>1. InHand \subseteq Jobs
    BY DEF InHand, AnyInv, TypeOK
  <2> QED BY <1>1, <1>2, <1>4, <2>1 DEF HandInv, CheckRunsAlone
<1> QED BY <1>5, <1>6, <1>7, <1>8, <1>9 DEF BookInv, HandInv

\* Where the agent and each job stand, after a request.
LEMMA RequestShape ==
  ASSUME PushInv, NEW v \in Voucher, NEW X \in SUBSET Jobs,
         GivesUpOnly(X, v) \/ QueuesCheck(X, v) \/ QueuesPush(X, v) \/ QueuesUnchecked(X, v),
         UNCHANGED <<agentVars, posted>>
  PROVE  ShapeInv'
<1> USE DEF PushInv, AnyInv, TypeOK, Slots
<1>1. InHand' = InHand /\ InHand \subseteq Created /\ Created \subseteq Jobs /\ Checked' = Checked
  <2>1. InHand' = InHand /\ Checked' = Checked
    BY DEF agentVars, InHand, Checked
  <2>2. InHand \subseteq Created
    BY DEF InHand
  <2>3. Created \subseteq Jobs
    BY BoundsAssumption DEF Created, Jobs
  <2> QED BY <2>1, <2>2, <2>3
<1>2. PaceShape'
  BY DEF agentVars, ShapeInv, PaceShape
<1>3. CASE GivesUpOnly(X, v)
  <2>1. X \subseteq InFlight(v) /\ (\A j \in X : kind[j] = "push") /\ kind' = kind /\ entity' = entity
    BY <1>3 DEF GivesUpOnly, GiveUp
  <2>2. OutboxShape'
    BY <1>1, <1>3 DEF GivesUpOnly, GiveUp, StatusAfter, OutboxAfter, ShapeInv, OutboxShape, InFlight,
                      Live
  <2>3. AnswerShape'
    BY <1>1, <1>3, <2>1 DEF GivesUpOnly, GiveUp, StatusAfter, ShapeInv, AnswerShape, InFlight, Live,
                            agentVars
  <2>4. JobShape'
    BY <1>1, <1>3, <2>1 DEF GivesUpOnly, GiveUp, StatusAfter, UnknownAfter, ShapeInv, JobShape,
                            InFlight, Live
  <2> QED BY <1>2, <2>2, <2>3, <2>4 DEF ShapeInv
<1>4. ASSUME NEW k \in {"push", "check"}, k = "check" => v \in Checked, X \subseteq InFlight(v),
             GiveUpAndQueue(X, k, v)
      PROVE  ShapeInv'
  <2>1. Booked(X, k, v) /\ njobs + 1 \notin InHand /\ cur # njobs + 1
    BY <1>1, <1>4, QueueBooks DEF Booked
  <2>2. OutboxShape'
    <3>1. \A j \in Jobs : outbox'[j] = "queued" <=> status'[j] = "queued"
      BY <2>1, SMTT(30) DEF Booked, ShapeInv, OutboxShape
    <3>2. \A j \in InHand : outbox'[j] = "sent"
      BY <1>1, <2>1 DEF Booked, ShapeInv, OutboxShape
    <3> QED BY <1>1, <3>1, <3>2 DEF OutboxShape
  <2>3. AnswerShape'
    <3>1. cur' = cur /\ answer' = answer /\ posted' = posted
      BY DEF agentVars
    <3>2. cur # 0 => /\ kind'[cur] = kind[cur] /\ entity'[cur] = entity[cur]
                     /\ Live(cur)' => Live(cur)
      <4>1. cur # 0 => cur \in Jobs \ {njobs + 1}
        BY <2>1
      <4>2. ASSUME NEW j \in Jobs \ {njobs + 1}
            PROVE  kind'[j] = kind[j] /\ entity'[j] = entity[j] /\ (status'[j] \in {"queued", "sent"} => Live(j))
        BY <2>1 DEF Booked, Live
      <4> QED BY <3>1, <4>1, <4>2 DEF Live
    <3> QED BY <1>1, <3>1, <3>2 DEF ShapeInv, AnswerShape
  <2>4. JobShape'
    <3> SUFFICES ASSUME NEW j \in Jobs
                 PROVE  /\ j \in unknown' => kind'[j] = "push" /\ status'[j] = "error"
                        /\ kind'[j] = "check" => entity'[j] \in Checked
      BY <1>1 DEF JobShape
    <3>1. CASE j = njobs + 1
      BY <1>4, <2>1, <3>1 DEF Booked
    <3>2. CASE j # njobs + 1
      BY <2>1, <3>2 DEF Booked, UnknownAfter, ShapeInv, JobShape
    <3> QED BY <3>1, <3>2
  <2> QED BY <1>2, <2>2, <2>3, <2>4 DEF ShapeInv
<1> QED BY <1>3, <1>4 DEF QueuesCheck, QueuesPush, QueuesUnchecked

\* A request whose jobs are safe to give up.
LEMMA RequestStep ==
  ASSUME PushInv, Request, \A X \in SUBSET Jobs : (\A j \in X : Stuck(j)) => SafeToGiveUp(X)
  PROVE  ShapeInv' /\ BookInv' /\ HandInv'
<1>1. PICK X \in SUBSET Jobs, v \in Voucher :
        /\ \A j \in X : Stuck(j)
        /\ GivesUpOnly(X, v) \/ QueuesCheck(X, v) \/ QueuesPush(X, v) \/ QueuesUnchecked(X, v)
  BY PushRequest
<1>2. UNCHANGED <<healthVars, agentVars, posted>>
  BY PushRequest
<1>3. SafeToGiveUp(X)
  BY <1>1
<1>4. ShapeInv'
  BY <1>1, <1>2, RequestShape
<1> QED BY <1>1, <1>2, <1>3, <1>4, OnlyGivenUp, CheckQueued, PushQueued, UncheckedQueued

\* The other steps of a behaviour whose Tally is readable.
LEMMA PushCases ==
  ASSUME Readable, [Next]_vars, ~Request
  PROVE  \/ Tick \/ BeginRound \/ EndRound \/ SkipCheckin \/ Restart \/ UNCHANGED vars
         \/ Checkin \/ CheckinAnswerLost \/ CheckinLost
         \/ \E j \in Jobs : \/ PostVoucher(j) \/ ImportRefused(j) \/ ImportUnanswered(j)
                            \/ RunCheck(j) \/ CheckFails(j) \/ NotReady(j)
         \/ ResultTooLate \/ ResultLost \/ ResultCreated \/ ResultError
         \/ ResultFound \/ ResultAbsent \/ ResultAbsentBlocked
  BY DEF Readable, Next, AgentStep, AgentFault, Result, ImportGarbled, StopForCompany, Fault

\* Where the agent and each job stand, after any other step.
LEMMA ShapeStep == ASSUME Readable, PushInv, [Next]_vars, ~Request PROVE ShapeInv'
<1>1. AnyInv'
  BY AnyStep DEF PushInv
<1> USE <1>1 DEF PushInv, AnyInv, TypeOK, Slots, Created, Jobs, ShapeInv, BookInv, HandInv,
                 PaceShape, OutboxShape, AnswerShape, JobShape, OneOpen, CheckHasReason,
                 OpenIfPosted, RunnableIsOpen, CheckRunsAlone, Checked, Open, Live, Runnable, InHand,
                 Voucher, Outcomes
<1>2. CASE Tick \/ UNCHANGED vars
  BY <1>2 DEF Tick, vars, jobVars, healthVars, agentVars
<1>3. CASE BeginRound
  BY <1>3 DEF BeginRound, jobVars
<1>4. CASE EndRound \/ SkipCheckin
  BY <1>4 DEF EndRound, SkipCheckin, jobVars
<1>5. CASE Restart
  BY <1>5 DEF Restart, jobVars
<1>6. CASE Checkin \/ CheckinAnswerLost
  BY <1>6 DEF Checkin, CheckinAnswerLost, AfterCheckin, HandOver, Queued
<1>7. CASE CheckinLost
  BY <1>7 DEF CheckinLost, AfterCheckin, jobVars
<1>8. ASSUME NEW j \in Jobs, PostVoucher(j) PROVE ShapeInv'
  BY <1>8 DEF PostVoucher, Obtains, Saved, jobVars
<1>9. ASSUME NEW j \in Jobs, ImportRefused(j) PROVE ShapeInv'
  BY <1>9 DEF ImportRefused, Obtains, NotSaved, jobVars
<1>10. ASSUME NEW j \in Jobs, ImportUnanswered(j) PROVE ShapeInv'
  <2>1. CASE Saved(j)
    BY <1>10, <2>1 DEF ImportUnanswered, Obtains, Saved, jobVars
  <2>2. CASE NotSaved
    BY <1>10, <2>2 DEF ImportUnanswered, Obtains, NotSaved, jobVars
  <2> QED BY <1>10, <2>1, <2>2 DEF ImportUnanswered
<1>11. ASSUME NEW j \in Jobs, RunCheck(j) \/ CheckFails(j) PROVE ShapeInv'
  BY <1>11 DEF RunCheck, CheckFails, Obtains, NotSaved, jobVars
<1>12. CASE ResultTooLate
  BY <1>12 DEF ResultTooLate, LetGo, jobVars
<1>13. CASE ResultLost
  BY <1>13 DEF ResultLost, LetGo, jobVars
<1>14. CASE ResultCreated
  BY <1>14 DEF ResultCreated, LetGo
<1>15. CASE ResultError
  BY <1>15 DEF ResultError, LetGo
<1>16. CASE ResultFound
  BY <1>16 DEF ResultFound, LetGo, Prior, UnknownPush
<1>17. CASE ResultAbsent
  BY <1>17, NextSlot DEF ResultAbsent, LetGo, Prior, UnknownPush
<1>18. CASE ResultAbsentBlocked
  BY <1>18 DEF ResultAbsentBlocked, LetGo, Prior, UnknownPush
<1>19. ASSUME NEW j \in Jobs, NotReady(j) PROVE ShapeInv'
  BY <1>19 DEF NotReady
<1> QED
  <2> HIDE <1>1 DEF PushInv, AnyInv, TypeOK, Slots, Created, Jobs, ShapeInv, BookInv, HandInv,
                 PaceShape, OutboxShape, AnswerShape, JobShape, OneOpen, CheckHasReason,
                 OpenIfPosted, RunnableIsOpen, CheckRunsAlone, Checked, Open, Live, Runnable, InHand,
                 Voucher, Outcomes
  <2> QED BY <1>2, <1>3, <1>4, <1>5, <1>6, <1>7, <1>8, <1>9, <1>10, <1>11, <1>12, <1>13, <1>14,
             <1>15, <1>16, <1>17, <1>18, <1>19, PushCases

\* What is open for each document.
LEMMA BookStep == ASSUME Readable, PushInv, [Next]_vars, ~Request PROVE BookInv'
<1>1. AnyInv'
  BY AnyStep DEF PushInv
<1> USE <1>1 DEF PushInv, AnyInv, TypeOK, Slots, Created, Jobs, ShapeInv, BookInv, HandInv,
                 PaceShape, OutboxShape, AnswerShape, JobShape, OneOpen, CheckHasReason,
                 OpenIfPosted, RunnableIsOpen, CheckRunsAlone, Checked, Open, Live, Runnable, InHand,
                 Voucher, Outcomes
<1>2. CASE Tick \/ UNCHANGED vars
  BY <1>2 DEF Tick, vars, jobVars, healthVars, agentVars
<1>3. CASE BeginRound
  BY <1>3 DEF BeginRound, jobVars
<1>4. CASE EndRound \/ SkipCheckin
  BY <1>4 DEF EndRound, SkipCheckin, jobVars
<1>5. CASE Restart
  BY <1>5 DEF Restart, jobVars
<1>6. CASE Checkin \/ CheckinAnswerLost
  BY <1>6 DEF Checkin, CheckinAnswerLost, AfterCheckin, HandOver, Queued
<1>7. CASE CheckinLost
  BY <1>7 DEF CheckinLost, AfterCheckin, jobVars
<1>8. ASSUME NEW j \in Jobs, PostVoucher(j) PROVE BookInv'
  BY <1>8 DEF PostVoucher, Obtains, Saved, jobVars
<1>9. ASSUME NEW j \in Jobs, ImportRefused(j) PROVE BookInv'
  BY <1>9 DEF ImportRefused, Obtains, NotSaved, jobVars
<1>10. ASSUME NEW j \in Jobs, ImportUnanswered(j) PROVE BookInv'
  <2>1. CASE Saved(j)
    BY <1>10, <2>1 DEF ImportUnanswered, Obtains, Saved, jobVars
  <2>2. CASE NotSaved
    BY <1>10, <2>2 DEF ImportUnanswered, Obtains, NotSaved, jobVars
  <2> QED BY <1>10, <2>1, <2>2 DEF ImportUnanswered
<1>11. ASSUME NEW j \in Jobs, RunCheck(j) \/ CheckFails(j) PROVE BookInv'
  BY <1>11 DEF RunCheck, CheckFails, Obtains, NotSaved, jobVars
<1>12. CASE ResultTooLate
  BY <1>12 DEF ResultTooLate, LetGo, jobVars
<1>13. CASE ResultLost
  BY <1>13 DEF ResultLost, LetGo, jobVars
<1>14. CASE ResultCreated
  BY <1>14 DEF ResultCreated, LetGo
<1>15. CASE ResultError
  BY <1>15 DEF ResultError, LetGo
<1>16. CASE ResultFound
  <2>1. OneOpen'
    BY <1>16 DEF ResultFound, LetGo, Prior, UnknownPush
  <2>2. CheckHasReason'
    BY <1>16 DEF ResultFound, LetGo, Prior, UnknownPush
  <2>3. OpenIfPosted'
    BY <1>16 DEF ResultFound, LetGo, Prior, UnknownPush
  <2> QED BY <2>1, <2>2, <2>3
<1>17. CASE ResultAbsent
  <2> DEFINE n == njobs + 1
  <2>1. OneOpen'
    BY <1>17, NextSlot DEF ResultAbsent, LetGo, Prior, UnknownPush
  <2>2. CheckHasReason'
    <3>1. n \in Jobs /\ n \notin Created
      BY <1>17, NextSlot DEF ResultAbsent
    <3>2. ASSUME NEW j \in Jobs, j # n
          PROVE  kind'[j] = kind[j] /\ entity'[j] = entity[j] /\ (j # cur => status'[j] = status[j])
      BY <1>17, <3>1, <3>2 DEF ResultAbsent
    <3>3. kind'[n] = "push" /\ status'[cur] = "ok" /\ kind[cur] = "check" /\ cur \in Jobs /\ cur # n
          /\ Live(cur) /\ unknown' = unknown \ Prior(entity[cur])
      BY <1>17, <3>1 DEF ResultAbsent, LetGo
    <3> HIDE DEF n
    <3> SUFFICES ASSUME NEW c \in Jobs, kind'[c] = "check", Live(c)'
                 PROVE  \E j \in Jobs : entity'[j] = entity'[c] /\ kind'[j] = "push" /\ j \in unknown'
      OBVIOUS
    <3>4. c # n /\ c # cur /\ Live(c) /\ kind[c] = "check" /\ entity'[c] = entity[c]
      BY <3>2, <3>3
    <3>5. entity[c] # entity[cur]
      BY <3>3, <3>4
    <3>6. PICK j \in Jobs : entity[j] = entity[c] /\ kind[j] = "push" /\ j \in unknown
      BY <3>4
    <3>7. j # n
      BY <3>1, <3>6
    <3>8. j \in unknown'
      BY <3>3, <3>5, <3>6 DEF Prior, UnknownPush
    <3> QED BY <3>2, <3>4, <3>6, <3>7, <3>8
  <2>3. OpenIfPosted'
    BY <1>17, NextSlot DEF ResultAbsent, LetGo, Prior, UnknownPush
  <2> QED BY <2>1, <2>2, <2>3
<1>18. CASE ResultAbsentBlocked
  BY <1>18 DEF ResultAbsentBlocked, LetGo, Prior, UnknownPush
<1>19. ASSUME NEW j \in Jobs, NotReady(j) PROVE BookInv'
  BY <1>19 DEF NotReady
<1> QED
  <2> HIDE <1>1 DEF PushInv, AnyInv, TypeOK, Slots, Created, Jobs, ShapeInv, BookInv, HandInv,
                 PaceShape, OutboxShape, AnswerShape, JobShape, OneOpen, CheckHasReason,
                 OpenIfPosted, RunnableIsOpen, CheckRunsAlone, Checked, Open, Live, Runnable, InHand,
                 Voucher, Outcomes
  <2> QED BY <1>2, <1>3, <1>4, <1>5, <1>6, <1>7, <1>8, <1>9, <1>10, <1>11, <1>12, <1>13, <1>14,
             <1>15, <1>16, <1>17, <1>18, <1>19, PushCases

\* What the agent may still do.
LEMMA HandStep ==
  ASSUME Readable, PushInv, [Next]_vars, ~Request,
         pc = "checkin" => \A j \in held : Live(j)
  PROVE  HandInv'
<1>1. AnyInv'
  BY AnyStep DEF PushInv
<1> USE <1>1 DEF PushInv, AnyInv, TypeOK, Slots, Created, Jobs, ShapeInv, BookInv, HandInv,
                 PaceShape, OutboxShape, AnswerShape, JobShape, OneOpen, CheckHasReason,
                 OpenIfPosted, RunnableIsOpen, CheckRunsAlone, Checked, Open, Live, Runnable, InHand,
                 Voucher, Outcomes
<1>2. CASE Tick \/ UNCHANGED vars
  BY <1>2, SMTT(30) DEF Tick, vars, jobVars, healthVars, agentVars
<1>3. CASE BeginRound
  BY <1>3 DEF BeginRound, jobVars
<1>4. CASE EndRound \/ SkipCheckin
  BY <1>4 DEF EndRound, SkipCheckin, jobVars
<1>5. CASE Restart
  BY <1>5 DEF Restart, jobVars
<1>6. CASE Checkin \/ CheckinAnswerLost
  BY <1>6 DEF Checkin, CheckinAnswerLost, AfterCheckin, HandOver, Queued
<1>7. CASE CheckinLost
  BY <1>7 DEF CheckinLost, AfterCheckin, jobVars
<1>8. ASSUME NEW j \in Jobs, PostVoucher(j) PROVE HandInv'
  BY <1>8, SMTT(30) DEF PostVoucher, Obtains, Saved, jobVars
<1>9. ASSUME NEW j \in Jobs, ImportRefused(j) PROVE HandInv'
  BY <1>9 DEF ImportRefused, Obtains, NotSaved, jobVars
<1>10. ASSUME NEW j \in Jobs, ImportUnanswered(j) PROVE HandInv'
  <2>1. CASE Saved(j)
    BY <1>10, <2>1, SMTT(30) DEF ImportUnanswered, Obtains, Saved, jobVars
  <2>2. CASE NotSaved
    BY <1>10, <2>2 DEF ImportUnanswered, Obtains, NotSaved, jobVars
  <2> QED BY <1>10, <2>1, <2>2 DEF ImportUnanswered
<1>11. ASSUME NEW j \in Jobs, RunCheck(j) \/ CheckFails(j) PROVE HandInv'
  BY <1>11 DEF RunCheck, CheckFails, Obtains, NotSaved, jobVars
<1>12. CASE ResultTooLate
  BY <1>12 DEF ResultTooLate, LetGo, jobVars
<1>13. CASE ResultLost
  BY <1>13 DEF ResultLost, LetGo, jobVars
<1>14. CASE ResultCreated
  BY <1>14 DEF ResultCreated, LetGo
<1>15. CASE ResultError
  BY <1>15 DEF ResultError, LetGo
<1>16. CASE ResultFound
  BY <1>16, SMTT(30) DEF ResultFound, LetGo, Prior, UnknownPush
<1>17. CASE ResultAbsent
  BY <1>17, NextSlot, SMTT(30) DEF ResultAbsent, LetGo, Prior, UnknownPush
<1>18. CASE ResultAbsentBlocked
  BY <1>18 DEF ResultAbsentBlocked, LetGo, Prior, UnknownPush
<1>19. ASSUME NEW j \in Jobs, NotReady(j) PROVE HandInv'
  BY <1>19 DEF NotReady
<1> QED
  <2> HIDE <1>1 DEF PushInv, AnyInv, TypeOK, Slots, Created, Jobs, ShapeInv, BookInv, HandInv,
                 PaceShape, OutboxShape, AnswerShape, JobShape, OneOpen, CheckHasReason,
                 OpenIfPosted, RunnableIsOpen, CheckRunsAlone, Checked, Open, Live, Runnable, InHand,
                 Voucher, Outcomes
  <2> QED BY <1>2, <1>3, <1>4, <1>5, <1>6, <1>7, <1>8, <1>9, <1>10, <1>11, <1>12, <1>13, <1>14,
             <1>15, <1>16, <1>17, <1>18, <1>19, PushCases


\* PushInv goes on where giving up stuck jobs is safe and the jobs the agent holds at a
\* checkin are live.
LEMMA PushStep ==
  ASSUME Readable, PushInv, [Next]_vars,
         \A X \in SUBSET Jobs : (\A j \in X : Stuck(j)) => SafeToGiveUp(X),
         pc = "checkin" => \A j \in held : Live(j)
  PROVE  PushInv'
<1>1. AnyInv'
  BY AnyStep DEF PushInv
<1>2. CASE Request
  BY <1>1, <1>2, RequestStep DEF PushInv
<1>3. CASE ~Request
  BY <1>1, <1>3, ShapeStep, BookStep, HandStep DEF PushInv
<1> QED BY <1>2, <1>3

\* Init establishes everything PushInv says.
LEMMA InitPush == Init => PushInv
<1> SUFFICES ASSUME Init PROVE PushInv
  OBVIOUS
<1>1. AnyInv
  BY InitAny
<1>2. ShapeInv
  BY DEF Init, ShapeInv, PaceShape, OutboxShape, AnswerShape, JobShape, InHand
<1>3. BookInv
  BY DEF Init, BookInv, OneOpen, CheckHasReason, OpenIfPosted, Open, Live, Checked, Voucher
<1>4. HandInv
  BY DEF Init, HandInv, RunnableIsOpen, CheckRunsAlone, InHand
<1> QED BY <1>1, <1>2, <1>3, <1>4 DEF PushInv

-----------------------------------------------------------------------------
(* A shop whose Tally is ready: what is given up after it was handed to    *)
(* the agent is flagged.                                                   *)

\* So a push given up unflagged had not left the outbox.
LEMMA ReadySafe ==
  ASSUME ReadyInv, NEW X \in SUBSET Jobs, \A j \in X : Stuck(j) PROVE SafeToGiveUp(X)
<1> SUFFICES ASSUME NEW j \in X, kind[j] = "push", entity[j] \in Checked, j \notin UnknownAfter(X)
             PROVE  posted[entity[j]] = 0 /\ j \notin InHand
  BY DEF SafeToGiveUp
<1>1. outbox[j] = "queued"
  BY DEF Stuck, Live, UnknownAfter, Checked, ReadyInv, RoundShape, PushInv, ShapeInv, OutboxShape
<1>2. j \notin InHand
  BY <1>1 DEF ReadyInv, PushInv, ShapeInv, OutboxShape
<1> QED BY <1>1, <1>2 DEF Runnable, ReadyInv, PushInv, HandInv, RunnableIsOpen

\* A round of the agent finishes every job it takes in.
LEMMA RoundStep == ASSUME Ready, ReadyInv, [Next]_vars PROVE RoundShape'
<1>1. TypeOK /\ Slots /\ RoundShape
  BY DEF ReadyInv, PushInv, AnyInv
<1> USE <1>1 DEF RoundShape
<1>2. CASE Request
  <2>1. PICK X \in SUBSET Jobs, v \in Voucher :
          GivesUpOnly(X, v) \/ QueuesCheck(X, v) \/ QueuesPush(X, v) \/ QueuesUnchecked(X, v)
    BY <1>2, PushRequest DEF ReadyInv
  <2>2. UNCHANGED agentVars
    BY <1>2, PushRequest DEF ReadyInv
  <2>3. waiting' = waiting
    BY <2>1 DEF GivesUpOnly, QueuesCheck, QueuesPush, QueuesUnchecked, GiveUp, GiveUpAndQueue
  <2> QED BY <2>2, <2>3 DEF agentVars
<1>3. CASE \/ Tick \/ EndRound \/ SkipCheckin \/ Restart \/ UNCHANGED vars
           \/ Checkin \/ CheckinAnswerLost \/ CheckinLost
  BY <1>3 DEF Tick, EndRound, SkipCheckin, Restart, Checkin, CheckinAnswerLost, CheckinLost,
              AfterCheckin, HandOver, vars, jobVars, agentVars
<1>4. CASE BeginRound
  BY <1>4 DEF BeginRound, jobVars
<1>5. ASSUME NEW j \in Jobs,
             \/ PostVoucher(j) \/ ImportRefused(j) \/ ImportUnanswered(j)
             \/ RunCheck(j) \/ CheckFails(j)
      PROVE  RoundShape'
  BY <1>5 DEF PostVoucher, ImportRefused, ImportUnanswered, RunCheck, CheckFails, Obtains, jobVars
<1>6. CASE \/ ResultTooLate \/ ResultLost \/ ResultCreated \/ ResultError
           \/ ResultFound \/ ResultAbsent \/ ResultAbsentBlocked
  <2>1. LetGo /\ waiting' = waiting
    BY <1>6 DEF ResultTooLate, ResultLost, ResultCreated, ResultError, ResultFound, ResultAbsent,
                ResultAbsentBlocked, jobVars
  <2> QED BY <2>1 DEF LetGo, Slots
<1>7. Readable /\ \A j \in Jobs : ~NotReady(j)
  BY DEF Ready, Readable, NotReady
<1> QED BY <1>2, <1>3, <1>4, <1>5, <1>6, <1>7, PushCases

\* ReadyInv is an invariant of such a shop.
THEOREM ReadyInvariant == ASSUME Ready PROVE Spec => []ReadyInv
<1>1. Init => ReadyInv
  BY InitPush DEF Init, ReadyInv, RoundShape
<1>2. ASSUME ReadyInv, [Next]_vars PROVE ReadyInv'
  <2>1. Readable /\ PushInv /\ (pc = "checkin" => held = {})
    BY <1>2 DEF Ready, Readable, ReadyInv, RoundShape
  <2>2. PushInv'
    BY <1>2, <2>1, ReadySafe, PushStep
  <2> QED BY <1>2, <2>2, RoundStep DEF ReadyInv
<1> QED BY <1>1, <1>2, PTL DEF Spec

-----------------------------------------------------------------------------
(* A shop whose agent is punctual: a job that may yet run is too young to  *)
(* be given up.                                                            *)

\* The jobs that may yet run are not stuck.
LEMMA YoungHand ==
  ASSUME InTime, InTimeInv, NEW j \in Jobs, Stuck(j) PROVE j \notin InHand /\ outbox[j] # "queued"
<1>1. /\ age[j] \in Nat /\ age[j] >= StuckAfter /\ Live(j)
      /\ RetryWindow \in Nat /\ Lag \in Nat /\ StuckAfter \in Nat
      /\ RetryWindow + Lag < StuckAfter /\ heldAge[j] \in Nat
  BY WindowsAssumption DEF InTimeInv, PushInv, AnyInv, TypeOK, Stuck, InTime
<1>2. ASSUME age[j] <= Lag PROVE FALSE
  BY <1>1, <1>2
<1>3. ASSUME j \in InHand PROVE FALSE
  <2>1. CASE j \in held
    <3>1. heldAge[j] <= RetryWindow
      BY <1>3, <2>1 DEF InHand, InTimeInv, Timely
    <3>2. age[j] <= heldAge[j] + Lag
      BY <1>1, <2>1, <3>1 DEF InTimeInv, Timely
    <3> QED BY <1>1, <3>1, <3>2
  <2>2. CASE j \notin held
    BY <1>1, <1>2, <1>3, <2>2 DEF InHand, InTimeInv, Timely
  <2> QED BY <2>1, <2>2
<1> QED BY <1>1, <1>2, <1>3 DEF InTimeInv, Timely

\* So a push given up is in nobody's hands, and its voucher is not in Tally.
LEMMA InTimeSafe ==
  ASSUME InTime, InTimeInv, NEW X \in SUBSET Jobs, \A j \in X : Stuck(j) PROVE SafeToGiveUp(X)
<1> SUFFICES ASSUME NEW j \in X, kind[j] = "push", entity[j] \in Checked
             PROVE  posted[entity[j]] = 0 /\ j \notin InHand
  BY DEF SafeToGiveUp
<1>1. j \notin InHand /\ Live(j)
  BY YoungHand DEF Stuck
<1>2. j # cur
  <2>1. cur # 0 => cur \in InHand
    BY DEF InHand, InTimeInv, PushInv, AnyInv, Slots
  <2> QED BY <1>1, <2>1 DEF Jobs
<1> QED BY <1>1, <1>2 DEF InTimeInv, LiveUnposted

\* The steps of such a shop.
LEMMA InTimeCases ==
  ASSUME InTime, [Next]_vars, ~Request
  PROVE  \/ (Tick /\ Punctual) \/ BeginRound \/ EndRound \/ SkipCheckin \/ UNCHANGED vars \/ Checkin
         \/ \E j \in Jobs : \/ PostVoucher(j) \/ ImportRefused(j) \/ ImportUnanswered(j)
                            \/ RunCheck(j) \/ CheckFails(j) \/ NotReady(j)
         \/ ResultTooLate \/ ResultCreated \/ ResultError
         \/ ResultFound \/ ResultAbsent \/ ResultAbsentBlocked
<1>1. Readable /\ {"restart", "lost", "slow"} \cap Faults = {}
  BY DEF InTime, Readable
<1>2. ~Restart /\ ~CheckinAnswerLost /\ ~CheckinLost /\ ~ResultLost /\ (Tick => Punctual)
  BY <1>1 DEF Restart, CheckinAnswerLost, CheckinLost, ResultLost, Fault, Tick
<1> QED BY <1>1, <1>2, PushCases

\* A job reaches the agent young, and grows no older than it is held.
LEMMA TimelyStep == ASSUME InTime, InTimeInv, [Next]_vars PROVE Timely'
<1>1. TypeOK /\ Slots /\ Timely /\ PaceShape /\ OutboxShape
  BY DEF InTimeInv, PushInv, AnyInv, ShapeInv
<1>2. RetryWindow \in Nat /\ Lag \in Nat
  BY WindowsAssumption
<1> USE <1>1, <1>2 DEF TypeOK, Timely
<1>3. ASSUME UNCHANGED <<njobs, outbox, age, pc, pending, heldAge>>, held' \subseteq held,
             pc # "round" \/ held' = held, \A j \in Jobs : Live(j)' => Live(j)
      PROVE  Timely'
  BY <1>3 DEF Created
<1>4. CASE Request
  <2>1. PICK X \in SUBSET Jobs, v \in Voucher :
          GivesUpOnly(X, v) \/ QueuesCheck(X, v) \/ QueuesPush(X, v) \/ QueuesUnchecked(X, v)
    BY <1>4, PushRequest DEF InTimeInv
  <2>2. UNCHANGED agentVars
    BY <1>4, PushRequest DEF InTimeInv
  <2>3. CASE GivesUpOnly(X, v)
    BY <2>2, <2>3 DEF GivesUpOnly, GiveUp, StatusAfter, OutboxAfter, Live, Created, agentVars
  <2>4. ASSUME NEW k \in {"push", "check"}, GiveUpAndQueue(X, k, v), X \subseteq InFlight(v)
        PROVE  Timely'
    <3>1. Booked(X, k, v) /\ age' = age
      BY <2>4, QueueBooks DEF GiveUpAndQueue
    <3>2. Created' = Created \cup {njobs + 1} /\ njobs + 1 \notin held \cup pending
      <4>1. njobs' = njobs + 1 /\ njobs \in Nat /\ njobs + 1 \notin Created
        BY <2>4, <3>1 DEF GiveUpAndQueue, Booked
      <4>2. Created' = Created \cup {njobs + 1}
        BY <4>1 DEF Created
      <4> QED BY <4>1, <4>2 DEF Slots
    <3>3. age[njobs + 1] = 0
      BY <3>1 DEF Booked
    <3>4. \A j \in Jobs \ {njobs + 1} : (Live(j)' => Live(j)) /\ (outbox'[j] = "queued" => outbox[j] = "queued")
      BY <3>1 DEF Booked, Live
    <3> QED BY <2>2, <3>1, <3>2, <3>3, <3>4 DEF agentVars
  <2> QED BY <2>1, <2>3, <2>4 DEF QueuesCheck, QueuesPush, QueuesUnchecked
<1>5. CASE Tick /\ Punctual
  <2>1. /\ UNCHANGED <<njobs, outbox, status, pc, pending, held>> /\ pc = "round"
        /\ \A j \in Jobs : Live(j)' <=> Live(j)
    BY <1>5 DEF Tick, Punctual, Live
  <2>2. ASSUME NEW j \in Jobs
        PROVE  /\ Live(j) => age'[j] <= age[j] + 1
               /\ ~Live(j) => age'[j] = 0
               /\ j \in held /\ heldAge'[j] <= RetryWindow
                    => heldAge[j] <= RetryWindow /\ heldAge'[j] = heldAge[j] + 1
               /\ Live(j) /\ (outbox[j] = "queued" \/ j \in pending \ held) => age[j] < Lag
               /\ age[j] \in Nat /\ age'[j] \in Nat /\ heldAge[j] \in Nat
    BY <1>5, WindowsAssumption DEF Tick, Punctual, Queued
  <2>3. \A j \in Jobs \ Created : ~Live(j)
    BY DEF Slots, Live
  <2> QED BY <2>1, <2>2, <2>3 DEF Created
<1>6. CASE BeginRound
  BY <1>6 DEF BeginRound, jobVars, Live, Created
<1>7. CASE EndRound \/ UNCHANGED vars
  BY <1>3, <1>7 DEF EndRound, vars, jobVars, agentVars, Live, Created
<1>8. CASE SkipCheckin
  BY <1>8 DEF SkipCheckin, jobVars, PaceShape, Live, Created
<1>9. CASE Checkin
  BY <1>9 DEF Checkin, AfterCheckin, HandOver, Queued, Live, Created, OutboxShape
<1>10. ASSUME NEW j \in Jobs,
             \/ PostVoucher(j) \/ ImportRefused(j) \/ ImportUnanswered(j)
             \/ RunCheck(j) \/ CheckFails(j)
      PROVE  Timely'
  BY <1>3, <1>10 DEF PostVoucher, ImportRefused, ImportUnanswered, RunCheck, CheckFails, Obtains,
                     jobVars, Live
<1>11. ASSUME NEW j \in Jobs, NotReady(j) PROVE Timely'
  BY <1>3, <1>11 DEF NotReady, Live
<1>12. CASE ResultTooLate \/ ResultCreated \/ ResultError \/ ResultFound \/ ResultAbsentBlocked
  <2>1. /\ UNCHANGED <<njobs, outbox, age, pc, pending, heldAge>> /\ held' \subseteq held
        /\ pc = "work"
    BY <1>12 DEF ResultTooLate, ResultCreated, ResultError, ResultFound, ResultAbsentBlocked, LetGo,
                 jobVars, Slots
  <2>2. \A j \in Jobs : Live(j)' => Live(j)
    BY <1>12 DEF ResultTooLate, ResultCreated, ResultError, ResultFound, ResultAbsentBlocked, LetGo,
                 jobVars, Live
  <2> QED BY <1>3, <2>1, <2>2
<1>13. CASE ResultAbsent
  <2>1. njobs + 1 \in Jobs /\ njobs + 1 \notin Created /\ Created' = Created \cup {njobs + 1}
    BY <1>13, NextSlot DEF ResultAbsent, Created
  <2>2. njobs + 1 \notin held \cup pending /\ age[njobs + 1] = 0
    BY <2>1 DEF Slots
  <2>3. /\ UNCHANGED <<age, pc, pending, heldAge>> /\ held' \subseteq held /\ pc = "work"
    BY <1>13 DEF ResultAbsent, LetGo, Slots
  <2>4. \A j \in Jobs \ {njobs + 1} : (Live(j)' => Live(j)) /\ outbox'[j] = outbox[j]
    BY <1>13 DEF ResultAbsent, Live
  <2> QED BY <2>1, <2>2, <2>3, <2>4
<1> QED
  BY <1>4, <1>5, <1>6, <1>7, <1>8, <1>9, <1>10, <1>11, <1>12, <1>13, InTimeCases
     DEF ResultLost, InTime, Fault

\* The backend closes no job the agent may yet run.
LEMMA HandLiveStep == ASSUME InTime, InTimeInv, [Next]_vars PROVE HandLive'
<1>1. TypeOK /\ Slots /\ HandLive /\ PaceShape /\ OutboxShape /\ JobShape
  BY DEF InTimeInv, PushInv, AnyInv, ShapeInv
<1> USE <1>1 DEF TypeOK, HandLive
<1>2. InHand \subseteq Jobs
  BY DEF InHand
<1>3. ASSUME InHand' \subseteq InHand, \A j \in InHand : status'[j] = status[j] PROVE HandLive'
  BY <1>3 DEF Live
<1>4. CASE Request
  <2>1. PICK X \in SUBSET Jobs, v \in Voucher :
          /\ \A j \in X : Stuck(j)
          /\ GivesUpOnly(X, v) \/ QueuesCheck(X, v) \/ QueuesPush(X, v) \/ QueuesUnchecked(X, v)
    BY <1>4, PushRequest DEF InTimeInv
  <2>2. UNCHANGED agentVars
    BY <1>4, PushRequest DEF InTimeInv
  <2>3. InHand' = InHand /\ njobs + 1 \notin InHand
    BY <2>2 DEF agentVars, InHand, Slots, Created
  <2>4. ASSUME NEW j \in InHand PROVE j \notin X
    BY <1>2, <2>1, YoungHand
  <2>5. \A j \in InHand : status'[j] = status[j]
    BY <1>2, <2>1, <2>3, <2>4 DEF GivesUpOnly, QueuesCheck, QueuesPush, QueuesUnchecked, GiveUp,
                                  GiveUpAndQueue, StatusAfter
  <2> QED BY <1>3, <2>3, <2>5
<1>5. CASE (Tick /\ Punctual) \/ EndRound \/ SkipCheckin \/ UNCHANGED vars \/ BeginRound
  <2>1. status' = status
    BY <1>5 DEF Tick, EndRound, SkipCheckin, vars, BeginRound, jobVars
  <2>2. CASE Tick /\ Punctual
    BY <1>3, <2>1, <2>2 DEF Tick, Punctual, InHand
  <2>3. CASE BeginRound
    BY <1>3, <2>1, <2>3 DEF BeginRound, InHand
  <2>4. CASE EndRound \/ SkipCheckin \/ UNCHANGED vars
    BY <1>3, <2>1, <2>4 DEF EndRound, SkipCheckin, vars, agentVars, InHand, PaceShape
  <2> QED BY <1>5, <2>2, <2>3, <2>4
<1>6. CASE Checkin
  BY <1>6 DEF Checkin, AfterCheckin, HandOver, Queued, InHand, Live, OutboxShape
<1>7. ASSUME NEW j \in Jobs,
             \/ PostVoucher(j) \/ ImportRefused(j) \/ ImportUnanswered(j)
             \/ RunCheck(j) \/ CheckFails(j)
      PROVE  HandLive'
  BY <1>3, <1>7 DEF PostVoucher, ImportRefused, ImportUnanswered, RunCheck, CheckFails, Obtains,
                    jobVars, InHand
<1>8. ASSUME NEW j \in Jobs, NotReady(j) PROVE HandLive'
  BY <1>2, <1>8 DEF NotReady, InHand, Live
<1>9. CASE \/ ResultTooLate \/ ResultCreated \/ ResultError \/ ResultFound \/ ResultAbsent
           \/ ResultAbsentBlocked
  <2>1. InHand' \subseteq InHand \ {cur}
    BY <1>9 DEF ResultTooLate, ResultCreated, ResultError, ResultFound, ResultAbsent,
                ResultAbsentBlocked, LetGo, InHand, Slots
  <2>2. ASSUME NEW j \in InHand, j # cur PROVE status'[j] = status[j]
    <3>1. Live(j) /\ j \in Created
      BY DEF InHand, Slots
    <3>2. CASE ResultFound
      <4>1. j \notin unknown
        BY <1>2, <3>1 DEF JobShape, Live
      <4> QED BY <1>2, <2>2, <3>2, <4>1 DEF ResultFound, Prior, UnknownPush
    <3>3. CASE ResultAbsent
      <4>1. j # njobs + 1
        BY <3>1 DEF Created
      <4> QED BY <1>2, <2>2, <3>3, <4>1 DEF ResultAbsent
    <3>4. CASE ResultTooLate \/ ResultCreated \/ ResultError \/ ResultAbsentBlocked
      BY <1>2, <2>2, <3>4 DEF ResultTooLate, ResultCreated, ResultError, ResultAbsentBlocked, jobVars
    <3> QED BY <1>9, <3>2, <3>3, <3>4
  <2> QED BY <2>1, <2>2 DEF Live
<1> QED BY <1>4, <1>5, <1>6, <1>7, <1>8, <1>9, InTimeCases DEF ResultLost, InTime, Fault

\* The voucher of a push in flight gets into Tally only with an answer under way.
LEMMA LiveUnpostedStep == ASSUME InTime, InTimeInv, [Next]_vars, PushInv' PROVE LiveUnposted'
<1>1. TypeOK /\ Slots /\ LiveUnposted /\ OneOpen /\ AnswerShape /\ Checked' = Checked
  BY DEF InTimeInv, PushInv, AnyInv, ShapeInv, BookInv, Checked
<1> USE <1>1 DEF TypeOK, LiveUnposted
<1>2. ASSUME UNCHANGED <<kind, entity, posted, cur>>, \A j \in Jobs : Live(j)' => Live(j)
      PROVE  LiveUnposted'
  BY <1>2
<1>3. CASE Request
  <2>1. PICK X \in SUBSET Jobs, v \in Voucher :
          /\ \A j \in X : Stuck(j)
          /\ GivesUpOnly(X, v) \/ QueuesCheck(X, v) \/ QueuesPush(X, v) \/ QueuesUnchecked(X, v)
    BY <1>3, PushRequest DEF InTimeInv
  <2>2. posted' = posted /\ cur' = cur
    BY <1>3, PushRequest DEF InTimeInv, agentVars
  <2>3. CASE GivesUpOnly(X, v)
    BY <1>2, <2>2, <2>3 DEF GivesUpOnly, GiveUp, StatusAfter, Live
  <2>4. ASSUME NEW k \in {"push", "check"}, GiveUpAndQueue(X, k, v), X \subseteq InFlight(v),
               k = "push" /\ v \in Checked => QueuesPush(X, v)
        PROVE  LiveUnposted'
    <3>1. Booked(X, k, v)
      BY <2>4, QueueBooks
    <3>2. k = "push" /\ v \in Checked => posted'[v] = 0
      <4>1. PICK n \in Jobs : n = njobs + 1 /\ kind'[n] = k /\ entity'[n] = v /\ outbox'[n] = "queued"
        BY <3>1 DEF Booked
      <4>2. Runnable(n)'
        BY <4>1 DEF Runnable
      <4> QED BY <1>1, <4>1, <4>2 DEF PushInv, HandInv, RunnableIsOpen
    <3>3. \A j \in Jobs \ {njobs + 1} : kind'[j] = kind[j] /\ entity'[j] = entity[j] /\ (Live(j)' => Live(j))
      BY <3>1 DEF Booked, Live
    <3> QED BY <2>2, <3>1, <3>2, <3>3 DEF Booked
  <2> QED BY <2>1, <2>3, <2>4 DEF QueuesCheck, QueuesPush, QueuesUnchecked
<1>4. CASE (Tick /\ Punctual) \/ BeginRound \/ EndRound \/ SkipCheckin \/ UNCHANGED vars
  BY <1>2, <1>4 DEF Tick, BeginRound, EndRound, SkipCheckin, vars, jobVars, agentVars, Live
<1>5. CASE Checkin
  BY <1>2, <1>5 DEF Checkin, AfterCheckin, HandOver, Live
<1>6. ASSUME NEW j \in Jobs,
             \/ PostVoucher(j) \/ ImportRefused(j) \/ ImportUnanswered(j)
             \/ RunCheck(j) \/ CheckFails(j)
      PROVE  LiveUnposted'
  <2>1. /\ UNCHANGED <<kind, entity, status>> /\ cur = 0 /\ cur' = j
        /\ NotSaved \/ (kind[j] = "push" /\ Saved(j))
    BY <1>6 DEF PostVoucher, ImportRefused, ImportUnanswered, RunCheck, CheckFails, Obtains, jobVars
  <2>2. CASE NotSaved
    BY <2>1, <2>2 DEF NotSaved, Live, Jobs
  <2>3. CASE kind[j] = "push" /\ Saved(j)
    <3>1. j \in held /\ kind[j] # "none" /\ entity[j] \in Voucher
      BY <1>6 DEF PostVoucher, ImportRefused, ImportUnanswered, RunCheck, CheckFails, Obtains, Slots
    <3>2. Open(j)
      <4>1. j \in InHand
        BY <1>6, <3>1 DEF InHand, PostVoucher, ImportRefused, ImportUnanswered, RunCheck, CheckFails,
                          Obtains
      <4> QED BY <2>3, <4>1 DEF InTimeInv, HandLive, Open
    <3>3. ASSUME NEW i \in Jobs \ {j}, kind[i] = "push", entity[i] \in Checked, Live(i)
          PROVE  posted'[entity[i]] = 0
      <4>1. entity[i] # entity[j]
        BY <3>2, <3>3 DEF OneOpen, Open
      <4>2. posted[entity[i]] = 0
        BY <2>1, <3>3 DEF Jobs
      <4> QED BY <2>3, <3>1, <3>3, <4>1, <4>2 DEF Saved, Checked, Voucher
    <3> QED BY <1>1, <2>1, <3>3 DEF Live
  <2> QED BY <2>1, <2>2, <2>3
<1>7. ASSUME NEW j \in Jobs, NotReady(j) PROVE LiveUnposted'
  BY <1>2, <1>7 DEF NotReady, Live
<1>8. CASE ResultTooLate \/ ResultCreated \/ ResultError \/ ResultFound \/ ResultAbsentBlocked
  <2>1. /\ UNCHANGED <<kind, entity, posted>> /\ cur \in Jobs
        /\ \A j \in Jobs : Live(j)' => Live(j)
    BY <1>8 DEF ResultTooLate, ResultCreated, ResultError, ResultFound, ResultAbsentBlocked, LetGo,
                jobVars, Live
  <2>2. status'[cur] \notin {"queued", "sent"}
    BY <1>8, <2>1 DEF ResultTooLate, ResultCreated, ResultError, ResultFound, ResultAbsentBlocked,
                      jobVars, Live
  <2> QED BY <1>1, <2>1, <2>2 DEF Live
<1>9. CASE ResultAbsent
  <2>1. njobs + 1 \in Jobs /\ njobs + 1 \notin Created /\ cur \in Jobs /\ posted' = posted
    BY <1>9, NextSlot DEF ResultAbsent, LetGo
  <2>2. /\ cur # njobs + 1 /\ status'[cur] = "ok" /\ entity'[njobs + 1] = entity[cur]
        /\ \A j \in Jobs \ {cur, njobs + 1} :
             kind'[j] = kind[j] /\ entity'[j] = entity[j] /\ status'[j] = status[j]
    BY <1>9, <2>1 DEF ResultAbsent, Slots
  <2>3. entity[cur] \in Checked => posted[entity[cur]] = 0
    BY <1>9 DEF ResultAbsent, AnswerShape
  <2> QED BY <1>1, <2>1, <2>2, <2>3 DEF Live
<1> QED BY <1>3, <1>4, <1>5, <1>6, <1>7, <1>8, <1>9, InTimeCases DEF ResultLost, InTime, Fault

\* InTimeInv is an invariant of such a shop.
THEOREM InTimeInvariant == ASSUME InTime PROVE Spec => []InTimeInv
<1>1. ASSUME Init PROVE InTimeInv
  <2>1. Timely
    BY <1>1, WindowsAssumption DEF Init, Timely, Live
  <2>2. HandLive /\ LiveUnposted
    BY <1>1 DEF Init, HandLive, LiveUnposted, InHand, Live
  <2> QED BY <1>1, <2>1, <2>2, InitPush DEF InTimeInv
<1>2. ASSUME InTimeInv, [Next]_vars PROVE InTimeInv'
  <2>1. Readable /\ PushInv /\ (pc = "checkin" => \A j \in held : Live(j))
    BY <1>2 DEF InTime, Readable, InTimeInv, HandLive, InHand
  <2>2. PushInv'
    BY <1>2, <2>1, InTimeSafe, PushStep
  <2> QED BY <1>2, <2>2, TimelyStep, HandLiveStep, LiveUnpostedStep DEF InTimeInv
<1> QED BY <1>1, <1>2, PTL DEF Spec

\* Where the open push of a document can be, in both.
LEMMA PushInvariant == ASSUME Ready \/ InTime PROVE Spec => []PushInv
<1>1. (ReadyInv => PushInv) /\ (InTimeInv => PushInv)
  BY DEF ReadyInv, InTimeInv
<1>2. ASSUME Ready PROVE Spec => []PushInv
  BY <1>1, <1>2, ReadyInvariant, PTL
<1>3. ASSUME InTime PROVE Spec => []PushInv
  BY <1>1, <1>3, InTimeInvariant, PTL
<1> QED BY <1>2, <1>3

-----------------------------------------------------------------------------
(* The promise to the shop.                                                *)

\* No retry ever makes a second voucher at a shop whose Tally is ready, or whose agent is
\* punctual and drops a job before the backend gives it up.
THEOREM NoSecondVoucher == ASSUME Ready \/ InTime PROVE Spec => []AtMostOneVoucher
<1>1. PushInv => AtMostOneVoucher
  BY DEF PushInv, BookInv, OpenIfPosted, AtMostOneVoucher
<1> QED BY <1>1, PushInvariant, PTL

\* There, one document never has two jobs in flight.
THEOREM OneJobInFlight == ASSUME Ready \/ InTime PROVE Spec => []OneInFlight
<1>1. ASSUME PushInv PROVE OneInFlight
  <2> SUFFICES ASSUME NEW d \in Checked, NEW i \in LivePush(d) \cup LiveCheck(d),
                      NEW j \in LivePush(d) \cup LiveCheck(d)
               PROVE  i = j
    BY DEF OneInFlight
  <2>1. ASSUME NEW a \in LivePush(d), NEW c \in LiveCheck(d) PROVE FALSE
    <3>1. /\ a \in Jobs /\ entity[a] = d /\ Open(a) /\ Live(a)
          /\ c \in Jobs /\ entity[c] = d /\ kind[c] = "check" /\ Live(c)
      BY DEF LivePush, LiveCheck, LiveOf, Open
    <3>2. PICK u \in Jobs : entity[u] = d /\ kind[u] = "push" /\ u \in unknown
      BY <1>1, <3>1 DEF PushInv, BookInv, CheckHasReason
    <3>3. Open(u) /\ ~Live(u)
      BY <1>1, <3>2 DEF PushInv, ShapeInv, JobShape, Open, Live
    <3> QED BY <1>1, <3>1, <3>2, <3>3 DEF PushInv, BookInv, OneOpen
  <2>2. CASE i \in LivePush(d) /\ j \in LivePush(d)
    BY <1>1, <2>2 DEF PushInv, BookInv, OneOpen, Open, LivePush, LiveOf
  <2>3. CASE i \in LiveCheck(d) /\ j \in LiveCheck(d)
    BY <1>1, <2>3 DEF PushInv, BookInv, OneOpen, LiveCheck, LiveOf
  <2> QED BY <2>1, <2>2, <2>3
<1> QED BY <1>1, PushInvariant, PTL

\* There, a voucher that Metal has not linked is under way or in doubt.
THEOREM NothingForgotten == ASSUME Ready \/ InTime PROVE Spec => []Accounted
<1>1. ASSUME PushInv PROVE Accounted
  <2> SUFFICES ASSUME NEW d \in Checked, d \notin linked, posted[d] > 0
               PROVE  LivePush(d) \cup UnknownPush(d) # {}
    BY DEF Accounted
  <2>1. posted[d] = 1
    BY <1>1 DEF PushInv, AnyInv, TypeOK, BookInv, OpenIfPosted, Checked, Voucher
  <2>2. PICK j \in Jobs : entity[j] = d /\ Open(j)
    BY <1>1, <2>1 DEF PushInv, BookInv, OpenIfPosted
  <2> QED BY <2>2 DEF Open, LivePush, UnknownPush, LiveOf
<1> QED BY <1>1, PushInvariant, PTL

\* There, the agent imports nothing for a push the shop was told had failed.
THEOREM NothingPostedAfterCancel == ASSUME Ready \/ InTime PROVE Spec => NoPostAfterCancel
<1>1. ASSUME PushInv, [Next]_vars
      PROVE  [\A j \in Jobs : posted' # posted /\ cur' = j /\ entity[j] \in Checked
                                => Live(j) \/ j \in unknown]_vars
  <2> SUFFICES ASSUME NEW j \in Jobs, posted' # posted, cur' = j, entity[j] \in Checked
               PROVE  Open(j)
    BY DEF Open
  <2>1. PICK i \in Jobs : \/ PostVoucher(i) \/ ImportUnanswered(i) \/ ImportGarbled(i)
    BY <1>1, RequestCases DEF PushInv, AnyInv, Next, AgentStep, AgentFault, BeginRound, EndRound,
       Checkin, SkipCheckin, CheckinLost, CheckinAnswerLost, AfterCheckin, Restart, Tick, vars,
       Result, ResultTooLate, ResultCreated, ResultError, ResultFound, ResultAbsent, ResultLost,
       ResultAbsentBlocked, LetGo, RunCheck, ImportRefused, CheckFails, StopForCompany, NotReady,
       NotSaved
  <2>2. i = j /\ kind[j] = "push" /\ cur = 0 /\ j \in held /\ pc = "work"
    BY <1>1, <2>1 DEF PostVoucher, ImportUnanswered, ImportGarbled, Obtains, PushInv, AnyInv, TypeOK
  <2>3. Runnable(j)
    BY <2>2 DEF Runnable, InHand, Jobs
  <2> QED BY <1>1, <2>2, <2>3 DEF PushInv, HandInv, RunnableIsOpen
<1> QED BY <1>1, PushInvariant, PTL DEF NoPostAfterCancel, Spec

-----------------------------------------------------------------------------
(* The refinement of VoucherPromise: how a step may change one document.   *)

\* A step that leaves the others alone and treats e so maps to a step of the promise.
LEMMA OneDocument ==
  ASSUME PushInv, PushInv', NEW e, TouchesOnly(e)
  PROVE  [Promise!Next]_(Promise!vars)
<1> DEFINE B(d) == IF d \in linked THEN "confirmed"
                   ELSE IF LivePush(d) \cup UnknownPush(d) # {} THEN "open" ELSE "closed"
           book == [d \in Checked |-> B(d)]
           vouchers == [d \in Checked |-> posted[d]]
<1>0. ASSUME NEW d
      PROVE  /\ LivePush(d) \cup UnknownPush(d) # {} <=> Underway(d)
             /\ (LivePush(d) \cup UnknownPush(d) # {})' <=> Underway(d)'
  BY DEF Underway, LivePush, UnknownPush, LiveOf, Open
<1>1. ASSUME NEW d \in Checked, d # e PROVE B(d)' = B(d) /\ posted'[d] = posted[d]
  <2>1. (LivePush(d) \cup UnknownPush(d) # {})' <=> LivePush(d) \cup UnknownPush(d) # {}
    BY <1>0, <1>1 DEF TouchesOnly
  <2>2. d \in linked' <=> d \in linked
    BY <1>1 DEF TouchesOnly
  <2>3. posted'[d] = posted[d]
    BY <1>1 DEF TouchesOnly
  <2> QED BY <2>1, <2>2, <2>3
<1>2. CASE e \notin Checked
  <2>1. book' = book /\ vouchers' = vouchers
    BY <1>1, <1>2 DEF Checked
  <2> QED BY <2>1 DEF Promise!vars
<1>3. CASE e \in Checked
  <2>1. /\ posted[e] \in {0, 1} /\ posted'[e] \in {0, 1}
        /\ posted[e] = 1 /\ e \notin linked => B(e) = "open"
        /\ posted'[e] = 1 /\ e \notin linked' => B(e)' = "open"
        /\ e \in linked => posted[e] = 1
        /\ e \in linked' => posted'[e] = 1
    <3>1. posted[e] \in {0, 1} /\ posted'[e] \in {0, 1}
      <4>1. posted[e] \in Nat /\ posted'[e] \in Nat
        BY <1>3 DEF PushInv, AnyInv, TypeOK, Checked, Voucher
      <4>2. posted[e] <= 1 /\ posted'[e] <= 1
        BY <1>3 DEF PushInv, BookInv, OpenIfPosted, Checked
      <4> QED BY <4>1, <4>2
    <3>2. /\ posted[e] = 1 /\ e \notin linked => Underway(e)
          /\ posted'[e] = 1 /\ e \notin linked' => Underway(e)'
      BY <1>3 DEF PushInv, BookInv, OpenIfPosted, Underway, Checked
    <3>3. /\ e \in linked => posted[e] > 0
          /\ e \in linked' => posted'[e] > 0
      BY DEF PushInv, AnyInv, LinkedIsPosted
    <3> QED BY <1>0, <3>1, <3>2, <3>3
  <2>2. /\ e \in linked => e \in linked'
        /\ posted'[e] # posted[e] => B(e) = "open" /\ posted[e] = 0 /\ posted'[e] = 1 /\ (e \in linked' <=> e \in linked)
    BY <1>3, <2>1, <1>0 DEF TouchesOnly, PushInv, BookInv, OneOpen
  <2>3. /\ book' = [book EXCEPT ![e] = B(e)'] /\ vouchers' = [vouchers EXCEPT ![e] = posted'[e]]
        /\ book[e] = B(e) /\ vouchers[e] = posted[e]
    BY <1>1, <1>3 DEF Checked
  <2>4. B(e) \in {"closed", "open", "confirmed"} /\ B(e)' \in {"closed", "open", "confirmed"}
    OBVIOUS
  <2>5. /\ B(e) = "confirmed" <=> e \in linked
        /\ B(e)' = "confirmed" <=> e \in linked'
    OBVIOUS
  <2> HIDE DEF B
  <2>6. CASE posted'[e] # posted[e]
    <3>1. B(e)' = "open" /\ B(e) = "open"
      BY <2>1, <2>2, <2>5, <2>6
    <3>2. book' = book /\ vouchers' = [vouchers EXCEPT ![e] = 1]
      BY <1>3, <2>2, <2>3, <2>6, <3>1
    <3>3. Promise!Save(e)
      BY <2>2, <2>3, <2>6, <3>1, <3>2 DEF Promise!Save, B
    <3> QED BY <1>3, <3>3 DEF Promise!Next
  <2>7. CASE posted'[e] = posted[e]
    <3>1. vouchers' = vouchers
      BY <1>3, <2>3, <2>7
    <3>2. CASE B(e)' = B(e)
      <4>1. book' = book
        BY <1>3, <2>3, <3>2
      <4> QED BY <3>1, <4>1 DEF Promise!vars, B
    <3>3. CASE B(e) = "closed" /\ B(e)' = "open"
      <4>1. Promise!Ask(e)
        BY <2>3, <3>1, <3>3 DEF Promise!Ask, B
      <4> QED BY <1>3, <4>1 DEF Promise!Next
    <3>4. CASE B(e) = "open" /\ B(e)' = "confirmed"
      <4>1. posted[e] = 1
        BY <2>1, <2>5, <2>7, <3>4
      <4>2. Promise!Confirm(e)
        BY <2>3, <3>1, <3>4, <4>1 DEF Promise!Confirm, B
      <4> QED BY <1>3, <4>2 DEF Promise!Next
    <3>5. CASE B(e) = "open" /\ B(e)' = "closed"
      <4>1. posted[e] = 0
        BY <2>1, <2>5, <2>7, <3>5
      <4>2. Promise!Withdraw(e)
        BY <2>3, <3>1, <3>5, <4>1 DEF Promise!Withdraw, B
      <4> QED BY <1>3, <4>2 DEF Promise!Next
    <3>6. ~(B(e) = "closed" /\ B(e)' = "confirmed")
      BY <2>1, <2>5, <2>7
    <3>7. B(e) = "confirmed" => B(e)' = "confirmed"
      BY <2>2, <2>5
    <3> QED BY <2>4, <3>2, <3>3, <3>4, <3>5, <3>6, <3>7
  <2> QED BY <2>6, <2>7
<1> QED BY <1>2, <1>3

\* Every step treats at most one document.
LEMMA StepTouchesOne ==
  ASSUME Readable, PushInv, [Next]_vars PROVE \E e : TouchesOnly(e)
<1> USE DEF TypeOK
<1>1. TypeOK /\ Slots
  BY DEF PushInv, AnyInv
<1>2. ASSUME UNCHANGED <<kind, entity, unknown, linked, posted>>, \A j \in Jobs : Live(j)' <=> Live(j)
      PROVE  \E e : TouchesOnly(e)
  <2>1. TouchesOnly(NoVoucher)
    BY <1>2 DEF TouchesOnly, Underway, Open
  <2> QED BY <2>1
<1>3. CASE \/ Tick \/ BeginRound \/ EndRound \/ SkipCheckin \/ Restart \/ UNCHANGED vars
           \/ Checkin \/ CheckinAnswerLost \/ CheckinLost
  <2>1. UNCHANGED <<kind, entity, unknown, linked, posted>>
    BY <1>3 DEF Tick, BeginRound, EndRound, SkipCheckin, Restart, Checkin, CheckinAnswerLost,
                CheckinLost, AfterCheckin, HandOver, vars, jobVars
  <2>2. CASE Checkin \/ CheckinAnswerLost
    <3>1. \A j \in Jobs : Live(j)' <=> Live(j)
      BY <1>1, <2>2 DEF Checkin, CheckinAnswerLost, HandOver, Live
    <3> QED BY <1>2, <2>1, <3>1
  <2>3. CASE status' = status
    <3>1. \A j \in Jobs : Live(j)' <=> Live(j)
      BY <2>3 DEF Live
    <3> QED BY <1>2, <2>1, <3>1
  <2>4. Checkin \/ CheckinAnswerLost \/ status' = status
    BY <1>3 DEF Tick, BeginRound, EndRound, SkipCheckin, Restart, CheckinLost, vars, jobVars
  <2> QED BY <2>2, <2>3, <2>4
<1>4. ASSUME NEW j \in Jobs,
             \/ PostVoucher(j) \/ ImportRefused(j) \/ ImportUnanswered(j)
             \/ RunCheck(j) \/ CheckFails(j)
      PROVE  \E e : TouchesOnly(e)
  <2>1. /\ UNCHANGED <<kind, entity, status, unknown, linked>>
        /\ (Saved(j) /\ kind[j] = "push") \/ NotSaved
        /\ cur = 0 /\ j \in held /\ pc = "work"
    BY <1>1, <1>4 DEF PostVoucher, ImportRefused, ImportUnanswered, RunCheck, CheckFails, Obtains,
                      jobVars
  <2>2. CASE NotSaved
    BY <1>2, <2>1, <2>2 DEF NotSaved, Live
  <2>3. CASE Saved(j) /\ kind[j] = "push"
    <3>1. Runnable(j)
      BY <2>1 DEF Runnable, InHand, Jobs
    <3>2. entity[j] \in Checked => Open(j) /\ posted[entity[j]] = 0
      BY <2>3, <3>1 DEF PushInv, HandInv, RunnableIsOpen
    <3>3. \A d \in Checked \ {entity[j]} : posted'[d] = posted[d]
      BY <1>1, <2>3 DEF Saved, Checked, Voucher
    <3>4. TouchesOnly(entity[j])
      BY <2>1, <3>2, <3>3 DEF TouchesOnly, Underway, Open, Live
    <3> QED BY <3>4
  <2> QED BY <2>1, <2>2, <2>3
<1>5. CASE ResultTooLate \/ ResultLost
  BY <1>2, <1>5 DEF ResultTooLate, ResultLost, LetGo, jobVars, Live
<1>6. CASE ResultCreated \/ ResultError \/ ResultFound \/ ResultAbsent \/ ResultAbsentBlocked
  <2> DEFINE e == entity[cur]
  <2>1. cur \in Jobs /\ posted' = posted /\ linked \subseteq linked'
    BY <1>1, <1>6 DEF ResultCreated, ResultError, ResultFound, ResultAbsent, ResultAbsentBlocked, LetGo
  <2>2. \A d \in Checked \ {e} : d \in linked' <=> d \in linked
    BY <1>6 DEF ResultCreated, ResultError, ResultFound, ResultAbsent, ResultAbsentBlocked,
                Prior, UnknownPush
  <2>3. ASSUME NEW j \in Jobs, (entity[j] # e /\ Open(j)) \/ (entity'[j] # e /\ Open(j)')
        PROVE  entity'[j] = entity[j] /\ Open(j) /\ Open(j)'
    <3>1. CASE ResultCreated \/ ResultError
      BY <1>1, <2>1, <2>3, <3>1 DEF ResultCreated, ResultError, Open, Live
    <3>2. CASE ResultFound
      BY <1>1, <2>1, <2>3, <3>2 DEF ResultFound, Prior, UnknownPush, Open, Live
    <3>3. CASE ResultAbsent
      <4>1. njobs + 1 \in Jobs /\ entity'[njobs + 1] = e
        BY <1>1, <3>3, NextSlot DEF ResultAbsent
      <4>2. j # njobs + 1
        BY <1>1, <2>3, <3>3, <4>1, NextSlot DEF ResultAbsent, Slots, Open
      <4> QED BY <1>1, <2>1, <2>3, <3>3, <4>2 DEF ResultAbsent, Prior, UnknownPush, Open, Live
    <3>4. CASE ResultAbsentBlocked
      BY <1>1, <2>1, <2>3, <3>4 DEF ResultAbsentBlocked, Prior, UnknownPush, Open, Live
    <3> QED BY <1>6, <3>1, <3>2, <3>3, <3>4
  <2> HIDE DEF e
  <2>4. \A d \in Checked \ {e} : Underway(d)' <=> Underway(d)
    BY <2>3 DEF Underway
  <2>5. TouchesOnly(e)
    BY <2>1, <2>2, <2>4 DEF TouchesOnly
  <2> QED BY <2>5
<1>7. CASE Request
  <2>1. PICK X \in SUBSET Jobs, v \in Voucher :
          GivesUpOnly(X, v) \/ QueuesCheck(X, v) \/ QueuesPush(X, v) \/ QueuesUnchecked(X, v)
    BY <1>7, PushRequest
  <2>2. posted' = posted
    BY <1>7, PushRequest
  <2>3. CASE GivesUpOnly(X, v)
    <3>1. linked' = linked /\ kind' = kind /\ entity' = entity
      BY <2>3 DEF GivesUpOnly, GiveUp
    <3>2. \A j \in Jobs : entity[j] # v => (Open(j)' <=> Open(j))
      BY <1>1, <2>3 DEF GivesUpOnly, GiveUp, StatusAfter, UnknownAfter, InFlight, Open, Live
    <3>3. TouchesOnly(v)
      BY <2>2, <3>1, <3>2 DEF TouchesOnly, Underway
    <3> QED BY <3>3
  <2>4. ASSUME NEW k \in {"push", "check"}, GiveUpAndQueue(X, k, v), X \subseteq InFlight(v)
        PROVE  TouchesOnly(v)
    <3>1. Booked(X, k, v)
      BY <1>1, <2>4, QueueBooks
    <3>2. \A j \in Jobs : entity[j] # v \/ entity'[j] # v
                            => j # njobs + 1 \/ ~Open(j)
      BY <1>1, <3>1 DEF Booked, Slots, Open
    <3>3. ASSUME NEW j \in Jobs, j # njobs + 1, entity[j] # v
          PROVE  entity'[j] = entity[j] /\ (Open(j)' <=> Open(j))
      BY <2>4, <3>1, <3>3 DEF Booked, InFlight, UnknownAfter, Open, Live
    <3>4. ASSUME NEW d \in Checked \ {v} PROVE Underway(d)' <=> Underway(d)
      <4>1. ASSUME NEW j \in Jobs, entity[j] = d /\ Open(j) PROVE entity'[j] = d /\ Open(j)'
        BY <3>2, <3>3, <4>1
      <4>2. ASSUME NEW j \in Jobs, entity'[j] = d /\ Open(j)' PROVE entity[j] = d /\ Open(j)
        <5>1. entity'[njobs + 1] = v
          BY <3>1 DEF Booked
        <5>2. j # njobs + 1 /\ entity'[j] = entity[j]
          BY <3>1, <4>2, <5>1 DEF Booked
        <5> QED BY <3>3, <4>2, <5>2
      <4> QED BY <4>1, <4>2 DEF Underway
    <3>5. linked' = linked
      BY <3>1 DEF Booked
    <3> QED BY <2>2, <3>4, <3>5 DEF TouchesOnly
  <2> QED BY <2>1, <2>3, <2>4 DEF QueuesCheck, QueuesPush, QueuesUnchecked
<1>8. ASSUME NEW j \in Jobs, NotReady(j) PROVE \E e : TouchesOnly(e)
  BY <1>1, <1>2, <1>8 DEF NotReady, Live
<1> QED BY <1>3, <1>4, <1>5, <1>6, <1>7, <1>8, PushCases

\* At such a shop pushing vouchers keeps the promise to the shop.
THEOREM PromiseKept == ASSUME Ready \/ InTime PROVE Spec => KeepsPromise
<1>1. Init => Promise!Init
  BY DEF Init, Promise!Init, LivePush, UnknownPush, LiveOf, Checked, Voucher
<1>2. ASSUME PushInv, PushInv', [Next]_vars PROVE [Promise!Next]_(Promise!vars)
  <2>1. Readable
    BY DEF Ready, InTime, Readable
  <2> QED BY <1>2, <2>1, StepTouchesOne, OneDocument
<1> QED BY <1>1, <1>2, PushInvariant, PTL DEF Spec, KeepsPromise, Promise!Spec
=============================================================================

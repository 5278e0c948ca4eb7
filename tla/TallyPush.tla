------------------------------ MODULE TallyPush ------------------------------
(***************************************************************************)
(* Pushing vouchers to TallyPrime: the job book of the backend             *)
(* (services/tally/jobs.py, push.py, voucher_check.py, receipts.py), the   *)
(* heartbeat that hands jobs over exactly once (routers/tally_agent.py),   *)
(* and the Windows agent that holds them in memory and posts to Tally      *)
(* (TallyMastersModule.cs, TallyAgentService.cs), for one shop and one     *)
(* Tally company.  Every HTTP request of the backend is one transaction,   *)
(* so one action; the agent's round is cut where it talks to somebody.     *)
(*                                                                         *)
(* The environment is a parameter: Faults names what may go wrong, and at  *)
(* most MaxFaults of those things happen in a behaviour.                   *)
(***************************************************************************)
EXTENDS Naturals, FiniteSets

CONSTANTS
  Doc,            \* finalized invoices and approved inward bills
  NoRef,          \* the bills Tally cannot be asked about: no bill number or date
  Receipt,        \* recorded payments, pushed as Receipt vouchers
  NoVoucher,      \* the entity of a job slot not used yet
  MaxJobs,        \* bound: job slots
  MaxFaults,      \* bound: faults in one behaviour
  RetryWindow,    \* ticks the agent retries a job Tally was not ready for
  StuckAfter,     \* ticks after which the backend gives a job up
  PullCeiling,    \* the same for a silent check job
  OnlineWindow,   \* ticks after which a silent agent counts as offline
  Lag,            \* ticks within which a punctual agent has fetched a job
  Faults          \* what may go wrong

\* restart      the agent's process ends and starts again
\* lost         a request of the agent, or the answer to it, is lost
\* timeout      Tally gives no answer to an import, saved or not
\* refused      Tally answers an import with an error
\* garbled      Tally's answer to an import cannot be parsed
\* check_failed the voucher check gets no usable answer
\* not_ready    Tally is closed, or the job's company is not open
\* wrong_company the company guard stops a job
\* blocked      the document is no longer pushable when its push resumes
\* slow         time passes at any point, not only between punctual rounds
FaultKinds == {"restart", "lost", "timeout", "refused", "garbled", "check_failed",
               "not_ready", "wrong_company", "blocked", "slow"}

Voucher == Doc \cup Receipt

ASSUME SetsAssumption == /\ NoRef \subseteq Doc
                         /\ Doc \cap Receipt = {}
                         /\ NoVoucher \notin Doc \cup Receipt
ASSUME BoundsAssumption == MaxJobs \in Nat /\ MaxFaults \in Nat
ASSUME WindowsAssumption ==
  /\ RetryWindow \in Nat /\ StuckAfter \in Nat \ {0} /\ PullCeiling \in Nat
  /\ OnlineWindow \in Nat /\ Lag \in Nat
  /\ RetryWindow <= StuckAfter /\ StuckAfter <= PullCeiling
ASSUME FaultsAssumption == Faults \subseteq FaultKinds

VARIABLES
  \* the backend's tally_sync_jobs and agent_outbox_items
  njobs,      \* jobs created so far: slots 1..njobs, oldest first
  kind,       \* "push" | "check" | "none" (unused slot)
  entity,     \* the voucher the job is about
  status,     \* the job's status
  unknown,    \* the jobs with outcome_unknown set: they may have landed in Tally
  waiting,    \* the jobs whose last_agent_status is a not-ready reason
  age,        \* ticks since created_at
  outbox,     \* status of the paired outbox item
  linked,     \* vouchers with a tally_link row
  seen,       \* ticks since the shop's last checkin
  tallyStatus, \* last_tally_status of the shop: "connected", or "down"
  \* the agent's memory
  pc,         \* "round" due | "work" in a round | "checkin" after a round
  pending,    \* ctx.PendingOutbox: the jobs of the last checkin response
  held,       \* TallyMastersModule._held
  heldAge,    \* ticks since FirstSeen of a held job
  todo,       \* jobs this round has still to look at
  cur,        \* the job whose outcome is to be reported; 0 for none
  answer,     \* that outcome
  pace,       \* "fast": a fast cycle was asked for | "early": the last checkin was
              \* one, so the next round may have none after it | "normal"
  \* TallyPrime, and the environment
  posted,     \* vouchers saved in Tally for each entity
  nfaults     \* faults so far

jobVars    == <<njobs, kind, entity, status, unknown, waiting, age, outbox, linked>>
healthVars == <<seen, tallyStatus>>
agentVars  == <<pc, pending, held, heldAge, todo, cur, answer, pace>>
vars       == <<jobVars, healthVars, agentVars, posted, nfaults>>

Jobs == 1..MaxJobs

Outcomes == {"none", "created", "refused", "garbled", "no_answer", "stopped",
             "found", "absent", "failed"}

TypeOK ==
  /\ njobs \in 0..MaxJobs
  /\ kind \in [Jobs -> {"none", "push", "check"}]
  /\ entity \in [Jobs -> Voucher \cup {NoVoucher}]
  /\ status \in [Jobs -> {"none", "queued", "sent", "ok", "error"}]
  /\ unknown \subseteq Jobs
  /\ waiting \subseteq Jobs
  /\ age \in [Jobs -> 0..PullCeiling]
  /\ outbox \in [Jobs -> {"none", "queued", "sent", "expired"}]
  /\ linked \subseteq Voucher
  /\ seen \in 0..(OnlineWindow + 1)
  /\ tallyStatus \in {"connected", "down"}
  /\ pc \in {"round", "work", "checkin"}
  /\ pending \subseteq Jobs
  /\ held \subseteq Jobs
  /\ heldAge \in [Jobs -> 0..(RetryWindow + 1)]
  /\ todo \subseteq held
  /\ cur \in Jobs \cup {0}
  /\ answer \in Outcomes
  /\ pace \in {"normal", "early", "fast"}
  /\ posted \in [Voucher -> Nat]
  /\ nfaults \in 0..MaxFaults

Init ==
  /\ njobs = 0
  /\ kind = [j \in Jobs |-> "none"]
  /\ entity = [j \in Jobs |-> NoVoucher]
  /\ status = [j \in Jobs |-> "none"]
  /\ unknown = {}
  /\ waiting = {}
  /\ age = [j \in Jobs |-> 0]
  /\ outbox = [j \in Jobs |-> "none"]
  /\ linked = {}
  /\ seen = 0
  /\ tallyStatus = "connected"
  /\ pc = "round"
  /\ pending = {}
  /\ held = {}
  /\ heldAge = [j \in Jobs |-> 0]
  /\ todo = {}
  /\ cur = 0
  /\ answer = "none"
  /\ pace = "normal"
  /\ posted = [v \in Voucher |-> 0]
  /\ nfaults = 0

\* A fault of kind f happens in this step.
Fault(f) == f \in Faults /\ nfaults < MaxFaults /\ nfaults' = nfaults + 1
NoFault == UNCHANGED nfaults

-----------------------------------------------------------------------------
(* The backend's view of its jobs. *)

Live(j) == status[j] \in {"queued", "sent"}
LiveOf(k, v) == {j \in Jobs : kind[j] = k /\ entity[j] = v /\ Live(j)}
LivePush(v) == LiveOf("push", v)
LiveCheck(v) == LiveOf("check", v)
UnknownPush(v) == {j \in Jobs : kind[j] = "push" /\ entity[j] = v /\ j \in unknown}

\* Slip: only checks are given up. Slip: the window is no longer than the agent's.
Stuck_ChecksOnly(j) == Live(j) /\ kind[j] = "check" /\ age[j] >= PullCeiling
Stuck_Early(j) == Live(j) /\ age[j] >= RetryWindow

\* _expire_stuck_job would give the job up: old enough, and a check that never
\* said "not ready" gets the longer ceiling.
Stuck(j) == /\ Live(j)
            /\ age[j] >= StuckAfter
            /\ kind[j] = "push" \/ j \in waiting \/ age[j] >= PullCeiling

\* Slip: a request goes on although one is running.
GivenUp_NoGuard(S) == {{}} \cup {{j} : j \in {i \in S : Stuck(i)}}

\* The "is one running?" query of a request takes any one live job of S. The
\* request goes on if there is none, or gives a stuck one up; otherwise it ends.
GivenUp(S) == IF S = {} THEN {{}} ELSE {{j} : j \in {i \in S : Stuck(i)}}

\* The job book after the jobs of X were given up.
StatusAfter(X) == [j \in Jobs |-> IF j \in X THEN "error" ELSE status[j]]
\* Slip: a push given up after it was sent is not flagged.
UnknownAfter_Forgets(X) == unknown
UnknownAfter(X) ==
  unknown \cup {j \in X \ waiting : kind[j] = "push" /\ entity[j] \in Doc /\ status[j] = "sent"}
OutboxAfter(X) == [j \in Jobs |-> IF j \in X /\ outbox[j] = "queued"
                                  THEN "expired" ELSE outbox[j]]

\* assert_tally_reachable: a fresh checkin that reported Tally connected.
Reachable == seen <= OnlineWindow /\ tallyStatus = "connected"

\* Room for n more jobs, one slot kept for the push each live check may resume.
Room(n) == njobs + Cardinality({j \in Jobs : kind[j] = "check" /\ Live(j)}) + n <= MaxJobs

GiveUp(X) ==
  /\ status' = StatusAfter(X)
  /\ unknown' = UnknownAfter(X)
  /\ outbox' = OutboxAfter(X)
  /\ UNCHANGED <<njobs, kind, entity, waiting, age, linked>>

GiveUpAndQueue(X, k, v) ==
  /\ njobs < MaxJobs
  /\ njobs' = njobs + 1
  /\ kind' = [kind EXCEPT ![njobs + 1] = k]
  /\ entity' = [entity EXCEPT ![njobs + 1] = v]
  /\ status' = [StatusAfter(X) EXCEPT ![njobs + 1] = "queued"]
  /\ unknown' = UnknownAfter(X)
  /\ outbox' = [OutboxAfter(X) EXCEPT ![njobs + 1] = "queued"]
  /\ UNCHANGED <<waiting, age, linked>>

-----------------------------------------------------------------------------
(* Requests of the shop: "Push to Tally" on an invoice or bill.            *)
(* old is what the in-flight assertion gave up, chk what pending_check did.*)

\* Already pushed and unchanged: the request hands back the job that did it.
PushLinked(d) ==
  /\ Reachable
  /\ d \in linked
  /\ \E old \in GivenUp(LivePush(d)) : GiveUp(old)
  /\ UNCHANGED <<healthVars, agentVars, posted>> /\ NoFault

\* A check for this document is in flight: the request hands it back.
PushHandsBackCheck(d) ==
  /\ Reachable
  /\ d \notin linked \cup NoRef
  /\ \E old \in GivenUp(LivePush(d)) :
       /\ \E c \in LiveCheck(d) : ~Stuck(c)
       /\ GiveUp(old)
  /\ UNCHANGED <<healthVars, agentVars, posted>> /\ NoFault

\* An earlier push may have landed: ask Tally before posting again.
PushQueuesCheck(d) ==
  /\ Reachable
  /\ d \notin linked \cup NoRef
  /\ Room(2)
  /\ \E old \in GivenUp(LivePush(d)), chk \in GivenUp(LiveCheck(d)) :
       /\ \E j \in UnknownAfter(old) : entity[j] = d
       /\ GiveUpAndQueue(old \cup chk, "check", d)
  /\ UNCHANGED <<healthVars, agentVars, posted>> /\ NoFault

\* Slip: a retry posts again without asking Tally first.
PushQueuesPush_NeverAsks(d) ==
  /\ Reachable
  /\ d \notin linked
  /\ Room(1)
  /\ \E old \in GivenUp(LivePush(d)) : GiveUpAndQueue(old, "push", d)
  /\ UNCHANGED <<healthVars, agentVars, posted>> /\ NoFault

\* Nothing in doubt, or nothing to look the voucher up by: queue the push.
PushQueuesPush(d) ==
  /\ Reachable
  /\ d \notin linked
  /\ Room(1)
  /\ \E old \in GivenUp(LivePush(d)) :
       \/ /\ d \in NoRef
          /\ GiveUpAndQueue(old, "push", d)
       \/ /\ d \notin NoRef
          /\ ~\E j \in UnknownAfter(old) : entity[j] = d
          /\ \E chk \in GivenUp(LiveCheck(d)) : GiveUpAndQueue(old \cup chk, "push", d)
  /\ UNCHANGED <<healthVars, agentVars, posted>> /\ NoFault

RequestPush(d) == \/ PushLinked(d) \/ PushHandsBackCheck(d)
                  \/ PushQueuesCheck(d) \/ PushQueuesPush(d)

\* A payment's receipt: any live job refuses it, nothing is ever given up, and
\* a linked one is handed back unchanged.
RequestReceipt(r) ==
  /\ Reachable
  /\ LivePush(r) = {}
  /\ r \notin linked
  /\ Room(1)
  /\ GiveUpAndQueue({}, "push", r)
  /\ UNCHANGED <<healthVars, agentVars, posted>> /\ NoFault

-----------------------------------------------------------------------------
(* The agent's round: TallyMastersModule.RunOnceAsync.                     *)

\* Slip: a job is held for as long as Tally is not ready.
BeginRound_NeverDrops ==
  /\ pc = "round"
  /\ pc' = "work"
  /\ held' = held \cup pending
  /\ heldAge' = [j \in Jobs |-> IF j \in held THEN heldAge[j] ELSE 0]
  /\ todo' = held'
  /\ UNCHANGED <<pending, cur, answer, pace>>
  /\ UNCHANGED <<jobVars, healthVars, posted>> /\ NoFault

\* Take the jobs of the last checkin in, drop the ones held too long.
\* PendingOutbox is not emptied: only the next checkin replaces it.
BeginRound ==
  /\ pc = "round"
  /\ pc' = "work"
  /\ held' = {j \in held \cup pending : j \in held => heldAge[j] <= RetryWindow}
  /\ heldAge' = [j \in Jobs |-> IF j \in held THEN heldAge[j] ELSE 0]
  /\ todo' = held'
  /\ UNCHANGED <<pending, cur, answer, pace>>
  /\ UNCHANGED <<jobVars, healthVars, posted>> /\ NoFault

\* The outcome of the job the round has come to, still to be reported.
Obtains(j, outcome) ==
  /\ pc = "work" /\ cur = 0 /\ j \in todo
  /\ cur' = j
  /\ answer' = outcome
  /\ UNCHANGED <<pc, pending, held, heldAge, todo, pace>>
  /\ UNCHANGED <<jobVars, healthVars>>

Saved(j) == posted' = [posted EXCEPT ![entity[j]] = @ + 1]
NotSaved == UNCHANGED posted

\* ProcessPushAsync: Tally imports the voucher and says so.
PostVoucher(j) == kind[j] = "push" /\ Obtains(j, "created") /\ Saved(j) /\ NoFault

\* ... or the import goes wrong; without a readable answer the voucher may be saved.
ImportRefused(j) ==
  kind[j] = "push" /\ Obtains(j, "refused") /\ NotSaved /\ Fault("refused")
ImportUnanswered(j) ==
  kind[j] = "push" /\ Obtains(j, "no_answer") /\ (Saved(j) \/ NotSaved) /\ Fault("timeout")
ImportGarbled(j) ==
  kind[j] = "push" /\ Obtains(j, "garbled") /\ (Saved(j) \/ NotSaved) /\ Fault("garbled")

\* ProcessCaptureAsync: ask Tally for the vouchers that carry the document's reference.
RunCheck(j) ==
  /\ kind[j] = "check"
  /\ Obtains(j, IF posted[entity[j]] > 0 THEN "found" ELSE "absent")
  /\ NotSaved /\ NoFault
CheckFails(j) ==
  kind[j] = "check" /\ Obtains(j, "failed") /\ NotSaved /\ Fault("check_failed")

\* GuardCompanyAsync: another company, or a renamed one, is open. Nothing is sent.
StopForCompany(j) == Obtains(j, "stopped") /\ NotSaved /\ Fault("wrong_company")

\* Tally is closed, or the company is not open: keep the job, tell the backend
\* (record_agent_status, unless the ping is lost) and go on to the next one.
NotReady(j) ==
  /\ "not_ready" \in Faults
  /\ pc = "work" /\ cur = 0 /\ j \in todo
  /\ todo' = todo \ {j}
  /\ \/ /\ Live(j)
        /\ waiting' = waiting \cup {j}
        /\ status' = [status EXCEPT ![j] = "sent"]
        /\ NoFault
     \/ ~Live(j) /\ UNCHANGED <<waiting, status>> /\ NoFault
     \/ UNCHANGED <<waiting, status>> /\ Fault("lost")
  /\ UNCHANGED <<njobs, kind, entity, unknown, age, outbox, linked>>
  /\ UNCHANGED <<pc, pending, held, heldAge, cur, answer, pace>>
  /\ UNCHANGED <<healthVars, posted>>

-----------------------------------------------------------------------------
(* The result of a job reaches the backend: job_result, process_push_result *)
(* and process_check_result.                                                *)

\* Slip: a finished job stays in the list the round walks.
LetGo_WalksOn ==
  /\ cur # 0
  /\ held' = held \ {cur}
  /\ cur' = 0
  /\ answer' = "none"
  /\ pace' = IF answer = "stopped" THEN pace ELSE "fast"
  /\ UNCHANGED <<todo, pc, pending, heldAge, healthVars, posted>>

\* The agent lets the job go; all but a company stop ask for a fast cycle.
LetGo ==
  /\ cur # 0
  /\ held' = held \ {cur}
  /\ todo' = todo \ {cur}
  /\ cur' = 0
  /\ answer' = "none"
  /\ pace' = IF answer = "stopped" THEN pace ELSE "fast"
  /\ UNCHANGED <<pc, pending, heldAge, healthVars, posted>>

\* A result for a job that is already ok or error changes nothing.
ResultTooLate == LetGo /\ ~Live(cur) /\ UNCHANGED jobVars /\ NoFault

ResultLost == LetGo /\ UNCHANGED jobVars /\ Fault("lost")

\* Slip: any readable answer to an import is taken for a success.
ResultCreated_AnyAnswer ==
  /\ LetGo /\ Live(cur) /\ answer \in {"created", "refused"}
  /\ status' = [status EXCEPT ![cur] = "ok"]
  /\ linked' = linked \cup {entity[cur]}
  /\ UNCHANGED <<njobs, kind, entity, unknown, waiting, age, outbox>> /\ NoFault

ResultCreated ==
  /\ LetGo /\ Live(cur) /\ answer = "created"
  /\ status' = [status EXCEPT ![cur] = "ok"]
  /\ linked' = linked \cup {entity[cur]}
  /\ UNCHANGED <<njobs, kind, entity, unknown, waiting, age, outbox>> /\ NoFault

\* Slip: an import without an answer is a plain failure.
ResultError_Plain ==
  /\ LetGo /\ Live(cur) /\ answer \in {"refused", "garbled", "stopped", "failed", "no_answer"}
  /\ status' = [status EXCEPT ![cur] = "error"]
  /\ UNCHANGED <<njobs, kind, entity, unknown, waiting, age, outbox, linked>> /\ NoFault

ResultError ==
  /\ LetGo /\ Live(cur) /\ answer \in {"refused", "garbled", "stopped", "failed", "no_answer"}
  /\ status' = [status EXCEPT ![cur] = "error"]
  /\ unknown' = IF answer = "no_answer" /\ entity[cur] \in Doc
                THEN unknown \cup {cur} ELSE unknown
  /\ UNCHANGED <<njobs, kind, entity, waiting, age, outbox, linked>> /\ NoFault

\* The push the check was made for: the newest one in doubt, if any.
Prior(v) == {j \in UnknownPush(v) : \A i \in UnknownPush(v) : i <= j}

\* The voucher is there: the push in doubt was a success after all.
ResultFound ==
  /\ LetGo /\ Live(cur) /\ answer = "found"
  /\ LET prior == Prior(entity[cur]) IN
       /\ status' = [j \in Jobs |-> IF j \in prior \cup {cur} THEN "ok" ELSE status[j]]
       /\ unknown' = unknown \ prior
       /\ linked' = linked \cup {entity[j] : j \in prior}
  /\ UNCHANGED <<njobs, kind, entity, waiting, age, outbox>> /\ NoFault

\* It is not: _resume_push queues the retry the shop asked for ...
ResultAbsent ==
  /\ LetGo /\ Live(cur) /\ answer = "absent"
  /\ njobs < MaxJobs
  /\ njobs' = njobs + 1
  /\ kind' = [kind EXCEPT ![njobs + 1] = "push"]
  /\ entity' = [entity EXCEPT ![njobs + 1] = entity[cur]]
  /\ status' = [status EXCEPT ![cur] = "ok", ![njobs + 1] = "queued"]
  /\ unknown' = unknown \ Prior(entity[cur])
  /\ outbox' = [outbox EXCEPT ![njobs + 1] = "queued"]
  /\ UNCHANGED <<waiting, age, linked>> /\ NoFault

\* ... unless the document has a blocker by now.
ResultAbsentBlocked ==
  /\ LetGo /\ Live(cur) /\ answer = "absent"
  /\ status' = [status EXCEPT ![cur] = "ok"]
  /\ unknown' = unknown \ Prior(entity[cur])
  /\ UNCHANGED <<njobs, kind, entity, waiting, age, outbox, linked>>
  /\ Fault("blocked")

-----------------------------------------------------------------------------
(* The agent's loop: TallyAgentService.ExecuteAsync, and the checkin.      *)

EndRound ==
  /\ pc = "work" /\ cur = 0 /\ todo = {}
  /\ pc' = "checkin"
  /\ UNCHANGED <<pending, held, heldAge, todo, cur, answer, pace>>
  /\ UNCHANGED <<jobVars, healthVars, posted>> /\ NoFault

Queued == {j \in Jobs : outbox[j] = "queued"}
Probes == IF "not_ready" \in Faults THEN {"connected", "down"} ELSE {"connected"}

\* Slip: an item handed out stays queued.
HandOver_Again ==
  /\ status' = [j \in Jobs |-> IF j \in Queued /\ status[j] = "queued"
                               THEN "sent" ELSE status[j]]
  /\ seen' = 0
  /\ tallyStatus' \in Probes
  /\ UNCHANGED <<njobs, kind, entity, unknown, waiting, age, outbox, linked>>

\* The backend hands out every queued outbox item and flips it to sent: once.
HandOver ==
  /\ outbox' = [j \in Jobs |-> IF j \in Queued THEN "sent" ELSE outbox[j]]
  /\ status' = [j \in Jobs |-> IF j \in Queued /\ status[j] = "queued"
                               THEN "sent" ELSE status[j]]
  /\ seen' = 0
  /\ tallyStatus' \in Probes
  /\ UNCHANGED <<njobs, kind, entity, unknown, waiting, age, linked>>

\* A fast cycle makes this checkin early and the next round due at once, so that
\* round may end before the next checkin is due.
AfterCheckin(jobs) ==
  /\ pc = "checkin"
  /\ pc' = "round"
  /\ pending' = jobs
  /\ pace' = IF pace = "fast" THEN "early" ELSE "normal"
  /\ UNCHANGED <<held, heldAge, todo, cur, answer, posted>>

Checkin == AfterCheckin(Queued) /\ HandOver /\ NoFault
CheckinAnswerLost == AfterCheckin({}) /\ HandOver /\ Fault("lost")
CheckinLost == AfterCheckin({}) /\ UNCHANGED <<jobVars, healthVars>> /\ Fault("lost")

\* The round after an early checkin ended, nothing in it finished, and the next
\* checkin is not due yet: the following round sees the same PendingOutbox.
SkipCheckin ==
  /\ pc = "checkin" /\ pace = "early"
  /\ pc' = "round"
  /\ pace' = "normal"
  /\ UNCHANGED <<pending, held, heldAge, todo, cur, answer>>
  /\ UNCHANGED <<jobVars, healthVars, posted>> /\ NoFault

\* The agent's process ends, and starts again with an empty memory.
Restart ==
  /\ Fault("restart")
  /\ pc' = "round"
  /\ pending' = {} /\ held' = {} /\ todo' = {}
  /\ cur' = 0 /\ answer' = "none"
  /\ pace' = "normal"
  /\ UNCHANGED <<heldAge, jobVars, healthVars, posted>>

\* Time passes. A punctual agent ends its rounds within a tick and has fetched
\* every job by the time it is Lag old. Ages stop at the largest window, and the
\* age of a finished job, which nothing reads, is kept at 0.
Punctual == /\ pc = "round"
            /\ \A j \in Jobs : Live(j) /\ (j \in Queued \/ j \in pending \ held)
                                 => age[j] < Lag
Tick ==
  /\ "slow" \in Faults \/ Punctual
  /\ age' = [j \in Jobs |-> IF ~Live(j) THEN 0
                            ELSE IF age[j] < PullCeiling THEN age[j] + 1 ELSE age[j]]
  /\ heldAge' = [j \in Jobs |-> IF j \notin held THEN 0
                                ELSE IF heldAge[j] <= RetryWindow THEN heldAge[j] + 1
                                ELSE heldAge[j]]
  /\ seen' = IF seen <= OnlineWindow THEN seen + 1 ELSE seen
  /\ UNCHANGED <<njobs, kind, entity, status, unknown, waiting, outbox, linked>>
  /\ UNCHANGED <<pc, pending, held, todo, cur, answer, pace>>
  /\ UNCHANGED <<tallyStatus, posted>> /\ NoFault

Request == (\E d \in Doc : RequestPush(d)) \/ (\E r \in Receipt : RequestReceipt(r))

\* What the agent does when nothing goes wrong.
Result == \/ ResultTooLate \/ ResultCreated \/ ResultError
          \/ ResultFound \/ ResultAbsent
AgentStep == \/ BeginRound \/ EndRound \/ Checkin \/ SkipCheckin \/ Result
             \/ \E j \in Jobs : PostVoucher(j) \/ RunCheck(j)

AgentFault == \/ ResultLost \/ ResultAbsentBlocked
              \/ CheckinLost \/ CheckinAnswerLost \/ Restart
              \/ \E j \in Jobs : \/ ImportRefused(j) \/ ImportUnanswered(j) \/ ImportGarbled(j)
                                 \/ CheckFails(j) \/ StopForCompany(j) \/ NotReady(j)

Next == Request \/ AgentStep \/ AgentFault \/ Tick

Spec == Init /\ [][Next]_vars

\* The agent's loop and the clock keep going, and a shop that still wants its
\* voucher keeps asking for it. Nothing is assumed of the faults, which run out.
Fairness == /\ WF_vars(AgentStep)
            /\ SF_vars(Tick)
            /\ \A d \in Doc : SF_vars(RequestPush(d))
            /\ \A r \in Receipt : SF_vars(RequestReceipt(r))

FairSpec == Spec /\ Fairness

-----------------------------------------------------------------------------
(* What must hold.                                                         *)

\* The documents the voucher check protects.
Checked == Doc \ NoRef

\* Whatever goes wrong, Metal shows a voucher as pushed only if TallyPrime has it
\* (complete_push_ok is reached from a created or a found voucher alone).
LinkedIsPosted == \A v \in linked : posted[v] > 0

\* A retry never makes a second voucher (voucher_check.py: "a retry must not
\* simply post again").
AtMostOneVoucher == \A d \in Checked : posted[d] <= 1

\* One document has at most one job in flight, push or check, although the push
\* a check resumes is queued without the in-flight assertion.
OneInFlight == \A d \in Checked : \A i, j \in LivePush(d) \cup LiveCheck(d) : i = j

\* A voucher Metal has not linked is never forgotten: a push is under way for it or
\* flagged as in doubt, so that the next retry asks Tally first.
Accounted == \A d \in Checked \ linked :
               posted[d] > 0 => LivePush(d) \cup UnknownPush(d) # {}

\* The agent imports no voucher for a push the shop was told had plainly failed
\* (_expire_stuck_job: "so a returning agent does not run a job the shop was
\* already told was cancelled").
NoPostAfterCancel ==
  [][\A j \in Jobs : posted' # posted /\ cur' = j /\ entity[j] \in Checked
                       => Live(j) \/ j \in unknown]_vars

\* Retrying ends: a shop that keeps asking gets every voucher linked, whatever
\* was lost on the way (_STUCK_AFTER: an orphaned job "can't wedge the tenant forever").
EventuallyLinked == \A d \in Doc : <>(d \in linked)

\* The same for a payment's receipt.
ReceiptEventuallyLinked == \A r \in Receipt : <>(r \in linked)

\* What the shop is promised, for the documents the check protects.
Promise == INSTANCE VoucherPromise WITH
  Doc      <- Checked,
  book     <- [d \in Checked |-> IF d \in linked THEN "confirmed"
                                 ELSE IF LivePush(d) \cup UnknownPush(d) # {} THEN "open"
                                 ELSE "closed"],
  vouchers <- [d \in Checked |-> posted[d]]

KeepsPromise == Promise!Spec
=============================================================================

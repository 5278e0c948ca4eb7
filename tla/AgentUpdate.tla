---------------------------- MODULE AgentUpdate ----------------------------
(***************************************************************************)
(* How the Windows agent replaces itself.  The backend offers a version at *)
(* check-in; the agent downloads and tests it, exits, and swaps its own    *)
(* files, one by one, when the scheduler starts it again; the new build is *)
(* on trial until it has stayed up for 90 seconds, and is rolled back when *)
(* it keeps dying before that.                                             *)
(*                                                                         *)
(* Every step here is one call that reaches the disk or the backend, so a  *)
(* crash can fall between any two of them: between two file moves, between *)
(* a swap and the note of it.                                              *)
(*                                                                         *)
(* A definition whose comment begins with "Slip" is a deliberate mistake   *)
(* that stands for no code: it takes the place of the definition after it  *)
(* to show that the properties notice it.                                  *)
(***************************************************************************)
EXTENDS Integers, FiniteSets

CONSTANTS Files,        \* the files of a build; appsettings.json is not one
          Exe,          \* the one the scheduler starts
          MaxVersion,   \* versions are 1..MaxVersion; the first is installed
          Unfit,        \* versions whose signature, zip or selftest is bad
          Unsound,      \* versions that die before 90 seconds are over
          MaxStarts,    \* MaxStartsBeforeRollback
          MaxTargets,   \* bound: how often the operators name a target
          MaxCrashes    \* bound: how often the agent's process is killed

Versions == 1..MaxVersion
NoVersion == 0

ASSUME UpdateConstantsOK ==
  /\ Exe \in Files
  /\ MaxVersion \in Nat \ {0}
  /\ Unfit \subseteq Versions \ {1}
  /\ Unsound \subseteq Versions \ {1}
  /\ {MaxStarts, MaxTargets, MaxCrashes} \subseteq Nat

VARIABLES
  app,       \* [Files -> the version of the file in the install folder]
  prev,      \* the same of the folder app.prev, where the old build is kept
  plan,      \* update-state.json
  report,    \* update-failure.json: the failed version, not delivered yet
  me,        \* the version the running process was started from
  at,        \* where that process stands
  offer,     \* the version it is about to stage
  ignored,   \* ignoredOffers, for the life of the process
  proved,    \* markedHealthy, for the life of the process
  known,     \* backend: agent_version
  mark,      \* backend: the version in last_update_status = "failed:..."
  pin,       \* backend: target_agent_version
  latest,    \* the promoted release
  targets,   \* how often an operator has named a target
  crashes,   \* how often the process was killed
  healthy,   \* history: the versions that have stayed up here
  failed,    \* history: has the present target failed here since it was named?
  cut        \* history: was a swap cut short, and has the agent started since?

diskVars    == <<app, prev, plan, report>>
processVars == <<me, at, offer, ignored, proved>>
backendVars == <<known, mark, pin, latest>>
boundVars   == <<targets, crashes>>
historyVars == <<healthy, failed, cut>>
updateVars  == <<diskVars, processVars, backendVars, boundVars, historyVars>>

Empty == [f \in Files |-> NoVersion]
Build(v) == [f \in Files |-> v]

NoPlan == [stage |-> "none", version |-> NoVersion, previous |-> NoVersion, starts |-> 0]
Staged(v, w) == [stage |-> "staged", version |-> v, previous |-> w, starts |-> 0]

Target == IF pin # NoVersion THEN pin ELSE latest

Places == {"down", "startup", "aside", "copying", "copied", "removing", "restoring", "running"}

(* Somebody is moving files: a death here leaves the folder half changed, *)
(* or changed with nothing on the disk to say so.                         *)
Moving == at \in {"aside", "copying", "copied", "removing", "restoring"}

(* The process ends; the scheduler will start it again. *)
Exit ==
  /\ at' = "down"
  /\ me' = NoVersion
  /\ offer' = NoVersion
  /\ UNCHANGED <<ignored, proved>>

Run == at' = "running" /\ UNCHANGED <<me, offer, ignored, proved>>

CutShort == IF cut = "resumed" THEN cut ELSE "cut"

Notice(v) == failed' = (failed \/ v = Target)

-----------------------------------------------------------------------------
(* Starting. *)

(* Slip: what one process ignores the next one ignores too. *)
Launch_Remembers ==
  /\ at = "down"
  /\ app[Exe] # NoVersion
  /\ me' = app[Exe]
  /\ at' = "startup"
  /\ proved' = FALSE
  /\ cut' = IF cut = "cut" THEN "resumed" ELSE cut
  /\ UNCHANGED <<offer, ignored, diskVars, backendVars, boundVars, healthy, failed>>

Launch ==
  /\ at = "down"
  /\ app[Exe] # NoVersion
  /\ me' = app[Exe]
  /\ at' = "startup"
  /\ ignored' = {}
  /\ proved' = FALSE
  /\ cut' = IF cut = "cut" THEN "resumed" ELSE cut
  /\ UNCHANGED <<offer, diskVars, backendVars, boundVars, healthy, failed>>

(* TryDeleteDir: a locked file may keep the folder where it is. *)
TidyPrev == prev' \in {prev, Empty}

StartIdle ==
  /\ at = "startup"
  /\ plan.stage = "none"
  /\ TidyPrev
  /\ Run
  /\ UNCHANGED <<app, plan, report, backendVars, boundVars, historyVars>>

(* A plan that is not about the build that is running. *)
Stale == \/ plan.stage = "staged" /\ plan.previous # me
         \/ plan.stage = "swapped" /\ plan.version # me

StartStale ==
  /\ at = "startup"
  /\ Stale
  /\ plan' = NoPlan
  /\ Run
  /\ UNCHANGED <<app, prev, report, backendVars, boundVars, historyVars>>

StartSwap ==
  /\ at = "startup"
  /\ plan.stage = "staged" /\ ~Stale
  /\ prev' = Empty
  /\ at' = "aside"
  /\ UNCHANGED <<app, plan, report, me, offer, ignored, proved, backendVars,
                 boundVars, historyVars>>

MoveAside(f) ==
  /\ at = "aside"
  /\ app[f] # NoVersion
  /\ prev' = [prev EXCEPT ![f] = app[f]]
  /\ app' = [app EXCEPT ![f] = NoVersion]
  /\ at' = IF app' = Empty THEN "copying" ELSE at
  /\ UNCHANGED <<plan, report, me, offer, ignored, proved, backendVars,
                 boundVars, historyVars>>

CopyIn(f) ==
  /\ at = "copying"
  /\ app[f] = NoVersion
  /\ app' = [app EXCEPT ![f] = plan.version]
  /\ at' = IF app' = Build(plan.version) THEN "copied" ELSE at
  /\ UNCHANGED <<prev, plan, report, me, offer, ignored, proved, backendVars,
                 boundVars, historyVars>>

(* Slip: the files moved aside are not put back. *)
SwapFails_NoUndo(stuck) ==
  /\ at \in {"aside", "copying"}
  /\ app' = [f \in Files |-> IF prev[f] = NoVersion THEN app[f] ELSE NoVersion]
  /\ report' = plan.version
  /\ plan' = NoPlan
  /\ Run
  /\ Notice(plan.version)
  /\ cut' = IF stuck = {} THEN cut ELSE CutShort
  /\ UNCHANGED <<prev, backendVars, boundVars, healthy>>

(* A move or a copy fails: the copies are deleted and the old files go     *)
(* back, except those that cannot be moved either (stuck), which the code  *)
(* leaves where they are.                                                  *)
SwapFails(stuck) ==
  /\ at \in {"aside", "copying"}
  /\ LET back == {f \in Files : prev[f] # NoVersion} IN
       /\ stuck \subseteq back
       /\ app' = [f \in Files |-> IF f \in stuck THEN NoVersion
                                  ELSE IF f \in back THEN prev[f] ELSE app[f]]
       /\ prev' = [f \in Files |-> IF f \in stuck THEN prev[f] ELSE NoVersion]
  /\ report' = plan.version
  /\ plan' = NoPlan
  /\ Run
  /\ Notice(plan.version)
  /\ cut' = IF stuck = {} THEN cut ELSE CutShort
  /\ UNCHANGED <<backendVars, boundVars, healthy>>

(* Slip: nothing on the disk says that the new build is on trial. *)
SwapDone_Unwatched ==
  /\ at = "copied"
  /\ plan' = NoPlan
  /\ Exit
  /\ UNCHANGED <<app, prev, report, backendVars, boundVars, historyVars>>

SwapDone ==
  /\ at = "copied"
  /\ plan' = [plan EXCEPT !.stage = "swapped", !.starts = 0]
  /\ Exit
  /\ UNCHANGED <<app, prev, report, backendVars, boundVars, historyVars>>

-----------------------------------------------------------------------------
(* A build on trial. *)

OnTrial == plan.stage = "swapped" /\ plan.version = me

(* Slip: the start is not counted. *)
StartTrial_Uncounted ==
  /\ at = "startup"
  /\ OnTrial
  /\ plan.starts < MaxStarts
  /\ Run
  /\ UNCHANGED <<diskVars, backendVars, boundVars, historyVars>>

StartTrial ==
  /\ at = "startup"
  /\ OnTrial
  /\ plan.starts < MaxStarts
  /\ plan' = [plan EXCEPT !.starts = @ + 1]
  /\ Run
  /\ UNCHANGED <<app, prev, report, backendVars, boundVars, historyVars>>

(* Slip: the limit is met one start too late. *)
StartRollback_TooLate ==
  /\ at = "startup"
  /\ OnTrial
  /\ plan.starts >= MaxStarts
  /\ plan' = [plan EXCEPT !.starts = @ + 1]
  /\ at' = IF plan.starts > MaxStarts THEN "removing" ELSE "running"
  /\ UNCHANGED <<app, prev, report, me, offer, ignored, proved, backendVars,
                 boundVars, historyVars>>

StartRollback ==
  /\ at = "startup"
  /\ OnTrial
  /\ plan.starts >= MaxStarts
  /\ plan' = [plan EXCEPT !.starts = @ + 1]
  /\ at' = "removing"
  /\ UNCHANGED <<app, prev, report, me, offer, ignored, proved, backendVars,
                 boundVars, historyVars>>

Remove(f) ==
  /\ at = "removing"
  /\ app[f] # NoVersion
  /\ app' = [app EXCEPT ![f] = NoVersion]
  /\ at' = IF app' = Empty THEN "restoring" ELSE at
  /\ UNCHANGED <<prev, plan, report, me, offer, ignored, proved, backendVars,
                 boundVars, historyVars>>

Restore(f) ==
  /\ at = "restoring"
  /\ prev[f] # NoVersion
  /\ app' = [app EXCEPT ![f] = prev[f]]
  /\ prev' = [prev EXCEPT ![f] = NoVersion]
  /\ UNCHANGED <<plan, report, processVars, backendVars, boundVars, historyVars>>

RollbackDone ==
  /\ at = "restoring"
  /\ prev = Empty
  /\ report' = plan.version
  /\ plan' = NoPlan
  /\ Exit
  /\ Notice(plan.version)
  /\ UNCHANGED <<app, prev, backendVars, boundVars, healthy, cut>>

(* A file will not move, or there is no old build: "nothing safe left to   *)
(* do; keep running whatever this is".                                     *)
RollbackFails ==
  /\ at \in {"removing", "restoring"}
  /\ report' = plan.version
  /\ plan' = NoPlan
  /\ Run
  /\ Notice(plan.version)
  /\ cut' = CutShort
  /\ UNCHANGED <<app, prev, backendVars, boundVars, healthy>>

MarkHealthy ==
  /\ at = "running" /\ offer = NoVersion
  /\ ~proved /\ me \notin Unsound
  /\ proved' = TRUE
  /\ healthy' = healthy \cup {me}
  /\ IF OnTrial THEN plan' = NoPlan /\ TidyPrev ELSE UNCHANGED <<plan, prev>>
  /\ UNCHANGED <<app, report, me, at, offer, ignored, backendVars, boundVars, failed, cut>>

-----------------------------------------------------------------------------
(* Check-in and staging. *)

(* effective_target and update_offer_for, for an agent of version v. *)
OfferTo(v, m) ==
  IF Target = v \/ (pin = NoVersion /\ Target < v) \/ m = Target THEN NoVersion ELSE Target

(* Slip: the note of the failure is made before the change of version      *)
(* wipes it.                                                               *)
Checkin_MarkWiped(heard) ==
  /\ at = "running" /\ offer = NoVersion
  /\ LET m == IF known # me THEN NoVersion
              ELSE IF report # NoVersion THEN report ELSE mark IN
       /\ mark' = m
       /\ offer' = IF heard /\ OfferTo(me, m) \notin ignored THEN OfferTo(me, m) ELSE NoVersion
  /\ known' = me
  /\ report' = IF heard THEN NoVersion ELSE report
  /\ UNCHANGED <<app, prev, plan, me, at, ignored, proved, pin, latest, boundVars, historyVars>>

(* A check-in that reaches the backend; the agent may or may not hear the  *)
(* answer.  A change of version wipes the mark before the report sets it.  *)
Checkin(heard) ==
  /\ at = "running" /\ offer = NoVersion
  /\ LET m == IF report # NoVersion THEN report
              ELSE IF known # me THEN NoVersion ELSE mark IN
       /\ mark' = m
       /\ offer' = IF heard /\ OfferTo(me, m) \notin ignored THEN OfferTo(me, m) ELSE NoVersion
  /\ known' = me
  /\ report' = IF heard THEN NoVersion ELSE report
  /\ UNCHANGED <<app, prev, plan, me, at, ignored, proved, pin, latest, boundVars, historyVars>>

(* One update at a time: an offer that meets a plan is not looked at again *)
(* by this process.                                                        *)
StageSkipped ==
  /\ offer # NoVersion
  /\ plan # NoPlan
  /\ ignored' = ignored \cup {offer}
  /\ offer' = NoVersion
  /\ UNCHANGED <<diskVars, me, at, proved, backendVars, boundVars, historyVars>>

StageRejected ==
  /\ offer \in Unfit
  /\ plan = NoPlan
  /\ report' = offer
  /\ ignored' = ignored \cup {offer}
  /\ offer' = NoVersion
  /\ Notice(offer)
  /\ UNCHANGED <<app, prev, plan, me, at, proved, backendVars, boundVars, healthy, cut>>

(* Network or disk trouble: tried again later. *)
StageLater ==
  /\ offer # NoVersion
  /\ plan = NoPlan
  /\ offer' = NoVersion
  /\ UNCHANGED <<diskVars, me, at, ignored, proved, backendVars, boundVars, historyVars>>

Stage ==
  /\ offer \notin Unfit \cup {NoVersion}
  /\ plan = NoPlan
  /\ plan' = Staged(offer, me)
  /\ Exit
  /\ UNCHANGED <<app, prev, report, backendVars, boundVars, historyVars>>

-----------------------------------------------------------------------------
(* What happens to the process and what the operators do. *)

(* A build that cannot live dies before its 90 seconds are over. *)
Die ==
  /\ at = "running"
  /\ me \in Unsound
  /\ Exit
  /\ UNCHANGED <<diskVars, backendVars, boundVars, historyVars>>

(* The shop closes for the night. *)
SwitchOff ==
  /\ at = "running" /\ offer = NoVersion
  /\ proved
  /\ Exit
  /\ UNCHANGED <<diskVars, backendVars, boundVars, historyVars>>

(* The process is killed.  Killed while it writes update-state.json, it    *)
(* leaves a file that reads as no plan at all.                             *)
Crash ==
  /\ at # "down"
  /\ crashes < MaxCrashes
  /\ crashes' = crashes + 1
  /\ Exit
  /\ plan' \in {plan} \cup (IF at = "copied" \/ (at = "startup" /\ OnTrial) THEN {NoPlan} ELSE {})
  /\ cut' = IF Moving \/ plan' # plan THEN CutShort ELSE cut
  /\ UNCHANGED <<app, prev, report, backendVars, targets, healthy, failed>>

(* An operator pins the shop to a version or clears the pin. *)
SetTarget(v) ==
  /\ targets < MaxTargets
  /\ targets' = targets + 1
  /\ pin' = v
  /\ mark' = NoVersion
  /\ failed' = FALSE
  /\ UNCHANGED <<diskVars, processVars, known, latest, crashes, healthy, cut>>

(* The release workflow promotes a version for every shop. *)
Promote(v) ==
  /\ targets < MaxTargets
  /\ v # latest
  /\ targets' = targets + 1
  /\ latest' = v
  /\ failed' = (failed /\ pin # NoVersion)
  /\ UNCHANGED <<diskVars, processVars, known, mark, pin, crashes, healthy, cut>>

-----------------------------------------------------------------------------
UpdateInit ==
  /\ app = Build(1) /\ prev = Empty /\ plan = NoPlan /\ report = NoVersion
  /\ me = NoVersion /\ at = "down" /\ offer = NoVersion /\ ignored = {} /\ proved = FALSE
  /\ known = NoVersion /\ mark = NoVersion /\ pin = NoVersion /\ latest = 1
  /\ targets = 0 /\ crashes = 0
  /\ healthy = {1} /\ failed = FALSE /\ cut = "no"

Swapping ==
  \/ StartSwap
  \/ \E f \in Files : MoveAside(f) \/ CopyIn(f)
  \/ SwapDone

RollingBack ==
  \/ StartRollback
  \/ \E f \in Files : Remove(f) \/ Restore(f)
  \/ RollbackDone

Starting == StartIdle \/ StartStale \/ StartTrial \/ Swapping \/ RollingBack

Failing ==
  \/ \E stuck \in SUBSET Files : SwapFails(stuck)
  \/ RollbackFails

Staging == StageSkipped \/ StageRejected \/ StageLater \/ Stage

Operating ==
  \/ \E v \in Versions \cup {NoVersion} : SetTarget(v)
  \/ \E v \in Versions : Promote(v)

UpdateNext ==
  \/ Launch
  \/ Starting
  \/ Failing
  \/ MarkHealthy
  \/ \E heard \in BOOLEAN : Checkin(heard)
  \/ Staging
  \/ Die \/ SwitchOff \/ Crash
  \/ Operating

(* The scheduler restarts the agent and its code runs on; the process is   *)
(* left up for 90 seconds now and then, and the shop closes now and then;  *)
(* a check-in is answered, and a download succeeds, now and then.          *)
UpdateFairness ==
  /\ WF_updateVars(Launch)
  /\ WF_updateVars(Starting)
  /\ WF_updateVars(Die)
  /\ SF_updateVars(MarkHealthy)
  /\ SF_updateVars(SwitchOff)
  /\ SF_updateVars(Checkin(TRUE))
  /\ WF_updateVars(StageSkipped)
  /\ SF_updateVars(StageRejected \/ Stage)

UpdateSpec == UpdateInit /\ [][UpdateNext]_updateVars

FairUpdateSpec == UpdateSpec /\ UpdateFairness

-----------------------------------------------------------------------------
MaybeVersion == Versions \cup {NoVersion}

(* The shape of the state; in particular a build on trial is started at    *)
(* most one time more than the limit, and once more for every time it was  *)
(* killed (OnStartup).                                                     *)
UpdateTypeOK ==
  /\ app \in [Files -> MaybeVersion]
  /\ prev \in [Files -> MaybeVersion]
  /\ plan \in [stage : {"none", "staged", "swapped"}, version : MaybeVersion,
               previous : MaybeVersion, starts : 0..MaxStarts + 1 + crashes]
  /\ {report, me, offer, known, mark, pin} \subseteq MaybeVersion
  /\ at \in Places
  /\ ignored \subseteq Versions
  /\ proved \in BOOLEAN
  /\ latest \in Versions
  /\ targets \in 0..MaxTargets
  /\ crashes \in 0..MaxCrashes
  /\ healthy \subseteq Versions
  /\ failed \in BOOLEAN
  /\ cut \in {"no", "cut", "resumed"}

(* Until the agent is started again after a swap that was cut short, every *)
(* file of a build that has stayed up on this machine is on its disk, in   *)
(* the install folder or beside it (Apply, Rollback, the tidying).         *)
RecoverableOnDisk ==
  cut # "resumed" =>
    \E v \in healthy : \A f \in Files : app[f] = v \/ prev[f] = v

(* A build that has not yet stayed up here runs only on trial, whole, and  *)
(* with the whole of the build it replaced kept beside it.                 *)
WatchedUntilProven ==
  (cut = "no" /\ at = "running" /\ me \notin healthy) =>
    /\ OnTrial
    /\ app = Build(me)
    /\ prev = Build(plan.previous)
    /\ plan.previous \in healthy

(* A version the agent reported as failed is not staged again until an     *)
(* operator names a target anew (checkin, update_offer_for, WriteFailure). *)
NoRetryOfFailed ==
  [][(cut = "no" /\ failed /\ plan'.stage = "staged" /\ plan.stage = "none")
       => plan'.version # Target]_updateVars

(* A build that cannot live is replaced by one that can (the count of      *)
(* starts and the rollback), unless a swap was cut short.                  *)
BadBuildLeaves ==
  (me \in Unsound) ~> (me \notin Unsound \cup {NoVersion} \/ cut # "no")

AtTarget == me = Target \/ (pin = NoVersion /\ Target < me) \/ mark = Target

(* When the operators have named their last target, the agent comes to run *)
(* it or to have reported it as failed (the whole life of an update).      *)
ReachesTarget == <>[](cut # "no" \/ (at = "running" => AtTarget))
=============================================================================

------------------------- MODULE AgentUpdateProofs -------------------------
(***************************************************************************)
(* Proofs about AgentUpdate, for any files, any versions good and bad, any *)
(* limit of starts, and any number of targets and crashes.                 *)
(***************************************************************************)
EXTENDS AgentUpdate, TLAPS

(* Only a crash lets a build on trial start once more than it may.          *)
StartsBounded == at \notin {"removing", "restoring"} => plan.starts <= MaxStarts + crashes

Alive ==
  /\ at # "down" => me \in Versions
  /\ at # "running" => offer = NoVersion

TypesOK == UpdateTypeOK /\ StartsBounded /\ Alive

(* No file is moved, and no move was cut short.                            *)
Settled ==
  /\ plan.stage = "none" => \E v \in healthy : app = Build(v)
  /\ plan.stage = "staged" => app = Build(plan.previous)
  /\ plan.stage = "swapped" => app = Build(plan.version) /\ prev = Build(plan.previous)
  /\ at # "down" => me = app[Exe]

(* Where each file is, as long as no swap was cut short.                   *)
Whole ==
  /\ at \in {"down", "startup", "running"} => Settled
  /\ plan.stage # "none" => plan.previous \in healthy /\ plan.version \in Versions
  /\ at \in {"aside", "copying", "copied"} => plan.stage = "staged" /\ me = plan.previous
  /\ at \in {"removing", "restoring"} => plan.stage = "swapped"
  /\ at = "aside" =>
       \A f \in Files : \/ app[f] = plan.previous /\ prev[f] = NoVersion
                        \/ app[f] = NoVersion /\ prev[f] = plan.previous
  /\ at \in {"copying", "copied", "removing"} => prev = Build(plan.previous)
  /\ at = "copied" => app = Build(plan.version)
  /\ at = "restoring" =>
       \A f \in Files : \/ prev[f] = plan.previous
                        \/ prev[f] = NoVersion /\ app[f] = plan.previous

Recoverable == \E v \in healthy : \A f \in Files : app[f] = v \/ prev[f] = v

(* A swap was cut short, and the agent has not been started since.         *)
AfterCut ==
  /\ at \in {"down", "running"}
  /\ at = "running" => plan.stage # "swapped"
  /\ Recoverable

DiskInv == (cut = "no" => Whole) /\ (cut = "cut" => AfterCut)

(* What failed is noted, on its way to the backend or there.               *)
FailureNoted ==
  cut = "no" /\ failed =>
    /\ plan.stage = "none" /\ offer = NoVersion
    /\ \/ report = Target
       \/ report = NoVersion /\ mark = Target /\ known = app[Exe]

IInv == TypesOK /\ DiskInv /\ FailureNoted

-----------------------------------------------------------------------------
(* What the types say. *)

LEMMA Basics ==
  ASSUME UpdateTypeOK
  PROVE  /\ app \in [Files -> MaybeVersion] /\ prev \in [Files -> MaybeVersion]
         /\ plan \in [stage : {"none", "staged", "swapped"}, version : MaybeVersion,
                      previous : MaybeVersion, starts : Nat]
         /\ healthy \subseteq Versions /\ NoVersion \notin Versions /\ Versions \subseteq Nat
         /\ Exe \in Files
         /\ report \in MaybeVersion /\ me \in MaybeVersion /\ offer \in MaybeVersion
         /\ known \in MaybeVersion /\ mark \in MaybeVersion /\ pin \in MaybeVersion
         /\ latest \in Versions
         /\ Target \in Versions
         /\ MaxStarts \in Nat /\ MaxTargets \in Nat /\ MaxCrashes \in Nat
         /\ crashes \in Nat /\ targets \in Nat
<1>1. NoVersion \notin Versions /\ Versions \subseteq Nat
  BY UpdateConstantsOK DEF Versions, NoVersion
<1>2. /\ MaxStarts \in Nat /\ MaxTargets \in Nat /\ MaxCrashes \in Nat
      /\ crashes \in Nat /\ targets \in Nat
  BY UpdateConstantsOK DEF UpdateTypeOK
<1>3. plan \in [stage : {"none", "staged", "swapped"}, version : MaybeVersion,
                previous : MaybeVersion, starts : Nat]
  BY <1>2 DEF UpdateTypeOK
<1> QED BY <1>1, <1>2, <1>3, UpdateConstantsOK DEF UpdateTypeOK, Target, MaybeVersion

LEMMA Builds ==
  ASSUME NEW v
  PROVE  /\ Build(v) = [f \in Files |-> v]
         /\ \A f \in Files : Build(v)[f] = v
         /\ Build(v)[Exe] = v
         /\ \A c \in [Files -> MaybeVersion] :
              (\A f \in Files : c[f] = v) => c = Build(v)
  BY UpdateConstantsOK DEF Build

(* A build that has stayed up is on the disk.                              *)
LEMMA WholeRecovers ==
  ASSUME UpdateTypeOK, Whole
  PROVE  Recoverable
<1>1. CASE at \in {"down", "startup", "running"} /\ plan.stage = "none"
  BY <1>1, Builds DEF Whole, Settled, Recoverable
<1>2. CASE ~(at \in {"down", "startup", "running"} /\ plan.stage = "none")
  <2>1. plan.stage # "none" /\ plan.previous \in healthy
    BY <1>2 DEF Whole, UpdateTypeOK, Places
  <2>2. \A f \in Files : app[f] = plan.previous \/ prev[f] = plan.previous
    <3>1. CASE at \in {"down", "startup", "running"}
      BY <2>1, <3>1, Basics, Builds DEF Whole, Settled
    <3>2. CASE at \in {"copying", "copied", "removing"}
      BY <3>2, Builds DEF Whole
    <3>3. CASE at \in {"aside", "restoring"}
      BY <3>3 DEF Whole
    <3> QED BY <3>1, <3>2, <3>3 DEF UpdateTypeOK, Places
  <2> QED BY <2>1, <2>2 DEF Recoverable
<1> QED BY <1>1, <1>2

-----------------------------------------------------------------------------
(* Types. *)


LEMMA LaunchTypes ==
  ASSUME TypesOK, Launch
  PROVE  TypesOK'
  BY Basics DEF TypesOK, UpdateTypeOK, StartsBounded, Alive, Launch, diskVars, backendVars,
                boundVars, Places, MaybeVersion

LEMMA StartTypes ==
  ASSUME TypesOK, StartIdle \/ StartStale \/ StartSwap \/ StartTrial \/ StartRollback
  PROVE  TypesOK'
<1>1. CASE StartIdle
  BY <1>1, Basics DEF TypesOK, UpdateTypeOK, StartsBounded, Alive, StartIdle, Run, TidyPrev,
       backendVars, boundVars, historyVars, Places, Empty, MaybeVersion
<1>2. CASE StartStale
  BY <1>2, Basics DEF TypesOK, UpdateTypeOK, StartsBounded, Alive, StartStale, Run, NoPlan,
       backendVars, boundVars, historyVars, Places, MaybeVersion
<1>3. CASE StartSwap
  BY <1>3, Basics DEF TypesOK, UpdateTypeOK, StartsBounded, Alive, StartSwap, Empty,
       backendVars, boundVars, historyVars, Places, MaybeVersion
<1>4. CASE StartTrial
  BY <1>4, Basics DEF TypesOK, UpdateTypeOK, StartsBounded, Alive, StartTrial, Run,
       backendVars, boundVars, historyVars, Places, MaybeVersion
<1>5. CASE StartRollback
  BY <1>5, Basics DEF TypesOK, UpdateTypeOK, StartsBounded, Alive, StartRollback,
       backendVars, boundVars, historyVars, Places, MaybeVersion
<1> QED BY <1>1, <1>2, <1>3, <1>4, <1>5

LEMMA FileTypes ==
  ASSUME TypesOK, NEW f \in Files, MoveAside(f) \/ CopyIn(f) \/ Remove(f) \/ Restore(f)
  PROVE  TypesOK'
<1>1. CASE MoveAside(f)
  BY <1>1, Basics DEF TypesOK, UpdateTypeOK, StartsBounded, Alive, MoveAside,
       backendVars, boundVars, historyVars, Places, MaybeVersion
<1>2. CASE CopyIn(f)
  BY <1>2, Basics DEF TypesOK, UpdateTypeOK, StartsBounded, Alive, CopyIn,
       backendVars, boundVars, historyVars, Places, MaybeVersion
<1>3. CASE Remove(f)
  BY <1>3, Basics DEF TypesOK, UpdateTypeOK, StartsBounded, Alive, Remove,
       backendVars, boundVars, historyVars, Places, MaybeVersion
<1>4. CASE Restore(f)
  BY <1>4, Basics DEF TypesOK, UpdateTypeOK, StartsBounded, Alive, Restore, processVars,
       backendVars, boundVars, historyVars, Places, MaybeVersion
<1> QED BY <1>1, <1>2, <1>3, <1>4

LEMMA SwapTypes ==
  ASSUME TypesOK, SwapDone \/ RollbackDone \/ RollbackFails \/ \E stuck \in SUBSET Files : SwapFails(stuck)
  PROVE  TypesOK'
<1>1. CASE SwapDone
  <2>1. /\ plan' \in [stage : {"none", "staged", "swapped"}, version : MaybeVersion,
                      previous : MaybeVersion, starts : 0..MaxStarts + 1 + crashes]
        /\ plan'.starts = 0
    <3>1. plan \in [stage : {"none", "staged", "swapped"}, version : MaybeVersion,
                    previous : MaybeVersion, starts : 0..MaxStarts + 1 + crashes]
      BY DEF TypesOK, UpdateTypeOK
    <3>2. 0 \in 0..MaxStarts + 1 + crashes
      BY Basics DEF TypesOK
    <3>3. plan' = [plan EXCEPT !.stage = "swapped", !.starts = 0]
      BY <1>1 DEF SwapDone
    <3> QED BY <3>1, <3>2, <3>3
  <2> QED BY <1>1, <2>1, Basics DEF TypesOK, UpdateTypeOK, StartsBounded, Alive, SwapDone, Exit,
       backendVars, boundVars, historyVars, Places, MaybeVersion
<1>2. CASE RollbackDone
  BY <1>2, Basics DEF TypesOK, UpdateTypeOK, StartsBounded, Alive, RollbackDone, Exit, NoPlan,
       Notice, backendVars, boundVars, Places, MaybeVersion
<1>3. CASE RollbackFails
  BY <1>3, Basics DEF TypesOK, UpdateTypeOK, StartsBounded, Alive, RollbackFails, Run, NoPlan,
       Notice, CutShort, backendVars, boundVars, Places, MaybeVersion
<1>4. ASSUME NEW stuck \in SUBSET Files, SwapFails(stuck)
      PROVE  TypesOK'
  <2>1. app' \in [Files -> MaybeVersion] /\ prev' \in [Files -> MaybeVersion]
    BY <1>4, Basics DEF TypesOK, SwapFails, MaybeVersion
  <2> QED BY <1>4, <2>1, Basics DEF TypesOK, UpdateTypeOK, StartsBounded, Alive, SwapFails, Run,
       NoPlan, Notice, CutShort, backendVars, boundVars, Places, MaybeVersion
<1> QED BY <1>1, <1>2, <1>3, <1>4

LEMMA RunTypes ==
  ASSUME TypesOK,
         \/ MarkHealthy \/ StageSkipped \/ StageRejected \/ StageLater \/ Stage
         \/ \E heard \in BOOLEAN : Checkin(heard)
  PROVE  TypesOK'
<1>1. CASE MarkHealthy
  BY <1>1, Basics DEF TypesOK, UpdateTypeOK, StartsBounded, Alive, MarkHealthy, NoPlan, TidyPrev,
       Empty, backendVars, boundVars, Places, MaybeVersion
<1>2. CASE StageSkipped \/ StageLater
  BY <1>2, Basics DEF TypesOK, UpdateTypeOK, StartsBounded, Alive, StageSkipped, StageLater,
       diskVars, backendVars, boundVars, historyVars, Places, MaybeVersion
<1>3. CASE StageRejected
  BY <1>3, Basics, UpdateConstantsOK DEF TypesOK, UpdateTypeOK, StartsBounded, Alive, StageRejected,
       Notice, backendVars, boundVars, Places, MaybeVersion
<1>4. CASE Stage
  BY <1>4, Basics DEF TypesOK, UpdateTypeOK, StartsBounded, Alive, Stage, Staged, Exit,
       backendVars, boundVars, historyVars, Places, MaybeVersion
<1>5. ASSUME NEW heard \in BOOLEAN, Checkin(heard)
      PROVE  TypesOK'
  <2>1. /\ mark' \in MaybeVersion /\ offer' \in MaybeVersion /\ known' = me
        /\ report' \in {report, NoVersion} /\ at = "running"
        /\ UNCHANGED <<app, prev, plan, me, at, ignored, proved, pin, latest, targets, crashes,
                       healthy, failed, cut>>
    BY <1>5, Basics DEF TypesOK, Checkin, OfferTo, MaybeVersion, boundVars, historyVars
  <2> QED BY <2>1, Basics DEF TypesOK, UpdateTypeOK, StartsBounded, Alive, MaybeVersion
<1> QED BY <1>1, <1>2, <1>3, <1>4, <1>5

LEMMA OtherTypes ==
  ASSUME TypesOK, Die \/ SwitchOff \/ Crash \/ Operating \/ UNCHANGED updateVars
  PROVE  TypesOK'
<1>1. CASE Die \/ SwitchOff
  BY <1>1, Basics DEF TypesOK, UpdateTypeOK, StartsBounded, Alive, Die, SwitchOff, Exit,
       diskVars, backendVars, boundVars, historyVars, Places, MaybeVersion
<1>2. CASE Crash
  <2>1. plan' \in {plan, NoPlan} /\ crashes' = crashes + 1 /\ crashes' \in 0..MaxCrashes
    BY <1>2, Basics DEF TypesOK, Crash
  <2>2. /\ plan' \in [stage : {"none", "staged", "swapped"}, version : MaybeVersion,
                      previous : MaybeVersion, starts : 0..MaxStarts + 1 + crashes]
        /\ plan'.starts <= MaxStarts + 1 + crashes
    BY <2>1, Basics DEF TypesOK, UpdateTypeOK, NoPlan, MaybeVersion
  <2>3. /\ plan' \in [stage : {"none", "staged", "swapped"}, version : MaybeVersion,
                      previous : MaybeVersion, starts : 0..MaxStarts + 1 + crashes']
        /\ plan'.starts <= MaxStarts + crashes'
    BY <2>1, <2>2, Basics DEF TypesOK
  <2> QED BY <1>2, <2>1, <2>3, Basics DEF TypesOK, UpdateTypeOK, StartsBounded, Alive, Crash, Exit,
       CutShort, backendVars, Places, MaybeVersion
<1>3. ASSUME NEW v \in Versions \cup {NoVersion}, SetTarget(v)
      PROVE  TypesOK'
  <2>1. /\ targets' \in 0..MaxTargets /\ pin' \in MaybeVersion /\ mark' = NoVersion
        /\ failed' = FALSE
        /\ UNCHANGED <<app, prev, plan, report, me, at, offer, ignored, proved, known, latest,
                       crashes, healthy, cut>>
    BY <1>3, Basics DEF TypesOK, UpdateTypeOK, SetTarget, diskVars, processVars, MaybeVersion
  <2> QED BY <2>1 DEF TypesOK, UpdateTypeOK, StartsBounded, Alive, MaybeVersion
<1>4. ASSUME NEW v \in Versions, Promote(v)
      PROVE  TypesOK'
  BY <1>4, Basics DEF TypesOK, UpdateTypeOK, StartsBounded, Alive, Promote, diskVars,
       processVars, Places, MaybeVersion
<1>5. CASE UNCHANGED updateVars
  BY <1>5 DEF TypesOK, UpdateTypeOK, StartsBounded, Alive, updateVars, diskVars,
       processVars, backendVars, boundVars, historyVars
<1> QED BY <1>1, <1>2, <1>3, <1>4, <1>5 DEF Operating

-----------------------------------------------------------------------------
(* Where the files are.                                                    *)

(* Steps that touch no file, nor the plan, nor the process.                *)
LEMMA DiskQuiet ==
  ASSUME DiskInv, UNCHANGED <<app, prev, plan, me, at, cut>>, healthy \subseteq healthy'
  PROVE  DiskInv'
<1>1. Recoverable => Recoverable'
  BY DEF Recoverable
<1>2. Whole => Whole'
  BY DEF Whole, Settled
<1> QED BY <1>1, <1>2 DEF DiskInv, AfterCut

(* Steps of a process that is starting.                                    *)
LEMMA DiskStarting ==
  ASSUME DiskInv, at \notin {"down", "running"}, cut' = cut, cut = "no" => Whole'
  PROVE  DiskInv'
  BY DEF DiskInv, AfterCut

(* Steps that cut a swap short.                                            *)
LEMMA DiskCut ==
  ASSUME DiskInv, cut \in {"no", "cut", "resumed"}, at \notin {"down", "running"},
         cut' = CutShort,
         at' \in {"down", "running"}, at' = "running" => plan'.stage # "swapped",
         cut = "no" => Recoverable'
  PROVE  DiskInv'
  BY DEF DiskInv, AfterCut, CutShort

LEMMA LaunchDisk ==
  ASSUME TypesOK, DiskInv, Launch
  PROVE  DiskInv'
<1>1. /\ at = "down" /\ at' = "startup" /\ me' = app[Exe]
      /\ cut' = IF cut = "cut" THEN "resumed" ELSE cut
      /\ UNCHANGED <<app, prev, plan, healthy>>
  BY DEF Launch, diskVars
<1>2. ASSUME Whole PROVE Whole'
  BY <1>1, <1>2 DEF Whole, Settled
<1> QED BY <1>1, <1>2 DEF DiskInv, TypesOK, UpdateTypeOK

LEMMA StartDisk ==
  ASSUME TypesOK, DiskInv,
         StartIdle \/ StartStale \/ StartSwap \/ StartTrial \/ StartRollback
  PROVE  DiskInv'
<1>1. at = "startup" /\ cut' = cut /\ UNCHANGED <<app, me, healthy>>
  BY DEF StartIdle, StartStale, StartSwap, StartTrial, StartRollback, Run, historyVars
<1>2. ASSUME Whole PROVE Whole'
  <2>1. Settled /\ me = app[Exe]
    BY <1>1, <1>2 DEF Whole, Settled
  <2>2. CASE StartIdle
    BY <1>1, <1>2, <2>1, <2>2 DEF StartIdle, Run, Whole, Settled
  <2>3. ~Stale
    BY <2>1, Builds DEF Stale, Settled
  <2>4. CASE StartStale
    BY <2>3, <2>4 DEF StartStale
  <2>5. CASE StartSwap
    <3>1. /\ prev' = Empty /\ at' = "aside" /\ plan' = plan /\ plan.stage = "staged"
      BY <2>5 DEF StartSwap
    <3>2. app = Build(plan.previous) /\ me = plan.previous
      BY <2>1, <3>1, Builds DEF Settled
    <3>3. \A f \in Files : app[f] = plan.previous /\ prev'[f] = NoVersion
      BY <3>1, <3>2, Builds DEF Empty
    <3> QED BY <1>1, <1>2, <3>1, <3>2, <3>3 DEF Whole
  <2>6. CASE StartTrial \/ StartRollback
    <3>1. /\ plan' = [plan EXCEPT !.starts = @ + 1] /\ prev' = prev
          /\ plan.stage = "swapped" /\ at' \in {"running", "removing"}
      BY <2>6 DEF StartTrial, StartRollback, OnTrial, Run
    <3>2. /\ plan'.stage = "swapped" /\ plan'.version = plan.version
          /\ plan'.previous = plan.previous
      BY <3>1, Basics DEF TypesOK
    <3> QED BY <1>1, <1>2, <2>1, <3>1, <3>2 DEF Whole, Settled
  <2> QED BY <2>2, <2>4, <2>5, <2>6
<1> QED BY <1>1, <1>2, DiskStarting DEF DiskInv

LEMMA AsideDisk ==
  ASSUME TypesOK, DiskInv, NEW f \in Files, MoveAside(f)
  PROVE  DiskInv'
<1>1. /\ at = "aside" /\ app[f] # NoVersion
      /\ prev' = [prev EXCEPT ![f] = app[f]] /\ app' = [app EXCEPT ![f] = NoVersion]
      /\ at' = IF app' = Empty THEN "copying" ELSE at
      /\ UNCHANGED <<plan, me, healthy, cut>>
  BY DEF MoveAside, historyVars
<1>2. ASSUME Whole PROVE Whole'
  <2>1. \A g \in Files : \/ app'[g] = plan.previous /\ prev'[g] = NoVersion
                         \/ app'[g] = NoVersion /\ prev'[g] = plan.previous
    BY <1>1, <1>2, Basics DEF TypesOK, Whole
  <2>2. ASSUME app' = Empty PROVE prev' = Build(plan.previous)
    <3>1. \A g \in Files : app'[g] = NoVersion
      BY <2>2 DEF Empty
    <3>2. plan.previous # NoVersion
      BY <1>1, <1>2, Basics DEF TypesOK, Whole
    <3>3. \A g \in Files : prev'[g] = plan.previous
      BY <2>1, <3>1, <3>2
    <3>4. prev' \in [Files -> MaybeVersion]
      BY <1>1, Basics DEF TypesOK
    <3> QED BY <3>3, <3>4, Builds
  <2> QED BY <1>1, <1>2, <2>1, <2>2 DEF Whole
<1> QED BY <1>1, <1>2, DiskStarting DEF DiskInv

LEMMA CopyDisk ==
  ASSUME TypesOK, DiskInv, NEW f \in Files, CopyIn(f)
  PROVE  DiskInv'
<1>1. /\ at = "copying"
      /\ at' = IF app' = Build(plan.version) THEN "copied" ELSE at
      /\ UNCHANGED <<prev, plan, me, healthy, cut>>
  BY DEF CopyIn, historyVars
<1>2. ASSUME Whole PROVE Whole'
  BY <1>1, <1>2 DEF Whole
<1> QED BY <1>1, <1>2, DiskStarting DEF DiskInv

LEMMA RollDisk ==
  ASSUME TypesOK, DiskInv, NEW f \in Files, Remove(f) \/ Restore(f)
  PROVE  DiskInv'
<1>1. /\ at \in {"removing", "restoring"} /\ UNCHANGED <<plan, me, healthy, cut>>
  BY DEF Remove, Restore, historyVars, processVars
<1>2. ASSUME Whole, Remove(f) PROVE Whole'
  <2>1. /\ at = "removing" /\ prev' = prev /\ at' \in {"removing", "restoring"}
        /\ prev = Build(plan.previous)
    BY <1>2 DEF Remove, Whole
  <2>2. \A g \in Files : prev'[g] = plan.previous
    BY <2>1, Builds
  <2> QED BY <1>1, <1>2, <2>1, <2>2 DEF Whole
<1>3. ASSUME Whole, Restore(f) PROVE Whole'
  <2>1. /\ at = "restoring" /\ at' = at /\ prev[f] # NoVersion
        /\ app' = [app EXCEPT ![f] = prev[f]] /\ prev' = [prev EXCEPT ![f] = NoVersion]
    BY <1>3 DEF Restore, processVars
  <2>2. \A g \in Files : \/ prev'[g] = plan.previous
                         \/ prev'[g] = NoVersion /\ app'[g] = plan.previous
    BY <1>3, <2>1, Basics DEF TypesOK, Whole
  <2> QED BY <1>1, <1>3, <2>1, <2>2 DEF Whole
<1> QED BY <1>1, <1>2, <1>3, DiskStarting DEF DiskInv

LEMMA SwapDoneDisk ==
  ASSUME TypesOK, DiskInv, SwapDone
  PROVE  DiskInv'
<1>1. /\ at = "copied" /\ at' = "down" /\ plan' = [plan EXCEPT !.stage = "swapped", !.starts = 0]
      /\ UNCHANGED <<app, prev, healthy, cut>>
  BY DEF SwapDone, Exit, historyVars
<1>2. /\ plan'.stage = "swapped" /\ plan'.version = plan.version
      /\ plan'.previous = plan.previous
  BY <1>1, Basics DEF TypesOK
<1>3. ASSUME Whole PROVE Whole'
  BY <1>1, <1>2, <1>3 DEF Whole, Settled
<1> QED BY <1>1, <1>3, DiskStarting DEF DiskInv

LEMMA SwapFailsDisk ==
  ASSUME TypesOK, DiskInv, NEW stuck \in SUBSET Files, SwapFails(stuck)
  PROVE  DiskInv'
<1> DEFINE back == {f \in Files : prev[f] # NoVersion}
<1>1. /\ at \in {"aside", "copying"} /\ at' = "running" /\ plan' = NoPlan /\ stuck \subseteq back
      /\ app' = [f \in Files |-> IF f \in stuck THEN NoVersion
                                 ELSE IF f \in back THEN prev[f] ELSE app[f]]
      /\ prev' = [f \in Files |-> IF f \in stuck THEN prev[f] ELSE NoVersion]
      /\ cut' = IF stuck = {} THEN cut ELSE CutShort
      /\ UNCHANGED <<me, healthy>>
  BY DEF SwapFails, Run
<1>2. plan'.stage = "none"
  BY <1>1 DEF NoPlan
<1>3. ASSUME Whole
      PROVE  /\ plan.previous \in healthy /\ me = plan.previous
             /\ \A f \in Files : /\ f \in stuck => prev'[f] = plan.previous
                                 /\ f \notin stuck => app'[f] = plan.previous
  <2>1. plan.previous \in healthy /\ plan.previous # NoVersion /\ me = plan.previous
    BY <1>1, <1>3, Basics DEF TypesOK, Whole
  <2>2. \A f \in Files : \/ app[f] = plan.previous /\ prev[f] = NoVersion
                         \/ prev[f] = plan.previous
    BY <1>1, <1>3, Builds DEF Whole
  <2> QED BY <1>1, <2>1, <2>2
<1>4. CASE stuck = {}
  <2>1. ASSUME Whole PROVE Whole'
    <3>1. app' \in [Files -> MaybeVersion]
      BY <1>1, Basics DEF TypesOK, MaybeVersion
    <3>2. app' = Build(plan.previous)
      BY <1>3, <1>4, <2>1, <3>1, Builds
    <3> QED BY <1>1, <1>2, <1>3, <2>1, <3>2, Builds DEF Whole, Settled
  <2> QED BY <1>1, <1>4, <2>1, DiskStarting DEF DiskInv
<1>5. CASE stuck # {}
  <2>1. Whole => Recoverable'
    BY <1>1, <1>3 DEF Recoverable
  <2> QED BY <1>1, <1>2, <1>5, <2>1, DiskCut DEF DiskInv, TypesOK, UpdateTypeOK
<1> QED BY <1>4, <1>5

LEMMA RollbackDisk ==
  ASSUME TypesOK, DiskInv, RollbackDone \/ RollbackFails
  PROVE  DiskInv'
<1>1. /\ at \in {"removing", "restoring"} /\ plan' = NoPlan /\ plan'.stage = "none"
      /\ UNCHANGED <<app, prev, healthy>>
  BY DEF RollbackDone, RollbackFails, NoPlan
<1>2. CASE RollbackDone
  <2>1. at = "restoring" /\ prev = Empty /\ at' = "down" /\ cut' = cut
    BY <1>2 DEF RollbackDone, Exit
  <2>2. ASSUME Whole PROVE Whole'
    <3>1. plan.previous \in healthy /\ plan.previous # NoVersion
      BY <1>1, <2>2, Basics DEF TypesOK, Whole
    <3>2. \A f \in Files : app[f] = plan.previous
      BY <2>1, <2>2, <3>1 DEF Whole, Empty
    <3>3. app = Build(plan.previous)
      BY <3>2, Basics, Builds DEF TypesOK
    <3> QED BY <1>1, <2>1, <3>1, <3>3 DEF Whole, Settled
  <2> QED BY <1>1, <2>1, <2>2, DiskStarting DEF DiskInv
<1>3. CASE RollbackFails
  <2>1. at' = "running" /\ cut' = CutShort
    BY <1>3 DEF RollbackFails, Run
  <2>2. Whole => Recoverable'
    BY <1>1, WholeRecovers DEF TypesOK, Recoverable
  <2> QED BY <1>1, <2>1, <2>2, DiskCut DEF DiskInv, TypesOK, UpdateTypeOK
<1> QED BY <1>2, <1>3

LEMMA HealthyDisk ==
  ASSUME TypesOK, DiskInv, MarkHealthy
  PROVE  DiskInv'
<1>1. /\ at = "running" /\ at' = at /\ healthy' = healthy \cup {me}
      /\ UNCHANGED <<app, me, cut>>
  BY DEF MarkHealthy
<1>2. CASE ~OnTrial
  BY <1>1, <1>2, DiskQuiet DEF MarkHealthy
<1>3. CASE OnTrial
  <2>1. plan' = NoPlan /\ plan'.stage = "none" /\ plan.stage = "swapped" /\ plan.version = me
    BY <1>3 DEF MarkHealthy, OnTrial, NoPlan
  <2>2. ASSUME Whole PROVE Whole'
    BY <1>1, <2>1, <2>2 DEF Whole, Settled
  <2>3. cut # "cut"
    BY <1>1, <2>1 DEF DiskInv, AfterCut
  <2> QED BY <1>1, <2>2, <2>3 DEF DiskInv
<1> QED BY <1>2, <1>3

(* The process ends when no file is being moved.                           *)
LEMMA ExitDisk ==
  ASSUME DiskInv, at \in {"startup", "running"}, at' = "down",
         UNCHANGED <<app, prev, plan, healthy, cut>>
  PROVE  DiskInv'
<1>1. Whole => Whole'
  BY DEF Whole, Settled
<1> QED BY <1>1 DEF DiskInv, AfterCut, Recoverable

LEMMA StageDisk ==
  ASSUME TypesOK, DiskInv, Stage
  PROVE  DiskInv'
<1>1. /\ at = "running" /\ at' = "down" /\ plan.stage = "none" /\ offer \in Versions
      /\ plan' = Staged(offer, me)
      /\ UNCHANGED <<app, prev, healthy, cut>>
  BY Basics DEF Stage, Exit, historyVars, TypesOK, Alive, NoPlan, MaybeVersion
<1>2. plan'.stage = "staged" /\ plan'.version = offer /\ plan'.previous = me
  BY <1>1 DEF Staged
<1>3. ASSUME Whole PROVE Whole'
  <2>1. PICK v \in healthy : app = Build(v) /\ me = app[Exe]
    BY <1>1, <1>3 DEF Whole, Settled
  <2>2. me \in healthy /\ app = Build(me)
    BY <2>1, Builds
  <2> QED BY <1>1, <1>2, <2>2 DEF Whole, Settled
<1> QED BY <1>1, <1>3 DEF DiskInv, AfterCut, Recoverable

LEMMA CrashDisk ==
  ASSUME TypesOK, DiskInv, Crash
  PROVE  DiskInv'
<1>1. /\ at # "down" /\ at' = "down"
      /\ plan' # plan => at \in {"copied", "startup"}
      /\ cut' = IF Moving \/ plan' # plan THEN CutShort ELSE cut
      /\ UNCHANGED <<app, prev, healthy>>
  BY DEF Crash, Exit
<1>2. CASE Moving \/ plan' # plan
  <2>1. Whole => Recoverable'
    BY <1>1, WholeRecovers DEF TypesOK, Recoverable
  <2>2. at \notin {"down", "running"}
    BY <1>1, <1>2 DEF Moving
  <2> QED BY <1>1, <1>2, <2>1, <2>2, DiskCut DEF DiskInv, TypesOK, UpdateTypeOK
<1>3. CASE ~(Moving \/ plan' # plan)
  BY <1>1, <1>3, ExitDisk DEF TypesOK, UpdateTypeOK, Places, Moving
<1> QED BY <1>2, <1>3

LEMMA DiskStep ==
  ASSUME TypesOK, DiskInv, [UpdateNext]_updateVars
  PROVE  DiskInv'
<1>1. CASE Launch
  BY <1>1, LaunchDisk
<1>2. CASE Starting
  BY <1>2, StartDisk, AsideDisk, CopyDisk, RollDisk, SwapDoneDisk, RollbackDisk
     DEF Starting, Swapping, RollingBack
<1>3. CASE Failing
  BY <1>3, SwapFailsDisk, RollbackDisk DEF Failing
<1>4. CASE MarkHealthy
  BY <1>4, HealthyDisk
<1>5. CASE \/ \E heard \in BOOLEAN : Checkin(heard)
           \/ StageSkipped \/ StageRejected \/ StageLater
           \/ Operating
           \/ UNCHANGED updateVars
  BY <1>5, DiskQuiet
     DEF Checkin, StageSkipped, StageRejected, StageLater, Operating, SetTarget, Promote,
         updateVars, diskVars, processVars, historyVars
<1>6. CASE Stage
  BY <1>6, StageDisk
<1>7. CASE Die \/ SwitchOff
  BY <1>7, ExitDisk DEF Die, SwitchOff, Exit, diskVars, historyVars
<1>8. CASE Crash
  BY <1>8, CrashDisk
<1> QED BY <1>1, <1>2, <1>3, <1>4, <1>5, <1>6, <1>7, <1>8 DEF UpdateNext, Staging

-----------------------------------------------------------------------------
(* What the backend knows.                                                 *)

(* Steps that report nothing and name no target.                           *)
LEMMA FailureQuiet ==
  ASSUME FailureNoted, UNCHANGED <<failed, report, mark, known, pin, latest>>,
         cut' = "no" => cut = "no",
         (cut = "no" /\ failed /\ plan.stage = "none" /\ offer = NoVersion) =>
           plan'.stage = "none" /\ offer' = NoVersion /\ app'[Exe] = app[Exe]
  PROVE  FailureNoted'
  BY DEF FailureNoted, Target

(* A version is found to have failed.                                      *)
LEMMA FailureFound ==
  ASSUME UNCHANGED <<pin, latest>>, NEW v, report' = v, failed' = (failed \/ v = Target),
         cut' = "no" => ~failed, plan'.stage = "none", offer' = NoVersion
  PROVE  FailureNoted'
  BY DEF FailureNoted, Target

LEMMA FailureStep ==
  ASSUME IInv, [UpdateNext]_updateVars
  PROVE  FailureNoted'
<1>1. CASE Launch \/ StartIdle \/ StartStale \/ StartSwap \/ StartTrial \/ StartRollback
  BY <1>1, FailureQuiet
     DEF IInv, Launch, StartIdle, StartStale, StartSwap, StartTrial, StartRollback, OnTrial, NoPlan,
         Run, TypesOK, Alive, diskVars, backendVars, historyVars
<1>2. ASSUME cut = "no", at \notin {"down", "startup", "running"}
      PROVE  plan.stage # "none" /\ ~failed
  BY <1>2 DEF IInv, TypesOK, UpdateTypeOK, Places, DiskInv, Whole, FailureNoted
<1>3. ASSUME NEW f \in Files, MoveAside(f) \/ CopyIn(f) \/ Remove(f) \/ Restore(f)
      PROVE  FailureNoted'
  <2>1. /\ at \notin {"down", "startup", "running"}
        /\ UNCHANGED <<failed, report, mark, known, pin, latest, cut>>
    BY <1>3 DEF MoveAside, CopyIn, Remove, Restore, backendVars, historyVars
  <2> QED BY <1>2, <2>1, FailureQuiet DEF IInv
<1>4. CASE SwapDone
  <2>1. /\ at = "copied" /\ UNCHANGED <<failed, report, mark, known, pin, latest, cut>>
    BY <1>4 DEF SwapDone, backendVars, historyVars
  <2> QED BY <1>2, <2>1, FailureQuiet DEF IInv
<1>5. CASE RollbackDone \/ Failing
  <2>1. /\ at \notin {"down", "startup", "running"} /\ offer' = NoVersion
        /\ report' = plan.version /\ failed' = (failed \/ plan.version = Target)
        /\ plan'.stage = "none" /\ UNCHANGED <<pin, latest>>
        /\ cut' \in {cut, CutShort}
    BY <1>5 DEF RollbackDone, Failing, SwapFails, RollbackFails, Exit, Run, Notice, NoPlan,
                IInv, TypesOK, Alive, backendVars
  <2>2. cut' = "no" => cut = "no"
    BY <2>1 DEF CutShort
  <2> QED BY <1>2, <2>1, <2>2, FailureFound
<1>6. CASE MarkHealthy \/ StageSkipped \/ StageLater \/ Stage \/ Die \/ SwitchOff \/ Crash
  BY <1>6, FailureQuiet
     DEF IInv, MarkHealthy, StageSkipped, StageLater, Stage, Die, SwitchOff, Crash, Exit, NoPlan,
         CutShort, diskVars, backendVars, historyVars
<1>7. CASE StageRejected
  <2>1. /\ offer' = NoVersion /\ plan' = plan /\ plan.stage = "none" /\ offer # NoVersion
        /\ report' = offer /\ failed' = (failed \/ offer = Target)
        /\ UNCHANGED <<pin, latest, cut>>
    BY <1>7, UpdateConstantsOK, Basics
       DEF StageRejected, Notice, NoPlan, IInv, TypesOK, backendVars
  <2>2. cut = "no" => ~failed
    BY <2>1 DEF IInv, FailureNoted
  <2> QED BY <2>1, <2>2, FailureFound
<1>8. ASSUME NEW heard \in BOOLEAN, Checkin(heard)
      PROVE  FailureNoted'
  <2> SUFFICES ASSUME cut = "no", failed
               PROVE  /\ plan.stage = "none" /\ offer' = NoVersion
                      /\ \/ report' = Target
                         \/ report' = NoVersion /\ mark' = Target /\ known' = app[Exe]
    BY <1>8 DEF FailureNoted, Checkin, historyVars, Target
  <2> DEFINE m == IF report # NoVersion THEN report
                  ELSE IF known # me THEN NoVersion ELSE mark
  <2>1. /\ plan.stage = "none"
        /\ \/ report = Target
           \/ report = NoVersion /\ mark = Target /\ known = app[Exe]
    BY DEF IInv, FailureNoted
  <2>2. me = app[Exe]
    BY <1>8 DEF Checkin, IInv, DiskInv, Whole, Settled
  <2>3. m = Target /\ Target # NoVersion
    BY <2>1, <2>2, Basics DEF IInv, TypesOK
  <2>4. /\ mark' = m /\ known' = me
        /\ offer' = IF heard /\ OfferTo(me, m) \notin ignored THEN OfferTo(me, m) ELSE NoVersion
        /\ report' = IF heard THEN NoVersion ELSE report
    BY <1>8 DEF Checkin
  <2> HIDE DEF m
  <2>5. OfferTo(me, m) = NoVersion
    BY <2>3 DEF OfferTo
  <2> QED BY <2>1, <2>2, <2>3, <2>4, <2>5
<1>9. CASE Operating
  <2>1. ASSUME NEW v \in Versions \cup {NoVersion}, SetTarget(v)
        PROVE  FailureNoted'
    BY <2>1 DEF SetTarget, FailureNoted
  <2>2. ASSUME NEW v \in Versions, Promote(v)
        PROVE  FailureNoted'
    BY <2>2 DEF Promote, IInv, FailureNoted, Target, diskVars, processVars
  <2> QED BY <1>9, <2>1, <2>2 DEF Operating
<1>10. CASE UNCHANGED updateVars
  BY <1>10, FailureQuiet
     DEF IInv, updateVars, diskVars, processVars, backendVars, boundVars, historyVars
<1> QED BY <1>1, <1>3, <1>4, <1>5, <1>6, <1>7, <1>8, <1>9, <1>10
      DEF UpdateNext, Starting, Swapping, RollingBack, Staging

-----------------------------------------------------------------------------
(* The invariant, and what it says.                                        *)

LEMMA UpdateStart == UpdateInit => IInv
<1> SUFFICES ASSUME UpdateInit PROVE IInv
  OBVIOUS
<1>1. 1 \in Versions /\ NoVersion \in MaybeVersion /\ 1 \in MaybeVersion
  BY UpdateConstantsOK DEF Versions, MaybeVersion
<1>2. /\ MaxStarts \in Nat /\ MaxTargets \in Nat /\ MaxCrashes \in Nat
  BY UpdateConstantsOK
<1>3. TypesOK
  <2>1. /\ app \in [Files -> MaybeVersion] /\ prev \in [Files -> MaybeVersion]
        /\ plan \in [stage : {"none", "staged", "swapped"}, version : MaybeVersion,
                     previous : MaybeVersion, starts : 0..MaxStarts + 1 + crashes]
        /\ plan.starts <= MaxStarts + crashes
    BY <1>1, <1>2 DEF UpdateInit, Build, Empty, NoPlan
  <2>2. {report, me, offer, known, mark, pin} \subseteq MaybeVersion
    BY <1>1 DEF UpdateInit
  <2>3. /\ at \in Places /\ ignored \subseteq Versions /\ proved \in BOOLEAN
        /\ latest \in Versions /\ healthy \subseteq Versions /\ failed \in BOOLEAN
        /\ cut \in {"no", "cut", "resumed"}
    BY <1>1 DEF UpdateInit, Places
  <2>4. targets \in 0..MaxTargets /\ crashes \in 0..MaxCrashes
    BY <1>2 DEF UpdateInit
  <2>5. StartsBounded /\ Alive
    BY <2>1 DEF UpdateInit, StartsBounded, Alive
  <2> QED BY <2>1, <2>2, <2>3, <2>4, <2>5 DEF TypesOK, UpdateTypeOK
<1>4. DiskInv
  BY DEF UpdateInit, DiskInv, Whole, Settled, NoPlan
<1> QED BY <1>3, <1>4 DEF UpdateInit, IInv, FailureNoted

LEMMA UpdateStep ==
  ASSUME IInv, [UpdateNext]_updateVars
  PROVE  IInv'
<1>1. TypesOK'
  BY LaunchTypes, StartTypes, FileTypes, SwapTypes, RunTypes, OtherTypes
     DEF IInv, UpdateNext, Starting, Swapping, RollingBack, Failing, Staging
<1> QED BY <1>1, DiskStep, FailureStep DEF IInv

(* The files of a swap, its plan and what is said of a failed target go    *)
(* together through every crash: IInv is inductive.                        *)
THEOREM UpdateInvariant == UpdateSpec => []IInv
<1>1. IInv /\ [UpdateNext]_updateVars => IInv'
  BY UpdateStep
<1> QED BY <1>1, UpdateStart, PTL DEF UpdateSpec

(* Every variable keeps its type; the starts of a build on trial are       *)
(* counted and limited.                                                    *)
THEOREM UpdateTypes == UpdateSpec => []UpdateTypeOK
<1>1. IInv => UpdateTypeOK
  BY DEF IInv, TypesOK
<1> QED BY <1>1, UpdateInvariant, PTL

(* Until the start after a swap that was cut short, a build that has       *)
(* stayed up here is on the disk, whole.                                   *)
THEOREM OldBuildRecoverable == UpdateSpec => []RecoverableOnDisk
<1>1. IInv => RecoverableOnDisk
  <2>1. IInv /\ cut = "no" => Recoverable
    BY WholeRecovers DEF IInv, TypesOK, DiskInv
  <2>2. IInv => cut \in {"no", "cut", "resumed"}
    BY DEF IInv, TypesOK, UpdateTypeOK
  <2> QED BY <2>1, <2>2 DEF IInv, DiskInv, AfterCut, Recoverable, RecoverableOnDisk
<1> QED BY <1>1, UpdateInvariant, PTL

(* An unproven build runs on trial, and whole, beside the whole of the     *)
(* proven build that it replaced.                                          *)
THEOREM UnprovenIsWatched == UpdateSpec => []WatchedUntilProven
<1>1. IInv => WatchedUntilProven
  <2> SUFFICES ASSUME IInv, cut = "no", at = "running", me \notin healthy
               PROVE  /\ OnTrial /\ app = Build(me) /\ prev = Build(plan.previous)
                      /\ plan.previous \in healthy
    BY DEF WatchedUntilProven
  <2>1. Whole /\ Settled /\ me = app[Exe]
    BY DEF IInv, DiskInv, Whole, Settled
  <2>2. plan.stage = "swapped"
    BY <2>1, Basics, Builds DEF IInv, TypesOK, Whole, Settled
  <2> QED BY <2>1, <2>2, Builds DEF Whole, Settled, OnTrial
<1> QED BY <1>1, UpdateInvariant, PTL

StagesNoFailed ==     \* NoRetryOfFailed, of one step
  (cut = "no" /\ failed /\ plan'.stage = "staged" /\ plan.stage = "none") => plan'.version # Target

(* The target that was reported as failed is not staged again.             *)
THEOREM FailedIsNotRetried == UpdateSpec => NoRetryOfFailed
<1>1. IInv /\ [UpdateNext]_updateVars => [StagesNoFailed]_updateVars
  <2> SUFFICES ASSUME IInv, UpdateNext, cut = "no", failed, plan.stage = "none",
                      plan'.stage = "staged"
               PROVE  FALSE
    BY DEF StagesNoFailed
  <2>1. offer = NoVersion
    BY DEF IInv, FailureNoted
  <2>2. plan' # plan /\ plan' # NoPlan
    BY DEF NoPlan
  <2>3. at \in {"down", "startup", "running"}
    BY DEF IInv, TypesOK, UpdateTypeOK, Places, DiskInv, Whole
  <2> QED BY <2>1, <2>2, <2>3
        DEF UpdateNext, Launch, Starting, StartIdle, StartStale, StartTrial, Swapping, StartSwap,
            MoveAside, CopyIn, SwapDone, RollingBack, StartRollback, Remove, Restore, RollbackDone,
            Failing, SwapFails, RollbackFails, MarkHealthy, OnTrial, Checkin, Staging, StageSkipped,
            StageRejected, StageLater, Stage, Die, SwitchOff, Crash, Operating, SetTarget, Promote,
            diskVars
<1>2. UpdateSpec => [][StagesNoFailed]_updateVars
  <2> HIDE DEF StagesNoFailed
  <2> QED BY <1>1, UpdateInvariant, PTL DEF UpdateSpec
<1> QED BY <1>2 DEF StagesNoFailed, NoRetryOfFailed
=============================================================================

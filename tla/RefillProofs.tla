---------------------------- MODULE RefillProofs ----------------------------
(***************************************************************************)
(* Proofs about Refill, for any span, any size of the windows and any      *)
(* limit of slow answers.  The count of slow answers and the markers need  *)
(* nothing of the windows; that every day is read (EveryDayRead) needs the *)
(* facts about cutting and resizing windows in the second half.            *)
(***************************************************************************)
EXTENDS Refill, DataLemmas, SequenceTheorems

SlowIn(c) == {k \in DOMAIN c : c[k].state = "slow"}

States == {"queued", "sent", "ok", "failed", "slow"}

(* A job has these fields, and the numbers in it are numbers.              *)
IsJob(job) ==
  \E S, L, M, W : job \in [step : S, left : L, mode : M, timeouts : Nat, window : W,
                           state : States, seen : Nat]

IsChain(c) ==
  /\ \E S : c \in Seq(S)
  /\ \A k \in DOMAIN c : IsJob(c[k])

Numbers ==
  /\ marker \in [Marked -> Nat]
  /\ applied \in [Marked -> Nat]
  /\ change \in [Marked -> Nat]

(* Every slow answer is counted, and a read whose count is full goes on no *)
(* further.                                                                *)
SlowCounted ==
  /\ IsFiniteSet(SlowIn(chain))
  /\ Cardinality(SlowIn(chain)) <= MaxTimeouts
  /\ ReadInFlight =>
       Cardinality(SlowIn(chain)) = Last1.timeouts /\ Last1.timeouts < MaxTimeouts

IInv == IsChain(chain) /\ Numbers /\ SlowCounted /\ MarkerSound

-----------------------------------------------------------------------------
(* The last job, and what becomes of it.                                   *)

LEMMA LastJob ==
  ASSUME IsChain(chain), ReadInFlight
  PROVE  /\ Len(chain) \in Nat \ {0} /\ DOMAIN chain = 1..Len(chain) /\ Len(chain) \in DOMAIN chain
         /\ IsJob(Last1)
<1>1. PICK S : chain \in Seq(S)
  BY DEF IsChain
<1>2. chain # <<>>
  BY DEF ReadInFlight
<1>3. Len(chain) \in Nat \ {0} /\ DOMAIN chain = 1..Len(chain)
  BY <1>1, <1>2, EmptySeq, LenProperties
<1> QED BY <1>3 DEF IsChain, Last1

(* A change of the last job leaves a chain of as many jobs.                *)
LEMMA Replaced ==
  ASSUME IsChain(chain), ReadInFlight, NEW job, IsJob(job), NEW c,
         c = [chain EXCEPT ![Len(chain)] = job]
  PROVE  /\ IsChain(c)
         /\ Len(c) = Len(chain) /\ DOMAIN c = DOMAIN chain
         /\ \A k \in DOMAIN chain : c[k] = IF k = Len(chain) THEN job ELSE chain[k]
<1>1. PICK S : chain \in Seq(S)
  BY DEF IsChain
<1>2. Len(chain) \in DOMAIN chain /\ DOMAIN chain = 1..Len(chain)
  BY LastJob
<1>3. chain \in Seq(S \cup {job})
  BY <1>1, SeqMonotonic
<1>4. c \in Seq(S \cup {job}) /\ Len(c) = Len(chain)
  BY <1>2, <1>3, ExceptSeq
<1>5. DOMAIN c = DOMAIN chain
  OBVIOUS
<1>6. \A k \in DOMAIN chain : c[k] = IF k = Len(chain) THEN job ELSE chain[k]
  OBVIOUS
<1> QED BY <1>4, <1>5, <1>6 DEF IsChain

(* The last job ends: the chain is over, and the slow answers are counted. *)
LEMMA Closed ==
  ASSUME IInv, ReadInFlight, NEW state \in {"ok", "failed", "slow"}, NEW window, NEW c,
         c = Close(state, window)
  PROVE  /\ IsChain(c) /\ c # <<>> /\ c[Len(c)].state = state
         /\ IsFiniteSet(SlowIn(c))
         /\ Cardinality(SlowIn(c)) = Last1.timeouts + (IF state = "slow" THEN 1 ELSE 0)
<1> DEFINE job == [Last1 EXCEPT !.state = state, !.window = window]
<1>1. /\ Len(chain) \in Nat \ {0} /\ DOMAIN chain = 1..Len(chain) /\ Len(chain) \in DOMAIN chain
      /\ IsJob(Last1)
  BY LastJob DEF IInv
<1>2. IsJob(job) /\ job.state = state
  <2>1. PICK S, L, M, W :
          Last1 \in [step : S, left : L, mode : M, timeouts : Nat, window : W,
                     state : States, seen : Nat]
    BY <1>1 DEF IsJob
  <2>2. /\ job \in [step : S, left : L, mode : M, timeouts : Nat, window : W \cup {window},
                    state : States, seen : Nat]
        /\ job.state = state
    BY <2>1 DEF States
  <2> HIDE DEF job
  <2> QED BY <2>2 DEF IsJob
<1>3. c = [chain EXCEPT ![Len(chain)] = job]
  BY DEF Close, Last1
<1> HIDE DEF job
<1>4. /\ IsChain(c) /\ Len(c) = Len(chain) /\ DOMAIN c = DOMAIN chain
      /\ \A k \in DOMAIN chain : c[k] = IF k = Len(chain) THEN job ELSE chain[k]
  BY <1>2, <1>3, Replaced DEF IInv
<1>5. c # <<>> /\ c[Len(c)].state = state
  <2>1. Len(c) # 0
    BY <1>1, <1>4
  <2>2. c # <<>>
    BY <2>1, EmptySeq
  <2> QED BY <1>1, <1>2, <1>4, <2>2
<1>6. Len(chain) \notin SlowIn(chain)
  BY DEF SlowIn, ReadInFlight, Last1
<1>7. SlowIn(c) = IF state = "slow" THEN SlowIn(chain) \cup {Len(chain)} ELSE SlowIn(chain)
  BY <1>1, <1>2, <1>4, <1>6 DEF SlowIn
<1>8. IsFiniteSet(SlowIn(chain)) /\ Cardinality(SlowIn(chain)) = Last1.timeouts
  BY DEF IInv, SlowCounted
<1>9. Last1.timeouts \in Nat
  BY <1>1 DEF IsJob
<1>10. IsFiniteSet(SlowIn(c))
  BY <1>7, <1>8, FS_AddElement
<1>11. Cardinality(SlowIn(chain) \cup {Len(chain)}) = Last1.timeouts + 1
  BY <1>6, <1>8, FS_AddElement
<1>12. Cardinality(SlowIn(c)) = Last1.timeouts + (IF state = "slow" THEN 1 ELSE 0)
  BY <1>7, <1>8, <1>9, <1>11
<1> QED BY <1>4, <1>5, <1>10, <1>12

(* The read ends with its last job, or goes on with one more.              *)
LEMMA Followed ==
  ASSUME NEW c, IsChain(c), c # <<>>, c[Len(c)].state \in {"ok", "failed", "slow"},
         IsFiniteSet(SlowIn(c)), NEW slow \in Nat, Cardinality(SlowIn(c)) = slow,
         slow <= MaxTimeouts, NEW steps, steps # <<>> => slow < MaxTimeouts, NEW window,
         chain' \in Following(c, steps, slow, window)
  PROVE  IsChain(chain)' /\ SlowCounted'
<1>1. CASE chain' = c
  BY <1>1 DEF SlowCounted, ReadInFlight, Last1
<1>2. ASSUME steps # <<>>, chain' = Append(c, Job(steps, Last1.mode, slow, window))
      PROVE  IsChain(chain)' /\ SlowCounted'
  <2> DEFINE job == Job(steps, Last1.mode, slow, window)
  <2>1. IsJob(job) /\ job.state = "queued" /\ job.timeouts = slow
    <3>1. /\ job \in [step : {Head(steps)}, left : {Tail(steps)}, mode : {Last1.mode},
                      timeouts : Nat, window : {window}, state : States, seen : Nat]
          /\ job.state = "queued" /\ job.timeouts = slow
      BY DEF Job, States
    <3> HIDE DEF job
    <3> QED BY <3>1 DEF IsJob
  <2>2. chain' = Append(c, job)
    BY <1>2
  <2> HIDE DEF job
  <2>3. PICK S : c \in Seq(S)
    BY DEF IsChain
  <2>4. c \in Seq(S \cup {job})
    BY <2>3, SeqMonotonic
  <2>5. /\ chain' \in Seq(S \cup {job}) /\ Len(chain') = Len(c) + 1
        /\ \A k \in 1..Len(c) : chain'[k] = c[k]
        /\ chain'[Len(c) + 1] = job
    BY <2>2, <2>4, AppendProperties
  <2>6. /\ Len(c) \in Nat /\ DOMAIN c = 1..Len(c) /\ DOMAIN chain' = 1..(Len(c) + 1)
    BY <2>3, <2>5, LenProperties
  <2>7. 1..(Len(c) + 1) = 1..Len(c) \cup {Len(c) + 1} /\ Len(c) + 1 \notin 1..Len(c)
    BY <2>6
  <2>8. IsChain(chain')
    BY <2>1, <2>5, <2>6, <2>7 DEF IsChain
  <2>9. SlowIn(chain') = SlowIn(c)
    BY <2>1, <2>5, <2>6, <2>7 DEF SlowIn
  <2>10. Last1' = job
    BY <2>5 DEF Last1
  <2> QED BY <1>2, <2>1, <2>8, <2>9, <2>10 DEF SlowCounted, IsChain, SlowIn
<1> QED BY <1>1, <1>2 DEF Following

-----------------------------------------------------------------------------
(* The steps of a read.                                                    *)

LEMMA StartStep ==
  ASSUME IInv, NEW mode, StartRead(mode)
  PROVE  IInv'
<1> DEFINE job == Job(Plan(mode, Learned), mode, 0, Learned)
<1>1. chain' = <<job>> /\ UNCHANGED <<marker, applied, change>>
  BY DEF StartRead
<1>2. IsJob(job) /\ job.state = "queued" /\ job.timeouts = 0
  <2>1. /\ job \in [step : {Head(Plan(mode, Learned))}, left : {Tail(Plan(mode, Learned))},
                    mode : {mode}, timeouts : Nat, window : {Learned}, state : States, seen : Nat]
        /\ job.state = "queued" /\ job.timeouts = 0
    BY DEF Job, States
  <2> HIDE DEF job
  <2> QED BY <2>1 DEF IsJob
<1> HIDE DEF job
<1>3. chain' \in Seq({job}) /\ Len(chain') = 1 /\ DOMAIN chain' = {1} /\ chain'[1] = job
  BY <1>1
<1>4. IsChain(chain')
  BY <1>2, <1>3 DEF IsChain
<1>5. SlowIn(chain') = {}
  BY <1>2, <1>3 DEF SlowIn
<1>6. IsFiniteSet(SlowIn(chain')) /\ Cardinality(SlowIn(chain')) = 0
  BY <1>5, FS_EmptySet
<1>7. SlowCounted'
  BY <1>2, <1>3, <1>6, RefillConstantsOK DEF SlowCounted, Last1
<1> QED BY <1>1, <1>4, <1>7 DEF IInv, Numbers, MarkerSound

LEMMA ReadStep ==
  ASSUME IInv, AgentReads
  PROVE  IInv'
<1>1. PICK n \in Nat :
        chain' = [chain EXCEPT ![Len(chain)].state = "sent", ![Len(chain)].seen = n]
  BY DEF AgentReads, IInv, Numbers
<1> DEFINE job == [Last1 EXCEPT !.state = "sent", !.seen = n]
<1>2. /\ Len(chain) \in Nat \ {0} /\ DOMAIN chain = 1..Len(chain) /\ Len(chain) \in DOMAIN chain
      /\ IsJob(Last1) /\ ReadInFlight
  BY LastJob DEF IInv, AgentReads
<1>3. IsJob(job) /\ job.state = "sent" /\ job.timeouts = Last1.timeouts
  <2>1. PICK S, L, M, W :
          Last1 \in [step : S, left : L, mode : M, timeouts : Nat, window : W,
                     state : States, seen : Nat]
    BY <1>2 DEF IsJob
  <2>2. /\ job \in [step : S, left : L, mode : M, timeouts : Nat, window : W,
                    state : States, seen : Nat]
        /\ job.state = "sent" /\ job.timeouts = Last1.timeouts
    BY <2>1 DEF States
  <2> HIDE DEF job
  <2> QED BY <2>2 DEF IsJob
<1>4. chain' = [chain EXCEPT ![Len(chain)] = job]
  BY <1>1, <1>2 DEF Last1
<1> HIDE DEF job
<1>5. /\ IsChain(chain') /\ Len(chain') = Len(chain) /\ DOMAIN chain' = DOMAIN chain
      /\ \A k \in DOMAIN chain : chain'[k] = IF k = Len(chain) THEN job ELSE chain[k]
  BY <1>2, <1>3, <1>4, Replaced DEF IInv
<1>6. Last1' = job
  BY <1>2, <1>5 DEF Last1
<1>7. SlowIn(chain') = SlowIn(chain)
  BY <1>2, <1>3, <1>5 DEF SlowIn, ReadInFlight, Last1
<1>8. SlowCounted'
  BY <1>2, <1>3, <1>6, <1>7 DEF IInv, SlowCounted
<1> QED BY <1>5, <1>8 DEF IInv, Numbers, MarkerSound, AgentReads

(* A job ends in its own state, and the read with it, or one more follows. *)
LEMMA EndStep ==
  ASSUME IInv, ReadInFlight, NEW state \in {"ok", "failed", "slow"}, NEW window,
         NEW steps, NEW next,
         LET slow == Last1.timeouts + (IF state = "slow" THEN 1 ELSE 0) IN
           /\ steps # <<>> => slow < MaxTimeouts
           /\ chain' \in Following(Close(state, window), steps, slow, next)
  PROVE  IsChain(chain)' /\ SlowCounted'
<1> DEFINE c == Close(state, window)
           slow == Last1.timeouts + (IF state = "slow" THEN 1 ELSE 0)
<1>1. Last1.timeouts \in Nat /\ Last1.timeouts < MaxTimeouts /\ MaxTimeouts \in Nat
  BY LastJob, RefillConstantsOK DEF IInv, SlowCounted, IsJob
<1>2. slow \in Nat /\ slow <= MaxTimeouts
  BY <1>1
<1>3. /\ IsChain(c) /\ c # <<>> /\ c[Len(c)].state = state
      /\ IsFiniteSet(SlowIn(c)) /\ Cardinality(SlowIn(c)) = slow
  BY Closed
<1>4. (steps # <<>> => slow < MaxTimeouts) /\ chain' \in Following(c, steps, slow, next)
  OBVIOUS
<1> HIDE DEF c, slow
<1> QED BY <1>2, <1>3, <1>4, Followed

LEMMA MasterStep ==
  ASSUME IInv, MasterApplied
  PROVE  IInv'
<1>1. IsChain(chain)' /\ SlowCounted'
  <2>1. Last1.timeouts < MaxTimeouts /\ Last1.timeouts \in Nat /\ ReadInFlight
    BY LastJob DEF IInv, SlowCounted, IsJob, MasterApplied
  <2>2. /\ Last1.timeouts + 0 < MaxTimeouts
        /\ chain' \in Following(Close("ok", Last1.window), Last1.left, Last1.timeouts + 0,
                                Last1.window)
    BY <2>1 DEF MasterApplied
  <2> QED BY <2>1, <2>2, EndStep
<1>2. Numbers' /\ MarkerSound'
  <2>1. Last1.seen \in Nat
    BY LastJob DEF IInv, IsJob, MasterApplied
  <2>2. CASE Last1.step.kind \in Marked
    <3> DEFINE k == Last1.step.kind
    <3>1. /\ k \in Marked
          /\ marker' = [marker EXCEPT ![k] = Larger(marker[k], Last1.seen)]
          /\ applied' = [applied EXCEPT ![k] = Larger(applied[k], Last1.seen)]
          /\ change' = change
      BY <2>2 DEF MasterApplied, Advance, IInv, MarkerSound
    <3> HIDE DEF k
    <3> QED BY <2>1, <3>1 DEF IInv, Numbers, MarkerSound, Larger
  <2>3. CASE Last1.step.kind \notin Marked
    BY <2>3 DEF MasterApplied, IInv, Numbers, MarkerSound
  <2> QED BY <2>2, <2>3
<1> QED BY <1>1, <1>2 DEF IInv

LEMMA SalesStep ==
  ASSUME IInv, NEW quick \in BOOLEAN, SalesApplied(quick)
  PROVE  IInv'
<1>1. PICK window, left :
        chain' \in Following(Close("ok", window), left, Last1.timeouts, window)
  BY DEF SalesApplied
<1>2. Last1.timeouts < MaxTimeouts /\ Last1.timeouts \in Nat /\ ReadInFlight
  BY LastJob DEF IInv, SlowCounted, IsJob, SalesApplied
<1>3. Last1.timeouts + 0 = Last1.timeouts
  BY <1>2
<1>4. IsChain(chain)' /\ SlowCounted'
  BY <1>1, <1>2, <1>3, EndStep
<1> QED BY <1>4 DEF IInv, Numbers, MarkerSound, SalesApplied

LEMMA SlowStep ==
  ASSUME IInv, TooSlow
  PROVE  IInv'
<1>1. PICK window, steps :
        /\ Last1.timeouts + 1 >= MaxTimeouts => steps = <<>>
        /\ chain' \in Following(Close("slow", window), steps, Last1.timeouts + 1, window)
  BY DEF TooSlow
<1>2. /\ Last1.timeouts < MaxTimeouts /\ Last1.timeouts \in Nat /\ ReadInFlight
      /\ MaxTimeouts \in Nat
  BY LastJob, RefillConstantsOK DEF IInv, SlowCounted, IsJob, TooSlow
<1>3. steps # <<>> => Last1.timeouts + 1 < MaxTimeouts
  BY <1>1, <1>2
<1>4. IsChain(chain)' /\ SlowCounted'
  BY <1>1, <1>2, <1>3, EndStep
<1> QED BY <1>4 DEF IInv, Numbers, MarkerSound, TooSlow

LEMMA FailStep ==
  ASSUME IInv, Fails
  PROVE  IInv'
<1>1. ReadInFlight /\ chain' = Close("failed", Last1.window)
  BY DEF Fails
<1>2. chain' \in Following(Close("failed", Last1.window), <<>>, Last1.timeouts + 0, 0)
  BY <1>1 DEF Following
<1>3. IsChain(chain)' /\ SlowCounted'
  BY <1>1, <1>2, EndStep
<1> QED BY <1>3 DEF IInv, Numbers, MarkerSound, Fails

LEMMA RefillStart == RefillInit => IInv
<1> SUFFICES ASSUME RefillInit PROVE IInv
  OBVIOUS
<1>1. chain = <<>> /\ DOMAIN chain = {} /\ \E S : chain \in Seq(S)
  BY EmptySeq DEF RefillInit
<1>2. SlowIn(chain) = {}
  BY <1>1 DEF SlowIn
<1>3. SlowCounted
  BY <1>1, <1>2, FS_EmptySet, RefillConstantsOK DEF SlowCounted, ReadInFlight
<1> QED BY <1>1, <1>3 DEF RefillInit, IInv, IsChain, Numbers, MarkerSound

LEMMA RefillStep ==
  ASSUME IInv, [RefillNext]_refillVars
  PROVE  IInv'
<1>1. CASE \E mode \in {"full", "changes"} : StartRead(mode)
  BY <1>1, StartStep
<1>2. CASE AgentReads
  BY <1>2, ReadStep
<1>3. CASE MasterApplied
  BY <1>3, MasterStep
<1>4. CASE \E quick \in BOOLEAN : SalesApplied(quick)
  BY <1>4, SalesStep
<1>5. CASE TooSlow
  BY <1>5, SlowStep
<1>6. CASE Fails
  BY <1>6, FailStep
<1>7. CASE WeekPasses \/ (\E k \in Marked : TallyChanges(k)) \/ UNCHANGED refillVars
  <2>1. chain' = chain /\ marker' = marker /\ applied' = applied
    BY <1>7 DEF WeekPasses, TallyChanges, refillVars
  <2>2. change' \in [Marked -> Nat]
    BY <1>7 DEF WeekPasses, TallyChanges, refillVars, IInv, Numbers
  <2> QED BY <2>1, <2>2 DEF IInv, Numbers, MarkerSound, SlowCounted, ReadInFlight, Last1
<1> QED BY <1>1, <1>2, <1>3, <1>4, <1>5, <1>6, <1>7 DEF RefillNext

(* The jobs of a read, the slow answers counted and the marker go together *)
(* after every result and every request: IInv is inductive.                *)
THEOREM RefillInvariant == RefillSpec => []IInv
<1>1. IInv /\ [RefillNext]_refillVars => IInv'
  BY RefillStep
<1> QED BY <1>1, RefillStart, PTL DEF RefillSpec

(* One read leaves at most MaxTimeouts requests in Tally that it was too   *)
(* slow for.                                                               *)
THEOREM SlowRequestsBounded == RefillSpec => []TimeoutsBounded
<1>1. IInv => TimeoutsBounded
  BY DEF IInv, SlowCounted, SlowIn, TimeoutsBounded
<1> QED BY <1>1, RefillInvariant, PTL

(* The marker is never ahead of what is in our books.                      *)
THEOREM NoChangePassedOver == RefillSpec => []MarkerSound
<1>1. IInv => MarkerSound
  BY DEF IInv
<1> QED BY <1>1, RefillInvariant, PTL

-----------------------------------------------------------------------------
(* FlattenSeq puts the sequences it is given behind one another.           *)

InOrder(f, ss, n, p, q) ==
  \E i, j \in 1..n : \E a \in DOMAIN ss[i], b \in DOMAIN ss[j] :
    /\ f[p] = ss[i][a] /\ f[q] = ss[j][b]
    /\ i < j \/ (i = j /\ a < b)

InPlace(f, ss, n) ==
  /\ \A p \in DOMAIN f : \E i \in 1..n : \E a \in DOMAIN ss[i] : f[p] = ss[i][a]
  /\ \A i \in 1..n : \A a \in DOMAIN ss[i] : \E p \in DOMAIN f : f[p] = ss[i][a]
  /\ \A p, q \in DOMAIN f : p < q => InOrder(f, ss, n, p, q)

LEMMA OneInPlace ==
  ASSUME NEW ss
  PROVE  InPlace(ss[1], ss, 1)
  BY DEF InPlace, InOrder

LEMMA OneMoreInPlace ==
  ASSUME NEW S, NEW n \in Nat, NEW ss, NEW f \in Seq(S), ss[n + 1] \in Seq(S),
         InPlace(f, ss, n)
  PROVE  f \o ss[n + 1] \in Seq(S) /\ InPlace(f \o ss[n + 1], ss, n + 1)
<1> DEFINE s == ss[n + 1]
           g == f \o s
<1>1. /\ g \in Seq(S) /\ Len(g) = Len(f) + Len(s)
      /\ \A i \in 1..Len(f) + Len(s) : g[i] = IF i <= Len(f) THEN f[i] ELSE s[i - Len(f)]
  BY ConcatProperties
<1>2. /\ Len(f) \in Nat /\ DOMAIN f = 1..Len(f)
      /\ Len(s) \in Nat /\ DOMAIN s = 1..Len(s)
      /\ DOMAIN g = 1..Len(f) + Len(s)
  BY <1>1, LenProperties
<1>3. 1..(n + 1) = 1..n \cup {n + 1} /\ \A i \in 1..n : i < n + 1
  OBVIOUS
<1> HIDE DEF s, g
<1>4. \A p \in DOMAIN f : p \in DOMAIN g /\ g[p] = f[p]
  BY <1>1, <1>2
<1>5. \A a \in DOMAIN s : Len(f) + a \in DOMAIN g /\ g[Len(f) + a] = s[a]
  BY <1>1, <1>2
<1>6. \A p \in DOMAIN g : p \in DOMAIN f \/ (p - Len(f) \in DOMAIN s /\ g[p] = s[p - Len(f)])
  BY <1>1, <1>2
<1>7. ASSUME NEW p \in DOMAIN g
      PROVE  \E i \in 1..(n + 1) : \E a \in DOMAIN ss[i] : g[p] = ss[i][a]
  BY <1>3, <1>4, <1>6 DEF InPlace, s
<1>8. ASSUME NEW i \in 1..(n + 1), NEW a \in DOMAIN ss[i]
      PROVE  \E p \in DOMAIN g : g[p] = ss[i][a]
  <2>1. CASE i = n + 1
    BY <1>5, <2>1 DEF s
  <2>2. CASE i \in 1..n
    <3>1. PICK p \in DOMAIN f : f[p] = ss[i][a]
      BY <2>2 DEF InPlace
    <3> QED BY <1>4, <3>1
  <2> QED BY <1>3, <2>1, <2>2
<1>9. ASSUME NEW p \in DOMAIN g, NEW q \in DOMAIN g, p < q
      PROVE  InOrder(g, ss, n + 1, p, q)
  <2>1. CASE q \in DOMAIN f
    <3>1. p \in DOMAIN f
      BY <1>2, <1>9, <2>1
    <3>2. InOrder(f, ss, n, p, q)
      BY <1>9, <2>1, <3>1 DEF InPlace
    <3>3. PICK i \in 1..n, j \in 1..n : \E a \in DOMAIN ss[i], b \in DOMAIN ss[j] :
            /\ f[p] = ss[i][a] /\ f[q] = ss[j][b]
            /\ i < j \/ (i = j /\ a < b)
      BY <3>2, Zenon DEF InOrder
    <3> QED BY <1>3, <1>4, <2>1, <3>1, <3>3 DEF InOrder
  <2>2. CASE p \in DOMAIN f /\ q \notin DOMAIN f
    <3>1. PICK i \in 1..n : \E a \in DOMAIN ss[i] : f[p] = ss[i][a]
      BY <2>2 DEF InPlace
    <3>2. q - Len(f) \in DOMAIN s /\ g[q] = s[q - Len(f)]
      BY <1>6, <2>2
    <3> QED BY <1>3, <1>4, <2>2, <3>1, <3>2 DEF s, InOrder
  <2>3. CASE p \notin DOMAIN f /\ q \notin DOMAIN f
    <3>1. /\ p - Len(f) \in DOMAIN s /\ g[p] = s[p - Len(f)]
          /\ q - Len(f) \in DOMAIN s /\ g[q] = s[q - Len(f)]
      BY <1>6, <2>3
    <3>2. p - Len(f) < q - Len(f)
      BY <1>2, <1>9
    <3> QED BY <1>3, <3>1, <3>2 DEF s, InOrder
  <2> QED BY <1>2, <1>9, <2>1, <2>2, <2>3
<1>10. InPlace(g, ss, n + 1)
  BY <1>7, <1>8, <1>9 DEF InPlace
<1> QED BY <1>1, <1>10 DEF g, s

(* The recursive function of FlattenSeq. *)
IsFlat(g, ss, n) == g = [i \in 1..n |-> IF i = 1 THEN ss[i] ELSE g[i - 1] \o ss[i]]

LEMMA FlatExists ==
  ASSUME NEW ss, NEW n \in Nat
  PROVE  \E g : IsFlat(g, ss, n)
<1> DEFINE Bad == {k \in Nat : ~\E g : IsFlat(g, ss, k)}
<1> SUFFICES ASSUME Bad # {} PROVE FALSE
  OBVIOUS
<1>1. PICK k \in Bad : \A m \in Bad : k <= m
  <2>1. Bad \in SUBSET Nat
    OBVIOUS
  <2> HIDE DEF Bad
  <2> QED BY <2>1, LeastNumber
<1>2. k # 0
  <2>1. IsFlat([i \in 1..0 |-> 0], ss, 0)
    BY DEF IsFlat
  <2> QED BY <1>1, <2>1
<1>3. k - 1 \in Nat /\ k - 1 \notin Bad
  BY <1>1, <1>2
<1>4. PICK g : IsFlat(g, ss, k - 1)
  BY <1>3
<1> DEFINE v(i) == IF i < k THEN g[i] ELSE IF k = 1 THEN ss[k] ELSE g[k - 1] \o ss[k]
           h == [i \in 1..k |-> v(i)]
<1>5. \A i \in 1..(k - 1) : g[i] = IF i = 1 THEN ss[i] ELSE g[i - 1] \o ss[i]
  BY <1>4 DEF IsFlat
<1>6. \A i \in 1..k : v(i) = IF i = 1 THEN ss[i] ELSE h[i - 1] \o ss[i]
  BY <1>3, <1>5
<1>7. IsFlat(h, ss, k)
  BY <1>6 DEF IsFlat
<1> QED BY <1>1, <1>7

LEMMA Flattening ==
  ASSUME NEW S, NEW n \in Nat \ {0}, NEW ss \in [1..n -> Seq(S)]
  PROVE  FlattenSeq(ss) \in Seq(S) /\ InPlace(FlattenSeq(ss), ss, n)
<1> DEFINE g == CHOOSE g : IsFlat(g, ss, n)
<1>1. IsFlat(g, ss, n)
  BY FlatExists
<1>2. FlattenSeq(ss) = g[n]
  <2>1. ss \in Seq(Seq(S)) /\ Len(ss) = n
    OBVIOUS
  <2> QED BY <2>1 DEF FlattenSeq, IsFlat
<1> HIDE DEF g
<1>3. \A k \in 1..n : g[k] = IF k = 1 THEN ss[k] ELSE g[k - 1] \o ss[k]
  BY <1>1 DEF IsFlat
<1> DEFINE Bad == {k \in 1..n : ~(g[k] \in Seq(S) /\ InPlace(g[k], ss, k))}
<1>4. ASSUME Bad # {} PROVE FALSE
  <2>1. PICK k \in Bad : \A m \in Bad : k <= m
    <3>1. Bad \in SUBSET Nat
      OBVIOUS
    <3> HIDE DEF Bad
    <3> QED BY <1>4, <3>1, LeastNumber
  <2>2. k # 1
    BY <1>3, <2>1, OneInPlace
  <2>3. k - 1 \in 1..n /\ k - 1 \notin Bad /\ k - 1 \in Nat
    BY <2>1, <2>2
  <2>4. g[k - 1] \in Seq(S) /\ InPlace(g[k - 1], ss, k - 1)
    BY <2>3
  <2>5. (k - 1) + 1 = k
    BY <2>1
  <2>6. g[k - 1] \o ss[k] \in Seq(S) /\ InPlace(g[k - 1] \o ss[k], ss, k)
    <3>1. ss[(k - 1) + 1] \in Seq(S)
      BY <2>1, <2>5
    <3> QED BY <2>3, <2>4, <2>5, <3>1, OneMoreInPlace
  <2> QED BY <1>3, <2>1, <2>2, <2>6
<1>5. n \in 1..n
  OBVIOUS
<1>6. n \notin Bad
  <2> HIDE DEF Bad
  <2> QED BY <1>4
<1> QED BY <1>2, <1>5, <1>6

-----------------------------------------------------------------------------
(* The windows of sales among the steps of a read.                         *)

Kinds == {"groups", "items", "ledgers", "bills", "vtypes", "sales"}

(* A step has a kind, and a window has a day at least.                     *)
Pieces == {s \in [kind : Kinds, lo : Nat, hi : Nat] : s.kind = "sales" => s.lo <= s.hi}

(* Newest first, no day twice.                                             *)
Ordered(steps) == \A j, k \in Windows(steps) : j < k => steps[j].lo > steps[k].hi

LEMMA PieceParts ==
  ASSUME NEW steps \in Seq(Pieces)
  PROVE  /\ Len(steps) \in Nat /\ DOMAIN steps = 1..Len(steps)
         /\ \A k \in DOMAIN steps : /\ steps[k] \in Pieces
                                    /\ steps[k].lo \in Nat /\ steps[k].hi \in Nat
         /\ \A k \in Windows(steps) : /\ k \in Nat /\ steps[k].lo <= steps[k].hi
                                      /\ Days(steps[k]) \subseteq Nat
<1>1. Len(steps) \in Nat /\ DOMAIN steps = 1..Len(steps)
  BY LenProperties
<1>2. \A k \in DOMAIN steps : steps[k] \in Pieces
  BY <1>1, ElementOfSeq
<1>3. \A s \in Pieces : s.lo \in Nat /\ s.hi \in Nat /\ (s.kind = "sales" => s.lo <= s.hi)
  BY DEF Pieces
<1> QED BY <1>1, <1>2, <1>3 DEF Windows, Days

LEMMA AheadIs ==
  ASSUME NEW steps, NEW d
  PROVE  d \in Ahead(steps) <=> \E k \in Windows(steps) : d \in Days(steps[k])
  BY DEF Ahead

LEMMA Joined ==
  ASSUME NEW s \in Seq(Pieces), NEW t \in Seq(Pieces)
  PROVE  /\ s \o t \in Seq(Pieces)
         /\ Ahead(s \o t) = Ahead(s) \cup Ahead(t)
         /\ Ordered(s \o t) <=> /\ Ordered(s) /\ Ordered(t)
                                /\ \A j \in Windows(s), k \in Windows(t) : s[j].lo > t[k].hi
<1> DEFINE u == s \o t
<1>1. /\ u \in Seq(Pieces) /\ Len(u) = Len(s) + Len(t)
      /\ \A i \in 1..Len(s) + Len(t) : u[i] = IF i <= Len(s) THEN s[i] ELSE t[i - Len(s)]
  BY ConcatProperties
<1>2. /\ Len(s) \in Nat /\ DOMAIN s = 1..Len(s)
      /\ Len(t) \in Nat /\ DOMAIN t = 1..Len(t)
      /\ DOMAIN u = 1..Len(s) + Len(t)
  BY <1>1, LenProperties
<1> HIDE DEF u
<1>3. \A j \in Windows(s) : j \in Windows(u) /\ u[j] = s[j] /\ j \in 1..Len(s)
  BY <1>1, <1>2 DEF Windows
<1>4. \A k \in Windows(t) : /\ Len(s) + k \in Windows(u) /\ u[Len(s) + k] = t[k]
                            /\ k \in 1..Len(t)
  BY <1>1, <1>2 DEF Windows
<1>5. \A i \in Windows(u) :
        \/ i \in Windows(s) /\ u[i] = s[i] /\ i \in 1..Len(s)
        \/ /\ i - Len(s) \in Windows(t) /\ u[i] = t[i - Len(s)]
           /\ i \in Int /\ i > Len(s)
  BY <1>1, <1>2 DEF Windows
<1>6. Ahead(u) = Ahead(s) \cup Ahead(t)
  <2>1. \A d \in Ahead(u) : d \in Ahead(s) \/ d \in Ahead(t)
    BY <1>5, AheadIs
  <2>2. \A d \in Ahead(s) : d \in Ahead(u)
    BY <1>3, AheadIs
  <2>3. \A d \in Ahead(t) : d \in Ahead(u)
    BY <1>4, AheadIs
  <2> QED BY <2>1, <2>2, <2>3
<1>7. ASSUME Ordered(u)
      PROVE  /\ Ordered(s) /\ Ordered(t)
             /\ \A j \in Windows(s), k \in Windows(t) : s[j].lo > t[k].hi
  <2>1. Ordered(s)
    BY <1>3, <1>7 DEF Ordered
  <2>2. Ordered(t)
    <3> SUFFICES ASSUME NEW j \in Windows(t), NEW k \in Windows(t), j < k
                 PROVE  t[j].lo > t[k].hi
      BY DEF Ordered
    <3>1. Len(s) + j < Len(s) + k
      BY <1>2, <1>4
    <3> QED BY <1>4, <1>7, <3>1 DEF Ordered
  <2>3. ASSUME NEW j \in Windows(s), NEW k \in Windows(t)
        PROVE  s[j].lo > t[k].hi
    <3>1. j < Len(s) + k
      BY <1>2, <1>3, <1>4
    <3> QED BY <1>3, <1>4, <1>7, <3>1 DEF Ordered
  <2> QED BY <2>1, <2>2, <2>3
<1>8. ASSUME Ordered(s), Ordered(t),
             \A j \in Windows(s), k \in Windows(t) : s[j].lo > t[k].hi
      PROVE  Ordered(u)
  <2> SUFFICES ASSUME NEW i \in Windows(u), NEW j \in Windows(u), i < j
               PROVE  u[i].lo > u[j].hi
    BY DEF Ordered
  <2>1. CASE i \in Windows(s) /\ u[i] = s[i] /\ i \in 1..Len(s)
    <3>1. CASE j \in Windows(s) /\ u[j] = s[j]
      BY <1>8, <2>1, <3>1 DEF Ordered
    <3>2. CASE j - Len(s) \in Windows(t) /\ u[j] = t[j - Len(s)]
      BY <1>8, <2>1, <3>2
    <3> QED BY <1>5, <3>1, <3>2
  <2>2. CASE i - Len(s) \in Windows(t) /\ u[i] = t[i - Len(s)] /\ i \in Int /\ i > Len(s)
    <3>1. /\ j - Len(s) \in Windows(t) /\ u[j] = t[j - Len(s)]
          /\ j \in Int /\ i - Len(s) < j - Len(s)
      BY <1>2, <1>5, <2>2
    <3> QED BY <1>8, <2>2, <3>1 DEF Ordered
  <2> QED BY <1>5, <2>1, <2>2
<1> QED BY <1>1, <1>6, <1>7, <1>8 DEF u

LEMMA OneStep ==
  ASSUME NEW s \in Pieces
  PROVE  /\ <<s>> \in Seq(Pieces) /\ Ordered(<<s>>)
         /\ s.kind = "sales" => Windows(<<s>>) = {1} /\ Ahead(<<s>>) = Days(s)
         /\ s.kind # "sales" => Windows(<<s>>) = {} /\ Ahead(<<s>>) = {}
<1>1. <<s>> \in Seq(Pieces) /\ DOMAIN <<s>> = {1} /\ <<s>>[1] = s
  OBVIOUS
<1>2. s.kind = "sales" => Windows(<<s>>) = {1}
  BY <1>1 DEF Windows
<1>3. s.kind # "sales" => Windows(<<s>>) = {}
  BY <1>1 DEF Windows
<1>4. Ordered(<<s>>)
  BY <1>2, <1>3 DEF Ordered
<1> QED BY <1>1, <1>2, <1>3, <1>4 DEF Ahead

(* Chunks(lo, hi, size) are windows of the days from lo to hi, each once.  *)
LEMMA Quotient ==
  ASSUME NEW a \in Nat, NEW s \in Nat \ {0}
  PROVE  /\ a \div s \in Nat /\ (a \div s) * s <= a /\ a < (a \div s) * s + s
  OBVIOUS

LEMMA Multiples ==
  ASSUME NEW a \in Int, NEW s \in Int
  PROVE  /\ (a - 1) * s = a * s - s /\ (a + 1) * s = a * s + s /\ a * s \in Int
         /\ s > 0 => \A b \in Int : /\ a <= b => a * s <= b * s
                                    /\ a * s < b * s => a < b
<1>1. (a - 1) * s = a * s - s /\ (a + 1) * s = a * s + s /\ a * s \in Int
  OBVIOUS
<1>2. ASSUME s > 0, NEW b \in Int
      PROVE  a <= b => a * s <= b * s
  BY <1>2
<1>3. ASSUME s > 0, NEW b \in Int
      PROVE  a * s < b * s => a < b
  <2>1. b <= a => b * s <= a * s
    BY <1>3
  <2>2. a * s \in Int /\ b * s \in Int
    OBVIOUS
  <2> QED BY <2>1, <2>2
<1> QED BY <1>1, <1>2, <1>3

LEMMA Chunking ==
  ASSUME NEW lo \in Nat, NEW hi \in Nat, lo <= hi, NEW size \in Nat \ {0}
  PROVE  /\ Chunks(lo, hi, size) \in Seq(Pieces)
         /\ Windows(Chunks(lo, hi, size)) = DOMAIN Chunks(lo, hi, size)
         /\ \A k \in DOMAIN Chunks(lo, hi, size) :
              lo <= Chunks(lo, hi, size)[k].lo /\ Chunks(lo, hi, size)[k].hi <= hi
         /\ Ordered(Chunks(lo, hi, size))
         /\ Ahead(Chunks(lo, hi, size)) = lo..hi
<1> DEFINE n == (hi - lo + size) \div size
           c == Chunks(lo, hi, size)
           L(k) == Larger(lo, hi - k * size + 1)
           H(k) == hi - (k - 1) * size
<1>1. n \in Nat /\ n * size <= hi - lo + size /\ hi - lo + size < n * size + size
  BY Quotient
<1>2. c = [k \in 1..n |-> Sales(L(k), H(k))]
  BY DEF Chunks
<1> HIDE DEF n, c
<1>3. ASSUME NEW k \in 1..n
      PROVE  /\ L(k) \in Nat /\ H(k) \in Nat /\ lo <= L(k) /\ L(k) <= H(k) /\ H(k) <= hi
             /\ hi - k * size + 1 <= L(k) /\ k * size \in Int
             /\ (k - 1) * size = k * size - size
  <2>1. k \in Int /\ n \in Int /\ 0 <= k - 1 /\ k <= n /\ size > 0 /\ size \in Int
    BY <1>1
  <2>2. k * size <= n * size /\ k * size \in Int /\ n * size \in Int
    BY <2>1, Multiples
  <2>3. (k - 1) * size = k * size - size /\ 0 <= (k - 1) * size
    <3>1. 0 * size <= (k - 1) * size
      BY <2>1, Multiples
    <3> QED BY <2>1, <3>1, Multiples
  <2> QED BY <1>1, <2>1, <2>2, <2>3 DEF Larger
<1>4. \A k \in 1..n : /\ c[k].kind = "sales" /\ c[k].lo = L(k) /\ c[k].hi = H(k)
                      /\ Sales(L(k), H(k)) \in Pieces
  BY <1>2, <1>3 DEF Sales, Pieces, Kinds
<1>5. c \in Seq(Pieces) /\ DOMAIN c = 1..n
  <2> DEFINE e(k) == Sales(L(k), H(k))
  <2>1. c = [k \in 1..n |-> e(k)] /\ \A k \in 1..n : e(k) \in Pieces
    BY <1>2, <1>4
  <2> HIDE DEF e
  <2>2. c \in [1..n -> Pieces]
    BY <2>1
  <2> QED BY <1>1, <2>2
<1>6. Windows(c) = DOMAIN c
  BY <1>4, <1>5 DEF Windows
<1>7. \A k \in DOMAIN c : lo <= c[k].lo /\ c[k].hi <= hi
  BY <1>3, <1>4, <1>5
<1>8. Ordered(c)
  <2> SUFFICES ASSUME NEW j \in 1..n, NEW k \in 1..n, j < k
               PROVE  L(j) > H(k)
    BY <1>4, <1>5, <1>6 DEF Ordered
  <2>1. j * size <= (k - 1) * size
    BY Multiples
  <2>2. j * size \in Int /\ (k - 1) * size \in Int /\ L(j) \in Nat /\ hi - j * size + 1 <= L(j)
    BY <1>3, Multiples
  <2> QED BY <2>1, <2>2
<1>9. Ahead(c) = lo..hi
  <2>1. ASSUME NEW d \in Ahead(c)
        PROVE  d \in lo..hi
    <3>1. PICK k \in 1..n : d \in Days(c[k])
      BY <1>5, <1>6, AheadIs
    <3>2. d \in L(k)..H(k)
      BY <1>4, <3>1 DEF Days
    <3>3. L(k) \in Nat /\ H(k) \in Nat /\ lo <= L(k) /\ H(k) <= hi
      BY <1>3
    <3> HIDE DEF L, H
    <3> QED BY <3>2, <3>3
  <2>2. ASSUME NEW d \in lo..hi
        PROVE  d \in Ahead(c)
    <3> DEFINE q == (hi - d) \div size
               k == q + 1
    <3>1. q \in Nat /\ q * size <= hi - d /\ hi - d < q * size + size
      BY Quotient
    <3> HIDE DEF q
    <3>2. k \in Int /\ k >= 1 /\ (k - 1) * size = q * size /\ k * size = q * size + size
      BY <3>1, Multiples
    <3>3. k <= n
      <4>1. q * size < n * size
        BY <1>1, <3>1, Multiples
      <4>2. q < n
        BY <1>1, <3>1, <4>1, Multiples
      <4> QED BY <1>1, <3>1, <4>2
    <3>4. k \in 1..n
      BY <1>1, <3>2, <3>3
    <3>5. d \in L(k)..H(k)
      <4>1. hi - k * size + 1 <= d /\ d <= H(k)
        BY <3>1, <3>2, Multiples
      <4>2. L(k) <= d /\ L(k) \in Nat /\ H(k) \in Nat
        BY <1>3, <3>4, <4>1 DEF Larger
      <4> QED BY <4>1, <4>2
    <3> QED BY <1>4, <1>5, <1>6, <3>4, <3>5, AheadIs DEF Days
  <2> QED BY <2>1, <2>2
<1> QED BY <1>5, <1>6, <1>7, <1>8, <1>9 DEF c

(* Cutting the windows of some steps leaves the days and their order.      *)
LEMMA Resizing ==
  ASSUME NEW steps \in Seq(Pieces), steps # <<>>, Ordered(steps), NEW size \in Nat \ {0}
  PROVE  /\ Resize(steps, size) \in Seq(Pieces)
         /\ Ordered(Resize(steps, size))
         /\ Ahead(Resize(steps, size)) = Ahead(steps)
<1> DEFINE n == Len(steps)
           cut(k) == IF steps[k].kind = "sales"
                     THEN Chunks(steps[k].lo, steps[k].hi, size) ELSE <<steps[k]>>
           ss == [k \in DOMAIN steps |-> cut(k)]
           r == Resize(steps, size)
<1>1. n \in Nat \ {0} /\ DOMAIN steps = 1..n
  BY LenProperties, EmptySeq
<1>2. r = FlattenSeq(ss)
  BY DEF Resize
<1>3. \A k \in 1..n : ss[k] = cut(k)
  BY <1>1
<1> HIDE DEF r, ss
<1>4. ASSUME NEW k \in 1..n, steps[k].kind # "sales"
      PROVE  ss[k] \in Seq(Pieces) /\ Windows(ss[k]) = {}
  <2>1. steps[k] \in Pieces /\ ss[k] = <<steps[k]>>
    BY <1>1, <1>3, <1>4, PieceParts
  <2> QED BY <1>4, <2>1, OneStep
<1>5. ASSUME NEW k \in 1..n, steps[k].kind = "sales"
      PROVE  /\ ss[k] \in Seq(Pieces) /\ Windows(ss[k]) = DOMAIN ss[k]
             /\ \A a \in DOMAIN ss[k] : steps[k].lo <= ss[k][a].lo /\ ss[k][a].hi <= steps[k].hi
             /\ Ordered(ss[k])
             /\ Ahead(ss[k]) = Days(steps[k])
  <2>1. /\ steps[k].lo \in Nat /\ steps[k].hi \in Nat /\ steps[k].lo <= steps[k].hi
        /\ ss[k] = Chunks(steps[k].lo, steps[k].hi, size)
    BY <1>1, <1>3, <1>5, PieceParts DEF Windows
  <2> DEFINE lo == steps[k].lo
             hi == steps[k].hi
             c == Chunks(lo, hi, size)
  <2>2. Days(steps[k]) = lo..hi
    BY DEF Days
  <2>3. /\ c \in Seq(Pieces) /\ Windows(c) = DOMAIN c
        /\ \A a \in DOMAIN c : lo <= c[a].lo /\ c[a].hi <= hi
        /\ Ordered(c)
        /\ Ahead(c) = lo..hi
    <3>1. lo \in Nat /\ hi \in Nat /\ lo <= hi
      BY <2>1
    <3> HIDE DEF lo, hi
    <3> QED BY <3>1, Chunking
  <2>4. ss[k] = c
    BY <2>1
  <2> HIDE DEF c
  <2> QED BY <2>2, <2>3, <2>4
<1>6. r \in Seq(Pieces) /\ InPlace(r, ss, n)
  <2>1. \A k \in 1..n : cut(k) \in Seq(Pieces)
    BY <1>3, <1>4, <1>5
  <2>2. ss \in [1..n -> Seq(Pieces)]
    <3> HIDE DEF cut
    <3> QED BY <1>1, <2>1 DEF ss
  <2> HIDE DEF n
  <2> QED BY <1>1, <1>2, <2>2, Flattening
<1>7. ASSUME NEW k \in 1..n, NEW a \in DOMAIN ss[k]
      PROVE  ss[k][a].kind = "sales" => steps[k].kind = "sales"
  BY <1>4, <1>7 DEF Windows
<1>8. Ordered(r)
  <2> SUFFICES ASSUME NEW p \in Windows(r), NEW q \in Windows(r), p < q
               PROVE  r[p].lo > r[q].hi
    BY DEF Ordered
  <2>1. InOrder(r, ss, n, p, q)
    <3>1. p \in DOMAIN r /\ q \in DOMAIN r
      BY DEF Windows
    <3> HIDE DEF r, ss, n
    <3> QED BY <1>6, <3>1 DEF InPlace
  <2>2. PICK i \in 1..n, j \in 1..n : \E a \in DOMAIN ss[i], b \in DOMAIN ss[j] :
          /\ r[p] = ss[i][a] /\ r[q] = ss[j][b]
          /\ i < j \/ (i = j /\ a < b)
    BY <2>1, Zenon DEF InOrder
  <2>3. PICK a \in DOMAIN ss[i], b \in DOMAIN ss[j] :
          /\ r[p] = ss[i][a] /\ r[q] = ss[j][b]
          /\ i < j \/ (i = j /\ a < b)
    BY <2>2
  <2>4. steps[i].kind = "sales" /\ steps[j].kind = "sales"
    BY <1>7, <2>3 DEF Windows
  <2>5. a \in Windows(ss[i]) /\ b \in Windows(ss[j])
    BY <1>5, <2>4
  <2>6. CASE i = j /\ a < b
    BY <1>5, <2>3, <2>4, <2>5, <2>6 DEF Ordered
  <2>7. CASE i < j
    <3>1. steps[i].lo > steps[j].hi
      BY <1>1, <2>4, <2>7 DEF Ordered, Windows
    <3>2. steps[i].lo <= r[p].lo /\ r[q].hi <= steps[j].hi
      BY <1>5, <2>3, <2>4
    <3>3. steps[i].lo \in Nat /\ steps[j].hi \in Nat /\ r[p].lo \in Nat /\ r[q].hi \in Nat
      BY <1>1, <1>6, PieceParts DEF Windows
    <3> QED BY <3>1, <3>2, <3>3
  <2> QED BY <2>3, <2>6, <2>7
<1>9. Ahead(r) = Ahead(steps)
  <2>1. ASSUME NEW d \in Ahead(r)
        PROVE  d \in Ahead(steps)
    <3>1. PICK p \in Windows(r) : d \in Days(r[p])
      BY AheadIs
    <3>2. PICK k \in 1..n : \E a \in DOMAIN ss[k] : r[p] = ss[k][a]
      BY <1>6 DEF InPlace, Windows
    <3>3. PICK a \in DOMAIN ss[k] : r[p] = ss[k][a]
      BY <3>2
    <3>4. steps[k].kind = "sales"
      BY <1>7, <3>3 DEF Windows
    <3>5. a \in Windows(ss[k]) /\ d \in Days(ss[k][a])
      BY <1>5, <3>1, <3>3, <3>4
    <3>6. d \in Days(steps[k])
      BY <1>5, <3>4, <3>5, AheadIs
    <3> QED BY <1>1, <3>4, <3>6, AheadIs DEF Windows
  <2>2. ASSUME NEW d \in Ahead(steps)
        PROVE  d \in Ahead(r)
    <3>1. PICK k \in 1..n : steps[k].kind = "sales" /\ d \in Days(steps[k])
      BY <1>1, AheadIs DEF Windows
    <3>2. PICK a \in Windows(ss[k]) : d \in Days(ss[k][a])
      BY <1>5, <3>1, AheadIs
    <3>3. PICK p \in DOMAIN r : r[p] = ss[k][a]
      BY <1>6, <3>2 DEF InPlace, Windows
    <3> QED BY <3>2, <3>3, AheadIs DEF Windows
  <2> QED BY <2>1, <2>2
<1> QED BY <1>6, <1>8, <1>9 DEF r

LEMMA Planned ==
  ASSUME NEW mode, NEW window \in Nat
  PROVE  /\ Plan(mode, window) \in Seq(Pieces) /\ Plan(mode, window) # <<>>
         /\ Ordered(Plan(mode, window))
         /\ Ahead(Plan(mode, window)) = 1..Span
<1> DEFINE a == <<Master("groups"), Master("items"), Master("ledgers")>>
           b == IF mode = "full" THEN <<Master("bills")>> ELSE <<>>
           v == <<Master("vtypes")>>
           c == Chunks(1, Span, IF window > 0 THEN window ELSE HalfMonth)
<1>1. \A kind \in Kinds \ {"sales"} : Master(kind) \in Pieces /\ Master(kind).kind # "sales"
  BY DEF Master, Pieces
<1>2. a \in Seq(Pieces) /\ b \in Seq(Pieces) /\ v \in Seq(Pieces)
  <2>1. /\ Master("groups") \in Pieces /\ Master("items") \in Pieces /\ Master("ledgers") \in Pieces
        /\ Master("bills") \in Pieces /\ Master("vtypes") \in Pieces
    BY <1>1 DEF Kinds
  <2> QED BY <2>1
<1>3. Windows(a) = {} /\ Windows(b) = {} /\ Windows(v) = {}
  BY DEF Windows, Master
<1>4. \A s : Windows(s) = {} => Ordered(s) /\ Ahead(s) = {}
  BY DEF Ordered, Ahead
<1>5. c \in Seq(Pieces) /\ Ordered(c) /\ Ahead(c) = 1..Span
  <2>1. 1 \in Nat /\ Span \in Nat /\ 1 <= Span /\ (IF window > 0 THEN window ELSE HalfMonth) \in Nat \ {0}
    BY RefillConstantsOK
  <2> QED BY <2>1, Chunking
<1> HIDE DEF b, v, c
<1>6. a \o b \in Seq(Pieces) /\ Windows(a \o b) = {} /\ Len(a \o b) >= 3
  <2>1. /\ a \o b \in Seq(Pieces) /\ Len(a \o b) = Len(a) + Len(b)
        /\ \A i \in 1..Len(a) + Len(b) : (a \o b)[i] = IF i <= Len(a) THEN a[i] ELSE b[i - Len(a)]
    BY <1>2, ConcatProperties
  <2>2. Len(a) = 3 /\ DOMAIN a = 1..3 /\ Len(b) \in Nat /\ DOMAIN b = 1..Len(b)
    BY <1>2, LenProperties
  <2>3. DOMAIN (a \o b) = 1..Len(a) + Len(b)
    BY <2>1, LenProperties
  <2> HIDE DEF a
  <2> QED BY <1>3, <2>1, <2>2, <2>3 DEF Windows
<1> DEFINE m == a \o b
<1>7. m \o v \in Seq(Pieces) /\ Windows(m \o v) = {} /\ Len(m \o v) >= 3
  <2>1. /\ m \o v \in Seq(Pieces) /\ Len(m \o v) = Len(m) + Len(v)
        /\ \A i \in 1..Len(m) + Len(v) : (m \o v)[i] = IF i <= Len(m) THEN m[i] ELSE v[i - Len(m)]
    BY <1>2, <1>6, ConcatProperties
  <2>2. /\ Len(m) \in Nat /\ DOMAIN m = 1..Len(m) /\ Len(v) \in Nat /\ DOMAIN v = 1..Len(v)
    BY <1>2, <1>6, LenProperties
  <2>3. DOMAIN (m \o v) = 1..Len(m) + Len(v)
    BY <2>1, LenProperties
  <2>4. Len(m) >= 3 /\ Windows(m) = {}
    BY <1>6
  <2> HIDE DEF m
  <2> QED BY <1>3, <2>1, <2>2, <2>3, <2>4 DEF Windows
<1> DEFINE w == m \o v
<1>8. Plan(mode, window) = w \o c
  BY DEF Plan, b, v, c
<1>9. w \in Seq(Pieces) /\ Windows(w) = {} /\ Len(w) >= 3
  BY <1>7
<1> HIDE DEF w
<1>10. /\ w \o c \in Seq(Pieces) /\ Ordered(w \o c) /\ Ahead(w \o c) = 1..Span
  BY <1>4, <1>5, <1>9, Joined
<1>11. w \o c # <<>>
  <2>1. Len(w \o c) = Len(w) + Len(c) /\ Len(w) \in Nat /\ Len(c) \in Nat
    BY <1>5, <1>9, ConcatProperties, LenProperties
  <2>2. Len(w \o c) # 0
    BY <1>9, <2>1
  <2> QED BY <2>2, EmptySeq
<1> QED BY <1>8, <1>10, <1>11

-----------------------------------------------------------------------------
(* The days behind the read and the days ahead of it.                      *)

LastWellFormed ==
  chain # <<>> => Last1.step \in Pieces /\ Last1.left \in Seq(Pieces) /\ Last1.window \in Nat

DInv == IInv /\ LastWellFormed /\ DaysCovered

(* The days of steps and the days behind are the span, newest behind.      *)
Covers(behind, steps) ==
  /\ behind \cup Ahead(steps) = 1..Span
  /\ \A d \in behind, e \in Ahead(steps) : d > e
  /\ Ordered(steps)

LEMMA CoveredIs == DaysCovered <=> (ReadInFlight => Covers(Behind, <<Last1.step>> \o Last1.left))
  BY DEF DaysCovered, Covers, Ordered

BehindOf(c) ==
  UNION {Days(c[k].step) :
           k \in {k \in DOMAIN c : /\ c[k].step.kind = "sales"
                                  /\ \/ c[k].state = "ok"
                                     \/ c[k].state = "slow" /\ Size(c[k].step) = 1}}

LEMMA BehindIs == Behind = BehindOf(chain)
  BY DEF Behind, BehindOf

(* What the end of the last job puts behind the read.                      *)
Done(state) ==
  IF Last1.step.kind = "sales" /\ (state = "ok" \/ (state = "slow" /\ Size(Last1.step) = 1))
  THEN Days(Last1.step) ELSE {}

LEMMA ClosedLast ==
  ASSUME IInv, ReadInFlight, NEW state \in {"ok", "failed", "slow"}, NEW window, NEW c,
         c = Close(state, window)
  PROVE  /\ Len(c) = Len(chain) /\ DOMAIN c = 1..Len(chain) /\ Len(chain) \in Nat \ {0}
         /\ \E S : c \in Seq(S)
         /\ c[Len(chain)].step = Last1.step /\ c[Len(chain)].left = Last1.left
         /\ c[Len(chain)].window = window /\ c[Len(chain)].state = state
         /\ BehindOf(c) = Behind \cup Done(state)
<1> DEFINE job == [Last1 EXCEPT !.state = state, !.window = window]
<1>1. /\ Len(chain) \in Nat \ {0} /\ DOMAIN chain = 1..Len(chain) /\ Len(chain) \in DOMAIN chain
      /\ IsJob(Last1)
  BY LastJob DEF IInv
<1>2. /\ job.state = state /\ job.window = window /\ job.step = Last1.step
      /\ job.left = Last1.left
  BY <1>1 DEF IsJob
<1>3. c = [chain EXCEPT ![Len(chain)] = job]
  BY DEF Close, Last1
<1> HIDE DEF job
<1>4. /\ DOMAIN c = DOMAIN chain
      /\ \A k \in DOMAIN chain : c[k] = IF k = Len(chain) THEN job ELSE chain[k]
  BY <1>3
<1>5. IsChain(c) /\ c[Len(c)].state = state
  BY Closed
<1>6. Len(c) = Len(chain)
  <2>1. PICK S : c \in Seq(S)
    BY <1>5 DEF IsChain
  <2>2. Len(c) \in Nat /\ DOMAIN c = 1..Len(c)
    BY <2>1, LenProperties
  <2> QED BY <1>1, <1>4, <2>2
<1>7. Last1 = chain[Len(chain)] /\ Last1.state \notin {"ok", "slow"}
  BY DEF Last1, ReadInFlight
<1> DEFINE In(e) == {k \in DOMAIN e : /\ e[k].step.kind = "sales"
                                      /\ \/ e[k].state = "ok"
                                         \/ e[k].state = "slow" /\ Size(e[k].step) = 1}
<1>8. BehindOf(c) = Behind \cup Done(state)
  <2>1. \A k \in In(chain) : k \in In(c) /\ c[k].step = chain[k].step
    BY <1>4, <1>7
  <2>2. \A k \in In(c) : \/ k \in In(chain) /\ c[k].step = chain[k].step
                         \/ /\ k = Len(chain) /\ c[k].step = Last1.step
                            /\ Done(state) = Days(Last1.step)
    BY <1>2, <1>4 DEF Done
  <2>3. Done(state) # {} => Len(chain) \in In(c) /\ Done(state) = Days(c[Len(chain)].step)
    BY <1>1, <1>2, <1>4 DEF Done
  <2>4. BehindOf(c) = UNION {Days(c[k].step) : k \in In(c)}
    BY DEF BehindOf
  <2>5. Behind = UNION {Days(chain[k].step) : k \in In(chain)}
    BY DEF Behind
  <2> HIDE DEF In
  <2>6. ASSUME NEW x \in BehindOf(c)
        PROVE  x \in Behind \cup Done(state)
    BY <2>2, <2>4, <2>5
  <2>7. ASSUME NEW x \in Behind
        PROVE  x \in BehindOf(c)
    BY <2>1, <2>4, <2>5
  <2>8. ASSUME NEW x \in Done(state)
        PROVE  x \in BehindOf(c)
    BY <2>3, <2>4
  <2> QED BY <2>6, <2>7, <2>8
<1> QED BY <1>1, <1>2, <1>4, <1>5, <1>6, <1>8 DEF IsChain

LEMMA HeadThenTail ==
  ASSUME NEW steps \in Seq(Pieces), steps # <<>>
  PROVE  Head(steps) \in Pieces /\ Tail(steps) \in Seq(Pieces) /\ <<Head(steps)>> \o Tail(steps) = steps
<1>1. Head(steps) \in Pieces /\ Tail(steps) \in Seq(Pieces)
  BY HeadTailProperties
<1>2. steps[1] = Head(steps) /\ Len(steps) \in Nat \ {0}
  BY EmptySeq
<1> DEFINE h == <<Head(steps)>>
           t == Tail(steps)
<1>3. h \in Seq(Pieces) /\ Len(h) = 1 /\ h[1] = Head(steps)
  BY <1>1
<1>4. Len(t) = Len(steps) - 1 /\ \A i \in 1..Len(t) : t[i] = steps[i + 1]
  BY HeadTailProperties
<1>5. t \in Seq(Pieces)
  BY <1>1
<1> HIDE DEF h, t
<1>6. /\ h \o t \in Seq(Pieces) /\ Len(h \o t) = Len(h) + Len(t)
      /\ \A i \in 1..Len(h) + Len(t) : (h \o t)[i] = IF i <= Len(h) THEN h[i] ELSE t[i - Len(h)]
  BY <1>3, <1>5, ConcatProperties
<1>7. Len(h \o t) = Len(steps)
  BY <1>2, <1>3, <1>4, <1>6
<1>8. ASSUME NEW i \in 1..Len(steps)
      PROVE  (h \o t)[i] = steps[i]
  <2>1. CASE i = 1
    BY <1>2, <1>3, <1>6, <1>7, <2>1
  <2>2. CASE i # 1
    <3>1. i - 1 \in 1..Len(t) /\ i <= Len(h) + Len(t) /\ ~(i <= Len(h)) /\ Len(h) = 1
      BY <1>2, <1>3, <1>4, <2>2
    <3>2. (h \o t)[i] = t[i - 1] /\ t[i - 1] = steps[(i - 1) + 1] /\ (i - 1) + 1 = i
      BY <1>4, <1>6, <3>1
    <3> QED BY <3>2
  <2> QED BY <2>1, <2>2
<1>9. h \o t = steps
  BY <1>6, <1>7, <1>8, SeqEqual
<1> QED BY <1>1, <1>9 DEF h, t

(* A job ends: the read ends with it, or goes on with the steps it is      *)
(* given.                                                                  *)
LEMMA GoesOn ==
  ASSUME IInv, LastWellFormed, ReadInFlight,
         NEW state \in {"ok", "failed", "slow"}, NEW window \in Nat,
         NEW steps \in Seq(Pieces), NEW slow, NEW next \in Nat,
         chain' \in Following(Close(state, window), steps, slow, next),
         steps # <<>> => Covers(Behind \cup Done(state), steps)
  PROVE  LastWellFormed' /\ DaysCovered'
<1> DEFINE c == Close(state, window)
           n == Len(chain)
<1>1. /\ Len(c) = n /\ DOMAIN c = 1..n /\ n \in Nat \ {0}
      /\ \E S : c \in Seq(S)
      /\ c[n].step = Last1.step /\ c[n].left = Last1.left
      /\ c[n].window = window /\ c[n].state = state
      /\ BehindOf(c) = Behind \cup Done(state)
  BY ClosedLast
<1>2. Last1.step \in Pieces /\ Last1.left \in Seq(Pieces)
  BY DEF LastWellFormed, ReadInFlight
<1>3. CASE chain' = c
  <2>1. Last1' = c[n]
    BY <1>1, <1>3 DEF Last1
  <2>2. ~ReadInFlight'
    BY <1>1, <2>1 DEF ReadInFlight
  <2>3. LastWellFormed'
    BY <1>1, <1>2, <2>1 DEF LastWellFormed
  <2> QED BY <2>2, <2>3 DEF DaysCovered
<1>4. ASSUME steps # <<>>, chain' = Append(c, Job(steps, Last1.mode, slow, next))
      PROVE  LastWellFormed' /\ DaysCovered'
  <2> DEFINE job == Job(steps, Last1.mode, slow, next)
  <2>1. /\ job.step = Head(steps) /\ job.left = Tail(steps) /\ job.window = next
        /\ job.state = "queued"
    BY DEF Job
  <2>2. chain' = Append(c, job)
    BY <1>4
  <2> HIDE DEF job, c, n
  <2>3. PICK S : c \in Seq(S)
    BY <1>1
  <2>4. c \in Seq(S \cup {job})
    BY <2>3, SeqMonotonic
  <2>5. /\ chain' \in Seq(S \cup {job}) /\ Len(chain') = n + 1
        /\ \A k \in 1..n : chain'[k] = c[k]
        /\ chain'[n + 1] = job
    BY <1>1, <2>2, <2>4, AppendProperties
  <2>6. DOMAIN chain' = 1..(n + 1) /\ 1..(n + 1) = 1..n \cup {n + 1}
    BY <1>1, <2>5, LenProperties
  <2>7. Last1' = job
    BY <2>5 DEF Last1
  <2>8. Head(steps) \in Pieces /\ Tail(steps) \in Seq(Pieces) /\ <<Head(steps)>> \o Tail(steps) = steps
    BY <1>4, HeadThenTail
  <2>9. LastWellFormed'
    BY <2>1, <2>7, <2>8 DEF LastWellFormed
  <2>10. BehindOf(chain') = BehindOf(c)
    <3> DEFINE In(e) == {k \in DOMAIN e : /\ e[k].step.kind = "sales"
                                          /\ \/ e[k].state = "ok"
                                             \/ e[k].state = "slow" /\ Size(e[k].step) = 1}
    <3>1. In(chain') = In(c)
      BY <1>1, <2>1, <2>5, <2>6
    <3>2. \A k \in In(c) : chain'[k].step = c[k].step
      BY <1>1, <2>5
    <3>3. BehindOf(c) = UNION {Days(c[k].step) : k \in In(c)}
      BY DEF BehindOf
    <3>4. BehindOf(chain') = UNION {Days(chain'[k].step) : k \in In(chain')}
      BY DEF BehindOf
    <3> HIDE DEF In
    <3>5. \A x : x \in BehindOf(chain') <=> x \in BehindOf(c)
      BY <3>1, <3>2, <3>3, <3>4
    <3> QED BY <3>5
  <2>11. Behind' = BehindOf(chain')
    BY DEF Behind, BehindOf
  <2>12. Behind' = Behind \cup Done(state)
    BY <1>1, <2>10, <2>11
  <2>13. <<Last1'.step>> \o Last1'.left = steps
    BY <2>1, <2>7, <2>8
  <2>14. Covers(Behind', <<Last1'.step>> \o Last1'.left)
    BY <1>4, <2>12, <2>13
  <2> QED BY <2>9, <2>14 DEF DaysCovered, Covers, Ordered
<1> QED BY <1>3, <1>4 DEF Following

(* What is in front of the read, when its last job has ended.              *)
LEMMA RestOf ==
  ASSUME DInv, ReadInFlight
  PROVE  /\ Last1.step \in Pieces /\ Last1.left \in Seq(Pieces) /\ Last1.window \in Nat
         /\ <<Last1.step>> \o Last1.left \in Seq(Pieces)
         /\ Covers(Behind, <<Last1.step>> \o Last1.left)
         /\ Last1.step.kind # "sales" => Covers(Behind, Last1.left)
         /\ Last1.step.kind = "sales" =>
              Size(Last1.step) \in Nat \ {0} /\ Covers(Behind \cup Days(Last1.step), Last1.left)
<1> DEFINE s == Last1.step
           t == Last1.left
<1>1. s \in Pieces /\ t \in Seq(Pieces) /\ Last1.window \in Nat
  BY DEF DInv, LastWellFormed, ReadInFlight
<1>2. Covers(Behind, <<s>> \o t)
  BY CoveredIs DEF DInv
<1> HIDE DEF s, t
<1>3. /\ <<s>> \in Seq(Pieces)
      /\ s.kind = "sales" => Windows(<<s>>) = {1} /\ Ahead(<<s>>) = Days(s)
      /\ s.kind # "sales" => Windows(<<s>>) = {} /\ Ahead(<<s>>) = {}
  BY <1>1, OneStep
<1>4. /\ <<s>> \o t \in Seq(Pieces)
      /\ Ahead(<<s>> \o t) = Ahead(<<s>>) \cup Ahead(t)
      /\ Ordered(t) /\ \A j \in Windows(<<s>>), k \in Windows(t) : <<s>>[j].lo > t[k].hi
  BY <1>1, <1>2, <1>3, Joined DEF Covers
<1>5. s.kind # "sales" => Covers(Behind, t)
  BY <1>2, <1>3, <1>4 DEF Covers
<1>6. ASSUME s.kind = "sales"
      PROVE  Size(s) \in Nat \ {0} /\ Covers(Behind \cup Days(s), t)
  <2>1. s.lo \in Nat /\ s.hi \in Nat /\ s.lo <= s.hi
    BY <1>1, <1>6 DEF Pieces
  <2>2. \A d \in Days(s), e \in Ahead(t) : d > e
    <3> SUFFICES ASSUME NEW d \in Days(s), NEW e \in Ahead(t) PROVE d > e
      OBVIOUS
    <3>1. PICK k \in Windows(t) : e \in Days(t[k])
      BY AheadIs
    <3>2. s.lo > t[k].hi
      <4>1. 1 \in Windows(<<s>>) /\ <<s>>[1] = s
        BY <1>3, <1>6
      <4> QED BY <1>4, <4>1
    <3>3. t[k].lo \in Nat /\ t[k].hi \in Nat
      BY <1>1, PieceParts DEF Windows
    <3> QED BY <2>1, <3>1, <3>2, <3>3 DEF Days
  <2>3. Ahead(<<s>> \o t) = Days(s) \cup Ahead(t)
    BY <1>3, <1>4, <1>6
  <2>4. Behind \cup (Days(s) \cup Ahead(t)) = (Behind \cup Days(s)) \cup Ahead(t)
    OBVIOUS
  <2>5. Covers(Behind \cup Days(s), t)
    BY <1>2, <1>4, <2>2, <2>3, <2>4 DEF Covers
  <2> QED BY <2>1, <2>5 DEF Size
<1> QED BY <1>1, <1>2, <1>4, <1>5, <1>6 DEF s, t

LEMMA CutCovers ==
  ASSUME NEW behind, NEW steps \in Seq(Pieces), steps # <<>>, Covers(behind, steps),
         NEW size \in Nat \ {0}
  PROVE  Resize(steps, size) \in Seq(Pieces) /\ Covers(behind, Resize(steps, size))
  BY Resizing DEF Covers

LEMMA CoveredStart ==
  ASSUME DInv, NEW mode, StartRead(mode)
  PROVE  LastWellFormed' /\ DaysCovered'
<1> DEFINE steps == Plan(mode, Learned)
           job == Job(steps, mode, 0, Learned)
<1>1. Learned \in Nat
  BY RefillConstantsOK DEF DInv, LastWellFormed, Learned, Smaller
<1>2. steps \in Seq(Pieces) /\ steps # <<>> /\ Ordered(steps) /\ Ahead(steps) = 1..Span
  BY <1>1, Planned
<1>3. chain' = <<job>>
  BY DEF StartRead
<1>4. /\ job.step = Head(steps) /\ job.left = Tail(steps) /\ job.window = Learned
      /\ job.state = "queued"
  BY DEF Job
<1> HIDE DEF job, steps
<1>5. Last1' = job /\ DOMAIN chain' = {1} /\ chain'[1] = job
  BY <1>3 DEF Last1
<1>6. Head(steps) \in Pieces /\ Tail(steps) \in Seq(Pieces) /\ <<Head(steps)>> \o Tail(steps) = steps
  BY <1>2, HeadThenTail
<1>7. Behind' = {}
  BY <1>4, <1>5 DEF Behind
<1>8. Covers({}, steps)
  BY <1>2 DEF Covers
<1>9. Covers(Behind', <<Last1'.step>> \o Last1'.left)
  BY <1>4, <1>5, <1>6, <1>7, <1>8
<1>10. LastWellFormed'
  BY <1>1, <1>4, <1>5, <1>6 DEF LastWellFormed
<1> QED BY <1>9, <1>10 DEF DaysCovered, Covers, Ordered

LEMMA CoveredRead ==
  ASSUME DInv, AgentReads
  PROVE  LastWellFormed' /\ DaysCovered'
<1>1. PICK x : chain' = [chain EXCEPT ![Len(chain)].state = "sent", ![Len(chain)].seen = x]
  BY DEF AgentReads
<1> DEFINE job == [Last1 EXCEPT !.state = "sent", !.seen = x]
           n == Len(chain)
<1>2. /\ ReadInFlight /\ n \in Nat \ {0} /\ DOMAIN chain = 1..n /\ n \in DOMAIN chain
      /\ IsJob(Last1) /\ IsChain(chain)
  BY LastJob DEF DInv, IInv, AgentReads
<1>3. /\ job.step = Last1.step /\ job.left = Last1.left /\ job.window = Last1.window
      /\ job.state = "sent"
  BY <1>2 DEF IsJob
<1>4. chain' = [chain EXCEPT ![n] = job]
  BY <1>1, <1>2 DEF Last1
<1> HIDE DEF job
<1>5. /\ DOMAIN chain' = DOMAIN chain
      /\ \A k \in DOMAIN chain : chain'[k] = IF k = n THEN job ELSE chain[k]
  BY <1>4
<1>6. IsChain(chain') /\ Len(chain') = n
  <2>1. PICK S : chain \in Seq(S)
    BY <1>2 DEF IsChain
  <2>2. chain \in Seq(S \cup {job})
    BY <2>1, SeqMonotonic
  <2>3. chain' \in Seq(S \cup {job}) /\ Len(chain') = n
    BY <1>2, <1>4, <2>2, ExceptSeq
  <2>4. IInv'
    BY ReadStep DEF DInv
  <2> QED BY <2>3, <2>4 DEF IInv, IsChain
<1>7. Last1' = job
  BY <1>2, <1>5, <1>6 DEF Last1
<1>8. Last1 = chain[n] /\ Last1.state \notin {"ok", "slow"}
  BY <1>2 DEF Last1, ReadInFlight
<1>9. Behind' = Behind
  <2> DEFINE In(e) == {k \in DOMAIN e : /\ e[k].step.kind = "sales"
                                        /\ \/ e[k].state = "ok"
                                           \/ e[k].state = "slow" /\ Size(e[k].step) = 1}
  <2>1. In(chain') = In(chain)
    BY <1>3, <1>5, <1>8
  <2>2. \A k \in In(chain) : chain'[k].step = chain[k].step
    BY <1>3, <1>5, <1>8
  <2>3. Behind = UNION {Days(chain[k].step) : k \in In(chain)}
    BY DEF Behind
  <2>4. Behind' = UNION {Days(chain'[k].step) : k \in In(chain')}
    BY DEF Behind
  <2> HIDE DEF In
  <2>5. \A y : y \in Behind' <=> y \in Behind
    BY <2>1, <2>2, <2>3, <2>4
  <2> QED BY <2>5
<1>10. Covers(Behind', <<Last1'.step>> \o Last1'.left)
  BY <1>2, <1>3, <1>7, <1>9, RestOf
<1>11. LastWellFormed'
  BY <1>2, <1>3, <1>7, RestOf DEF LastWellFormed
<1> QED BY <1>10, <1>11 DEF DaysCovered, Covers, Ordered

LEMMA CoveredMaster ==
  ASSUME DInv, MasterApplied
  PROVE  LastWellFormed' /\ DaysCovered'
<1>1. /\ ReadInFlight /\ Last1.step.kind # "sales"
      /\ chain' \in Following(Close("ok", Last1.window), Last1.left, Last1.timeouts, Last1.window)
  BY DEF MasterApplied
<1>2. Last1.left \in Seq(Pieces) /\ Last1.window \in Nat /\ Covers(Behind, Last1.left)
  BY <1>1, RestOf
<1>3. Behind \cup Done("ok") = Behind
  BY <1>1 DEF Done
<1>4. Last1.left # <<>> => Covers(Behind \cup Done("ok"), Last1.left)
  BY <1>2, <1>3
<1> QED BY <1>1, <1>2, <1>4, GoesOn DEF DInv

LEMMA CoveredSales ==
  ASSUME DInv, NEW quick \in BOOLEAN, SalesApplied(quick)
  PROVE  LastWellFormed' /\ DaysCovered'
<1> DEFINE size == Size(Last1.step)
           grows == quick /\ size < MaxWindow /\ Last1.left # <<>>
           window == IF grows THEN Smaller(MaxWindow, size * 2) ELSE size
           left == IF grows THEN Resize(Last1.left, window) ELSE Last1.left
<1>1. /\ ReadInFlight /\ Last1.step.kind = "sales"
      /\ chain' \in Following(Close("ok", window), left, Last1.timeouts, window)
  BY DEF SalesApplied
<1>2. /\ size \in Nat \ {0} /\ Last1.left \in Seq(Pieces)
      /\ Covers(Behind \cup Days(Last1.step), Last1.left)
  BY <1>1, RestOf
<1>3. window \in Nat \ {0}
  <2> HIDE DEF size
  <2> QED BY <1>2, RefillConstantsOK DEF Smaller
<1>4. left \in Seq(Pieces) /\ Covers(Behind \cup Days(Last1.step), left)
  <2> HIDE DEF window
  <2>1. CASE grows
    BY <1>2, <1>3, <2>1, CutCovers
  <2>2. CASE ~grows
    BY <1>2, <2>2
  <2> QED BY <2>1, <2>2
<1>5. Done("ok") = Days(Last1.step)
  BY <1>1 DEF Done
<1>6. left # <<>> => Covers(Behind \cup Done("ok"), left)
  BY <1>4, <1>5
<1> HIDE DEF window, left
<1> QED BY <1>1, <1>3, <1>4, <1>6, GoesOn DEF DInv

LEMMA CoveredSlow ==
  ASSUME DInv, TooSlow
  PROVE  LastWellFormed' /\ DaysCovered'
<1> DEFINE days == Size(Last1.step)
           size == Larger(1, days \div 2)
           stop == Last1.timeouts + 1 >= MaxTimeouts
           window == IF ~stop /\ days > 1 THEN size ELSE Last1.window
           whole == <<Last1.step>> \o Last1.left
           steps == IF stop THEN <<>>
                    ELSE IF days > 1 THEN Resize(whole, size)
                    ELSE Last1.left
<1>1. /\ ReadInFlight /\ Last1.step.kind = "sales"
      /\ chain' \in Following(Close("slow", window), steps, Last1.timeouts + 1, window)
  BY DEF TooSlow
<1>2. /\ days \in Nat \ {0} /\ Last1.step \in Pieces /\ Last1.left \in Seq(Pieces)
      /\ whole \in Seq(Pieces) /\ Last1.window \in Nat
      /\ Covers(Behind, whole) /\ Covers(Behind \cup Days(Last1.step), Last1.left)
  BY <1>1, RestOf
<1>3. whole # <<>>
  <2>1. <<Last1.step>> \in Seq(Pieces) /\ Len(<<Last1.step>>) = 1
    BY <1>2
  <2>2. Len(whole) = 1 + Len(Last1.left) /\ Len(Last1.left) \in Nat
    BY <1>2, <2>1, ConcatProperties, LenProperties
  <2>3. Len(whole) # 0
    BY <2>2
  <2> QED BY <2>3, EmptySeq
<1>4. size \in Nat \ {0}
  <2> HIDE DEF days
  <2> QED BY <1>2 DEF Larger
<1>5. window \in Nat
  BY <1>2, <1>4
<1>6. steps \in Seq(Pieces) /\ (steps # <<>> => Covers(Behind \cup Done("slow"), steps))
  <2>1. CASE stop
    BY <2>1, EmptySeq
  <2>2. CASE ~stop /\ days > 1
    <3>1. Behind \cup Done("slow") = Behind
      BY <2>2 DEF Done
    <3>2. steps = Resize(whole, size)
      BY <2>2
    <3> HIDE DEF whole, size, steps
    <3> QED BY <1>2, <1>3, <1>4, <3>1, <3>2, CutCovers
  <2>3. CASE ~stop /\ ~(days > 1)
    <3>1. days = 1
      <4> HIDE DEF days
      <4> QED BY <1>2, <2>3
    <3>2. Done("slow") = Days(Last1.step)
      BY <1>1, <3>1 DEF Done
    <3> QED BY <1>2, <2>3, <3>2
  <2> QED BY <2>1, <2>2, <2>3
<1> HIDE DEF window, steps
<1> QED BY <1>1, <1>5, <1>6, GoesOn DEF DInv

LEMMA CoveredFail ==
  ASSUME DInv, Fails
  PROVE  LastWellFormed' /\ DaysCovered'
<1>1. ReadInFlight /\ chain' = Close("failed", Last1.window)
  BY DEF Fails
<1>2. chain' \in Following(Close("failed", Last1.window), <<>>, 0, 0)
  BY <1>1 DEF Following
<1>3. Last1.window \in Nat /\ <<>> \in Seq(Pieces)
  BY <1>1, RestOf, EmptySeq
<1> QED BY <1>1, <1>2, <1>3, GoesOn DEF DInv

LEMMA CoveredStep ==
  ASSUME DInv, [RefillNext]_refillVars
  PROVE  DInv'
<1>1. IInv'
  BY RefillStep DEF DInv
<1>2. LastWellFormed' /\ DaysCovered'
  <2>1. CASE \E mode \in {"full", "changes"} : StartRead(mode)
    BY <2>1, CoveredStart
  <2>2. CASE AgentReads
    BY <2>2, CoveredRead
  <2>3. CASE MasterApplied
    BY <2>3, CoveredMaster
  <2>4. CASE \E quick \in BOOLEAN : SalesApplied(quick)
    BY <2>4, CoveredSales
  <2>5. CASE TooSlow
    BY <2>5, CoveredSlow
  <2>6. CASE Fails
    BY <2>6, CoveredFail
  <2>7. CASE WeekPasses \/ (\E k \in Marked : TallyChanges(k)) \/ UNCHANGED refillVars
    <3>1. chain' = chain
      BY <2>7 DEF WeekPasses, TallyChanges, refillVars
    <3> QED BY <3>1 DEF DInv, LastWellFormed, Last1, DaysCovered, ReadInFlight, Behind
  <2> QED BY <2>1, <2>2, <2>3, <2>4, <2>5, <2>6, <2>7 DEF RefillNext
<1> QED BY <1>1, <1>2 DEF DInv

(* However often windows are cut and however the read goes on, the days    *)
(* behind it and the windows ahead are the whole span, each day once,      *)
(* newest first.                                                           *)
THEOREM EveryDayRead == RefillSpec => []DaysCovered
<1>1. RefillInit => DInv
  BY RefillStart DEF RefillInit, DInv, LastWellFormed, DaysCovered, ReadInFlight
<1>2. DInv /\ [RefillNext]_refillVars => DInv'
  BY CoveredStep
<1>3. DInv => DaysCovered
  BY DEF DInv
<1> QED BY <1>1, <1>2, <1>3, PTL DEF RefillSpec
=============================================================================

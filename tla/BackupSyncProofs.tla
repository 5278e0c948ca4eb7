-------------------------- MODULE BackupSyncProofs --------------------------
(***************************************************************************)
(* Proofs about BackupSync, for any number of files and sets, any sizes,   *)
(* and any number of copies kept here and there, whatever Tally writes and *)
(* whatever fails: first the shape of the state and what the cloud loses,  *)
(* then what the agent deletes and where a finished backup is.             *)
(***************************************************************************)
EXTENDS BackupSync, DataLemmas, SequenceTheorems

TodoThere == \A n \in todo : folder[n] # Gone

(* Files and their contents stand for one another.                         *)
LEMMA Pairs ==
  ASSUME NEW n \in Names, NEW c \in Contents
  PROVE  /\ The(n, c) \in File /\ The(n, c).name = n /\ The(n, c).content = c
         /\ \A m \in Names, d \in Contents : The(m, d) = The(n, c) => m = n /\ d = c
  BY DEF The, File

-----------------------------------------------------------------------------
(* The cloud. *)

LEMMA RowIsUpload ==
  ASSUME NEW c \in SUBSET Upload, NEW u \in c
  PROVE  /\ u.name \in Names /\ u.content \in Contents /\ u.at \in Nat /\ u.at \in Int
         /\ SetOf(u) \in SetsIn(c)
  BY DEF Upload, SetsIn

(* Every set has a newest file. *)
LEMMA NewestFile ==
  ASSUME NEW c \in SUBSET Upload, IsFiniteSet(c), NEW s \in SetsIn(c)
  PROVE  \E u \in c : SetOf(u) = s /\ \A v \in c : SetOf(v) = s => v.at <= u.at
<1> DEFINE T == {v \in c : SetOf(v) = s}
           h == [v \in T |-> v.at]
<1>1. IsFiniteSet(T) /\ T # {}
  BY FS_Subset DEF SetsIn
<1>2. \A v \in T : h[v] = v.at /\ h[v] \in Int
  BY RowIsUpload
<1>3. \E u \in T : \A v \in T : h[v] <= h[u]
  <2> HIDE DEF T, h
  <2> QED BY <1>1, <1>2, GreatestOf
<1> QED BY <1>2, <1>3

(* What pruning one set too many leaves. *)
LEMMA Pruning ==
  ASSUME NEW c \in SUBSET Upload, IsFiniteSet(c), \A u, v \in c : u.at = v.at => u = v,
         IsFiniteSet(SetsIn(c)), Cardinality(SetsIn(c)) <= CloudKeep + 1
  PROVE  /\ Cardinality(SetsIn(PruneCloud(c))) <= CloudKeep
         /\ PruneCloud(c) # c => Cardinality(SetsIn(PruneCloud(c))) = CloudKeep
         /\ \A u \in c \ PruneCloud(c) :
              /\ SetOf(u) \notin SetsIn(PruneCloud(c))
              /\ \A s \in SetsIn(PruneCloud(c)) :
                   \E v \in PruneCloud(c) : SetOf(v) = s /\ v.at > u.at
         /\ \A u \in c : (\A v \in c : v.at <= u.at) => u \in PruneCloud(c)
<1> DEFINE D == SetsIn(c)
           newest(s) == CHOOSE u \in c : SetOf(u) = s /\ \A v \in c : SetOf(v) = s => v.at <= u.at
           h == [s \in D |-> newest(s).at]
           R == {s \in D : Recent(c, s)}
<1>1. \A s \in D : /\ newest(s) \in c /\ SetOf(newest(s)) = s
                   /\ \A v \in c : SetOf(v) = s => v.at <= newest(s).at
  BY NewestFile
<1>2. \A s \in D : h[s] = newest(s).at
  OBVIOUS
<1> HIDE DEF newest, h
<1>3. \A s \in D : h[s] \in Int
  BY <1>1, <1>2, RowIsUpload
<1>4. \A s, t \in D : h[s] = h[t] => s = t
  BY <1>1, <1>2
<1>5. ASSUME NEW s \in D
      PROVE  Newer(c, s) = {t \in D : h[t] > h[s]}
  <2>1. ASSUME NEW u \in c, \A v \in c : SetOf(v) = s => u.at > v.at
        PROVE  SetOf(u) \in D /\ h[SetOf(u)] > h[s]
    <3>1. SetOf(u) \in D /\ u.at \in Int
      BY RowIsUpload
    <3>2. u.at > h[s] /\ u.at <= h[SetOf(u)]
      BY <1>1, <1>2, <2>1, <3>1
    <3> QED BY <1>3, <3>1, <3>2
  <2>2. ASSUME NEW t \in D, h[t] > h[s]
        PROVE  \E u \in c : SetOf(u) = t /\ \A v \in c : SetOf(v) = s => u.at > v.at
    <3>1. \A v \in c : SetOf(v) = s => v.at \in Int /\ v.at <= h[s]
      BY <1>1, <1>2, RowIsUpload
    <3>2. \A v \in c : SetOf(v) = s => h[t] > v.at
      BY <1>3, <2>2, <3>1
    <3> QED BY <1>1, <1>2, <3>2
  <2> QED BY <2>1, <2>2 DEF Newer
<1>6. R = {s \in D : Cardinality({t \in D : h[t] > h[s]}) < CloudKeep}
  BY <1>5 DEF Recent
<1>7. Cardinality(R) <= CloudKeep /\ (R # D => Cardinality(R) = CloudKeep)
  <2>1. IsFiniteSet(D) /\ Cardinality(D) <= CloudKeep + 1 /\ CloudKeep \in Nat \ {0}
    BY BackupConstantsOK
  <2> HIDE DEF D, R
  <2> QED BY <1>3, <1>4, <1>6, <2>1, BestRanked
<1>8. PruneCloud(c) = {u \in c : SetOf(u) \in R}
  BY RowIsUpload DEF PruneCloud
<1>9. SetsIn(PruneCloud(c)) = R
  BY <1>8 DEF SetsIn
<1>10. PruneCloud(c) # c => R # D
  BY <1>8, RowIsUpload
<1>11. ASSUME NEW u \in c, \A v \in c : v.at <= u.at
       PROVE  u \in PruneCloud(c)
  <2>1. \A v \in c : v.at \in Int /\ ~(v.at > u.at)
    BY <1>11, RowIsUpload
  <2>2. Newer(c, SetOf(u)) = {}
    BY <2>1 DEF Newer
  <2> QED BY <2>2, FS_EmptySet, BackupConstantsOK DEF Recent, PruneCloud
<1>12. ASSUME NEW u \in c \ PruneCloud(c), NEW s \in R
       PROVE  \E v \in PruneCloud(c) : SetOf(v) = s /\ v.at > u.at
  <2>1. SetOf(u) \in D \ R /\ s \in D
    BY <1>8, RowIsUpload
  <2>2. ASSUME ~(h[s] > h[SetOf(u)]) PROVE FALSE
    <3>1. /\ IsFiniteSet(Newer(c, s)) /\ Newer(c, SetOf(u)) \subseteq Newer(c, s)
      BY <1>3, <1>5, <2>2, <2>1, FS_Subset
    <3>2. /\ Cardinality(Newer(c, SetOf(u))) <= Cardinality(Newer(c, s))
          /\ Cardinality(Newer(c, s)) \in Nat /\ Cardinality(Newer(c, SetOf(u))) \in Nat
      BY <3>1, FS_Subset, FS_CardinalityType
    <3>3. Cardinality(Newer(c, s)) < CloudKeep /\ ~(Cardinality(Newer(c, SetOf(u))) < CloudKeep)
      BY <2>1 DEF Recent
    <3> QED BY <3>2, <3>3, BackupConstantsOK
  <2>3. h[s] > h[SetOf(u)] /\ u.at <= h[SetOf(u)] /\ h[s] \in Int /\ h[SetOf(u)] \in Int
    BY <1>1, <1>2, <1>3, <2>2, <2>1
  <2>4. newest(s) \in PruneCloud(c) /\ SetOf(newest(s)) = s /\ newest(s).at = h[s]
    BY <1>1, <1>2, <1>8, <2>1
  <2>5. u.at \in Int
    BY RowIsUpload
  <2>6. newest(s).at > u.at
    BY <2>3, <2>4, <2>5
  <2> QED BY <2>4, <2>6
<1> QED BY <1>7, <1>8, <1>9, <1>10, <1>11, <1>12

(* Finitely many rows, each of a time of its own, of no more sets than the *)
(* cloud keeps.                                                            *)
CloudInv ==
  /\ cloud \subseteq Upload
  /\ IsFiniteSet(cloud)
  /\ \A u, v \in cloud : u.at = v.at => u = v
  /\ IsFiniteSet(SetsIn(cloud))
  /\ Cardinality(SetsIn(cloud)) <= CloudKeep

LEMMA LatestIs ==
  ASSUME CloudInv
  PROVE  Latest \in Nat /\ \A u \in cloud : u.at <= Latest
<1> DEFINE T == {u.at : u \in cloud} \cup {0}
<1>1. T \in SUBSET Int /\ T \subseteq Nat
  BY RowIsUpload DEF CloudInv
<1>2. \E m \in T : \A x \in T : x <= m
  <2>1. CASE cloud = {}
    BY <2>1
  <2>2. CASE cloud # {}
    <3> DEFINE h == [u \in cloud |-> u.at]
    <3>1. \A u \in cloud : h[u] = u.at /\ h[u] \in Nat
      BY RowIsUpload DEF CloudInv
    <3>2. PICK u \in cloud : \A v \in cloud : h[v] <= h[u]
      <4> HIDE DEF h
      <4> QED BY <2>2, <3>1, GreatestOf DEF CloudInv
    <3>3. u.at \in T /\ \A x \in T : x <= u.at
      BY <3>1, <3>2
    <3> QED BY <3>3
  <2> QED BY <2>1, <2>2
<1>3. PICK m \in T : \A x \in T : x <= m
  BY <1>2
<1>4. Max(T) = m
  <2> HIDE DEF T
  <2> QED BY <1>1, <1>3, MaxIs
<1> QED BY <1>1, <1>3, <1>4 DEF Latest

LEMMA Confirming ==
  ASSUME CloudInv, NEW n \in Names, NEW d \in Contents, cloud' = Confirmed(n, d)
  PROVE  /\ CloudInv'
         /\ \E u \in cloud' : u.name = n /\ u.content = d
         /\ SetsIn(cloud') \subseteq SetsIn(cloud) \cup {SetIdFor[n]}
         /\ \A u \in cloud \ cloud' :
              /\ SetOf(u) \notin SetsIn(cloud')
              /\ \A s \in SetsIn(cloud') : \E v \in cloud' : SetOf(v) = s /\ v.at > u.at
         /\ cloud \subseteq cloud' \/ Cardinality(SetsIn(cloud')) = CloudKeep
<1> DEFINE r == [name |-> n, content |-> d, at |-> Latest + 1]
           c == cloud \cup {r}
<1>1. r \in Upload /\ r.name = n /\ r.content = d /\ r.at = Latest + 1 /\ SetOf(r) = SetIdFor[n]
  BY LatestIs DEF Upload, SetOf
<1>2. \A u \in cloud : u.at \in Nat /\ u.at < r.at /\ u.at <= r.at /\ u.at # r.at
  BY <1>1, LatestIs, RowIsUpload DEF CloudInv
<1>3. r.at \in Nat /\ r.at <= r.at
  BY <1>1, LatestIs
<1>4. cloud' = PruneCloud(c)
  BY DEF Confirmed
<1> HIDE DEF r
<1>5. /\ c \in SUBSET Upload /\ IsFiniteSet(c)
      /\ \A u, v \in c : u.at = v.at => u = v
  BY <1>1, <1>2, FS_AddElement DEF CloudInv
<1>6. SetsIn(c) = SetsIn(cloud) \cup {SetIdFor[n]}
  BY <1>1 DEF SetsIn
<1>7. IsFiniteSet(SetsIn(c)) /\ Cardinality(SetsIn(c)) <= CloudKeep + 1
  <2>1. Cardinality(SetsIn(cloud)) \in Nat /\ CloudKeep \in Nat
    BY FS_CardinalityType, BackupConstantsOK DEF CloudInv
  <2> DEFINE E == SetsIn(cloud)
  <2>2. IsFiniteSet(E \cup {SetIdFor[n]}) /\ Cardinality(E \cup {SetIdFor[n]}) <= Cardinality(E) + 1
    <3>1. IsFiniteSet(E)
      BY DEF CloudInv
    <3> HIDE DEF E
    <3> QED BY <3>1, FS_AddElement, FS_CardinalityType
  <2>3. Cardinality(E) <= CloudKeep
    BY DEF CloudInv
  <2>4. IsFiniteSet(SetsIn(c)) /\ Cardinality(SetsIn(c)) <= Cardinality(E) + 1
    BY <1>6, <2>2, Zenon
  <2>5. Cardinality(SetsIn(c)) \in Nat
    BY <2>4, FS_CardinalityType
  <2> HIDE DEF E, c
  <2> QED BY <2>1, <2>3, <2>4, <2>5 DEF E
<1> HIDE DEF c
<1>8. /\ Cardinality(SetsIn(cloud')) <= CloudKeep
      /\ cloud' # c => Cardinality(SetsIn(cloud')) = CloudKeep
      /\ \A u \in c \ cloud' :
           /\ SetOf(u) \notin SetsIn(cloud')
           /\ \A s \in SetsIn(cloud') : \E v \in cloud' : SetOf(v) = s /\ v.at > u.at
      /\ \A u \in c : (\A v \in c : v.at <= u.at) => u \in cloud'
  BY <1>4, <1>5, <1>7, Pruning
<1>9. cloud' \subseteq c
  BY <1>4 DEF PruneCloud
<1>10. SetsIn(cloud') \subseteq SetsIn(c)
  BY <1>9 DEF SetsIn
<1>11. CloudInv'
  <2>1. IsFiniteSet(cloud') /\ IsFiniteSet(SetsIn(cloud'))
    BY <1>5, <1>7, <1>9, <1>10, FS_Subset
  <2> QED BY <1>5, <1>8, <1>9, <2>1 DEF CloudInv
<1>12. r \in cloud'
  BY <1>2, <1>3, <1>8 DEF c
<1> QED BY <1>1, <1>6, <1>8, <1>10, <1>11, <1>12 DEF c

-----------------------------------------------------------------------------
(* The shape of the state and what the cloud loses, whatever Tally does    *)
(* with its files.                                                         *)

(* The file in hand is there, and what was sent of it is a content.        *)
Sendable ==
  /\ step \in {"recording", "putting", "confirming", "marking"} =>
       key \in Contents /\ folder[busy] \in Contents
  /\ step \in {"confirming", "marking"} => put \in Contents

SInv == BackupTypeOK /\ TodoThere /\ Sendable /\ CloudInv

(* PrunesWholeSets, of one step.                                           *)
LosesWholeSets ==
  /\ Cardinality(SetsIn(cloud')) <= CloudKeep
  /\ \A u \in cloud \ cloud' :
       /\ SetOf(u) \notin SetsIn(cloud')
       /\ \A s \in SetsIn(cloud') : \E v \in cloud' : SetOf(v) = s /\ v.at > u.at

LEMMA CloudUntouched ==
  ASSUME CloudInv, cloud' = cloud
  PROVE  CloudInv' /\ LosesWholeSets
  BY DEF CloudInv, LosesWholeSets

LEMMA SoundWrite ==
  ASSUME SInv, NEW n \in Names, Write(n)
  PROVE  SInv' /\ LosesWholeSets
<1>1. /\ written[n] + 1 \in Contents /\ written[n] + 1 \in 0..MaxWrites
      /\ written' = [written EXCEPT ![n] = written[n] + 1]
      /\ folder' = [folder EXCEPT ![n] = written[n] + 1]
      /\ rewritten' \subseteq Names
      /\ UNCHANGED <<row, landed, seen, todo, step, busy, key, put, cloud, troubles,
                     orphans, dropped, late, arrived>>
  BY BackupConstantsOK
     DEF Write, SInv, BackupTypeOK, Contents, storeVars, agentVars
<1>2. /\ folder' \in [Names -> Contents \cup {Gone}] /\ written' \in [Names -> 0..MaxWrites]
      /\ \A m \in Names : folder[m] \in Contents => folder'[m] \in Contents
      /\ \A m \in Names : folder[m] # Gone => folder'[m] # Gone
  BY <1>1 DEF SInv, BackupTypeOK, Contents, Gone
<1>3. BackupTypeOK'
  BY <1>1, <1>2 DEF SInv, BackupTypeOK
<1>4. TodoThere' /\ Sendable'
  BY <1>1, <1>2 DEF SInv, BackupTypeOK, TodoThere, Sendable, Steps
<1> QED BY <1>1, <1>3, <1>4, CloudUntouched DEF SInv

LEMMA SoundPoll ==
  ASSUME SInv,
         \/ Poll
         \/ \E n \in Names : Look(n) \/ Request(n) \/ RequestFails(n)
         \/ Restart
         \/ UNCHANGED backupVars
  PROVE  SInv' /\ LosesWholeSets
<1>1. CASE Poll
  <2>1. /\ step = "idle" /\ todo' = {n \in Names : folder[n] # Gone} /\ step' = "polling"
        /\ UNCHANGED <<folder, written, row, landed, seen, busy, key, put, cloud, troubles,
                       orphans, dropped, late, arrived, rewritten>>
    BY <1>1 DEF Poll, pcVars, storeVars, pastVars
  <2> QED BY <2>1, CloudUntouched DEF SInv, BackupTypeOK, TodoThere, Sendable, Steps
<1>2. ASSUME NEW n \in Names, Look(n)
      PROVE  SInv' /\ LosesWholeSets
  <2>1. /\ step = "polling" /\ todo' = todo \ {n} /\ step' = step
        /\ seen' = [seen EXCEPT ![n] = Size(n)]
        /\ UNCHANGED <<folder, written, row, landed, busy, key, put, cloud, troubles,
                       orphans, dropped, late, arrived, rewritten>>
    BY <1>2 DEF Look, pcVars, storeVars, pastVars
  <2>2. Size(n) \in Nat
    <3>1. CASE folder[n] = Gone
      BY <3>1 DEF Size, Gone
    <3>2. CASE folder[n] \in Contents /\ folder[n] # Gone
      BY <3>2, Pairs, BackupConstantsOK DEF Size
    <3> QED BY <3>1, <3>2 DEF SInv, BackupTypeOK
  <2>3. seen' \in [Names -> Nat]
    BY <2>1, <2>2 DEF SInv, BackupTypeOK
  <2> QED BY <2>1, <2>3, CloudUntouched DEF SInv, BackupTypeOK, TodoThere, Sendable, Steps
<1>3. ASSUME NEW n \in Names, Request(n)
      PROVE  SInv' /\ LosesWholeSets
  <2>1. /\ step = "polling" /\ n \in todo /\ busy' = n /\ key' = folder[n] /\ step' = "recording"
        /\ UNCHANGED <<folder, written, row, landed, seen, todo, put, cloud, troubles,
                       orphans, dropped, late, arrived, rewritten>>
    BY <1>3 DEF Request, pcVars, storeVars, pastVars
  <2>2. folder[n] \in Contents /\ n # Nobody
    BY <2>1, BackupConstantsOK DEF SInv, BackupTypeOK, TodoThere
  <2> QED BY <2>1, <2>2, CloudUntouched DEF SInv, BackupTypeOK, TodoThere, Sendable, Steps
<1>4. ASSUME NEW n \in Names, RequestFails(n)
      PROVE  SInv' /\ LosesWholeSets
  <2>1. /\ step = "polling" /\ todo' \subseteq todo /\ step' \in {"polling", "idle"}
        /\ troubles < MaxTroubles /\ troubles' = troubles + 1
        /\ UNCHANGED <<folder, written, row, landed, seen, busy, key, put, cloud,
                       orphans, dropped, late, arrived, rewritten>>
    BY <1>4 DEF RequestFails, Trouble, pcVars, storeVars, pastVars
  <2>2. troubles' \in 0..MaxTroubles
    BY <2>1, BackupConstantsOK DEF SInv, BackupTypeOK
  <2> QED BY <2>1, <2>2, CloudUntouched DEF SInv, BackupTypeOK, TodoThere, Sendable, Steps
<1>5. CASE Restart
  <2>1. /\ troubles < MaxTroubles /\ troubles' = troubles + 1
        /\ orphans' = IF step \in {"putting", "confirming", "marking"}
                      THEN orphans \cup {The(busy, key)} ELSE orphans
        /\ seen' = [n \in Names |-> Gone] /\ todo' = {} /\ step' = "idle"
        /\ busy' = Nobody /\ key' = Gone /\ put' = Gone
        /\ UNCHANGED <<folder, written, row, landed, cloud, dropped, late, arrived, rewritten>>
    BY <1>5 DEF Restart, Trouble, pcVars, storeVars
  <2>2. troubles' \in 0..MaxTroubles
    BY <2>1, BackupConstantsOK DEF SInv, BackupTypeOK
  <2>3. orphans' \subseteq File
    BY <2>1 DEF SInv, BackupTypeOK, Sendable, The, File
  <2>4. seen' \in [Names -> Nat]
    BY <2>1 DEF Gone
  <2> QED BY <2>1, <2>2, <2>3, <2>4, CloudUntouched DEF SInv, BackupTypeOK, TodoThere, Sendable, Steps
<1>6. CASE UNCHANGED backupVars
  BY <1>6, CloudUntouched DEF backupVars, pcVars, storeVars, agentVars, pastVars,
                             SInv, BackupTypeOK, TodoThere, Sendable
<1> QED BY <1>1, <1>2, <1>3, <1>4, <1>5, <1>6

LEMMA SoundRecord ==
  ASSUME SInv, Record \/ Put
  PROVE  SInv' /\ LosesWholeSets
<1>1. CASE Record
  <2>1. /\ step = "recording" /\ step' = "putting"
        /\ row' = [row EXCEPT ![The(busy, key)] = "pending"]
        /\ UNCHANGED <<folder, written, landed, seen, todo, busy, key, put, cloud, troubles,
                       orphans, dropped, late, arrived, rewritten>>
    BY <1>1 DEF Record, pcVars, pastVars
  <2>2. row' \in [File -> {"none", "pending", "confirmed", "failed"}]
    BY <2>1 DEF SInv, BackupTypeOK
  <2> QED BY <2>1, <2>2, CloudUntouched DEF SInv, BackupTypeOK, TodoThere, Sendable, Steps
<1>2. CASE Put
  <2>1. /\ step = "putting" /\ step' = "confirming" /\ put' = folder[busy]
        /\ UNCHANGED <<folder, written, row, landed, seen, todo, busy, key, cloud, troubles,
                       orphans, dropped, late, arrived, rewritten>>
    BY <1>2 DEF Put, pcVars, storeVars, pastVars
  <2> QED BY <2>1, CloudUntouched DEF SInv, BackupTypeOK, TodoThere, Sendable, Steps
<1> QED BY <1>1, <1>2

LEMMA SoundConfirm ==
  ASSUME SInv, Confirm
  PROVE  SInv' /\ LosesWholeSets
<1>1. /\ step = "confirming" /\ step' = "marking"
      /\ cloud' = Confirmed(busy, put)
      /\ dropped' = dropped \cup (SetsIn(cloud) \ SetsIn(cloud'))
      /\ late' = (late \/ SetIdFor[busy] \in dropped)
      /\ arrived' = arrived \cup {The(busy, put)}
      /\ UNCHANGED <<folder, written, row, landed, seen, todo, busy, key, put, troubles,
                     orphans, rewritten>>
  BY DEF Confirm, pcVars, storeVars
<1>2. busy \in Names /\ put \in Contents
  BY <1>1 DEF SInv, BackupTypeOK, Sendable
<1>3. /\ CloudInv'
      /\ \A u \in cloud \ cloud' :
           /\ SetOf(u) \notin SetsIn(cloud')
           /\ \A s \in SetsIn(cloud') : \E v \in cloud' : SetOf(v) = s /\ v.at > u.at
  BY <1>1, <1>2, Confirming DEF SInv
<1>4. LosesWholeSets
  BY <1>3 DEF LosesWholeSets, CloudInv
<1>5. SetsIn(cloud) \subseteq {SetIdFor[n] : n \in Names}
  BY RowIsUpload DEF SInv, CloudInv, SetsIn, SetOf
<1>6. dropped' \subseteq {SetIdFor[n] : n \in Names} /\ late' \in BOOLEAN /\ cloud' \subseteq Upload
      /\ arrived' \subseteq File
  BY <1>1, <1>2, <1>3, <1>5, Pairs DEF SInv, BackupTypeOK, CloudInv
<1>7. BackupTypeOK'
  BY <1>1, <1>6 DEF SInv, BackupTypeOK, Steps
<1> QED BY <1>1, <1>3, <1>4, <1>7 DEF SInv, TodoThere, Sendable

LEMMA SoundSettle ==
  ASSUME SInv, MarkConfirmed \/ UploadFails
  PROVE  SInv' /\ LosesWholeSets
<1>1. PICK status \in {"confirmed", "failed"} :
        /\ step \in {"putting", "confirming", "marking"}
        /\ Settle(status)
        /\ troubles' \in 0..MaxTroubles
        /\ UNCHANGED <<folder, written, seen, cloud, orphans, dropped, late, arrived, rewritten>>
  BY BackupConstantsOK DEF MarkConfirmed, UploadFails, Trouble, pcVars, pastVars, SInv, BackupTypeOK
<1> DEFINE f == The(busy, key)
<1>2. /\ row' = [row EXCEPT ![f] = status]
      /\ landed' = IF status = "confirmed" THEN Append(landed, f) ELSE landed
      /\ todo' = todo \ {busy} /\ step' = "polling"
      /\ busy' = Nobody /\ key' = Gone /\ put' = Gone
  BY <1>1 DEF Settle
<1>3. f \in File
  BY <1>1, Pairs DEF SInv, BackupTypeOK, Sendable
<1> HIDE DEF f
<1>4. row' \in [File -> {"none", "pending", "confirmed", "failed"}]
  BY <1>2, <1>3 DEF SInv, BackupTypeOK
<1>5. landed' \in Seq(File)
  BY <1>2, <1>3, AppendProperties DEF SInv, BackupTypeOK
<1> QED BY <1>1, <1>2, <1>4, <1>5, CloudUntouched
      DEF SInv, BackupTypeOK, TodoThere, Sendable, Steps

LEMMA SoundPrune ==
  ASSUME SInv, NEW stuck \in SUBSET Names, PruneLocal(stuck)
  PROVE  SInv' /\ LosesWholeSets
<1>1. /\ step = "polling" /\ todo = {} /\ step' = "idle"
      /\ folder' = [n \in Names |-> IF n \in Old \ stuck THEN Gone ELSE folder[n]]
      /\ UNCHANGED <<written, row, landed, seen, todo, busy, key, put, cloud, troubles,
                     orphans, dropped, late, arrived, rewritten>>
  BY DEF PruneLocal, storeVars, pastVars
<1>2. folder' \in [Names -> Contents \cup {Gone}]
  BY <1>1 DEF SInv, BackupTypeOK
<1> QED BY <1>1, <1>2, CloudUntouched DEF SInv, BackupTypeOK, TodoThere, Sendable, Steps

LEMMA SoundStart == BackupInit => SInv
<1> SUFFICES ASSUME BackupInit PROVE SInv
  OBVIOUS
<1>1. landed \in Seq(File)
  BY EmptySeq DEF BackupInit
<1>2. cloud = {} /\ SetsIn(cloud) = {}
  BY DEF BackupInit, SetsIn
<1>3. CloudInv
  BY <1>2, FS_EmptySet, BackupConstantsOK DEF CloudInv
<1>4. MaxWrites \in Nat /\ MaxTroubles \in Nat
  BY BackupConstantsOK
<1>5. 0 \in 0..MaxWrites /\ 0 \in 0..MaxTroubles
  BY <1>4
<1>6. /\ folder \in [Names -> Contents \cup {Gone}] /\ written \in [Names -> 0..MaxWrites]
      /\ seen \in [Names -> Nat]
      /\ row \in [File -> {"none", "pending", "confirmed", "failed"}]
  BY <1>5 DEF BackupInit, Gone
<1>7. BackupTypeOK
  BY <1>1, <1>2, <1>5, <1>6 DEF BackupInit, BackupTypeOK, Steps
<1> QED BY <1>3, <1>7 DEF BackupInit, SInv, TodoThere, Sendable

LEMMA SoundStep ==
  ASSUME SInv, [BackupNext]_backupVars
  PROVE  SInv' /\ LosesWholeSets
<1>1. CASE \/ Poll
           \/ \E n \in Names : Look(n) \/ Request(n) \/ RequestFails(n)
           \/ Restart
           \/ UNCHANGED backupVars
  BY <1>1, SoundPoll
<1>2. CASE \E n \in Names : Write(n)
  BY <1>2, SoundWrite
<1>3. CASE Record \/ Put
  BY <1>3, SoundRecord
<1>4. CASE Confirm
  BY <1>4, SoundConfirm
<1>5. CASE MarkConfirmed \/ UploadFails
  BY <1>5, SoundSettle
<1>6. CASE \E stuck \in SUBSET Names : PruneLocal(stuck)
  BY <1>6, SoundPrune
<1> QED BY <1>1, <1>2, <1>3, <1>4, <1>5, <1>6 DEF BackupNext, Looking, Uploading

(* The agent is where it should be with what it has in hand, and every     *)
(* value is of its kind, whatever Tally writes and whatever fails.         *)
THEOREM BackupWellTyped == BackupSpec => []BackupTypeOK
<1>1. SInv /\ [BackupNext]_backupVars => SInv'
  BY SoundStep
<1>2. SInv => BackupTypeOK
  BY DEF SInv
<1> QED BY <1>1, <1>2, SoundStart, PTL DEF BackupSpec

(* The cloud deletes only whole sets, and keeps no more than it should     *)
(* (prune_confirmed_backups).                                              *)
THEOREM OnlyWholeSetsLost == BackupSpec => PrunesWholeSets
<1>1. SInv /\ [BackupNext]_backupVars => SInv' /\ [LosesWholeSets]_backupVars
  BY SoundStep
<1>2. BackupSpec => [][LosesWholeSets]_backupVars
  <2> HIDE DEF LosesWholeSets
  <2> QED BY <1>1, SoundStart, PTL DEF BackupSpec
<1> QED BY <1>2 DEF LosesWholeSets, PrunesWholeSets

-----------------------------------------------------------------------------
(* What the agent deletes, and where a finished backup is.                 *)

Settling == {"recording", "putting", "confirming", "marking"}

(* A row that is pending for the upload in hand is of no finished upload.  *)
RowInHand ==
  /\ step = "recording" => ~Known(The(busy, key))
  /\ step \in {"putting", "confirming", "marking"} => row[The(busy, key)] = "pending"

LandedConfirmed == \A k \in DOMAIN landed : row[landed[k]] = "confirmed"

WasConfirmed(n) == \E c \in Contents : row[The(n, c)] = "confirmed"

(* A file is as Tally left it, or deleted once one of its name was         *)
(* confirmed.                                                              *)
LastOrGone ==
  \A n \in Names : /\ folder[n] \in {written[n], Gone}
                   /\ folder[n] = written[n] \/ WasConfirmed(n)

(* What was confirmed of a name that Tally left alone from then on is what *)
(* Tally wrote last.                                                       *)
SentArrived ==
  /\ \A n \in Names \ rewritten : WasConfirmed(n) => The(n, written[n]) \in arrived
  /\ busy \notin rewritten =>
       /\ step \in {"confirming", "marking"} => put = written[busy]
       /\ step = "marking" => The(busy, written[busy]) \in arrived

Stored(n, c) ==
  \/ \E u \in cloud : u.name = n /\ u.content = c
  \/ SetIdFor[n] \in dropped

(* What arrived is in the cloud, or was there until its set went.          *)
InCloud == \A n \in Names, c \in Contents : The(n, c) \in arrived => Stored(n, c)

(* A set that went has given way to others, and they are there.            *)
GaveWay ==
  ~late => \A s \in dropped : s \notin SetsIn(cloud) /\ Cardinality(SetsIn(cloud)) = CloudKeep

Rows == RowInHand /\ LandedConfirmed
Kept == InCloud /\ GaveWay

KInv == SInv /\ Rows /\ LastOrGone /\ SentArrived /\ Kept

(* PrunesWhatWasSent, of one step.                                         *)
PrunedWasSent ==
  \A n \in Names \ rewritten :
    (folder[n] # Gone /\ folder'[n] = Gone) => The(n, folder[n]) \in arrived

LEMMA NoneDeleted ==
  ASSUME folder' = folder
  PROVE  PrunedWasSent
  BY DEF PrunedWasSent

LEMMA KeptBecause == KInv => BackupKept
<1> SUFFICES ASSUME KInv, ~late, NEW n \in Names \ rewritten, written[n] # folder[n]
             PROVE  \/ \E u \in cloud : u.name = n /\ u.content = written[n]
                    \/ Cardinality(SetsIn(cloud) \ {SetIdFor[n]}) = CloudKeep
  BY DEF BackupKept
<1>1. The(n, written[n]) \in arrived
  BY DEF KInv, LastOrGone, SentArrived
<1>2. written[n] \in Contents
  <2>1. The(n, written[n]) \in File
    BY <1>1 DEF KInv, SInv, BackupTypeOK
  <2> QED BY <2>1 DEF File, The
<1>3. Stored(n, written[n])
  BY <1>1, <1>2 DEF KInv, Kept, InCloud
<1>4. CASE SetIdFor[n] \in dropped
  <2>1. SetIdFor[n] \notin SetsIn(cloud) /\ Cardinality(SetsIn(cloud)) = CloudKeep
    BY <1>4 DEF KInv, Kept, GaveWay
  <2>2. SetsIn(cloud) \ {SetIdFor[n]} = SetsIn(cloud)
    BY <2>1
  <2> QED BY <2>1, <2>2, Zenon
<1> QED BY <1>3, <1>4 DEF Stored

LEMMA KeptUntouched ==
  ASSUME KInv, UNCHANGED <<cloud, arrived, dropped, late>>
  PROVE  Kept'
  BY DEF KInv, Kept, InCloud, GaveWay, Stored

LEMMA HandIs ==
  ASSUME SInv, step \in Settling
  PROVE  busy \in Names /\ key \in Contents /\ folder[busy] \in Contents /\ folder[busy] # Gone
  BY BackupConstantsOK DEF SInv, BackupTypeOK, Sendable, Settling, Contents, Gone

LEMMA KeptWrite ==
  ASSUME KInv, NEW n \in Names, Write(n)
  PROVE  (Rows /\ LastOrGone /\ SentArrived /\ Kept)' /\ PrunedWasSent
<1>1. /\ written[n] + 1 \in Contents /\ written[n] + 1 # Gone
      /\ written' = [written EXCEPT ![n] = written[n] + 1]
      /\ folder' = [folder EXCEPT ![n] = written[n] + 1]
      /\ rewritten' = IF Sent(n) THEN rewritten \cup {n} ELSE rewritten
      /\ UNCHANGED <<row, landed, step, busy, key, put, cloud, dropped, late, arrived>>
  BY BackupConstantsOK DEF Write, KInv, SInv, BackupTypeOK, Contents, Gone, storeVars, agentVars
<1>2. /\ folder'[n] = written'[n] /\ folder'[n] # Gone
      /\ \A m \in Names \ {n} : folder'[m] = folder[m] /\ written'[m] = written[m]
  BY <1>1 DEF KInv, SInv, BackupTypeOK
<1>3. Rows'
  BY <1>1 DEF KInv, Rows, RowInHand, LandedConfirmed, Known
<1>4. LastOrGone'
  BY <1>1, <1>2 DEF KInv, LastOrGone, WasConfirmed
<1>5. SentArrived'
  <2>1. n \notin rewritten' => ~Sent(n)
    BY <1>1
  <2>2. ASSUME NEW m \in Names \ rewritten', WasConfirmed(m)'
        PROVE  The(m, written'[m]) \in arrived'
    <3>1. WasConfirmed(m) /\ m \notin rewritten
      BY <1>1, <2>2 DEF WasConfirmed
    <3>2. m # n
      BY <2>1, <2>2, <3>1 DEF Sent, WasConfirmed
    <3> QED BY <1>1, <1>2, <3>1, <3>2 DEF KInv, SentArrived
  <2>3. ASSUME busy' \notin rewritten', step' \in {"confirming", "marking"}
        PROVE  /\ put' = written'[busy']
               /\ step' = "marking" => The(busy', written'[busy']) \in arrived'
    <3>1. busy \in Names /\ busy \notin rewritten
      BY <1>1, <2>3, HandIs DEF KInv, Settling
    <3>2. busy # n
      BY <1>1, <2>1, <2>3 DEF Sent
    <3> QED BY <1>1, <1>2, <2>3, <3>1, <3>2 DEF KInv, SentArrived
  <2> QED BY <2>2, <2>3 DEF SentArrived
<1>6. PrunedWasSent
  BY <1>1, <1>2 DEF PrunedWasSent
<1> QED BY <1>1, <1>3, <1>4, <1>5, <1>6, KeptUntouched

(* Steps on which neither files nor rows nor the cloud change.             *)
LEMMA KeptQuiet ==
  ASSUME KInv,
         \/ Poll
         \/ \E n \in Names : Look(n) \/ Request(n) \/ RequestFails(n)
         \/ Restart
         \/ UNCHANGED backupVars
  PROVE  (Rows /\ LastOrGone /\ SentArrived /\ Kept)' /\ PrunedWasSent
<1>1. UNCHANGED <<folder, written, row, landed, cloud, dropped, late, arrived, rewritten>>
  BY DEF Poll, Look, Request, RequestFails, Restart, backupVars, pcVars, storeVars, pastVars
<1>2. LastOrGone' /\ Kept' /\ PrunedWasSent /\ LandedConfirmed'
  BY <1>1, KeptUntouched, NoneDeleted
     DEF KInv, LastOrGone, WasConfirmed, Rows, LandedConfirmed
<1>3. CASE Poll \/ Restart \/ \E n \in Names : Look(n) \/ RequestFails(n)
  <2>1. step' \in {"idle", "polling"}
    BY <1>3 DEF Poll, Restart, Look, RequestFails
  <2> QED BY <1>1, <1>2, <2>1 DEF KInv, Rows, RowInHand, SentArrived, WasConfirmed
<1>4. ASSUME NEW n \in Names, Request(n)
      PROVE  (Rows /\ SentArrived)'
  <2>1. step' = "recording" /\ ~Known(The(n, folder[n])) /\ busy' = n /\ key' = folder[n]
    BY <1>4 DEF Request, Landed
  <2> QED BY <1>1, <1>2, <2>1 DEF KInv, Rows, RowInHand, SentArrived, WasConfirmed, Known
<1>5. CASE UNCHANGED backupVars
  BY <1>1, <1>2, <1>5 DEF backupVars, agentVars, KInv, Rows, RowInHand, Known, SentArrived, WasConfirmed
<1> QED BY <1>2, <1>3, <1>4, <1>5

(* The row of the file in hand changes, and nothing else of these.         *)
LEMMA RowOf ==
  ASSUME KInv, step \in Settling,
         NEW status \in {"pending", "confirmed", "failed"},
         row' = [row EXCEPT ![The(busy, key)] = status],
         UNCHANGED <<folder, written, arrived, rewritten>>
  PROVE  /\ row'[The(busy, key)] = status
         /\ \A k \in DOMAIN landed : row'[landed[k]] = "confirmed"
         /\ LastOrGone'
         /\ \A n \in Names \ rewritten : WasConfirmed(n)' =>
              \/ The(n, written[n]) \in arrived
              \/ n = busy /\ status = "confirmed"
<1>1. busy \in Names /\ key \in Contents /\ The(busy, key) \in File
  BY HandIs, Pairs DEF KInv
<1>2. row'[The(busy, key)] = status /\ \A f \in File \ {The(busy, key)} : row'[f] = row[f]
  BY <1>1 DEF KInv, SInv, BackupTypeOK
<1>3. row[The(busy, key)] # "confirmed"
  BY DEF KInv, Rows, RowInHand, Known, Settling
<1>4. ASSUME NEW k \in DOMAIN landed
      PROVE  row'[landed[k]] = "confirmed"
  <2>1. row[landed[k]] = "confirmed"
    BY DEF KInv, Rows, LandedConfirmed
  <2>2. landed[k] \in File
    BY LenProperties, ElementOfSeq DEF KInv, SInv, BackupTypeOK
  <2> QED BY <1>2, <1>3, <2>1, <2>2
<1>5. ASSUME NEW n \in Names, WasConfirmed(n)
      PROVE  WasConfirmed(n)'
  <2>1. PICK c \in Contents : row[The(n, c)] = "confirmed"
    BY <1>5 DEF WasConfirmed
  <2>2. row'[The(n, c)] = "confirmed"
    BY <1>2, <1>3, <2>1, Pairs
  <2> QED BY <2>2 DEF WasConfirmed
<1>6. LastOrGone'
  BY <1>5 DEF KInv, LastOrGone
<1>7. ASSUME NEW n \in Names \ rewritten, WasConfirmed(n)'
      PROVE  The(n, written[n]) \in arrived \/ (n = busy /\ status = "confirmed")
  <2>1. PICK c \in Contents : row'[The(n, c)] = "confirmed"
    BY <1>7 DEF WasConfirmed
  <2>2. CASE The(n, c) = The(busy, key)
    BY <1>1, <1>2, <2>1, <2>2, Pairs
  <2>3. CASE The(n, c) # The(busy, key)
    <3>1. WasConfirmed(n)
      BY <1>2, <2>1, <2>3, Pairs DEF WasConfirmed
    <3> QED BY <3>1 DEF KInv, SentArrived
  <2> QED BY <2>2, <2>3
<1> QED BY <1>2, <1>4, <1>6, <1>7

LEMMA KeptRecord ==
  ASSUME KInv, Record \/ Put
  PROVE  (Rows /\ LastOrGone /\ SentArrived /\ Kept)' /\ PrunedWasSent
<1>1. UNCHANGED <<folder, written, landed, busy, key, cloud, dropped, late, arrived, rewritten>>
  BY DEF Record, Put, pcVars, storeVars, pastVars
<1>2. Kept' /\ PrunedWasSent
  BY <1>1, KeptUntouched, NoneDeleted
<1>3. CASE Record
  <2>1. /\ row' = [row EXCEPT ![The(busy, key)] = "pending"]
        /\ step = "recording" /\ step' = "putting" /\ step \in Settling
    BY <1>3 DEF Record, Settling
  <2>2. /\ row'[The(busy, key)] = "pending"
        /\ \A k \in DOMAIN landed : row'[landed[k]] = "confirmed"
        /\ LastOrGone'
        /\ \A n \in Names \ rewritten : WasConfirmed(n)' => The(n, written[n]) \in arrived
    <3>1. row' = [row EXCEPT ![The(busy, key)] = "pending"] /\ step \in Settling
      BY <2>1
    <3>2. UNCHANGED <<folder, written, arrived, rewritten>>
      BY <1>1
    <3>3. /\ row'[The(busy, key)] = "pending"
          /\ \A k \in DOMAIN landed : row'[landed[k]] = "confirmed"
          /\ LastOrGone'
          /\ \A n \in Names \ rewritten : WasConfirmed(n)' =>
               \/ The(n, written[n]) \in arrived
               \/ n = busy /\ "pending" = "confirmed"
      BY <3>1, <3>2, RowOf
    <3> QED BY <3>3
  <2> QED BY <1>1, <1>2, <2>1, <2>2 DEF Rows, RowInHand, LandedConfirmed, SentArrived
<1>4. CASE Put
  <2>1. /\ step = "putting" /\ step' = "confirming" /\ put' = folder[busy] /\ row' = row
        /\ step \in Settling
    BY <1>4 DEF Put, storeVars, Settling
  <2>2. put' = written[busy]
    BY <2>1, HandIs DEF KInv, LastOrGone
  <2> QED BY <1>1, <1>2, <2>1, <2>2
        DEF KInv, Rows, RowInHand, LandedConfirmed, LastOrGone, SentArrived, WasConfirmed
<1> QED BY <1>3, <1>4

LEMMA KeptSettle ==
  ASSUME KInv, MarkConfirmed \/ UploadFails
  PROVE  (Rows /\ LastOrGone /\ SentArrived /\ Kept)' /\ PrunedWasSent
<1>1. PICK status \in {"confirmed", "failed"} :
        /\ step \in {"putting", "confirming", "marking"}
        /\ status = "confirmed" => step = "marking"
        /\ Settle(status)
        /\ UNCHANGED <<folder, written, cloud, dropped, late, arrived, rewritten>>
  BY DEF MarkConfirmed, UploadFails, pcVars, pastVars
<1> DEFINE f == The(busy, key)
<1>2. /\ row' = [row EXCEPT ![The(busy, key)] = status]
      /\ landed' = IF status = "confirmed" THEN Append(landed, f) ELSE landed
      /\ step' = "polling" /\ step \in Settling
  BY <1>1 DEF Settle, Settling
<1>3. /\ row'[f] = status
      /\ \A k \in DOMAIN landed : row'[landed[k]] = "confirmed"
      /\ LastOrGone'
      /\ \A n \in Names \ rewritten : WasConfirmed(n)' =>
           \/ The(n, written[n]) \in arrived
           \/ n = busy /\ status = "confirmed"
  BY <1>1, <1>2, RowOf
<1>4. f \in File
  BY <1>2, HandIs, Pairs DEF KInv
<1> HIDE DEF f
<1>5. LandedConfirmed'
  <2>1. CASE status = "failed"
    BY <1>2, <1>3, <2>1 DEF LandedConfirmed
  <2>2. CASE status = "confirmed"
    <3>1. /\ landed' \in Seq(File) /\ Len(landed') = Len(landed) + 1
          /\ \A k \in 1..Len(landed) : landed'[k] = landed[k]
          /\ landed'[Len(landed) + 1] = f
      BY <1>2, <1>4, <2>2, AppendProperties DEF KInv, SInv, BackupTypeOK
    <3>2. /\ Len(landed) \in Nat /\ DOMAIN landed = 1..Len(landed)
          /\ DOMAIN landed' = 1..(Len(landed) + 1)
      BY <3>1, LenProperties DEF KInv, SInv, BackupTypeOK
    <3>3. 1..(Len(landed) + 1) = 1..Len(landed) \cup {Len(landed) + 1}
      BY <3>2
    <3> QED BY <1>3, <2>2, <3>1, <3>2, <3>3 DEF LandedConfirmed
  <2> QED BY <2>1, <2>2
<1>6. ASSUME NEW n \in Names \ rewritten, WasConfirmed(n)'
      PROVE  The(n, written[n]) \in arrived
  BY <1>1, <1>3, <1>6 DEF KInv, SentArrived
<1>7. SentArrived' /\ RowInHand'
  BY <1>1, <1>2, <1>6 DEF SentArrived, RowInHand
<1> QED BY <1>1, <1>3, <1>5, <1>7, KeptUntouched, NoneDeleted DEF Rows

LEMMA KeptConfirm ==
  ASSUME KInv, Confirm
  PROVE  (Rows /\ LastOrGone /\ SentArrived /\ Kept)' /\ PrunedWasSent
<1>1. /\ step = "confirming" /\ step' = "marking" /\ step \in Settling
      /\ cloud' = Confirmed(busy, put)
      /\ dropped' = dropped \cup (SetsIn(cloud) \ SetsIn(cloud'))
      /\ late' = (late \/ SetIdFor[busy] \in dropped)
      /\ arrived' = arrived \cup {The(busy, put)}
      /\ UNCHANGED <<folder, written, row, landed, busy, key, put, rewritten>>
  BY DEF Confirm, pcVars, storeVars, Settling
<1>2. busy \in Names /\ put \in Contents /\ CloudInv
  BY <1>1, HandIs DEF KInv, SInv, Sendable
<1>3. /\ CloudInv'
      /\ \E u \in cloud' : u.name = busy /\ u.content = put
      /\ SetsIn(cloud') \subseteq SetsIn(cloud) \cup {SetIdFor[busy]}
      /\ cloud \subseteq cloud' \/ Cardinality(SetsIn(cloud')) = CloudKeep
      /\ \A u \in cloud \ cloud' : SetOf(u) \notin SetsIn(cloud')
  BY <1>1, <1>2, Confirming
<1>4. (Rows /\ LastOrGone /\ SentArrived)'
  BY <1>1 DEF KInv, Rows, RowInHand, LandedConfirmed, LastOrGone, SentArrived, WasConfirmed, Known
<1>5. ASSUME NEW n \in Names, NEW c \in Contents, Stored(n, c)
      PROVE  Stored(n, c)'
  <2>1. CASE SetIdFor[n] \in dropped
    BY <1>1, <2>1 DEF Stored
  <2>2. ASSUME NEW u \in cloud, u.name = n, u.content = c
        PROVE  Stored(n, c)'
    <3>1. SetOf(u) = SetIdFor[n] /\ SetOf(u) \in SetsIn(cloud)
      BY <2>2 DEF SetOf, SetsIn
    <3> QED BY <1>1, <1>3, <2>2, <3>1 DEF Stored
  <2> QED BY <1>5, <2>1, <2>2 DEF Stored
<1>6. InCloud'
  <2> SUFFICES ASSUME NEW n \in Names, NEW c \in Contents, The(n, c) \in arrived'
               PROVE  Stored(n, c)'
    BY DEF InCloud
  <2>1. CASE The(n, c) = The(busy, put)
    <3>1. n = busy /\ c = put
      BY <1>2, <2>1, Pairs
    <3> QED BY <1>3, <3>1 DEF Stored
  <2>2. CASE The(n, c) \in arrived
    BY <1>5, <2>2 DEF KInv, Kept, InCloud
  <2> QED BY <1>1, <2>1, <2>2
<1>7. ASSUME ~late', NEW s \in dropped'
      PROVE  s \notin SetsIn(cloud') /\ Cardinality(SetsIn(cloud')) = CloudKeep
  <2>1. ~late /\ SetIdFor[busy] \notin dropped
    BY <1>1, <1>7
  <2>2. CASE s \in dropped
    <3>1. s \notin SetsIn(cloud) /\ Cardinality(SetsIn(cloud)) = CloudKeep
      BY <2>1, <2>2 DEF KInv, Kept, GaveWay
    <3>2. s \notin SetsIn(cloud')
      BY <1>3, <2>1, <2>2, <3>1
    <3>3. CASE cloud \subseteq cloud'
      <4>1. SetsIn(cloud) \subseteq SetsIn(cloud')
        BY <3>3 DEF SetsIn
      <4>2. IsFiniteSet(SetsIn(cloud')) /\ Cardinality(SetsIn(cloud')) <= CloudKeep
        BY <1>3 DEF CloudInv
      <4>3. Cardinality(SetsIn(cloud)) <= Cardinality(SetsIn(cloud'))
        BY <4>1, <4>2, FS_Subset
      <4>4. Cardinality(SetsIn(cloud')) \in Nat /\ CloudKeep \in Nat
        BY <4>2, FS_CardinalityType, BackupConstantsOK
      <4> QED BY <3>1, <3>2, <4>2, <4>3, <4>4
    <3> QED BY <1>3, <3>2, <3>3
  <2>3. CASE s \in SetsIn(cloud) \ SetsIn(cloud')
    <3>1. ~(cloud \subseteq cloud')
      BY <2>3 DEF SetsIn
    <3> QED BY <1>3, <2>3, <3>1
  <2> QED BY <1>1, <2>2, <2>3
<1> QED BY <1>1, <1>4, <1>6, <1>7, NoneDeleted DEF GaveWay, Kept

(* The agent deletes by name; one of that name was confirmed, and unless   *)
(* Tally wrote to it since, that is what it deletes.                       *)
LEMMA KeptPrune ==
  ASSUME KInv, NEW stuck \in SUBSET Names, PruneLocal(stuck)
  PROVE  (Rows /\ LastOrGone /\ SentArrived /\ Kept)' /\ PrunedWasSent
<1>1. /\ step' = "idle"
      /\ folder' = [n \in Names |-> IF n \in Old \ stuck THEN Gone ELSE folder[n]]
      /\ UNCHANGED <<written, row, landed, cloud, dropped, late, arrived, rewritten>>
  BY DEF PruneLocal, storeVars, pastVars
<1>2. ASSUME NEW n \in Old
      PROVE  WasConfirmed(n)
  <2>1. PICK k \in DOMAIN landed : landed[k].name = n
    BY DEF Old
  <2>2. landed[k] \in File /\ row[landed[k]] = "confirmed"
    BY LenProperties, ElementOfSeq DEF KInv, SInv, BackupTypeOK, Rows, LandedConfirmed
  <2>3. landed[k] = The(n, landed[k].content) /\ landed[k].content \in Contents
    BY <2>1, <2>2 DEF File, The
  <2> QED BY <2>2, <2>3 DEF WasConfirmed
<1>3. ASSUME NEW n \in Names
      PROVE  /\ folder'[n] = folder[n] \/ (folder'[n] = Gone /\ WasConfirmed(n))
             /\ WasConfirmed(n)' <=> WasConfirmed(n)
  BY <1>1, <1>2 DEF WasConfirmed
<1>4. LastOrGone'
  BY <1>1, <1>3 DEF KInv, LastOrGone
<1>5. PrunedWasSent
  BY <1>3 DEF PrunedWasSent, KInv, LastOrGone, SentArrived
<1>6. Rows' /\ SentArrived'
  BY <1>1, <1>3 DEF KInv, Rows, RowInHand, LandedConfirmed, SentArrived
<1> QED BY <1>1, <1>4, <1>5, <1>6, KeptUntouched

LEMMA KeptStep ==
  ASSUME KInv, [BackupNext]_backupVars
  PROVE  KInv' /\ PrunedWasSent
<1>1. SInv'
  BY SoundStep DEF KInv
<1>2. (Rows /\ LastOrGone /\ SentArrived /\ Kept)' /\ PrunedWasSent
  <2>1. CASE \E n \in Names : Write(n)
    BY <2>1, KeptWrite
  <2>2. CASE \/ Poll
             \/ \E n \in Names : Look(n) \/ Request(n) \/ RequestFails(n)
             \/ Restart
             \/ UNCHANGED backupVars
    BY <2>2, KeptQuiet
  <2>3. CASE Record \/ Put
    BY <2>3, KeptRecord
  <2>4. CASE Confirm
    BY <2>4, KeptConfirm
  <2>5. CASE MarkConfirmed \/ UploadFails
    BY <2>5, KeptSettle
  <2>6. CASE \E stuck \in SUBSET Names : PruneLocal(stuck)
    BY <2>6, KeptPrune
  <2> QED BY <2>1, <2>2, <2>3, <2>4, <2>5, <2>6 DEF BackupNext, Looking, Uploading
<1> QED BY <1>1, <1>2 DEF KInv

LEMMA KeptStart == BackupInit => KInv
<1> SUFFICES ASSUME BackupInit PROVE KInv
  OBVIOUS
<1>1. SInv
  BY SoundStart
<1>2. \A n \in Names, c \in Contents : row[The(n, c)] = "none"
  BY Pairs DEF BackupInit
<1>3. DOMAIN landed = {}
  BY EmptySeq DEF BackupInit
<1> QED BY <1>1, <1>2, <1>3 DEF BackupInit, KInv, Rows, RowInHand, LandedConfirmed, LastOrGone,
                               SentArrived, WasConfirmed, Kept, InCloud, GaveWay, Gone

(* What the agent deletes is in the cloud, by its very content, or Tally   *)
(* wrote to it while it was being sent or after one of its name was        *)
(* confirmed.                                                              *)
THEOREM OnlyWhatWasSentPruned == BackupSpec => PrunesWhatWasSent
<1>1. KInv /\ [BackupNext]_backupVars => KInv' /\ [PrunedWasSent]_backupVars
  BY KeptStep
<1>2. BackupSpec => [][PrunedWasSent]_backupVars
  <2> HIDE DEF PrunedWasSent
  <2> QED BY <1>1, KeptStart, PTL DEF BackupSpec
<1> QED BY <1>2 DEF PrunedWasSent, PrunesWhatWasSent, Deleted

(* A finished backup is on the shop's PC or in the cloud, or the cloud is  *)
(* full of other sets, or Tally wrote to the file when it was sent.        *)
THEOREM FinishedBackupsKept == BackupSpec => []BackupKept
<1>1. KInv /\ [BackupNext]_backupVars => KInv'
  BY KeptStep
<1> QED BY <1>1, KeptStart, KeptBecause, PTL DEF BackupSpec
=============================================================================

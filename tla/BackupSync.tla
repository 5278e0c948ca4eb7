----------------------------- MODULE BackupSync -----------------------------
(***************************************************************************)
(* How the Windows agent carries Tally's backup files to the cloud and     *)
(* makes room for more.  Every few minutes it looks at the files of the    *)
(* watch folder: one whose size has not changed since the last look is     *)
(* uploaded, unless its key (name, size and time) is known; then the local *)
(* copies of all but the newest uploads are deleted.  The backend keeps    *)
(* the newest sets of files and deletes whole sets.                        *)
(*                                                                         *)
(* A content is a number: Tally's n-th writing to the file.  Two contents  *)
(* of one file differ in size or time, so a content stands for the key.    *)
(* Tally may write to any file at any time, also to one that is being      *)
(* uploaded or was.                                                        *)
(*                                                                         *)
(* A definition whose comment begins with "Slip" is a deliberate mistake   *)
(* that stands for no code: it takes the place of the definition after it  *)
(* to show that the properties notice it.                                  *)
(***************************************************************************)
EXTENDS Integers, Sequences, FiniteSets, FiniteSetsExt

CONSTANTS Names,             \* the file names Tally writes its backups under
          SetIdFor,          \* [Names -> the run a file belongs to]
          CloudKeep,         \* sets the cloud keeps for the shop
          LocalKeep,         \* LocalRetentionCount
          SizeOf,            \* [File -> a content's size]; two may have one size
          MaxWrites,         \* bound: how often Tally writes to one name
          MaxAgain,          \* bound: how many names it writes to again
          MaxTroubles,       \* bound: restarts of the agent and failed calls
          Nobody             \* not a name

Contents == 1..MaxWrites
Gone == 0
File == [name : Names, content : Contents]
Upload == [name : Names, content : Contents, at : Nat]     \* at: uploaded_at

ASSUME BackupConstantsOK ==
  /\ IsFiniteSet(Names)
  /\ Nobody \notin Names
  /\ DOMAIN SetIdFor = Names
  /\ CloudKeep \in Nat \ {0}
  /\ LocalKeep \in Nat
  /\ SizeOf \in [File -> Nat \ {0}]
  /\ {MaxWrites, MaxAgain, MaxTroubles} \subseteq Nat

VARIABLES
  folder,    \* [Names -> the content of the file in the watch folder, or Gone]
  written,   \* [Names -> how often Tally has written to the name]
  seen,      \* _lastSeenSize: [Names -> the size at the last look, or Gone]
  row,       \* processed_backup: [File -> status]
  landed,    \* its confirmed rows, by confirmed_utc
  todo,      \* the names the present poll has still to look at
  step,      \* where the agent is
  busy,      \* the name it is uploading, or Nobody
  key,       \* the content it decided to upload
  put,       \* the content that was sent
  cloud,     \* the confirmed BackupUpload rows of the shop
  troubles,  \* how many restarts and failed calls there were
  orphans,   \* history: files whose upload a restart cut short
  dropped,   \* history: the sets the cloud has deleted
  late,      \* history: did a file come after the cloud had deleted its set?
  arrived,   \* history: the contents whose upload the backend confirmed
  rewritten  \* history: names Tally wrote to when they were sent already

pcVars    == <<folder, written>>
storeVars == <<row, landed>>
pastVars  == <<orphans, dropped, late, arrived, rewritten>>
agentVars == <<seen, todo, step, busy, key, put>>
backupVars == <<pcVars, storeVars, agentVars, cloud, troubles, pastVars>>

Steps == {"idle", "polling", "recording", "putting", "confirming", "marking"}

Known(f) == row[f] \in {"pending", "confirmed"}

The(n, c) == [name |-> n, content |-> c]

-----------------------------------------------------------------------------
(* The cloud's retention. *)

SetOf(u) == SetIdFor[u.name]

SetsIn(c) == {SetOf(u) : u \in c}

(* The sets with a file that is newer than every file of s. *)
Newer(c, s) == {SetOf(u) : u \in {u \in c : \A v \in c : SetOf(v) = s => u.at > v.at}}

(* Is s among the newest CloudKeep sets, by each set's newest file? *)
Recent(c, s) == Cardinality(Newer(c, s)) < CloudKeep

(* Slip: the files beyond a number of files go, not the sets beyond a      *)
(* number of sets.                                                         *)
PruneCloud_ByFile(c) == {u \in c : Cardinality({v \in c : v.at > u.at}) < CloudKeep}

PruneCloud(c) == {u \in c : Recent(c, SetOf(u))}

(* What the cloud holds once content c of file n is confirmed: a row of    *)
(* its own, later than all before it, and only the newest sets.            *)
Latest == Max({u.at : u \in cloud} \cup {0})

Confirmed(n, c) == PruneCloud(cloud \cup {[name |-> n, content |-> c, at |-> Latest + 1]})

-----------------------------------------------------------------------------
(* The file of this name is on its way to the cloud, or one was confirmed. *)
Sent(n) ==
  \/ busy = n /\ step \in {"confirming", "marking"}
  \/ \E c \in Contents : row[The(n, c)] = "confirmed"

Again == {n \in Names : written[n] > 1}

(* Tally writes: a file grows, or a later backup takes the name again.     *)
Write(n) ==
  /\ written[n] < MaxWrites
  /\ written[n] = 1 => Cardinality(Again) < MaxAgain
  /\ written' = [written EXCEPT ![n] = @ + 1]
  /\ folder' = [folder EXCEPT ![n] = written'[n]]
  /\ rewritten' = IF Sent(n) THEN rewritten \cup {n} ELSE rewritten
  /\ UNCHANGED <<storeVars, agentVars, cloud, troubles, orphans, dropped, late, arrived>>

-----------------------------------------------------------------------------
(* A poll. *)

Trouble == troubles < MaxTroubles /\ troubles' = troubles + 1

Poll ==
  /\ step = "idle"
  /\ todo' = {n \in Names : folder[n] # Gone}
  /\ step' = "polling"
  /\ UNCHANGED <<pcVars, storeVars, seen, busy, key, put, cloud, troubles, pastVars>>

Size(n) == IF folder[n] = Gone THEN Gone ELSE SizeOf[The(n, folder[n])]

(* Of the size it had at the last look, and not known by name, size and    *)
(* time.                                                                   *)
Landed(n) == seen[n] = Size(n) /\ ~Known(The(n, folder[n]))

(* A file that has not settled, or is known. *)
Look(n) ==
  /\ step = "polling" /\ n \in todo
  /\ ~Landed(n)
  /\ seen' = [seen EXCEPT ![n] = Size(n)]
  /\ todo' = todo \ {n}
  /\ UNCHANGED <<pcVars, storeVars, step, busy, key, put, cloud, troubles, pastVars>>

(* upload-request: the backend gives an address to send the file to. *)
Request(n) ==
  /\ step = "polling" /\ n \in todo
  /\ Landed(n)
  /\ busy' = n
  /\ key' = folder[n]
  /\ step' = "recording"
  /\ UNCHANGED <<pcVars, storeVars, seen, todo, put, cloud, troubles, pastVars>>

(* The request fails: an answer that cannot be read passes the file over,  *)
(* any other failure ends the poll before anything is pruned.              *)
RequestFails(n) ==
  /\ step = "polling" /\ n \in todo
  /\ Landed(n)
  /\ \/ todo' = todo \ {n} /\ step' = step
     \/ todo' = {} /\ step' = "idle"
  /\ Trouble
  /\ UNCHANGED <<pcVars, storeVars, seen, busy, key, put, cloud, pastVars>>

(* Slip: the name stays in hand when its upload is over. *)
Settle_KeepsName(status) ==
  /\ row' = [row EXCEPT ![The(busy, key)] = status]
  /\ landed' = IF status = "confirmed" THEN Append(landed, The(busy, key)) ELSE landed
  /\ todo' = todo \ {busy}
  /\ step' = "polling"
  /\ UNCHANGED <<busy, key, put>>

Settle(status) ==    \* the file's row is settled; on to the next file
  /\ row' = [row EXCEPT ![The(busy, key)] = status]
  /\ landed' = IF status = "confirmed" THEN Append(landed, The(busy, key)) ELSE landed
  /\ todo' = todo \ {busy}
  /\ step' = "polling"
  /\ busy' = Nobody
  /\ key' = Gone
  /\ put' = Gone

Record ==
  /\ step = "recording"
  /\ row' = [row EXCEPT ![The(busy, key)] = "pending"]
  /\ step' = "putting"
  /\ UNCHANGED <<pcVars, landed, seen, todo, busy, key, put, cloud, troubles, pastVars>>

(* The file is read when it is sent, not when it was looked at. *)
Put ==
  /\ step = "putting"
  /\ put' = folder[busy]
  /\ step' = "confirming"
  /\ UNCHANGED <<pcVars, storeVars, seen, todo, busy, key, cloud, troubles, pastVars>>

Confirm ==
  /\ step = "confirming"
  /\ cloud' = Confirmed(busy, put)
  /\ dropped' = dropped \cup (SetsIn(cloud) \ SetsIn(cloud'))
  /\ late' = (late \/ SetIdFor[busy] \in dropped)
  /\ arrived' = arrived \cup {The(busy, put)}
  /\ step' = "marking"
  /\ UNCHANGED <<pcVars, storeVars, seen, todo, busy, key, put, troubles, orphans, rewritten>>

MarkConfirmed ==
  /\ step = "marking"
  /\ Settle("confirmed")
  /\ UNCHANGED <<pcVars, seen, cloud, troubles, pastVars>>

(* Slip: a failed upload stays as it was recorded. *)
UploadFails_StaysPending ==
  /\ step \in {"putting", "confirming", "marking"}
  /\ Settle("pending")
  /\ Trouble
  /\ UNCHANGED <<pcVars, seen, cloud, pastVars>>

(* Slip: a failed upload counts as done. *)
UploadFails_Confirmed ==
  /\ step \in {"putting", "confirming", "marking"}
  /\ Settle("confirmed")
  /\ Trouble
  /\ UNCHANGED <<pcVars, seen, cloud, pastVars>>

(* Sending or confirming fails, or the backend confirmed and its answer    *)
(* was lost ("marking"): the row is failed and the next poll tries again.  *)
UploadFails ==
  /\ step \in {"putting", "confirming", "marking"}
  /\ Settle("failed")
  /\ Trouble
  /\ UNCHANGED <<pcVars, seen, cloud, pastVars>>

(* Slip: a row counts whatever its status. *)
Old_AnyRow == {n \in Names : \E c \in Contents : row[The(n, c)] # "none"}

(* The names of the confirmed rows beyond the newest LocalKeep. *)
Old == {landed[i].name : i \in {i \in DOMAIN landed : i <= Len(landed) - LocalKeep}}

(* PruneOldLocalCopies: the file at each old row's path, whatever it holds *)
(* by now; a file that cannot be deleted stays.                            *)
PruneLocal(stuck) ==
  /\ step = "polling" /\ todo = {}
  /\ stuck \subseteq Old
  /\ folder' = [n \in Names |-> IF n \in Old \ stuck THEN Gone ELSE folder[n]]
  /\ step' = "idle"
  /\ UNCHANGED <<written, storeVars, seen, todo, busy, key, put, cloud, troubles, pastVars>>

(* The process ends anywhere and starts anew: what it saw is forgotten,    *)
(* and a row it had recorded stays pending.                                *)
Restart ==
  /\ Trouble
  /\ orphans' = IF step \in {"putting", "confirming", "marking"}
                THEN orphans \cup {The(busy, key)} ELSE orphans
  /\ seen' = [n \in Names |-> Gone]
  /\ todo' = {}
  /\ step' = "idle"
  /\ busy' = Nobody
  /\ key' = Gone
  /\ put' = Gone
  /\ UNCHANGED <<pcVars, storeVars, cloud, dropped, late, arrived, rewritten>>

-----------------------------------------------------------------------------
BackupInit ==
  /\ folder = [n \in Names |-> Gone]
  /\ written = [n \in Names |-> 0]
  /\ seen = [n \in Names |-> Gone]
  /\ row = [f \in File |-> "none"]
  /\ landed = <<>>
  /\ todo = {}
  /\ step = "idle"
  /\ busy = Nobody
  /\ key = Gone
  /\ put = Gone
  /\ cloud = {}
  /\ troubles = 0
  /\ orphans = {} /\ dropped = {} /\ late = FALSE /\ arrived = {} /\ rewritten = {}

Looking == \E n \in Names : Look(n) \/ Request(n)
Uploading == Record \/ Put \/ Confirm \/ MarkConfirmed

BackupNext ==
  \/ \E n \in Names : Write(n) \/ RequestFails(n)
  \/ Poll
  \/ Looking
  \/ Uploading
  \/ UploadFails
  \/ \E stuck \in SUBSET Names : PruneLocal(stuck)
  \/ Restart

(* The agent's one loop goes on for ever: it polls, and a poll comes to    *)
(* its end; its calls do not fail for ever (MaxTroubles).                  *)
BackupFairness ==
  WF_backupVars(Poll \/ Looking \/ Uploading \/ \E stuck \in SUBSET Names : PruneLocal(stuck))

BackupSpec == BackupInit /\ [][BackupNext]_backupVars

FairBackupSpec == BackupSpec /\ BackupFairness

-----------------------------------------------------------------------------
(* The shape of the state, and where the agent may be with what in hand. *)
BackupTypeOK ==
  /\ folder \in [Names -> Contents \cup {Gone}]
  /\ written \in [Names -> 0..MaxWrites]
  /\ seen \in [Names -> Nat]
  /\ row \in [File -> {"none", "pending", "confirmed", "failed"}]
  /\ landed \in Seq(File)
  /\ todo \subseteq Names
  /\ step \in Steps
  /\ busy \in Names \cup {Nobody}
  /\ key \in Contents \cup {Gone}
  /\ put \in Contents \cup {Gone}
  /\ cloud \subseteq Upload
  /\ troubles \in 0..MaxTroubles
  /\ orphans \subseteq File
  /\ dropped \subseteq {SetIdFor[n] : n \in Names}
  /\ late \in BOOLEAN
  /\ arrived \subseteq File
  /\ rewritten \subseteq Names
  /\ step \in {"idle", "polling"} <=> busy = Nobody

(* A finished backup file is on the shop's PC or in the cloud, or the      *)
(* cloud is full of other sets (IsKnown, PruneOldLocalCopies,              *)
(* prune_confirmed_backups).  Out of this promise are a name Tally wrote   *)
(* to after it was sent, and a file that comes after the cloud deleted its *)
(* set: it drives out a whole set, and is all there is of its own.         *)
BackupKept ==
  ~late => \A n \in Names \ rewritten :
             \/ written[n] = folder[n]
             \/ \E u \in cloud : u.name = n /\ u.content = written[n]
             \/ Cardinality(SetsIn(cloud) \ {SetIdFor[n]}) = CloudKeep

Deleted(n) == folder[n] # Gone /\ folder'[n] = Gone

(* "Never deletes or touches a file that hasn't been confirmed uploaded"   *)
(* (PruneOldLocalCopies deletes by path).                                  *)
PrunesOnlyConfirmed ==
  [][\A n \in Names : Deleted(n) => The(n, folder[n]) \in arrived]_backupVars

(* What does hold of it: the very content of a deleted file is in the      *)
(* cloud, however often Tally wrote to it before it was sent, after an     *)
(* upload that failed, or between the look at it and the sending; unless   *)
(* Tally wrote to it while it was being sent or after one of its name was  *)
(* confirmed (UploadAsync, MarkConfirmed, PruneOldLocalCopies).            *)
PrunesWhatWasSent ==
  [][\A n \in Names \ rewritten : Deleted(n) => The(n, folder[n]) \in arrived]_backupVars

(* The cloud loses whole sets, of which no file is as new as the newest    *)
(* one of any set it keeps, and keeps no more sets than it should          *)
(* (prune_confirmed_backups).                                              *)
PrunesWholeSets ==
  [][/\ Cardinality(SetsIn(cloud')) <= CloudKeep
     /\ \A u \in cloud \ cloud' :
          /\ SetOf(u) \notin SetsIn(cloud')
          /\ \A s \in SetsIn(cloud') :
               \E v \in cloud' : SetOf(v) = s /\ v.at > u.at]_backupVars

(* A file Tally has finished is confirmed in the end, unless a restart cut *)
(* its upload short (ProcessLandedFilesAsync, UploadAsync, MarkFailed).    *)
EveryFileConfirmed ==
  \A n \in Names :
    (folder[n] # Gone) ~>
      \/ folder[n] = Gone
      \/ row[The(n, folder[n])] = "confirmed"
      \/ The(n, folder[n]) \in orphans
=============================================================================

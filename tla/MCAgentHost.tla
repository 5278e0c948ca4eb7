---------------------------- MODULE MCAgentHost ----------------------------
(***************************************************************************)
(* The two parts of the Windows agent that keep files, checked in one run. *)
(* They share nothing but the process, whose end each of them has as a     *)
(* step of its own, so a behaviour plays one part and leaves the other     *)
(* where it began.                                                         *)
(***************************************************************************)
EXTENDS AgentUpdate, MCBackupSync

VARIABLE part

hostVars == <<part, updateVars, backupVars>>

HostInit == part \in {"update", "backup"} /\ UpdateInit /\ BackupInit

HostNext ==
  \/ part = "update" /\ UpdateNext /\ UNCHANGED <<part, backupVars>>
  \/ part = "backup" /\ BackupNext /\ UNCHANGED <<part, updateVars>>

HostSpec ==
  /\ HostInit /\ [][HostNext]_hostVars
  /\ \/ part = "update" /\ UpdateFairness
     \/ part = "backup" /\ BackupFairness
=============================================================================

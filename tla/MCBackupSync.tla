---------------------------- MODULE MCBackupSync ----------------------------
(***************************************************************************)
(* A small instance of BackupSync: two files of one Tally run and one of   *)
(* the next, and any one of them is written twice.  The two writings of    *)
(* the manifest have one size, those of the data files differ in size.     *)
(***************************************************************************)
EXTENDS BackupSync

CONSTANTS Manifest, Data, Later

MCNames == {Manifest, Data, Later}
MCSizeOf == [f \in File |-> IF f.name = Manifest THEN 1 ELSE f.content]
MCSetIdFor == [n \in MCNames |-> IF n = Later THEN 2 ELSE 1]
=============================================================================

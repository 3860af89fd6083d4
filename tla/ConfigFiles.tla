----------------------------- MODULE ConfigFiles -----------------------------
(****************************************************************************)
(* How a backend replaces a configuration file (utils.go): the new text is  *)
(* written beside it, the old file is renamed to a backup, the new one is   *)
(* renamed into place and old backups are pruned.  The file system shows    *)
(* each of those steps, and each may fail.                                  *)
(*                                                                          *)
(* A text is whatever the backend that uses these operators writes.         *)
(****************************************************************************)
EXTENDS Integers, Sequences, SequencesExt

CONSTANTS
    Files,      \* the files a backend reads and writes
    Absent,     \* no file of that name
    Retention   \* WithBackupRetention; 0 keeps every backup

ASSUME FilesAssumption == Retention \in Nat

VARIABLES
    disk,       \* the text of each file, or Absent
    tmp,        \* the text of its newest *.tmp.<ns> sibling, or Absent
    bak         \* its *.bak.<ns> siblings, newest first

files == <<disk, tmp, bak>>

\* Mutant: the slice starts one backup too early.
PrunedOneMore(backups) ==
    IF Retention = 0 \/ Len(backups) < Retention THEN backups
    ELSE SubSeq(backups, 1, Retention - 1)

\* pruneBackups keeps the newest Retention backups.  A rename keeps the modification
\* time, so the newest backup is the one that was the file last.
Pruned(backups) ==
    IF Retention = 0 \/ Len(backups) <= Retention THEN backups
    ELSE SubSeq(backups, 1, Retention)

WriteTmp(f, text) == tmp' = [tmp EXCEPT ![f] = text] /\ UNCHANGED <<disk, bak>>

\* fileMove(config, backup) is ENOENT when the file is not there.
MoveToBackup(f) ==
    /\ disk[f] # Absent
    /\ bak' = [bak EXCEPT ![f] = <<disk[f]>> \o @]
    /\ disk' = [disk EXCEPT ![f] = Absent]
    /\ UNCHANGED tmp

\* fileMove(tmp, config)
MoveInPlace(f) ==
    /\ tmp[f] # Absent
    /\ disk' = [disk EXCEPT ![f] = tmp[f]]
    /\ tmp' = [tmp EXCEPT ![f] = Absent]
    /\ UNCHANGED bak

\* Errors while pruning are logged: the old backups then stay until the next time.
Prune(f) ==
    /\ bak' = [bak EXCEPT ![f] = Pruned(@)] \/ bak' = bak
    /\ UNCHANGED <<disk, tmp>>
=============================================================================

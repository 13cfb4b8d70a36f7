---------------------------- MODULE BackupFiles ----------------------------
(***************************************************************************)
(* Backups of the database file: runs of scripts/backup_sqlite.py, by the  *)
(* scheduler of app/backup_scheduler.py, an operator or the drill of       *)
(* scripts/backup_restore_drill.py, and restores onto the live file by     *)
(* scripts/restore_sqlite.py. Each step leaves files behind if the process *)
(* stops after it. A file is known by the number of the run that makes it. *)
(***************************************************************************)
EXTENDS Naturals, Sequences, FiniteSets

CONSTANTS
    KeepCount,      \* retention_count
    MaxBackups,     \* bound on the runs
    MaxUnderWay,    \* bound on the runs at the same time
    MaxFaults       \* bound on the crashes and the damage to the database

ASSUME BackupsAssumption ==
    /\ KeepCount \in Nat \ {0}
    /\ MaxBackups \in Nat /\ MaxUnderWay \in Nat /\ MaxFaults \in Nat

VARIABLES
    encrypt,        \* whether backups are encrypted; never changes
    db,             \* the live file: sound, damaged (fails a check), empty (has no tables), absent
    backups,        \* the runs, with their files in the output directory
    clock,          \* the latest modification time
    restore,        \* the restore under way
    faults

backupVars == <<encrypt, db, backups, clock, restore, faults>>

NoRestore == [phase |-> "none"]

BackupInit ==
    /\ encrypt \in BOOLEAN
    /\ db = "sound"
    /\ backups = << >>
    /\ clock = 0
    /\ restore = NoRestore
    /\ faults = 0

Present(i) == backups[i].file # "absent"

UnderWay(i) == backups[i].phase \notin {"done", "failed"}

Others(r) == DOMAIN backups \ {r}

\* restore_sqlite takes the file: with a manifest that it matches, or with none if it
\* is not encrypted.
Accepted(i) ==
    /\ Present(i)
    /\ \/ backups[i].manifest = "whole" /\ backups[i].file = "whole"
       \/ backups[i].manifest = "none" /\ ~encrypt

Restorable(i) == Accepted(i) /\ backups[i].file = "whole" /\ backups[i].holds = "sound"

-----------------------------------------------------------------------------
(* A run of backup_sqlite                                                  *)

\* The source exists. A plain copy is made in its place, one to encrypt in a temporary
\* file, which retention does not see. began and beside are history: when the run began,
\* and the runs then under way.
Begin ==
    /\ Len(backups) < MaxBackups
    /\ Cardinality({i \in DOMAIN backups : UnderWay(i)}) < MaxUnderWay
    /\ db # "absent"
    /\ clock' = clock + 1
    /\ backups' = Append(backups,
            [ phase |-> "copying", file |-> IF encrypt THEN "absent" ELSE "partial",
              mtime |-> clock + 1, manifest |-> "none", holds |-> "empty", doomed |-> {},
              began |-> clock + 1, beside |-> {i \in DOMAIN backups : UnderWay(i)} ])
    /\ UNCHANGED <<encrypt, db, restore, faults>>

\* src.backup(dst). Opening a source that a restore has just unlinked makes an empty one.
Copy(r) ==
    LET held == IF db = "absent" THEN "empty" ELSE db
    IN  /\ backups[r].phase = "copying"
        /\ db' = held
        /\ clock' = clock + 1
        /\ backups' = [backups EXCEPT ![r] =
                IF Present(r)
                THEN [@ EXCEPT !.phase = "copied", !.holds = held, !.file = "whole",
                        !.mtime = clock + 1]
                ELSE [@ EXCEPT !.phase = "copied", !.holds = held]]
        /\ UNCHANGED <<encrypt, restore, faults>>

CanBeChecked(r) == backups[r].holds # "empty" /\ (encrypt \/ Present(r))

\* The integrity check gives a verdict; the copy is encrypted.
Check(r) ==
    /\ backups[r].phase = "copied" /\ CanBeChecked(r)
    /\ IF encrypt
       THEN /\ clock' = clock + 1
            /\ backups' = [backups EXCEPT ![r] =
                    [@ EXCEPT !.phase = "written", !.file = "whole", !.mtime = clock + 1]]
       ELSE backups' = [backups EXCEPT ![r].phase = "written"] /\ UNCHANGED clock
    /\ UNCHANGED <<encrypt, db, restore, faults>>

\* The check raises on a file with no tables, or one pruned by another run and made
\* anew by opening it. A temporary file is removed, the other stays.
FailCheck(r) ==
    /\ backups[r].phase = "copied" /\ ~CanBeChecked(r)
    /\ backups' = [backups EXCEPT ![r].phase = "failed",
                        ![r].file = IF encrypt THEN "absent" ELSE "partial"]
    /\ UNCHANGED <<encrypt, db, clock, restore, faults>>

\* A mutant: the newest go.
ToDeleteNewest(r) ==
    {i \in Others(r) :
        /\ Present(i)
        /\ Cardinality({j \in Others(r) : Present(j) /\ backups[j].mtime < backups[i].mtime})
                + (IF Present(r) THEN 1 ELSE 0) >= KeepCount}

\* _prune_old_backups: all but the run's own file and the newest, KeepCount together.
ToDelete(r) ==
    {i \in Others(r) :
        /\ Present(i)
        /\ Cardinality({j \in Others(r) : Present(j) /\ backups[j].mtime > backups[i].mtime})
                + (IF Present(r) THEN 1 ELSE 0) >= KeepCount}

\* The directory is listed; a copy that failed the check prunes nothing.
List(r) ==
    /\ backups[r].phase = "written" /\ Present(r)
    /\ backups' = [backups EXCEPT ![r].phase = "pruning",
                        ![r].doomed = IF backups[r].holds = "sound" THEN ToDelete(r) ELSE {}]
    /\ UNCHANGED <<encrypt, db, clock, restore, faults>>

Oldest(S) == CHOOSE i \in S : \A j \in S : backups[i].mtime <= backups[j].mtime

\* A file and its manifest are unlinked.
Delete(r) ==
    /\ backups[r].phase = "pruning" /\ backups[r].doomed # {}
    /\ LET i == Oldest(backups[r].doomed)
       IN  /\ Present(i)
           /\ backups' = [backups EXCEPT ![r].doomed = @ \ {i},
                                ![i].file = "absent", ![i].manifest = "none"]
    /\ UNCHANGED <<encrypt, db, clock, restore, faults>>

\* The run's own file, or one that it is to delete, has been pruned by another run.
FailMissing(r) ==
    /\ \/ backups[r].phase = "written" /\ ~Present(r)
       \/ /\ backups[r].phase = "pruning" /\ backups[r].doomed # {}
          /\ ~Present(Oldest(backups[r].doomed))
    /\ backups' = [backups EXCEPT ![r].phase = "failed"]
    /\ UNCHANGED <<encrypt, db, clock, restore, faults>>

WriteManifest(r) ==
    /\ backups[r].phase = "pruning" /\ backups[r].doomed = {}
    /\ backups' = [backups EXCEPT ![r].phase = "done", ![r].manifest = "whole"]
    /\ UNCHANGED <<encrypt, db, clock, restore, faults>>

\* The process stops, in the middle of a file that it writes or before it.
CrashBackup(r) ==
    /\ faults < MaxFaults
    /\ faults' = faults + 1
    /\ UnderWay(r)
    /\ \/ backups' = [backups EXCEPT ![r].phase = "failed"] /\ UNCHANGED clock
       \/ /\ backups[r].phase = "copied" /\ encrypt
          /\ clock' = clock + 1
          /\ backups' = [backups EXCEPT ![r].phase = "failed", ![r].file = "partial",
                                        ![r].mtime = clock + 1]
       \/ /\ backups[r].phase = "pruning" /\ backups[r].doomed = {}
          /\ backups' = [backups EXCEPT ![r].phase = "failed", ![r].manifest = "torn"]
          /\ UNCHANGED clock
    /\ UNCHANGED <<encrypt, db, restore>>

-----------------------------------------------------------------------------
(* The database                                                            *)

Damage ==
    /\ faults < MaxFaults /\ db = "sound"
    /\ faults' = faults + 1
    /\ db' = "damaged"
    /\ UNCHANGED <<encrypt, backups, clock, restore>>

\* A server that starts with no tables makes them (init_db).
StartServer ==
    /\ db \in {"absent", "empty"} /\ restore = NoRestore
    /\ db' = "sound"
    /\ UNCHANGED <<encrypt, backups, clock, restore, faults>>

\* restore_sqlite --force, up to the end of its verification, which reads an encrypted
\* backup into a temporary file.
BeginRestore(i) ==
    /\ restore = NoRestore
    /\ Accepted(i)
    /\ restore' = [phase |-> "verified", source |-> i, holds |-> backups[i].holds]
    /\ UNCHANGED <<encrypt, db, backups, clock, faults>>

UnlinkTarget ==
    /\ restore.phase = "verified"
    /\ restore' = [restore EXCEPT !.phase = "unlinked"]
    /\ db' = "absent"
    /\ UNCHANGED <<encrypt, backups, clock, faults>>

\* A plain backup is opened only now; one pruned meanwhile is made anew, empty.
CopyBack ==
    LET i == restore.source
    IN  /\ restore.phase = "unlinked"
        /\ restore' = NoRestore
        /\ IF encrypt \/ Present(i)
           THEN /\ db' = IF encrypt \/ backups[i].file = "whole" THEN restore.holds ELSE "empty"
                /\ UNCHANGED <<backups, clock>>
           ELSE /\ db' = "empty"
                /\ clock' = clock + 1
                /\ backups' = [backups EXCEPT ![i].file = "partial", ![i].mtime = clock + 1]
        /\ UNCHANGED <<encrypt, faults>>

CrashRestore ==
    /\ restore # NoRestore
    /\ faults < MaxFaults
    /\ faults' = faults + 1
    /\ restore' = NoRestore
    /\ \/ UNCHANGED db
       \/ restore.phase = "unlinked" /\ db' = "empty"
    /\ UNCHANGED <<encrypt, backups, clock>>

BackupNext ==
    \/ Begin
    \/ \E r \in DOMAIN backups :
        \/ Copy(r) \/ Check(r) \/ FailCheck(r) \/ List(r) \/ Delete(r)
        \/ FailMissing(r) \/ WriteManifest(r) \/ CrashBackup(r) \/ BeginRestore(r)
    \/ Damage \/ StartServer \/ UnlinkTarget \/ CopyBack \/ CrashRestore

BackupSpec == BackupInit /\ [][BackupNext]_backupVars

-----------------------------------------------------------------------------
(* Properties                                                              *)

\* The runs that may push run i's file out: those with files later than its beginning,
\* and those that were then under way.
Rivals(i) == backups[i].beside \cup {j \in Others(i) : backups[j].mtime > backups[i].began}

\* A backup that was completed and found sound can be restored until KeepCount other
\* runs have come after it or beside it, whatever crashes and failures they meet.
KeepsNewest ==
    \A i \in DOMAIN backups :
        /\ backups[i].phase = "done" /\ backups[i].holds = "sound"
        /\ Cardinality(Rivals(i)) < KeepCount
        => Restorable(i)
=============================================================================

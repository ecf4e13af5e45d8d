------------------------------- MODULE Backup -------------------------------
(***************************************************************************)
(* Hot backup, rotation and restore of the database                        *)
(* (internal/storage/backup, internal/api/admin_backup.go).                *)
(*                                                                         *)
(* Of the database only the transparency log matters here: it is the       *)
(* sequence of leaf payloads in the file.  Two logs have the same Merkle   *)
(* root exactly when they are equal (module MerkleTree), so the log itself *)
(* stands for its root.  An encryption is the log and a nonce, since age   *)
(* draws a fresh file key each time; the sidecar is the digest of one      *)
(* encryption, and is represented by it.  The .bak files that a restore    *)
(* leaves are never read again and are left out.                           *)
(***************************************************************************)
EXTENDS Integers, Sequences, FiniteSets, SequencesExt

CONSTANTS
  Entries,         \* leaf payloads
  KeepLast,        \* the sink's keepLast; 0 keeps everything
  DistinctSeconds, \* TRUE: no two backups in one second
  None,            \* no file under a name
  MaxSecond, MaxEntries, MaxRuns   \* bounds

ASSUME BackupAssumption ==
  /\ KeepLast \in Nat
  /\ DistinctSeconds \in BOOLEAN
  /\ MaxSecond \in Nat /\ MaxRuns \in Nat
  /\ MaxEntries \in 0..99   \* NameLess compares two digits

VARIABLES
  second,   \* the clock, in seconds
  path,     \* the log in the file at the database path, or None
  serving,  \* the server has that file open
  run,      \* Engine.Run in progress
  runs,     \* backups started so far
  enc,      \* name -> encryption in the .age file, or None
  side,     \* name -> encryption the .sha256 file is the digest of, or None
  rot,      \* names rotate() still has to remove
  restore,  \* Restore in progress
  done      \* the artifacts whose two files were written, in order: the records
            \* in the operator's journal

backup == <<run, runs, enc, side, rot, done>>
backupVars == <<second, path, serving, backup, restore>>

\* A backup file name: backup-<second>-tree<size>.
Names == (1..MaxSecond) \X (0..MaxEntries)

IdleRun == [pc |-> "idle", stamp |-> 0, snap |-> <<>>, size |-> 0, root |-> <<>>]
IdleRestore == [pc |-> "idle", log |-> <<>>, matched |-> 0]

BackupInit ==
  /\ second = 1
  /\ path = <<>>
  /\ serving = FALSE
  /\ run = IdleRun
  /\ runs = 0
  /\ enc = [n \in Names |-> None]
  /\ side = [n \in Names |-> None]
  /\ rot = <<>>
  /\ restore = IdleRestore
  /\ done = <<>>

BackupTick == second < MaxSecond /\ second' = second + 1 /\ UNCHANGED <<path, serving, backup, restore>>

-----------------------------------------------------------------------------
(* The server.                                                             *)

\* A server that does not create the file it does not find.
BootNoCreate ==
  /\ ~ serving /\ restore.pc = "idle"
  /\ serving' = TRUE
  /\ UNCHANGED <<second, path, backup, restore>>

\* db.New: bolt.Open creates a missing file.
Boot ==
  /\ ~ serving /\ restore.pc = "idle"
  /\ serving' = TRUE
  /\ path' = IF path = None THEN <<>> ELSE path
  /\ UNCHANGED <<second, backup, restore>>

\* Shutdown or crash, at any point of a backup.
Stop ==
  /\ serving
  /\ serving' = FALSE
  /\ run' = IdleRun
  /\ rot' = <<>>
  /\ UNCHANGED <<second, path, runs, enc, side, restore, done>>

\* Tree.Append, concurrent with a backup.
AppendEntry(p) ==
  /\ serving /\ Len(path) < MaxEntries
  /\ path' = Append(path, p)
  /\ UNCHANGED <<second, serving, backup, restore>>

-----------------------------------------------------------------------------
(* Engine.Run, one at a time (the handler's running flag).                 *)

\* No file of this second was written, then or since.
FreshSecond ==
  /\ \A i \in 1..Len(done) : done[i].name[1] # second
  /\ \A n \in Names : enc[n] # None => n[1] # second

\* Run reads the clock, then the source streams one read transaction.
Snapshot ==
  /\ serving /\ run.pc = "idle" /\ runs < MaxRuns
  /\ DistinctSeconds => FreshSecond
  /\ runs' = runs + 1
  /\ run' = [pc |-> "snapped", stamp |-> second, snap |-> path, size |-> 0, root |-> <<>>]
  /\ UNCHANGED <<second, path, serving, enc, side, rot, restore, done>>

\* BackupMetadata: Tree.Size() and Tree.Root() take the tree's lock separately.
MetadataSize ==
  /\ run.pc = "snapped"
  /\ run' = [run EXCEPT !.pc = "sized", !.size = Len(path)]
  /\ UNCHANGED <<second, path, serving, runs, enc, side, rot, restore, done>>

MetadataRoot ==
  /\ run.pc = "sized"
  /\ run' = [run EXCEPT !.pc = "described", !.root = path]
  /\ UNCHANGED <<second, path, serving, runs, enc, side, rot, restore, done>>

\* The source, the encryption, the context or the first write failed.
RunFails ==
  /\ run.pc \in {"snapped", "described"}
  /\ run' = IdleRun
  /\ UNCHANGED <<second, path, serving, runs, enc, side, rot, restore, done>>

\* formatFilename.
Filename == <<run.stamp, run.size>>
Encryption == [log |-> run.snap, nonce |-> runs]

\* LocalSink.Write: the .age file, atomically.
WriteEncrypted ==
  /\ run.pc = "described"
  /\ enc' = [enc EXCEPT ![Filename] = Encryption]
  /\ run' = [run EXCEPT !.pc = "encrypted"]
  /\ UNCHANGED <<second, path, serving, runs, side, rot, restore, done>>

\* The order of the names' decimal size: "10" sorts before "9".
FirstDigit(k) == IF k < 10 THEN k ELSE k \div 10
NameLess(m, n) ==
  \/ m[1] < n[1]
  \/ /\ m[1] = n[1]
     /\ \/ FirstDigit(m[2]) < FirstDigit(n[2])
        \/ FirstDigit(m[2]) = FirstDigit(n[2]) /\ m[2] < n[2]

\* rotate() counting .age files whether or not they have a sidecar.
rotateCountsOrphans(e, s) ==
  LET pairs == SetToSortSeq({n \in Names : e[n] # None}, NameLess)
  IN  IF KeepLast = 0 \/ Len(pairs) <= KeepLast THEN <<>>
      ELSE SubSeq(pairs, 1, Len(pairs) - KeepLast)

\* rotate(): all but the last KeepLast complete pairs, in the order of names.
rotate(e, s) ==
  LET pairs == SetToSortSeq({n \in Names : e[n] # None /\ s[n] # None}, NameLess)
  IN  IF KeepLast = 0 \/ Len(pairs) <= KeepLast THEN <<>>
      ELSE SubSeq(pairs, 1, Len(pairs) - KeepLast)

\* LocalSink.Write: the sidecar; both files are there, rotation starts.
WriteSidecar ==
  /\ run.pc = "encrypted"
  /\ side' = [side EXCEPT ![Filename] = Encryption]
  /\ done' = Append(done, [name |-> Filename, enc |-> Encryption,
                           size |-> run.size, root |-> run.root])
  /\ rot' = rotate(enc, side')
  /\ run' = [run EXCEPT !.pc = "rotate enc"]
  /\ UNCHANGED <<second, path, serving, runs, enc, restore>>

\* The sidecar could not be written: best-effort removal of the .age file.
SidecarFails ==
  /\ run.pc = "encrypted"
  /\ enc' \in {enc, [enc EXCEPT ![Filename] = None]}
  /\ run' = IdleRun
  /\ UNCHANGED <<second, path, serving, runs, side, rot, restore, done>>

\* os.Remove of a rotated pair; its errors are ignored.
RotateEncrypted ==
  /\ run.pc = "rotate enc" /\ rot # <<>>
  /\ enc' \in {enc, [enc EXCEPT ![Head(rot)] = None]}
  /\ run' = [run EXCEPT !.pc = "rotate side"]
  /\ UNCHANGED <<second, path, serving, runs, side, rot, restore, done>>

RotateSidecar ==
  /\ run.pc = "rotate side"
  /\ side' \in {side, [side EXCEPT ![Head(rot)] = None]}
  /\ rot' = Tail(rot)
  /\ run' = [run EXCEPT !.pc = "rotate enc"]
  /\ UNCHANGED <<second, path, serving, runs, enc, restore, done>>

\* Run returns; the handler clears its running flag.
RunReturns ==
  /\ run.pc = "rotate enc" /\ rot = <<>>
  /\ run' = IdleRun
  /\ UNCHANGED <<second, path, serving, runs, enc, side, rot, restore, done>>

-----------------------------------------------------------------------------
(* Restore, run while the server is down.                                  *)

\* The comparison with ExpectedSTH by size alone.
SameSize(record, log) == record.size = Len(log)

\* The comparison with ExpectedSTH: the size and the root.
STHMatch(record, log) == record.size = Len(log) /\ record.root = log

\* VerifySidecar, DecryptArtifact, the staged copy and its inspection; then the
\* comparison with the journal's record i, or with none (0).  What does not
\* match goes on only if a mismatch is allowed.
RestoreStage(n, i, allowMismatch) ==
  LET log == enc[n].log
      match == i # 0 /\ STHMatch(done[i], log)
  IN  /\ ~ serving /\ restore.pc = "idle"
      /\ enc[n] # None /\ side[n] = enc[n]
      /\ i = 0 \/ match \/ allowMismatch
      /\ restore' = [pc |-> "staged", log |-> log, matched |-> IF match THEN i ELSE 0]
      /\ UNCHANGED <<second, path, serving, backup>>

\* The live file, if there is one, becomes .bak.<second>.
RenameAside ==
  /\ restore.pc = "staged"
  /\ restore' = [restore EXCEPT !.pc = "aside"]
  /\ path' = None
  /\ UNCHANGED <<second, serving, backup>>

RenameStaged ==
  /\ restore.pc = "aside"
  /\ path' = restore.log
  /\ restore' = IdleRestore
  /\ UNCHANGED <<second, serving, backup>>

\* The restore process dies, or a rename fails (the staged file is removed).
RestoreFails ==
  /\ restore.pc # "idle"
  /\ restore' = IdleRestore
  /\ UNCHANGED <<second, path, serving, backup>>

-----------------------------------------------------------------------------
BackupNext ==
  \/ BackupTick \/ Boot \/ Stop
  \/ \E p \in Entries : AppendEntry(p)
  \/ Snapshot \/ MetadataSize \/ MetadataRoot \/ RunFails
  \/ WriteEncrypted \/ WriteSidecar \/ SidecarFails
  \/ RotateEncrypted \/ RotateSidecar \/ RunReturns
  \/ \E n \in Names, i \in 0..Len(done), allow \in BOOLEAN : RestoreStage(n, i, allow)
  \/ RenameAside \/ RenameStaged \/ RestoreFails

BackupSpec == BackupInit /\ [][BackupNext]_backupVars

-----------------------------------------------------------------------------
(* Properties.                                                             *)

Logs == UNION {[1..k -> Entries] : k \in 0..MaxEntries}
Encryptions == [log : Logs, nonce : 1..MaxRuns]

(* Type invariant; a serving server has a file at the path.                *)
BackupTypeOK ==
  /\ second \in 1..MaxSecond /\ runs \in 0..MaxRuns /\ serving \in BOOLEAN
  /\ path = None \/ path \in Logs
  /\ serving => path # None /\ restore.pc = "idle"
  /\ run.pc \in {"idle", "snapped", "sized", "described", "encrypted",
                 "rotate enc", "rotate side"}
  /\ ~ serving => run = IdleRun
  /\ run.stamp \in 0..MaxSecond /\ run.size \in 0..MaxEntries
  /\ run.snap \in Logs /\ run.root \in Logs
  /\ \A n \in Names : enc[n] = None \/ enc[n] \in Encryptions
  /\ \A n \in Names : side[n] = None \/ side[n] \in Encryptions
  /\ restore.pc \in {"idle", "staged", "aside"} /\ restore.log \in Logs
  /\ restore.matched \in 0..Len(done)

Restorable(a) == enc[a.name] = a.enc /\ side[a.name] = a.enc

(* The point of taking backups: the KeepLast most recent finished ones are *)
(* complete, verify and hold their own snapshot, through failed writes,    *)
(* crashes, later rotations and restores.                                  *)
NewestKept ==
  \A i \in 1..Len(done) :
    KeepLast = 0 \/ i > Len(done) - KeepLast => Restorable(done[i])

(* types.go: "the Artifact records what state the backup captured", so     *)
(* that operators can tell "I restored an old backup". The record is read  *)
(* after the snapshot, in two steps, while leaves are appended: a file may *)
(* match the record of another backup, or none at all. But a restore that  *)
(* matches the record of a backup puts back no less than that backup had   *)
(* captured, and no other history.                                         *)
MatchedRestoreKeeps ==
  restore.matched # 0 => IsPrefix(done[restore.matched].enc.log, restore.log)

(* restore.go: "then atomically swaps the live DB with the restored file": *)
(* when no restore is running, finished or not, there is a database at the *)
(* path, the old one or the restored one.                                  *)
SwapIsAtomic == restore.pc = "idle" => path # None
=============================================================================

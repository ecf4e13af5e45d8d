------------------------------ MODULE Retention ------------------------------
(***************************************************************************)
(* The BoltDB file over its life: saves through the open handle, the       *)
(* retention sweep (internal/storage/retention/retention.go), the          *)
(* compaction that ends it, crashes, and reopening (internal/storage/db).  *)
(*                                                                         *)
(* A path names an inode, and an open handle keeps the inode it opened:    *)
(* compact() renames a copy over the path while every writer of the        *)
(* process still holds the old inode.                                      *)
(*                                                                         *)
(* A record is an event, an alert, an asset or a transparency-log leaf;    *)
(* all that matters of it is its kind and its timestamp.                   *)
(***************************************************************************)
EXTENDS Integers, FiniteSets

CONSTANTS
  Records,     \* keys of the buckets
  Kind,        \* Records -> {"event", "alert", "asset", "leaf"}
  CfgTTL,      \* the operator's TTL for event, alert, asset; 0 = not set
  DefaultTTL,  \* the TTLs EnsureDefaults fills in
  Compaction,  \* "off", "scheduled" (in the sweep loop) or "maintenance"
  MaxTime      \* bound on the clock

ASSUME RetentionAssumption ==
  /\ Kind \in [Records -> {"event", "alert", "asset", "leaf"}]
  /\ CfgTTL \in [{"event", "alert", "asset"} -> Nat]
  /\ DefaultTTL \in [{"event", "alert", "asset"} -> Nat \ {0}]
  /\ Compaction \in {"off", "scheduled", "maintenance"}
  /\ MaxTime \in Nat \ {0}

NoValue == -1    \* no value under the key
NoFile == 0     \* no inode

Inodes == 1..3   \* one more than the path and the open handle can hold
Empty == [r \in Records |-> NoValue]

VARIABLES
  now,     \* wall clock
  file,    \* inode -> contents: record -> timestamp
  live,    \* inode at owasaka.db
  copy,    \* inode at owasaka.db.compact
  handle,  \* inode the process has open; NoFile when it is down
  sweep,   \* the sweep in progress: pc, and the time it read at its start
  saved    \* record -> timestamp of the last save that returned nil

retentionVars == <<now, file, live, copy, handle, sweep, saved>>

RetentionInit ==
  /\ now = 1
  /\ file = [i \in Inodes |-> Empty]
  /\ live = NoFile
  /\ copy = NoFile
  /\ handle = NoFile
  /\ sweep = [pc |-> "idle", now |-> 0]
  /\ saved = Empty

RetentionTick ==
  /\ now < MaxTime
  /\ now' = now + 1
  /\ UNCHANGED <<file, live, copy, handle, sweep, saved>>

\* An inode that neither a path nor a handle refers to.
FreeInode == CHOOSE i \in Inodes : i \notin {live, copy, handle}

\* The files after a step that leaves only these inodes referred to.
Released(kept) == [i \in Inodes |-> IF i \in kept THEN file[i] ELSE Empty]

-----------------------------------------------------------------------------
(* The process: db.New opens or creates the file; it may die at any point. *)

BootExisting ==
  /\ handle = NoFile /\ live # NoFile
  /\ handle' = live
  /\ UNCHANGED <<now, file, live, copy, sweep, saved>>

\* bolt.Open creates a missing file.
BootFresh ==
  /\ handle = NoFile /\ live = NoFile
  /\ live' = FreeInode
  /\ handle' = FreeInode
  /\ UNCHANGED <<now, file, copy, sweep, saved>>

RetentionCrash ==
  /\ handle # NoFile
  /\ handle' = NoFile
  /\ file' = Released({live, copy})
  /\ sweep' = [pc |-> "idle", now |-> 0]
  /\ UNCHANGED <<now, live, copy, saved>>

\* The maintenance-window discipline: no saves from the moment the copy is
\* taken until the process has restarted on the compacted file.
WritersPaused ==
  Compaction = "maintenance" /\ (sweep.pc = "copied" \/ handle # live)

\* The timestamps a record may carry: PushAsset stamps LastSeen with the time
\* of the save; an event keeps the timestamp its producer gave it.
StampsAt(r) == IF Kind[r] = "asset" THEN {now} ELSE 1..now

\* SaveAsset, LogEvent, SaveAlert, Tree.Append: one transaction each.  Events,
\* alerts and leaves have fresh keys; an asset is saved again when seen again.
Save(r) ==
  /\ handle # NoFile /\ ~ WritersPaused
  /\ Kind[r] # "asset" => saved[r] = NoValue
  /\ \E ts \in StampsAt(r) :
       /\ file' = [file EXCEPT ![handle][r] = ts]
       /\ saved' = [saved EXCEPT ![r] = ts]
  /\ UNCHANGED <<now, live, copy, handle, sweep>>

-----------------------------------------------------------------------------
(* Engine.Sweep.                                                           *)

\* Config.EnsureDefaults, applied by NewEngine.
TTL(k) == IF CfgTTL[k] = 0 THEN DefaultTTL[k] ELSE CfgTTL[k]

shouldDropEvent(r, ts, at) ==
  /\ Kind[r] \in {"event", "alert"}
  /\ ts # NoValue
  /\ at - ts > TTL(Kind[r])

assetIsStale(r, ts, at) ==
  /\ Kind[r] = "asset"
  /\ ts # NoValue
  /\ at - ts > TTL("asset")

SweepStart ==
  /\ handle # NoFile /\ sweep.pc = "idle"
  /\ sweep' = [pc |-> "started", now |-> now]
  /\ UNCHANGED <<now, file, live, copy, handle, saved>>

\* The first transaction: the events bucket (events and alerts).
SweepEvents ==
  /\ sweep.pc = "started"
  /\ file' = [file EXCEPT ![handle] =
       [r \in Records |-> IF shouldDropEvent(r, @[r], sweep.now) THEN NoValue ELSE @[r]]]
  /\ sweep' = [sweep EXCEPT !.pc = "events done"]
  /\ UNCHANGED <<now, live, copy, handle, saved>>

AfterAssets == IF Compaction = "off" THEN "idle" ELSE "assets done"

\* The second pass applied to a transaction that is never committed.
SweepAssetsUncommitted ==
  /\ sweep.pc = "events done"
  /\ sweep' = [sweep EXCEPT !.pc = AfterAssets]
  /\ UNCHANGED <<now, file, live, copy, handle, saved>>

\* The second transaction: the assets bucket.
SweepAssets ==
  /\ sweep.pc = "events done"
  /\ file' = [file EXCEPT ![handle] =
       [r \in Records |-> IF assetIsStale(r, @[r], sweep.now) THEN NoValue ELSE @[r]]]
  /\ sweep' = [sweep EXCEPT !.pc = AfterAssets]
  /\ UNCHANGED <<now, live, copy, handle, saved>>

\* A transaction failed (early return), or the freelist is below the
\* threshold, or the copy or the rename failed (logged, not returned).
SweepEnd ==
  /\ sweep.pc # "idle"
  /\ sweep' = [pc |-> "idle", now |-> 0]
  /\ UNCHANGED <<now, file, live, copy, handle, saved>>

\* The inode of path.compact: the one a crash left behind, or a new one.
CopyTarget == IF copy # NoFile THEN copy ELSE FreeInode

\* A compaction that removes the old file before the new one is in place.
CompactCopyUnlinks ==
  /\ sweep.pc = "assets done"
  /\ file' = [file EXCEPT ![CopyTarget] = file[handle]]
  /\ copy' = CopyTarget
  /\ live' = NoFile
  /\ sweep' = [sweep EXCEPT !.pc = "copied"]
  /\ UNCHANGED <<now, handle, saved>>

\* compact: a read transaction streams the handle's file to path.compact.
CompactCopy ==
  /\ sweep.pc = "assets done"
  /\ file' = [file EXCEPT ![CopyTarget] = file[handle]]
  /\ copy' = CopyTarget
  /\ sweep' = [sweep EXCEPT !.pc = "copied"]
  /\ UNCHANGED <<now, live, handle, saved>>

\* compact: the rename.  The process keeps its handle on the old inode.
CompactRename ==
  /\ sweep.pc = "copied"
  /\ live' = copy
  /\ copy' = NoFile
  /\ file' = Released({copy, handle})
  /\ sweep' = [pc |-> "idle", now |-> 0]
  /\ UNCHANGED <<now, handle, saved>>

-----------------------------------------------------------------------------
RetentionNext ==
  \/ RetentionTick
  \/ BootExisting \/ BootFresh \/ RetentionCrash
  \/ \E r \in Records : Save(r)
  \/ SweepStart \/ SweepEvents \/ SweepAssets \/ SweepEnd
  \/ CompactCopy \/ CompactRename

RetentionSpec == RetentionInit /\ [][RetentionNext]_retentionVars

-----------------------------------------------------------------------------
(* Properties.                                                             *)

Contents == [Records -> {NoValue} \cup 1..MaxTime]

(* Type invariant; the copy in the making is never a file in use, so a     *)
(* compaction overwrites no live data, and unreferenced files are gone.    *)
RetentionTypeOK ==
  /\ now \in 1..MaxTime
  /\ file \in [Inodes -> Contents]
  /\ {live, copy, handle} \subseteq Inodes \cup {NoFile}
  /\ copy # NoFile => copy \notin {live, handle}
  /\ \A i \in Inodes \ {live, copy, handle} : file[i] = Empty
  /\ sweep \in [pc : {"idle", "started", "events done", "assets done", "copied"},
                now : 0..MaxTime]
  /\ saved \in Contents

\* The record may be gone: it has a TTL and is older than it.
Expired(r) == Kind[r] # "leaf" /\ now - saved[r] > TTL(Kind[r])

\* The contents the program sees, or would see after a restart.
Visible == IF handle # NoFile THEN file[handle]
           ELSE IF live # NoFile THEN file[live] ELSE Empty

(* Nothing that was acknowledged disappears before its TTL, and a          *)
(* transparency leaf never: across sweeps that overlap saves, crashes      *)
(* between the sweep's two transactions, and restarts.                     *)
RetainedUntilTTL ==
  \A r \in Records :
    saved[r] # NoValue /\ Visible[r] # saved[r] => Expired(r)

(* The sweep keeps its promise to bound the file: a record that has        *)
(* outlived its TTL is eventually gone or saved anew, however crashes and  *)
(* failed passes interrupt the sweeps.                                     *)
ExpiredIsPruned ==
  \A r \in Records :
    (saved[r] # NoValue /\ Expired(r)) ~> (Visible[r] = NoValue \/ ~ Expired(r))
=============================================================================

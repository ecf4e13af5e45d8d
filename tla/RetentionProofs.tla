-------------------------- MODULE RetentionProofs --------------------------
(***************************************************************************)
(* For any records, TTLs and clock: unless compaction is scheduled in the  *)
(* live process, no acknowledged record goes before its TTL, whatever      *)
(* sweeps, saves, compactions, crashes and restarts interleave.            *)
(***************************************************************************)
EXTENDS Retention, TLAPS

\* Compaction is off, or done with writers paused until the restart.
Safe == Compaction \in {"off", "maintenance"}

\* Contents c lack no acknowledged record that has not expired.
Keeps(c) == \A r \in Records : saved[r] # NoValue /\ c[r] # saved[r] => Expired(r)

\* A sweep runs in a live process, with a time in the past, and a compaction
\* only where one is configured.
SweepInv ==
  /\ sweep.now <= now
  /\ handle = NoFile => sweep.pc = "idle"
  /\ sweep.pc \in {"assets done", "copied"} => Compaction # "off"
  /\ sweep.pc = "copied" => copy # NoFile

\* Before the first boot there is nothing; without compaction the process has
\* the file at the path open.
FileInv ==
  /\ live = NoFile => handle = NoFile /\ saved = Empty
  /\ Compaction = "off" => handle \in {NoFile, live}

\* Every file that is or may become the database holds what it must.
KeepInv ==
  /\ handle # NoFile => Keeps(file[handle])
  /\ live # NoFile => Keeps(file[live])
  /\ sweep.pc = "copied" => Keeps(file[copy])

RetentionInv == RetentionTypeOK /\ SweepInv /\ FileInv /\ KeepInv

(* The conjuncts of the type invariant, by what they speak of.             *)

Pcs == {"idle", "started", "events done", "assets done", "copied"}

Refs ==
  /\ live \in Inodes \cup {NoFile} /\ copy \in Inodes \cup {NoFile} /\ handle \in Inodes \cup {NoFile}
  /\ copy # NoFile => copy # live /\ copy # handle

Unused == \A i \in Inodes : i \notin {live, copy, handle} => file[i] = Empty

Files == file \in [Inodes -> Contents] /\ saved \in Contents

Clock == now \in 1..MaxTime

Sweeps == sweep \in [pc : Pcs, now : 0..MaxTime]

-----------------------------------------------------------------------------
\* The conjuncts are the type invariant.
LEMMA TypeParts == RetentionTypeOK <=> Clock /\ Files /\ Refs /\ Unused /\ Sweeps
BY DEF RetentionTypeOK, Clock, Files, Refs, Unused, Sweeps, Pcs

\* Also after a step.
LEMMA TypePartsNext == RetentionTypeOK' <=> Clock' /\ Files' /\ Refs' /\ Unused' /\ Sweeps'
BY DEF RetentionTypeOK, Clock, Files, Refs, Unused, Sweeps, Pcs

\* No inode is the missing one.
LEMMA NoFileIsNone == NoFile \notin Inodes
BY DEF NoFile, Inodes

\* The clock bounds the times of sweeps.
LEMMA ClockBounds ==
  ASSUME Clock
  PROVE  now \in Int /\ now \in 0..MaxTime /\ 0 \in 0..MaxTime /\ 0 <= now /\ now <= now
<1>1. MaxTime \in Nat
  BY RetentionAssumption
<1> QED BY <1>1 DEF Clock

\* Empty contents are contents, and so are times up to the present.
LEMMA EmptyTyped == Empty \in Contents
BY DEF Empty, Contents

\* Times are integers.
LEMMA TimesTyped ==
  ASSUME RetentionTypeOK
  PROVE  /\ now \in Int /\ sweep.now \in Int
         /\ saved \in [Records -> Int]
         /\ \A i \in Inodes : file[i] \in [Records -> Int]
<1>1. {NoValue} \cup 1..MaxTime \subseteq Int /\ 0..MaxTime \subseteq Int
  BY DEF NoValue
<1>2. Contents \subseteq [Records -> Int]
  BY <1>1 DEF Contents
<1>3. saved \in Contents /\ (\A i \in Inodes : file[i] \in Contents)
  BY DEF RetentionTypeOK
<1>4. now \in 1..MaxTime /\ sweep.now \in 0..MaxTime
  BY DEF RetentionTypeOK
<1> QED BY <1>1, <1>2, <1>3, <1>4

\* The three inodes leave one free when the path, the copy and the handle do
\* not hold three.
LEMMA FreeInodeIsFree ==
  ASSUME copy = NoFile \/ live = NoFile
  PROVE  FreeInode \in Inodes /\ FreeInode \notin {live, copy, handle}
<1>1. 1 \in Inodes /\ 2 \in Inodes /\ 3 \in Inodes
  BY DEF Inodes
<1>2. \/ 1 \notin {live, copy, handle}
      \/ 2 \notin {live, copy, handle}
      \/ 3 \notin {live, copy, handle}
  BY DEF NoFile
<1> QED BY <1>1, <1>2 DEF FreeInode

\* The file a copy goes to is not one in use.
LEMMA CopyTargetIsFree ==
  ASSUME Refs
  PROVE  CopyTarget \in Inodes /\ CopyTarget # live /\ CopyTarget # handle
<1>1. CASE copy = NoFile
  BY <1>1, FreeInodeIsFree DEF CopyTarget
<1>2. CASE copy # NoFile
  BY <1>2 DEF CopyTarget, Refs
<1> QED BY <1>1, <1>2

\* What has a TTL has a natural number of it.
LEMMA TTLTyped ==
  ASSUME NEW r \in Records, Kind[r] # "leaf"
  PROVE  TTL(Kind[r]) \in Nat
BY RetentionAssumption DEF TTL

-----------------------------------------------------------------------------
\* Nothing exists before the first boot.
LEMMA InitRetentionInv == RetentionInit => RetentionInv
<1> SUFFICES ASSUME RetentionInit PROVE RetentionInv
  OBVIOUS
<1>1. RetentionTypeOK
  BY RetentionAssumption DEF RetentionInit, RetentionTypeOK, Contents, Empty, Inodes, NoFile, NoValue
<1> QED BY <1>1 DEF RetentionInit, RetentionInv, SweepInv, FileInv, KeepInv, NoFile

\* Records only grow older.
LEMMA TickStep == ASSUME RetentionInv, RetentionTick PROVE RetentionInv'
<1>0. RetentionTypeOK
  BY DEF RetentionInv
<1>1. RetentionTypeOK'
  <2>1. now' \in 1..MaxTime
    <3>1. now \in 1..MaxTime /\ MaxTime \in Nat
      BY <1>0, RetentionAssumption DEF RetentionTypeOK
    <3>2. now < MaxTime /\ now' = now + 1
      BY DEF RetentionTick
    <3> QED BY <3>1, <3>2
  <2> QED BY <1>0, <2>1 DEF RetentionTypeOK, RetentionTick
<1>2. \A r \in Records : Expired(r) => Expired(r)'
  <2> SUFFICES ASSUME NEW r \in Records, Expired(r) PROVE Expired(r)'
    OBVIOUS
  <2>1. TTL(Kind[r]) \in Nat
    BY TTLTyped DEF Expired
  <2>2. saved[r] \in Int /\ now \in Int
    BY <1>0, TimesTyped
  <2>3. saved' = saved /\ now' = now + 1 /\ TTL(Kind[r])' = TTL(Kind[r])
    BY DEF RetentionTick, TTL
  <2> QED BY <2>1, <2>2, <2>3 DEF Expired
<1>3. KeepInv'
  BY <1>2 DEF RetentionInv, KeepInv, Keeps, RetentionTick
<1>4. SweepInv'
  <2>1. now \in Int /\ sweep.now \in Int
    BY <1>0, TimesTyped
  <2>2. sweep.now <= now
    BY DEF RetentionInv, SweepInv
  <2>3. sweep.now <= now + 1
    BY <2>1, <2>2
  <2> QED BY <2>3 DEF RetentionInv, SweepInv, RetentionTick
<1>5. FileInv'
  BY DEF RetentionInv, FileInv, RetentionTick
<1> QED BY <1>1, <1>3, <1>4, <1>5 DEF RetentionInv

\* Opening the file at the path.
LEMMA BootExistingStep == ASSUME RetentionInv, BootExisting PROVE RetentionInv'
<1>0. RetentionTypeOK
  BY DEF RetentionInv
<1>1. RetentionTypeOK'
  <2>1. Refs' /\ Unused'
    BY <1>0, TypeParts, NoFileIsNone DEF Refs, Unused, BootExisting
  <2> QED BY <1>0, <2>1, TypeParts, TypePartsNext DEF Clock, Files, Sweeps, BootExisting
<1>2. SweepInv' /\ FileInv'
  BY DEF RetentionInv, SweepInv, FileInv, BootExisting
<1>3. KeepInv'
  BY DEF RetentionInv, KeepInv, Keeps, Expired, TTL, SweepInv, BootExisting
<1> QED BY <1>1, <1>2, <1>3 DEF RetentionInv

\* Creating the first file, before anything was saved.
LEMMA BootFreshStep == ASSUME RetentionInv, BootFresh PROVE RetentionInv'
<1>0. RetentionTypeOK
  BY DEF RetentionInv
<1>1. FreeInode \in Inodes /\ FreeInode \notin {live, copy, handle}
  BY FreeInodeIsFree DEF BootFresh
<1>2. live' = FreeInode /\ handle' = FreeInode /\ FreeInode # NoFile
  BY <1>1, NoFileIsNone DEF BootFresh
<1>3. RetentionTypeOK'
  <2>1. Refs' /\ Unused'
    BY <1>0, <1>1, <1>2, TypeParts, NoFileIsNone DEF Refs, Unused, BootFresh
  <2> QED BY <1>0, <2>1, TypeParts, TypePartsNext DEF Clock, Files, Sweeps, BootFresh
<1>4. SweepInv' /\ FileInv'
  BY <1>2 DEF RetentionInv, SweepInv, FileInv, BootFresh
<1>5. \A r \in Records : saved'[r] = NoValue
  BY DEF RetentionInv, FileInv, BootFresh, Empty
<1>6. KeepInv'
  BY <1>5 DEF KeepInv, Keeps
<1> QED BY <1>3, <1>4, <1>6 DEF RetentionInv

\* A crash gives up the handle; the file at the path and the copy stay.
LEMMA CrashStep == ASSUME RetentionInv, RetentionCrash PROVE RetentionInv'
<1>0. RetentionTypeOK
  BY DEF RetentionInv
<1>1. RetentionTypeOK'
  <2>1. Refs' /\ Unused'
    BY <1>0, TypeParts DEF Refs, Unused, RetentionCrash, Released
  <2>2. Files'
    BY <1>0, TypeParts, EmptyTyped DEF Files, RetentionCrash, Released
  <2>3. Sweeps'
    BY <1>0, TypeParts, ClockBounds DEF Sweeps, RetentionCrash, Pcs
  <2> QED BY <1>0, <2>1, <2>2, <2>3, TypeParts, TypePartsNext DEF Clock, RetentionCrash
<1>2. SweepInv' /\ FileInv'
  BY <1>0, TypeParts, ClockBounds DEF RetentionInv, SweepInv, FileInv, RetentionCrash
<1>3. live # NoFile => file'[live] = file[live]
  BY <1>0, TypeParts DEF Refs, RetentionCrash, Released
<1>4. KeepInv'
  BY <1>3 DEF RetentionInv, KeepInv, Keeps, Expired, TTL, RetentionCrash
<1> QED BY <1>1, <1>2, <1>4 DEF RetentionInv

\* A sweep begins with the time it reads.
LEMMA SweepStartStep == ASSUME RetentionInv, SweepStart PROVE RetentionInv'
<1>0. RetentionTypeOK
  BY DEF RetentionInv
<1>1. RetentionTypeOK'
  <2>1. Sweeps'
    BY <1>0, TypeParts, ClockBounds DEF Sweeps, SweepStart, Pcs
  <2> QED BY <1>0, <2>1, TypeParts, TypePartsNext DEF Clock, Files, Refs, Unused, SweepStart
<1>2. SweepInv' /\ FileInv'
  BY <1>0, TypeParts, ClockBounds DEF RetentionInv, SweepInv, FileInv, SweepStart
<1>3. KeepInv'
  BY DEF RetentionInv, KeepInv, Keeps, Expired, TTL, SweepStart
<1> QED BY <1>1, <1>2, <1>3 DEF RetentionInv

\* A sweep that gives up changes no file.
LEMMA SweepEndStep == ASSUME RetentionInv, SweepEnd PROVE RetentionInv'
<1>0. RetentionTypeOK
  BY DEF RetentionInv
<1>1. RetentionTypeOK'
  <2>1. Sweeps'
    BY <1>0, TypeParts, ClockBounds DEF Sweeps, SweepEnd, Pcs
  <2> QED BY <1>0, <2>1, TypeParts, TypePartsNext DEF Clock, Files, Refs, Unused, SweepEnd
<1>2. SweepInv' /\ FileInv'
  BY <1>0, TypeParts, ClockBounds DEF RetentionInv, SweepInv, FileInv, SweepEnd
<1>3. KeepInv'
  BY DEF RetentionInv, KeepInv, Keeps, Expired, TTL, SweepEnd
<1> QED BY <1>1, <1>2, <1>3 DEF RetentionInv

\* What the first transaction drops has expired.
LEMMA SweepEventsStep == ASSUME RetentionInv, SweepEvents PROVE RetentionInv'
<1> DEFINE c == file[handle]
           d == [r \in Records |-> IF shouldDropEvent(r, c[r], sweep.now) THEN NoValue ELSE c[r]]
<1>0. RetentionTypeOK /\ SweepInv
  BY DEF RetentionInv
<1>1. handle \in Inodes /\ handle # NoFile
  BY <1>0, TypeParts DEF SweepInv, Refs, SweepEvents
<1>2. c \in Contents /\ d \in Contents
  <2>1. c \in Contents
    BY <1>0, <1>1, TypeParts DEF Files
  <2> QED BY <2>1 DEF Contents
<1>3. file' = [file EXCEPT ![handle] = d]
  BY DEF SweepEvents
<1>4. \A i \in Inodes : file'[i] = IF i = handle THEN d ELSE file[i]
  BY <1>0, <1>3, TypeParts DEF Files
<1>5. Keeps(d)
  <2>1. Keeps(c)
    BY <1>1 DEF RetentionInv, KeepInv
  <2> SUFFICES ASSUME NEW r \in Records, saved[r] # NoValue, d[r] # saved[r] PROVE Expired(r)
    BY DEF Keeps
  <2>2. CASE c[r] # saved[r]
    BY <2>1, <2>2 DEF Keeps
  <2>3. CASE c[r] = saved[r]
    <3>1. shouldDropEvent(r, saved[r], sweep.now)
      BY <2>3
    <3>2. Kind[r] # "leaf" /\ sweep.now - saved[r] > TTL(Kind[r])
      BY <3>1 DEF shouldDropEvent
    <3>3. TTL(Kind[r]) \in Nat /\ sweep.now \in Int /\ now \in Int /\ saved[r] \in Int
      BY <1>0, <3>2, TTLTyped, TimesTyped
    <3>4. sweep.now <= now
      BY <1>0 DEF SweepInv
    <3>5. now - saved[r] > TTL(Kind[r])
      BY <3>2, <3>3, <3>4
    <3> QED BY <3>2, <3>5 DEF Expired
  <2> QED BY <2>2, <2>3
<1> HIDE DEF c, d
<1>6. RetentionTypeOK'
  <2>1. Files'
    BY <1>0, <1>2, <1>3, TypeParts DEF Files, SweepEvents
  <2>2. Unused'
    BY <1>0, <1>4, TypeParts DEF Unused, SweepEvents
  <2>3. Sweeps'
    BY <1>0, TypeParts DEF Sweeps, Pcs, SweepEvents
  <2> QED BY <1>0, <2>1, <2>2, <2>3, TypeParts, TypePartsNext DEF Clock, Refs, SweepEvents
<1>7. sweep'.now = sweep.now /\ sweep'.pc \in {"events done"}
  BY <1>0, TypeParts DEF Sweeps, SweepEvents
<1>8. SweepInv' /\ FileInv'
  BY <1>0, <1>1, <1>7 DEF RetentionInv, SweepInv, FileInv, SweepEvents
<1>9. KeepInv'
  <2>1. \A r \in Records : Expired(r)' <=> Expired(r)
    BY DEF Expired, TTL, SweepEvents
  <2>2. saved' = saved /\ handle' = handle /\ live' = live
    BY DEF SweepEvents
  <2>3. Keeps(file[handle])'
    BY <1>1, <1>4, <1>5, <2>1, <2>2 DEF Keeps
  <2>4. live # NoFile => live \in Inodes
    BY <1>0, TypeParts DEF Refs
  <2>5. live # NoFile => Keeps(file[live])'
    BY <1>4, <1>5, <2>1, <2>2, <2>4 DEF RetentionInv, KeepInv, Keeps
  <2> QED BY <1>7, <2>2, <2>3, <2>5 DEF KeepInv
<1> QED BY <1>6, <1>8, <1>9 DEF RetentionInv

\* What the second transaction drops has expired.
LEMMA SweepAssetsStep == ASSUME RetentionInv, SweepAssets PROVE RetentionInv'
<1> DEFINE c == file[handle]
           d == [r \in Records |-> IF assetIsStale(r, c[r], sweep.now) THEN NoValue ELSE c[r]]
<1>0. RetentionTypeOK /\ SweepInv
  BY DEF RetentionInv
<1>1. handle \in Inodes /\ handle # NoFile
  BY <1>0, TypeParts DEF SweepInv, Refs, SweepAssets
<1>2. c \in Contents /\ d \in Contents
  <2>1. c \in Contents
    BY <1>0, <1>1, TypeParts DEF Files
  <2> QED BY <2>1 DEF Contents
<1>3. file' = [file EXCEPT ![handle] = d]
  BY DEF SweepAssets
<1>4. \A i \in Inodes : file'[i] = IF i = handle THEN d ELSE file[i]
  BY <1>0, <1>3, TypeParts DEF Files
<1>5. Keeps(d)
  <2>1. Keeps(c)
    BY <1>1 DEF RetentionInv, KeepInv
  <2> SUFFICES ASSUME NEW r \in Records, saved[r] # NoValue, d[r] # saved[r] PROVE Expired(r)
    BY DEF Keeps
  <2>2. CASE c[r] # saved[r]
    BY <2>1, <2>2 DEF Keeps
  <2>3. CASE c[r] = saved[r]
    <3>1. assetIsStale(r, saved[r], sweep.now)
      BY <2>3
    <3>2. Kind[r] # "leaf" /\ sweep.now - saved[r] > TTL(Kind[r])
      BY <3>1 DEF assetIsStale
    <3>3. TTL(Kind[r]) \in Nat /\ sweep.now \in Int /\ now \in Int /\ saved[r] \in Int
      BY <1>0, <3>2, TTLTyped, TimesTyped
    <3>4. sweep.now <= now
      BY <1>0 DEF SweepInv
    <3>5. now - saved[r] > TTL(Kind[r])
      BY <3>2, <3>3, <3>4
    <3> QED BY <3>2, <3>5 DEF Expired
  <2> QED BY <2>2, <2>3
<1> HIDE DEF c, d
<1>6. RetentionTypeOK'
  <2>1. Files'
    BY <1>0, <1>2, <1>3, TypeParts DEF Files, SweepAssets
  <2>2. Unused'
    BY <1>0, <1>4, TypeParts DEF Unused, SweepAssets
  <2>3. Sweeps'
    BY <1>0, TypeParts DEF Sweeps, Pcs, SweepAssets, AfterAssets
  <2> QED BY <1>0, <2>1, <2>2, <2>3, TypeParts, TypePartsNext DEF Clock, Refs, SweepAssets
<1>7. sweep'.now = sweep.now /\ sweep'.pc \in {"idle", "assets done"}
  BY <1>0, TypeParts DEF Sweeps, SweepAssets, AfterAssets
<1>8. SweepInv' /\ FileInv'
  BY <1>0, <1>1, <1>7, TypeParts DEF RetentionInv, SweepInv, FileInv, SweepAssets, AfterAssets, Sweeps
<1>9. KeepInv'
  <2>1. \A r \in Records : Expired(r)' <=> Expired(r)
    BY DEF Expired, TTL, SweepAssets
  <2>2. saved' = saved /\ handle' = handle /\ live' = live
    BY DEF SweepAssets
  <2>3. Keeps(file[handle])'
    BY <1>1, <1>4, <1>5, <2>1, <2>2 DEF Keeps
  <2>4. live # NoFile => live \in Inodes
    BY <1>0, TypeParts DEF Refs
  <2>5. live # NoFile => Keeps(file[live])'
    BY <1>4, <1>5, <2>1, <2>2, <2>4 DEF RetentionInv, KeepInv, Keeps
  <2> QED BY <1>7, <2>2, <2>3, <2>5 DEF KeepInv
<1> QED BY <1>6, <1>8, <1>9 DEF RetentionInv

\* A save goes to the file at the path, and no copy is in the making: what it
\* acknowledges is in every file that may become the database.
LEMMA SaveStep ==
  ASSUME Safe, RetentionInv, NEW q \in Records, Save(q)
  PROVE  RetentionInv'
<1>0. RetentionTypeOK /\ SweepInv /\ FileInv
  BY DEF RetentionInv
<1>1. PICK ts \in StampsAt(q) : /\ file' = [file EXCEPT ![handle][q] = ts]
                                /\ saved' = [saved EXCEPT ![q] = ts]
  BY DEF Save
<1>2. handle \in Inodes /\ handle # NoFile /\ handle = live /\ sweep.pc # "copied"
  BY <1>0, TypeParts DEF Safe, SweepInv, FileInv, Refs, Save, WritersPaused
<1>3. ts \in {NoValue} \cup 1..MaxTime
  <2>1. now \in 1..MaxTime /\ MaxTime \in Nat
    BY <1>0, RetentionAssumption, TypeParts DEF Clock
  <2>2. ts \in 1..now
    BY <2>1 DEF StampsAt
  <2> QED BY <2>1, <2>2
<1>4. /\ \A i \in Inodes : i # handle => file'[i] = file[i]
      /\ file'[handle] = [file[handle] EXCEPT ![q] = ts]
  BY <1>0, <1>1, <1>2, TypeParts DEF Files
<1>5. RetentionTypeOK'
  <2>1. file[handle] \in Contents
    BY <1>0, <1>2, TypeParts DEF Files
  <2>2. [file[handle] EXCEPT ![q] = ts] \in Contents
    BY <1>3, <2>1 DEF Contents
  <2>3. file' \in [Inodes -> Contents]
    BY <1>0, <1>1, <1>2, <2>2, TypeParts DEF Files
  <2>4. saved' \in Contents
    BY <1>0, <1>1, <1>3, TypeParts DEF Files, Contents
  <2>5. Files'
    BY <2>3, <2>4 DEF Files
  <2>6. Unused'
    BY <1>0, <1>4, TypeParts DEF Unused, Save
  <2> QED BY <1>0, <2>5, <2>6, TypeParts, TypePartsNext DEF Clock, Refs, Sweeps, Save
<1>6. SweepInv' /\ FileInv'
  BY <1>0, <1>2 DEF SweepInv, FileInv, Save
<1>7. Keeps(file[handle])
  BY <1>2 DEF RetentionInv, KeepInv
<1>8. Keeps(file[handle])'
  <2> SUFFICES ASSUME NEW r \in Records, saved'[r] # NoValue, file'[handle][r] # saved'[r]
               PROVE  Expired(r)'
    BY DEF Keeps, Save
  <2>1. file[handle] \in [Records -> {NoValue} \cup 1..MaxTime]
    BY <1>0, <1>2, TypeParts DEF Files, Contents
  <2>2. saved \in [Records -> {NoValue} \cup 1..MaxTime]
    BY <1>0, TypeParts DEF Files, Contents
  <2>3. r # q
    BY <1>1, <1>4, <2>1, <2>2
  <2>4. saved'[r] = saved[r] /\ file'[handle][r] = file[handle][r]
    BY <1>1, <1>4, <2>1, <2>2, <2>3
  <2>5. Expired(r)
    BY <1>7, <2>4 DEF Keeps
  <2> QED BY <2>4, <2>5 DEF Expired, TTL, Save
<1>9. KeepInv'
  BY <1>2, <1>8 DEF KeepInv, Save
<1> QED BY <1>5, <1>6, <1>9 DEF RetentionInv

\* A copy holds what the open file holds, and goes to a file not in use.
LEMMA CompactCopyStep == ASSUME RetentionInv, CompactCopy PROVE RetentionInv'
<1> DEFINE t == CopyTarget
<1>0. RetentionTypeOK /\ SweepInv
  BY DEF RetentionInv
<1>1. t \in Inodes /\ t # live /\ t # handle /\ t # NoFile
  BY <1>0, TypeParts, CopyTargetIsFree, NoFileIsNone
<1>2. handle \in Inodes /\ handle # NoFile
  BY <1>0, TypeParts DEF SweepInv, Refs, CompactCopy
<1>3. file' = [file EXCEPT ![t] = file[handle]] /\ copy' = t
  BY DEF CompactCopy
<1>3a. copy # NoFile => copy = t
  BY DEF CopyTarget
<1> HIDE DEF t
<1>4. \A i \in Inodes : file'[i] = IF i = t THEN file[handle] ELSE file[i]
  BY <1>0, <1>3, TypeParts DEF Files
<1>5. RetentionTypeOK'
  <2>1. Files'
    BY <1>0, <1>2, <1>3, TypeParts DEF Files, CompactCopy
  <2>2. Refs'
    BY <1>0, <1>1, <1>3, TypeParts DEF Refs, CompactCopy
  <2>3. Unused'
    BY <1>0, <1>3, <1>3a, <1>4, TypeParts, NoFileIsNone DEF Unused, CompactCopy
  <2>4. Sweeps'
    BY <1>0, TypeParts DEF Sweeps, Pcs, CompactCopy
  <2> QED BY <1>0, <2>1, <2>2, <2>3, <2>4, TypeParts, TypePartsNext DEF Clock, CompactCopy
<1>6. sweep'.now = sweep.now /\ sweep'.pc = "copied"
  BY <1>0, TypeParts DEF Sweeps, CompactCopy
<1>7. SweepInv' /\ FileInv'
  BY <1>0, <1>1, <1>2, <1>3, <1>6 DEF RetentionInv, SweepInv, FileInv, CompactCopy
<1>8. /\ file'[t] = file[handle] /\ file'[handle] = file[handle]
      /\ live # NoFile => file'[live] = file[live]
  BY <1>0, <1>1, <1>2, <1>4, TypeParts DEF Refs
<1>9. KeepInv'
  <2>1. \A r \in Records : Expired(r)' <=> Expired(r)
    BY DEF Expired, TTL, CompactCopy
  <2>2. saved' = saved /\ handle' = handle /\ live' = live
    BY DEF CompactCopy
  <2>3. Keeps(file[handle])
    BY <1>2 DEF RetentionInv, KeepInv
  <2>4. Keeps(file[handle])' /\ Keeps(file[copy])'
    BY <1>3, <1>8, <2>1, <2>2, <2>3 DEF Keeps
  <2>5. live # NoFile => Keeps(file[live])'
    BY <1>8, <2>1, <2>2 DEF RetentionInv, KeepInv, Keeps
  <2> QED BY <2>2, <2>4, <2>5 DEF KeepInv
<1> QED BY <1>5, <1>7, <1>9 DEF RetentionInv

\* The copy becomes the file at the path; the process keeps the old one.
LEMMA CompactRenameStep == ASSUME RetentionInv, CompactRename PROVE RetentionInv'
<1>0. RetentionTypeOK /\ SweepInv
  BY DEF RetentionInv
<1>1. copy \in Inodes /\ copy # NoFile /\ handle \in Inodes /\ handle # NoFile
  BY <1>0, TypeParts DEF SweepInv, Refs, CompactRename
<1>2. file'[copy] = file[copy] /\ file'[handle] = file[handle]
  BY <1>1 DEF CompactRename, Released
<1>3. RetentionTypeOK'
  <2>1. Files'
    BY <1>0, TypeParts, EmptyTyped DEF Files, CompactRename, Released
  <2>2. Refs' /\ Unused'
    BY <1>0, <1>1, TypeParts DEF Refs, Unused, CompactRename, Released
  <2>3. Sweeps'
    BY <1>0, TypeParts, ClockBounds DEF Sweeps, CompactRename, Pcs
  <2> QED BY <1>0, <2>1, <2>2, <2>3, TypeParts, TypePartsNext DEF Clock, CompactRename
<1>4. SweepInv' /\ FileInv'
  BY <1>0, <1>1, TypeParts, ClockBounds DEF SweepInv, FileInv, CompactRename
<1>5. KeepInv'
  BY <1>1, <1>2 DEF RetentionInv, KeepInv, Keeps, Expired, TTL, CompactRename
<1> QED BY <1>3, <1>4, <1>5 DEF RetentionInv

-----------------------------------------------------------------------------
(* RetentionInv is inductive unless compaction is scheduled in the live    *)
(* process: Save is the step that would break it there.                    *)
THEOREM RetentionInductive == Safe => (RetentionSpec => []RetentionInv)
<1> SUFFICES ASSUME Safe PROVE RetentionSpec => []RetentionInv
  OBVIOUS
<1>1. ASSUME RetentionInv, [RetentionNext]_retentionVars PROVE RetentionInv'
  <2>1. CASE UNCHANGED retentionVars
    BY <1>1, <2>1 DEF RetentionInv, RetentionTypeOK, SweepInv, FileInv, KeepInv, Keeps, Expired, TTL, retentionVars
  <2>2. ASSUME NEW r \in Records, Save(r) PROVE RetentionInv'
    BY <1>1, <2>2, SaveStep
  <2>3. CASE RetentionTick \/ BootExisting \/ BootFresh \/ RetentionCrash
    BY <1>1, <2>3, TickStep, BootExistingStep, BootFreshStep, CrashStep
  <2>4. CASE SweepStart \/ SweepEvents \/ SweepAssets \/ SweepEnd
    BY <1>1, <2>4, SweepStartStep, SweepEventsStep, SweepAssetsStep, SweepEndStep
  <2>5. CASE CompactCopy \/ CompactRename
    BY <1>1, <2>5, CompactCopyStep, CompactRenameStep
  <2> QED BY <1>1, <2>1, <2>2, <2>3, <2>4, <2>5 DEF RetentionNext
<1> QED BY <1>1, InitRetentionInv, PTL DEF RetentionSpec

(* No acknowledged record disappears before its TTL, and a transparency    *)
(* leaf never, for any records, TTLs and number of sweeps, compactions     *)
(* and restarts (Engine.Sweep, compact).                                   *)
THEOREM NothingGoesEarly == Safe => (RetentionSpec => []RetainedUntilTTL)
<1>1. RetentionInv => RetainedUntilTTL
  BY DEF RetentionInv, KeepInv, FileInv, Keeps, RetainedUntilTTL, Visible, Empty
<1> QED BY <1>1, RetentionInductive, PTL

(* A compaction writes to no file in use, and files no longer referred to  *)
(* are gone.                                                               *)
THEOREM FilesTyped == Safe => (RetentionSpec => []RetentionTypeOK)
<1>1. RetentionInv => RetentionTypeOK
  BY DEF RetentionInv
<1> QED BY <1>1, RetentionInductive, PTL
=============================================================================

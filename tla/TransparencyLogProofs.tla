------------------------ MODULE TransparencyLogProofs ------------------------
(***************************************************************************)
(* For every payload set, every number of leaves and every set of issuers: *)
(* the type invariant, the mirror between cache and bucket, the backing of *)
(* every STH by stored leaves, the immutability of leaves, and the         *)
(* refinement of AppendOnlyLog.  IndInv is the inductive invariant; each   *)
(* action has a lemma of its own.                                          *)
(***************************************************************************)
EXTENDS TransparencyLog, FiniteSetTheorems, SequenceTheorems, TLAPS

-----------------------------------------------------------------------------
(* The bucket in key order.                                                *)

\* In the interval 0..n-1 the j-th key in ascending order is j - 1.
LEMMA KeyAtInterval ==
  ASSUME NEW n \in Nat, NEW j \in 1..n
  PROVE  KeyAt(0..(n - 1), j) = j - 1
<1> DEFINE K == 0..(n - 1)
<1>1. ASSUME NEW i \in K PROVE Cardinality({k \in K : k < i}) = i
  <2>1. {k \in K : k < i} = 0..(i - 1)
    OBVIOUS
  <2>2. Cardinality(0..(i - 1)) = i
    BY FS_Interval
  <2> QED BY <2>1, <2>2
<1>2. \A i \in K : Cardinality({k \in K : k < i}) = j - 1 <=> i = j - 1
  BY <1>1
<1>3. j - 1 \in K
  OBVIOUS
<1> HIDE DEF K
<1>4. (CHOOSE i \in K : Cardinality({k \in K : k < i}) = j - 1) = j - 1
  BY <1>2, <1>3
<1> QED BY <1>4 DEF KeyAt, K

\* A bucket without holes, read in key order, is the sequence of its values.
LEMMA KeysOfPrefix ==
  ASSUME NEW l, NEW n \in 0..MaxLeaves, DiskHolds(l, n)
  PROVE  /\ KeysOf(l) = 0..(n - 1)
         /\ Cardinality(KeysOf(l)) = n
<1>1. KeysOf(l) = 0..(n - 1)
  BY TransparencyLogAssumption DEF KeysOf, DiskHolds
<1>2. Cardinality(0..(n - 1)) = n
  BY FS_Interval, TransparencyLogAssumption
<1> QED BY <1>1, <1>2

\* What backs a tree head keeps backing it when no stored leaf changes.
LEMMA BackedStable ==
  ASSUME NEW l, NEW m, NEW size \in Nat, NEW root,
         \A i \in 0..(MaxLeaves - 1) : l[i] # Absent => m[i] = l[i],
         Backed(l, size, root)
  PROVE  Backed(m, size, root)
<1>1. PICK k \in size..MaxLeaves :
        /\ \A i \in 0..(k - 1) : l[i] # Absent
        /\ root = RootOf(StoredHashes(l, k))
  BY DEF Backed
<1>2. \A i \in 0..(k - 1) : m[i] = l[i]
  BY <1>1, TransparencyLogAssumption
<1>3. StoredHashes(m, k) = StoredHashes(l, k)
  <2>1. \A i \in 1..k : HashLeaf(m[i - 1]) = HashLeaf(l[i - 1])
    BY <1>2, TransparencyLogAssumption
  <2> QED BY <2>1 DEF StoredHashes
<1> QED BY <1>1, <1>2, <1>3 DEF Backed

-----------------------------------------------------------------------------
\* The empty cache is a sequence of leaf hashes.
LEMMA EmptySeqTyped == <<>> \in Seq(LeafHashes) /\ Len(<<>>) = 0
OBVIOUS

(* IndInv holds initially and is preserved by each action.                 *)

\* The empty file and the stopped process satisfy the invariant.
LEMMA InitIndInv == Init => IndInv
<1> SUFFICES ASSUME Init PROVE IndInv
  OBVIOUS
<1>1. TypeOK
  <2>1. leaves \in [0..(MaxLeaves - 1) -> Payload \cup {Absent}]
    BY DEF Init
  <2>2. hashes \in Seq(LeafHashes) /\ Len(hashes) <= MaxLeaves
    BY EmptySeqTyped, TransparencyLogAssumption DEF Init
  <2>3. \A i \in Issuers : issuer[i].pc = "idle" /\ issuer[i].size \in 0..MaxLeaves
    BY TransparencyLogAssumption DEF Init, Idle
  <2>4. DOMAIN issuer = Issuers /\ DOMAIN history = 0..MaxLeaves
    BY DEF Init
  <2>5. \A n \in 0..MaxLeaves : history[n] = NoSTH
    BY DEF Init
  <2> QED BY <2>1, <2>2, <2>3, <2>4, <2>5 DEF Init, TypeOK
<1>2. DiskHolds(leaves, 0)
  BY TransparencyLogAssumption DEF Init, DiskHolds
<1>3. \A i \in Issuers : IssuerInv(i)
  BY DEF Init, IssuerInv, Idle
<1>4. HeadsBackedByLeaves
  BY DEF Init, HeadsBackedByLeaves, Heads
<1> QED BY <1>1, <1>2, <1>3, <1>4, TransparencyLogAssumption DEF IndInv, Init

\* Open: rehydrate rebuilds the cache of the n leaves the file holds.
LEMMA OpenPreserves == IndInv /\ Open => IndInv'
<1> SUFFICES ASSUME IndInv, Open PROVE IndInv'
  OBVIOUS
<1>1. PICK n \in 0..MaxLeaves : DiskHolds(leaves, n)
  BY DEF IndInv
<1>2. Keys = 0..(n - 1) /\ Cardinality(Keys) = n
  BY <1>1, KeysOfPrefix DEF Keys
<1>3. n \in Nat
  BY TransparencyLogAssumption
<1>4. hashes' = [j \in 1..n |-> HashLeaf(leaves[j - 1])]
  <2>1. \A j \in 1..n : KeyAt(Keys, j) = j - 1
    BY <1>2, <1>3, KeyAtInterval
  <2>2. hashes' = [j \in 1..n |-> HashLeaf(leaves[KeyAt(Keys, j)])]
    BY <1>2 DEF Open, rehydrate
  <2> QED BY <2>1, <2>2
<1>5. \A j \in 1..n : leaves[j - 1] \in Payload
  BY <1>1, TransparencyLogAssumption DEF IndInv, TypeOK, DiskHolds
<1>6. hashes' \in Seq(LeafHashes) /\ Len(hashes') = n
  BY <1>3, <1>4, <1>5 DEF LeafHashes
<1>7. TypeOK'
  BY <1>6 DEF IndInv, TypeOK, Open, disk
<1>8. mu = "free"
  BY DEF IndInv, Open
<1>9. CacheInv(n)'
  BY <1>3, <1>4, <1>6, <1>8 DEF CacheInv, Open, disk
<1>10. DiskHolds(leaves, n)'
  BY <1>1 DEF DiskHolds, Open, disk
<1>11. \A i \in Issuers : IssuerInv(i)'
  BY DEF IndInv, IssuerInv, Open, disk
<1>12. HeadsBackedByLeaves'
  BY DEF IndInv, HeadsBackedByLeaves, Heads, Open, disk
<1> QED BY <1>7, <1>9, <1>10, <1>11, <1>12 DEF IndInv, Open

\* Crash: the file keeps the n leaves it holds; memory is gone.
LEMMA CrashPreserves == IndInv /\ Crash => IndInv'
<1> SUFFICES ASSUME IndInv, Crash PROVE IndInv'
  OBVIOUS
<1>1. TypeOK'
  <2>1. hashes' \in Seq(LeafHashes) /\ Len(hashes') <= MaxLeaves
    BY EmptySeqTyped, TransparencyLogAssumption DEF Crash
  <2>2. \A i \in Issuers : issuer'[i].pc = "idle" /\ issuer'[i].size \in 0..MaxLeaves
    BY TransparencyLogAssumption DEF Crash, Idle
  <2>3. DOMAIN issuer' = Issuers
    BY DEF Crash
  <2> QED BY <2>1, <2>2, <2>3 DEF IndInv, TypeOK, Crash, disk
<1>2. \E n \in 0..MaxLeaves : DiskHolds(leaves, n)'
  BY DEF IndInv, DiskHolds, Crash, disk
<1>3. \A i \in Issuers : IssuerInv(i)'
  BY DEF IssuerInv, Crash, Idle
<1>4. HeadsBackedByLeaves'
  BY DEF IndInv, HeadsBackedByLeaves, Heads, Crash, disk
<1> QED BY <1>1, <1>2, <1>3, <1>4 DEF IndInv, Crash

\* Append takes the mutex: nothing but mu and pending moves.
LEMMA AppendLockPreserves ==
  ASSUME NEW p \in Payload, IndInv, AppendLock(p) PROVE IndInv'
<1>1. TypeOK'
  BY DEF IndInv, TypeOK, AppendLock, disk
<1>2. PICK n \in 0..MaxLeaves : DiskHolds(leaves, n) /\ CacheInv(n)
  BY DEF IndInv, AppendLock
<1>3. DiskHolds(leaves, n)' /\ CacheInv(n)'
  BY <1>2 DEF DiskHolds, CacheInv, AppendLock, disk
<1>4. \A i \in Issuers : IssuerInv(i)'
  BY DEF IndInv, IssuerInv, AppendLock, disk
<1>5. HeadsBackedByLeaves'
  BY DEF IndInv, HeadsBackedByLeaves, Heads, AppendLock, disk
<1> QED BY <1>1, <1>3, <1>4, <1>5 DEF IndInv, AppendLock

\* Append's transaction writes the first free key and no stored one.
LEMMA AppendCommitFresh ==
  ASSUME IndInv, AppendCommit
  PROVE  /\ DiskHolds(leaves, Len(hashes))
         /\ Len(hashes) \in 0..(MaxLeaves - 1)
         /\ pending \in Payload
         /\ leaves' = [leaves EXCEPT ![Len(hashes)] = pending]
         /\ leaves[Len(hashes)] = Absent
<1>1. PICK n \in 0..MaxLeaves : DiskHolds(leaves, n) /\ CacheInv(n)
  BY DEF IndInv, AppendCommit
<1>2. n = Len(hashes) /\ Len(hashes) < MaxLeaves /\ pending \in Payload
  BY <1>1 DEF CacheInv, AppendCommit
<1>3. Len(hashes) \in Nat
  BY DEF IndInv, TypeOK
<1>4. Len(hashes) \in 0..(MaxLeaves - 1)
  BY <1>2, <1>3, TransparencyLogAssumption
<1> QED BY <1>1, <1>2, <1>4 DEF DiskHolds, AppendCommit

\* Append's transaction: the bucket is one leaf ahead of the cache.
LEMMA AppendCommitPreserves == IndInv /\ AppendCommit => IndInv'
<1> SUFFICES ASSUME IndInv, AppendCommit PROVE IndInv'
  OBVIOUS
<1>0. PICK n : n = Len(hashes)
  OBVIOUS
<1>1. /\ DiskHolds(leaves, n)
      /\ n \in 0..(MaxLeaves - 1)
      /\ pending \in Payload
      /\ leaves' = [leaves EXCEPT ![n] = pending]
      /\ leaves[n] = Absent
  BY <1>0, AppendCommitFresh
<1>2. leaves \in [0..(MaxLeaves - 1) -> Payload \cup {Absent}]
  BY DEF IndInv, TypeOK
<1>3. \A i \in 0..(MaxLeaves - 1) : leaves[i] # Absent => leaves'[i] = leaves[i]
  BY <1>1, <1>2
<1>4. TypeOK'
  <2>1. leaves' \in [0..(MaxLeaves - 1) -> Payload \cup {Absent}]
    BY <1>1, <1>2
  <2> QED BY <2>1 DEF IndInv, TypeOK, AppendCommit
<1>5. DiskHolds(leaves', n + 1)
  BY <1>1, <1>2, TransparencyLogAssumption DEF DiskHolds
<1>6. CacheInv(n + 1)'
  <2>1. CacheInv(n)
    <3>1. PICK k \in 0..MaxLeaves : CacheInv(k)
      BY DEF IndInv, AppendCommit
    <3> QED BY <3>1, <1>0 DEF CacheInv, AppendCommit
  <2>2. \A i \in 1..n : leaves'[i - 1] = leaves[i - 1]
    BY <1>1, <1>2
  <2>3. leaves'[n] = pending
    BY <1>1, <1>2
  <2>4. n < MaxLeaves
    BY <1>1, TransparencyLogAssumption
  <2> QED BY <1>0, <1>1, <2>1, <2>2, <2>3, <2>4 DEF CacheInv, AppendCommit
<1>7. \A i \in Issuers : IssuerInv(i)'
  <2> SUFFICES ASSUME NEW i \in Issuers PROVE IssuerInv(i)'
    OBVIOUS
  <2>1. IssuerInv(i) /\ issuer[i].size \in Nat
    BY TransparencyLogAssumption DEF IndInv, TypeOK
  <2>2. Backed(leaves, issuer[i].size, issuer[i].root)
          => Backed(leaves', issuer[i].size, issuer[i].root)
    BY <2>1, <1>3, BackedStable
  <2> QED BY <2>1, <2>2 DEF IssuerInv, AppendCommit
<1>8. HeadsBackedByLeaves'
  <2> SUFFICES ASSUME NEW h \in Heads, h # NoSTH PROVE Backed(leaves', h.size, h.root)
    BY DEF HeadsBackedByLeaves, Heads, AppendCommit
  <2>1. h.size \in Nat
    BY TransparencyLogAssumption DEF IndInv, TypeOK, Heads
  <2>2. Backed(leaves, h.size, h.root)
    BY DEF IndInv, HeadsBackedByLeaves
  <2> QED BY <2>1, <2>2, <1>3, BackedStable
<1>9. n + 1 \in 0..MaxLeaves
  BY <1>1, TransparencyLogAssumption
<1>10. up' /\ (~ up' => mu' = "free")
  BY DEF AppendCommit
<1> QED BY <1>4, <1>5, <1>6, <1>7, <1>8, <1>9, <1>10 DEF IndInv

\* A failed append releases the mutex and changes nothing else.
LEMMA AppendFailPreserves == IndInv /\ AppendFail => IndInv'
<1> SUFFICES ASSUME IndInv, AppendFail PROVE IndInv'
  OBVIOUS
<1>1. TypeOK'
  BY DEF IndInv, TypeOK, AppendFail, disk
<1>2. PICK n \in 0..MaxLeaves : DiskHolds(leaves, n) /\ CacheInv(n)
  BY DEF IndInv, AppendFail
<1>3. DiskHolds(leaves, n)' /\ CacheInv(n)'
  BY <1>2 DEF DiskHolds, CacheInv, AppendFail, disk
<1>4. \A i \in Issuers : IssuerInv(i)'
  BY DEF IndInv, IssuerInv, AppendFail, disk
<1>5. HeadsBackedByLeaves'
  BY DEF IndInv, HeadsBackedByLeaves, Heads, AppendFail, disk
<1> QED BY <1>1, <1>3, <1>4, <1>5 DEF IndInv, AppendFail

\* The cache catches up with the bucket.
LEMMA AppendCachePreserves == IndInv /\ AppendCache => IndInv'
<1> SUFFICES ASSUME IndInv, AppendCache PROVE IndInv'
  OBVIOUS
<1>1. PICK n \in 0..MaxLeaves : DiskHolds(leaves, n) /\ CacheInv(n)
  BY DEF IndInv, AppendCache
<1>2. /\ n = Len(hashes) + 1
      /\ Len(hashes) < MaxLeaves
      /\ pending \in Payload
      /\ leaves[Len(hashes)] = pending
      /\ \A i \in 1..Len(hashes) : hashes[i] = HashLeaf(leaves[i - 1])
  BY <1>1 DEF CacheInv, AppendCache
<1>3. hashes \in Seq(LeafHashes) /\ HashLeaf(pending) \in LeafHashes
  BY <1>2 DEF IndInv, TypeOK, LeafHashes
<1>4. /\ hashes' \in Seq(LeafHashes)
      /\ Len(hashes') = Len(hashes) + 1
      /\ \A i \in 1..Len(hashes) : hashes'[i] = hashes[i]
      /\ hashes'[Len(hashes) + 1] = HashLeaf(pending)
  BY <1>3, AppendProperties DEF AppendCache
<1>5. Len(hashes) \in Nat
  BY <1>3
<1>6. TypeOK'
  <2>1. Len(hashes') <= MaxLeaves
    BY <1>2, <1>4, <1>5, TransparencyLogAssumption
  <2> QED BY <1>4, <2>1 DEF IndInv, TypeOK, AppendCache, disk
<1>7. DiskHolds(leaves, n)'
  BY <1>1 DEF DiskHolds, AppendCache, disk
<1>8. CacheInv(n)'
  <2>1. \A i \in 1..Len(hashes') : hashes'[i] = HashLeaf(leaves[i - 1])
    BY <1>2, <1>4, <1>5
  <2> QED BY <2>1, <1>2, <1>4 DEF CacheInv, AppendCache, disk
<1>9. \A i \in Issuers : IssuerInv(i)'
  <2> SUFFICES ASSUME NEW i \in Issuers PROVE IssuerInv(i)'
    OBVIOUS
  <2>1. IssuerInv(i) /\ issuer[i].size \in 0..MaxLeaves
    BY DEF IndInv, TypeOK
  <2>2. issuer[i].size <= Len(hashes) => issuer[i].size <= Len(hashes')
    BY <2>1, <1>4, <1>5, TransparencyLogAssumption
  <2> QED BY <2>1, <2>2 DEF IssuerInv, AppendCache, disk
<1>10. HeadsBackedByLeaves'
  BY DEF IndInv, HeadsBackedByLeaves, Heads, AppendCache, disk
<1> QED BY <1>6, <1>7, <1>8, <1>9, <1>10 DEF IndInv, AppendCache

\* The next state of an issuer that IssuerInv allows.
MayAdvance(pc, size, root) ==
  /\ pc \in {"idle", "sized", "rooted", "signed"}
  /\ size \in 0..MaxLeaves
  /\ pc # "idle" => up /\ size <= Len(hashes)
  /\ pc \in {"rooted", "signed"} => Backed(leaves, size, root)

\* What every step of an issuer leaves alone.
LEMMA IssuerStepFrame ==
  ASSUME IndInv, NEW j \in Issuers, NEW pc, NEW size, NEW root,
         MayAdvance(pc, size, root), Advance(j, pc, size, root),
         leaves' = leaves, up' = up, hashes' = hashes, mu' = mu, pending' = pending
  PROVE  /\ DOMAIN issuer' = Issuers
         /\ \A i \in Issuers : /\ issuer'[i].pc \in {"idle", "sized", "rooted", "signed"}
                               /\ issuer'[i].size \in 0..MaxLeaves
         /\ \A i \in Issuers : IssuerInv(i)'
         /\ \E n \in 0..MaxLeaves : DiskHolds(leaves, n)' /\ (up' => CacheInv(n)')
<1>1. DOMAIN issuer = Issuers
  BY DEF IndInv, TypeOK
<1>2. issuer'[j] = [pc |-> pc, size |-> size, root |-> root]
  BY <1>1 DEF Advance
<1>3. \A i \in Issuers : i # j => issuer'[i] = issuer[i]
  BY <1>1 DEF Advance
<1>4. \A i \in Issuers : IssuerInv(i)'
  <2> SUFFICES ASSUME NEW i \in Issuers PROVE IssuerInv(i)'
    OBVIOUS
  <2>1. CASE i = j
    BY <2>1, <1>2 DEF IssuerInv, MayAdvance
  <2>2. CASE i # j
    BY <2>2, <1>3 DEF IndInv, IssuerInv
  <2> QED BY <2>1, <2>2
<1>5. \E n \in 0..MaxLeaves : DiskHolds(leaves, n)' /\ (up' => CacheInv(n)')
  BY DEF IndInv, DiskHolds, CacheInv
<1>6. \A i \in Issuers : /\ issuer'[i].pc \in {"idle", "sized", "rooted", "signed"}
                         /\ issuer'[i].size \in 0..MaxLeaves
  BY <1>2, <1>3 DEF IndInv, TypeOK, MayAdvance
<1>7. DOMAIN issuer' = Issuers
  BY <1>1 DEF Advance
<1> QED BY <1>4, <1>5, <1>6, <1>7

\* An issuer's step that writes nothing to the file.
LEMMA IssuerMemoryStep ==
  ASSUME IndInv, NEW j \in Issuers, NEW pc, NEW size, NEW root,
         MayAdvance(pc, size, root), Advance(j, pc, size, root),
         leaves' = leaves, latest' = latest, history' = history,
         up' = up, hashes' = hashes, mu' = mu, pending' = pending
  PROVE  IndInv'
<1>2. /\ DOMAIN issuer' = Issuers
      /\ \A i \in Issuers : /\ issuer'[i].pc \in {"idle", "sized", "rooted", "signed"}
                            /\ issuer'[i].size \in 0..MaxLeaves
      /\ \A i \in Issuers : IssuerInv(i)'
      /\ \E n \in 0..MaxLeaves : DiskHolds(leaves, n)' /\ (up' => CacheInv(n)')
  BY IssuerStepFrame
<1>3. TypeOK'
  BY <1>2 DEF IndInv, TypeOK
<1>4. HeadsBackedByLeaves'
  BY DEF IndInv, HeadsBackedByLeaves, Heads
<1> QED BY <1>2, <1>3, <1>4 DEF IndInv

\* Tree.Size: the size read is the cache's length, which only a crash shrinks.
LEMMA ReadSizePreserves ==
  ASSUME IndInv, NEW j \in Issuers, ReadSize(j) PROVE IndInv'
<1>1. Len(hashes) \in 0..MaxLeaves
  BY TransparencyLogAssumption DEF IndInv, TypeOK
<1>2. MayAdvance("sized", Len(hashes), ZeroHash)
  BY <1>1 DEF MayAdvance, ReadSize
<1> QED BY <1>2, IssuerMemoryStep DEF ReadSize, disk

\* The cache outside the critical section is the hash of the bucket.
LEMMA CacheIsStoredHashes ==
  ASSUME IndInv, up, mu = "free"
  PROVE  /\ DiskHolds(leaves, Len(hashes))
         /\ \A i \in 1..Len(hashes) : hashes[i] = HashLeaf(leaves[i - 1])
         /\ hashes = StoredHashes(leaves, Len(hashes))
<1>1. PICK n \in 0..MaxLeaves : DiskHolds(leaves, n) /\ CacheInv(n)
  BY DEF IndInv
<1>2. n = Len(hashes) /\ \A i \in 1..Len(hashes) : hashes[i] = HashLeaf(leaves[i - 1])
  BY <1>1 DEF CacheInv
<1>3. hashes = [i \in 1..Len(hashes) |-> hashes[i]]
  BY DEF IndInv, TypeOK
<1> QED BY <1>1, <1>2, <1>3 DEF StoredHashes

\* Tree.Root: the root read is backed by the whole bucket.
LEMMA ReadRootPreserves ==
  ASSUME IndInv, NEW j \in Issuers, ReadRoot(j) PROVE IndInv'
<1>1. Len(hashes) \in 0..MaxLeaves
  BY TransparencyLogAssumption DEF IndInv, TypeOK
<1>2. DiskHolds(leaves, Len(hashes)) /\ hashes = StoredHashes(leaves, Len(hashes))
  BY CacheIsStoredHashes DEF ReadRoot
<1>3. issuer[j].size \in 0..MaxLeaves /\ up /\ issuer[j].size <= Len(hashes)
  BY DEF IndInv, TypeOK, IssuerInv, ReadRoot
<1>4. Backed(leaves, issuer[j].size, RootOf(hashes))
  <2>1. Len(hashes) \in issuer[j].size..MaxLeaves
    BY <1>1, <1>3, TransparencyLogAssumption
  <2>2. \A i \in 0..(Len(hashes) - 1) : leaves[i] # Absent
    BY <1>1, <1>2, TransparencyLogAssumption DEF DiskHolds
  <2>3. RootOf(hashes) = RootOf(StoredHashes(leaves, Len(hashes)))
    BY <1>2
  <2> QED BY <2>1, <2>2, <2>3 DEF Backed
<1>5. MayAdvance("rooted", issuer[j].size, RootOf(hashes))
  BY <1>3, <1>4 DEF MayAdvance
<1> QED BY <1>5, IssuerMemoryStep DEF ReadRoot, disk

\* SignSTH touches only the issuer's own state.
LEMMA SignSTHPreserves ==
  ASSUME IndInv, NEW j \in Issuers, SignSTH(j) PROVE IndInv'
<1>1. /\ issuer[j].size \in 0..MaxLeaves
      /\ up /\ issuer[j].size <= Len(hashes)
      /\ Backed(leaves, issuer[j].size, issuer[j].root)
  BY DEF IndInv, TypeOK, IssuerInv, SignSTH
<1>2. MayAdvance("signed", issuer[j].size, issuer[j].root)
  BY <1>1 DEF MayAdvance
<1> QED BY <1>2, IssuerMemoryStep DEF SignSTH, disk

\* An abandoned STH leaves no trace.
LEMMA AbandonPreserves ==
  ASSUME IndInv, NEW j \in Issuers, Abandon(j) PROVE IndInv'
<1>1. MayAdvance("idle", 0, ZeroHash)
  BY TransparencyLogAssumption DEF MayAdvance
<1>2. Advance(j, "idle", 0, ZeroHash)
  BY DEF Abandon, Idle, Advance
<1> QED BY <1>1, <1>2, IssuerMemoryStep DEF Abandon, disk

\* PersistSTH writes one backed head into both buckets.
LEMMA PersistSTHPreserves ==
  ASSUME IndInv, NEW j \in Issuers, PersistSTH(j) PROVE IndInv'
<1>1. PICK h : h = SignedHead(j)
  OBVIOUS
<1>2. /\ h.size = issuer[j].size /\ h.root = issuer[j].root
      /\ h.size \in 0..MaxLeaves
      /\ Backed(leaves, h.size, h.root)
  BY <1>1 DEF IndInv, TypeOK, IssuerInv, PersistSTH, SignedHead
<1>3. latest' = h /\ history' = [history EXCEPT ![h.size] = h]
  BY <1>1, <1>2 DEF PersistSTH
<1>4. DOMAIN history = 0..MaxLeaves
  BY DEF IndInv, TypeOK
<1>5. \A n \in 0..MaxLeaves : history'[n] = IF n = h.size THEN h ELSE history[n]
  BY <1>3, <1>4
<1>6. MayAdvance("idle", 0, ZeroHash)
  BY TransparencyLogAssumption DEF MayAdvance
<1>7. Advance(j, "idle", 0, ZeroHash)
  BY DEF PersistSTH, Idle, Advance
<1>8. /\ DOMAIN issuer' = Issuers
      /\ \A i \in Issuers : /\ issuer'[i].pc \in {"idle", "sized", "rooted", "signed"}
                            /\ issuer'[i].size \in 0..MaxLeaves
      /\ \A i \in Issuers : IssuerInv(i)'
      /\ \E n \in 0..MaxLeaves : DiskHolds(leaves, n)' /\ (up' => CacheInv(n)')
  BY <1>6, <1>7, IssuerStepFrame DEF PersistSTH
<1>9. TypeOK'
  <2>1. DOMAIN history' = 0..MaxLeaves
    BY <1>3, <1>4
  <2>2. \A n \in 0..MaxLeaves : history'[n] # NoSTH => history'[n].size = n
    BY <1>5 DEF IndInv, TypeOK
  <2>3. latest' # NoSTH => latest'.size \in 0..MaxLeaves
    BY <1>2, <1>3
  <2> QED BY <2>1, <2>2, <2>3, <1>8 DEF IndInv, TypeOK, PersistSTH
<1>10. HeadsBackedByLeaves'
  <2>1. \A n \in 0..MaxLeaves :
          history'[n] # NoSTH => Backed(leaves, history'[n].size, history'[n].root)
    BY <1>2, <1>5 DEF IndInv, HeadsBackedByLeaves, Heads
  <2>2. Backed(leaves, latest'.size, latest'.root)
    BY <1>2, <1>3
  <2>3. leaves' = leaves
    BY DEF PersistSTH
  <2> QED BY <2>1, <2>2, <2>3 DEF HeadsBackedByLeaves, Heads
<1> QED BY <1>8, <1>9, <1>10 DEF IndInv, PersistSTH

\* Every step, and stuttering, preserves the invariant.
LEMMA NextIndInv == IndInv /\ [Next]_vars => IndInv'
<1> SUFFICES ASSUME IndInv, [Next]_vars PROVE IndInv'
  OBVIOUS
<1>1. CASE Open
  BY <1>1, OpenPreserves
<1>2. CASE Crash
  BY <1>2, CrashPreserves
<1>3. CASE \E p \in Payload : AppendLock(p)
  BY <1>3, AppendLockPreserves
<1>4. CASE AppendCommit
  BY <1>4, AppendCommitPreserves
<1>5. CASE AppendFail
  BY <1>5, AppendFailPreserves
<1>6. CASE AppendCache
  BY <1>6, AppendCachePreserves
<1>7. ASSUME NEW i \in Issuers,
             ReadSize(i) \/ ReadRoot(i) \/ SignSTH(i) \/ Abandon(i) \/ PersistSTH(i)
      PROVE  IndInv'
  BY <1>7, ReadSizePreserves, ReadRootPreserves, SignSTHPreserves,
     AbandonPreserves, PersistSTHPreserves
<1>8. CASE UNCHANGED vars
  BY <1>8 DEF vars, disk, memory, IndInv, TypeOK, DiskHolds, CacheInv, IssuerInv,
     HeadsBackedByLeaves, Heads
<1> QED BY <1>1, <1>2, <1>3, <1>4, <1>5, <1>6, <1>7, <1>8 DEF Next

-----------------------------------------------------------------------------
(* The theorems.                                                           *)

(* The inductive invariant holds in every reachable state.                 *)
THEOREM Inductive == Spec => []IndInv
  BY InitIndInv, NextIndInv, PTL DEF Spec

(* Type correctness; every STH is filed under the tree size it names.      *)
THEOREM TypeCorrect == Spec => []TypeOK
<1>1. IndInv => TypeOK
  BY DEF IndInv
<1> QED BY <1>1, Inductive, PTL

(* The cache that Size, Root and the proof endpoints read mirrors the      *)
(* leaves bucket whenever Append is not inside its critical section.       *)
THEOREM CacheMirrors == Spec => []CacheMirrorsDisk
<1>1. IndInv => CacheMirrorsDisk
  BY CacheIsStoredHashes DEF CacheMirrorsDisk
<1> QED BY <1>1, Inductive, PTL

(* No persisted STH, of however many concurrent issuers, is ahead of the   *)
(* stored leaves.                                                          *)
THEOREM HeadsBacked == Spec => []HeadsBackedByLeaves
<1>1. IndInv => HeadsBackedByLeaves
  BY DEF IndInv
<1> QED BY <1>1, Inductive, PTL

\* The leaves bucket changes only in Append's transaction.
LEMMA LeavesChangeOnlyInCommit ==
  ASSUME [Next]_vars, ~ AppendCommit PROVE leaves' = leaves
BY DEF Next, vars, disk, memory, Open, Crash, AppendLock, AppendFail, AppendCache,
   ReadSize, ReadRoot, SignSTH, Abandon, PersistSTH

(* No step changes or removes a stored leaf.                               *)
THEOREM LeavesImmutable == Spec => LeafNeverOverwritten
<1>1. IndInv /\ [Next]_vars
        => [\A i \in 0..(MaxLeaves - 1) : leaves[i] # Absent => leaves'[i] = leaves[i]]_vars
  <2> SUFFICES ASSUME IndInv, [Next]_vars,
                      NEW i \in 0..(MaxLeaves - 1), leaves[i] # Absent
               PROVE  leaves'[i] = leaves[i]
    OBVIOUS
  <2>1. CASE AppendCommit
    BY <2>1, AppendCommitFresh DEF IndInv, TypeOK
  <2>2. CASE ~ AppendCommit
    BY <2>2, LeavesChangeOnlyInCommit
  <2> QED BY <2>1, <2>2
<1> QED BY <1>1, Inductive, PTL DEF Spec, LeafNeverOverwritten

\* A bucket of n leaves read in key order.
LEMMA ReadPrefix ==
  ASSUME NEW l, NEW n \in 0..MaxLeaves, DiskHolds(l, n)
  PROVE  ReadInOrder(l) = [j \in 1..n |-> l[j - 1]]
<1>1. KeysOf(l) = 0..(n - 1) /\ Cardinality(KeysOf(l)) = n
  BY KeysOfPrefix
<1>2. n \in Nat
  BY TransparencyLogAssumption
<1>3. \A j \in 1..n : KeyAt(KeysOf(l), j) = j - 1
  BY <1>1, <1>2, KeyAtInterval
<1> QED BY <1>1, <1>3 DEF ReadInOrder

\* Append's transaction appends its payload to the log a reader sees.
LEMMA CommitAppends ==
  ASSUME IndInv, AppendCommit
  PROVE  StoredLog' = Append(StoredLog, pending) /\ pending \in Payload
<1>0. PICK n : n = Len(hashes)
  OBVIOUS
<1>1. /\ DiskHolds(leaves, n)
      /\ n \in 0..(MaxLeaves - 1)
      /\ pending \in Payload
      /\ leaves' = [leaves EXCEPT ![n] = pending]
  BY <1>0, AppendCommitFresh
<1>2. leaves \in [0..(MaxLeaves - 1) -> Payload \cup {Absent}]
  BY DEF IndInv, TypeOK
<1>3. DiskHolds(leaves', n + 1)
  BY <1>1, <1>2, TransparencyLogAssumption DEF DiskHolds
<1>4. n \in 0..MaxLeaves /\ n + 1 \in 0..MaxLeaves /\ n \in Nat
  BY <1>1, TransparencyLogAssumption
<1>5. ReadInOrder(leaves) = [j \in 1..n |-> leaves[j - 1]]
  BY <1>1, <1>4, ReadPrefix
<1>6. ReadInOrder(leaves') = [j \in 1..(n + 1) |-> leaves'[j - 1]]
  BY <1>3, <1>4, ReadPrefix
<1>7. \A j \in 1..n : leaves[j - 1] \in Payload /\ leaves'[j - 1] = leaves[j - 1]
  BY <1>1, <1>2, TransparencyLogAssumption DEF DiskHolds
<1>8. leaves'[n] = pending
  BY <1>1, <1>2
<1>9. [j \in 1..(n + 1) |-> leaves'[j - 1]] = Append([j \in 1..n |-> leaves[j - 1]], pending)
  BY <1>4, <1>7, <1>8
<1> QED BY <1>1, <1>5, <1>6, <1>9 DEF StoredLog

(* The leaves bucket, read in key order, implements AppendOnlyLog: every   *)
(* step appends one payload or leaves the log as it is.                    *)
THEOREM Refinement == Spec => ImplementsAppendOnlyLog
<1>1. Init => Abstract!Init
  <2> SUFFICES ASSUME Init PROVE StoredLog = <<>>
    BY DEF Abstract!Init
  <2>1. DiskHolds(leaves, 0) /\ 0 \in 0..MaxLeaves
    BY TransparencyLogAssumption DEF Init, DiskHolds
  <2>2. ReadInOrder(leaves) = [j \in 1..0 |-> leaves[j - 1]]
    BY <2>1, ReadPrefix
  <2> QED BY <2>2 DEF StoredLog
<1>2. IndInv /\ [Next]_vars => [Abstract!Next]_StoredLog
  <2> SUFFICES ASSUME IndInv, [Next]_vars PROVE [Abstract!Next]_StoredLog
    OBVIOUS
  <2>1. CASE AppendCommit
    BY <2>1, CommitAppends DEF Abstract!Next, Abstract!AppendPayload
  <2>2. CASE ~ AppendCommit
    BY <2>2, LeavesChangeOnlyInCommit DEF StoredLog
  <2> QED BY <2>1, <2>2
<1> QED BY <1>1, <1>2, Inductive, PTL DEF Spec, ImplementsAppendOnlyLog, Abstract!Spec
=============================================================================

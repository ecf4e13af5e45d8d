--------------------------- MODULE TransparencyLog ---------------------------
(***************************************************************************)
(* The transparency log as a running component: the BoltDB buckets         *)
(* (leaves, latest STH, STH history), the in-memory cache of leaf hashes,  *)
(* the mutex that Append holds over "commit, then extend the cache", the   *)
(* issuers of Signed Tree Heads, and process crashes with the rehydration  *)
(* that Open performs (internal/storage/transparency/tree.go, sth.go,      *)
(* http.go).                                                               *)
(*                                                                         *)
(* A BoltDB transaction (db.Update) is one atomic durable step or fails as *)
(* a whole.  An issuer follows the only calling pattern in the repository, *)
(* SignSTH(ctx, tree.Size(), tree.Root()) followed by PersistSTH: two      *)
(* separate read-locked calls, then the signature, then a transaction.     *)
(***************************************************************************)
EXTENDS MerkleTree, FiniteSets

CONSTANTS
  Payload,    \* leaf payloads
  Issuers,    \* goroutines that sign and persist tree heads
  MaxLeaves,  \* bound on the leaves ever stored
  Absent,     \* a key without a value in the leaves bucket
  NoSTH       \* a key without a value in an STH bucket

ASSUME TransparencyLogAssumption ==
  /\ MaxLeaves \in Nat
  /\ Absent \notin Payload

VARIABLES
  leaves,   \* bucket transparency.leaves: index -> payload
  latest,   \* bucket transparency.sth, key "latest"
  history,  \* bucket transparency.sth.history: tree size -> STH
  up,       \* the process runs and has opened the tree
  hashes,   \* Tree.hashes, the leaf-hash cache
  mu,       \* Tree.mu: "free", or how far the Append holding it has come
  pending,  \* payload of the Append holding mu
  issuer    \* per issuer: pc and the size and root it read

disk == <<leaves, latest, history>>
memory == <<up, hashes, mu, pending, issuer>>
vars == <<disk, memory>>

Idle == [pc |-> "idle", size |-> 0, root |-> ZeroHash]

KeysOf(l) == {i \in 0..(MaxLeaves - 1) : l[i] # Absent}

Keys == KeysOf(leaves)

\* The j-th key in ascending order: encodeIndex is big-endian, so BoltDB's
\* byte order is the numeric order.
KeyAt(K, j) == CHOOSE i \in K : Cardinality({k \in K : k < i}) = j - 1

Init ==
  /\ leaves = [i \in 0..(MaxLeaves - 1) |-> Absent]
  /\ latest = NoSTH
  /\ history = [n \in 0..MaxLeaves |-> NoSTH]
  /\ up = FALSE
  /\ hashes = <<>>
  /\ mu = "free"
  /\ pending = Absent
  /\ issuer = [i \in Issuers |-> Idle]

-----------------------------------------------------------------------------
(* Open and crash.                                                         *)

\* A rehydration that lists the newest leaf first.
rehydrateDescending ==
  hashes' = [j \in 1..Cardinality(Keys) |->
               HashLeaf(leaves[KeyAt(Keys, Cardinality(Keys) + 1 - j)])]

rehydrate ==
  hashes' = [j \in 1..Cardinality(Keys) |-> HashLeaf(leaves[KeyAt(Keys, j)])]

\* An Open that leaves the cache as the zero Tree has it.
OpenWithoutRehydrate ==
  /\ ~ up
  /\ up' = TRUE
  /\ hashes' = <<>>
  /\ UNCHANGED <<disk, mu, pending, issuer>>

Open ==
  /\ ~ up
  /\ up' = TRUE
  /\ rehydrate
  /\ UNCHANGED <<disk, mu, pending, issuer>>

\* The process dies anywhere; only the file survives.
Crash ==
  /\ up
  /\ up' = FALSE
  /\ hashes' = <<>>
  /\ mu' = "free"
  /\ pending' = Absent
  /\ issuer' = [i \in Issuers |-> Idle]
  /\ UNCHANGED disk

-----------------------------------------------------------------------------
(* Tree.Append.                                                            *)

AppendLock(p) ==
  /\ up /\ mu = "free"
  /\ Len(hashes) < MaxLeaves
  /\ mu' = "locked"
  /\ pending' = p
  /\ UNCHANGED <<disk, up, hashes, issuer>>

AppendCommit ==
  /\ up /\ mu = "locked"
  /\ leaves' = [leaves EXCEPT ![Len(hashes)] = pending]
  /\ mu' = "committed"
  /\ UNCHANGED <<latest, history, up, hashes, pending, issuer>>

\* A failed append that extends the cache all the same.
AppendFailCaches ==
  /\ up /\ mu = "locked"
  /\ hashes' = Append(hashes, HashLeaf(pending))
  /\ mu' = "free"
  /\ pending' = Absent
  /\ UNCHANGED <<disk, up, issuer>>

\* db.Update returned an error: early return, the deferred unlock runs.
AppendFail ==
  /\ up /\ mu = "locked"
  /\ mu' = "free"
  /\ pending' = Absent
  /\ UNCHANGED <<disk, up, hashes, issuer>>

\* The cache grows, mu is released and the index len(hashes) is returned.
AppendCache ==
  /\ up /\ mu = "committed"
  /\ hashes' = Append(hashes, HashLeaf(pending))
  /\ mu' = "free"
  /\ pending' = Absent
  /\ UNCHANGED <<disk, up, issuer>>

-----------------------------------------------------------------------------
(* Reads under the read lock.                                              *)

Advance(i, pc, size, root) ==
  issuer' = [issuer EXCEPT ![i] = [pc |-> pc, size |-> size, root |-> root]]

\* Tree.Size takes the read lock: no Append may hold mu.
ReadSize(i) ==
  /\ up /\ mu = "free"
  /\ issuer[i].pc = "idle"
  /\ Advance(i, "sized", Len(hashes), ZeroHash)
  /\ UNCHANGED <<disk, up, hashes, mu, pending>>

RootOf(d) == IF Len(d) = 0 THEN EmptyRoot ELSE MerkleTreeHash(d)

\* Tree.Root, a second critical section.
ReadRoot(i) ==
  /\ up /\ mu = "free"
  /\ issuer[i].pc = "sized"
  /\ Advance(i, "rooted", issuer[i].size, RootOf(hashes))
  /\ UNCHANGED <<disk, up, hashes, mu, pending>>

\* Tree.RootAt, LeafAt, InclusionProof and ConsistencyProof, with the checks
\* that the HTTP handlers turn into 404; "error" is any of their errors.
RootAt(size) ==
  IF size > Len(hashes) THEN "error" ELSE RootOf(SubSeq(hashes, 1, size))

LeafAt(idx) ==
  IF idx >= Len(hashes) \/ leaves[idx] = Absent THEN "error" ELSE leaves[idx]

ServeInclusion(m, n) ==
  IF n > Len(hashes) \/ m >= n THEN "error"
  ELSE InclusionProof(m, SubSeq(hashes, 1, n))

ServeConsistency(first, second) ==
  IF second > Len(hashes) \/ first > second \/ first = 0 THEN "error"
  ELSE ConsistencyProof(first, second, SubSeq(hashes, 1, second))

-----------------------------------------------------------------------------
(* Signed tree heads.                                                      *)

\* STHSigner.SignSTH with an active key.
SignSTH(i) ==
  /\ issuer[i].pc = "rooted"
  /\ Advance(i, "signed", issuer[i].size, issuer[i].root)
  /\ UNCHANGED <<disk, up, hashes, mu, pending>>

\* ErrNoSTHSigningKey, or a PersistSTH transaction that failed.
Abandon(i) ==
  /\ issuer[i].pc \in {"rooted", "signed"}
  /\ issuer' = [issuer EXCEPT ![i] = Idle]
  /\ UNCHANGED <<disk, up, hashes, mu, pending>>

SignedHead(i) == [size |-> issuer[i].size, root |-> issuer[i].root]

\* PersistSTH: latest and history[size] in one transaction.
PersistSTH(i) ==
  /\ issuer[i].pc = "signed"
  /\ latest' = SignedHead(i)
  /\ history' = [history EXCEPT ![issuer[i].size] = SignedHead(i)]
  /\ issuer' = [issuer EXCEPT ![i] = Idle]
  /\ UNCHANGED <<leaves, up, hashes, mu, pending>>

-----------------------------------------------------------------------------
Next ==
  \/ Open
  \/ Crash
  \/ \E p \in Payload : AppendLock(p)
  \/ AppendCommit
  \/ AppendFail
  \/ AppendCache
  \/ \E i \in Issuers :
       ReadSize(i) \/ ReadRoot(i) \/ SignSTH(i) \/ Abandon(i) \/ PersistSTH(i)

Spec == Init /\ [][Next]_vars

-----------------------------------------------------------------------------
(* Properties.                                                             *)

Heads == {history[n] : n \in 0..MaxLeaves} \cup {latest}

LeafHashes == {HashLeaf(p) : p \in Payload}

(* Type invariant; a persisted STH sits under the tree size it names.      *)
TypeOK ==
  /\ leaves \in [0..(MaxLeaves - 1) -> Payload \cup {Absent}]
  /\ DOMAIN history = 0..MaxLeaves
  /\ \A n \in 0..MaxLeaves : history[n] # NoSTH => history[n].size = n
  /\ latest # NoSTH => latest.size \in 0..MaxLeaves
  /\ up \in BOOLEAN
  /\ hashes \in Seq(LeafHashes)
  /\ Len(hashes) <= MaxLeaves
  /\ mu \in {"free", "locked", "committed"}
  /\ pending \in Payload \cup {Absent}
  /\ DOMAIN issuer = Issuers
  /\ \A i \in Issuers :
       /\ issuer[i].pc \in {"idle", "sized", "rooted", "signed"}
       /\ issuer[i].size \in 0..MaxLeaves

\* In the bucket l, keys below n are present, and no other.
DiskHolds(l, n) == \A i \in 0..(MaxLeaves - 1) : l[i] # Absent <=> i < n

(* Whenever no Append is in its critical section, the cache that answers   *)
(* every proof request mirrors the bucket: the same number of leaves, with *)
(* no hole, and the same hashes in index order.  Holds across failed       *)
(* transactions, crashes between commit and cache update, and restarts.    *)
CacheMirrorsDisk ==
  up /\ mu = "free" =>
    /\ DiskHolds(leaves, Len(hashes))
    /\ \A i \in 1..Len(hashes) : hashes[i] = HashLeaf(leaves[i - 1])

\* The leaf hashes of the first k leaves of the bucket l.
StoredHashes(l, k) == [i \in 1..k |-> HashLeaf(l[i - 1])]

\* root is the root of a prefix of the bucket l with at least size leaves.
Backed(l, size, root) ==
  \E k \in size..MaxLeaves :
    /\ \A i \in 0..(k - 1) : l[i] # Absent
    /\ root = RootOf(StoredHashes(l, k))

(* No STH runs ahead of the durable log: the root of every persisted STH   *)
(* is the root of a stored prefix at least as long as the size it names,   *)
(* whatever appends, crashes and restarts happened between reading the     *)
(* size, reading the root and persisting.                                  *)
HeadsBackedByLeaves == \A h \in Heads : h # NoSTH => Backed(leaves, h.size, h.root)

Coherent(h) == h.root = RootOf(StoredHashes(leaves, h.size))

(* The auditor's round trip: for every coherent STH in the history, every  *)
(* leaf that LeafHandler serves below its size verifies against it with    *)
(* the path InclusionHandler serves, and it is consistent with every later *)
(* size, after any number of crashes and restarts.                         *)
AuditorAccepts ==
  up /\ mu = "free" =>
    \A n \in 1..Len(hashes) : history[n] # NoSTH /\ Coherent(history[n]) =>
      /\ \A m \in 0..(n - 1) :
           VerifyInclusion(HashLeaf(LeafAt(m)), m, n, ServeInclusion(m, n))
             = history[n].root
      /\ \A n2 \in n..Len(hashes) :
           VerifyConsistency(n, n2, history[n].root, ServeConsistency(n, n2))
             = [ok |-> TRUE, root |-> RootAt(n2)]

(* A stored leaf is never changed or removed by any step (Append only ever *)
(* puts under a fresh key).                                                *)
LeafNeverOverwritten ==
  [][\A i \in 0..(MaxLeaves - 1) : leaves[i] # Absent => leaves'[i] = leaves[i]]_vars

\* The bucket l read in key order, and the log a reader of the file sees.
ReadInOrder(l) == [j \in 1..Cardinality(KeysOf(l)) |-> l[KeyAt(KeysOf(l), j)]]

StoredLog == ReadInOrder(leaves)

(* The bucket, read in key order, implements the abstract append-only log. *)
Abstract == INSTANCE AppendOnlyLog WITH log <- StoredLog

(* The refinement, as the property a run checks.                           *)
ImplementsAppendOnlyLog == Abstract!Spec

(* One issuer at a time never moves the latest STH back to a smaller tree, *)
(* although PersistSTH overwrites the slot unconditionally: a restart      *)
(* never yields a shorter log than any size read before it (types.go: the  *)
(* slot "holds the most recent STH").                                      *)
LatestNeverRegresses ==
  [][latest # NoSTH => latest'.size >= latest.size]_vars

\* How far the cache is behind the bucket that holds n leaves, and why.
CacheInv(n) ==
  /\ n = IF mu = "committed" THEN Len(hashes) + 1 ELSE Len(hashes)
  /\ \A i \in 1..Len(hashes) : hashes[i] = HashLeaf(leaves[i - 1])
  /\ mu # "free" => pending \in Payload /\ Len(hashes) < MaxLeaves
  /\ mu = "committed" => leaves[Len(hashes)] = pending

IssuerInv(i) ==
  /\ issuer[i].pc # "idle" => up /\ issuer[i].size <= Len(hashes)
  /\ issuer[i].pc \in {"rooted", "signed"} => Backed(leaves, issuer[i].size, issuer[i].root)

(* The inductive strengthening of the invariants above: what holds inside  *)
(* Append's critical section and between an issuer's two reads.            *)
IndInv ==
  /\ TypeOK
  /\ ~ up => mu = "free"
  /\ \E n \in 0..MaxLeaves : DiskHolds(leaves, n) /\ (up => CacheInv(n))
  /\ \A i \in Issuers : IssuerInv(i)
  /\ HeadsBackedByLeaves
=============================================================================

----------------------------- MODULE MerkleAudit -----------------------------
(***************************************************************************)
(* Exhaustive check of the proof algorithms of MerkleTree over two logs    *)
(* that grow leaf by leaf from the same empty tree: `tree`, the log whose  *)
(* proofs are served, and `fork`, a second log that may share a prefix     *)
(* with it and then diverge (what a verifier holds after the log it        *)
(* pinned was rebuilt from an older file).  Every reachable pair is one    *)
(* input of the algorithms.                                                *)
(***************************************************************************)
EXTENDS MerkleTree

CONSTANTS
  LeafData,   \* leaf payloads
  MaxTree,   \* bound on the served log
  MaxFork    \* bound on the diverging log

ASSUME MerkleAuditAssumption == MaxTree \in Nat /\ MaxFork \in Nat

VARIABLES
  tree,  \* leaf hashes of the served log, in order
  fork   \* leaf hashes of the other log

merkleVars == <<tree, fork>>

MerkleInit == tree = <<>> /\ fork = <<>>

\* Tree.Append on the served log: the cached leaf hash is appended.
AppendTree(p) ==
  /\ Len(tree) < MaxTree
  /\ tree' = Append(tree, HashLeaf(p))
  /\ UNCHANGED fork

AppendFork(p) ==
  /\ Len(fork) < MaxFork
  /\ fork' = Append(fork, HashLeaf(p))
  /\ UNCHANGED tree

MerkleNext == \E p \in LeafData : AppendTree(p) \/ AppendFork(p)

MerkleSpec == MerkleInit /\ [][MerkleNext]_merkleVars

-----------------------------------------------------------------------------
PrefixOf(d, n) == SubSeq(d, 1, n)

PrefixRoot(d, n) == MerkleTreeHash(PrefixOf(d, n))

\* Every audit path that either log serves, at any of its sizes.
ServedPaths ==
  UNION {{InclusionProof(m, PrefixOf(d, n)) : m \in 0..(n - 1)} :
           <<d, n>> \in {<<e, k>> \in {tree, fork} \X (1..MaxTree) : k <= Len(e)}}

\* Every consistency proof that either log serves up to size n2 of the tree.
ServedConsistency(n2) ==
  {ConsistencyProof(n1, n2, tree) : n1 \in 1..n2}
    \cup {ConsistencyProof(n1, Len(fork), fork) : n1 \in 1..Len(fork)}

(* Served proofs verify: for every tree size n, balanced or not, and every *)
(* leaf m of it, the bottom-up walk of VerifyInclusion over the path that  *)
(* the top-down recursion of InclusionProof built reproduces exactly the   *)
(* root MerkleTreeHash computes; and for all sizes n1 <= n of one log,     *)
(* VerifyConsistency accepts the proof SUBPROOF generates and returns the  *)
(* root of size n (both its loops consume the proof exactly).              *)
ProofsComplete ==
  \A n \in 1..Len(tree) :
    /\ \A m \in 0..(n - 1) :
         VerifyInclusion(tree[m + 1], m, n, InclusionProof(m, PrefixOf(tree, n)))
           = PrefixRoot(tree, n)
    /\ \A n1 \in 1..n :
         VerifyConsistency(n1, n, PrefixRoot(tree, n1), ConsistencyProof(n1, n, tree))
           = [ok |-> TRUE, root |-> PrefixRoot(tree, n)]

(* Inclusion proofs bind: with any path of either log that is as long as  *)
(* index m of a tree of size n calls for, a leaf reproduces the root at    *)
(* index m only if m lies in the tree and holds that leaf                  *)
(* (VerifyInclusion's range check and its fn/sn walk).                     *)
InclusionBinding ==
  \A n \in 1..Len(tree) : \A m \in 0..MaxTree : \A p \in LeafData :
    \A path \in ServedPaths :
      /\ Len(path) = Len(InclusionProof(m, PrefixOf(tree, n)))
      /\ VerifyInclusion(HashLeaf(p), m, n, path) = PrefixRoot(tree, n)
      => m < n /\ tree[m + 1] = HashLeaf(p)

(* Consistency proofs are sound: whoever pinned the root of a log that is  *)
(* not a prefix of the served one is never told that the served log        *)
(* extends it, whichever proof of either log is presented.                 *)
ForkDetected ==
  \A n2 \in 1..Len(tree) : \A n1 \in 1..Len(fork) :
    ~ IsPrefix(PrefixOf(fork, n1), PrefixOf(tree, n2)) =>
      \A proof \in ServedConsistency(n2) :
        VerifyConsistency(n1, n2, PrefixRoot(fork, n1), proof)
          # [ok |-> TRUE, root |-> PrefixRoot(tree, n2)]
=============================================================================

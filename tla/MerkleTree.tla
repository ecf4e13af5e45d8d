----------------------------- MODULE MerkleTree -----------------------------
(***************************************************************************)
(* The Merkle-tree algorithms of the transparency log                      *)
(* (internal/storage/transparency/hash.go and proofs.go): the tree hash,   *)
(* the inclusion and consistency proofs, and the bottom-up verifiers.      *)
(*                                                                         *)
(* SHA-256 is abstracted to a free constructor: two hashes are equal iff   *)
(* they were built the same way (no collisions; the 0x00 / 0x01 prefixes   *)
(* are the tags "leaf" and "node").  Everything else is the code's own     *)
(* recursion and loops.  Recursion is written with recursive functions     *)
(* over (offset, length) windows of the leaf-hash sequence d: the slice    *)
(* d[lo : lo+n] of the code.                                               *)
(***************************************************************************)
EXTENDS Integers, Sequences, SequencesExt

HashLeaf(payload) == <<"leaf", payload>>

HashChildren(left, right) == <<"node", left, right>>

EmptyRoot == <<"empty">>

\* RootHash{}: the all-zero array the verifiers return on malformed input.
ZeroHash == <<"zero">>

\* The number of `>>= 1` that take n to zero.
BitLen[n \in Nat] == IF n = 0 THEN 0 ELSE 1 + BitLen[n \div 2]

largestPowerOfTwoLessThan(n) ==
  IF n <= 1 THEN 0
  ELSE LET grow[k \in Nat] == IF k * 2 < n THEN grow[k * 2] ELSE k
       IN  grow[1]

MerkleTreeHash(d) ==
  LET mth[lo \in Nat, n \in Nat] ==
        CASE n = 0 -> EmptyRoot
          [] n = 1 -> d[lo + 1]
          [] OTHER -> LET k == largestPowerOfTwoLessThan(n)
                      IN  HashChildren(mth[lo, k], mth[lo + k, n - k])
  IN  mth[0, Len(d)]

\* MerkleTreeHash(d[lo : lo+n]).
SliceHash(d, lo, n) == MerkleTreeHash(SubSeq(d, lo + 1, lo + n))

-----------------------------------------------------------------------------
(* Proof generation.                                                       *)

inclusionPath(m, d) ==
  LET path[i \in Nat, lo \in Nat, n \in Nat] ==
        IF n = 1 THEN <<>>
        ELSE LET k == largestPowerOfTwoLessThan(n)
             IN  IF i < k
                 THEN Append(path[i, lo, k], SliceHash(d, lo + k, n - k))
                 ELSE Append(path[i - k, lo + k, n - k], SliceHash(d, lo, k))
  IN  path[m, 0, Len(d)]

\* nil and the empty Proof are the same to every caller: both hold no hash.
InclusionProof(m, d) ==
  IF Len(d) = 0 \/ m >= Len(d) THEN <<>> ELSE inclusionPath(m, d)

subProof(n1, d) ==
  LET sub[m \in Nat, lo \in Nat, n \in Nat, b \in BOOLEAN] ==
        IF m = n
        THEN IF b THEN <<>> ELSE <<SliceHash(d, lo, n)>>
        ELSE LET k == largestPowerOfTwoLessThan(n)
             IN  IF m <= k
                 THEN Append(sub[m, lo, k, b], SliceHash(d, lo + k, n - k))
                 ELSE Append(sub[m - k, lo + k, n - k, FALSE],
                             SliceHash(d, lo, k))
  IN  sub[n1, 0, Len(d), TRUE]

ConsistencyProof(n1, n2, d) ==
  IF n1 = 0 \/ n1 > n2 \/ n2 > Len(d) \/ n1 = n2
  THEN <<>>
  ELSE subProof(n1, SubSeq(d, 1, n2))

-----------------------------------------------------------------------------
(* Proof verification.                                                     *)

\* `for fn != 0 && fn&1 == 0 { fn >>= 1; sn >>= 1 }`
SkipZeroBits[fn \in Nat, sn \in Nat] ==
  IF fn # 0 /\ fn % 2 = 0 THEN SkipZeroBits[fn \div 2, sn \div 2]
  ELSE <<fn, sn>>

Ascend(fn, sn, h) == [fn |-> fn \div 2, sn |-> sn \div 2, current |-> h]

\* One iteration of the loop over the audit path; sn = 0 is its `break`.
InclusionStep(acc, p) ==
  IF acc.sn = 0 THEN acc
  ELSE IF acc.fn % 2 = 1 \/ acc.fn = acc.sn
       THEN LET q == SkipZeroBits[acc.fn, acc.sn]
            IN  Ascend(q[1], q[2], HashChildren(p, acc.current))
       ELSE Ascend(acc.fn, acc.sn, HashChildren(acc.current, p))

\* The verifier without its check that the index lies inside the tree.
VerifyInclusionNoRangeCheck(leafHash, leafIndex, treeSize, proof) ==
  IF treeSize = 1 THEN leafHash
  ELSE FoldLeft(InclusionStep,
                [fn |-> leafIndex, sn |-> treeSize - 1, current |-> leafHash],
                proof).current

VerifyInclusion(leafHash, leafIndex, treeSize, proof) ==
  IF treeSize = 0 \/ leafIndex >= treeSize THEN ZeroHash
  ELSE IF treeSize = 1 THEN leafHash
  ELSE FoldLeft(InclusionStep,
                [fn |-> leafIndex, sn |-> treeSize - 1, current |-> leafHash],
                proof).current

Rejected == [ok |-> FALSE, root |-> ZeroHash]

\* `for node%2 == 1 { node >>= 1; lastNode >>= 1 }`
SkipRightSpine[node \in Nat, last \in Nat] ==
  IF node % 2 = 1 THEN SkipRightSpine[node \div 2, last \div 2]
  ELSE <<node, last>>

\* The level step without the `node < lastNode` test.
ConsistencyLevelNoEdge(acc, proof) ==
  LET p  == proof[acc.idx + 1]
      up == [acc EXCEPT !.node = @ \div 2, !.last = @ \div 2]
  IN  CASE acc.node = 0 /\ acc.last = 0 -> acc
        [] acc.idx >= Len(proof) -> [acc EXCEPT !.ok = FALSE, !.node = 0, !.last = 0]
        [] acc.node % 2 = 1 ->
             [up EXCEPT !.idx = @ + 1, !.h1 = HashChildren(p, @),
                        !.h2 = HashChildren(p, @)]
        [] OTHER -> [up EXCEPT !.idx = @ + 1, !.h2 = HashChildren(@, p)]

\* One iteration of the first loop (node > 0) or, once node reached the root
\* of the smaller tree, of the second (lastNode > 0).
ConsistencyLevel(acc, proof) ==
  LET p  == proof[acc.idx + 1]
      up == [acc EXCEPT !.node = @ \div 2, !.last = @ \div 2]
  IN  CASE acc.node = 0 /\ acc.last = 0 -> acc
        [] acc.idx >= Len(proof) -> [acc EXCEPT !.ok = FALSE, !.node = 0, !.last = 0]
        [] acc.node % 2 = 1 ->
             [up EXCEPT !.idx = @ + 1, !.h1 = HashChildren(p, @),
                        !.h2 = HashChildren(p, @)]
        [] acc.node < acc.last ->
             [up EXCEPT !.idx = @ + 1, !.h2 = HashChildren(@, p)]
        [] OTHER -> up

\* Both walks, from the level above the smaller tree's right spine.
ConsistencyWalk(n1, n2, root1, proof) ==
  LET s     == SkipRightSpine[n1 - 1, n2 - 1]
      first == s[1] > 0
      start == IF first THEN proof[1] ELSE root1
      level(acc, i) == ConsistencyLevel(acc, proof)
  IN  IF first /\ proof = <<>>
      THEN [node |-> 0, last |-> 0, idx |-> 0, ok |-> FALSE,
            h1 |-> ZeroHash, h2 |-> ZeroHash]
      ELSE FoldLeft(level,
                    [node |-> s[1], last |-> s[2], ok |-> TRUE,
                     idx |-> IF first THEN 1 ELSE 0, h1 |-> start, h2 |-> start],
                    [i \in 1..BitLen[s[2]] |-> i])

\* The verifier without its final comparison of hash1 with root1.
VerifyConsistencyNoRoot1Check(n1, n2, root1, proof) ==
  IF n1 = 0 \/ n1 > n2 \/ (n1 = n2 /\ proof # <<>>) THEN Rejected
  ELSE IF n1 = n2 THEN [ok |-> TRUE, root |-> root1]
  ELSE LET w == ConsistencyWalk(n1, n2, root1, proof)
       IN  IF w.ok /\ w.idx = Len(proof) THEN [ok |-> TRUE, root |-> w.h2]
           ELSE Rejected

VerifyConsistency(n1, n2, root1, proof) ==
  IF n1 = 0 \/ n1 > n2 \/ (n1 = n2 /\ proof # <<>>) THEN Rejected
  ELSE IF n1 = n2 THEN [ok |-> TRUE, root |-> root1]
  ELSE LET w == ConsistencyWalk(n1, n2, root1, proof)
       IN  IF w.ok /\ w.idx = Len(proof) /\ w.h1 = root1
           THEN [ok |-> TRUE, root |-> w.h2]
           ELSE Rejected
=============================================================================

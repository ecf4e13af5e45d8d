-------------------------- MODULE RevocationProofs --------------------------
(***************************************************************************)
(* For every set of tokens, verifiers and administrators and every clock   *)
(* bound: the denylist's cache mirrors its bucket, a revoked token is not  *)
(* accepted before it expires, the first revocation is kept, and the store *)
(* implements Denylist.  RevocationInv is the inductive invariant; each    *)
(* action that moves part of it has a lemma of its own.                    *)
(***************************************************************************)
EXTENDS Revocation, TLAPS

Call == [pc : {"free", "persist", "cache", "delete", "uncache"},
         entry : Entry \cup {NoEntry}, ids : SUBSET Tokens]

Check == [pc : {"idle", "parsed"}, id : Tokens \cup {NoEntry}, known : BOOLEAN]

\* An expiry a caller of Revoke may give for token j.
Covers(exp, j) == exp = NoExpiry \/ exp >= Expiry[j]

\* Types, beyond those of RevocationTypeOK.
Types ==
  /\ denied \in [Tokens -> Entry \cup {NoEntry}]
  /\ denyCache \in SUBSET Tokens
  /\ storeUp \in BOOLEAN
  /\ op \in Call
  /\ check \in [Verifiers -> Check]
  /\ time \in Nat
  /\ ackedRevokes \in SUBSET Tokens
  /\ accepted \in SUBSET [id : Tokens, at : Nat]

\* Cache, bucket and call: where a call stands and what it has changed so far.
Mirror ==
  /\ ~ storeUp => op = Free
  /\ op.pc = "free" => op = Free
  /\ storeUp /\ op.pc \in {"free", "persist", "delete"} => denyCache = Stored
  /\ op.pc = "persist" => /\ op.entry \in Entry
                          /\ \E j \in Tokens : op.ids = {j} /\ Covers(op.entry.exp, j)
  /\ op.pc = "cache" => Stored = denyCache \cup op.ids
  /\ op.pc = "delete" => \A j \in op.ids :
                           denied[j] # NoEntry /\ denied[j].exp # NoExpiry /\ denied[j].exp < time
  /\ op.pc = "uncache" => Stored = denyCache \ op.ids

\* An entry outlives its token, so a token that was revoked is in the bucket
\* or has expired.
Kept ==
  /\ \A j \in Tokens : denied[j] # NoEntry => Covers(denied[j].exp, j)
  /\ \A j \in ackedRevokes : denied[j] # NoEntry \/ Expiry[j] < time

\* The verifiers.
Checks ==
  /\ \A v \in Verifiers : check[v].pc = "parsed" =>
       storeUp /\ check[v].id \in Tokens /\ (check[v].known => check[v].id \in ackedRevokes)
  /\ \A a \in accepted : Expiry[a.id] < a.at

RevocationInv == Types /\ Mirror /\ Kept /\ Checks

-----------------------------------------------------------------------------
\* The zero expiry and the idle states are of the right types.
LEMMA IdleTyped ==
  /\ Free \in Call /\ Free.pc = "free" /\ Free.ids = {} /\ NoCheck \in Check /\ NoCheck.pc = "idle"
  /\ Expiry \in [Tokens -> Nat] /\ NoEntry \notin Entry
BY RevocationAssumption DEF Free, NoCheck, Call, Check

\* A closed, empty store satisfies the invariant.
LEMMA InitRevocationInv == RevocationInit => RevocationInv
<1> SUFFICES ASSUME RevocationInit PROVE RevocationInv
  OBVIOUS
<1>1. Types
  BY IdleTyped DEF RevocationInit, Types
<1>2. Mirror
  BY IdleTyped DEF RevocationInit, Mirror
<1>3. Kept /\ Checks
  BY IdleTyped DEF RevocationInit, Kept, Checks
<1> QED BY <1>1, <1>2, <1>3 DEF RevocationInv

\* A step that leaves bucket, clock, verifiers and histories alone keeps what
\* the invariant says of them.
LEMMA StoreFrame ==
  ASSUME RevocationInv, UNCHANGED <<denied, check, time, accepted>>,
         ackedRevokes \subseteq ackedRevokes', storeUp => storeUp',
         \A j \in ackedRevokes' \ ackedRevokes : denied[j] # NoEntry
  PROVE  Kept' /\ Checks'
<1>1. Kept'
  BY DEF RevocationInv, Kept, Covers
<1>2. Checks'
  BY DEF RevocationInv, Checks, Types
<1> QED BY <1>1, <1>2

\* Opening primes the cache from the bucket.
LEMMA OpenStoreStep == RevocationInv /\ OpenStore => RevocationInv'
<1> SUFFICES ASSUME RevocationInv, OpenStore PROVE RevocationInv'
  OBVIOUS
<1>1. Types'
  BY DEF RevocationInv, Types, OpenStore, Stored
<1>2. Mirror'
  BY IdleTyped DEF RevocationInv, Mirror, OpenStore, Stored
<1>3. Kept' /\ Checks'
  BY StoreFrame DEF RevocationInv, OpenStore, Types
<1> QED BY <1>1, <1>2, <1>3 DEF RevocationInv

\* A crash forgets cache, call and verifiers, and no entry of the bucket.
LEMMA StoreCrashStep == RevocationInv /\ StoreCrash => RevocationInv'
<1> SUFFICES ASSUME RevocationInv, StoreCrash PROVE RevocationInv'
  OBVIOUS
<1>1. Types'
  BY IdleTyped DEF RevocationInv, Types, StoreCrash
<1>2. Mirror'
  BY IdleTyped DEF RevocationInv, Mirror, StoreCrash, Stored
<1>3. Kept' /\ Checks'
  BY IdleTyped DEF RevocationInv, StoreCrash, Kept, Covers, Checks
<1> QED BY <1>1, <1>2, <1>3 DEF RevocationInv

\* Time only adds to what has expired.
LEMMA ClockTickStep == RevocationInv /\ ClockTick => RevocationInv'
<1> SUFFICES ASSUME RevocationInv, ClockTick PROVE RevocationInv'
  OBVIOUS
<1> USE DEF ClockTick, store
<1>1. Types'
  BY DEF RevocationInv, Types
<1>2. Mirror'
  <2>1. Stored' = Stored
    BY DEF Stored
  <2>2. op.pc = "delete" => \A j \in op.ids : denied[j].exp \in Nat
    BY IdleTyped DEF RevocationInv, Mirror, Types, Entry, Call
  <2> QED BY <2>1, <2>2 DEF RevocationInv, Mirror, Types, Covers
<1>3. Kept' /\ Checks'
  BY IdleTyped DEF RevocationInv, Types, Kept, Covers, Checks
<1> QED BY <1>1, <1>2, <1>3 DEF RevocationInv

-----------------------------------------------------------------------------
(* Revoke.                                                                 *)

\* Revoke finds the token in the cache, and so in the bucket, or goes on to persist it.
LEMMA RevokeLockStep ==
  ASSUME RevocationInv, NEW j \in Tokens, NEW e \in Entry, RevokeLock(j, e)
  PROVE  RevocationInv'
<1>1. CASE j \in denyCache
  <2>1. denyCache = Stored /\ denied[j] # NoEntry
    BY <1>1, IdleTyped DEF RevocationInv, Mirror, RevokeLock, Stored
  <2>2. Types'
    BY <1>1 DEF RevocationInv, Types, RevokeLock
  <2>3. Mirror'
    BY <1>1 DEF RevocationInv, Mirror, RevokeLock, Stored
  <2>4. Kept' /\ Checks'
    BY <1>1, <2>1, StoreFrame DEF RevokeLock
  <2> QED BY <2>2, <2>3, <2>4 DEF RevocationInv
<1>2. CASE j \notin denyCache
  <2>1. op' = [pc |-> "persist", entry |-> e, ids |-> {j}] /\ op = Free
    BY <1>2 DEF RevokeLock
  <2>2. op' \in Call
    BY <2>1 DEF Call
  <2>3. Types'
    BY <1>2, <2>2 DEF RevocationInv, Types, RevokeLock
  <2>4. Mirror'
    BY <1>2, <2>1, IdleTyped DEF RevocationInv, Mirror, RevokeLock, Stored, Covers
  <2>5. Kept' /\ Checks'
    BY <1>2, StoreFrame DEF RevokeLock
  <2> QED BY <2>3, <2>4, <2>5 DEF RevocationInv
<1> QED BY <1>1, <1>2

\* What a committed revocation adds to the bucket.
LEMMA CommitAdds ==
  ASSUME RevocationInv, RevokeCommit
  PROVE  \E j \in Tokens : /\ op.ids = {j}
                           /\ Stored' = Stored \cup {j}
                           /\ Covers(op.entry.exp, j)
                           /\ \A i \in Tokens : i # j \/ denied[i] # NoEntry
                                                 => denied'[i] = denied[i]
                           /\ denied[j] = NoEntry => denied'[j] = op.entry
<1>1. PICK j \in Tokens : op.ids = {j} /\ Covers(op.entry.exp, j) /\ op.entry \in Entry
  BY DEF RevocationInv, Mirror, RevokeCommit
<1>2. \A i \in Tokens : denied'[i] = IF i = j /\ denied[i] = NoEntry THEN op.entry ELSE denied[i]
  BY <1>1 DEF RevokeCommit
<1>3. Stored' = Stored \cup {j}
  BY <1>1, <1>2, IdleTyped DEF Stored
<1> QED BY <1>1, <1>2, <1>3

\* The bucket is ahead of the cache by the token revoked.
LEMMA RevokeCommitStep == RevocationInv /\ RevokeCommit => RevocationInv'
<1> SUFFICES ASSUME RevocationInv, RevokeCommit PROVE RevocationInv'
  OBVIOUS
<1>1. PICK j \in Tokens : /\ op.ids = {j}
                          /\ Stored' = Stored \cup {j}
                          /\ Covers(op.entry.exp, j)
                          /\ \A i \in Tokens : i # j \/ denied[i] # NoEntry
                                                => denied'[i] = denied[i]
                          /\ denied[j] = NoEntry => denied'[j] = op.entry
  BY CommitAdds
<1>2. op \in Call /\ op.pc = "persist" /\ op.entry \in Entry /\ storeUp
  BY IdleTyped DEF RevocationInv, Types, Mirror, RevokeCommit
<1>3. op' \in Call /\ op'.pc = "cache" /\ op'.ids = op.ids
  BY <1>2 DEF RevokeCommit, Call
<1>4. Types'
  <2>1. denied' \in [Tokens -> Entry \cup {NoEntry}]
    BY <1>2 DEF RevocationInv, Types, RevokeCommit
  <2> QED BY <1>3, <2>1 DEF RevocationInv, Types, RevokeCommit
<1>5. Mirror'
  <2>1. denyCache = Stored
    BY <1>2 DEF RevocationInv, Mirror
  <2>2. Stored' = denyCache' \cup op'.ids /\ storeUp'
    BY <1>1, <1>2, <1>3, <2>1 DEF RevokeCommit
  <2> QED BY <1>3, <2>2 DEF Mirror
<1>6. Kept'
  BY <1>1 DEF RevocationInv, Types, Kept, Covers, RevokeCommit
<1>7. Checks'
  BY DEF RevocationInv, Checks, RevokeCommit
<1> QED BY <1>4, <1>5, <1>6, <1>7 DEF RevocationInv

\* A failed revocation changes neither bucket nor cache.
LEMMA RevokeFailsStep == RevocationInv /\ RevokeFails => RevocationInv'
<1> SUFFICES ASSUME RevocationInv, RevokeFails PROVE RevocationInv'
  OBVIOUS
<1>1. Types'
  BY IdleTyped DEF RevocationInv, Types, RevokeFails
<1>2. Mirror'
  BY IdleTyped DEF RevocationInv, Mirror, RevokeFails, Stored
<1>3. Kept' /\ Checks'
  BY StoreFrame DEF RevokeFails
<1> QED BY <1>1, <1>2, <1>3 DEF RevocationInv

\* The cache catches up, and the token acknowledged is in the bucket.
LEMMA RevokeCacheStep == RevocationInv /\ RevokeCache => RevocationInv'
<1> SUFFICES ASSUME RevocationInv, RevokeCache PROVE RevocationInv'
  OBVIOUS
<1>1. op.ids \subseteq Stored /\ Stored = denyCache \cup op.ids /\ op.ids \subseteq Tokens
  BY DEF RevocationInv, Mirror, Types, RevokeCache, Stored
<1>2. Types'
  BY <1>1, IdleTyped DEF RevocationInv, Types, RevokeCache
<1>3. Mirror'
  BY <1>1, IdleTyped DEF RevocationInv, Mirror, RevokeCache, Stored
<1>4. Kept' /\ Checks'
  <2>1. \A j \in ackedRevokes' \ ackedRevokes : denied[j] # NoEntry
    BY <1>1 DEF RevokeCache, Stored
  <2> QED BY <2>1, StoreFrame DEF RevokeCache
<1> QED BY <1>2, <1>3, <1>4 DEF RevocationInv

-----------------------------------------------------------------------------
(* GC.                                                                     *)

\* GC lists entries that have expired, since no caller's now is in the future.
LEMMA GCLockStep ==
  ASSUME RevocationInv, NEW t \in 0..time, GCLock(t)
  PROVE  RevocationInv'
<1> DEFINE old == {j \in Stored : denied[j].exp # NoExpiry /\ denied[j].exp < t}
<1>1. op = Free /\ op' = [pc |-> "delete", entry |-> NoEntry, ids |-> old]
  BY DEF GCLock
<1>2. \A j \in old : denied[j] # NoEntry /\ denied[j].exp # NoExpiry /\ denied[j].exp < time
  <2>1. \A j \in old : j \in Tokens /\ denied[j] # NoEntry
    BY DEF Stored
  <2>2. \A j \in old : denied[j].exp \in Nat
    BY <2>1 DEF RevocationInv, Types, Entry
  <2> QED BY <2>1, <2>2 DEF RevocationInv, Types
<1>3. old \in SUBSET Tokens
  BY DEF Stored
<1> HIDE DEF old
<1>4. op' \in Call
  BY <1>1, <1>3 DEF Call
<1>5. Types'
  BY <1>4 DEF RevocationInv, Types, GCLock
<1>6. Mirror'
  BY <1>1, <1>2, IdleTyped DEF RevocationInv, Mirror, GCLock, Stored
<1>7. Kept' /\ Checks'
  BY StoreFrame DEF GCLock
<1> QED BY <1>5, <1>6, <1>7 DEF RevocationInv

\* What a collection takes out of the bucket had expired.
LEMMA DeleteRemoves ==
  ASSUME RevocationInv, GCDelete
  PROVE  /\ op.ids \subseteq Stored
         /\ Stored' = Stored \ op.ids
         /\ \A j \in Tokens : j \notin op.ids => denied'[j] = denied[j]
         /\ \A j \in op.ids : Expiry[j] < time
<1>1. op.ids \subseteq Tokens
  BY DEF RevocationInv, Types, Call
<1>2. \A j \in op.ids : denied[j] # NoEntry /\ denied[j].exp # NoExpiry /\ denied[j].exp < time
  BY DEF RevocationInv, Mirror, GCDelete
<1>3. \A j \in Tokens : denied'[j] = IF j \in op.ids THEN NoEntry ELSE denied[j]
  BY DEF GCDelete
<1>4. \A j \in op.ids : Expiry[j] < time
  <2> SUFFICES ASSUME NEW j \in op.ids PROVE Expiry[j] < time
    OBVIOUS
  <2>1. denied[j].exp \in Nat /\ Expiry[j] \in Nat /\ time \in Nat
    BY <1>1, <1>2, IdleTyped DEF RevocationInv, Types, Entry
  <2>2. denied[j].exp >= Expiry[j]
    BY <1>1, <1>2 DEF RevocationInv, Kept, Covers
  <2> QED BY <1>2, <2>1, <2>2
<1> QED BY <1>1, <1>2, <1>3, <1>4 DEF Stored

\* The cache is ahead of the bucket by tokens that have expired.
LEMMA GCDeleteStep == RevocationInv /\ GCDelete => RevocationInv'
<1> SUFFICES ASSUME RevocationInv, GCDelete PROVE RevocationInv'
  OBVIOUS
<1>1. /\ op.ids \subseteq Stored
      /\ Stored' = Stored \ op.ids
      /\ \A j \in Tokens : j \notin op.ids => denied'[j] = denied[j]
      /\ \A j \in op.ids : Expiry[j] < time
  BY DeleteRemoves
<1>2. op \in Call /\ op.pc = "delete" /\ storeUp
  BY IdleTyped DEF RevocationInv, Types, Mirror, GCDelete
<1>3. op' \in Call /\ op'.pc = "uncache" /\ op'.ids = op.ids
  BY <1>2 DEF GCDelete, Call
<1>4. Types'
  <2>1. denied' \in [Tokens -> Entry \cup {NoEntry}]
    BY DEF RevocationInv, Types, GCDelete
  <2> QED BY <1>3, <2>1 DEF RevocationInv, Types, GCDelete
<1>5. Mirror'
  <2>1. Stored' = denyCache' \ op'.ids /\ storeUp'
    BY <1>1, <1>2, <1>3 DEF RevocationInv, Mirror, GCDelete
  <2> QED BY <1>3, <2>1 DEF Mirror
<1>6. Kept'
  <2>1. \A j \in Tokens : denied'[j] # NoEntry => Covers(denied'[j].exp, j)
    BY DEF RevocationInv, Kept, GCDelete
  <2>2. \A j \in ackedRevokes : denied'[j] # NoEntry \/ Expiry[j] < time
    BY <1>1 DEF RevocationInv, Types, Kept
  <2> QED BY <2>1, <2>2 DEF Kept, Covers, GCDelete
<1>7. Checks'
  BY DEF RevocationInv, Checks, GCDelete
<1> QED BY <1>4, <1>5, <1>6, <1>7 DEF RevocationInv

\* A failed deletion changes neither bucket nor cache.
LEMMA GCFailsStep == RevocationInv /\ GCFails => RevocationInv'
<1> SUFFICES ASSUME RevocationInv, GCFails PROVE RevocationInv'
  OBVIOUS
<1>1. Types'
  BY IdleTyped DEF RevocationInv, Types, GCFails
<1>2. Mirror'
  BY IdleTyped DEF RevocationInv, Mirror, GCFails, Stored
<1>3. Kept' /\ Checks'
  BY StoreFrame DEF GCFails
<1> QED BY <1>1, <1>2, <1>3 DEF RevocationInv

\* The cache catches up.
LEMMA GCCacheStep == RevocationInv /\ GCCache => RevocationInv'
<1> SUFFICES ASSUME RevocationInv, GCCache PROVE RevocationInv'
  OBVIOUS
<1>1. Types'
  BY IdleTyped DEF RevocationInv, Types, GCCache
<1>2. Mirror'
  BY IdleTyped DEF RevocationInv, Mirror, GCCache, Stored
<1>3. Kept' /\ Checks'
  BY StoreFrame DEF GCCache
<1> QED BY <1>1, <1>2, <1>3 DEF RevocationInv

-----------------------------------------------------------------------------
(* Verify.                                                                 *)

\* A verifier that has parsed a token knows whether its revocation was acknowledged.
LEMMA VerifyParseStep ==
  ASSUME RevocationInv, NEW v \in Verifiers, NEW j \in Tokens, VerifyParse(v, j)
  PROVE  RevocationInv'
<1> USE DEF store
<1>1. [pc |-> "parsed", id |-> j, known |-> j \in ackedRevokes] \in Check
  BY DEF Check
<1>2. Types'
  BY <1>1 DEF RevocationInv, Types, VerifyParse
<1>3. Mirror' /\ Kept'
  BY DEF RevocationInv, Mirror, Kept, Covers, VerifyParse, Stored
<1>4. Checks'
  BY DEF RevocationInv, Types, Checks, VerifyParse
<1> QED BY <1>2, <1>3, <1>4 DEF RevocationInv

\* A token that is acknowledged and not in the cache has expired.
LEMMA VerifyRevokedStep ==
  ASSUME RevocationInv, NEW v \in Verifiers, VerifyRevoked(v)
  PROVE  RevocationInv'
<1> USE DEF store
<1>1. check[v].id \in Tokens /\ time \in Nat
  BY DEF RevocationInv, Types, Checks, VerifyRevoked
<1>2. denyCache = Stored
  BY IdleTyped DEF RevocationInv, Mirror, Checks, VerifyRevoked
<1>3. check[v].id \notin denyCache /\ check[v].known => Expiry[check[v].id] < time
  BY <1>1, <1>2 DEF RevocationInv, Kept, Checks, VerifyRevoked, Stored
<1>4. Types'
  BY <1>1, IdleTyped DEF RevocationInv, Types, VerifyRevoked
<1>5. Mirror' /\ Kept'
  BY DEF RevocationInv, Mirror, Kept, Covers, VerifyRevoked, Stored
<1>6. Checks'
  <2>1. \A a \in accepted' : Expiry[a.id] < a.at
    BY <1>3 DEF RevocationInv, Checks, VerifyRevoked
  <2>2. \A w \in Verifiers : check'[w].pc = "parsed" => check'[w] = check[w]
    BY IdleTyped DEF RevocationInv, Types, VerifyRevoked
  <2> QED BY <2>1, <2>2 DEF RevocationInv, Checks, VerifyRevoked
<1> QED BY <1>4, <1>5, <1>6 DEF RevocationInv

-----------------------------------------------------------------------------
\* The invariant is inductive.
LEMMA NextRevocationInv == RevocationInv /\ [RevocationNext]_revocationVars => RevocationInv'
<1> SUFFICES ASSUME RevocationInv, [RevocationNext]_revocationVars PROVE RevocationInv'
  OBVIOUS
<1>1. CASE UNCHANGED revocationVars
  BY <1>1 DEF revocationVars, RevocationInv, Types, Mirror, Kept, Covers, Checks, Stored
<1>2. CASE OpenStore \/ StoreCrash \/ ClockTick
  BY <1>2, OpenStoreStep, StoreCrashStep, ClockTickStep
<1>3. ASSUME NEW j \in Tokens, NEW e \in [exp : 0..MaxClock, by : Admins], RevokeLock(j, e)
      PROVE  RevocationInv'
  <2>1. e \in Entry
    BY RevocationAssumption DEF Entry
  <2> QED BY <1>3, <2>1, RevokeLockStep
<1>4. CASE RevokeCommit \/ RevokeFails \/ RevokeCache
  BY <1>4, RevokeCommitStep, RevokeFailsStep, RevokeCacheStep
<1>5. ASSUME NEW t \in 0..time, GCLock(t) PROVE RevocationInv'
  BY <1>5, GCLockStep
<1>6. CASE GCDelete \/ GCFails \/ GCCache
  BY <1>6, GCDeleteStep, GCFailsStep, GCCacheStep
<1>7. ASSUME NEW v \in Verifiers, NEW j \in Tokens, VerifyParse(v, j) PROVE RevocationInv'
  BY <1>7, VerifyParseStep
<1>8. ASSUME NEW v \in Verifiers, VerifyRevoked(v) PROVE RevocationInv'
  BY <1>8, VerifyRevokedStep
<1> QED BY <1>1, <1>2, <1>3, <1>4, <1>5, <1>6, <1>7, <1>8 DEF RevocationNext

(* The invariant holds throughout.                                         *)
THEOREM RevocationInductive == RevocationSpec => []RevocationInv
<1> QED BY InitRevocationInv, NextRevocationInv, PTL DEF RevocationSpec

(* The cache mirrors the bucket whenever no call is between its commit and *)
(* its change of the cache, through crashes and restarts.                  *)
THEOREM CacheMirrorsBucket == RevocationSpec => []RevocationTypeOK
<1>1. RevocationInv => RevocationTypeOK
  BY DEF RevocationInv, Types, Mirror, Call, RevocationTypeOK
<1> QED BY <1>1, RevocationInductive, PTL

(* A token whose revocation was acknowledged before Verify began is        *)
(* accepted only once it has expired.                                      *)
THEOREM RevokedIsRejected == RevocationSpec => []RevokedNotAccepted
<1>1. RevocationInv => RevokedNotAccepted
  BY DEF RevocationInv, Checks, RevokedNotAccepted
<1> QED BY <1>1, RevocationInductive, PTL

-----------------------------------------------------------------------------
\* Only a commit of Revoke and a deletion of GC change the bucket, and only
\* the clock's tick the clock.
LEMMA BucketChanges ==
  ASSUME [RevocationNext]_revocationVars, ~ RevokeCommit, ~ GCDelete
  PROVE  UNCHANGED denied /\ (~ ClockTick => UNCHANGED time)
BY DEF RevocationNext, revocationVars, store, OpenStore, StoreCrash, ClockTick, RevokeLock,
   RevokeFails, RevokeCache, GCLock, GCFails, GCCache, VerifyParse, VerifyRevoked

(* An entry never changes, and goes only after its ExpiresAt.              *)
THEOREM FirstIsKept == RevocationSpec => FirstRevocationKept
<1> DEFINE A == \A j \in Tokens :
                  denied[j] # NoEntry /\ denied'[j] # denied[j] =>
                    denied'[j] = NoEntry /\ denied[j].exp # NoExpiry /\ denied[j].exp < time
<1>1. RevocationInv /\ [RevocationNext]_revocationVars => [A]_revocationVars
  <2> SUFFICES ASSUME RevocationInv, [RevocationNext]_revocationVars PROVE A
    OBVIOUS
  <2>1. CASE RevokeCommit
    BY <2>1 DEF RevokeCommit
  <2>2. CASE GCDelete
    BY <2>2 DEF GCDelete, RevocationInv, Mirror
  <2>3. CASE ~ RevokeCommit /\ ~ GCDelete
    BY <2>3, BucketChanges
  <2> QED BY <2>1, <2>2, <2>3
<1> QED BY <1>1, RevocationInductive, PTL DEF RevocationSpec, FirstRevocationKept

-----------------------------------------------------------------------------
(* Bucket, cache, mutex and restarts implement the abstract denylist: a    *)
(* commit adds one token, a deletion removes tokens that expired, a tick   *)
(* of the clock is one, and every other step changes nothing a caller      *)
(* could see.                                                              *)
THEOREM StoreRefinesDenylist == RevocationSpec => ImplementsDenylist
<1>1. RevocationInit => Deny!DenylistInit
  BY DEF RevocationInit, Deny!DenylistInit, Visible, Stored
<1>2. RevocationInv /\ RevocationInv' /\ [RevocationNext]_revocationVars
        => [Deny!DenylistNext]_<<Visible, time>>
  <2> SUFFICES ASSUME RevocationInv, RevocationInv', [RevocationNext]_revocationVars
               PROVE  [Deny!DenylistNext]_<<Visible, time>>
    OBVIOUS
  <2>0. Visible = Stored /\ Visible' = Stored'
    BY IdleTyped DEF RevocationInv, Mirror, Visible
  <2>1. CASE RevokeCommit
    <3>1. PICK j \in Tokens : Stored' = Stored \cup {j}
      BY <2>1, CommitAdds
    <3>2. Deny!Add(j)
      BY <2>0, <2>1, <3>1 DEF Deny!Add, RevokeCommit
    <3> QED BY <3>2 DEF Deny!DenylistNext
  <2>2. CASE GCDelete
    <3>1. op.ids \in SUBSET Visible /\ Deny!Expire(op.ids)
      BY <2>0, <2>2, DeleteRemoves DEF Deny!Expire, GCDelete
    <3> QED BY <3>1 DEF Deny!DenylistNext
  <2>3. CASE ~ RevokeCommit /\ ~ GCDelete
    <3>1. Visible' = Visible
      BY <2>0, <2>3, BucketChanges DEF Stored
    <3>2. CASE ClockTick
      BY <3>1, <3>2 DEF ClockTick, Deny!DenylistNext, Deny!Pass
    <3>3. CASE ~ ClockTick
      BY <2>3, <3>1, <3>3, BucketChanges
    <3> QED BY <3>2, <3>3
  <2> QED BY <2>1, <2>2, <2>3
<1> QED BY <1>1, <1>2, RevocationInductive, PTL
        DEF RevocationSpec, ImplementsDenylist, Deny!DenylistSpec
=============================================================================

----------------------------- MODULE Revocation -----------------------------
(***************************************************************************)
(* The denylist of revoked tokens: a bucket with a cache in front of it    *)
(* (internal/identity/revocation) and the verifier that asks it            *)
(* (internal/identity/jwt).  Revoke and GC hold the store's mutex from end *)
(* to end, but commit to the database and change the cache in two steps,   *)
(* and a verifier reads the clock before it asks.                          *)
(***************************************************************************)
EXTENDS Naturals

CONSTANTS
  Tokens,     \* token ids
  Expiry,     \* token -> the time it expires
  Verifiers,  \* concurrent calls of Verifier.Verify
  Admins,     \* who revokes
  NoEntry,    \* no entry under a token id
  MaxClock    \* bound on the clock

NoExpiry == 0   \* the zero ExpiresAt

Entry == [exp : Nat, by : Admins]

ASSUME RevocationAssumption ==
  /\ Expiry \in [Tokens -> Nat \ {0}]
  /\ NoEntry \notin Entry
  /\ MaxClock \in Nat

VARIABLES
  denied,     \* the bucket: token -> entry or NoEntry
  denyCache,  \* BoltStore.cache
  storeUp,    \* the store is open
  op,         \* the call that holds the mutex
  check,      \* verifier -> the token it has parsed
  time,       \* the clock
  ackedRevokes,      \* history: tokens whose Revoke returned nil
  accepted    \* history: [token, at] accepted though revoked before Verify began

store == <<denied, denyCache, storeUp, op>>
revocationVars == <<denied, denyCache, storeUp, op, check, time, ackedRevokes, accepted>>

Free == [pc |-> "free", entry |-> NoEntry, ids |-> {}]
NoCheck == [pc |-> "idle", id |-> NoEntry, known |-> FALSE]

Stored == {j \in Tokens : denied[j] # NoEntry}

RevocationInit ==
  /\ denied = [j \in Tokens |-> NoEntry]
  /\ denyCache = {} /\ storeUp = FALSE /\ op = Free
  /\ check = [v \in Verifiers |-> NoCheck]
  /\ time = 0
  /\ ackedRevokes = {} /\ accepted = {}

-----------------------------------------------------------------------------
(* The store.                                                              *)

\* Open with an empty cache.
OpenStoreUnprimed ==
  /\ ~ storeUp
  /\ storeUp' = TRUE
  /\ denyCache' = {}
  /\ UNCHANGED <<denied, op, check, time, ackedRevokes, accepted>>

\* Open: the cache is primed from the bucket.
OpenStore ==
  /\ ~ storeUp
  /\ storeUp' = TRUE
  /\ denyCache' = Stored
  /\ UNCHANGED <<denied, op, check, time, ackedRevokes, accepted>>

\* The process dies, at any point of any call.
StoreCrash ==
  /\ storeUp
  /\ storeUp' = FALSE
  /\ denyCache' = {} /\ op' = Free
  /\ check' = [v \in Verifiers |-> NoCheck]
  /\ UNCHANGED <<denied, time, ackedRevokes, accepted>>

\* Revoke takes the mutex; a token in the cache is done.  The caller gives the
\* token's expiry, a later time, or none.
RevokeLock(j, e) ==
  /\ storeUp /\ op = Free
  /\ e.exp = NoExpiry \/ e.exp >= Expiry[j]
  /\ IF j \in denyCache
     THEN ackedRevokes' = ackedRevokes \cup {j} /\ UNCHANGED op
     ELSE op' = [pc |-> "persist", entry |-> e, ids |-> {j}] /\ UNCHANGED ackedRevokes
  /\ UNCHANGED <<denied, denyCache, storeUp, check, time, accepted>>

\* The transaction commits; an entry already there is kept.
RevokeCommit ==
  /\ op.pc = "persist"
  /\ denied' = [j \in Tokens |-> IF j \in op.ids /\ denied[j] = NoEntry
                                 THEN op.entry ELSE denied[j]]
  /\ op' = [op EXCEPT !.pc = "cache"]
  /\ UNCHANGED <<denyCache, storeUp, check, time, ackedRevokes, accepted>>

\* A failed transaction leaves the token in the cache.
RevokeFailsCached ==
  /\ op.pc = "persist"
  /\ denyCache' = denyCache \cup op.ids
  /\ op' = Free
  /\ UNCHANGED <<denied, storeUp, check, time, ackedRevokes, accepted>>

RevokeFails ==
  /\ op.pc = "persist"
  /\ op' = Free
  /\ UNCHANGED <<denied, denyCache, storeUp, check, time, ackedRevokes, accepted>>

\* The token enters the cache and Revoke returns nil.
RevokeCache ==
  /\ op.pc = "cache"
  /\ denyCache' = denyCache \cup op.ids
  /\ ackedRevokes' = ackedRevokes \cup op.ids
  /\ op' = Free
  /\ UNCHANGED <<denied, storeUp, check, time, accepted>>

\* GC(now) takes the mutex and lists the entries that expired before the
\* caller's now; with none it returns.
GCLock(t) ==
  LET old == {j \in Stored : denied[j].exp # NoExpiry /\ denied[j].exp < t}
  IN  /\ storeUp /\ op = Free
      /\ old # {}
      /\ op' = [pc |-> "delete", entry |-> NoEntry, ids |-> old]
      /\ UNCHANGED <<denied, denyCache, storeUp, check, time, ackedRevokes, accepted>>

GCDelete ==
  /\ op.pc = "delete"
  /\ denied' = [j \in Tokens |-> IF j \in op.ids THEN NoEntry ELSE denied[j]]
  /\ op' = [op EXCEPT !.pc = "uncache"]
  /\ UNCHANGED <<denyCache, storeUp, check, time, ackedRevokes, accepted>>

GCFails ==
  /\ op.pc = "delete"
  /\ op' = Free
  /\ UNCHANGED <<denied, denyCache, storeUp, check, time, ackedRevokes, accepted>>

\* The cache is left as it was.
GCCacheSkipped ==
  /\ op.pc = "uncache"
  /\ op' = Free
  /\ UNCHANGED <<denied, denyCache, storeUp, check, time, ackedRevokes, accepted>>

GCCache ==
  /\ op.pc = "uncache"
  /\ denyCache' = denyCache \ op.ids
  /\ op' = Free
  /\ UNCHANGED <<denied, storeUp, check, time, ackedRevokes, accepted>>

-----------------------------------------------------------------------------
(* Verifier.Verify of a well-signed token.                                 *)

\* ParseWithClaims reads the clock; an expired token is rejected.
VerifyParse(v, j) ==
  /\ storeUp /\ check[v] = NoCheck
  /\ time < Expiry[j]
  /\ check' = [check EXCEPT ![v] = [pc |-> "parsed", id |-> j, known |-> j \in ackedRevokes]]
  /\ UNCHANGED <<store, time, ackedRevokes, accepted>>

\* IsRevoked waits for the mutex and looks in the cache.
VerifyRevoked(v) ==
  /\ check[v].pc = "parsed" /\ op = Free
  /\ accepted' = IF check[v].id \notin denyCache /\ check[v].known
                 THEN accepted \cup {[id |-> check[v].id, at |-> time]}
                 ELSE accepted
  /\ check' = [check EXCEPT ![v] = NoCheck]
  /\ UNCHANGED <<store, time, ackedRevokes>>

ClockTick ==
  /\ time < MaxClock
  /\ time' = time + 1
  /\ UNCHANGED <<store, check, ackedRevokes, accepted>>

-----------------------------------------------------------------------------
RevocationNext ==
  \/ OpenStore \/ StoreCrash \/ ClockTick
  \/ \E j \in Tokens, e \in [exp : 0..MaxClock, by : Admins] : RevokeLock(j, e)
  \/ RevokeCommit \/ RevokeFails \/ RevokeCache
  \/ \E t \in 0..time : GCLock(t)
  \/ GCDelete \/ GCFails \/ GCCache
  \/ \E v \in Verifiers, j \in Tokens : VerifyParse(v, j)
  \/ \E v \in Verifiers : VerifyRevoked(v)

RevocationSpec == RevocationInit /\ [][RevocationNext]_revocationVars

-----------------------------------------------------------------------------
(* Properties.                                                             *)

(* Type invariant; "The cache mirrors the on-disk denylist": they differ   *)
(* only while a call holds the mutex.                                      *)
RevocationTypeOK ==
  /\ denied \in [Tokens -> Entry \cup {NoEntry}]
  /\ denyCache \subseteq Tokens
  /\ storeUp \in BOOLEAN
  /\ op \in [pc : {"free", "persist", "cache", "delete", "uncache"},
             entry : Entry \cup {NoEntry}, ids : SUBSET Tokens]
  /\ time \in Nat
  /\ ackedRevokes \subseteq Tokens
  /\ storeUp /\ op.pc \notin {"cache", "uncache"} => denyCache = Stored

(* Revocation works: a token whose Revoke returned nil before Verify began *)
(* is rejected, or has expired by the time Verify answers, through crashes *)
(* in the middle of Revoke and GC, restarts, and a GC that runs between    *)
(* the verifier's look at the clock and its look at the cache.             *)
RevokedNotAccepted == \A a \in accepted : Expiry[a.id] < a.at

(* store.go: "The first revocation is kept (we don't overwrite with later  *)
(* reasons) so audit history remains stable": an entry never changes, and  *)
(* goes only when its ExpiresAt has passed.                                *)
FirstRevocationKept ==
  [][\A j \in Tokens :
       denied[j] # NoEntry /\ denied'[j] # denied[j] =>
         denied'[j] = NoEntry /\ denied[j].exp # NoExpiry /\ denied[j].exp < time]_revocationVars

\* What IsRevoked answers: from the cache, or once the mutex is free again.
Visible == IF storeUp /\ op = Free THEN denyCache ELSE Stored

Deny == INSTANCE Denylist WITH revoked <- Visible, clock <- time

(* Bucket, cache, mutex and restarts implement the abstract denylist.      *)
ImplementsDenylist == Deny!DenylistSpec
=============================================================================

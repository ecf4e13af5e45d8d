----------------------------- MODULE KeyRotation -----------------------------
(***************************************************************************)
(* Signing keys of one purpose (internal/storage/pki) and the tokens that  *)
(* are signed with them (internal/identity/jwt): generation, rotation in   *)
(* three steps, retirement, issuing, and which tokens verify when.         *)
(*                                                                         *)
(* The pki package leaves the schedule to its callers: when to rotate, how *)
(* long to wait before retiring.  Here the callers rotate a key Margin     *)
(* before the end of its validity window at the latest and retire it once  *)
(* it has been rotating for Overlap.                                       *)
(***************************************************************************)
EXTENDS Integers, FiniteSets

CONSTANTS
  Rotators,    \* concurrent callers of Rotate and Retire
  Issuers,     \* concurrent callers of Issue
  KeyTTL,      \* lifetime of a key
  AccessTTL, RefreshTTL,   \* lifetimes of the two tokens Issue signs
  Margin,      \* a key is rotated this long before its NotAfter, or earlier
  Overlap,     \* a rotating key is kept this long, or longer
  MaxKeys, MaxTokens, LastHour   \* bounds

ASSUME KeyRotationAssumption ==
  /\ KeyTTL \in Nat /\ AccessTTL \in Nat /\ RefreshTTL \in Nat
  /\ Margin \in Nat /\ Overlap \in Nat
  /\ MaxKeys \in Nat \ {0} /\ MaxTokens \in Nat /\ LastHour \in Nat

NoKey == 0

VARIABLES
  hour,      \* clock
  made,      \* number of keys generated; they are numbered 1..made
  keyStatus, \* key -> "none", "active", "rotating", "retired"
  notAfter,  \* key -> end of its validity window
  left,      \* key -> when it stopped being active
  rotator,   \* rotator -> where it is in Rotate, and the key it read
  issuer,    \* issuer -> the key it looked up, and when
  tokens     \* the tokens issued: kind, signing key, time of its lookup, expiry

keystore == <<made, keyStatus, notAfter, left>>
keyVars == <<hour, keystore, rotator, issuer, tokens>>

Keys == 1..MaxKeys
ActiveKeys == {k \in Keys : keyStatus[k] = "active"}

IdleRotator == [pc |-> "idle", key |-> NoKey]
IdleIssuer == [key |-> NoKey, at |-> 0]

\* Boot: GenerateKeyPair has run once for the purpose.
KeyInit ==
  /\ hour = 0
  /\ made = 1
  /\ keyStatus = [k \in Keys |-> IF k = 1 THEN "active" ELSE "none"]
  /\ notAfter = [k \in Keys |-> IF k = 1 THEN KeyTTL ELSE 0]
  /\ left = [k \in Keys |-> 0]
  /\ rotator = [r \in Rotators |-> IdleRotator]
  /\ issuer = [i \in Issuers |-> IdleIssuer]
  /\ tokens = {}

-----------------------------------------------------------------------------
(* The schedule.                                                           *)

RotationDue(k) == notAfter[k] - hour <= Margin
OverlapPassed(k) == hour - left[k] >= Overlap

\* Time does not overtake the callers that have a rotation to do.
KeyTick ==
  /\ hour < LastHour
  /\ \A k \in ActiveKeys : ~ RotationDue(k)
  /\ hour' = hour + 1
  /\ UNCHANGED <<keystore, rotator, issuer, tokens>>

-----------------------------------------------------------------------------
(* Authority.Rotate: three accesses to the store, each under its own lock. *)

\* ErrNoActiveKey ends Rotate like any other error.
RotateReadStrict(r) ==
  /\ rotator[r].pc = "idle" /\ made < MaxKeys
  /\ \E k \in ActiveKeys :
       rotator' = [rotator EXCEPT ![r] = [pc |-> "read", key |-> k]]
  /\ UNCHANGED <<hour, keystore, issuer, tokens>>

\* ActiveByPurpose: some active key (map order), or ErrNoActiveKey.
RotateRead(r) ==
  /\ rotator[r].pc = "idle" /\ made < MaxKeys
  /\ \/ \E k \in ActiveKeys :
          rotator' = [rotator EXCEPT ![r] = [pc |-> "read", key |-> k]]
     \/ /\ ActiveKeys = {}
        /\ rotator' = [rotator EXCEPT ![r] = [pc |-> "generate", key |-> NoKey]]
  /\ UNCHANGED <<hour, keystore, issuer, tokens>>

\* The old key is retired at once instead of kept for the overlap.
RotateUpdateRetires(r) ==
  /\ rotator[r].pc = "read"
  /\ keyStatus' = [keyStatus EXCEPT ![rotator[r].key] = "retired"]
  /\ left' = [left EXCEPT ![rotator[r].key] = hour]
  /\ rotator' = [rotator EXCEPT ![r] = [pc |-> "generate", key |-> NoKey]]
  /\ UNCHANGED <<hour, made, notAfter, issuer, tokens>>

\* UpdateStatus(current, rotating).
RotateUpdate(r) ==
  /\ rotator[r].pc = "read"
  /\ keyStatus' = [keyStatus EXCEPT ![rotator[r].key] = "rotating"]
  /\ left' = [left EXCEPT ![rotator[r].key] = hour]
  /\ rotator' = [rotator EXCEPT ![r] = [pc |-> "generate", key |-> NoKey]]
  /\ UNCHANGED <<hour, made, notAfter, issuer, tokens>>

\* GenerateKeyPair: a new active key, saved.
RotateGenerate(r) ==
  /\ rotator[r].pc = "generate" /\ made < MaxKeys
  /\ made' = made + 1
  /\ keyStatus' = [keyStatus EXCEPT ![made + 1] = "active"]
  /\ notAfter' = [notAfter EXCEPT ![made + 1] = hour + KeyTTL]
  /\ rotator' = [rotator EXCEPT ![r] = IdleRotator]
  /\ UNCHANGED <<hour, left, issuer, tokens>>

\* The random source or Save failed: Rotate returns with no key active.
RotateFails(r) ==
  /\ rotator[r].pc = "generate"
  /\ rotator' = [rotator EXCEPT ![r] = IdleRotator]
  /\ UNCHANGED <<hour, keystore, issuer, tokens>>

\* UpdateStatus(id, retired), called for a rotating key after its overlap.
Retire(k) ==
  /\ keyStatus[k] = "rotating" /\ OverlapPassed(k)
  /\ keyStatus' = [keyStatus EXCEPT ![k] = "retired"]
  /\ UNCHANGED <<hour, made, notAfter, left, rotator, issuer, tokens>>

-----------------------------------------------------------------------------
(* Issuer.Issue, and the verifying side.                                   *)

\* ActiveKey: any active key; ErrNoActiveKey ends the call with no effect.
IssueLookup(i) ==
  /\ issuer[i].key = NoKey /\ Cardinality(tokens) < MaxTokens
  /\ \E k \in ActiveKeys : issuer' = [issuer EXCEPT ![i] = [key |-> k, at |-> hour]]
  /\ UNCHANGED <<hour, keystore, rotator, tokens>>

\* The clock is read once; the access and the refresh token are signed with the
\* key looked up.
IssueSign(i) ==
  /\ issuer[i].key # NoKey
  /\ tokens' = tokens \cup
       {[kind |-> "access", key |-> issuer[i].key, at |-> issuer[i].at, exp |-> hour + AccessTTL],
        [kind |-> "refresh", key |-> issuer[i].key, at |-> issuer[i].at, exp |-> hour + RefreshTTL]}
  /\ issuer' = [issuer EXCEPT ![i] = IdleIssuer]
  /\ UNCHANGED <<hour, keystore, rotator>>

IsVerifyable(k) == keyStatus[k] \notin {"none", "retired"} /\ hour <= notAfter[k]

\* PublishKeys for the purpose: what the JWKS endpoint serves.
PublishKeys == {k \in Keys : IsVerifyable(k)}

\* Verifier.Verify of a token that was not tampered with or revoked.
VerifyToken(t) == hour < t.exp /\ t.key \in PublishKeys

-----------------------------------------------------------------------------
KeyNext ==
  \/ KeyTick
  \/ \E r \in Rotators :
       \/ RotateRead(r) \/ RotateUpdate(r) \/ RotateGenerate(r) \/ RotateFails(r)
       \/ \E k \in Keys : Retire(k)
  \/ \E i \in Issuers : IssueLookup(i) \/ IssueSign(i)

KeySpec == KeyInit /\ [][KeyNext]_keyVars

-----------------------------------------------------------------------------
(* Properties.                                                             *)

Hours == 0..LastHour
Token == [kind : {"access", "refresh"}, key : Keys, at : Hours, exp : Nat]

(* Type invariant; the keys that exist are those generated so far.         *)
KeyTypeOK ==
  /\ hour \in Hours
  /\ made \in Keys
  /\ keyStatus \in [Keys -> {"none", "active", "rotating", "retired"}]
  /\ \A k \in Keys : keyStatus[k] = "none" <=> k > made
  /\ notAfter \in [Keys -> Nat]
  /\ left \in [Keys -> Hours]
  /\ rotator \in [Rotators -> [pc : {"idle", "read", "generate"}, key : 0..made]]
  /\ issuer \in [Issuers -> [key : 0..made, at : Hours]]
  /\ tokens \subseteq Token

(* types.go: a rotating key is "kept for the overlap window so in-flight   *)
(* tokens verify cleanly".  A token, access or refresh, that has not       *)
(* expired verifies, and its key is in the JWKS, for the overlap after the *)
(* key was looked up, however rotations by several callers, retirements    *)
(* and issuers interleave.                                                 *)
TokensVerifyInOverlap ==
  \A t \in tokens : hour < t.exp /\ hour < t.at + Overlap => VerifyToken(t)

(* types.go: an active key is the "sole signer/issuer for its purpose".    *)
(* Two rotations that overlap leave two.                                   *)
SoleActive == \A j, k \in ActiveKeys : j = k

(* Rotate leaves a gap without an active key, and a failed generation      *)
(* leaves it open; rotation always closes it again.                        *)
ActiveKeyReturns == (ActiveKeys = {}) ~> (ActiveKeys # {})
=============================================================================

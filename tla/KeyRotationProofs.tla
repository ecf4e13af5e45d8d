-------------------------- MODULE KeyRotationProofs --------------------------
(***************************************************************************)
(* Proofs about KeyRotation, for any lifetimes of keys and tokens and any  *)
(* number of rotators and issuers: if keys are rotated no later than an    *)
(* overlap before their end, no token loses its key within the overlap.    *)
(***************************************************************************)
EXTENDS KeyRotation, TLAPS

\* What the callers of the pki package have to see to.
Scheduled == Overlap <= Margin /\ Margin <= KeyTTL

\* The key a rotator has read exists; it need not be active any more.
RotatorInv == \A r \in Rotators : rotator[r].pc = "read" => rotator[r].key \in 1..made

\* An active key is at least Margin from its end.
ActiveInv == \A k \in Keys : keyStatus[k] = "active" => hour + Margin <= notAfter[k]

\* What holds of a key since it was looked up: it outlives the overlap, stopped
\* being active later, and is retired only when the overlap is over.
Kept(k, at) ==
  /\ k \in 1..made /\ at \in Hours /\ at <= hour
  /\ at + Overlap <= notAfter[k]
  /\ keyStatus[k] = "rotating" => at <= left[k]
  /\ keyStatus[k] = "retired" => at + Overlap <= hour

\* The lookups that issuers hold or tokens were signed after.
Lookups ==
  {<<issuer[i].key, issuer[i].at>> : i \in {j \in Issuers : issuer[j].key # NoKey}}
    \cup {<<t.key, t.at>> : t \in tokens}

IndInv ==
  /\ KeyTypeOK /\ RotatorInv /\ ActiveInv
  /\ \A l \in Lookups : Kept(l[1], l[2])

-----------------------------------------------------------------------------
(* The constants are numbers, in the forms the steps below use.            *)
LEMMA Constants ==
  /\ KeyTTL \in Nat /\ AccessTTL \in Nat /\ RefreshTTL \in Nat
  /\ Margin \in Nat /\ Overlap \in Nat
  /\ MaxKeys \in Nat \ {0} /\ LastHour \in Nat
BY KeyRotationAssumption

(* The first key, generated at boot, satisfies the invariant.              *)
LEMMA InitIndInv == Scheduled /\ KeyInit => IndInv
<1> SUFFICES ASSUME Scheduled, KeyInit PROVE IndInv
  OBVIOUS
<1>1. KeyTypeOK
  BY Constants DEF KeyInit, KeyTypeOK, Keys, Hours, IdleRotator, IdleIssuer, NoKey, Token
<1>2. RotatorInv
  BY DEF KeyInit, RotatorInv, IdleRotator
<1>3. ActiveInv
  BY Constants DEF KeyInit, ActiveInv, Scheduled, Keys
<1>4. Lookups = {}
  BY DEF KeyInit, IdleIssuer, Lookups
<1> QED
  BY <1>1, <1>2, <1>3, <1>4 DEF IndInv

(* The store keeps its types, through every step.                          *)
LEMMA TypesKept ==
  ASSUME KeyTypeOK, RotatorInv, KeyNext PROVE KeyTypeOK'
<1> USE Constants DEF keystore
<1> DEFINE Rot(n) == [Rotators -> [pc : {"idle", "read", "generate"}, key : 0..n]]
           Iss(n) == [Issuers -> [key : 0..n, at : Hours]]
<1>0. /\ made \in Keys /\ made \in Nat /\ hour \in Hours /\ rotator \in Rot(made)
      /\ issuer \in Iss(made)
  BY DEF KeyTypeOK, Keys
<1>1. CASE KeyTick
  BY <1>1 DEF KeyTypeOK, KeyTick, Hours
<1>2. ASSUME NEW r \in Rotators, RotateRead(r) PROVE KeyTypeOK'
  <2>1. \A k \in ActiveKeys : k \in 0..made
    BY <1>0 DEF KeyTypeOK, ActiveKeys, Keys
  <2>2. rotator' \in Rot(made)
    <3>1. ASSUME NEW k \in ActiveKeys, rotator' = [rotator EXCEPT ![r] = [pc |-> "read", key |-> k]]
          PROVE  rotator' \in Rot(made)
      BY <1>0, <2>1, <3>1
    <3>2. ASSUME rotator' = [rotator EXCEPT ![r] = [pc |-> "generate", key |-> NoKey]]
          PROVE  rotator' \in Rot(made)
      BY <1>0, <3>2 DEF NoKey
    <3> QED BY <1>2, <3>1, <3>2 DEF RotateRead
  <2> QED BY <1>2, <2>2 DEF KeyTypeOK, RotateRead
<1>3. ASSUME NEW r \in Rotators, RotateUpdate(r) PROVE KeyTypeOK'
  <2>1. rotator[r].key \in Keys /\ rotator[r].key <= made
    BY <1>0, <1>3 DEF RotatorInv, RotateUpdate, Keys
  <2>2. keyStatus' \in [Keys -> {"none", "active", "rotating", "retired"}] /\ left' \in [Keys -> Hours]
    BY <1>0, <1>3 DEF KeyTypeOK, RotateUpdate
  <2>3. \A j \in Keys : keyStatus'[j] = "none" <=> j > made
    BY <1>0, <1>3, <2>1 DEF KeyTypeOK, RotateUpdate, Keys
  <2>4. rotator' \in Rot(made)
    BY <1>0, <1>3 DEF RotateUpdate, NoKey
  <2> QED BY <1>3, <2>2, <2>3, <2>4 DEF KeyTypeOK, RotateUpdate
<1>4. ASSUME NEW r \in Rotators, RotateGenerate(r) PROVE KeyTypeOK'
  <2>1. made' = made + 1 /\ made' \in Keys /\ 0..made \subseteq 0..made' /\ 0 \in 0..made'
    BY <1>0, <1>4 DEF RotateGenerate, Keys
  <2>2. keyStatus' \in [Keys -> {"none", "active", "rotating", "retired"}]
    BY <1>4 DEF KeyTypeOK, RotateGenerate
  <2>3. \A j \in Keys : keyStatus'[j] = "none" <=> j > made'
    BY <1>0, <1>4, <2>1 DEF KeyTypeOK, RotateGenerate, Keys
  <2>4. notAfter' \in [Keys -> Nat]
    <3>1. hour + KeyTTL \in Nat
      BY <1>0 DEF Hours
    <3> QED BY <1>4, <3>1 DEF KeyTypeOK, RotateGenerate
  <2>5. rotator' \in Rot(made')
    BY <1>0, <1>4, <2>1 DEF RotateGenerate, IdleRotator, NoKey
  <2>6. issuer' \in Iss(made')
    BY <1>0, <1>4, <2>1 DEF RotateGenerate
  <2> QED BY <1>4, <2>1, <2>2, <2>3, <2>4, <2>5, <2>6 DEF KeyTypeOK, RotateGenerate
<1>5. ASSUME NEW r \in Rotators, RotateFails(r) PROVE KeyTypeOK'
  <2>1. rotator' \in Rot(made)
    BY <1>0, <1>5 DEF RotateFails, IdleRotator, NoKey
  <2> QED BY <1>5, <2>1 DEF KeyTypeOK, RotateFails
<1>6. ASSUME NEW k \in Keys, Retire(k) PROVE KeyTypeOK'
  <2>1. keyStatus' \in [Keys -> {"none", "active", "rotating", "retired"}]
    BY <1>6 DEF KeyTypeOK, Retire
  <2>2. \A j \in Keys : keyStatus'[j] = "none" <=> j > made
    BY <1>6 DEF KeyTypeOK, Retire
  <2> QED BY <1>6, <2>1, <2>2 DEF KeyTypeOK, Retire
<1>7. ASSUME NEW i \in Issuers, IssueLookup(i) PROVE KeyTypeOK'
  <2>1. PICK k \in ActiveKeys : issuer' = [issuer EXCEPT ![i] = [key |-> k, at |-> hour]]
    BY <1>7 DEF IssueLookup
  <2>2. k \in 0..made
    BY <1>0 DEF KeyTypeOK, ActiveKeys, Keys
  <2>3. issuer' \in Iss(made)
    BY <1>0, <2>1, <2>2
  <2> QED BY <1>7, <2>3 DEF KeyTypeOK, IssueLookup
<1>8. ASSUME NEW i \in Issuers, IssueSign(i) PROVE KeyTypeOK'
  <2>1. issuer[i].key \in Keys /\ issuer[i].at \in Hours
    BY <1>0, <1>8 DEF IssueSign, NoKey, Keys
  <2>2. hour + AccessTTL \in Nat /\ hour + RefreshTTL \in Nat
    BY <1>0 DEF Hours
  <2>3. tokens' \subseteq Token
    BY <1>8, <2>1, <2>2 DEF KeyTypeOK, IssueSign, Token
  <2>4. issuer' \in Iss(made)
    BY <1>0, <1>8 DEF IssueSign, IdleIssuer, NoKey, Hours
  <2> QED BY <1>8, <2>3, <2>4 DEF KeyTypeOK, IssueSign
<1> QED
  BY <1>1, <1>2, <1>3, <1>4, <1>5, <1>6, <1>7, <1>8 DEF KeyNext

(* The key a rotator holds keeps existing.                                 *)
LEMMA RotatorsKept ==
  ASSUME KeyTypeOK, RotatorInv, KeyNext PROVE RotatorInv'
<1> USE DEF keystore
<1>0. made \in Nat /\ DOMAIN rotator = Rotators /\ \A k \in ActiveKeys : k \in 1..made
  BY Constants DEF KeyTypeOK, ActiveKeys, Keys
<1>1. ASSUME NEW r \in Rotators, RotateRead(r) PROVE RotatorInv'
  BY <1>0, <1>1 DEF RotatorInv, RotateRead
<1>2. ASSUME NEW r \in Rotators, RotateUpdate(r) PROVE RotatorInv'
  BY <1>0, <1>2 DEF RotatorInv, RotateUpdate
<1>3. ASSUME NEW r \in Rotators, RotateGenerate(r) PROVE RotatorInv'
  BY <1>0, <1>3 DEF RotatorInv, RotateGenerate, IdleRotator
<1>4. ASSUME NEW r \in Rotators, RotateFails(r) PROVE RotatorInv'
  BY <1>0, <1>4 DEF RotatorInv, RotateFails, IdleRotator
<1>5. rotator' = rotator /\ made' = made => RotatorInv'
  BY DEF RotatorInv
<1> QED
  BY <1>1, <1>2, <1>3, <1>4, <1>5 DEF KeyNext, KeyTick, Retire, IssueLookup, IssueSign

(* Time passes only while no active key is due for rotation, and a new key *)
(* has all of its lifetime before it.                                      *)
LEMMA ActiveKept ==
  ASSUME Scheduled, KeyTypeOK, RotatorInv, ActiveInv, KeyNext PROVE ActiveInv'
<1> USE Constants DEF keystore
<1>0. /\ hour \in Nat /\ made \in Nat /\ keyStatus \in [Keys -> {"none", "active", "rotating", "retired"}]
      /\ notAfter \in [Keys -> Nat]
  BY DEF KeyTypeOK, Hours, Keys
<1>1. CASE KeyTick
  BY <1>0, <1>1 DEF ActiveInv, KeyTick, RotationDue, ActiveKeys
<1>2. ASSUME NEW r \in Rotators, RotateUpdate(r) PROVE ActiveInv'
  BY <1>0, <1>2 DEF ActiveInv, RotateUpdate
<1>3. ASSUME NEW r \in Rotators, RotateGenerate(r) PROVE ActiveInv'
  <2> SUFFICES ASSUME NEW k \in Keys, keyStatus'[k] = "active" PROVE hour + Margin <= notAfter'[k]
    BY <1>3 DEF ActiveInv, RotateGenerate
  <2>1. CASE k = made + 1
    BY <1>0, <1>3, <2>1 DEF RotateGenerate, Scheduled
  <2>2. CASE k # made + 1
    BY <1>0, <1>3, <2>2 DEF RotateGenerate, ActiveInv
  <2> QED BY <2>1, <2>2
<1>4. ASSUME NEW k \in Keys, Retire(k) PROVE ActiveInv'
  BY <1>0, <1>4 DEF ActiveInv, Retire
<1>5. UNCHANGED <<hour, keystore>> => ActiveInv'
  BY DEF ActiveInv
<1> QED
  BY <1>1, <1>2, <1>3, <1>4, <1>5 DEF KeyNext, RotateRead, RotateFails, IssueLookup, IssueSign

(* No step takes a key away from those who looked it up: a demotion, even  *)
(* a late one, comes after the lookup, and a retirement an overlap later.  *)
LEMMA KeptKept ==
  ASSUME Scheduled, KeyTypeOK, RotatorInv, KeyNext, NEW k, NEW at, Kept(k, at) PROVE Kept(k, at)'
<1> USE Constants DEF keystore
<1>0. /\ hour \in Nat /\ made \in Nat /\ made <= MaxKeys
      /\ keyStatus \in [Keys -> {"none", "active", "rotating", "retired"}]
      /\ notAfter \in [Keys -> Nat] /\ left \in [Keys -> Nat] /\ k \in Keys /\ at \in Nat
  BY DEF KeyTypeOK, Hours, Keys, Kept
<1>1. CASE KeyTick
  BY <1>0, <1>1 DEF Kept, KeyTick
<1>2. ASSUME NEW r \in Rotators, RotateUpdate(r) PROVE Kept(k, at)'
  <2>1. /\ hour' = hour /\ made' = made /\ notAfter' = notAfter
        /\ k = rotator[r].key => keyStatus'[k] = "rotating" /\ left'[k] = hour
        /\ k # rotator[r].key => keyStatus'[k] = keyStatus[k] /\ left'[k] = left[k]
    BY <1>0, <1>2 DEF RotateUpdate, KeyTypeOK
  <2> QED BY <1>0, <2>1 DEF Kept
<1>3. ASSUME NEW r \in Rotators, RotateGenerate(r) PROVE Kept(k, at)'
  <2>1. /\ hour' = hour /\ made' = made + 1 /\ left' = left
        /\ keyStatus'[k] = keyStatus[k] /\ notAfter'[k] = notAfter[k]
    BY <1>0, <1>3 DEF RotateGenerate, Kept
  <2> QED BY <1>0, <2>1 DEF Kept
<1>4. ASSUME NEW j \in Keys, Retire(j) PROVE Kept(k, at)'
  <2>1. /\ hour' = hour /\ made' = made /\ notAfter' = notAfter /\ left' = left
        /\ k # j => keyStatus'[k] = keyStatus[k]
        /\ k = j => keyStatus[k] = "rotating" /\ keyStatus'[k] = "retired" /\ left[k] + Overlap <= hour
    BY <1>0, <1>4 DEF Retire, OverlapPassed
  <2> QED BY <1>0, <2>1 DEF Kept
<1>5. UNCHANGED <<hour, keystore>> => Kept(k, at)'
  BY DEF Kept
<1> QED
  BY <1>1, <1>2, <1>3, <1>4, <1>5 DEF KeyNext, RotateRead, RotateFails, IssueLookup, IssueSign

(* A lookup yields an active key; the tokens carry the issuer's lookup.    *)
LEMMA NewLookups ==
  ASSUME KeyTypeOK, KeyNext, NEW l \in Lookups'
  PROVE  l \in Lookups \/ \E k \in ActiveKeys : l = <<k, hour>>
<1>0. DOMAIN issuer = Issuers
  BY DEF KeyTypeOK
<1>1. CASE UNCHANGED <<issuer, tokens>>
  BY <1>1 DEF Lookups
<1>2. ASSUME NEW i \in Issuers, IssueLookup(i)
      PROVE  l \in Lookups \/ \E k \in ActiveKeys : l = <<k, hour>>
  <2>1. PICK k \in ActiveKeys : issuer' = [issuer EXCEPT ![i] = [key |-> k, at |-> hour]]
    BY <1>2 DEF IssueLookup
  <2>2. /\ issuer'[i].key = k /\ issuer'[i].at = hour /\ tokens' = tokens
        /\ \A j \in Issuers \ {i} : issuer'[j] = issuer[j]
    BY <1>0, <1>2, <2>1 DEF IssueLookup
  <2> QED BY <2>2 DEF Lookups
<1>3. ASSUME NEW i \in Issuers, IssueSign(i)
      PROVE  l \in Lookups
  <2>1. \A t \in tokens' : \/ t \in tokens
                           \/ t.key = issuer[i].key /\ t.at = issuer[i].at
    BY <1>3 DEF IssueSign
  <2>2. issuer'[i].key = NoKey /\ \A j \in Issuers \ {i} : issuer'[j] = issuer[j]
    BY <1>0, <1>3 DEF IssueSign, IdleIssuer
  <2>3. issuer[i].key # NoKey
    BY <1>3 DEF IssueSign
  <2> QED BY <2>1, <2>2, <2>3 DEF Lookups
<1> QED
  BY <1>1, <1>2, <1>3
  DEF KeyNext, KeyTick, RotateRead, RotateUpdate, RotateGenerate, RotateFails, Retire

(* A key is looked up while active, hence at least Margin before its end.  *)
LEMMA IssuedKept ==
  ASSUME Scheduled, IndInv, KeyNext, NEW l \in Lookups' PROVE Kept(l[1], l[2])'
<1> USE DEF IndInv
<1>1. CASE l \in Lookups
  BY <1>1, KeptKept
<1>2. ASSUME NEW k \in ActiveKeys, l = <<k, hour>> PROVE Kept(l[1], l[2])'
  <2>1. l[1] = k /\ l[2] = hour
    BY <1>2
  <2>2. /\ hour \in Hours /\ hour \in Nat /\ k \in Keys /\ k \in 1..made
        /\ keyStatus[k] = "active" /\ notAfter[k] \in Nat
    BY Constants DEF KeyTypeOK, ActiveKeys, Keys, Hours
  <2>3. hour + Margin <= notAfter[k]
    BY <2>2 DEF ActiveInv
  <2>4. Kept(l[1], l[2])
    BY <2>1, <2>2, <2>3, Constants DEF Kept, Scheduled
  <2> QED BY <2>4, KeptKept
<1> QED BY <1>1, <1>2, NewLookups

-----------------------------------------------------------------------------
(* The invariant holds throughout, for callers on schedule.                *)
THEOREM Inductive == Scheduled => (KeySpec => []IndInv)
<1> SUFFICES ASSUME Scheduled PROVE KeySpec => []IndInv
  OBVIOUS
<1>1. KeyInit => IndInv
  BY InitIndInv
<1>2. IndInv /\ [KeyNext]_keyVars => IndInv'
  <2> SUFFICES ASSUME IndInv, [KeyNext]_keyVars PROVE IndInv'
    OBVIOUS
  <2>1. CASE KeyNext
    BY <2>1, TypesKept, RotatorsKept, ActiveKept, IssuedKept DEF IndInv
  <2>2. CASE UNCHANGED keyVars
    BY <2>2 DEF keyVars, keystore, IndInv, KeyTypeOK, RotatorInv, ActiveInv, Lookups, Kept
  <2> QED BY <2>1, <2>2
<1> QED
  BY <1>1, <1>2, PTL DEF KeySpec

(* types.go: a rotating key is kept "so in-flight tokens verify cleanly".  *)
(* Whatever the lifetimes of keys and of access and refresh tokens, and    *)
(* however many callers rotate, retire and issue at once: if every key is  *)
(* rotated at least an overlap before its NotAfter and kept for the        *)
(* overlap, a token that has not expired verifies for the overlap after    *)
(* its key was looked up.                                                  *)
THEOREM TokensVerify == Scheduled => (KeySpec => []TokensVerifyInOverlap)
<1>1. IndInv => TokensVerifyInOverlap
  <2> SUFFICES ASSUME IndInv, NEW t \in tokens, hour < t.exp, hour < t.at + Overlap
               PROVE  VerifyToken(t)
    BY DEF TokensVerifyInOverlap
  <2>1. KeyTypeOK /\ Kept(t.key, t.at)
    <3>1. <<t.key, t.at>> \in Lookups
      BY DEF Lookups
    <3> QED BY <3>1 DEF IndInv
  <2>2. t.key \in Keys /\ t.key \in 1..made /\ t.at \in Nat /\ hour \in Nat /\ made \in Nat
    BY <2>1, Constants DEF Kept, KeyTypeOK, Keys, Hours
  <2>3. notAfter[t.key] \in Nat /\ keyStatus[t.key] # "none"
    BY <2>1, <2>2 DEF KeyTypeOK
  <2>4. hour <= notAfter[t.key] /\ keyStatus[t.key] # "retired"
    BY <2>1, <2>2, <2>3, Constants DEF Kept
  <2> QED
    BY <2>2, <2>3, <2>4 DEF VerifyToken, PublishKeys, IsVerifyable
<1> QED
  BY <1>1, Inductive, PTL
=============================================================================

------------------------------ MODULE Denylist ------------------------------
(***************************************************************************)
(* What the revocation store promises its callers: a set of revoked token  *)
(* ids that survives restarts, in which a token stays until it expired.    *)
(***************************************************************************)
EXTENDS Naturals

CONSTANTS Tokens, Expiry

VARIABLES revoked, clock

DenylistInit == revoked = {} /\ clock = 0

Add(j) == revoked' = revoked \cup {j} /\ UNCHANGED clock

Expire(S) ==
  /\ \A j \in S : Expiry[j] < clock
  /\ revoked' = revoked \ S
  /\ UNCHANGED clock

Pass == clock' = clock + 1 /\ UNCHANGED revoked

DenylistNext ==
  \/ \E j \in Tokens : Add(j)
  \/ \E S \in SUBSET revoked : Expire(S)
  \/ Pass

DenylistSpec == DenylistInit /\ [][DenylistNext]_<<revoked, clock>>
=============================================================================

------------------------- MODULE CanaryTokensProofs -------------------------
(***************************************************************************)
(* For any number of events that touch a token and any patches: the bounds *)
(* of the trigger count, and that saving alerts undoes no triage.          *)
(***************************************************************************)
EXTENDS CanaryTokens, FiniteSetTheorems, TLAPS

Types ==
  /\ callback \in [AlertEvents -> {"none", "find", "save", "sink", "done"}]
  /\ token \in [count : Nat, source : SUBSET Hits]
  /\ found \in [Hits -> Nat]
  /\ alertBucket \in [AlertEvents -> Alert \cup {NoAlert}]
  /\ patches \in 0..MaxPatches
  /\ saved \subseteq Hits
  /\ overlapped \in BOOLEAN

\* A hit is recorded once, by the save that ends its RecordTrigger.
SavedOnce == \A h \in saved : callback[<<"canary", h>>] \in {"sink", "done"}

\* What a hit has read is no more than the hits recorded, and still the
\* token's count if no save fell in between.
Reads ==
  \A h \in Hits : Saving(h) =>
    found[h] <= Cardinality(saved) /\ (~ overlapped => found[h] = token.count)

\* An alert is saved by the last step of its own callback.
SinkOnce == \A a \in AlertEvents : alertBucket[a] # NoAlert => callback[a] = "done"

Sourced == token.count = 0 <=> token.source = {}

CanaryInv == Types /\ SavedOnce /\ Reads /\ CountBounds /\ SinkOnce /\ Sourced

-----------------------------------------------------------------------------
\* The canary callback of a hit is an alert event.
LEMMA CanaryEvents == ASSUME NEW h \in Hits PROVE <<"canary", h>> \in AlertEvents
BY DEF AlertEvents, Rules

\* The recorded hits are finitely many, and a new one counts one more.
LEMMA SavedFinite ==
  ASSUME Types
  PROVE  /\ IsFiniteSet(saved) /\ Cardinality(saved) \in Nat
         /\ \A h \in Hits : h \notin saved => Cardinality(saved \cup {h}) = Cardinality(saved) + 1
<1>1. IsFiniteSet(saved)
  BY CanaryAssumption, FS_Subset DEF Types
<1> QED BY <1>1, FS_CardinalityType, FS_AddElement

\* Nothing has happened yet.
LEMMA InitCanaryInv == CanaryInit => CanaryInv
<1> SUFFICES ASSUME CanaryInit PROVE CanaryInv
  OBVIOUS
<1>1. Types
  <2>1. 0 \in 0..MaxPatches
    <3>1. MaxPatches \in Nat
      BY CanaryAssumption
    <3> QED BY <3>1
  <2> QED BY <2>1 DEF CanaryInit, Types
<1>2. SavedOnce /\ Reads /\ SinkOnce /\ Sourced
  BY CanaryEvents DEF CanaryInit, SavedOnce, Reads, SinkOnce, Sourced, Saving
<1>3. CountBounds
  BY FS_EmptySet DEF CanaryInit, CountBounds
<1> QED BY <1>1, <1>2, <1>3 DEF CanaryInv

\* A callback begins without touching token or alerts.
LEMMA AlertRaisedStep ==
  ASSUME CanaryInv, NEW a \in AlertEvents, AlertRaised(a)
  PROVE  CanaryInv'
<1> USE DEF CanaryInv, AlertRaised
<1>1. Types'
  BY DEF Types
<1>2. SavedOnce' /\ Reads'
  BY CanaryEvents DEF Types, SavedOnce, Reads, Saving
<1>3. SinkOnce'
  BY DEF Types, SinkOnce
<1>4. CountBounds' /\ Sourced'
  BY DEF CountBounds, Sourced
<1> QED BY <1>1, <1>2, <1>3, <1>4

\* A hit reads the count.
LEMMA FindTokenStep ==
  ASSUME CanaryInv, NEW h \in Hits, FindToken(h)
  PROVE  CanaryInv'
<1> USE CanaryEvents DEF CanaryInv, FindToken
<1>1. Types'
  BY DEF Types
<1>2. SavedOnce'
  BY DEF Types, SavedOnce
<1>3. Reads'
  <2>1. token.count <= Cardinality(saved)
    BY DEF CountBounds
  <2>2. \A g \in Hits : g # h => (Saving(g)' <=> Saving(g)) /\ found'[g] = found[g]
    BY DEF Types, Saving
  <2>3. found'[h] = token.count
    BY DEF Types
  <2> QED BY <2>1, <2>2, <2>3 DEF Reads
<1>4. SinkOnce'
  BY DEF Types, SinkOnce
<1>5. CountBounds' /\ Sourced'
  BY DEF CountBounds, Sourced
<1> QED BY <1>1, <1>2, <1>3, <1>4, <1>5

\* A save counts one more than was read, and makes the reads of others old.
LEMMA SaveTokenStep ==
  ASSUME CanaryInv, NEW h \in Hits, SaveToken(h)
  PROVE  CanaryInv'
<1>0. Types /\ Saving(h) /\ found[h] \in Nat
  BY DEF CanaryInv, Types, SaveToken
<1>1. h \notin saved
  BY <1>0 DEF CanaryInv, SavedOnce, Saving
<1>2. Cardinality(saved) \in Nat /\ Cardinality(saved \cup {h}) = Cardinality(saved) + 1
  BY <1>0, <1>1, SavedFinite
<1>3. /\ found[h] <= Cardinality(saved)
      /\ ~ overlapped => found[h] = token.count /\ token.count = Cardinality(saved)
  BY <1>0 DEF CanaryInv, Reads, CountBounds
<1>4. ~ Saving(h)' /\ \A g \in Hits : g # h => (Saving(g)' <=> Saving(g))
  BY <1>0, CanaryEvents DEF Types, Saving, SaveToken
<1>5. SinkOnce'
  BY <1>0, CanaryEvents DEF CanaryInv, Types, SinkOnce, SaveToken, Saving
<1>6. callback' \in [AlertEvents -> {"none", "find", "save", "sink", "done"}]
  BY <1>0, CanaryEvents DEF Types, SaveToken
<1>7. callback'[<<"canary", h>>] = "sink"
      /\ \A g \in Hits : g # h => callback'[<<"canary", g>>] = callback[<<"canary", g>>]
  BY <1>0, CanaryEvents DEF Types, SaveToken
<1>8. CASE UNCHANGED <<token, saved, overlapped>>
  <2>1. Types' /\ SavedOnce'
    BY <1>0, <1>6, <1>7, <1>8 DEF CanaryInv, Types, SavedOnce, SaveToken
  <2>2. Reads'
    BY <1>4, <1>8 DEF CanaryInv, Reads, SaveToken
  <2>3. CountBounds' /\ Sourced'
    BY <1>8 DEF CanaryInv, CountBounds, Sourced
  <2> QED BY <1>5, <2>1, <2>2, <2>3 DEF CanaryInv
<1>9. CASE /\ token' = [count |-> found[h] + 1, source |-> {h}]
           /\ saved' = saved \cup {h}
           /\ overlapped' = (overlapped \/ \E g \in Hits \ {h} : Saving(g))
  <2>1. Types'
    BY <1>0, <1>6, <1>9 DEF Types, SaveToken
  <2>2. SavedOnce'
    BY <1>0, <1>7, <1>9 DEF CanaryInv, Types, SavedOnce
  <2>3. Reads'
    <3> SUFFICES ASSUME NEW g \in Hits, Saving(g)'
                 PROVE  found'[g] <= Cardinality(saved') /\ overlapped'
      BY DEF Reads
    <3>1. g # h /\ Saving(g) /\ found'[g] = found[g] /\ found[g] \in Nat
      BY <1>0, <1>4 DEF Types, SaveToken
    <3>2. found[g] <= Cardinality(saved)
      BY <3>1 DEF CanaryInv, Reads
    <3>3. overlapped'
      BY <1>9, <3>1
    <3> QED BY <1>2, <1>9, <3>1, <3>2, <3>3
  <2>4. CountBounds'
    <3>1. token'.count = found[h] + 1 /\ Cardinality(saved') = Cardinality(saved) + 1
      BY <1>2, <1>9
    <3>2. ~ overlapped' => ~ overlapped
      BY <1>9
    <3> QED BY <1>0, <1>2, <1>3, <3>1, <3>2 DEF CountBounds
  <2>5. Sourced'
    BY <1>0, <1>9 DEF Sourced
  <2> QED BY <1>5, <2>1, <2>2, <2>3, <2>4, <2>5 DEF CanaryInv
<1> QED BY <1>8, <1>9 DEF SaveToken

\* An alert is stored under the identifier of its own callback.
LEMMA AlertSinkStep ==
  ASSUME CanaryInv, NEW a \in AlertEvents, AlertSink(a)
  PROVE  CanaryInv'
<1> USE DEF CanaryInv, AlertSink, alertID
<1>1. [status |-> "NEW", note |-> ""] \in Alert
  BY DEF Alert, Statuses, Notes
<1>2. Types'
  BY <1>1 DEF Types
<1>3. SavedOnce' /\ Reads'
  BY CanaryEvents DEF Types, SavedOnce, Reads, Saving
<1>4. SinkOnce'
  BY DEF Types, SinkOnce
<1>5. CountBounds' /\ Sourced'
  BY DEF CountBounds, Sourced
<1> QED BY <1>2, <1>3, <1>4, <1>5

\* A patch keeps what it does not set, and sets nothing to the empty string.
LEMMA Patched ==
  ASSUME CanaryInv, NEW a \in AlertEvents, NEW p \in Patches, UpdateAlert(a, p)
  PROVE  /\ alertBucket[a] \in Alert
         /\ alertBucket'[a] \in Alert
         /\ alertBucket'[a].status = IF p.status # "" THEN p.status ELSE alertBucket[a].status
         /\ alertBucket'[a].note = IF p.note # "" THEN p.note ELSE alertBucket[a].note
         /\ \A b \in AlertEvents : b # a => alertBucket'[b] = alertBucket[b]
<1>1. alertBucket \in [AlertEvents -> Alert \cup {NoAlert}]
  BY DEF CanaryInv, Types
<1>2. alertBucket[a] \in Alert
  BY <1>1 DEF UpdateAlert
<1>3. p.status \in Statuses \cup {""} /\ p.note \in Notes
  BY CanaryAssumption DEF Notes
<1>4. alertBucket[a].status \in Statuses /\ alertBucket[a].note \in Notes
  BY <1>2 DEF Alert
<1>5. alertBucket' = [alertBucket EXCEPT ![a] =
        [status |-> IF p.status # "" THEN p.status ELSE alertBucket[a].status,
         note |-> IF p.note # "" THEN p.note ELSE alertBucket[a].note]]
  BY DEF UpdateAlert
<1> QED BY <1>1, <1>2, <1>3, <1>4, <1>5 DEF Alert

\* A patch edits a saved alert and nothing else.
LEMMA UpdateAlertStep ==
  ASSUME CanaryInv, NEW a \in AlertEvents, NEW p \in Patches, UpdateAlert(a, p)
  PROVE  CanaryInv'
<1>1. alertBucket' \in [AlertEvents -> Alert \cup {NoAlert}]
  BY Patched DEF CanaryInv, Types, UpdateAlert
<1>2. patches' \in 0..MaxPatches
  <2>1. patches \in 0..MaxPatches /\ patches < MaxPatches /\ patches' = patches + 1
    BY DEF CanaryInv, Types, UpdateAlert
  <2>2. MaxPatches \in Nat
    BY CanaryAssumption
  <2> QED BY <2>1, <2>2
<1>3. Types'
  BY <1>1, <1>2 DEF CanaryInv, Types, UpdateAlert
<1>4. SavedOnce' /\ Reads' /\ CountBounds' /\ Sourced'
  BY DEF CanaryInv, SavedOnce, Reads, Saving, CountBounds, Sourced, UpdateAlert
<1>5. SinkOnce'
  BY Patched DEF CanaryInv, SinkOnce, UpdateAlert
<1> QED BY <1>3, <1>4, <1>5 DEF CanaryInv

\* A crash ends the callbacks under way.
LEMMA CanaryCrashStep == ASSUME CanaryInv, CanaryCrash PROVE CanaryInv'
<1> USE CanaryEvents DEF CanaryInv, CanaryCrash
<1>1. Types'
  BY DEF Types
<1>2. SavedOnce' /\ Reads'
  BY DEF Types, SavedOnce, Reads, Saving
<1>3. SinkOnce'
  BY DEF Types, SinkOnce
<1>4. CountBounds' /\ Sourced'
  BY DEF CountBounds, Sourced
<1> QED BY <1>1, <1>2, <1>3, <1>4

-----------------------------------------------------------------------------
(* CanaryInv is inductive over callbacks, patches and crashes.             *)
THEOREM CanaryInductive == CanarySpec => []CanaryInv
<1>1. ASSUME CanaryInv, [CanaryNext]_canaryVars PROVE CanaryInv'
  <2>1. CASE UNCHANGED canaryVars
    BY <1>1, <2>1 DEF CanaryInv, Types, SavedOnce, Reads, Saving, CountBounds, SinkOnce, Sourced,
                      canaryVars
  <2>2. ASSUME NEW a \in AlertEvents, AlertRaised(a) \/ AlertSink(a) PROVE CanaryInv'
    BY <1>1, <2>2, AlertRaisedStep, AlertSinkStep
  <2>3. ASSUME NEW h \in Hits, FindToken(h) \/ SaveToken(h) PROVE CanaryInv'
    BY <1>1, <2>3, FindTokenStep, SaveTokenStep
  <2>4. ASSUME NEW a \in AlertEvents, NEW p \in Patches, UpdateAlert(a, p) PROVE CanaryInv'
    BY <1>1, <2>4, UpdateAlertStep
  <2>5. CASE CanaryCrash
    BY <1>1, <2>5, CanaryCrashStep
  <2> QED BY <1>1, <2>1, <2>2, <2>3, <2>4, <2>5 DEF CanaryNext
<1> QED BY <1>1, InitCanaryInv, PTL DEF CanarySpec

(* RecordTrigger's count: never more than the hits recorded, never zero    *)
(* again after one, and exact while no two hits overlap.                   *)
THEOREM CountIsBounded == CanarySpec => []CountBounds
<1>1. CanaryInv => CountBounds
  BY DEF CanaryInv
<1> QED BY <1>1, CanaryInductive, PTL

(* alertSink and UpdateAlert: no step turns an alert an analyst has moved  *)
(* on back to NEW or drops its note, as long as no patch asks for NEW.     *)
THEOREM TriageSticks ==
  (\A p \in Patches : p.status # "NEW") => (CanarySpec => TriageKept)
<1> SUFFICES ASSUME \A p \in Patches : p.status # "NEW" PROVE CanarySpec => TriageKept
  OBVIOUS
<1> DEFINE Kept == \A a \in AlertEvents : alertBucket[a] # NoAlert =>
                     /\ alertBucket[a].status # "NEW" => alertBucket'[a].status # "NEW"
                     /\ alertBucket[a].note # "" => alertBucket'[a].note # ""
<1>1. ASSUME CanaryInv, CanaryNext PROVE Kept
  <2>1. CASE UNCHANGED alertBucket
    BY <2>1
  <2>2. ASSUME NEW a \in AlertEvents, AlertSink(a) PROVE Kept
    BY <1>1, <2>2 DEF AlertSink, alertID, CanaryInv, Types, SinkOnce
  <2>3. ASSUME NEW a \in AlertEvents, NEW p \in Patches, UpdateAlert(a, p) PROVE Kept
    BY <1>1, <2>3, Patched
  <2> QED BY <1>1, <2>1, <2>2, <2>3 DEF CanaryNext, AlertRaised, FindToken, SaveToken, CanaryCrash
<1>2. CanaryInv /\ [CanaryNext]_canaryVars => [Kept]_canaryVars
  BY <1>1
<1> QED BY <1>2, CanaryInductive, PTL DEF CanarySpec, TriageKept
=============================================================================

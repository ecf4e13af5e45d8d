---------------------------- MODULE CanaryTokens ----------------------------
(***************************************************************************)
(* What an alert callback does before it pushes the alert (internal/app/   *)
(* app.go), and the analysts' side: canary.RecordTrigger reads a token in  *)
(* one transaction and saves it in another, alertSink saves the alert      *)
(* under its own identifier, PATCH /api/alerts/{id} edits it in a single   *)
(* transaction (internal/canary, internal/storage/db/repository.go,        *)
(* internal/api/alerts_handler.go).                                        *)
(*                                                                         *)
(* There is one planted token; an event may trip it and may also match     *)
(* other rules.  Callbacks run in the goroutine of their event's analyzer, *)
(* so those of different events interleave.                                *)
(***************************************************************************)
EXTENDS Naturals, FiniteSets

CONSTANTS
  Hits,       \* events that touch the token
  NoAlert,    \* the absence of a record in the alerts bucket
  Patches,    \* bodies of PATCH requests; "" is a field left out
  MaxPatches  \* bound on the PATCH requests

Statuses == {"NEW", "TRIAGING", "CONTAINED", "CLOSED"}
Notes == {""} \cup {p.note : p \in Patches}
Alert == [status : Statuses, note : Notes]

ASSUME CanaryAssumption ==
  /\ IsFiniteSet(Hits) /\ MaxPatches \in Nat
  /\ Patches \subseteq [status : Statuses \cup {""}, note : STRING]
  /\ NoAlert \notin Alert

\* The engine's canary rule, and any other rule of it or of the correlator.
Rules == {"canary", "other"}
AlertEvents == Rules \X Hits

VARIABLES
  callback,     \* alert event -> the step its callback has reached
  token,        \* the stored token: its TriggerCount and LastTriggerSource
  found,        \* hit -> the TriggerCount its RecordTrigger read
  alertBucket,  \* identifier -> the alert saved under it, or NoAlert
  patches,      \* PATCH requests served
  saved,        \* history: hits whose token save committed
  overlapped    \* history: some save fell between another hit's read and save

canaryVars == <<callback, token, found, alertBucket, patches, saved, overlapped>>

CanaryInit ==
  /\ callback = [a \in AlertEvents |-> "none"]
  /\ token = [count |-> 0, source |-> {}]
  /\ found = [h \in Hits |-> 0]
  /\ alertBucket = [a \in AlertEvents |-> NoAlert]
  /\ patches = 0 /\ saved = {} /\ overlapped = FALSE

-----------------------------------------------------------------------------
(* RecordTrigger.                                                          *)

\* The callback begins: RecordTrigger returns at once for another rule, and
\* if the event was not persisted before it was analyzed.
AlertRaised(a) ==
  /\ callback[a] = "none"
  /\ \/ a[1] = "canary" /\ callback' = [callback EXCEPT ![a] = "find"]
     \/ callback' = [callback EXCEPT ![a] = "sink"]
  /\ UNCHANGED <<token, found, alertBucket, patches, saved, overlapped>>

Saving(h) == callback[<<"canary", h>>] = "save"

\* FindCanaryTokenByToken, in a transaction of its own.
FindToken(h) ==
  /\ callback[<<"canary", h>>] = "find"
  /\ callback' = [callback EXCEPT ![<<"canary", h>>] = "save"]
  /\ found' = [found EXCEPT ![h] = token.count]
  /\ UNCHANGED <<token, alertBucket, patches, saved, overlapped>>

\* The hit counted twice.
SaveTokenTwice(h) ==
  /\ Saving(h)
  /\ callback' = [callback EXCEPT ![<<"canary", h>>] = "sink"]
  /\ \/ /\ token' = [count |-> found[h] + 2, source |-> {h}]
        /\ saved' = saved \cup {h}
        /\ overlapped' = (overlapped \/ \E g \in Hits \ {h} : Saving(g))
     \/ UNCHANGED <<token, saved, overlapped>>
  /\ UNCHANGED <<found, alertBucket, patches>>

\* SaveCanaryToken writes the whole record read before; its error is dropped.
SaveToken(h) ==
  /\ Saving(h)
  /\ callback' = [callback EXCEPT ![<<"canary", h>>] = "sink"]
  /\ \/ /\ token' = [count |-> found[h] + 1, source |-> {h}]
        /\ saved' = saved \cup {h}
        /\ overlapped' = (overlapped \/ \E g \in Hits \ {h} : Saving(g))
     \/ UNCHANGED <<token, saved, overlapped>>
  /\ UNCHANGED <<found, alertBucket, patches>>

-----------------------------------------------------------------------------
(* The alert's record.                                                     *)

\* An alert named after the event that triggered it.
alertIDOfTrigger(a) == <<"canary", a[2]>>

\* The identifier is minted with the alert, in Evaluate and fireChainAlert.
alertID(a) == a

\* alertSink: SaveAlert upserts a NEW alert; a failure is only logged.  The
\* push that follows is EventPipeline's.
AlertSink(a) ==
  /\ callback[a] = "sink"
  /\ callback' = [callback EXCEPT ![a] = "done"]
  /\ alertBucket' \in {alertBucket,
                       [alertBucket EXCEPT ![alertID(a)] = [status |-> "NEW", note |-> ""]]}
  /\ UNCHANGED <<token, found, patches, saved, overlapped>>

\* UpdateAlert: read, patch and write in one transaction; no record, no change.
UpdateAlert(a, p) ==
  /\ patches < MaxPatches
  /\ patches' = patches + 1
  /\ alertBucket[a] # NoAlert
  /\ alertBucket' = [alertBucket EXCEPT
       ![a] = [status |-> IF p.status # "" THEN p.status ELSE @.status,
               note |-> IF p.note # "" THEN p.note ELSE @.note]]
  /\ UNCHANGED <<callback, token, found, saved, overlapped>>

\* The process dies; callbacks in progress are gone.
CanaryCrash ==
  /\ callback' = [a \in AlertEvents |-> IF callback[a] = "none" THEN "none" ELSE "done"]
  /\ UNCHANGED <<token, found, alertBucket, patches, saved, overlapped>>

CanaryNext ==
  \/ \E a \in AlertEvents : AlertRaised(a) \/ AlertSink(a)
  \/ \E h \in Hits : FindToken(h) \/ SaveToken(h)
  \/ \E a \in AlertEvents, p \in Patches : UpdateAlert(a, p)
  \/ CanaryCrash

CanarySpec == CanaryInit /\ [][CanaryNext]_canaryVars

-----------------------------------------------------------------------------
(* Properties.                                                             *)

(* Type invariant; a token has a source exactly when it has a count, so    *)
(* "never triggered" and "triggered by" never contradict each other.       *)
CanaryTypeOK ==
  /\ callback \in [AlertEvents -> {"none", "find", "save", "sink", "done"}]
  /\ found \in [Hits -> Nat] /\ token.count \in Nat /\ patches \in 0..MaxPatches
  /\ alertBucket \in [AlertEvents -> Alert \cup {NoAlert}]
  /\ token.count = 0 <=> token.source = {}

(* Counting is a read and a write in two transactions, so hits that        *)
(* overlap may be counted once and the count may even fall.  What remains: *)
(* it never exceeds the hits recorded, one recorded hit keeps it above     *)
(* zero for ever, and hits that did not overlap are counted exactly.       *)
CountBounds ==
  /\ token.count <= Cardinality(saved)
  /\ saved # {} => token.count >= 1
  /\ ~ overlapped => token.count = Cardinality(saved)

(* Triage sticks: however many rules fire for one event and in whatever    *)
(* order their callbacks run, saving an alert never turns one an analyst   *)
(* has moved on back to NEW, and never drops a note.                       *)
TriageKept ==
  [][\A a \in AlertEvents : alertBucket[a] # NoAlert =>
       /\ alertBucket[a].status # "NEW" => alertBucket'[a].status # "NEW"
       /\ alertBucket[a].note # "" => alertBucket'[a].note # ""]_canaryVars
=============================================================================

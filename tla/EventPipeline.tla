---------------------------- MODULE EventPipeline ----------------------------
(***************************************************************************)
(* Pipeline.PushNetworkEvent and what surrounds it in the application: the *)
(* analyzers it starts as goroutines and their alert callbacks, the        *)
(* WebSocket hub's bounded queue, the NATS publisher, and the subscriber   *)
(* for Neotron compliance messages (internal/events, internal/api/         *)
(* websocket.go, internal/app/app.go).                                     *)
(*                                                                         *)
(* An event is its type, where it came from and, for compliance messages,  *)
(* the fields that decide its type.  Every push runs in the goroutine of   *)
(* its caller, so pushes interleave stage by stage.                        *)
(***************************************************************************)
EXTENDS Integers, Sequences, FiniteSets

CONSTANTS
  NatsModes,  \* whether a NATS publisher, and the subscriber with it, is configured
  HubCap,     \* capacity of the hub's broadcast channel
  Inbound,    \* compliance messages the Neotron platform may publish
  MaxEvents,  \* bound on the events pushed
  MaxWire     \* bound on the NATS messages in flight

NoMsg == [subject |-> "none", severity |-> "none", passed |-> FALSE, by |-> "none"]
NeotronMsgs ==
  [subject : {"violation", "other"}, severity : {"high", "low"}, passed : BOOLEAN,
   by : {"neotron"}]

ASSUME EventPipelineAssumption ==
  /\ NatsModes \subseteq BOOLEAN
  /\ Inbound \subseteq NeotronMsgs
  /\ HubCap \in Nat /\ MaxEvents \in Nat /\ MaxWire \in Nat

Analyzers == {"engine", "chains", "observer"}

VARIABLES
  nats,       \* NATS is configured; fixed at boot
  ev,         \* the events pushed so far
  pc,         \* event -> the stage its push has reached
  signed,     \* events that carry a signature
  altered,    \* events whose Metadata changed after they were signed
  leaves,     \* the transparency log: events in append order
  stored,     \* events in the events bucket
  alerts,     \* events in the alerts bucket
  refused,    \* history: <<store, event>> whose transaction failed
  hub,        \* the hub's broadcast channel
  delivered,  \* history: events sent to WebSocket clients, and if intact
  wire,       \* NATS messages on neotron.compliance.>
  tasks       \* <<analyzer, event>> goroutines that have not finished

durable == <<leaves, stored, alerts, refused>>
vars == <<nats, ev, pc, signed, altered, durable, hub, delivered, wire, tasks>>

Ids == 1..MaxEvents
Pushed == 1..Len(ev)

Init ==
  /\ nats \in NatsModes
  /\ ev = <<>>
  /\ pc = [i \in Ids |-> "unused"]
  /\ signed = {} /\ altered = {}
  /\ leaves = <<>> /\ stored = {} /\ alerts = {} /\ refused = {}
  /\ hub = <<>> /\ delivered = {}
  /\ wire = <<>> /\ tasks = {}

\* A call of PushNetworkEvent begins: ID and timestamp are filled in.
Push(e) ==
  /\ Len(ev) < MaxEvents
  /\ ev' = Append(ev, e)
  /\ pc' = [pc EXCEPT ![Len(ev) + 1] = "new"]

\* A transaction of a store for event i commits or fails.
Attempt(store, i, commit, abort) ==
  \/ commit /\ UNCHANGED refused
  \/ abort /\ refused' = refused \cup {<<store, i>>}

-----------------------------------------------------------------------------
(* Sources of events.                                                      *)

\* What the subscriber finds in an event the pipeline itself exported: its
\* compliance fields are one level down, in "payload".
Exported == [subject |-> "other", severity |-> "none", passed |-> FALSE, by |-> "siem"]

\* A sensor (DNS, proxy, discovery, ...) pushes an event.
Sense ==
  /\ Push([type |-> "network", from |-> "sensor", parent |-> 0, msg |-> NoMsg])
  /\ UNCHANGED <<nats, signed, altered, durable, hub, delivered, wire, tasks>>

\* The Neotron platform publishes a compliance message.
NeotronPublishes(m) ==
  /\ nats /\ Len(wire) < MaxWire
  /\ wire' = Append(wire, m)
  /\ UNCHANGED <<nats, ev, pc, signed, altered, durable, hub, delivered, tasks>>

determineEventType(m) ==
  CASE m.subject = "violation" -> "alert"
    [] m.subject # "violation" /\ m.passed -> "compliance"
    [] m.subject # "violation" /\ ~ m.passed ->
         IF m.severity = "high" THEN "alert" ELSE "compliance"

\* handleComplianceEvent.
HandleComplianceEvent ==
  /\ wire # <<>>
  /\ wire' = Tail(wire)
  /\ Push([type |-> determineEventType(Head(wire)), from |-> "neotron",
           parent |-> 0, msg |-> Head(wire)])
  /\ UNCHANGED <<nats, signed, altered, durable, hub, delivered, tasks>>

-----------------------------------------------------------------------------
(* The stages of a push.                                                   *)

\* Enrich writes the window counters into Metadata, then the event is signed;
\* a failure leaves it unsigned.
Sign(i) ==
  /\ pc[i] = "new"
  /\ pc' = [pc EXCEPT ![i] = "signed"]
  /\ signed' \in {signed, signed \cup {i}}
  /\ UNCHANGED <<nats, ev, altered, durable, hub, delivered, wire, tasks>>

\* Criticality decided by the compliance fields alone.
isCriticalComplianceOnly(e) ==
  e.type = "compliance" /\ ~ e.msg.passed /\ e.msg.severity = "high"

isCriticalEvent(e) ==
  \/ e.type = "alert"
  \/ e.type = "compliance" /\ ~ e.msg.passed /\ e.msg.severity = "high"

\* A critical event becomes a leaf of the transparency log.
AppendLeaf(i) ==
  /\ pc[i] = "signed"
  /\ pc' = [pc EXCEPT ![i] = "logged"]
  /\ IF isCriticalEvent(ev[i])
     THEN Attempt("log", i, leaves' = Append(leaves, i), UNCHANGED leaves)
     ELSE UNCHANGED <<leaves, refused>>
  /\ UNCHANGED <<nats, ev, signed, altered, stored, alerts, hub, delivered, wire, tasks>>

\* repo.LogEvent.
LogEvent(i) ==
  /\ pc[i] = "logged"
  /\ pc' = [pc EXCEPT ![i] = "stored"]
  /\ Attempt("events", i, stored' = stored \cup {i}, UNCHANGED stored)
  /\ UNCHANGED <<nats, ev, signed, altered, leaves, alerts, hub, delivered, wire, tasks>>

\* A broadcast that waits for room in the channel.
BroadcastBlocks(i) ==
  /\ pc[i] = "stored"
  /\ Len(hub) < HubCap
  /\ pc' = [pc EXCEPT ![i] = "broadcast"]
  /\ hub' = Append(hub, i)
  /\ UNCHANGED <<nats, ev, signed, altered, durable, delivered, wire, tasks>>

\* A broadcast that does not wait for the events bucket.
BroadcastFirst(i) ==
  /\ pc[i] \in {"logged", "stored"}
  /\ pc' = [pc EXCEPT ![i] = "broadcast"]
  /\ hub' = IF Len(hub) < HubCap THEN Append(hub, i) ELSE hub
  /\ UNCHANGED <<nats, ev, signed, altered, durable, delivered, wire, tasks>>

\* A broadcast into a queue with no capacity.
BroadcastUnbounded(i) ==
  /\ pc[i] = "stored"
  /\ pc' = [pc EXCEPT ![i] = "broadcast"]
  /\ hub' = Append(hub, i)
  /\ UNCHANGED <<nats, ev, signed, altered, durable, delivered, wire, tasks>>

\* WSHub.Broadcast: a send that drops the message when the channel is full.
Broadcast(i) ==
  /\ pc[i] = "stored"
  /\ pc' = [pc EXCEPT ![i] = "broadcast"]
  /\ hub' = IF Len(hub) < HubCap THEN Append(hub, i) ELSE hub
  /\ UNCHANGED <<nats, ev, signed, altered, durable, delivered, wire, tasks>>

\* The NATS stage adds source and destination to the event's own Metadata map
\* and publishes it; a compliance event goes to neotron.compliance.siem.v1.
\* While the connection is down the message is dropped.
Publish(i) ==
  /\ pc[i] = "broadcast"
  /\ pc' = [pc EXCEPT ![i] = "published"]
  /\ altered' = IF nats THEN altered \cup {i} ELSE altered
  /\ \/ UNCHANGED wire
     \/ /\ nats /\ ev[i].type = "compliance" /\ Len(wire) < MaxWire
        /\ wire' = Append(wire, Exported)
  /\ UNCHANGED <<nats, ev, signed, durable, hub, delivered, tasks>>

\* One goroutine per analyzer, except for alerts; the push returns.
Spawn(i) ==
  /\ pc[i] = "published"
  /\ pc' = [pc EXCEPT ![i] = "done"]
  /\ tasks' = IF ev[i].type = "alert" THEN tasks ELSE tasks \cup (Analyzers \X {i})
  /\ UNCHANGED <<nats, ev, signed, altered, durable, hub, delivered, wire>>

-----------------------------------------------------------------------------
(* The analyzers, the hub and the process.                                 *)

\* No callback of task <<a, i>> is still pushing; the chain correlator holds its
\* mutex over the callback, so there it is no callback of any of its tasks.
CallbackReturned(a, i) ==
  \A c \in Pushed :
    ev[c].from = a /\ (a = "chains" \/ ev[c].parent = i) => pc[c] \in {"done", "lost"}

\* A finding becomes an alert.  The callbacks of the engine and of the chain
\* correlator save it to the alerts bucket first (alertSink); the observer
\* pushes it directly.
RaiseAlert(a, i) ==
  /\ <<a, i>> \in tasks /\ CallbackReturned(a, i)
  /\ Push([type |-> "alert", from |-> a, parent |-> i, msg |-> NoMsg])
  /\ IF a = "observer"
     THEN UNCHANGED <<alerts, refused>>
     ELSE Attempt("alerts", Len(ev) + 1, alerts' = alerts \cup {Len(ev) + 1},
                  UNCHANGED alerts)
  /\ UNCHANGED <<nats, signed, altered, leaves, stored, hub, delivered, wire, tasks>>

AnalysisDone(a, i) ==
  /\ <<a, i>> \in tasks /\ CallbackReturned(a, i)
  /\ tasks' = tasks \ {<<a, i>>}
  /\ UNCHANGED <<nats, ev, pc, signed, altered, durable, hub, delivered, wire>>

\* WSHub.Run: the message is encoded now, from the map the push shares with it.
HubDelivers ==
  /\ hub # <<>>
  /\ hub' = Tail(hub)
  /\ delivered' = delivered \cup {[id |-> Head(hub), intact |-> Head(hub) \notin altered]}
  /\ UNCHANGED <<nats, ev, pc, signed, altered, durable, wire, tasks>>

\* The process dies and comes back; so it does when the hub encodes the map
\* while Publish writes to it.
Crash ==
  /\ pc' = [i \in Ids |-> IF pc[i] \in {"unused", "done"} THEN pc[i] ELSE "lost"]
  /\ hub' = <<>> /\ wire' = <<>> /\ tasks' = {}
  /\ UNCHANGED <<nats, ev, signed, altered, durable, delivered>>

-----------------------------------------------------------------------------
Stage(i) ==
  Sign(i) \/ AppendLeaf(i) \/ LogEvent(i) \/ Broadcast(i) \/ Publish(i) \/ Spawn(i)

Next ==
  \/ Sense
  \/ \E m \in Inbound : NeotronPublishes(m)
  \/ HandleComplianceEvent
  \/ \E i \in Ids : Stage(i)
  \/ \E a \in Analyzers, i \in Ids : RaiseAlert(a, i) \/ AnalysisDone(a, i)
  \/ HubDelivers
  \/ Crash

Spec == Init /\ [][Next]_vars

\* The goroutine of a push runs; nothing is assumed of the hub or its clients.
FairSpec == Spec /\ \A i \in Ids : WF_vars(Stage(i))

-----------------------------------------------------------------------------
(* Properties.                                                             *)

Event ==
  [type : {"network", "compliance", "alert"}, from : Analyzers \cup {"sensor", "neotron"},
   parent : 0..MaxEvents, msg : NeotronMsgs \cup {NoMsg, Exported}]

(* Type invariant; the hub's queue keeps to its capacity.                  *)
TypeOK ==
  /\ nats \in NatsModes
  /\ Len(ev) <= MaxEvents /\ \A i \in Pushed : ev[i] \in Event
  /\ pc \in [Ids -> {"unused", "new", "signed", "logged", "stored", "broadcast",
                     "published", "done", "lost"}]
  /\ \A i \in Ids : pc[i] = "unused" <=> i > Len(ev)
  /\ signed \cup altered \cup stored \cup alerts \subseteq Pushed
  /\ \A k \in 1..Len(leaves) : leaves[k] \in Pushed
  /\ Len(hub) <= HubCap /\ Len(wire) <= MaxWire
  /\ tasks \subseteq Analyzers \X Pushed

IsLeaf(i) == \E k \in 1..Len(leaves) : leaves[k] = i

(* The audit record is at least as strong as the forensic one: an alert in *)
(* the events bucket is a leaf of the transparency log, unless its append  *)
(* failed; no event is logged twice, and network events never are.         *)
AlertsAreLogged ==
  /\ \A i \in stored : ev[i].type = "alert" => IsLeaf(i) \/ <<"log", i>> \in refused
  /\ \A j, k \in 1..Len(leaves) : leaves[j] = leaves[k] => j = k
  /\ \A k \in 1..Len(leaves) : ev[leaves[k]].type # "network"

(* models/event.go: "every event leaving the pipeline carries an Ed25519   *)
(* signature over its canonical bytes": what a WebSocket client receives   *)
(* of a signed event is what was signed.                                   *)
DeliveredAsSigned == \A d \in delivered : d.id \in signed => d.intact

\* What the stores hold of event i.
Recorded(i) ==
  /\ i \in stored \/ <<"events", i>> \in refused
  /\ isCriticalEvent(ev[i]) => IsLeaf(i) \/ <<"log", i>> \in refused

(* What a WebSocket client has been shown is on record, also after the     *)
(* process died with the push under way: the event is in the events bucket *)
(* and, if critical, a leaf of the transparency log, except where that     *)
(* very transaction failed (PushNetworkEvent logs the error and goes on).  *)
ShownIsRecorded == \A d \in delivered : Recorded(d.id)

(* A hub that never runs (a stalled client holds it up to 10 s per write)  *)
(* cannot hold up ingestion: every push finishes, or dies with the process.*)
PushReturns == \A i \in Ids : (pc[i] = "new") ~> (pc[i] \in {"done", "lost"})

(* neotron.go: the subscriber ingests what "the neotron platform (Python)  *)
(* publishes"; the pipeline does not ingest its own exports.               *)
OnlyNeotronIngested == \A i \in Pushed : ev[i].msg.by # "siem"
=============================================================================

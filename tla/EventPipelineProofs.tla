------------------------ MODULE EventPipelineProofs ------------------------
(***************************************************************************)
(* What every push through the pipeline keeps, for any number of events,   *)
(* any queue capacities and any compliance messages: alerts in the events  *)
(* bucket are in the transparency log, and what clients are shown is on    *)
(* record.                                                                 *)
(***************************************************************************)
EXTENDS EventPipeline, SequenceTheorems, TLAPS

Stages ==
  {"unused", "new", "signed", "logged", "stored", "broadcast", "published", "done", "lost"}

\* Stages in which the push is past the transparency log.
Past == {"logged", "stored", "broadcast", "published", "done"}

Pushes ==
  /\ ev \in Seq(Event) /\ Len(ev) <= MaxEvents
  /\ pc \in [Ids -> Stages]
  /\ \A i \in Ids : pc[i] = "unused" <=> i > Len(ev)

Kept == signed \cup altered \cup stored \cup alerts \subseteq Pushed

Queues ==
  /\ hub \in Seq(Ids) /\ Len(hub) <= HubCap
  /\ wire \in Seq(NeotronMsgs \cup {Exported}) /\ Len(wire) <= MaxWire
  /\ tasks \subseteq Analyzers \X Pushed

\* An event is in the log only once its push is past that stage, or was cut
\* off by a crash.
Leaves ==
  /\ leaves \in Seq(Nat)
  /\ \A k \in 1..Len(leaves) :
       /\ leaves[k] \in Pushed
       /\ pc[leaves[k]] \in Past \cup {"lost"}
       /\ ev[leaves[k]].type # "network"
  /\ \A j, k \in 1..Len(leaves) : leaves[j] = leaves[k] => j = k

\* The log comes before the store.
LogFirst ==
  /\ \A i \in Pushed : i \in stored \/ pc[i] \in Past =>
       (isCriticalEvent(ev[i]) => IsLeaf(i) \/ <<"log", i>> \in refused)
  /\ \A i \in stored : pc[i] \in Past \cup {"lost"}

\* Stages in which the push is past the events bucket.
Beyond == {"stored", "broadcast", "published", "done"}

\* What clients have been shown, or the hub is about to show them.
Shown == {hub[k] : k \in 1..Len(hub)} \cup {d.id : d \in delivered}

\* The store comes before the hub.
StoreFirst ==
  /\ \A i \in Pushed : pc[i] \in Beyond => i \in stored \/ <<"events", i>> \in refused
  /\ \A i \in Shown : i \in Pushed /\ Recorded(i)

PipelineInv ==
  nats \in NatsModes /\ Pushes /\ Kept /\ Queues /\ Leaves /\ LogFirst /\ StoreFirst

-----------------------------------------------------------------------------
\* The start of a push, from any source.
LEMMA PushStep ==
  ASSUME Pushes, NEW e \in Event, Push(e)
  PROVE  /\ Pushes'
         /\ Len(ev') = Len(ev) + 1
         /\ Len(ev) + 1 \in Ids
         /\ \A i \in Pushed : i \in Pushed' /\ ev'[i] = ev[i] /\ pc'[i] = pc[i]
         /\ pc'[Len(ev) + 1] = "new"
<1> USE EventPipelineAssumption
<1>1. /\ ev \in Seq(Event) /\ Len(ev) \in Nat
      /\ ev' = Append(ev, e) /\ Len(ev) < MaxEvents
      /\ pc \in [Ids -> Stages]
      /\ pc' = [pc EXCEPT ![Len(ev) + 1] = "new"]
      /\ \A i \in Ids : pc[i] = "unused" <=> i > Len(ev)
  BY DEF Pushes, Push
<1>2. /\ ev' \in Seq(Event) /\ Len(ev') = Len(ev) + 1
      /\ \A i \in 1..Len(ev) : ev'[i] = ev[i]
  BY <1>1, AppendProperties
<1>3. Len(ev) + 1 \in Ids
  BY <1>1 DEF Ids
<1>4. pc' \in [Ids -> Stages] /\ pc'[Len(ev) + 1] = "new"
  BY <1>1, <1>3 DEF Stages
<1>5. \A i \in Ids : pc'[i] = "unused" <=> i > Len(ev')
  BY <1>1, <1>2, <1>3 DEF Ids
<1>6. \A i \in Pushed : i \in Pushed' /\ ev'[i] = ev[i] /\ pc'[i] = pc[i]
  BY <1>1, <1>2 DEF Pushed, Ids
<1>7. Pushes'
  <2>1. Len(ev') <= MaxEvents
    BY <1>1, <1>2
  <2> QED BY <1>2, <1>4, <1>5, <2>1 DEF Pushes
<1> QED BY <1>2, <1>3, <1>4, <1>6, <1>7

\* A push goes on to its next stage.
LEMMA StageStep ==
  ASSUME Pushes, NEW i \in Ids, pc[i] # "unused", NEW s \in Stages \ {"unused"},
         pc' = [pc EXCEPT ![i] = s], UNCHANGED ev
  PROVE  Pushes' /\ Pushed' = Pushed /\ i \in Pushed
<1>1. Pushes'
  BY DEF Pushes
<1>2. i \in Pushed
  BY EventPipelineAssumption DEF Pushes, Pushed, Ids
<1> QED BY <1>1, <1>2 DEF Pushed

LEMMA InitPipelineInv == Init => PipelineInv
<1> SUFFICES ASSUME Init PROVE PipelineInv
  OBVIOUS
<1> USE EventPipelineAssumption
<1>1. Len(ev) = 0 /\ ev \in Seq(Event)
  BY DEF Init
<1>2. Pushes
  BY <1>1 DEF Init, Pushes, Stages, Ids
<1>3. Queues
  BY DEF Init, Queues
<1>4. Leaves
  <2>1. leaves \in Seq(Nat) /\ Len(leaves) = 0
    BY DEF Init
  <2> QED BY <2>1 DEF Leaves
<1>5. LogFirst
  <2>1. Pushed = {}
    BY <1>1 DEF Pushed
  <2> QED BY <2>1 DEF Init, LogFirst
<1>6. StoreFirst
  <2>1. Len(hub) = 0 /\ delivered = {} /\ Pushed = {}
    BY <1>1 DEF Init, Pushed
  <2> QED BY <2>1 DEF StoreFirst, Shown
<1> QED BY <1>2, <1>3, <1>4, <1>5, <1>6 DEF Init, PipelineInv, Kept

\* Records are kept, and an event joins those shown only from the stage after
\* the store.
LEMMA StoreKept ==
  ASSUME PipelineInv,
         \A i \in Pushed : i \in Pushed' /\ ev'[i] = ev[i] /\ (IsLeaf(i) => IsLeaf(i)'),
         \A i \in stored : i \in stored',
         \A x \in refused : x \in refused',
         \A i \in Pushed' : pc'[i] \in Beyond =>
           \/ i \in Pushed /\ pc[i] \in Beyond
           \/ i \in stored' \/ <<"events", i>> \in refused',
         \A i \in Shown' : i \in Shown \/ (i \in Pushed /\ pc[i] = "stored")
  PROVE  StoreFirst'
<1>1. ASSUME NEW i \in Pushed, Recorded(i) PROVE i \in Pushed' /\ Recorded(i)'
  BY <1>1 DEF Recorded, isCriticalEvent
<1>2. ASSUME NEW i \in Pushed, pc[i] = "stored" PROVE Recorded(i)
  BY <1>2 DEF PipelineInv, LogFirst, StoreFirst, Past, Beyond, Recorded
<1>3. ASSUME NEW i \in Pushed', pc'[i] \in Beyond PROVE i \in stored' \/ <<"events", i>> \in refused'
  BY <1>3 DEF PipelineInv, StoreFirst
<1>4. ASSUME NEW i \in Shown' PROVE i \in Pushed' /\ Recorded(i)'
  <2>1. i \in Pushed /\ Recorded(i)
    BY <1>2, <1>4 DEF PipelineInv, StoreFirst
  <2> QED BY <2>1, <1>1
<1> QED BY <1>3, <1>4 DEF StoreFirst

\* A source pushes an event and leaves stores and log alone; what was true of
\* the events before it stays true.
LEMMA SourceStep ==
  ASSUME PipelineInv, NEW e \in Event, Push(e),
         UNCHANGED <<nats, signed, altered, leaves, stored, hub, delivered, tasks>>,
         refused \subseteq refused',
         alerts' \subseteq alerts \cup {Len(ev) + 1},
         wire' \in Seq(NeotronMsgs \cup {Exported}), Len(wire') <= MaxWire
  PROVE  PipelineInv'
<1>1. /\ Pushes'
      /\ Len(ev') = Len(ev) + 1 /\ Len(ev) \in Nat
      /\ Len(ev) + 1 \in Ids
      /\ \A i \in Pushed : i \in Pushed' /\ ev'[i] = ev[i] /\ pc'[i] = pc[i]
      /\ pc'[Len(ev) + 1] = "new"
  BY PushStep DEF PipelineInv, Pushes
<1>2. Pushed' = Pushed \cup {Len(ev) + 1}
  BY <1>1 DEF Pushed
<1>3. Kept'
  BY <1>2 DEF PipelineInv, Kept
<1>4. Queues'
  BY <1>2 DEF PipelineInv, Queues
<1>5. Leaves'
  BY <1>1 DEF PipelineInv, Leaves
<1>6. LogFirst'
  <2>1. \A i \in stored : i \in Pushed
    BY DEF PipelineInv, Kept
  <2>2. Len(ev) + 1 \notin stored
    BY <2>1, <1>1 DEF Pushed
  <2>3. \A i \in Pushed' : i \in stored' \/ pc'[i] \in Past => i \in Pushed
    BY <1>1, <1>2, <2>2 DEF Past
  <2>4. \A i \in Pushed : IsLeaf(i)' <=> IsLeaf(i)
    BY DEF IsLeaf
  <2>5. ASSUME NEW i \in Pushed', i \in stored' \/ pc'[i] \in Past, isCriticalEvent(ev'[i])
        PROVE  IsLeaf(i)' \/ <<"log", i>> \in refused'
    <3>1. i \in Pushed /\ ev'[i] = ev[i] /\ pc'[i] = pc[i]
      BY <2>3, <2>5, <1>1
    <3> QED BY <3>1, <2>4, <2>5 DEF PipelineInv, LogFirst
  <2>6. \A i \in stored' : pc'[i] \in Past \cup {"lost"}
    BY <2>1, <1>1 DEF PipelineInv, LogFirst
  <2> QED BY <2>5, <2>6 DEF LogFirst
<1>7. StoreFirst'
  <2>1. \A i \in Pushed : IsLeaf(i) => IsLeaf(i)'
    BY DEF IsLeaf
  <2>2. \A i \in Pushed' : pc'[i] \in Beyond => i \in Pushed /\ pc[i] \in Beyond
    BY <1>1, <1>2 DEF Beyond
  <2>3. Shown' = Shown
    BY DEF Shown
  <2> QED BY <1>1, <2>1, <2>2, <2>3, StoreKept
<1> QED BY <1>1, <1>3, <1>4, <1>5, <1>6, <1>7 DEF PipelineInv

LEMMA SenseStep == ASSUME PipelineInv, Sense PROVE PipelineInv'
<1> DEFINE e == [type |-> "network", from |-> "sensor", parent |-> 0, msg |-> NoMsg]
<1>1. e \in Event
  BY EventPipelineAssumption DEF Event
<1>2. Push(e)
  BY DEF Sense
<1> HIDE DEF e
<1> QED BY <1>1, <1>2, SourceStep DEF Sense, durable, PipelineInv, Queues

LEMMA NeotronPublishesStep ==
  ASSUME PipelineInv, NEW m \in Inbound, NeotronPublishes(m) PROVE PipelineInv'
<1>1. /\ wire' \in Seq(NeotronMsgs \cup {Exported})
      /\ Len(wire') <= MaxWire
  <2>1. m \in NeotronMsgs \cup {Exported}
    BY EventPipelineAssumption
  <2>2. wire \in Seq(NeotronMsgs \cup {Exported}) /\ Len(wire) < MaxWire /\ wire' = Append(wire, m)
    BY DEF PipelineInv, Queues, NeotronPublishes
  <2>3. wire' \in Seq(NeotronMsgs \cup {Exported}) /\ Len(wire') = Len(wire) + 1
    BY <2>1, <2>2, AppendProperties
  <2>4. Len(wire) \in Nat /\ MaxWire \in Nat
    BY <2>2, EventPipelineAssumption
  <2> QED BY <2>2, <2>3, <2>4
<1>2. UNCHANGED <<nats, ev, pc, signed, altered, leaves, stored, alerts, refused, hub, delivered, tasks>>
  BY DEF NeotronPublishes, durable
<1>3. Queues'
  BY <1>1, <1>2 DEF PipelineInv, Queues, Pushed
<1>4. StoreFirst'
  BY <1>2 DEF PipelineInv, StoreFirst, Pushed, Shown, Recorded, IsLeaf
<1> QED
  BY <1>2, <1>3, <1>4 DEF PipelineInv, Pushes, Pushed, Kept, Leaves, LogFirst, IsLeaf

LEMMA HandleComplianceEventStep ==
  ASSUME PipelineInv, HandleComplianceEvent PROVE PipelineInv'
<1> DEFINE m == Head(wire)
           e == [type |-> determineEventType(m), from |-> "neotron", parent |-> 0, msg |-> m]
<1>1. m \in NeotronMsgs \cup {Exported} /\ Tail(wire) \in Seq(NeotronMsgs \cup {Exported})
  BY DEF PipelineInv, Queues, HandleComplianceEvent
<1>2. Len(Tail(wire)) <= MaxWire
  <2>1. wire \in Seq(NeotronMsgs \cup {Exported}) /\ wire # <<>> /\ Len(wire) <= MaxWire
    BY DEF PipelineInv, Queues, HandleComplianceEvent
  <2> QED BY <2>1, EventPipelineAssumption
<1>3. wire' = Tail(wire) /\ Push(e)
  BY DEF HandleComplianceEvent
<1>4. determineEventType(m) \in {"network", "compliance", "alert"}
  <2> HIDE DEF m
  <2>1. CASE m \in NeotronMsgs
    BY <2>1 DEF NeotronMsgs, determineEventType
  <2>2. CASE m = Exported
    BY <2>2 DEF Exported, determineEventType
  <2> QED BY <1>1, <2>1, <2>2
<1>5. e \in Event
  <2> HIDE DEF m
  <2> QED BY <1>1, <1>4, EventPipelineAssumption DEF Event
<1> HIDE DEF e
<1> QED BY <1>1, <1>2, <1>3, <1>5, SourceStep DEF HandleComplianceEvent, durable

LEMMA RaiseAlertStep ==
  ASSUME PipelineInv, NEW a \in Analyzers, NEW i \in Ids, RaiseAlert(a, i)
  PROVE  PipelineInv'
<1> DEFINE e == [type |-> "alert", from |-> a, parent |-> i, msg |-> NoMsg]
<1>1. e \in Event
  BY EventPipelineAssumption DEF Event, Ids
<1>2. Push(e)
  BY DEF RaiseAlert
<1>3. refused \subseteq refused' /\ alerts' \subseteq alerts \cup {Len(ev) + 1}
  BY DEF RaiseAlert, Attempt
<1> HIDE DEF e
<1> QED BY <1>1, <1>2, <1>3, SourceStep DEF RaiseAlert, PipelineInv, Queues

-----------------------------------------------------------------------------
\* The log is left alone, and only events past it are stored.
LEMMA LogKept ==
  ASSUME PipelineInv, Pushed' = Pushed, ev' = ev, leaves' = leaves,
         \A x \in refused : x \in refused',
         \A j \in stored' : j \in stored \/ (j \in Pushed /\ pc[j] \in Past),
         \A j \in Pushed : /\ pc[j] \in Past \cup {"lost"} => pc'[j] \in Past \cup {"lost"}
                           /\ pc'[j] \in Past => pc[j] \in Past
  PROVE  Leaves' /\ LogFirst'
<1>1. Leaves'
  <2>1. \A k \in 1..Len(leaves) : leaves[k] \in Pushed /\ pc[leaves[k]] \in Past \cup {"lost"}
    BY DEF PipelineInv, Leaves
  <2>2. \A k \in 1..Len(leaves) : pc'[leaves[k]] \in Past \cup {"lost"}
    BY <2>1
  <2> QED BY <2>1, <2>2 DEF PipelineInv, Leaves
<1>2. \A j \in stored : j \in Pushed
  BY DEF PipelineInv, Kept
<1>3. \A j \in Pushed : IsLeaf(j)' <=> IsLeaf(j)
  BY DEF IsLeaf
<1>4. ASSUME NEW j \in Pushed, j \in stored' \/ pc'[j] \in Past, isCriticalEvent(ev[j])
      PROVE  IsLeaf(j)' \/ <<"log", j>> \in refused'
  BY <1>3, <1>4 DEF PipelineInv, LogFirst
<1>5. \A j \in stored' : pc'[j] \in Past \cup {"lost"}
  <2>1. \A j \in stored : pc[j] \in Past \cup {"lost"}
    BY DEF PipelineInv, LogFirst
  <2> QED BY <1>2, <2>1
<1> QED BY <1>1, <1>4, <1>5 DEF LogFirst

\* A stage that leaves log and stores alone, and no earlier than them.
LEMMA QuietStage ==
  ASSUME PipelineInv, NEW i \in Ids, pc[i] # "unused", NEW s \in Stages \ {"unused"},
         pc' = [pc EXCEPT ![i] = s],
         s \in Past => pc[i] \in Past,
         s \notin Past => pc[i] \notin Past \cup {"lost"},
         s \in Beyond => pc[i] \in Beyond,
         \A j \in Shown' : j \in Shown \/ (j = i /\ pc[i] = "stored"),
         UNCHANGED <<ev, leaves, stored, refused>>
  PROVE  Pushes' /\ Pushed' = Pushed /\ i \in Pushed /\ Leaves' /\ LogFirst' /\ StoreFirst'
<1>1. Pushes' /\ Pushed' = Pushed /\ i \in Pushed
  BY StageStep DEF PipelineInv
<1>2. \A j \in Pushed : /\ pc[j] \in Past \cup {"lost"} => pc'[j] \in Past \cup {"lost"}
                        /\ pc'[j] \in Past => pc[j] \in Past
  <2>1. \A j \in Pushed : j \in Ids
    BY EventPipelineAssumption DEF PipelineInv, Pushes, Pushed, Ids
  <2> QED BY <2>1 DEF PipelineInv, Pushes
<1>3. Leaves' /\ LogFirst'
  BY <1>1, <1>2, LogKept
<1>4. StoreFirst'
  <2>1. \A j \in Pushed : j \in Ids
    BY EventPipelineAssumption DEF PipelineInv, Pushes, Pushed, Ids
  <2>2. \A j \in Pushed : pc'[j] \in Beyond => pc[j] \in Beyond
    BY <2>1 DEF PipelineInv, Pushes
  <2>3. \A j \in Pushed : IsLeaf(j) => IsLeaf(j)'
    BY DEF IsLeaf
  <2> QED BY <1>1, <2>2, <2>3, StoreKept
<1> QED BY <1>1, <1>3, <1>4

LEMMA SignStep == ASSUME PipelineInv, NEW i \in Ids, Sign(i) PROVE PipelineInv'
<1>1. Pushes' /\ Pushed' = Pushed /\ i \in Pushed /\ Leaves' /\ LogFirst' /\ StoreFirst'
  <2>1. Shown' = Shown
    BY DEF Sign, Shown
  <2> QED BY <2>1, QuietStage DEF Sign, durable, Stages, Past, Beyond
<1> QED BY <1>1 DEF PipelineInv, Kept, Queues, Sign, durable

LEMMA BroadcastStep == ASSUME PipelineInv, NEW i \in Ids, Broadcast(i) PROVE PipelineInv'
<1>1. /\ hub' \in Seq(Ids) /\ Len(hub') <= HubCap
      /\ \A k \in 1..Len(hub') : hub'[k] = i \/ \E j \in 1..Len(hub) : hub'[k] = hub[j]
  <2>1. /\ hub \in Seq(Ids) /\ Len(hub) <= HubCap /\ Len(hub) \in Nat /\ HubCap \in Nat
        /\ hub' = IF Len(hub) < HubCap THEN Append(hub, i) ELSE hub
    BY EventPipelineAssumption DEF PipelineInv, Queues, Broadcast
  <2>2. /\ Append(hub, i) \in Seq(Ids) /\ Len(Append(hub, i)) = Len(hub) + 1
        /\ \A k \in 1..Len(hub) : Append(hub, i)[k] = hub[k]
        /\ Append(hub, i)[Len(hub) + 1] = i
    BY <2>1, AppendProperties
  <2>3. \A k \in 1..(Len(hub) + 1) : k \in 1..Len(hub) \/ k = Len(hub) + 1
    BY <2>1
  <2>4. CASE hub' = hub
    BY <2>1, <2>4
  <2>5. CASE Len(hub) < HubCap /\ hub' = Append(hub, i)
    BY <2>1, <2>2, <2>3, <2>5
  <2> QED BY <2>1, <2>4, <2>5
<1>2. \A j \in Shown' : j \in Shown \/ j = i
  BY <1>1 DEF Broadcast, Shown
<1>3. Pushes' /\ Pushed' = Pushed /\ i \in Pushed /\ Leaves' /\ LogFirst' /\ StoreFirst'
  BY <1>2, QuietStage DEF Broadcast, durable, Stages, Past, Beyond
<1> QED BY <1>1, <1>3 DEF PipelineInv, Kept, Queues, Broadcast, durable

LEMMA PublishStep == ASSUME PipelineInv, NEW i \in Ids, Publish(i) PROVE PipelineInv'
<1>1. Pushes' /\ Pushed' = Pushed /\ i \in Pushed /\ Leaves' /\ LogFirst' /\ StoreFirst'
  <2>1. Shown' = Shown
    BY DEF Publish, Shown
  <2> QED BY <2>1, QuietStage DEF Publish, durable, Stages, Past, Beyond
<1>2. wire' \in Seq(NeotronMsgs \cup {Exported}) /\ Len(wire') <= MaxWire
  <2> DEFINE W == NeotronMsgs \cup {Exported}
  <2>1. /\ wire \in Seq(W) /\ Len(wire) <= MaxWire /\ Len(wire) \in Nat /\ MaxWire \in Nat
        /\ \/ wire' = wire
           \/ Len(wire) < MaxWire /\ wire' = Append(wire, Exported)
    BY EventPipelineAssumption DEF PipelineInv, Queues, Publish
  <2>2. Exported \in W
    OBVIOUS
  <2> HIDE DEF W
  <2>3. Append(wire, Exported) \in Seq(W) /\ Len(Append(wire, Exported)) = Len(wire) + 1
    BY <2>1, <2>2, AppendProperties
  <2>4. wire' \in Seq(W) /\ Len(wire') <= MaxWire
    BY <2>1, <2>3
  <2> QED BY <2>4 DEF W
<1>3. Kept'
  BY <1>1 DEF PipelineInv, Kept, Publish, durable
<1> QED BY <1>1, <1>2, <1>3 DEF PipelineInv, Queues, Publish, durable

LEMMA SpawnStep == ASSUME PipelineInv, NEW i \in Ids, Spawn(i) PROVE PipelineInv'
<1>1. Pushes' /\ Pushed' = Pushed /\ i \in Pushed /\ Leaves' /\ LogFirst' /\ StoreFirst'
  <2>1. Shown' = Shown
    BY DEF Spawn, Shown
  <2> QED BY <2>1, QuietStage DEF Spawn, durable, Stages, Past, Beyond
<1> QED BY <1>1 DEF PipelineInv, Kept, Queues, Spawn, durable

\* Only here does an event enter the log: it is critical, and its push was
\* not past this stage, so it is no leaf yet.
LEMMA AppendLeafStep == ASSUME PipelineInv, NEW i \in Ids, AppendLeaf(i) PROVE PipelineInv'
<1>1. Pushes' /\ Pushed' = Pushed /\ i \in Pushed
  BY StageStep DEF PipelineInv, AppendLeaf, Stages
<1>2. UNCHANGED <<nats, ev, signed, altered, stored, alerts, hub, delivered, wire, tasks>>
  BY DEF AppendLeaf
<1>3. /\ pc[i] = "signed" /\ pc'[i] = "logged"
      /\ \A j \in Pushed : j # i => pc'[j] = pc[j]
  <2>1. \A j \in Pushed : j \in Ids
    BY EventPipelineAssumption DEF PipelineInv, Pushes, Pushed, Ids
  <2> QED BY <2>1 DEF PipelineInv, Pushes, AppendLeaf
<1>4. \/ leaves' = Append(leaves, i) /\ refused' = refused /\ isCriticalEvent(ev[i])
      \/ leaves' = leaves /\ refused' = refused \cup {<<"log", i>>}
      \/ leaves' = leaves /\ refused' = refused /\ ~ isCriticalEvent(ev[i])
  BY DEF AppendLeaf, Attempt
<1>5. /\ leaves \in Seq(Nat) /\ i \in Nat
      /\ \A k \in 1..Len(leaves) : leaves[k] \in Pushed /\ leaves[k] # i
      /\ \A k \in 1..Len(leaves) : pc[leaves[k]] \in Past \cup {"lost"}
      /\ \A k \in 1..Len(leaves) : ev[leaves[k]].type # "network"
      /\ \A j, k \in 1..Len(leaves) : leaves[j] = leaves[k] => j = k
  BY <1>1, <1>3 DEF PipelineInv, Leaves, Past, Ids
<1>6. /\ Append(leaves, i) \in Seq(Nat)
      /\ Len(Append(leaves, i)) = Len(leaves) + 1 /\ Len(leaves) \in Nat
      /\ \A k \in 1..Len(leaves) : Append(leaves, i)[k] = leaves[k]
      /\ Append(leaves, i)[Len(leaves) + 1] = i
  BY <1>5, AppendProperties
<1>7. isCriticalEvent(ev[i]) => ev[i].type # "network"
  BY DEF isCriticalEvent
<1>8. \A j \in Pushed : IsLeaf(j) => IsLeaf(j)'
  <2> SUFFICES ASSUME NEW k \in 1..Len(leaves)
               PROVE  k \in 1..Len(leaves') /\ leaves'[k] = leaves[k]
    BY DEF IsLeaf
  <2>1. CASE leaves' = leaves
    BY <2>1
  <2>2. CASE leaves' = Append(leaves, i)
    BY <2>2, <1>6
  <2> QED BY <2>1, <2>2, <1>4
<1>9. Leaves'
  <2>1. CASE leaves' = leaves
    BY <2>1, <1>1, <1>2, <1>3, <1>5 DEF Leaves, Past
  <2>2. CASE leaves' = Append(leaves, i) /\ isCriticalEvent(ev[i])
    <3>1. \A k \in 1..Len(leaves') : k \in 1..Len(leaves) \/ k = Len(leaves) + 1
      BY <2>2, <1>6
    <3>2. \A k \in 1..Len(leaves') :
            leaves'[k] = IF k \in 1..Len(leaves) THEN leaves[k] ELSE i
      BY <2>2, <3>1, <1>6
    <3>3. \A k \in 1..Len(leaves') :
            /\ leaves'[k] \in Pushed
            /\ pc'[leaves'[k]] \in Past \cup {"lost"}
            /\ ev[leaves'[k]].type # "network"
      BY <2>2, <3>1, <3>2, <1>1, <1>3, <1>5, <1>7 DEF Past
    <3>4. \A j, k \in 1..Len(leaves') : leaves'[j] = leaves'[k] => j = k
      BY <3>1, <3>2, <1>5
    <3> QED BY <2>2, <3>3, <3>4, <1>1, <1>2, <1>6 DEF Leaves
  <2> QED BY <2>1, <2>2, <1>4
<1>10. LogFirst'
  <2>1. \A j \in Pushed : IsLeaf(j) => IsLeaf(j)'
    BY <1>8
  <2>2. isCriticalEvent(ev[i]) => IsLeaf(i)' \/ <<"log", i>> \in refused'
    BY <1>4, <1>6 DEF IsLeaf
  <2>3. \A j \in stored : j \in Pushed /\ pc[j] \in Past \cup {"lost"}
    BY DEF PipelineInv, Kept, LogFirst
  <2>4. \A j \in Pushed : <<"log", j>> \in refused => <<"log", j>> \in refused'
    BY <1>4
  <2>5. ASSUME NEW j \in Pushed, j \in stored \/ pc'[j] \in Past, isCriticalEvent(ev[j])
        PROVE  IsLeaf(j)' \/ <<"log", j>> \in refused'
    BY <2>1, <2>2, <2>4, <2>5, <1>3 DEF PipelineInv, LogFirst
  <2>6. \A j \in stored : pc'[j] \in Past \cup {"lost"}
    BY <2>3, <1>3 DEF Past
  <2> QED BY <2>5, <2>6, <1>1, <1>2 DEF LogFirst
<1>11. StoreFirst'
  <2>1. \A j \in Pushed : IsLeaf(j) => IsLeaf(j)'
    BY <1>8
  <2>2. \A j \in Pushed : pc'[j] \in Beyond => pc[j] \in Beyond
    BY <1>3 DEF Beyond
  <2>3. Shown' = Shown
    BY <1>2 DEF Shown
  <2>4. \A x \in refused : x \in refused'
    BY <1>4
  <2> QED BY <1>1, <1>2, <2>1, <2>2, <2>3, <2>4, StoreKept
<1> QED BY <1>1, <1>2, <1>9, <1>10, <1>11 DEF PipelineInv, Kept, Queues

\* An event is stored after its turn at the log.
LEMMA LogEventStep == ASSUME PipelineInv, NEW i \in Ids, LogEvent(i) PROVE PipelineInv'
<1>1. Pushes' /\ Pushed' = Pushed /\ i \in Pushed
  BY StageStep DEF PipelineInv, LogEvent, Stages
<1>2. /\ UNCHANGED <<nats, ev, signed, altered, leaves, alerts, hub, delivered, wire, tasks>>
      /\ stored' \subseteq stored \cup {i} /\ refused \subseteq refused'
      /\ pc[i] = "logged"
  BY DEF LogEvent, Attempt
<1>3. \A j \in Pushed : /\ pc[j] \in Past \cup {"lost"} <=> pc'[j] \in Past \cup {"lost"}
                        /\ pc'[j] \in Past <=> pc[j] \in Past
  <2>1. \A j \in Pushed : j \in Ids
    BY EventPipelineAssumption DEF PipelineInv, Pushes, Pushed, Ids
  <2> QED BY <2>1 DEF PipelineInv, Pushes, LogEvent, Past
<1>4. Leaves' /\ LogFirst'
  <2>1. pc[i] \in Past
    BY <1>2 DEF Past
  <2> QED BY <1>1, <1>2, <1>3, <2>1, LogKept
<1>5. StoreFirst'
  <2>1. \A j \in Pushed : IsLeaf(j) => IsLeaf(j)'
    BY <1>2 DEF IsLeaf
  <2>2. i \in stored' \/ <<"events", i>> \in refused'
    BY DEF LogEvent, Attempt
  <2>3. \A j \in Pushed : j = i \/ (pc'[j] \in Beyond => pc[j] \in Beyond)
    BY DEF PipelineInv, Pushes, LogEvent
  <2>4. Shown' = Shown
    BY <1>2 DEF Shown
  <2>5. \A j \in stored : j \in stored'
    BY DEF LogEvent, Attempt
  <2> QED BY <1>1, <1>2, <2>1, <2>2, <2>3, <2>4, <2>5, StoreKept
<1> QED BY <1>1, <1>2, <1>4, <1>5 DEF PipelineInv, Kept, Queues

-----------------------------------------------------------------------------
LEMMA AnalysisDoneStep ==
  ASSUME PipelineInv, NEW a \in Analyzers, NEW i \in Ids, AnalysisDone(a, i)
  PROVE  PipelineInv'
<1>1. /\ UNCHANGED <<nats, ev, pc, signed, altered, leaves, stored, alerts, refused, hub, delivered, wire>>
      /\ tasks' \subseteq tasks
  BY DEF AnalysisDone, durable
<1> QED
  BY <1>1 DEF PipelineInv, Pushes, Pushed, Kept, Queues, Leaves, LogFirst, IsLeaf, StoreFirst, Shown,
              Recorded

\* What the hub takes from its queue was shown, so to speak, when it was put in.
LEMMA HubDeliversStep == ASSUME PipelineInv, HubDelivers PROVE PipelineInv'
<1>1. UNCHANGED <<nats, ev, pc, signed, altered, leaves, stored, alerts, refused, wire, tasks>>
  BY DEF HubDelivers, durable
<1>2. hub' \in Seq(Ids) /\ Len(hub') <= HubCap
  <2>1. hub \in Seq(Ids) /\ hub # <<>> /\ hub' = Tail(hub) /\ Len(hub) <= HubCap
    BY DEF PipelineInv, Queues, HubDelivers
  <2>2. Tail(hub) \in Seq(Ids) /\ Len(Tail(hub)) = Len(hub) - 1 /\ Len(hub) \in Nat
    BY <2>1, HeadTailProperties
  <2> QED BY <2>1, <2>2, EventPipelineAssumption
<1>3. StoreFirst'
  <2>1. hub \in Seq(Ids) /\ hub # <<>> /\ hub' = Tail(hub)
    BY DEF PipelineInv, Queues, HubDelivers
  <2>2. /\ Len(hub) \in Nat /\ Len(hub) >= 1 /\ Head(hub) = hub[1] /\ Len(Tail(hub)) = Len(hub) - 1
        /\ \A k \in 1..Len(Tail(hub)) : Tail(hub)[k] = hub[k + 1]
    BY <2>1, HeadTailProperties
  <2>3. \A k \in 1..Len(hub') : \E j \in 1..Len(hub) : hub'[k] = hub[j]
    <3> SUFFICES ASSUME NEW k \in 1..Len(hub') PROVE \E j \in 1..Len(hub) : hub'[k] = hub[j]
      OBVIOUS
    <3>1. k + 1 \in 1..Len(hub) /\ hub'[k] = hub[k + 1]
      BY <2>1, <2>2
    <3> QED BY <3>1
  <2>4. \A d \in delivered' : d \in delivered \/ d.id = hub[1]
    BY <2>2 DEF HubDelivers
  <2>5. 1 \in 1..Len(hub)
    BY <2>2
  <2>6. \A i \in Shown' : i \in Shown
    BY <2>3, <2>4, <2>5 DEF Shown
  <2>7. Pushed' = Pushed /\ \A i \in Pushed : IsLeaf(i) => IsLeaf(i)'
    BY <1>1 DEF Pushed, IsLeaf
  <2> QED BY <1>1, <2>6, <2>7, StoreKept
<1> QED
  BY <1>1, <1>2, <1>3 DEF PipelineInv, Pushes, Pushed, Kept, Queues, Leaves, LogFirst, IsLeaf

\* A crash cuts off the pushes under way; what is stored and logged stays.
LEMMA CrashStep == ASSUME PipelineInv, Crash PROVE PipelineInv'
<1>1. /\ UNCHANGED <<nats, ev, signed, altered, leaves, stored, alerts, refused, delivered>>
      /\ hub' = <<>> /\ wire' = <<>> /\ tasks' = {}
  BY DEF Crash, durable
<1>2. Pushes' /\ Pushed' = Pushed
  BY <1>1 DEF PipelineInv, Pushes, Pushed, Stages, Crash
<1>3. \A j \in Pushed : /\ pc[j] \in Past \cup {"lost"} => pc'[j] \in Past \cup {"lost"}
                        /\ pc'[j] \in Past => pc[j] \in Past
  <2>1. \A j \in Pushed : j \in Ids
    BY EventPipelineAssumption DEF PipelineInv, Pushes, Pushed, Ids
  <2> QED BY <2>1 DEF PipelineInv, Pushes, Crash, Past
<1>4. Leaves' /\ LogFirst'
  BY <1>1, <1>2, <1>3, LogKept
<1>5. Queues'
  BY <1>1, EventPipelineAssumption DEF Queues
<1>6. StoreFirst'
  <2>1. \A j \in Pushed : j \in Ids
    BY EventPipelineAssumption DEF PipelineInv, Pushes, Pushed, Ids
  <2>2. \A j \in Pushed : pc'[j] \in Beyond => pc[j] \in Beyond
    BY <2>1 DEF PipelineInv, Pushes, Crash, Beyond
  <2>3. \A j \in Shown' : j \in Shown
    <3>1. Len(hub') = 0
      BY <1>1
    <3> QED BY <1>1, <3>1 DEF Shown
  <2>4. \A j \in Pushed : IsLeaf(j) => IsLeaf(j)'
    BY <1>1 DEF IsLeaf
  <2> QED BY <1>1, <1>2, <2>2, <2>3, <2>4, StoreKept
<1> QED BY <1>1, <1>2, <1>4, <1>5, <1>6 DEF PipelineInv, Kept

-----------------------------------------------------------------------------
(* PipelineInv is inductive: pushes interleaved stage by stage, analyzers, *)
(* failing transactions and crashes included.                              *)
THEOREM PipelineInductive == Spec => []PipelineInv
<1>1. ASSUME PipelineInv, [Next]_vars PROVE PipelineInv'
  <2>1. CASE UNCHANGED vars
    BY <1>1, <2>1 DEF PipelineInv, Pushes, Pushed, Kept, Queues, Leaves, LogFirst, IsLeaf,
                      StoreFirst, Shown, Recorded, vars, durable
  <2>2. ASSUME NEW m \in Inbound, NeotronPublishes(m) PROVE PipelineInv'
    BY <1>1, <2>2, NeotronPublishesStep
  <2>3. ASSUME NEW i \in Ids, Stage(i) PROVE PipelineInv'
    BY <1>1, <2>3, SignStep, AppendLeafStep, LogEventStep, BroadcastStep, PublishStep, SpawnStep
    DEF Stage
  <2>4. ASSUME NEW a \in Analyzers, NEW i \in Ids, RaiseAlert(a, i) \/ AnalysisDone(a, i)
        PROVE  PipelineInv'
    BY <1>1, <2>4, RaiseAlertStep, AnalysisDoneStep
  <2>5. CASE Sense \/ HandleComplianceEvent \/ HubDelivers \/ Crash
    BY <1>1, <2>5, SenseStep, HandleComplianceEventStep, HubDeliversStep, CrashStep
  <2> QED BY <1>1, <2>1, <2>2, <2>3, <2>4, <2>5 DEF Next
<1> QED BY <1>1, InitPipelineInv, PTL DEF Spec

(* PushNetworkEvent logs before it stores: an alert in the events bucket   *)
(* is a leaf of the transparency log unless its append failed, and no      *)
(* event is a leaf twice, however pushes interleave and wherever they are  *)
(* cut off.                                                                *)
THEOREM AlertsInLog == Spec => []AlertsAreLogged
<1>1. PipelineInv => AlertsAreLogged
  BY DEF PipelineInv, Kept, Leaves, LogFirst, AlertsAreLogged, isCriticalEvent
<1> QED BY <1>1, PipelineInductive, PTL

(* What a WebSocket client has been shown is in the events bucket and, if  *)
(* critical, in the transparency log, except where that transaction failed *)
(* - through any interleaving of pushes with the hub, and crashes.         *)
THEOREM ShownOnRecord == Spec => []ShownIsRecorded
<1>1. PipelineInv => ShownIsRecorded
  BY DEF PipelineInv, StoreFirst, Shown, ShownIsRecorded
<1> QED BY <1>1, PipelineInductive, PTL

(* Types; the hub's queue keeps to its capacity whatever the pushes do.    *)
THEOREM PipelineTyped == Spec => []TypeOK
<1>1. PipelineInv => TypeOK
  <2> SUFFICES ASSUME PipelineInv PROVE TypeOK
    OBVIOUS
  <2>1. \A i \in Pushed : ev[i] \in Event
    BY DEF PipelineInv, Pushes, Pushed
  <2>2. /\ Len(ev) <= MaxEvents /\ pc \in [Ids -> Stages]
        /\ \A i \in Ids : pc[i] = "unused" <=> i > Len(ev)
    BY DEF PipelineInv, Pushes
  <2>3. \A k \in 1..Len(leaves) : leaves[k] \in Pushed
    BY DEF PipelineInv, Leaves
  <2> QED BY <2>1, <2>2, <2>3 DEF PipelineInv, Kept, Queues, Stages, TypeOK
<1> QED BY <1>1, PipelineInductive, PTL
============================================================================

------------------------- MODULE TemporalCorrelator -------------------------
(***************************************************************************)
(* The kill-chain correlator (internal/analytics/correlation/temporal.go). *)
(* The pipeline hands it every event from a goroutine of its own, so it    *)
(* observes events in any order; Observe itself runs under a mutex.        *)
(*                                                                         *)
(* Observe keeps one slice per source and works in place.  While it goes   *)
(* through the chains, the local slice `trimmed` and the stored window     *)
(* share an array: a firing chain moves the survivors of the stored window *)
(* to the front of that array, and the next chain is matched against all   *)
(* of it, stale tail included.                                             *)
(***************************************************************************)
EXTENDS Integers, Sequences, FiniteSetsExt, SequencesExt

CONSTANTS
  Chains,      \* the chain rules: [sequence, window]
  Sources,     \* sources of events
  Types,       \* event types
  MaxEvents,   \* bound on the events
  MaxMinute    \* bound on the clock

ASSUME TemporalAssumption ==
  /\ \A k \in DOMAIN Chains : Chains[k].window \in Nat /\ Range(Chains[k].sequence) \subseteq Types
  /\ MaxEvents \in Nat /\ MaxMinute \in Nat

VARIABLES
  events,      \* the events pushed: [source, type, ts]; an event's id is its index
  observers,   \* events whose goroutine has not called Observe yet
  order,       \* the events observed, in order
  windows,     \* source -> its window, a sequence of ids
  chainAlerts, \* history: [chain, ids, trigger] fired
  minute       \* the clock

temporalVars == <<events, observers, order, windows, chainAlerts, minute>>

\* NewTemporalCorrelator: the longest window, at least one minute.
maxAge == Max({1} \cup {Chains[k].window : k \in DOMAIN Chains})

TemporalInit ==
  /\ events = <<>> /\ observers = {} /\ order = <<>>
  /\ windows = [s \in Sources |-> <<>>]
  /\ chainAlerts = {}
  /\ minute = 0

-----------------------------------------------------------------------------
(* Observe.                                                                *)

\* matchChain: the ids of the first complete sequence in the window not older
\* than the chain's own window, or none.
matchChain(window, chain, now) ==
  LET Walk[n \in 0..Len(window)] ==
        IF n = 0 THEN <<>>
        ELSE LET ids == Walk[n - 1]
             IN  IF /\ Len(ids) < Len(chain.sequence)
                    /\ events[window[n]].ts >= now - chain.window
                    /\ events[window[n]].type = chain.sequence[Len(ids) + 1]
                 THEN Append(ids, window[n]) ELSE ids
      found == Walk[Len(window)]
  IN  IF Len(found) = Len(chain.sequence) THEN found ELSE <<>>

\* The matched events stay in the window.
fireChainAlertKeeps(w, k, ids) ==
  [w EXCEPT !.fired = @ \cup {[chain |-> k, ids |-> ids]}]

\* fireChainAlert: the stored window, a prefix of the array, is filtered in
\* place; what lies behind the survivors keeps its old contents.
fireChainAlert(w, k, ids) ==
  LET kept == SelectSeq(SubSeq(w.array, 1, w.stored), LAMBDA i : i \notin Range(ids))
  IN  [array |-> kept \o SubSeq(w.array, Len(kept) + 1, Len(w.array)),
       stored |-> Len(kept),
       fired |-> w.fired \cup {[chain |-> k, ids |-> ids]}]

\* The chains matched against what is left in the stored window.
afterChainsFiltered(trimmed, now) ==
  LET After[k \in 0..Len(Chains)] ==
        IF k = 0 THEN [array |-> trimmed, stored |-> Len(trimmed), fired |-> {}]
        ELSE LET w == After[k - 1]
                 ids == matchChain(SubSeq(w.array, 1, w.stored), Chains[k], now)
             IN  IF ids = <<>> THEN w ELSE fireChainAlert(w, k, ids)
  IN  After[Len(Chains)]

\* The loop over the chains.
afterChains(trimmed, now) ==
  LET After[k \in 0..Len(Chains)] ==
        IF k = 0 THEN [array |-> trimmed, stored |-> Len(trimmed), fired |-> {}]
        ELSE LET w == After[k - 1]
                 ids == matchChain(w.array, Chains[k], now)
             IN  IF ids = <<>> THEN w ELSE fireChainAlert(w, k, ids)
  IN  After[Len(Chains)]

\* Events older than the longest window are evicted.
evict(window, now) == SelectSeq(window, LAMBDA i : events[i].ts > now - maxAge)

\* Observe of event i; the alert callback runs under the mutex.
Observe(i) ==
  LET src == events[i].source
      now == events[i].ts
      w == afterChains(Append(evict(windows[src], now), i), now)
  IN  /\ i \in observers
      /\ observers' = observers \ {i}
      /\ order' = Append(order, i)
      /\ windows' = [windows EXCEPT ![src] = SubSeq(w.array, 1, w.stored)]
      /\ chainAlerts' = chainAlerts \cup
           {[chain |-> f.chain, ids |-> f.ids, trigger |-> i] : f \in w.fired}
      /\ UNCHANGED <<events, minute>>

\* PushNetworkEvent stamps an event and starts the goroutine.
PushEvent(s, t) ==
  /\ Len(events) < MaxEvents
  /\ events' = Append(events, [source |-> s, type |-> t, ts |-> minute])
  /\ observers' = observers \cup {Len(events) + 1}
  /\ UNCHANGED <<order, windows, chainAlerts, minute>>

MinutePasses ==
  /\ minute < MaxMinute
  /\ minute' = minute + 1
  /\ UNCHANGED <<events, observers, order, windows, chainAlerts>>

TemporalNext ==
  \/ \E s \in Sources, t \in Types : PushEvent(s, t)
  \/ \E i \in 1..MaxEvents : Observe(i)
  \/ MinutePasses

TemporalSpec == TemporalInit /\ [][TemporalNext]_temporalVars

-----------------------------------------------------------------------------
(* Properties.                                                             *)

Ts(i) == events[i].ts

\* Event i was observed before event j.
Before(i, j) == \E m, n \in 1..Len(order) : m < n /\ order[m] = i /\ order[n] = j

\* The goroutines happened to run in the order of the timestamps.
InOrder == \A m, n \in 1..Len(order) : m < n => Ts(order[m]) <= Ts(order[n])

(* Type invariant; a window holds observed events of its source, each once *)
(* and in the order they were observed, none older than the longest chain. *)
TemporalTypeOK ==
  /\ Len(events) <= MaxEvents /\ minute \in 0..MaxMinute
  /\ observers \subseteq 1..Len(events)
  /\ \A s \in Sources :
       LET w == windows[s]
       IN  /\ \A m \in 1..Len(w) : events[w[m]].source = s
           /\ \A m, n \in 1..Len(w) : m < n => Before(w[m], w[n])
           /\ InOrder => \A m, n \in 1..Len(w) : Ts(w[n]) - Ts(w[m]) < maxAge

(* An alert is about events of one source and of the chain's types.  If    *)
(* they came in the order of their timestamps, they were observed in the   *)
(* chain's order and within its window, and the last one set it off: the   *)
(* stale tail of the array never makes up a chain.  "Clear the matched     *)
(* sequence from the window to avoid repeated firing on the same chain":   *)
(* an event counts for one alert of a chain, in whatever order events are  *)
(* observed.                                                               *)
AlertsAreChains ==
  /\ \A a, b \in chainAlerts :
       a.chain = b.chain /\ a # b => Range(a.ids) \cap Range(b.ids) = {}
  /\ \A a \in chainAlerts :
       LET c == Chains[a.chain]
       IN  /\ [m \in 1..Len(a.ids) |-> events[a.ids[m]].type] = c.sequence
           /\ \A m \in 1..Len(a.ids) : events[a.ids[m]].source = events[a.trigger].source
           /\ InOrder => /\ \A m \in 2..Len(a.ids) : Before(a.ids[m - 1], a.ids[m])
                         /\ Last(a.ids) = a.trigger
                         /\ Ts(a.trigger) - Ts(a.ids[1]) <= c.window

(* For events observed in the order of their timestamps no chain of two is *)
(* missed: if an event completes one whose first event is younger than the *)
(* window and in no earlier alert, the alert fires, although another chain *)
(* has just cleared both events from the window.                           *)
NoMissedChain ==
  InOrder =>
    \A k \in DOMAIN Chains, x, e \in Range(order) :
      LET c == Chains[k]
      IN  /\ c.sequence = <<events[x].type, events[e].type>>
          /\ events[x].source = events[e].source
          /\ Before(x, e) /\ Ts(x) > Ts(e) - c.window
          /\ \A a \in chainAlerts : x \in Range(a.ids) => ~ Before(a.trigger, e)
          => \E a \in chainAlerts : a.chain = k /\ a.trigger = e
=============================================================================

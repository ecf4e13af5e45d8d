--------------------------- MODULE StreamProcessor ---------------------------
(***************************************************************************)
(* The stream processor in front of the analyzers: a ring buffer of recent *)
(* events and per-source counters in one-minute buckets                    *)
(* (internal/analytics/stream).  Pushes call Enrich concurrently; the      *)
(* buffer and the counters have a lock each, taken one after the other.    *)
(***************************************************************************)
EXTENDS Integers, Sequences, FiniteSets, FiniteSetsExt

CONSTANTS
  Ips,           \* source addresses
  Capacity,      \* capacity of the buffer
  TotalBuckets,  \* buckets: the longest window, 15 in the code
  MidBuckets,    \* buckets of the middle window, 5 in the code
  MaxPushes, LastMinute   \* bounds

ASSUME StreamAssumption ==
  /\ Capacity \in Nat \ {0} /\ TotalBuckets \in Nat \ {0}
  /\ MidBuckets \in 1..TotalBuckets
  /\ MaxPushes \in Nat /\ LastMinute \in Nat

NoIp == "none"   \* what Normalize makes of a multicast source

VARIABLES
  policy,     \* what a full buffer does
  data,       \* circularBuffer.data: slot -> event, 0 when never used
  head, count, dropped,
  buckets,    \* slot -> [ts, counts]
  current,    \* the active bucket
  now,        \* the clock, in minutes
  pushed,     \* events given to Enrich so far; they are numbered 1..pushed
  enriching,  \* [id, ip] between the buffer and the counters
  recorded    \* history: [id, ip, at] counted

buffer == <<data, head, count, dropped>>
windower == <<buckets, current>>
streamVars == <<policy, data, head, count, dropped, buckets, current, now, pushed,
                enriching, recorded>>

newBucket(t) == [ts |-> t, counts |-> [ip \in Ips |-> 0]]

StreamInit ==
  /\ policy \in {"drop_oldest", "drop_newest"}
  /\ data = [s \in 0..Capacity - 1 |-> 0]
  /\ head = 0 /\ count = 0 /\ dropped = 0
  /\ buckets = [b \in 0..TotalBuckets - 1 |-> newBucket(0)]
  /\ current = 0
  /\ now = 0 /\ pushed = 0 /\ enriching = {} /\ recorded = {}

-----------------------------------------------------------------------------
(* The buffer.                                                             *)

\* circularBuffer.push.
push(e) ==
  /\ dropped' = IF count = Capacity THEN dropped + 1 ELSE dropped
  /\ IF count = Capacity /\ policy = "drop_newest"
     THEN UNCHANGED <<data, head, count>>
     ELSE /\ data' = [data EXCEPT ![head] = e]
          /\ head' = (head + 1) % Capacity
          /\ count' = IF count < Capacity THEN count + 1 ELSE count

\* circularBuffer.snapshot, oldest first.
snapshot ==
  LET start == (head - count + Capacity) % Capacity
  IN  [i \in 1..count |-> data[(start + i - 1) % Capacity]]

-----------------------------------------------------------------------------
(* The counters.                                                           *)

\* The bucket rotated into keeps the counts it had a round ago.
recordReuses(ip) ==
  IF now > buckets[current].ts
  THEN LET c == (current + 1) % TotalBuckets
       IN  /\ current' = c
           /\ buckets' = [buckets EXCEPT ![c].ts = now, ![c].counts[ip] = @ + 1]
  ELSE /\ buckets' = [buckets EXCEPT ![current].counts[ip] = @ + 1]
       /\ UNCHANGED current

\* windower.record: on to the next bucket, one, however many minutes passed.
record(ip) ==
  IF now > buckets[current].ts
  THEN LET c == (current + 1) % TotalBuckets
       IN  /\ current' = c
           /\ buckets' = [buckets EXCEPT ![c] = [newBucket(now) EXCEPT !.counts[ip] = 1]]
  ELSE /\ buckets' = [buckets EXCEPT ![current].counts[ip] = @ + 1]
       /\ UNCHANGED current

\* windower.stats: the count over the n most recent buckets.
stats(ip, n) ==
  LET recent == {(current - i + TotalBuckets) % TotalBuckets : i \in 0..n - 1}
  IN  MapThenSumSet(LAMBDA b : buckets[b].counts[ip], recent)

-----------------------------------------------------------------------------
\* Enrich (and TryEnrich): into the buffer first.
EnrichPush(ip) ==
  /\ pushed < MaxPushes
  /\ pushed' = pushed + 1
  /\ push(pushed + 1)
  /\ enriching' = IF ip = NoIp THEN enriching
                  ELSE enriching \cup {[id |-> pushed + 1, ip |-> ip]}
  /\ UNCHANGED <<policy, windower, now, recorded>>

\* Then into the counters; the metadata gets what stats returns some time later.
EnrichRecord(e) ==
  /\ e \in enriching
  /\ enriching' = enriching \ {e}
  /\ record(e.ip)
  /\ recorded' = recorded \cup {[id |-> e.id, ip |-> e.ip, at |-> now]}
  /\ UNCHANGED <<policy, buffer, now, pushed>>

NextMinute ==
  /\ now < LastMinute
  /\ now' = now + 1
  /\ UNCHANGED <<policy, buffer, windower, pushed, enriching, recorded>>

StreamNext ==
  \/ \E ip \in Ips \cup {NoIp} : EnrichPush(ip)
  \/ \E e \in enriching : EnrichRecord(e)
  \/ NextMinute

StreamSpec == StreamInit /\ [][StreamNext]_streamVars

-----------------------------------------------------------------------------
(* Properties.                                                             *)

(* Type invariant.  The buffer holds the newest events, or with            *)
(* drop_newest the oldest, in the order they came and with no gap, and     *)
(* what is not there was counted as dropped.                               *)
StreamTypeOK ==
  /\ data \in [0..Capacity - 1 -> 0..MaxPushes]
  /\ head \in 0..Capacity - 1 /\ count \in 0..Capacity /\ dropped \in 0..MaxPushes
  /\ current \in 0..TotalBuckets - 1
  /\ \A b \in 0..TotalBuckets - 1 :
       buckets[b].ts \in 0..now /\ buckets[b].counts \in [Ips -> 0..MaxPushes]
  /\ dropped = pushed - count
  /\ snapshot = [i \in 1..count |-> IF policy = "drop_oldest" THEN dropped + i ELSE i]

\* What the counter of n minutes stands for.
Counted(ip, n) == Cardinality({r \in recorded : r.ip = ip /\ r.at > now - n})

Windows == {1, MidBuckets, TotalBuckets}

(* A rate rule never misses a burst: a count is at least the number of     *)
(* events of the source in the minutes it stands for.  "covers the         *)
(* 15-minute window": it is exact as long as an event of any source was    *)
(* recorded in every minute; after a quiet minute it includes older        *)
(* events, since a bucket is not given up when time passes.                *)
CountsCoverWindow ==
  \A ip \in Ips, n \in Windows :
    /\ stats(ip, n) >= Counted(ip, n)
    /\ (\A m \in 0..now : \E r \in recorded : r.at = m) => stats(ip, n) = Counted(ip, n)
=============================================================================

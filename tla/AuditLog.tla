------------------------------ MODULE AuditLog ------------------------------
(***************************************************************************)
(* The hash-chained audit log file and the service that writes snapshots   *)
(* to it and verifies it (internal/storage/integrity).                     *)
(*                                                                         *)
(* An entry is its number (for its sequence, time and text), the hash of   *)
(* its predecessor and its own hash; a hash is the term it was computed    *)
(* from.  The file is a sequence of lines, and what follows the last       *)
(* newline: a write cut short leaves a piece of an entry there, or all of  *)
(* it but the newline, and the next write continues on the same line.      *)
(***************************************************************************)
EXTENDS Integers, Sequences, SequencesExt

CONSTANTS
  MaxWrites,   \* bound on the calls of Append
  MaxEdits     \* bound on the changes made behind the log's back

ASSUME AuditLogAssumption == MaxWrites \in Nat /\ MaxEdits \in Nat

Genesis == <<0, "genesis">>
Junk == [n |-> 0, text |-> "unparsable", prev |-> Genesis, hash |-> Genesis]
NoTail == [n |-> 0, text |-> "nothing", prev |-> Genesis, hash |-> Genesis]

VARIABLES
  lines,      \* the file up to its last newline
  tail,       \* what follows it: NoTail, Junk or an entry
  lastHash,   \* AuditLog.lastHash, in memory
  service,    \* "down", or where the service is: "boot", "wait", "verify"
  writes,     \* calls of Append so far
  edits,      \* changes made to the file by others
  acked,      \* history: the entries whose Append returned nil, in order
  damaged,    \* history: a write was cut short or refused
  alerted     \* history: the service has pushed its critical alert

auditFile == <<lines, tail>>
auditHistory == <<acked, damaged, alerted>>
auditVars == <<lines, tail, lastHash, service, writes, edits, acked, damaged, alerted>>

AuditInit ==
  /\ lines = <<>> /\ tail = NoTail
  /\ lastHash = Genesis /\ service = "down"
  /\ writes = 0 /\ edits = 0
  /\ acked = <<>> /\ damaged = FALSE /\ alerted = FALSE

-----------------------------------------------------------------------------
(* Reading the file.                                                       *)

computeEntryHash(e) == <<e.n, e.text, e.prev>>

splitLines(f, t) == IF t = NoTail THEN f ELSE Append(f, t)

\* Lines that do not parse are skipped, as recoverState does.
VerifyLenient(f, t) ==
  LET es == SelectSeq(splitLines(f, t), LAMBDA e : e # Junk)
  IN  \A i \in 1..Len(es) :
        /\ es[i].prev = IF i = 1 THEN Genesis ELSE es[i - 1].hash
        /\ es[i].hash = computeEntryHash(es[i])

\* Verify returns nil.
Verify(f, t) ==
  LET es == splitLines(f, t)
  IN  /\ \A i \in 1..Len(es) : es[i] # Junk
      /\ \A i \in 1..Len(es) :
           /\ es[i].prev = IF i = 1 THEN Genesis ELSE es[i - 1].hash
           /\ es[i].hash = computeEntryHash(es[i])

\* recoverState: the hash of the last line that parses.
recoverState(f, t) ==
  LET es == SelectSeq(splitLines(f, t), LAMBDA e : e # Junk)
  IN  IF es = <<>> THEN Genesis ELSE Last(es).hash

-----------------------------------------------------------------------------
(* Append, under the log's mutex.  The chain moves on before the write.    *)

\* A write of line e that got as far as w, appended to the file.
Write(e, w) ==
  CASE w = "nothing" -> UNCHANGED auditFile
    [] w = "a piece" -> lines' = lines /\ tail' = Junk
    [] w = "all but newline" ->
         lines' = lines /\ tail' = IF tail = NoTail THEN e ELSE Junk
    [] w = "line" ->
         lines' = Append(lines, IF tail = NoTail THEN e ELSE Junk) /\ tail' = NoTail

NewEntry ==
  LET e == [n |-> writes + 1, text |-> "logged", prev |-> lastHash, hash |-> Genesis]
  IN  [e EXCEPT !.hash = computeEntryHash(e)]

\* nil after the line was written and synced; an error of Write or of Sync.
AppendEntry ==
  /\ writes < MaxWrites
  /\ writes' = writes + 1
  /\ lastHash' = NewEntry.hash
  /\ \/ Write(NewEntry, "line") /\ acked' = Append(acked, NewEntry) /\ UNCHANGED damaged
     \/ Write(NewEntry, "line") /\ UNCHANGED <<acked, damaged>>
     \/ \E w \in {"nothing", "a piece", "all but newline"} :
          Write(NewEntry, w) /\ damaged' = TRUE /\ UNCHANGED acked

\* The process dies in Append: nothing is acknowledged.
CrashInAppend ==
  /\ service # "down" /\ writes < MaxWrites
  /\ writes' = writes + 1
  /\ \E w \in {"nothing", "a piece", "all but newline", "line"} :
       /\ Write(NewEntry, w)
       /\ damaged' = (damaged \/ w \in {"a piece", "all but newline"})
  /\ lastHash' = Genesis /\ service' = "down"
  /\ UNCHANGED <<edits, acked, alerted>>

-----------------------------------------------------------------------------
(* The service.                                                            *)

\* NewService with NewAuditLog; Start.
OpenAuditLog ==
  /\ service = "down"
  /\ lastHash' = recoverState(lines, tail)
  /\ service' = "boot"
  /\ UNCHANGED <<auditFile, writes, edits, auditHistory>>

\* The process stops or dies between two calls.
AuditCrash ==
  /\ service # "down"
  /\ lastHash' = Genesis /\ service' = "down"
  /\ UNCHANGED <<auditFile, writes, edits, auditHistory>>

LogAction ==
  /\ service # "down"
  /\ AppendEntry
  /\ UNCHANGED <<service, edits, alerted>>

\* takeSnapshot, at Start and at every tick: the Merkle root of the assets is
\* appended and the result ignored, or nothing is (no Merkle tree configured,
\* assets not listed).
TakeSnapshot ==
  /\ service \in {"boot", "wait"}
  /\ AppendEntry \/ UNCHANGED <<auditFile, lastHash, writes, acked, damaged>>
  /\ service' = IF service = "boot" THEN "wait" ELSE "verify"
  /\ UNCHANGED <<edits, alerted>>

\* A violation is written to the service's own log only.
VerifyAuditLogSilent ==
  /\ service = "verify"
  /\ service' = "wait"
  /\ UNCHANGED <<auditFile, lastHash, writes, edits, auditHistory>>

\* verifyAuditLog, the second half of a tick.
VerifyAuditLog ==
  /\ service = "verify"
  /\ service' = "wait"
  /\ alerted' = (alerted \/ ~ Verify(lines, tail))
  /\ UNCHANGED <<auditFile, lastHash, writes, edits, acked, damaged>>

\* Someone rewrites an entry, or removes one that others follow.
EditFile ==
  /\ edits < MaxEdits
  /\ edits' = edits + 1
  /\ \E i \in 1..Len(lines) :
       /\ lines[i] # Junk
       /\ \/ lines' = [lines EXCEPT ![i].text = "rewritten"]
          \/ i < Len(lines) /\ lines' = RemoveAt(lines, i)
  /\ UNCHANGED <<tail, lastHash, service, writes, auditHistory>>

AuditNext ==
  \/ OpenAuditLog \/ AuditCrash \/ CrashInAppend
  \/ LogAction \/ TakeSnapshot \/ VerifyAuditLog
  \/ EditFile

AuditSpec == AuditInit /\ [][AuditNext]_auditVars

-----------------------------------------------------------------------------
(* Properties.                                                             *)

AuditEntries ==
  {e \in Range(splitLines(lines, tail)) : e # Junk}

(* Type invariant; entries stand in the file in the order they were made.  *)
AuditTypeOK ==
  /\ service \in {"down", "boot", "wait", "verify"}
  /\ writes \in 0..MaxWrites /\ edits \in 0..MaxEdits
  /\ damaged \in BOOLEAN /\ alerted \in BOOLEAN
  /\ service = "down" => lastHash = Genesis
  /\ \A e \in AuditEntries : e.n \in 1..writes /\ e.text \in {"logged", "rewritten"}
  /\ LET es == SelectSeq(splitLines(lines, tail), LAMBDA e : e # Junk)
     IN  \A i \in 2..Len(es) : es[i - 1].n < es[i].n

(* What the chain is for: if Verify accepts the file, then every entry     *)
(* whose Append returned nil is in it, unchanged and in order, whatever    *)
(* was cut short, refused, rewritten or removed (but for the last lines).  *)
(* Nor does it cry wolf: restarts, a failed Sync, and a crash before or    *)
(* after the write do not break the chain, for recoverState continues it   *)
(* where the file ends.                                                    *)
VerifyTellsLoss ==
  /\ Verify(lines, tail) =>
       SelectSeq(splitLines(lines, tail), LAMBDA e : e \in Range(acked)) = acked
  /\ ~ damaged /\ edits = 0 => Verify(lines, tail)

(* The periodic verification reports a broken chain.                       *)
BreakIsReported == ~ Verify(lines, tail) ~> alerted
=============================================================================

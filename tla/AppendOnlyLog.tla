---------------------------- MODULE AppendOnlyLog ----------------------------
(***************************************************************************)
(* What the transparency log promises: one sequence of payloads that only  *)
(* ever grows at its end.  ("Stable once assigned; never reused":          *)
(* internal/storage/transparency/types.go on LeafIndex.)                   *)
(***************************************************************************)
EXTENDS Sequences

CONSTANT Payload

VARIABLE log

Init == log = <<>>

AppendPayload(p) == log' = Append(log, p)

Next == \E p \in Payload : AppendPayload(p)

Spec == Init /\ [][Next]_log
=============================================================================

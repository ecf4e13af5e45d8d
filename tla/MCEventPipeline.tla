--------------------------- MODULE MCEventPipeline ---------------------------
(* Inbound compliance messages for the runs of EventPipeline. *)
EXTENDS EventPipeline

Message(s, v, p) == [subject |-> s, severity |-> v, passed |-> p, by |-> "neotron"]

\* The two event types a message can become.
MCTypes == {Message("violation", "high", FALSE), Message("other", "low", FALSE)}
=============================================================================

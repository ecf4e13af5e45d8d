---------------------------- MODULE MCRetention ----------------------------
(* Values for Retention: one record of each kind, alerts outliving events. *)
EXTENDS Retention

MCKind == [r \in {"ev", "al", "as", "lf"} \cap Records |->
             CASE r = "ev" -> "event" [] r = "al" -> "alert"
               [] r = "as" -> "asset" [] r = "lf" -> "leaf"]

MCTTL == [k \in {"event", "alert", "asset"} |-> IF k = "alert" THEN 2 ELSE 1]
=============================================================================

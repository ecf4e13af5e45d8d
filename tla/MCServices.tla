----------------------------- MODULE MCServices -----------------------------
(***************************************************************************)
(* Services that share no state with the pipeline or with each other, and  *)
(* the liveness of key rotation and of the retention sweep (their safety   *)
(* is in MCComponents and MCStorage), checked side by side: a behaviour is *)
(* one of a single component, chosen at the start, while the others stay   *)
(* in one of their initial states.                                         *)
(***************************************************************************)
EXTENDS AuditLog, Migrations, NASMount, HubClients, KeyRotation, MCRetention

VARIABLE part   \* the component that runs

services == <<auditVars, migrationVars, nasVars, hubVars>>
stores == <<keyVars, retentionVars>>
vars == <<part, services, stores>>

\* What differs between a component's initial states matters only if it runs.
Init ==
  /\ part \in {"audit", "migrations", "nas", "hub", "keys", "retention"}
  /\ MigrationInit /\ (part # "migrations" => release = 1)
  /\ NasInit /\ (part # "nas" => ~ mounted)
  /\ AuditInit /\ HubInit /\ KeyInit /\ RetentionInit

Next ==
  /\ UNCHANGED part
  /\ \/ /\ UNCHANGED stores
        /\ \/ part = "audit" /\ AuditNext /\ UNCHANGED <<migrationVars, nasVars, hubVars>>
           \/ part = "migrations" /\ MigrationNext /\ UNCHANGED <<auditVars, nasVars, hubVars>>
           \/ part = "nas" /\ NasNext /\ UNCHANGED <<auditVars, migrationVars, hubVars>>
           \/ part = "hub" /\ HubNext /\ UNCHANGED <<auditVars, migrationVars, nasVars>>
     \/ /\ UNCHANGED services
        /\ \/ part = "keys" /\ KeyNext /\ UNCHANGED retentionVars
           \/ part = "retention" /\ RetentionNext /\ UNCHANGED keyVars

-----------------------------------------------------------------------------
(* Fairness.  The part that runs never changes, so a condition on actions  *)
(* of several components is one condition for each of them.                *)

InAudit(A) == part = "audit" /\ A /\ UNCHANGED <<migrationVars, nasVars, hubVars, stores>>
InNas(A) == part = "nas" /\ A /\ UNCHANGED <<auditVars, migrationVars, hubVars, stores>>
InHub(A) == part = "hub" /\ A /\ UNCHANGED <<auditVars, migrationVars, nasVars, stores>>
InKeys(A) == part = "keys" /\ A /\ UNCHANGED <<services, retentionVars>>
InRetention(A) == part = "retention" /\ A /\ UNCHANGED <<services, keyVars>>

\* What a sweep does after its two transactions.
SweepFinishes ==
  sweep.pc \in {"assets done", "copied"} /\ (SweepEnd \/ CompactCopy \/ CompactRename)

\* What happens unless it is prevented: the process comes back after a crash;
\* the NAS ticker fires, and a mount command returns within its timeout; the
\* connections' goroutines run, and a write returns by its deadline; a rotation
\* goes on, and another one is tried; a sweep comes to its end.
Prompt ==
  /\ WF_<<services, stores>>(InAudit(OpenAuditLog) \/ InNas(HealthTick) \/ InRetention(BootExisting))
  /\ WF_<<services, stores>>(InNas(Remount) \/ InRetention(SweepFinishes))
  /\ \A c \in Conns : WF_hubVars(InHub(ReadFails(c))) /\ WF_hubVars(InHub(WriteMessage(c)))
  /\ \A r \in Rotators : WF_keyVars(InKeys(RotateRead(r) \/ RotateUpdate(r)))

\* What happens if it is possible again and again: select does not pass over a
\* ready case for ever (it picks one at random); the process is not killed
\* before every tick of the audit log's verification or of the sweep; key
\* generation and the transactions of a sweep do not fail every time.
Recurrent ==
  /\ \A c \in Conns :
       /\ SF_<<services, stores>>(\/ InHub(Register(c)) \/ InAudit(service = "boot" /\ TakeSnapshot)
                                 \/ InRetention(SweepStart)
                                 \/ InKeys(\E r \in Rotators : RotateGenerate(r)))
       /\ SF_<<services, stores>>(\/ InHub(Unregister(c)) \/ InAudit(service = "wait" /\ TakeSnapshot)
                                 \/ InRetention(SweepEvents))
  /\ SF_<<services, stores>>(InAudit(VerifyAuditLog) \/ InRetention(SweepAssets))

Spec == Init /\ [][Next]_vars /\ Prompt /\ Recurrent

(* Type invariant of every service.                                        *)
TypeOK == AuditTypeOK /\ MigrationTypeOK /\ NasTypeOK /\ HubTypeOK

MCReleases == <<{1}, {1, 3}, {1, 3, 4, 6}>>
=============================================================================

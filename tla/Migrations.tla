----------------------------- MODULE Migrations -----------------------------
(***************************************************************************)
(* Schema migrations: the boot gate, `oswaka migrate up` and `down`, over  *)
(* releases of the binary that know different migrations                   *)
(* (internal/storage/migrations, cmd/oswaka/migrate.go).  The database     *)
(* file is locked, so one process at a time has it open.                   *)
(***************************************************************************)
EXTENDS Integers, Sequences, FiniteSets, FiniteSetsExt, SequencesExt

CONSTANTS
  Releases,      \* the releases: for each the ids of its registered migrations
  Irreversible   \* migrations without a Down function

AllIds == UNION Range(Releases)

\* A release keeps the migrations of the one before and adds higher ids only.
ASSUME ReleasesAssumption ==
  /\ Releases # <<>>
  /\ \A r \in DOMAIN Releases : Releases[r] \subseteq Nat \ {0}
  /\ \A r \in 2..Len(Releases) :
       /\ Releases[r - 1] \subseteq Releases[r]
       /\ \A m \in Releases[r] \ Releases[r - 1], k \in Releases[r - 1] : k < m

VARIABLES
  applied,   \* schema_version/applied; 0 when absent
  schema,    \* the migrations whose effect is in the database
  release,   \* the release installed
  proc       \* the process that has the database open

migrationVars == <<applied, schema, release, proc>>

NoProc == [pc |-> "none", by |-> "none", pending |-> <<>>]
Serving == [pc |-> "serving", by |-> "boot", pending |-> <<>>]

MigrationInit ==
  /\ applied = 0 /\ schema = {}
  /\ release \in DOMAIN Releases
  /\ proc = NoProc

\* All: the registered migrations of the installed release, in order of id.
All == SetToSortSeq(Releases[release], <)
AvailableID == IF All = <<>> THEN 0 ELSE Last(All)

\* CurrentStatus.Pending.
Pending == SelectSeq(All, LAMBDA m : m > applied)

-----------------------------------------------------------------------------
\* An upgrade, or a rollback, of the binary.
InstallRelease ==
  /\ proc = NoProc
  /\ release' \in DOMAIN Releases \ {release}
  /\ UNCHANGED <<applied, schema, proc>>

\* The boot gate without the downgrade test.
CheckBootNoDowngrade(autoMigrate) ==
  /\ proc = NoProc
  /\ \/ Pending = <<>> /\ proc' = Serving
     \/ /\ Pending # <<>> /\ autoMigrate
        /\ proc' = [pc |-> "migrating", by |-> "boot", pending |-> Pending]
  /\ UNCHANGED <<applied, schema, release>>

\* CheckBoot: ErrDowngradeDetected and ErrPendingMigrations end the process
\* with no effect.
CheckBoot(autoMigrate) ==
  /\ proc = NoProc
  /\ applied <= AvailableID
  /\ \/ Pending = <<>> /\ proc' = Serving
     \/ /\ Pending # <<>> /\ autoMigrate
        /\ proc' = [pc |-> "migrating", by |-> "boot", pending |-> Pending]
  /\ UNCHANGED <<applied, schema, release>>

\* `oswaka migrate up`: RunUp with something to do.
MigrateUp ==
  /\ proc = NoProc
  /\ applied <= AvailableID /\ Pending # <<>>
  /\ proc' = [pc |-> "migrating", by |-> "cli", pending |-> Pending]
  /\ UNCHANGED <<applied, schema, release>>

\* The process goes on to its next migration, or is done.
Advance ==
  proc' = IF Len(proc.pending) > 1 THEN [proc EXCEPT !.pending = Tail(proc.pending)]
          ELSE IF proc.by = "boot" THEN Serving ELSE NoProc

\* The migration commits; its id is recorded after the last one only.
ApplyMigrationLateId ==
  /\ proc.pc = "migrating"
  /\ schema' = schema \cup {Head(proc.pending)}
  /\ applied' = IF Len(proc.pending) = 1 THEN Head(proc.pending) ELSE applied
  /\ Advance
  /\ UNCHANGED release

\* One turn of RunUp's loop: Up and the applied id in one transaction.
ApplyMigration ==
  /\ proc.pc = "migrating"
  /\ schema' = schema \cup {Head(proc.pending)}
  /\ applied' = Head(proc.pending)
  /\ Advance
  /\ UNCHANGED release

\* Up failed and the transaction was rolled back, or the process died; also
\* the end of a server.
ProcessEnds ==
  /\ proc # NoProc
  /\ proc' = NoProc
  /\ UNCHANGED <<applied, schema, release>>

\* `oswaka migrate down --confirm`: RunDown.  An unknown or irreversible
\* migration, and a failed Down, leave the database alone.
RunDown ==
  /\ proc = NoProc
  /\ applied \in Releases[release] \ Irreversible
  /\ schema' = schema \ {applied}
  /\ applied' = Max({0} \cup {m \in Releases[release] : m < applied})
  /\ UNCHANGED <<release, proc>>

MigrationNext ==
  \/ InstallRelease
  \/ \E autoMigrate \in BOOLEAN : CheckBoot(autoMigrate)
  \/ MigrateUp \/ ApplyMigration \/ ProcessEnds \/ RunDown

MigrationSpec == MigrationInit /\ [][MigrationNext]_migrationVars

-----------------------------------------------------------------------------
(* Properties.                                                             *)

(* Type invariant.  What is left to do was not done before, so no Up runs  *)
(* on a database that already has its effect.  And runner.go's "a partial  *)
(* run leaves the DB at a consistent intermediate state": the effects in   *)
(* the database are those of the migrations up to the applied id, through  *)
(* failed runs, down-migrations and releases in any order.                 *)
MigrationTypeOK ==
  /\ applied \in {0} \cup AllIds
  /\ release \in DOMAIN Releases
  /\ proc.pc \in {"none", "migrating", "serving"}
  /\ proc.pc = "migrating" <=> proc.pending # <<>>
  /\ Range(proc.pending) \subseteq AllIds \ schema
  /\ schema = {m \in AllIds : m <= applied}

(* The gate: a server runs only on the schema its own release expects,     *)
(* neither an older one nor one a newer release left.                      *)
ServesOwnSchema == proc = Serving => schema = Releases[release]
=============================================================================

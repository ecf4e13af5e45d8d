------------------------------ MODULE MCStorage ------------------------------
(***************************************************************************)
(* Storage, checked side by side: the proof algorithms of the Merkle tree, *)
(* the transparency log, the life of the database file, and backup and     *)
(* restore.  A behaviour is one of a single component, chosen at the       *)
(* start, while the others stay in their initial states.                   *)
(***************************************************************************)
EXTENDS MerkleAudit, TransparencyLog, MCRetention, Backup

VARIABLE part   \* the component that runs

storageVars == <<part, merkleVars, vars, retentionVars, backupVars>>

StorageInit ==
  /\ part \in {"merkle", "log", "retention", "backup"}
  /\ MerkleInit /\ Init /\ RetentionInit /\ BackupInit

StorageNext ==
  /\ UNCHANGED part
  /\ \/ part = "merkle" /\ MerkleNext /\ UNCHANGED <<vars, retentionVars, backupVars>>
     \/ part = "log" /\ Next /\ UNCHANGED <<merkleVars, retentionVars, backupVars>>
     \/ part = "retention" /\ RetentionNext /\ UNCHANGED <<merkleVars, vars, backupVars>>
     \/ part = "backup" /\ BackupNext /\ UNCHANGED <<merkleVars, vars, retentionVars>>

StorageSpec == StorageInit /\ [][StorageNext]_storageVars

(* Type invariant of every part.                                           *)
StorageTypeOK == TypeOK /\ RetentionTypeOK /\ BackupTypeOK
=============================================================================

------------------------------ MODULE NASMount ------------------------------
(***************************************************************************)
(* The NAS connector: mounting with retries, the health loop, and the      *)
(* events they push (internal/storage/nas).  The share comes and goes on   *)
(* its own, and a mount command that timed out may still have mounted it.  *)
(***************************************************************************)
EXTENDS Naturals

CONSTANTS RetryAttempts   \* attempts at Start

ASSUME NASMountAssumption == RetryAttempts \in Nat \ {0}

VARIABLES
  mounted,     \* the share is in /proc/mounts
  nas,         \* "off", "mounting", "failed", "watching", "remounting", "stopped"
  attempts,    \* failed attempts at Start
  wasHealthy,  \* healthLoop's variable
  status,      \* the last status pushed, or "none"
  unmounted    \* Stop has been called

nasVars == <<mounted, nas, attempts, wasHealthy, status, unmounted>>

NasInit ==
  /\ mounted \in BOOLEAN
  /\ nas = "off" /\ attempts = 0 /\ wasHealthy = FALSE /\ status = "none"
  /\ unmounted = FALSE

emitHealthEvent(s) == status' = s

\* healthLoop starts believing the share is gone.
NasWatchUnhealthy ==
  /\ nas' = "watching" /\ wasHealthy' = FALSE /\ emitHealthEvent("mounted")

\* Start goes on after a successful mount.
NasWatch ==
  /\ nas' = "watching" /\ wasHealthy' = TRUE /\ emitHealthEvent("mounted")

NasStart ==
  /\ nas = "off"
  /\ nas' = "mounting"
  /\ UNCHANGED <<mounted, attempts, wasHealthy, status, unmounted>>

\* Mount returns nil: it was mounted, or the command succeeded.
MountWithRetry ==
  /\ nas = "mounting"
  /\ mounted' = TRUE
  /\ NasWatch
  /\ UNCHANGED <<attempts, unmounted>>

\* Mount fails (also where it is mounted, if the mount point cannot be read);
\* after the last attempt, or when the context has ended, Start gives up and
\* starts no loop.
MountRetryFails ==
  /\ nas = "mounting"
  /\ mounted' \in {mounted, TRUE}
  /\ attempts' = attempts + 1
  /\ \/ attempts + 1 < RetryAttempts /\ UNCHANGED <<nas, status>>
     \/ nas' = "failed" /\ emitHealthEvent("mount_failed")
  /\ UNCHANGED <<wasHealthy, unmounted>>

\* A tick of healthLoop that finds the status changed.
HealthTick ==
  /\ nas = "watching"
  /\ \/ /\ mounted /\ ~ wasHealthy
        /\ emitHealthEvent("recovered") /\ wasHealthy' = TRUE /\ UNCHANGED nas
     \/ /\ ~ mounted /\ wasHealthy
        /\ emitHealthEvent("mount_lost") /\ wasHealthy' = FALSE /\ nas' = "remounting"
  /\ UNCHANGED <<mounted, attempts, unmounted>>

\* The one remount attempt, which takes up to the command's timeout.
Remount ==
  /\ nas = "remounting"
  /\ nas' = "watching"
  /\ \/ mounted' = TRUE /\ wasHealthy' = TRUE /\ emitHealthEvent("remounted")
     \/ mounted' \in {mounted, TRUE} /\ UNCHANGED <<wasHealthy, status>>
  /\ UNCHANGED <<attempts, unmounted>>

\* The share is lost, or somebody else mounts it.
ShareChanges ==
  /\ mounted' = ~ mounted
  /\ UNCHANGED <<nas, attempts, wasHealthy, status, unmounted>>

\* Stop, when Run returns: unmounts the share, or fails to.  The loop goes on,
\* and may find the share gone and mount it again.
NasStop ==
  /\ nas \in {"failed", "watching", "remounting"} /\ ~ unmounted
  /\ unmounted' = TRUE
  /\ mounted' \in {mounted, FALSE}
  /\ UNCHANGED <<nas, attempts, wasHealthy, status>>

\* The context ends, the last thing Run does, and with it the loop.
NasEnds ==
  /\ unmounted /\ nas # "stopped"
  /\ nas' = "stopped"
  /\ UNCHANGED <<mounted, attempts, wasHealthy, status, unmounted>>

NasNext ==
  \/ NasStart \/ MountWithRetry \/ MountRetryFails
  \/ HealthTick \/ Remount \/ ShareChanges \/ NasStop \/ NasEnds

NasSpec == NasInit /\ [][NasNext]_nasVars

-----------------------------------------------------------------------------
(* Properties.                                                             *)

Available == {"mounted", "recovered", "remounted"}
Lost == {"mount_lost", "mount_failed"}

(* Type invariant; the loop's variable agrees with the last status pushed. *)
NasTypeOK ==
  /\ mounted \in BOOLEAN /\ wasHealthy \in BOOLEAN
  /\ nas \in {"off", "mounting", "failed", "watching", "remounting", "stopped"}
  /\ attempts \in 0..RetryAttempts /\ unmounted \in BOOLEAN
  /\ status \in Available \cup Lost \cup {"none"}
  /\ nas = "watching" => (wasHealthy <=> status \in Available)

(* A loss that lasts is reported, and so is a return that lasts, also of a *)
(* share that was mounted by a command reported as failed.                 *)
NasStatusReported ==
  /\ (nas = "watching" /\ ~ mounted) ~> (mounted \/ status \in Lost \/ nas = "stopped")
  /\ (nas = "watching" /\ mounted) ~> (~ mounted \/ status \in Available \/ nas = "stopped")
=============================================================================

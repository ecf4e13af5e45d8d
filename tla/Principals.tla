----------------------------- MODULE Principals -----------------------------
(***************************************************************************)
(* The in-memory principal store and the OIDC logins of one subject        *)
(* (internal/identity/memory_store.go, oidc/mapping.go, middleware): a     *)
(* login looks the subject up, then refreshes the principal it found or    *)
(* provisions one; operators change a principal's status; requests resolve *)
(* a token's principal.  The store hands out pointers, so everyone shares  *)
(* one record per principal.                                               *)
(***************************************************************************)
EXTENDS Naturals, FiniteSets

CONSTANTS
  Logins,           \* logins; each may provision the principal of its own name
  Roles,            \* roles the identity provider's groups map to
  AutoProvisioning, \* values of AutoProvision
  Provisioned,      \* a principal operators may have stored for the subject
  NoPrincipal       \* the absence of a principal

Ids == Logins \cup {Provisioned}

Principal == [status : {"active", "suspended"}, roles : SUBSET Roles]

ASSUME PrincipalsAssumption ==
  /\ IsFiniteSet(Logins) /\ AutoProvisioning \subseteq BOOLEAN
  /\ Provisioned \notin Logins /\ NoPrincipal \notin Ids \cup Principal

VARIABLES
  autoProvision,  \* AutoProvision
  byID,           \* byID: identifier -> principal, or NoPrincipal
  bySubject,      \* the identifier the subject is indexed under
  login,          \* login -> "new", "refresh", "create", "issue", "done", "refused"
  match,          \* login -> the principal it works with
  session,        \* login -> the principal its token names
  ordered,        \* history: identifier -> the status operators gave it last
  crossed         \* history: a login began while another was under way

principalVars == <<autoProvision, byID, bySubject, login, match, session, ordered, crossed>>

PrincipalInit ==
  /\ autoProvision \in AutoProvisioning
  /\ \E R \in SUBSET Roles :
       \/ /\ byID = [id \in Ids |-> IF id = Provisioned THEN [status |-> "active", roles |-> R]
                                                        ELSE NoPrincipal]
          /\ bySubject = Provisioned
       \/ byID = [id \in Ids |-> NoPrincipal] /\ bySubject = NoPrincipal
  /\ login = [l \in Logins |-> "new"]
  /\ match = [l \in Logins |-> NoPrincipal]
  /\ session = [l \in Logins |-> NoPrincipal]
  /\ ordered = [id \in Ids |-> "active"]
  /\ crossed = FALSE

Active(id) == byID[id] # NoPrincipal /\ byID[id].status = "active"
Goto(l, pc) == login' = [login EXCEPT ![l] = pc]

-----------------------------------------------------------------------------
(* DefaultMapper.Map and the callback that follows it.                     *)

\* FindBySubject under the read lock, and the checks on what it returns.
FindBySubject(l) ==
  /\ login[l] = "new"
  /\ match' = [match EXCEPT ![l] = bySubject]
  /\ \/ bySubject # NoPrincipal /\ Goto(l, IF Active(bySubject) THEN "refresh" ELSE "refused")
     \/ bySubject = NoPrincipal /\ Goto(l, IF autoProvision THEN "create" ELSE "refused")
  /\ crossed' = (crossed \/ \E k \in Logins : login[k] \in {"refresh", "create"})
  /\ UNCHANGED <<autoProvision, byID, bySubject, session, ordered>>

\* The record read at the lookup is written back whole.
RefreshPrincipalCopy(l) ==
  /\ login[l] = "refresh" /\ Goto(l, "issue")
  /\ \E R \in SUBSET Roles :
       byID' = [byID EXCEPT ![match[l]] = [status |-> "active", roles |-> R]]
  /\ UNCHANGED <<autoProvision, bySubject, match, session, ordered, crossed>>

\* Roles are replaced in the shared record, which Save stores again; what the
\* record says of its status now is not looked at.
RefreshPrincipal(l) ==
  /\ login[l] = "refresh" /\ Goto(l, "issue")
  /\ \E R \in SUBSET Roles : byID' = [byID EXCEPT ![match[l]].roles = R]
  /\ bySubject' = match[l]
  /\ UNCHANGED <<autoProvision, match, session, ordered, crossed>>

\* Two logins write the claims map of one principal at once: the runtime may
\* stop the process, and the store with it.
ClaimsRace ==
  /\ \E k, l \in Logins : k # l /\ login[k] = "refresh" /\ login[l] = "refresh"
                          /\ match[k] = match[l]
  /\ login' = [l \in Logins |-> IF login[l] = "new" THEN "new" ELSE "done"]
  /\ byID' = [id \in Ids |-> NoPrincipal] /\ bySubject' = NoPrincipal
  /\ session' = [l \in Logins |-> NoPrincipal]
  /\ ordered' = [id \in Ids |-> "active"]
  /\ UNCHANGED <<autoProvision, match, crossed>>

\* A principal with a fresh identifier is saved, and indexed by its subject.
CreatePrincipal(l) ==
  /\ login[l] = "create" /\ Goto(l, "issue")
  /\ \E R \in SUBSET Roles : byID' = [byID EXCEPT ![l] = [status |-> "active", roles |-> R]]
  /\ bySubject' = l
  /\ match' = [match EXCEPT ![l] = l]
  /\ UNCHANGED <<autoProvision, session, ordered, crossed>>

\* issuer.Issue for the principal Map returned.
IssueSession(l) ==
  /\ login[l] = "issue" /\ Goto(l, "done")
  /\ session' = [session EXCEPT ![l] = match[l]]
  /\ UNCHANGED <<autoProvision, byID, bySubject, match, ordered, crossed>>

\* UpdateStatus, under the write lock.
UpdateStatus(id, status) ==
  /\ byID[id] # NoPrincipal /\ byID[id].status # status
  /\ byID' = [byID EXCEPT ![id].status = status]
  /\ ordered' = [ordered EXCEPT ![id] = status]
  /\ UNCHANGED <<autoProvision, bySubject, login, match, session, crossed>>

PrincipalNext ==
  \/ \E l \in Logins :
       FindBySubject(l) \/ RefreshPrincipal(l) \/ CreatePrincipal(l) \/ IssueSession(l)
  \/ \E id \in Ids, status \in {"active", "suspended"} : UpdateStatus(id, status)
  \/ ClaimsRace

PrincipalSpec == PrincipalInit /\ [][PrincipalNext]_principalVars

-----------------------------------------------------------------------------
(* Properties.                                                             *)

(* Type invariant; the index names a stored principal, and every session   *)
(* one that requests can resolve (Authenticate looks it up by identifier), *)
(* also where two first logins provisioned the subject twice; without such *)
(* a crossing a subject has one principal, the one the index names.        *)
PrincipalTypeOK ==
  /\ byID \in [Ids -> Principal \cup {NoPrincipal}]
  /\ login \in [Logins -> {"new", "refresh", "create", "issue", "done", "refused"}]
  /\ bySubject # NoPrincipal => byID[bySubject] # NoPrincipal
  /\ \A l \in Logins : session[l] # NoPrincipal => byID[session[l]] # NoPrincipal
  /\ ~ crossed => \A id \in Ids : byID[id] # NoPrincipal => id = bySubject

(* A suspension sticks: no login that was under way, whatever it had       *)
(* already checked, brings back a principal an operator suspended, so      *)
(* requests with its tokens stay refused until an operator reactivates it. *)
StatusIsOperators == \A id \in Ids : byID[id] # NoPrincipal => byID[id].status = ordered[id]
=============================================================================

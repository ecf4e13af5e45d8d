---------------------------- MODULE PolicyEngine ----------------------------
(***************************************************************************)
(* The authorization engine (internal/authz): requests decide against a    *)
(* snapshot of the policy, role by role, while SIGHUP and the admin        *)
(* endpoint replace the policy and report what changed.                    *)
(***************************************************************************)
EXTENDS Naturals, Sequences, FiniteSets

CONSTANTS
  Policies,   \* policies files may hold: role -> its permission keys, listed
  NoPolicy,   \* the engine's pointer before a policy is stored
  Requests,   \* requests
  RolesOf,    \* request -> its principal's roles, in order
  Wants,      \* request -> the grant it needs
  Reloaders,  \* goroutines that reload: the SIGHUP watcher, admin handlers
  MaxReloads  \* bound on the reloads

\* The loader's dedupPermissions leaves no permission of a role twice.
NoDuplicates(perms) == \A i, j \in 1..Len(perms) : perms[i] = perms[j] => i = j

ASSUME PolicyAssumption ==
  /\ NoPolicy \notin Policies /\ MaxReloads \in Nat
  /\ \A p \in Policies : \A r \in DOMAIN p : p[r] \in Seq(STRING) /\ NoDuplicates(p[r])
  /\ RolesOf \in [Requests -> Seq(STRING)] /\ DOMAIN Wants = Requests

VARIABLES
  currentPolicy,    \* Engine.current
  request,    \* request -> "new", "checking", "allow", "deny", "error"
  decideBy,   \* request -> the policy Allowed loaded
  next,       \* request -> index of the role it checks next
  reload,     \* reloader -> [pc, next, prev]
  reloads,    \* reloads begun, for the bound
  during,     \* history: request -> policies in force while it was decided
  changed,    \* history: roles that replacements changed, and
  reported    \* roles that diffs named, since the engine was last at rest

policyVars ==
  <<currentPolicy, request, decideBy, next, reload, reloads, during, changed, reported>>

Idle == [pc |-> "idle", next |-> NoPolicy, prev |-> NoPolicy]

\* NewEngine(nil), then Replace if the roles file loads; if it does not, the
\* SIGHUP watcher is not started.
PolicyInit ==
  /\ currentPolicy \in Policies \cup {NoPolicy}
  /\ request = [q \in Requests |-> "new"]
  /\ decideBy = [q \in Requests |-> NoPolicy]
  /\ next = [q \in Requests |-> 1]
  /\ reload = [w \in Reloaders |->
       IF w = "sighup" /\ currentPolicy = NoPolicy THEN [Idle EXCEPT !.pc = "off"] ELSE Idle]
  /\ reloads = 0 /\ changed = {} /\ reported = {}
  /\ during = [q \in Requests |-> {}]

-----------------------------------------------------------------------------
(* Engine.Allowed.                                                         *)

\* The policy is loaded once; without one, or without roles, the answer is known.
LoadSnapshot(q) ==
  /\ request[q] = "new"
  /\ decideBy' = [decideBy EXCEPT ![q] = currentPolicy]
  /\ during' = [during EXCEPT ![q] = {currentPolicy}]
  /\ request' = [request EXCEPT ![q] =
       IF currentPolicy = NoPolicy THEN "error" ELSE IF RolesOf[q] = <<>> THEN "deny" ELSE "checking"]
  /\ UNCHANGED <<currentPolicy, next, reload, reloads, changed, reported>>

Elements(perms) == {perms[i] : i \in 1..Len(perms)}

\* What role index k of the request is granted by policy p; unknown roles nothing.
Grants(p, q, k) == IF RolesOf[q][k] \in DOMAIN p THEN Elements(p[RolesOf[q][k]]) ELSE {}

\* The policy asked for anew for every role.
CheckRoleReloads(q) ==
  /\ request[q] = "checking"
  /\ request' = [request EXCEPT ![q] =
       IF Wants[q] \in Grants(currentPolicy, q, next[q]) THEN "allow"
       ELSE IF next[q] = Len(RolesOf[q]) THEN "deny" ELSE @]
  /\ next' = [next EXCEPT ![q] = @ + 1]
  /\ UNCHANGED <<currentPolicy, decideBy, reload, reloads, during, changed, reported>>

\* One iteration of the loop over the roles.
CheckRole(q) ==
  /\ request[q] = "checking"
  /\ request' = [request EXCEPT ![q] =
       IF Wants[q] \in Grants(decideBy[q], q, next[q]) THEN "allow"
       ELSE IF next[q] = Len(RolesOf[q]) THEN "deny" ELSE @]
  /\ next' = [next EXCEPT ![q] = @ + 1]
  /\ UNCHANGED <<currentPolicy, decideBy, reload, reloads, during, changed, reported>>

-----------------------------------------------------------------------------
(* Engine.ReloadBytes.                                                     *)

\* How often a permission key is listed.
Occurs(perms, k) == Cardinality({i \in 1..Len(perms) : perms[i] = k})

\* The lists have the same length and, once sorted, the same keys.
rolePermsEqual(a, b) ==
  /\ Len(a) = Len(b)
  /\ \A k \in Elements(a) \cup Elements(b) : Occurs(a, k) = Occurs(b, k)

diffPolicies(prev, policy) ==
  IF prev = NoPolicy
  THEN [added |-> DOMAIN policy, removed |-> {}, modified |-> {}]
  ELSE [added |-> DOMAIN policy \ DOMAIN prev, removed |-> DOMAIN prev \ DOMAIN policy,
        modified |-> {r \in DOMAIN prev \cap DOMAIN policy : ~ rolePermsEqual(prev[r], policy[r])}]

\* The roles two policies do not give the same permissions.
RolesIn(p) == IF p = NoPolicy THEN {} ELSE DOMAIN p
SameRole(p, s, r) ==
  \/ r \notin RolesIn(p) \cup RolesIn(s)
  \/ r \in RolesIn(p) \cap RolesIn(s) /\ Elements(p[r]) = Elements(s[r])
Differ(p, s) == {r \in RolesIn(p) \cup RolesIn(s) : ~ SameRole(p, s, r)}

AtRest == \A w \in Reloaders : reload[w].pc \in {"idle", "off"}

\* LoadBytes accepts a file, and prev is read; the history starts anew if no
\* other reload is under way.
ReloadBegins(w, p) ==
  /\ reload[w].pc = "idle" /\ reloads < MaxReloads
  /\ reload' = [reload EXCEPT ![w] = [pc |-> "replace", next |-> p, prev |-> currentPolicy]]
  /\ reloads' = reloads + 1
  /\ changed' = IF AtRest THEN {} ELSE changed
  /\ reported' = IF AtRest THEN {} ELSE reported
  /\ UNCHANGED <<currentPolicy, request, decideBy, next, during>>

\* A file that does not load changes nothing.
ReloadFails(w) ==
  /\ reload[w].pc = "idle" /\ reloads < MaxReloads
  /\ UNCHANGED policyVars

\* Replace.
ReplacePolicy(w) ==
  /\ reload[w].pc = "replace"
  /\ currentPolicy' = reload[w].next
  /\ reload' = [reload EXCEPT ![w].pc = "report"]
  /\ changed' = changed \cup Differ(currentPolicy, reload[w].next)
  /\ during' = [q \in Requests |-> IF request[q] = "checking" THEN during[q] \cup {reload[w].next}
                                                               ELSE during[q]]
  /\ UNCHANGED <<request, decideBy, next, reloads, reported>>

\* The roles a diff names.
Named(d) == d.added \cup d.removed \cup d.modified

\* The policy in force is taken for the previous one.
ReportDiffLate(w) ==
  /\ reload[w].pc = "report"
  /\ reported' = reported \cup Named(diffPolicies(currentPolicy, reload[w].next))
  /\ reload' = [reload EXCEPT ![w] = Idle]
  /\ UNCHANGED <<currentPolicy, request, decideBy, next, reloads, during, changed>>

\* The diff goes to the audit trail or, after a SIGHUP, to the log.
ReportDiff(w) ==
  /\ reload[w].pc = "report"
  /\ reported' = reported \cup Named(diffPolicies(reload[w].prev, reload[w].next))
  /\ reload' = [reload EXCEPT ![w] = Idle]
  /\ UNCHANGED <<currentPolicy, request, decideBy, next, reloads, during, changed>>

PolicyNext ==
  \/ \E q \in Requests : LoadSnapshot(q) \/ CheckRole(q)
  \/ \E w \in Reloaders : ReloadFails(w) \/ ReplacePolicy(w) \/ ReportDiff(w)
  \/ \E w \in Reloaders, p \in Policies : ReloadBegins(w, p)

PolicySpec == PolicyInit /\ [][PolicyNext]_policyVars

-----------------------------------------------------------------------------
(* Properties.                                                             *)

(* Type invariant; a request that is being checked has a policy, and once  *)
(* the engine has one it keeps the last good one.                          *)
PolicyTypeOK ==
  /\ currentPolicy \in Policies \cup {NoPolicy}
  /\ request \in [Requests -> {"new", "checking", "allow", "deny", "error"}]
  /\ \A q \in Requests :
       /\ request[q] \in {"checking", "allow"} => decideBy[q] # NoPolicy /\ currentPolicy # NoPolicy
       /\ request[q] = "checking" => next[q] \in 1..Len(RolesOf[q])
  /\ \A w \in Reloaders : reload[w].pc = "report" => currentPolicy # NoPolicy

Granted(p, q) == \E k \in 1..Len(RolesOf[q]) : Wants[q] \in Grants(p, q, k)

(* engine.go: "in-flight decisions always see a consistent Policy": an     *)
(* answer is the one a single policy gives, in force at some time while    *)
(* the request was decided, however many reloads fall in between.          *)
DecisionConsistent ==
  \A q \in Requests :
    /\ request[q] = "allow" => \E p \in during[q] : Granted(p, q)
    /\ request[q] = "deny" => \E p \in during[q] : ~ Granted(p, q)

(* reload.go: the diffs let the audit log "answer `what changed and when'",*)
(* by "the effective permission set".  However reloads overlap, once they  *)
(* have all reported, their diffs name between them exactly the roles that *)
(* some replacement changed, although a diff may be relative to a policy   *)
(* that was no longer in force.                                            *)
DiffsTellChanges == AtRest => reported = changed
=============================================================================

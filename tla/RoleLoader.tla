----------------------------- MODULE RoleLoader -----------------------------
(***************************************************************************)
(* authz.LoadBytes (internal/authz/loader.go): a policy file's roles are   *)
(* read, the roles they inherit are expanded into their permissions one    *)
(* role after the other, in the order of a Go map, and the result is       *)
(* validated.  Expansion writes the permissions other expansions read.     *)
(***************************************************************************)
EXTENDS Naturals, FiniteSets

CONSTANTS
  RoleFiles   \* policy files: [yaml |-> is it valid YAML?, own |-> role -> permissions,
              \*                inherits |-> role -> roles]

Permission == [resource : STRING, action : STRING, conditional : BOOLEAN]

ASSUME RoleLoaderAssumption ==
  \A f \in RoleFiles :
    /\ f.yaml \in BOOLEAN /\ DOMAIN f.own = DOMAIN f.inherits
    /\ \A r \in DOMAIN f.own : f.own[r] \subseteq Permission /\ IsFiniteSet(f.inherits[r])

VARIABLES
  roleFile,     \* the file being loaded
  permissions,  \* role -> Role.Permissions
  unexpanded,   \* roles pass 2 has not come to
  loaded        \* "no", "hydrated", "ok" or "error"

loaderVars == <<roleFile, permissions, unexpanded, loaded>>

LoaderInit ==
  /\ roleFile \in RoleFiles
  /\ permissions = <<>> /\ unexpanded = {}
  /\ loaded = "no"

-----------------------------------------------------------------------------
\* What pass 1 demands: YAML, names for the roles, resources and actions.
WellFormed(f) ==
  /\ f.yaml
  /\ "" \notin DOMAIN f.own
  /\ \A r \in DOMAIN f.own : \A p \in f.own[r] : p.resource # "" /\ p.action # ""

\* Pass 1.
Hydrate ==
  /\ loaded = "no"
  /\ IF WellFormed(roleFile)
     THEN /\ permissions' = roleFile.own /\ unexpanded' = DOMAIN roleFile.own
          /\ loaded' = "hydrated"
     ELSE loaded' = "error" /\ UNCHANGED <<permissions, unexpanded>>
  /\ UNCHANGED roleFile

Failed == [ok |-> FALSE, perms |-> {}]

\* Only the parents' own permissions.
expandParents(inherits, perms, role, seen) ==
  IF \E p \in inherits[role] : p \in seen \/ p \notin DOMAIN inherits
  THEN Failed
  ELSE [ok |-> TRUE, perms |-> UNION {perms[p] : p \in inherits[role]}]

\* Inherited permissions, depth first; seen holds the roles on the stack.
RECURSIVE expandInherits(_, _, _, _)
expandInherits(inherits, perms, role, seen) ==
  IF \E p \in inherits[role] : p \in seen \/ p \notin DOMAIN inherits
  THEN Failed
  ELSE LET grand == [p \in inherits[role] |->
                       expandInherits(inherits, perms, p, seen \cup {p})]
       IN IF \E p \in inherits[role] : ~ grand[p].ok
          THEN Failed
          ELSE [ok |-> TRUE,
                perms |-> UNION {perms[p] \cup grand[p].perms : p \in inherits[role]}]

expansion(r) == expandInherits(roleFile.inherits, permissions, r, {r})

\* One iteration of pass 2, for any role left; duplicates are dropped.
ExpandRole(r) ==
  /\ loaded = "hydrated" /\ r \in unexpanded
  /\ unexpanded' = unexpanded \ {r}
  /\ IF expansion(r).ok
     THEN permissions' = [permissions EXCEPT ![r] = @ \cup expansion(r).perms]
          /\ UNCHANGED loaded
     ELSE loaded' = "error" /\ UNCHANGED permissions
  /\ UNCHANGED roleFile

GrantsAll(p) == p.resource = "*" /\ p.action = "admin" /\ ~ p.conditional

\* validate: some role grants *:admin, and no role another action on "*".
validate(perms) ==
  /\ \E r \in DOMAIN perms : \E p \in perms[r] : GrantsAll(p)
  /\ \A r \in DOMAIN perms : \A p \in perms[r] : p.resource = "*" => p.action = "admin"

\* Pass 3.
Validate ==
  /\ loaded = "hydrated" /\ unexpanded = {}
  /\ loaded' = IF validate(permissions) THEN "ok" ELSE "error"
  /\ UNCHANGED <<roleFile, permissions, unexpanded>>

LoaderNext ==
  \/ Hydrate
  \/ \E r \in unexpanded : ExpandRole(r)
  \/ Validate

LoaderSpec == LoaderInit /\ [][LoaderNext]_loaderVars

-----------------------------------------------------------------------------
(* Properties.                                                             *)

(* Type invariant; a role never loses a permission the file gives it.      *)
LoaderTypeOK ==
  /\ loaded \in {"no", "hydrated", "ok", "error"}
  /\ unexpanded \subseteq DOMAIN permissions
  /\ loaded \in {"hydrated", "ok"} => DOMAIN permissions = DOMAIN roleFile.own
  /\ \A r \in DOMAIN permissions : roleFile.own[r] \subseteq permissions[r]

\* The least set with r that inheritance does not lead out of.
Ancestors(f, r) ==
  LET names == DOMAIN f.own \cup UNION {f.inherits[q] : q \in DOMAIN f.own}
      closed == {A \in SUBSET names : r \in A /\ \A q \in A \cap DOMAIN f.own :
                                                  f.inherits[q] \subseteq A}
  IN {q \in names : \A A \in closed : q \in A}

\* The permissions of a role and of all it inherits.
Closure(f, r) == UNION {f.own[q] : q \in Ancestors(f, r)}

\* The parents exist, and no role inherits itself.
Inheritable(f) ==
  /\ \A r \in DOMAIN f.own : f.inherits[r] \subseteq DOMAIN f.own
  /\ \A r \in DOMAIN f.own : \A p \in f.inherits[r] : r \notin Ancestors(f, p)

\* The two rules in the comment of validate.
SomeoneAdministers(f) == \E r \in DOMAIN f.own : \E p \in f.own[r] : GrantsAll(p)
WildcardsOnAdmins(f) ==
  \A r \in DOMAIN f.own :
    (\E p \in Closure(f, r) : p.resource = "*") => \E p \in Closure(f, r) : p.action = "admin"

\* The files that the documented rules admit.
Acceptable(f) ==
  WellFormed(f) /\ Inheritable(f) /\ SomeoneAdministers(f) /\ WildcardsOnAdmins(f)

(* roles.yaml: "`inherits:` is a load-time aggregation aid ... Cycles and  *)
(* unknown parents are rejected at load."  Whatever order the map yields,  *)
(* and although each expansion changes what the next one reads, a file     *)
(* that loads is acceptable and gives each role the permissions of all its *)
(* ancestors and no others; an acceptable file is refused only for a grant *)
(* on "*" other than admin.                                                *)
LoadsClosure ==
  /\ loaded = "ok" =>
       /\ Acceptable(roleFile)
       /\ \A r \in DOMAIN permissions : permissions[r] = Closure(roleFile, r)
  /\ loaded = "error" =>
       \/ ~ Acceptable(roleFile)
       \/ \E r \in DOMAIN roleFile.own : \E p \in roleFile.own[r] :
            p.resource = "*" /\ p.action # "admin"

(* loader.go: "Wildcard resource is only permitted on roles that also      *)
(* grant the `admin` action": a role that grants admin may have a wildcard *)
(* for another action too.  The code refuses the file.                     *)
AdminsMayHaveWildcards == loaded = "error" => ~ Acceptable(roleFile)
=============================================================================

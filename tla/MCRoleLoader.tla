---------------------------- MODULE MCRoleLoader ----------------------------
(***************************************************************************)
(* Policy files for the role loader.                                       *)
(***************************************************************************)
EXTENDS RoleLoader

MCRoles == {"viewer", "analyst", "admin"}

Grant(resource, action, conditional) ==
  [resource |-> resource, action |-> action, conditional |-> conditional]

\* A file without inheritance; the one the loader has while another component
\* is checked.
MCNoInheritance ==
  [yaml |-> TRUE,
   own |-> [r \in MCRoles |-> IF r = "admin" THEN {Grant("*", "admin", FALSE)}
                                            ELSE {Grant(r, "read", FALSE)}],
   inherits |-> [r \in MCRoles |-> {}]]

\* All inheritance relations of three roles, one of which may also name an
\* unknown role, with valid and invalid administrators.
MCInheritances ==
  {[yaml |-> TRUE,
    own |-> [r \in MCRoles |-> IF r = "admin" THEN o ELSE {Grant(r, "read", FALSE)}],
    inherits |-> [viewer |-> i, analyst |-> j, admin |-> k]] :
     o \in {{Grant("*", "admin", FALSE)}, {Grant("*", "admin", TRUE)},
            {Grant("*", "admin", FALSE), Grant("*", "read", FALSE)}},
     i \in SUBSET MCRoles, j \in SUBSET MCRoles, k \in SUBSET (MCRoles \cup {"unknown"})}

\* No YAML, a role without a name, permissions without a resource or an action.
MCMalformed ==
  {[MCNoInheritance EXCEPT !.yaml = FALSE],
   [yaml |-> TRUE, own |-> [r \in {"", "admin"} |-> {Grant("*", "admin", FALSE)}],
    inherits |-> [r \in {"", "admin"} |-> {}]]}
  \cup {[MCNoInheritance EXCEPT !.own["viewer"] = {g}] :
          g \in {Grant("", "read", FALSE), Grant("events", "", FALSE)}}

MCRoleFiles == MCInheritances \cup MCMalformed
=============================================================================

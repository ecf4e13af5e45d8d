-------------------------- MODULE PrincipalsProofs --------------------------
(***************************************************************************)
(* For any number of logins and roles: no login undoes a suspension, and   *)
(* the index and the sessions name stored principals, one per subject as   *)
(* long as logins do not overlap.                                          *)
(***************************************************************************)
EXTENDS Principals, TLAPS

Types ==
  /\ autoProvision \in BOOLEAN
  /\ byID \in [Ids -> Principal \cup {NoPrincipal}]
  /\ bySubject \in Ids \cup {NoPrincipal}
  /\ login \in [Logins -> {"new", "refresh", "create", "issue", "done", "refused"}]
  /\ match \in [Logins -> Ids \cup {NoPrincipal}]
  /\ session \in [Logins -> Ids \cup {NoPrincipal}]
  /\ ordered \in [Ids -> {"active", "suspended"}]
  /\ crossed \in BOOLEAN

Stored(id) == id \in Ids /\ byID[id] # NoPrincipal

\* What the index, a session and a login under way name is in the store.
Named ==
  /\ bySubject # NoPrincipal => Stored(bySubject)
  /\ \A l \in Logins : session[l] # NoPrincipal => Stored(session[l])
  /\ \A l \in Logins : login[l] \in {"refresh", "issue"} => Stored(match[l])

\* The identifier a login would provision is free, and no operator has
\* changed the status of a principal that does not exist.
Fresh ==
  /\ \A l \in Logins : login[l] \in {"new", "create"} => byID[l] = NoPrincipal
  /\ \A id \in Ids : byID[id] = NoPrincipal => ordered[id] = "active"

\* Without overlapping logins what a login found is still so.
Alone ==
  ~ crossed =>
    /\ \A id \in Ids : byID[id] # NoPrincipal => id = bySubject
    /\ \A k, l \in Logins :
         login[k] \in {"refresh", "create"} /\ login[l] \in {"refresh", "create"} => k = l
    /\ \A l \in Logins : /\ login[l] = "create" => bySubject = NoPrincipal
                         /\ login[l] = "refresh" => match[l] = bySubject

PrincipalInv == Types /\ Named /\ Fresh /\ StatusIsOperators /\ Alone

-----------------------------------------------------------------------------
\* An empty store, or one with an active principal of the subject.
LEMMA InitPrincipalInv == PrincipalInit => PrincipalInv
<1> SUFFICES ASSUME PrincipalInit PROVE PrincipalInv
  OBVIOUS
<1> USE PrincipalsAssumption DEF PrincipalInit, Ids
<1>1. Types
  <2>1. PICK R \in SUBSET Roles :
          \/ /\ byID = [id \in Ids |-> IF id = Provisioned THEN [status |-> "active", roles |-> R]
                                                           ELSE NoPrincipal]
             /\ bySubject = Provisioned
          \/ byID = [id \in Ids |-> NoPrincipal] /\ bySubject = NoPrincipal
    OBVIOUS
  <2>2. [status |-> "active", roles |-> R] \in Principal
    BY DEF Principal
  <2>3. byID \in [Ids -> Principal \cup {NoPrincipal}] /\ bySubject \in Ids \cup {NoPrincipal}
    BY <2>1, <2>2
  <2>4. autoProvision \in BOOLEAN
    OBVIOUS
  <2> QED BY <2>3, <2>4 DEF Types
<1>2. Named
  BY DEF Named, Stored, Principal
<1>3. Fresh /\ StatusIsOperators /\ Alone
  BY DEF Fresh, StatusIsOperators, Alone
<1> QED BY <1>1, <1>2, <1>3 DEF PrincipalInv

\* The lookup changes no principal.
LEMMA FindBySubjectStep ==
  ASSUME PrincipalInv, NEW l \in Logins, FindBySubject(l)
  PROVE  PrincipalInv'
<1> USE PrincipalsAssumption DEF PrincipalInv, Types, FindBySubject, Goto, Ids
<1>1. Types'
  BY DEF Principal, Named, Stored
<1>2. Named'
  BY <1>1 DEF Named, Stored, Principal, Active
<1>3. Fresh'
  BY <1>1 DEF Fresh, Named, Stored, Principal
<1>4. StatusIsOperators'
  BY DEF StatusIsOperators, Fresh, Named, Stored, Principal
<1>5. Alone'
  <2> SUFFICES ASSUME ~ crossed' PROVE Alone'
    BY DEF Alone
  <2>1. ~ crossed /\ \A k \in Logins : login[k] \notin {"refresh", "create"}
    OBVIOUS
  <2>2. \A k \in Logins : k # l => login'[k] = login[k]
    OBVIOUS
  <2>3. /\ login'[l] = "create" => bySubject = NoPrincipal
        /\ login'[l] = "refresh" => match'[l] = bySubject
    OBVIOUS
  <2> QED BY <2>1, <2>2, <2>3 DEF Alone
<1> QED BY <1>1, <1>2, <1>3, <1>4, <1>5

\* A refresh changes the roles of a stored principal and not its status.
LEMMA RefreshPrincipalStep ==
  ASSUME PrincipalInv, NEW l \in Logins, RefreshPrincipal(l)
  PROVE  PrincipalInv'
<1> USE PrincipalsAssumption DEF PrincipalInv, Types, RefreshPrincipal, Goto, Ids
<1>1. Types'
  BY DEF Principal, Named, Stored
<1>2. Named'
  BY <1>1 DEF Named, Stored, Principal, Active
<1>3. Fresh'
  BY <1>1 DEF Fresh, Named, Stored, Principal
<1>4. StatusIsOperators'
  BY DEF StatusIsOperators, Fresh, Named, Stored, Principal
<1>5. Alone'
  BY DEF Alone, Named, Stored, Principal
<1> QED BY <1>1, <1>2, <1>3, <1>4, <1>5

\* A new principal is active, as its unused identifier was ordered.
LEMMA CreatePrincipalStep ==
  ASSUME PrincipalInv, NEW l \in Logins, CreatePrincipal(l)
  PROVE  PrincipalInv'
<1> USE PrincipalsAssumption DEF PrincipalInv, Types, CreatePrincipal, Goto, Ids
<1>1. Types'
  BY DEF Principal, Named, Stored
<1>2. Named'
  BY <1>1 DEF Named, Stored, Principal, Active
<1>3. Fresh'
  BY <1>1 DEF Fresh, Named, Stored, Principal
<1>4. StatusIsOperators'
  BY DEF StatusIsOperators, Fresh, Named, Stored, Principal
<1>5. Alone'
  BY DEF Alone, Named, Stored, Principal
<1> QED BY <1>1, <1>2, <1>3, <1>4, <1>5

\* A session names the principal its login worked with.
LEMMA IssueSessionStep ==
  ASSUME PrincipalInv, NEW l \in Logins, IssueSession(l)
  PROVE  PrincipalInv'
<1> USE PrincipalsAssumption DEF PrincipalInv, Types, IssueSession, Goto, Ids
<1>1. Types'
  BY DEF Principal, Named, Stored
<1>2. Named'
  BY <1>1 DEF Named, Stored, Principal, Active
<1>3. Fresh'
  BY <1>1 DEF Fresh, Named, Stored, Principal
<1>4. StatusIsOperators'
  BY DEF StatusIsOperators, Fresh, Named, Stored, Principal
<1>5. Alone'
  BY DEF Alone, Named, Stored, Principal
<1> QED BY <1>1, <1>2, <1>3, <1>4, <1>5

\* An operator's order is recorded with the status it gives.
LEMMA UpdateStatusStep ==
  ASSUME PrincipalInv, NEW id \in Ids, NEW s \in {"active", "suspended"}, UpdateStatus(id, s)
  PROVE  PrincipalInv'
<1> USE PrincipalsAssumption DEF PrincipalInv, Types, UpdateStatus
<1>1. Types'
  BY DEF Principal
<1>2. byID'[id] # NoPrincipal /\ \A i \in Ids : i # id => byID'[i] = byID[i]
  BY DEF Principal
<1>3. Named'
  BY <1>2 DEF Named, Stored
<1>4. Fresh'
  BY <1>2 DEF Fresh, Ids
<1>5. StatusIsOperators'
  BY DEF StatusIsOperators, Principal
<1>6. Alone'
  BY <1>2 DEF Alone
<1> QED BY <1>1, <1>3, <1>4, <1>5, <1>6

\* A stopped process leaves an empty store, and logins that are not retried.
LEMMA ClaimsRaceStep ==
  ASSUME PrincipalInv, ClaimsRace
  PROVE  PrincipalInv'
<1> USE DEF PrincipalInv, Types, ClaimsRace
<1>1. Types'
  OBVIOUS
<1>2. Named' /\ Fresh' /\ StatusIsOperators' /\ Alone'
  BY DEF Named, Fresh, StatusIsOperators, Alone, Ids
<1> QED BY <1>1, <1>2

-----------------------------------------------------------------------------
(* PrincipalInv is inductive over logins and the changes operators make.   *)
THEOREM PrincipalInductive == PrincipalSpec => []PrincipalInv
<1>1. ASSUME PrincipalInv, [PrincipalNext]_principalVars PROVE PrincipalInv'
  <2>1. CASE UNCHANGED principalVars
    BY <1>1, <2>1 DEF PrincipalInv, Types, Named, Stored, Fresh, StatusIsOperators, Alone,
                      principalVars
  <2>2. ASSUME NEW l \in Logins,
               FindBySubject(l) \/ RefreshPrincipal(l) \/ CreatePrincipal(l) \/ IssueSession(l)
        PROVE  PrincipalInv'
    BY <1>1, <2>2, FindBySubjectStep, RefreshPrincipalStep, CreatePrincipalStep, IssueSessionStep
  <2>3. ASSUME NEW id \in Ids, NEW s \in {"active", "suspended"}, UpdateStatus(id, s)
        PROVE  PrincipalInv'
    BY <1>1, <2>3, UpdateStatusStep
  <2>4. CASE ClaimsRace
    BY <1>1, <2>4, ClaimsRaceStep
  <2> QED BY <1>1, <2>1, <2>2, <2>3, <2>4 DEF PrincipalNext
<1> QED BY <1>1, InitPrincipalInv, PTL DEF PrincipalSpec

(* A suspension sticks through any logins under way: a principal's status  *)
(* is the one an operator gave it last (DefaultMapper.Map, UpdateStatus).  *)
THEOREM SuspensionSticks == PrincipalSpec => []StatusIsOperators
<1>1. PrincipalInv => StatusIsOperators
  BY DEF PrincipalInv
<1> QED BY <1>1, PrincipalInductive, PTL

(* The subject index and every session name a stored principal, and while  *)
(* logins do not overlap a subject has one (FindBySubject, Save).          *)
THEOREM SessionsResolve == PrincipalSpec => []PrincipalTypeOK
<1>1. PrincipalInv => PrincipalTypeOK
  BY DEF PrincipalInv, Types, Named, Stored, Alone, PrincipalTypeOK
<1> QED BY <1>1, PrincipalInductive, PTL
=============================================================================

------------------------- MODULE PolicyEngineProofs -------------------------
(***************************************************************************)
(* For every set of policies, requests and reloaders: a decision is the    *)
(* one a single policy gives that was in force while it was taken, the     *)
(* engine never loses its policy, and the diffs of reloads, however they   *)
(* overlap, name between them exactly the roles that changed.              *)
(***************************************************************************)
EXTENDS PolicyEngine, FiniteSetTheorems, TLAPS

MaybePolicy == Policies \cup {NoPolicy}

Reload == [pc : {"idle", "off", "replace", "report"}, next : MaybePolicy, prev : MaybePolicy]

Types ==
  /\ currentPolicy \in MaybePolicy
  /\ request \in [Requests -> {"new", "checking", "allow", "deny", "error"}]
  /\ decideBy \in [Requests -> MaybePolicy]
  /\ next \in [Requests -> Nat]
  /\ reload \in [Reloaders -> Reload]
  /\ during \in [Requests -> SUBSET MaybePolicy]

\* A reload under way has a policy to put in place of the old one.
UnderWay(w) == reload[w].pc \in {"replace", "report"}
Reloads == \A w \in Reloaders : UnderWay(w) => reload[w].next \in Policies

\* Once there is a policy there is always one.
LastGood ==
  /\ \A q \in Requests : request[q] \in {"checking", "allow"} =>
       decideBy[q] # NoPolicy /\ currentPolicy # NoPolicy
  /\ \A w \in Reloaders : reload[w].pc = "report" => currentPolicy # NoPolicy

\* The policy a request loaded was in force since, and none of the roles it
\* has checked grants what it wants.
Scan(q) ==
  /\ decideBy[q] \in during[q]
  /\ next[q] \in 1..Len(RolesOf[q])
  /\ \A k \in 1..(next[q] - 1) : Wants[q] \notin Grants(decideBy[q], q, k)

Scans ==
  \A q \in Requests : /\ request[q] = "new" => next[q] = 1
                      /\ request[q] = "checking" => Scan(q)

\* A role no replacement has changed is in the policy in force what it was when
\* a reload under way read its prev, and the roles changed are those that have
\* been reported or that a diff still to be reported names.
Unchanged ==
  \A w \in Reloaders : UnderWay(w) => Differ(reload[w].prev, currentPolicy) \subseteq changed

Pending == {w \in Reloaders : reload[w].pc = "report"}
ToReport == UNION {Differ(reload[w].prev, reload[w].next) : w \in Pending}
Accounted == changed = reported \cup ToReport

PolicyInv ==
  Types /\ Reloads /\ LastGood /\ Scans /\ DecisionConsistent /\ Unchanged /\ Accounted

-----------------------------------------------------------------------------
\* A list without duplicates is as long as its set of elements, and has each
\* of them once.
LEMMA ListedOnce ==
  ASSUME NEW a \in Seq(STRING), NoDuplicates(a)
  PROVE  /\ Cardinality(Elements(a)) = Len(a)
         /\ \A k : Occurs(a, k) = IF k \in Elements(a) THEN 1 ELSE 0
<1> DEFINE n == Len(a)
<1>1. n \in Nat /\ a \in [1..n -> Elements(a)]
  BY DEF Elements
<1>2. a \in Bijection(1..n, Elements(a))
  BY <1>1 DEF NoDuplicates, Elements, Bijection, Injection, Surjection, IsInjective
<1>3. IsFiniteSet(1..n) /\ Cardinality(1..n) = n
  BY <1>1, FS_Interval
<1>4. Cardinality(Elements(a)) = n
  BY <1>2, <1>3, FS_Bijection DEF ExistsBijection
<1>5. ASSUME NEW k PROVE Occurs(a, k) = IF k \in Elements(a) THEN 1 ELSE 0
  <2>1. CASE k \in Elements(a)
    <3>1. PICK j \in 1..n : a[j] = k
      BY <2>1 DEF Elements
    <3>2. {i \in 1..n : a[i] = k} = {j}
      BY <3>1 DEF NoDuplicates
    <3> QED BY <2>1, <3>2, FS_Singleton DEF Occurs
  <2>2. CASE k \notin Elements(a)
    <3>1. {i \in 1..n : a[i] = k} = {}
      BY <2>2 DEF Elements
    <3> QED BY <2>2, <3>1, FS_EmptySet DEF Occurs
  <2> QED BY <2>1, <2>2
<1> QED BY <1>4, <1>5

\* For lists without duplicates, rolePermsEqual compares the permission sets.
LEMMA ComparesSets ==
  ASSUME NEW a \in Seq(STRING), NEW b \in Seq(STRING), NoDuplicates(a), NoDuplicates(b)
  PROVE  rolePermsEqual(a, b) <=> Elements(a) = Elements(b)
<1>1. ASSUME rolePermsEqual(a, b), NEW k \in Elements(a) \cup Elements(b)
      PROVE  k \in Elements(a) /\ k \in Elements(b)
  BY <1>1, ListedOnce DEF rolePermsEqual
<1>2. ASSUME Elements(a) = Elements(b) PROVE rolePermsEqual(a, b)
  BY <1>2, ListedOnce DEF rolePermsEqual
<1> QED BY <1>1, <1>2

\* The diff of two policies names the roles to which they do not give the same.
LEMMA DiffIsExact ==
  ASSUME NEW p \in MaybePolicy, NEW s \in Policies
  PROVE  Named(diffPolicies(p, s)) = Differ(p, s)
<1>1. s # NoPolicy
  BY PolicyAssumption
<1>2. CASE p = NoPolicy
  BY <1>1, <1>2 DEF diffPolicies, Named, Differ, RolesIn, SameRole
<1>3. CASE p # NoPolicy
  <2>1. \A r \in DOMAIN p \cap DOMAIN s :
          rolePermsEqual(p[r], s[r]) <=> Elements(p[r]) = Elements(s[r])
    BY <1>3, ComparesSets, PolicyAssumption DEF MaybePolicy
  <2>2. diffPolicies(p, s) = [added |-> DOMAIN s \ DOMAIN p, removed |-> DOMAIN p \ DOMAIN s,
          modified |-> {r \in DOMAIN p \cap DOMAIN s : ~ (Elements(p[r]) = Elements(s[r]))}]
    BY <1>3, <2>1 DEF diffPolicies
  <2> HIDE DEF diffPolicies
  <2> QED BY <1>1, <1>3, <2>2 DEF Named, Differ, RolesIn, SameRole
<1> QED BY <1>2, <1>3

\* Differing roles: none from itself, the same either way, and a role that
\* differs over two changes differs over one of them.
LEMMA DifferFacts ==
  ASSUME NEW p, NEW s, NEW c
  PROVE  /\ Differ(p, p) = {}
         /\ Differ(p, s) = Differ(s, p)
         /\ Differ(p, s) \subseteq Differ(p, c) \cup Differ(c, s)
<1>1. Differ(p, p) = {} /\ Differ(p, s) = Differ(s, p)
  BY DEF Differ, SameRole
<1>2. ASSUME NEW r, SameRole(p, c, r), SameRole(c, s, r) PROVE SameRole(p, s, r)
  BY <1>2 DEF SameRole
<1>3. \A q, t, r : r \in Differ(q, t) <=> ~ SameRole(q, t, r)
  BY DEF Differ, SameRole
<1> QED BY <1>1, <1>2, <1>3

\* The engine at boot, with or without a policy, satisfies the invariant.
LEMMA InitPolicyInv == PolicyInit => PolicyInv
<1> SUFFICES ASSUME PolicyInit PROVE PolicyInv
  OBVIOUS
<1>0. [Idle EXCEPT !.pc = "off"] \in Reload /\ Idle \in Reload
  BY DEF Idle, Reload, MaybePolicy
<1>1. Types
  <2>1. reload \in [Reloaders -> Reload]
    BY <1>0 DEF PolicyInit
  <2> QED BY <2>1 DEF PolicyInit, Types, MaybePolicy
<1>2. \A w \in Reloaders : reload[w].pc \in {"idle", "off"}
  BY DEF PolicyInit, Idle
<1>3. LastGood /\ Scans /\ DecisionConsistent
  BY <1>2 DEF PolicyInit, LastGood, Scans, DecisionConsistent
<1>4. Reloads /\ Unchanged /\ Accounted
  BY <1>2 DEF PolicyInit, Reloads, UnderWay, Unchanged, Accounted, ToReport, Pending
<1> QED BY <1>1, <1>3, <1>4 DEF PolicyInv

\* The policy a request loads is in force; without roles nothing is granted.
LEMMA LoadSnapshotStep ==
  ASSUME PolicyInv, NEW q \in Requests, LoadSnapshot(q)
  PROVE  PolicyInv'
<1>0. RolesOf[q] \in Seq(STRING)
  BY PolicyAssumption
<1>1. Types'
  BY DEF PolicyInv, Types, LoadSnapshot
<1>2. Reloads' /\ Unchanged' /\ Accounted'
  BY DEF PolicyInv, Reloads, UnderWay, Unchanged, Accounted, ToReport, Pending, LoadSnapshot
<1>3. LastGood'
  BY DEF PolicyInv, Types, LastGood, LoadSnapshot
<1>4. Scans'
  <2> SUFFICES ASSUME NEW r \in Requests
               PROVE  /\ request'[r] = "new" => next'[r] = 1
                      /\ request'[r] = "checking" => Scan(r)'
    BY DEF Scans
  <2>1. CASE r = q
    <3>1. next[q] = 1 /\ request'[q] # "new"
      BY DEF PolicyInv, Types, Scans, LoadSnapshot
    <3>2. ASSUME request'[q] = "checking" PROVE Len(RolesOf[q]) >= 1
      BY <1>0, <3>2 DEF PolicyInv, Types, LoadSnapshot
    <3> QED BY <1>0, <2>1, <3>1, <3>2 DEF PolicyInv, Types, LoadSnapshot, Scan
  <2>2. CASE r # q
    BY <2>2 DEF PolicyInv, Types, Scans, Scan, LoadSnapshot
  <2> QED BY <2>1, <2>2
<1>5. DecisionConsistent'
  <2> SUFFICES ASSUME NEW r \in Requests
               PROVE  /\ request'[r] = "allow" => \E p \in during'[r] : Granted(p, r)
                      /\ request'[r] = "deny" => \E p \in during'[r] : ~ Granted(p, r)
    BY DEF DecisionConsistent
  <2>1. CASE r = q
    BY <1>0, <2>1 DEF PolicyInv, Types, LoadSnapshot, Granted
  <2>2. CASE r # q
    BY <2>2 DEF PolicyInv, Types, DecisionConsistent, LoadSnapshot
  <2> QED BY <2>1, <2>2
<1> QED BY <1>1, <1>2, <1>3, <1>4, <1>5 DEF PolicyInv

\* A role that grants decides for the policy loaded; past the last, all were asked.
LEMMA CheckRoleStep ==
  ASSUME PolicyInv, NEW q \in Requests, CheckRole(q)
  PROVE  PolicyInv'
<1>0. RolesOf[q] \in Seq(STRING)
  BY PolicyAssumption
<1>1. Types'
  BY DEF PolicyInv, Types, CheckRole
<1>2. Reloads' /\ Unchanged' /\ Accounted'
  BY DEF PolicyInv, Reloads, UnderWay, Unchanged, Accounted, ToReport, Pending, CheckRole
<1>3. LastGood'
  BY DEF PolicyInv, Types, LastGood, CheckRole
<1>4. Scan(q)
  BY DEF PolicyInv, Scans, CheckRole
<1>5. Scans'
  <2> SUFFICES ASSUME NEW r \in Requests
               PROVE  /\ request'[r] = "new" => next'[r] = 1
                      /\ request'[r] = "checking" => Scan(r)'
    BY DEF Scans
  <2>1. CASE r = q
    <3>1. request'[q] # "new"
      BY DEF PolicyInv, Types, CheckRole
    <3>2. ASSUME request'[q] = "checking" PROVE Scan(q)'
      <4>1. Wants[q] \notin Grants(decideBy[q], q, next[q]) /\ next[q] # Len(RolesOf[q])
        BY <3>2 DEF PolicyInv, Types, CheckRole
      <4>2. next'[q] = next[q] + 1 /\ decideBy'[q] = decideBy[q] /\ during'[q] = during[q]
        BY DEF PolicyInv, Types, CheckRole
      <4>3. ASSUME NEW k \in 1..(next'[q] - 1) PROVE Wants[q] \notin Grants(decideBy[q], q, k)
        BY <1>0, <1>4, <4>1, <4>2 DEF Scan
      <4> QED BY <1>0, <1>4, <4>1, <4>2, <4>3 DEF Scan, Grants
    <3> QED BY <2>1, <3>1, <3>2
  <2>2. CASE r # q
    BY <2>2 DEF PolicyInv, Types, Scans, Scan, CheckRole
  <2> QED BY <2>1, <2>2
<1>6. DecisionConsistent'
  <2> SUFFICES ASSUME NEW r \in Requests
               PROVE  /\ request'[r] = "allow" => \E p \in during'[r] : Granted(p, r)
                      /\ request'[r] = "deny" => \E p \in during'[r] : ~ Granted(p, r)
    BY DEF DecisionConsistent
  <2>1. CASE r = q
    <3>1. during'[q] = during[q] /\ decideBy[q] \in during[q]
      BY <1>4 DEF CheckRole, Scan
    <3>2. ASSUME request'[q] = "allow" PROVE Granted(decideBy[q], q)
      BY <1>4, <3>2 DEF PolicyInv, Types, CheckRole, Scan, Granted
    <3>3. ASSUME request'[q] = "deny" PROVE ~ Granted(decideBy[q], q)
      <4>1. Wants[q] \notin Grants(decideBy[q], q, next[q]) /\ next[q] = Len(RolesOf[q])
        BY <3>3 DEF PolicyInv, Types, CheckRole
      <4> QED BY <1>0, <1>4, <4>1 DEF Scan, Granted
    <3> QED BY <2>1, <3>1, <3>2, <3>3
  <2>2. CASE r # q
    BY <2>2 DEF PolicyInv, Types, DecisionConsistent, CheckRole
  <2> QED BY <2>1, <2>2
<1> QED BY <1>1, <1>2, <1>3, <1>5, <1>6 DEF PolicyInv

\* Reading the policy a reload will replace changes nothing a request sees; the
\* first of several reloads starts the account of changes anew.
LEMMA ReloadBeginsStep ==
  ASSUME PolicyInv, NEW w \in Reloaders, NEW p \in Policies, ReloadBegins(w, p)
  PROVE  PolicyInv'
<1>1. Types'
  BY DEF PolicyInv, Types, ReloadBegins, Reload, MaybePolicy
<1>2. /\ reload'[w].pc = "replace" /\ reload'[w].next = p /\ reload'[w].prev = currentPolicy'
      /\ \A u \in Reloaders \ {w} : reload'[u] = reload[u]
  BY DEF PolicyInv, Types, ReloadBegins
<1>3. Reloads' /\ LastGood' /\ DecisionConsistent'
  BY <1>2 DEF PolicyInv, Reloads, UnderWay, LastGood, DecisionConsistent, ReloadBegins
<1>4. Scans'
  BY DEF PolicyInv, Scans, Scan, ReloadBegins
<1>5. Pending' = Pending /\ ToReport' = ToReport
  <2>1. w \notin Pending /\ Pending' = Pending
    BY <1>2 DEF Pending, ReloadBegins
  <2> QED BY <1>2, <2>1 DEF ToReport, Pending
<1>6. CASE AtRest
  <2>1. Pending = {}
    BY <1>6 DEF AtRest, Pending
  <2>2. changed' = {} /\ reported' = {}
    BY <1>6 DEF ReloadBegins
  <2>3. \A u \in Reloaders : UnderWay(u)' => u = w
    BY <1>2, <1>6 DEF AtRest, UnderWay
  <2>4. Unchanged'
    BY <1>2, <2>3, DifferFacts DEF Unchanged
  <2>5. Accounted'
    BY <1>5, <2>1, <2>2 DEF Accounted, ToReport
  <2> QED BY <1>1, <1>3, <1>4, <2>4, <2>5 DEF PolicyInv
<1>7. CASE ~ AtRest
  <2>1. changed' = changed /\ reported' = reported /\ currentPolicy' = currentPolicy
    BY <1>7 DEF ReloadBegins
  <2>2. Unchanged'
    BY <1>2, <2>1, DifferFacts DEF PolicyInv, Unchanged, UnderWay
  <2>3. Accounted'
    BY <1>5, <2>1 DEF PolicyInv, Accounted
  <2> QED BY <1>1, <1>3, <1>4, <2>2, <2>3 DEF PolicyInv
<1> QED BY <1>6, <1>7

\* A replacement is in force for the requests being decided; what it changes is
\* named by its own diff or was changed before, by another reload.
LEMMA ReplacePolicyStep ==
  ASSUME PolicyInv, NEW w \in Reloaders, ReplacePolicy(w)
  PROVE  PolicyInv'
<1> DEFINE prev == reload[w].prev
           new == reload[w].next
<1>1. new \in Policies /\ prev \in MaybePolicy /\ currentPolicy \in MaybePolicy /\ UnderWay(w)
  BY DEF PolicyInv, Types, Reloads, UnderWay, Reload, ReplacePolicy
<1>2. /\ reload'[w] = [reload[w] EXCEPT !.pc = "report"]
      /\ \A u \in Reloaders \ {w} : reload'[u] = reload[u]
  BY DEF PolicyInv, Types, ReplacePolicy
<1>3. reload'[w].pc = "report" /\ reload'[w].prev = prev /\ reload'[w].next = new
  BY <1>2 DEF PolicyInv, Types, Reload
<1>4. currentPolicy' = new /\ changed' = changed \cup Differ(currentPolicy, new) /\ reported' = reported
  BY DEF ReplacePolicy
<1>5. Types'
  <2>1. reload' \in [Reloaders -> Reload]
    BY DEF PolicyInv, Types, ReplacePolicy, Reload
  <2>2. during' \in [Requests -> SUBSET MaybePolicy]
    BY <1>1 DEF PolicyInv, Types, ReplacePolicy, MaybePolicy
  <2> QED BY <1>1, <2>1, <2>2 DEF PolicyInv, Types, ReplacePolicy, MaybePolicy
<1>6. Reloads'
  BY <1>1, <1>2, <1>3 DEF PolicyInv, Reloads, UnderWay
<1>7. LastGood'
  <2>1. currentPolicy' # NoPolicy
    BY <1>1, <1>4, PolicyAssumption
  <2> QED BY <2>1 DEF PolicyInv, LastGood, ReplacePolicy
<1>8. Scans'
  BY DEF PolicyInv, Scans, Scan, ReplacePolicy
<1>9. DecisionConsistent'
  BY DEF PolicyInv, DecisionConsistent, ReplacePolicy
<1>10. Unchanged'
  <2> SUFFICES ASSUME NEW u \in Reloaders, UnderWay(u)'
               PROVE  Differ(reload'[u].prev, new) \subseteq changed'
    BY <1>4 DEF Unchanged
  <2>1. reload'[u].prev = reload[u].prev /\ UnderWay(u)
    BY <1>1, <1>2, <1>3 DEF UnderWay
  <2>2. Differ(reload[u].prev, currentPolicy) \subseteq changed
    BY <2>1 DEF PolicyInv, Unchanged
  <2>3. Differ(reload[u].prev, new) \subseteq
          Differ(reload[u].prev, currentPolicy) \cup Differ(currentPolicy, new)
    BY DifferFacts
  <2> QED BY <1>4, <2>1, <2>2, <2>3
<1>11. Accounted'
  <2>1. Pending' = Pending \cup {w} /\ w \notin Pending
    BY <1>2, <1>3 DEF Pending, ReplacePolicy
  <2>2. ToReport' = ToReport \cup Differ(prev, new)
    <3>1. \A r : r \in ToReport <=> \E u \in Pending : r \in Differ(reload[u].prev, reload[u].next)
      BY DEF ToReport
    <3>2. \A r : r \in ToReport' <=>
                  \E u \in Pending' : r \in Differ(reload'[u].prev, reload'[u].next)
      BY DEF ToReport
    <3>3. \A u \in Pending : reload'[u] = reload[u]
      BY <1>2, <2>1 DEF Pending
    <3>4. ASSUME NEW r PROVE r \in ToReport' <=> r \in ToReport \/ r \in Differ(prev, new)
      BY <1>3, <2>1, <3>1, <3>2, <3>3
    <3> HIDE DEF prev, new
    <3> QED BY <3>4
  <2>3. Differ(prev, currentPolicy) \subseteq changed
    BY <1>1 DEF PolicyInv, Unchanged
  <2>4. /\ Differ(prev, new) \subseteq Differ(prev, currentPolicy) \cup Differ(currentPolicy, new)
        /\ Differ(currentPolicy, new) \subseteq Differ(prev, currentPolicy) \cup Differ(prev, new)
    BY DifferFacts
  <2>5. changed = reported \cup ToReport
    BY DEF PolicyInv, Accounted
  <2> QED BY <1>4, <2>2, <2>3, <2>4, <2>5 DEF Accounted
<1> QED BY <1>5, <1>6, <1>7, <1>8, <1>9, <1>10, <1>11 DEF PolicyInv

\* A report moves the roles its diff names to the ones reported.
LEMMA ReportDiffStep ==
  ASSUME PolicyInv, NEW w \in Reloaders, ReportDiff(w)
  PROVE  PolicyInv'
<1>1. /\ reload'[w] = Idle /\ Idle.pc = "idle" /\ w \in Pending
      /\ \A u \in Reloaders \ {w} : reload'[u] = reload[u]
  BY DEF PolicyInv, Types, ReportDiff, Idle, Pending
<1>2. Types'
  BY DEF PolicyInv, Types, ReportDiff, Reload, Idle, MaybePolicy
<1>3. Reloads' /\ LastGood' /\ DecisionConsistent'
  BY <1>1 DEF PolicyInv, Reloads, UnderWay, LastGood, DecisionConsistent, ReportDiff
<1>4. Scans'
  BY DEF PolicyInv, Scans, Scan, ReportDiff
<1>5. Unchanged'
  BY <1>1 DEF PolicyInv, Unchanged, UnderWay, ReportDiff
<1>6. Accounted'
  <2>1. reload[w].next \in Policies /\ reload[w].prev \in MaybePolicy
    BY DEF PolicyInv, Types, Reloads, UnderWay, Reload, ReportDiff
  <2>2. reported' = reported \cup Differ(reload[w].prev, reload[w].next) /\ changed' = changed
    BY <2>1, DiffIsExact DEF ReportDiff
  <2>3. Pending' = Pending \ {w}
    BY <1>1 DEF Pending
  <2>4. ToReport = ToReport' \cup Differ(reload[w].prev, reload[w].next)
    BY <1>1, <2>3 DEF ToReport, Pending
  <2> QED BY <2>2, <2>4 DEF PolicyInv, Accounted
<1> QED BY <1>2, <1>3, <1>4, <1>5, <1>6 DEF PolicyInv

-----------------------------------------------------------------------------
(* PolicyInv is inductive: it holds at boot and every decision, reload and *)
(* failed reload preserves it.                                             *)
THEOREM PolicyInductive == PolicySpec => []PolicyInv
<1>1. ASSUME PolicyInv, [PolicyNext]_policyVars PROVE PolicyInv'
  <2>1. CASE UNCHANGED policyVars
    BY <1>1, <2>1 DEF PolicyInv, Types, Reloads, LastGood, Scans, Scan,
                      DecisionConsistent, UnderWay, Unchanged, Accounted, ToReport,
                      Pending, policyVars
  <2>2. ASSUME NEW q \in Requests, LoadSnapshot(q) PROVE PolicyInv'
    BY <1>1, <2>2, LoadSnapshotStep
  <2>3. ASSUME NEW q \in Requests, CheckRole(q) PROVE PolicyInv'
    BY <1>1, <2>3, CheckRoleStep
  <2>4. ASSUME NEW w \in Reloaders, ReplacePolicy(w) PROVE PolicyInv'
    BY <1>1, <2>4, ReplacePolicyStep
  <2>5. ASSUME NEW w \in Reloaders, NEW p \in Policies, ReloadBegins(w, p) PROVE PolicyInv'
    BY <1>1, <2>5, ReloadBeginsStep
  <2>6. ASSUME NEW w \in Reloaders, ReloadFails(w) PROVE PolicyInv'
    BY <2>1, <2>6 DEF ReloadFails
  <2>7. ASSUME NEW w \in Reloaders, ReportDiff(w) PROVE PolicyInv'
    BY <1>1, <2>7, ReportDiffStep
  <2> QED BY <1>1, <2>1, <2>2, <2>3, <2>4, <2>5, <2>6, <2>7 DEF PolicyNext
<1> QED BY <1>1, InitPolicyInv, PTL DEF PolicySpec

(* engine.go: "in-flight decisions always see a consistent Policy", for    *)
(* any number of requests, roles, policies and reloads.                    *)
THEOREM DecisionsConsistent == PolicySpec => []DecisionConsistent
<1>1. PolicyInv => DecisionConsistent
  BY DEF PolicyInv
<1> QED BY <1>1, PolicyInductive, PTL

(* However the reloads of any number of goroutines overlap, once they have *)
(* all reported, their diffs name between them exactly the roles whose     *)
(* permission set some replacement changed; that rolePermsEqual compares   *)
(* lengths and sorted keys is part of the proof.                           *)
THEOREM DiffsAreExact == PolicySpec => []DiffsTellChanges
<1>1. PolicyInv => DiffsTellChanges
  BY DEF PolicyInv, DiffsTellChanges, AtRest, Accounted, ToReport, Pending
<1> QED BY <1>1, PolicyInductive, PTL

(* A request being decided has a policy and a role to look at, and the     *)
(* engine keeps the last good policy through reloads that fail.            *)
THEOREM LastGoodKept == PolicySpec => []PolicyTypeOK
<1>1. PolicyInv => PolicyTypeOK
  BY DEF PolicyInv, Types, LastGood, Scans, Scan, PolicyTypeOK, MaybePolicy
<1> QED BY <1>1, PolicyInductive, PTL
=============================================================================

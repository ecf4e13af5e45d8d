---------------------------- MODULE MCComponents ----------------------------
(***************************************************************************)
(* Detection and access control, checked side by side: a behaviour is one  *)
(* of a single component, chosen at the start, while the others stay in    *)
(* one of their initial states.                                            *)
(***************************************************************************)
EXTENDS TemporalCorrelator, StreamProcessor, CanaryTokens, MCHostProbe,
        KeyRotation, Revocation, MCRoleLoader, PolicyEngine, Principals

VARIABLE part   \* the component that runs

detection == <<temporalVars, streamVars, canaryVars, probeVars>>
access == <<keyVars, revocationVars, loaderVars, policyVars, principalVars>>
vars == <<part, detection, access>>

\* What differs between a component's initial states matters only if it runs.
Init ==
  /\ part \in {"temporal", "stream", "canary", "probe",
               "keys", "revocation", "roles", "policy", "principals"}
  /\ LoaderInit /\ (part # "roles" => roleFile = MCNoInheritance)
  /\ StreamInit /\ (part # "stream" => policy = "drop_oldest")
  /\ ProbeInit /\ (part # "probe" => watchAll)
  /\ PolicyInit /\ (part # "policy" => currentPolicy = NoPolicy)
  /\ PrincipalInit /\ (part # "principals" => ~ autoProvision /\ bySubject = NoPrincipal)
  /\ TemporalInit /\ CanaryInit /\ KeyInit /\ RevocationInit

Next ==
  /\ UNCHANGED part
  /\ \/ /\ UNCHANGED access
        /\ \/ part = "temporal" /\ TemporalNext /\ UNCHANGED <<streamVars, canaryVars, probeVars>>
           \/ part = "stream" /\ StreamNext /\ UNCHANGED <<temporalVars, canaryVars, probeVars>>
           \/ part = "canary" /\ CanaryNext /\ UNCHANGED <<temporalVars, streamVars, probeVars>>
           \/ part = "probe" /\ ProbeNext /\ UNCHANGED <<temporalVars, streamVars, canaryVars>>
     \/ /\ UNCHANGED detection
        /\ \/ part = "keys" /\ KeyNext
              /\ UNCHANGED <<revocationVars, loaderVars, policyVars, principalVars>>
           \/ part = "revocation" /\ RevocationNext
              /\ UNCHANGED <<keyVars, loaderVars, policyVars, principalVars>>
           \/ part = "roles" /\ LoaderNext
              /\ UNCHANGED <<keyVars, revocationVars, policyVars, principalVars>>
           \/ part = "policy" /\ PolicyNext
              /\ UNCHANGED <<keyVars, revocationVars, loaderVars, principalVars>>
           \/ part = "principals" /\ PrincipalNext
              /\ UNCHANGED <<keyVars, revocationVars, loaderVars, policyVars>>

Spec == Init /\ [][Next]_vars

(* Type invariant of every component.                                      *)
TypeOK ==
  /\ TemporalTypeOK /\ StreamTypeOK /\ CanaryTypeOK /\ ProbeTypeOK
  /\ KeyTypeOK /\ RevocationTypeOK /\ LoaderTypeOK /\ PolicyTypeOK /\ PrincipalTypeOK

-----------------------------------------------------------------------------
(* The instance.                                                           *)

\* Two chains that end in the same type, as in DefaultChains, with windows of
\* different lengths.
MCChains ==
  <<[sequence |-> <<"arp", "scan">>, window |-> 1],
    [sequence |-> <<"tor", "scan">>, window |-> 3]>>

MCPatches == {[status |-> "CLOSED", note |-> "seen"]}
MCSymmetry == Permutations(Hits)

MCExpiry == [j \in Tokens |-> 2]

\* One policy lists a role's permissions in another order, one leaves a role
\* out; two grant reading, through different roles.
MCPolicies ==
  {[viewer |-> <<"list", "write">>, analyst |-> <<>>],
   [viewer |-> <<"write", "list">>, analyst |-> <<"read">>], [viewer |-> <<"read">>]}
MCRolesOf == [q \in Requests |-> IF q = "outsider" THEN <<>> ELSE <<"analyst", "viewer">>]
MCWants == [q \in Requests |-> "read"]
=============================================================================

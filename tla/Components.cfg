SPECIFICATION Spec
CONSTANTS
  Chains <- MCChains
  Sources = {s1, s2}
  Types = {"arp", "tor", "scan"}
  MaxEvents = 3
  MaxMinute = 3
  Ips = {"a", "b"}
  Capacity = 2
  TotalBuckets = 3
  MidBuckets = 2
  MaxPushes = 4
  LastMinute = 3
  Hits = {h1, h2, h3}
  NoAlert = NoAlert
  Patches <- MCPatches
  MaxPatches = 1
  Pids = {11, 12}
  Dests <- MCDests
  ExitNodes <- MCExitNodes
  TorPorts = {9001}
  EgressModes = {TRUE, FALSE}
  RingSlots = 2
  MaxConnects = 3
  Rotators = {r1, r2}
  Issuers = {i1}
  KeyTTL = 3
  AccessTTL = 1
  RefreshTTL = 3
  Margin = 2
  Overlap = 2
  MaxKeys = 3
  MaxTokens = 2
  LastHour = 4
  Tokens = {j1, j2}
  Expiry <- MCExpiry
  Verifiers = {v1}
  Admins = {a1, a2}
  NoEntry = NoEntry
  MaxClock = 4
  RoleFiles <- MCRoleFiles
  Policies <- MCPolicies
  NoPolicy = NoPolicy
  Requests = {"member", "outsider"}
  RolesOf <- MCRolesOf
  Wants <- MCWants
  Reloaders = {"sighup", "admin"}
  MaxReloads = 3
  Logins = {l1, l2, l3}
  Roles = {"analyst"}
  AutoProvisioning = {TRUE, FALSE}
  Provisioned = Provisioned
  NoPrincipal = NoPrincipal
SYMMETRY MCSymmetry
INVARIANTS
  TypeOK
  AlertsAreChains NoMissedChain
  CountsCoverWindow
  CountBounds ConnectsReported
  TokensVerifyInOverlap
  RevokedNotAccepted LoadsClosure
  DecisionConsistent DiffsTellChanges
  StatusIsOperators
PROPERTIES
  TriageKept ImplementsDenylist
CHECK_DEADLOCK FALSE

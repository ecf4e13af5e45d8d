# TLA+ models of O.W.A.S.A.K.A.

TLA+ modules, TLC runs and TLAPS proofs for the SIEM under `src/`. They are
written from the Go code; when the code changes, the `map` in `PROJECT.json`
says which definition has to change with it.

## 1. The system

One Go process (`cmd/oswaka`, wired by `internal/app/app.go`) watches a network.

- **Sensors** (DNS, proxy, Tor, eBPF, discovery, browser) push events and assets
  into the **pipeline** (`internal/events`). A push runs in its caller's
  goroutine, through these stages: enrich, sign, append to the transparency log if
  critical, store, broadcast to WebSocket clients, publish on NATS, start one
  goroutine per analyzer.
- **Analyzers** (`internal/analytics`: rule engine, temporal chains, anomaly
  detector) raise alerts, which are pushed through the same pipeline.
- **Neotron** compliance messages arrive over NATS and become events.
- **Storage** is one BoltDB file (`internal/storage/db`) with events, assets,
  alerts, canary tokens, revoked tokens and the transparency log
  (`internal/storage/transparency`). The **retention** loop prunes and compacts
  it, **backup** copies it out and restores it, **migrations** version it. The
  audit log, the NAS mount and the vault are separate files.
- **Identity and authorization**: signing keys (`internal/storage/pki`), JWTs
  (`internal/identity/jwt`), revocation, OIDC, authenticators, policies (`authz`).
- **API**: HTTP handlers, the WebSocket hub, health and metrics.

`PROJECT.json` lists every part with its status, and the hazards: the places
where an order of steps, a crash or a boundary value matters.

## 2. Modules

| Module | Code | State | Actions |
|---|---|---|---|
| `MerkleTree` | `transparency/hash.go`, `proofs.go` | none: operators | tree hash, both proof generators, both verifiers |
| `MerkleAudit` | the same, driven | two growing logs | `AppendTree`, `AppendFork` |
| `AppendOnlyLog` | abstract specification | a sequence | it grows by one entry |
| `TransparencyLog` | `tree.go`, `sth.go`, `http.go` | three buckets, hash cache, mutex, issuers | `Open`, `Crash`, `Append` in three steps and its failure, an issuer's two reads, signature and persist |
| `Retention`, `MCRetention` | `retention/*`, `db/bolt.go` | inodes, the path, the open handle, the sweep | saves, both sweep transactions, compaction's copy and rename, crash, boot, clock |
| `Backup` | `backup/*` | live file, `.age` and `.sha256` files, the journal of finished runs | a run's steps, rotation file by file, a restore's steps, appends, crash, boot, clock |
| `KeyRotation` | `pki/authority.go`, `keystore.go`, `jwt/*` | keys and their states, rotators, issuers, tokens | `Rotate` in three steps and its failure, `Retire`, `Issue` in two steps, clock |
| `EventPipeline`, `MCEventPipeline` | `events/*`, `api/websocket.go`, `app.go` | events and their stages, stores, hub queue, NATS, analyzer goroutines | sources, the stages, alert callbacks, hub delivery, crash |
| `AuditLog` | `integrity/*` | the file's lines and its unfinished last line, the chain's head in memory, the service | `LogAction` and `TakeSnapshot` (whole, refused and torn writes), `VerifyAuditLog`, open, crashes, edits by others |
| `Migrations` | `migrations/*`, `cmd/oswaka/migrate.go` | installed release, applied id, effects in the database, the process | `CheckBoot`, `MigrateUp`, `ApplyMigration`, `RunDown`, a new or older release |
| `NASMount` | `nas/*` | the share, the connector, the last status | `NasStart`, retries, `HealthTick`, `Remount`, `NasStop` and the end of the context, the share coming and going |
| `HubClients` | `api/websocket.go` | peers, handlers, the client map, the write in progress | registration, removal, one broadcast client by client, read and write failures |
| `Denylist` | abstract specification | a set and a clock | add, expire |
| `Revocation` | `revocation/store.go`, `jwt/verifier.go` | bucket, cache, mutex, verifiers | `Revoke` and `GC` in lock, commit (or failure) and cache steps, `Verify` in two, open, crash |
| `TemporalCorrelator` | `correlation/temporal.go` | one window per source, alerts, goroutines | `PushEvent`, `Observe`, clock |
| `StreamProcessor` | `stream/*` | ring buffer, one-minute buckets, goroutines | `Enrich` in two steps, clock |
| `CanaryTokens` | `canary/trigger.go`, `db/repository.go`, `app.go` | the token, the alerts bucket, callbacks | `RecordTrigger` in two transactions, `alertSink`, `UpdateAlert`, crash |
| `HostProbe`, `MCHostProbe` | `ebpf/bpf/probe.c`, `ebpf/service.go` | ring buffer records, probes, reports | reserve, fill and submit of a record, `ReadRecord`, closing |
| `RoleLoader`, `MCRoleLoader` | `authz/loader.go` | a policy file being loaded | `Hydrate`, `ExpandRole` in any order, `Validate` |
| `PolicyEngine` | `authz/engine.go`, `reload.go`, `admin.go` | the policy pointer, requests, reloads | `LoadSnapshot`, `CheckRole`, a reload's read, failure, replacement and report |
| `Principals` | `identity/memory_store.go`, `oidc/mapping.go` | the two indexes, logins, sessions | `FindBySubject`, `RefreshPrincipal`, `CreatePrincipal`, `IssueSession`, `UpdateStatus` |
| `MCStorage` | | the part that runs | `MerkleAudit`, `TransparencyLog`, `Retention` or `Backup` |
| `MCServices` | | the part that runs | `AuditLog`, `Migrations`, `NASMount`, `HubClients`, and `KeyRotation` or `Retention` for their liveness |
| `MCComponents` | | the part that runs | one of the nine modules of detection and access control |
| `*Proofs` | | | theorems about the module of that name |

Composition: `TransparencyLog` is built on `MerkleTree` and refines
`AppendOnlyLog`; `Backup` represents a root by the log it is the root of, which
the checks of `MerkleAudit` justify; `KeyRotation` joins the key store with the
JWT issuer and verifier, and `Revocation` joins the verifier with the denylist;
`EventPipeline` joins the pipeline with its analyzers, the hub, NATS and the
stores.

The modules under `MCStorage`, `MCServices` and `MCComponents` share no variables
with each other, so their product would only multiply states. These three modules
are a sum: a behaviour is one of a single component, chosen by `part` at the
start, while the others stay in an initial state. A property of one component
therefore holds of the sum exactly when it holds of the component. The definitions
of a component do not mention `part`.

Abstractions used throughout:

- SHA-256 is a free constructor: no collisions. A signature is the fact that
  something was signed; an encryption is its plaintext and a fresh nonce.
- A BoltDB transaction is atomic: it commits durably or has no effect.
- Every call that takes a lock of its own is a step of its own. Code under one
  lock is one step, unless a crash inside it can be told apart.
- An event is its type, its origin and the fields that decide its type. JSON,
  wording, metrics and log lines are left out.
- Bytes matter in `HostProbe` only: addresses and ports are byte sequences there,
  and their conversions are modelled.
- Definitions that stand for a plausible mistake (`RotateUpdateRetires`,
  `CompactCopyUnlinks`, ...) precede the definition they are a variant of. They
  are used only to confirm that the property in question notices the mistake.

## 3. Runs

Bounds are in the `.cfg` files: `tlc -config X.cfg M`, deadlock checking off
where a bounded clock or a full log ends the behaviour.

**Storage** (`MCStorage`).

- *Merkle proofs*, two logs over two payloads, six and four leaves: every tree
  shape of up to three levels, with every point of divergence. Every inclusion and
  consistency proof verifies (`ProofsComplete`); an audit path of the right length
  proves only the leaf that is at that index (`InclusionBinding`); no consistency
  proof of either log connects a root to a log it is not a prefix of
  (`ForkDetected`). Six leaves contain every kind of level the walks distinguish:
  left child, right child, and rightmost node without a sibling, at the bottom and
  further up.
- *Transparency log*, one issuer, three leaves (the first unbalanced tree),
  crashes anywhere. Every head commits to stored leaves (`HeadsBackedByLeaves`);
  what the endpoints serve verifies against every coherent head
  (`AuditorAccepts`); the latest head never shrinks, across restarts
  (`LatestNeverRegresses`); the bucket implements `AppendOnlyLog`
  (`ImplementsAppendOnlyLog`). `LatestNeverRegresses` needs the single issuer: two
  can persist out of order, since `PersistSTH` overwrites unconditionally. A head
  may pair the size of one tree with the root of a later one (`Size` and `Root`
  lock separately), which is why `HeadsBackedByLeaves` says "at least as long" and
  `AuditorAccepts` speaks of coherent heads.
- *Retention*, an alert, an asset and a leaf, a clock of four; the alert's TTL is
  longer than the asset's. Compaction happens in a maintenance window: no saves
  between the copy and the restart. Nothing acknowledged is lost before its TTL, a
  leaf never (`RetainedUntilTTL`). Three inodes are not a bound: path, copy and
  handle cannot refer to more. Events take the same path as alerts.
- *Backup*, three runs, two kept, three seconds, logs of no leaf or one of two.
  The last `keepLast` finished backups are restorable and hold their own snapshot
  (`NewestKept`). A restore that matches a journal record puts back at least what
  the backup of that record captured, and no other history
  (`MatchedRestoreKeeps`): this is not a matter of course, because size and root
  are read after the snapshot, while leaves are appended, and because a restore
  may start another history, of the same length, in between. One leaf is enough
  for both: it is appended between snapshot and size or between size and root, and
  two payloads make two histories. Assumed: no two backups in one second
  (`DistinctSeconds`), since names have that resolution.

**RetentionScheduled** (finding). `RetainedUntilTTL` with compaction in the sweep
loop of a live process, as `app.go` runs it when a threshold is set: a save after
the copy goes to the unlinked inode and is gone after the restart.

**BackupSwap** (finding). A crash between the two renames of a restore leaves no
database at the path; the next boot creates an empty one. `restore.go` calls the
swap atomic. The old database is still in its `.bak` file.

**KeyRotationConcurrent** (finding). Two overlapping calls of `Rotate` read the
same key, demote it, and each save an active key of their own; `types.go` calls an
active key the sole signer for its purpose.

**KeyRotationDaily** (finding). `TokensVerifyInOverlap` with keys that are rotated
as often as they live (`Margin` is zero): `app.go` gives JWT keys 24 hours, and
`types.go` has them rotated every 24 hours with an overlap of one. At its rotation
a key is at its end, `IsVerifyable` rejects it from then on, and the overlap is
void.

**EventPipeline**. With and without NATS, two events (enough for an alert about
an event, an echo of an export, and two interleaved pushes), a hub queue of one.
A stored alert is a leaf unless its append failed, and no event is a leaf twice
(`AlertsAreLogged`). What a client was shown is on record, also if the process
died right after: in the events bucket and, if critical, in the log, except where
that very transaction failed (`ShownIsRecorded`). Every push returns though the
hub may never run (`PushReturns`).

**EventPipelineSigned** (finding). With NATS, `PushNetworkEvent` writes source
and destination into the signed event's own metadata map, which the hub may not
have encoded yet.

**EventPipelineEcho** (finding). Compliance events are exported on a subject that
the process's own subscription matches, so they come back as new events.

**Services** (`MCServices`).

- *Audit log*, four writes and one edit: if `Verify` accepts the file, every
  acknowledged entry is in it, unchanged and in order, and without damage `Verify`
  accepts it (`VerifyTellsLoss`); the service reports a broken chain
  (`BreakIsReported`). Four writes allow a torn line, the write merged into it, a
  restart, and an entry after them. An edit is a rewritten entry or a removed one
  that others follow; no hash chain tells a truncated end.
- *Migrations*, three releases with one, two and four migrations, ids with gaps,
  the first irreversible: the effects in the database are those of the ids up to
  the applied one, through failed runs, down-migrations and any order of releases
  (part of `TypeOK`), and a server serves on its own schema only
  (`ServesOwnSchema`).
- *NAS*, three attempts: a lasting loss and a lasting return are reported
  (`NasStatusReported`).
- *Hub connections*, two of them and a queue of one: a connection whose peer left
  is closed and forgotten (`GoneIsClosed`), and registration gets its turn
  although clients stall (`HandlerReturns`). Two connections let one be written to
  while the other joins or leaves; more only repeat that.
- *Key rotation*, two rotators, three keys: the gap without an active key that a
  rotation opens, and a failed one leaves open, closes again (`ActiveKeyReturns`).
- *Retention*, an alert and an asset, a clock of four: every expired record is
  eventually pruned, through crashes and failed transactions (`ExpiredIsPruned`).

**Components** (`MCComponents`).

- *Correlator*, three events of two sources, two chains that end in the same type
  with windows of one and three minutes, a clock of three: an alert is a chain of
  one source, no event counts twice for one (`AlertsAreChains`), and events
  observed in order never complete a chain unnoticed (`NoMissedChain`), although a
  firing chain compacts the array the next one is matched on. Three events
  complete both chains at once, or one with an event of the other source in
  between.
- *Stream counters*, four pushes of two addresses, three buckets for the code's
  fifteen, capacity two: the buffer keeps the newest (or oldest) events without a
  gap (part of `TypeOK`), and a count covers its window, exactly while every
  minute has an event (`CountsCoverWindow`).
- *Canary tokens and triage*, three overlapping hits, symmetric: the count is
  bounded by the recorded hits from both sides (`CountBounds`); a triaged alert
  stays triaged (`TriageKept`).
- *Host probe*, three connections of two processes, two ring slots: every event
  is one connection with its process and port, and a connection on a Tor port is
  lost only to a full ring (`ConnectsReported`).
- *Key rotation*, two rotators, one issuer, three keys, a clock of four, a key
  rotated at least two hours before its end and kept for two hours: a token that
  has not expired verifies for the overlap after its key was looked up, however
  rotations, retirements and issuers interleave (`TokensVerifyInOverlap`). A
  refresh token may outlive the overlap and then lose its key; nothing is promised
  of it from then on. The schedule is an assumption about the callers of the
  package; the application itself calls neither `Rotate` nor `Retire`.
- *Denylist*, two tokens, two administrators, one verifier, a clock of four: an
  acknowledged revocation is honoured until the token expires
  (`RevokedNotAccepted`), and the store implements `Denylist`
  (`ImplementsDenylist`). Assumed of callers of `Revoke`: an expiry of zero or not
  before the token's.
- *Role loading*, all inheritance relations of three roles, with an unknown
  parent, valid and invalid administrators and malformed files, in every order of
  the map: a file that loads obeys the documented rules and gives each role the
  permissions of all its ancestors; one that obeys them is refused only for a
  grant on `*` other than admin (`LoadsClosure`).
- *Policy engine*, three policies that change a role, list its permissions in
  another order or leave it out, two requests, two reloaders, three reloads: an
  answer is one that a single policy gives (`DecisionConsistent`), and however
  reloads overlap, once all of them have reported, their diffs name between them
  exactly the roles that some replacement changed (`DiffsTellChanges`). A single
  diff may be relative to a policy that was no longer in force.
- *Principals*, three logins of one subject: a status is the operator's
  (`StatusIsOperators`); sessions resolve (part of `TypeOK`).

**RoleWildcard** (finding). A role with `*:admin` and `*:read` is refused; the
comment of `validate` permits a wildcard on a role that also grants admin.

**HostProbeAddress** (finding). The reader decodes the record as little-endian and
writes the address back as big-endian, so that its bytes come out reversed.

## 4. Fairness

In `MCServices` the conditions below are grouped as `Prompt` (weak) and
`Recurrent` (strong). The part that runs never changes, so one condition on the
actions of several components is one condition for each of them.

- `ExpiredIsPruned`: the supervisor restarts a dead process (WF); the sweep's
  ticker fires and its transactions do not fail every time (SF: a crash disables
  them again and again); a sweep past its transactions ends (WF). This excludes a
  process that never lives for one sweep interval, which would never sweep.
- `ActiveKeyReturns`: a rotator's goroutine runs and tries again (WF), and key
  generation, which fails only with the random source or the store, sometimes
  succeeds (SF).
- `PushReturns`: goroutines that can run do (WF). Nothing is assumed of the hub.
- `BreakIsReported`: the process comes back (WF) and sometimes lives until the
  next tick of the integrity service (SF on snapshot and verification).
- `NasStatusReported`: the ticker fires (WF), and a mount command returns, for it
  has a timeout (WF).
- `GoneIsClosed`, `HandlerReturns`: a read on a broken connection fails and a
  write ends by its deadline of ten seconds (WF); the hub's `select` picks among
  ready cases at random, so it does not pass one over for ever (SF).

Safety properties need none of it. Crashes and failures are never forced to
occur or to stop.

## 5. Proofs

Every theorem holds for all values of the constants that satisfy the named
assumptions of its module. Each rests on one inductive invariant, proved with one
lemma per action.

**TransparencyLogProofs**: for any payloads, issuers and number of leaves,
`TypeOK`, `CacheMirrorsDisk`, `HeadsBackedByLeaves`, `LeafNeverOverwritten` and
the refinement of `AppendOnlyLog`. Assumed of the constants: `MaxLeaves` is a
natural number and `Absent` is not a payload. None of the invariants is
inductive: `CacheMirrorsDisk` says nothing inside the critical section. `IndInv`
adds that the bucket is always a gap-free prefix; that the cache is
behind it by exactly the leaf being committed, and only then; and that the
size and root an issuer holds already belong to a stored prefix. The last
conjunct survives appends because leaves are immutable (lemma `BackedStable`).
Nothing about the hash functions is used.

**KeyRotationProofs**: `TokensVerifyInOverlap`, for any number of rotators and
issuers and any lifetimes that satisfy `Scheduled`: `Overlap` at most `Margin`, and
`Margin` at most `KeyTTL`. These are the conditions an operator has to meet; the
code enforces neither, and KeyRotationDaily shows that the first is needed. The
lifetimes of the tokens are arbitrary. `IndInv` adds that an active key is at
least `Margin` from its end, and what holds of a key since someone looked it up
(`Kept`): it outlives the overlap, left the active state no earlier than the
lookup, and if it is retired the overlap is over. Two rotations that read the same
key are the hard case: the second demotes it again, which only prolongs its
overlap.

**RevocationProofs**: `RevocationTypeOK` (the cache mirrors the bucket),
`RevokedNotAccepted`, `FirstRevocationKept` and the refinement of `Denylist`.
`RevocationInv` adds what the holder of the mutex has changed so far (`Mirror`);
that an entry outlives its token, so that a revoked token is in the bucket or has
expired (`Kept`, which carries the argument across GC and restarts); and what a
verifier knew when it looked at the clock (`Checks`).

**RetentionProofs**: `RetainedUntilTTL` and `RetentionTypeOK`, provided that
compaction is off or confined to a maintenance window (`Safe`); RetentionScheduled
shows that this hypothesis is needed. `RetentionInv` adds that every file that is
or may become the database holds what it must: the one at the path, the one the
process has open, and a finished copy.

**EventPipelineProofs**: `AlertsAreLogged`, `ShownIsRecorded` and `TypeOK`, for any
number of events, messages and queue capacities. `PipelineInv` adds that a leaf's
push is past the log stage or was cut off, so no event is appended twice; that
every critical event past that stage is a leaf or was refused (`LogFirst`), and
every event past the store stage stored or refused (`StoreFirst`), which is what
makes the order of log, store and broadcast matter; and that what waits in the
hub's queue or was delivered is past both.

**PolicyEngineProofs**: `DecisionConsistent`, `DiffsTellChanges` and
`PolicyTypeOK`, for any policies without duplicate permissions, requests and
number of overlapping reloads. `PolicyInv` adds that the snapshot of a request was
in force since it was loaded, that no role checked so far grants what is wanted,
and that a reload under way holds a valid policy. For the diffs it adds what links
the policy each reload has read and the one it puts in place to the one in force
and to the roles changed and reported so far. A lemma shows that `diffPolicies`
finds the differences of any two policies, from what `rolePermsEqual` compares.

**PrincipalsProofs**: `StatusIsOperators` and `PrincipalTypeOK`. `PrincipalInv`
adds that what a login under way has found is still stored, that the identifier it
would provision is free, and that without overlap only one login is between its
lookup and its save.

**CanaryTokensProofs**: `CountBounds` and, as long as no patch sets the status
back to NEW, `TriageKept`. `CanaryInv` adds that what a hit has read is no more
than the hits recorded, and still the token's count if no save fell in between;
and that an alert is saved by the last step of its own callback.

Proved and not part of a run, since the proof covers it: `CacheMirrorsDisk`,
`LeafNeverOverwritten` and `FirstRevocationKept`.

Only model-checked: liveness; the Merkle proof algorithms (recursion over data)
and `AuditorAccepts`, which rests on them; `LatestNeverRegresses`; `LoadsClosure`
(a recursive expansion); and `Backup`, `AuditLog`, `Migrations`, `NASMount`,
`HubClients`, `TemporalCorrelator`, `StreamProcessor` and `HostProbe`.

## 6. Disagreements and limits that have no run

Met while modelling, decided by reading a few lines, and noted with the hazards
where one bites:

Storage

- `VerifyInclusion` ignores surplus path entries; its comment expects the caller
  to detect them by comparing roots, which then agree.
- No code outside tests signs or stores tree heads; `types.go` says one follows
  every append.
- A TTL of zero is replaced by the default; the comment on `Config` says it keeps
  records forever.
- A backup's tree size and root are read after the snapshot and may describe a
  later tree, or two different ones, so that its own record does not match it. The
  restore command passes no record to compare with. Orphaned `.age` files are not
  rotated. Two names of one second sort by the text of the tree size.
- `Append` of the audit log moves the chain on before it writes: after a refused
  write the file no longer verifies, also after a restart if entries followed. An
  acknowledged entry can share a line with a torn one, which `Verify` reports.
- `RunUp` returns the applied id also when nothing ran, where its comment says 0.
  A migration registered later with a lower id than the applied one never runs.
- The NAS loop tries one remount per loss and none after it failed; a failed
  start has no health loop. `Stop` unmounts while the loop still runs (`Run`
  cancels its context last), so a tick in between reports a loss and mounts the
  share again.

Keys and identity

- `Issue` asks neither
  for a key's validity window nor `IsUsable`, and the application creates one key
  and never rotates it; `types.go` says a key signs only within its window.
- The application configures no revocation checker and no OIDC login, and
  nothing outside its own test uses the reliability package.
- Two first logins of a subject at once provision it twice; a later login replaces
  roles assigned beforehand; the mapper writes to principals the store shares,
  without its lock.
- A policy file that fails to load at boot leaves the engine without a
  policy and without a watcher.

Events and analytics

- Alerts of the anomaly detector, the NAS and integrity services and the Neotron
  subscriber bypass the alerts bucket, so they cannot be triaged. `app.go` routes
  GET on `/api/alerts/{id}` to the PATCH handler, which answers 405.
- The violation subject yields an alert even for a check that passed.
- Overlapping canary hits may be counted once, and the count may fall.
- Observed out of order, events farther apart than a chain's window can make an
  alert. An event exactly as old as the window still counts in one of the
  correlator's two comparisons and not in the other.
- After a minute without any event, the counters include older events.
- On entry to `tcp_v4_connect` the socket may not hold its destination yet.
- In the topology graph an event overwrites an asset's label with its address.

## 7. Not modelled

- Packet capture, DNS, proxy, Tor, discovery and browser control: I/O with
  systems outside the repository. They appear as the environment that pushes
  events.
- `ebpf/bpf/vmlinux.h`: a generated dump of kernel types. It has no behaviour to
  model, and it is most of the C in the repository; the program that includes it,
  `probe.c`, is modelled in full.
- The isolation forest: floating-point arithmetic.
- Cryptographic primitives, TLS and hashing, and the vault around them: library
  calls. Circuit breaker and backoff: wrappers of libraries.
- The health registry and the topology graph: each call is one locked read or
  write, with nothing between two steps.
- Configuration, logging, metrics, tracing, command line and user interfaces:
  no state that the properties depend on.
- The `.bak` files of a restore, `MultiSink`, service certificates, token claims
  and audiences, the OIDC protocol and its state cookie, the authenticators, the
  minting of canary tokens, and the order in which the application shuts down.

## 8. Plan

1. Boot and shutdown of the application as a composition: which services still
   push while the stores close.
2. `PushAsset` with reconciliation and the topology graph.
3. A proof of the audit chain's integrity, and of `NewestKept`.
4. The OIDC state cookie and its expiry against concurrent callbacks.

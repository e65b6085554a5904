# kseal: TLA+ specifications and proofs

kseal protects mobile applications. A device core collects risk signals, a server
turns an attestation into a trust session, a protected backend asks the server
about each request, and the tenant's operators watch telemetry and roll out
policies. These modules specify the server, the parts of the device core that it
relies on, the operator's command line and the release tools. TLC checks them on
small instances. TLAPS proves the central properties for every instance.

Contents: [the system](#the-system) · [modules](#modules-and-the-code-they-model) ·
[runs](#what-each-run-checks) · [findings](#where-code-and-documentation-disagree) ·
[bounds](#bounds) · [fairness](#fairness) · [proofs](#what-is-proved) ·
[only model-checked](#what-is-only-model-checked) · [not modelled](#what-is-not-modelled)

To check a run: `tlc -config <cfg> <module>`. To check the proofs: `tlapm <module>.tla`.
Paths below are relative to `src/`. `PROJECT.json` maps every definition to the lines it
models, and lists the hazards of the code with the properties that cover them.

## The system

| Part | Source | Role | Modelled by |
|---|---|---|---|
| Risk algebra | `server/shared/risk` | wire bits to signals, score, level, decision | `Risk` |
| Trust service | `server/data-plane/trust` | nonces, attestation, sessions, request proofs | `TrustService`, `ReplayGuard` |
| Attestation verifiers | `server/data-plane/attestation` | platform verdicts, cached provider keys | `Attestation` |
| API edge | `server/shared/auth`, `server/shared/middleware`, `server/data-plane/ingest` (service, quota) | callers, rate limit, quota, acceptance of telemetry | `Access`, `Edge` |
| Telemetry broker and Writer | `server/data-plane/ingest` | Kafka producer and consumer, batches, acknowledgement | `IngestPipeline` |
| Analytics store, queries, simulator, retention | `server/data-plane/ingest`, `query`, `simulator` | stored events, reads, purge | `Analytics` |
| Webhook dispatcher | `server/data-plane/webhook` | fan-out, retries, breakers | `WebhookDispatcher` |
| SIEM export | `server/data-plane/siem` | per-tenant pipes, connectors, field allow-lists | `SiemExporter`, `SiemConnectors` |
| Outbound HTTP | `server/shared/safehttp` | which address may be dialled | `SafeHttp` |
| Canary rollout | `server/data-plane/canary`, `server/control-plane/compliance` | staged policies, auto-rollback | `CanaryRollout` |
| Guardrails, fleet engine | `server/data-plane/guardrails`, `fleet` | windowed block rates, cross-device anomalies | `Guardrails`, `Fleet` |
| Config service and device core | `server/data-plane/config`, `sdk/rust-core` | signed policy and kill switch for a device | `ConfigDelivery` |
| Registry | `server/control-plane/registry` | tenants, apps, policies, keys, sessions, webhooks | `Registry`, `RegistryMem`, `RegistryPostgres` |
| Compliance | `server/control-plane/compliance` | audit chain, records, kill switches, rollout rows | `Compliance`, `ComplianceMem`, `CompliancePostgres`, `AuditChain`, `KillSwitch` |
| Control-plane transactions | both packages' `postgres.go` | statements of concurrent transactions | `ControlTx` |
| Tenant keys | `server/shared/crypto`, `registry/cmk.go`, `registry/dedicated.go` | key domains, cached lookups | `Sealing` |
| Server process | `server/cmd/kseal-server`, `server/shared/db` | configuration, migration, start, shutdown | `ServerLifecycle` |
| Command line | `cmd/kseal-cli` | profiles, policies and packs, events, doctor | `CliSession`, `PolicyCli`, `CliEvents` |
| Release tools | `tools/` | control catalogue, release gate, store disclosures | `ReleaseEvidence`, `StoreDisclosure` |

How they interact. A device asks the trust service for a nonce, attests with it, and
gets a token whose session row holds the highest sequence number spent. A backend
sends each request's proof to the same service. The level and the decision come from
the risk algebra, under the policy the registry holds active. Decisions are counted by
the guardrails detector, and the canary controller reads those counts to withdraw a
candidate policy. Telemetry passes the edge and goes through Kafka to the Writer, which
stores it and then hands each event to the webhook dispatcher and the SIEM exporter.
Devices fetch configs, signed with the tenant's key, and kill switches. Everything an
administrator changes goes through the control plane's transactions, which append to the
tenant's audit chain. The command line drives the control plane from outside.

## Modules and the code they model

A module has the state of its part as variables and one action per operation or step.
A handler is split where other code can run: at each call to a store, at each lock that
is released, at each send on a channel. What happens within one critical section or one
transaction is one step.

### Trust decisions

**Risk** is the pure part: `FromWire`, `Fuse`, `Score`, `Level`, `Decision`,
`capabilityScope` and `NextChecks`. A bitset is a set of signals. `Score` saturates at
`MaxScore`, which stands for the `uint32` maximum. A policy's weights and thresholds are
partial functions, because the code's maps may lack entries.

**TrustService** is the service for one tenant. `VerifyAttestation` goes through
`"consume"` (delete the nonce from Redis), `"app"`, `"verify"`, `"policy"`, `"key"`,
`"newkey"` and `"session"`, and ends in an answer. `ValidateRequestProof` goes through
`"session"` (read the row; test status, expiry and tag), `"consume"` (`ConsumeSequence`,
one atomic update) and `"policy"`. A session's row is `status`, `last`, `expires`.
`GetNonce`, `CreateApp`, `ActivatePolicy`, `RevokeTrustSession`, the expiry of a nonce and
the clock run between any two steps; `AbortAttestation` and `AbortProof` are store errors. A
proof's tag is a Boolean, since the HMAC verifies or it does not.

**ReplayGuard** is what a backend may rely on: a grant needs an open token and a sequence
number above all spent ones. `TrustService` implements it: a token is open while its row
is active, and the grants are the checks that consumed.

**Attestation** has the shared cache of provider keys, split at the lock that a fetch
releases (`PublicKey`, `Fetch`, `Store`, `Find`), rotation at the provider, and what each
platform's verifier tests. A token is the set of claims it makes.

### Telemetry

**Access** has the roles and scopes that every procedure asks for, as one table. **Edge** runs a call
through authentication (`Access`), the token bucket in Redis and
`SubmitTelemetry`: the cache of apps, the quota window, and publication event by event. Calls run on
replicas that share Redis and neither clock nor cache. A replica reads its clock before it sends a
script to Redis, so reading the time (`Arrive`, `decompress`) and the run of the script (`rateLimit`,
`Allow`) are separate steps: scripts run late and out of order. `now` is the time of Redis, by which
keys expire. Redis and the registry may fail at each step, and Redis also after a script has run
(the reply is lost). Two consequences of the late scripts show in the properties. A time behind the
one the bucket holds sets it back, and the seconds in between are refilled once more; `late` sums
how far behind the times of a tenant's scripts were, and `RateBound` allows for it. A counter may
lapse before the last script of its window runs; `QuotaHeld` counts the batches weighed in time (`InTime`:
before the counter of their window can have lapsed).

**IngestPipeline** covers publication to Kafka, the consumer goroutine, the Writer, the commit
of offsets, and the process around them. A record is a partition and an offset. A
consumer-group position is the set of records it covers. `pending` is the broker's list of
records handed off and not acknowledged, `out` the Go channel, `batch` the Writer's slice. `Ack`
pops from the front of `pending`, as the code does, and does not look at what was
stored. A record that cannot be decoded is skipped and marked committable at once. `Crash`
loses everything in memory, and `Restart` resumes from the committed position. The store
dedups by event id, so `stored` is a set.

**Analytics** keeps the in-memory slice and the ClickHouse rows side by side (`mem`, `table`,
redelivered copies included), the listing with its cursors, the aggregates, the policy simulator,
and the purger that works through the tenants while windows change.

### Background workers

**WebhookDispatcher** has `Submit`, the fan-out goroutine, `enqueue`, the workers, the retry
timers, the breakers and `Stop`. `enqueue` is two steps, the test of the stopped flag
(`TestStopped`) and the send (`Send`), because a timer goroutine may be preempted between them.
The job queue is a bounded set, since nothing depends on the order in which workers take
jobs. A panic stops the process.

**SiemExporter** is one tenant's export: concurrent `Submit` calls (`lookup`, `enqueue`, the
removal of a stale pipe), the pipe's goroutine with its batch, retries and breakers, the idle
reaping by `tryClose`, the cached set of connectors, and `Stop` with its snapshot of
pipes. `fate` records what became of each event at each connector.

**SafeHttp** resolves, tests and dials an address per connection, through proxies and
redirects. An address is its four octets.

**ServerLifecycle** follows `run`: configuration, the retried connection, the migration loop with
its row per migration, Redis, backends, serving, and the deferred closes as a stack
(`defers`). Replicas of different releases share a database; a commit's answer may be lost and
a process killed at any step.

### Policies, switches and devices

**CanaryRollout** has the administrators' calls one transaction at a time (`SetCanaryRollout` reads and
then writes; `PromoteCanary` reads, activates, marks), the controller's sweep (`ListActive`,
`Replace` of the snapshot, `Assess` of each listed rollout, `AutoRollback`), and the hot paths
that read the snapshot. The sweep works on copies, as the code does, and a rollback updates
the row by tenant and app. The hash bucket of an instance is a constant; the block rate is
compared in integers. The detector is two counters per app and policy, and `WindowSlides` lets any
of the counted decisions leave the window. `Guardrails` models the ring of buckets behind it.

**Guardrails** and **Fleet** are the two windowed detectors: rings of buckets reused in place,
pruning or LRU eviction, and for the fleet a baseline learned from the buckets that left the
window and a shared snapshot. A call takes its epoch before it waits for the shard's lock
(`AwaitShard`), so it may enter the ring behind newer calls (`CallLate`) and is judged there.

**ConfigDelivery** composes the config service with a device: policy and switch resolution, ETags,
signing, fetches whose answers are lost or overtake each other, and the core's `load_config` and
`apply_kill_switch`. A signature is the key and what it was made over. `KillSwitch` has the rule by which a switch
is in effect, shared with `Compliance`.

### The control plane

**Registry**, **Compliance** and **SiemConnectors** perform every operation of a service on the
PostgreSQL store and on the in-memory store side by side (`RegistryPostgres` and `RegistryMem`,
`CompliancePostgres` and `ComplianceMem`). A store is a record of tables, an operation maps a
store to a new one and an answer. `AuditChain` has hash, append and verification; a hash is the
tuple of what it covers.

**ControlTx** takes the transactions that consist of several statements apart. Each statement is an
action that sees the committed rows and its own writes (READ COMMITTED), waits for rows that another
transaction wrote, for the advisory locks the code takes, and for a transaction whose row would
clash in a unique index; a matched row is tested again when its lock is granted. A transaction may
be lost at any point. Its kinds are `CreatePolicy`, `ActivatePolicy`, `RotateSigningKey`,
`RevokeAPIKey`, `RotateAPIKey`, `IssueKillSwitch`, `SetCanaryRollout`, the moves of a rollout, and a
plain audit append.

**Sealing** has the two cached lookups (dedicated tier, customer-managed key) with their expiry,
sweep and invalidation, and secrets that are sealed and opened in the domain the lookups name, while
other processes change the tenant's row. A process is configured for either kind of key, both or none
(`tiers`); `Fallback` is where an operation goes that the dedicated tier does not take.

### Tools

**CliSession** is processes that share one configuration file, resolve profile, tenant and key, call a server
that may fail after it acted, and exit with a code. Every command is an entry of its tables, with what
the command needs and whether it heeds `--dry-run`; cobra turns down the lines that `Rejected` names.
**PolicyCli** is the policy commands against other clients and lost replies, with the three readings of
a policy's scoring tables: the config service's, the trust service's and the CLI's own.
**CliEvents** is the tail and the replay. **ReleaseEvidence** reads the control catalogue line by
line with both tools' parsers, one of which takes columns in any order, reads the manifests of the
Android and the iOS build, and decides the release; **StoreDisclosure** merges a data contract
into the two stores' forms.

## What each run checks

Five runs check that properties hold. Parts that share no state are explored in one run, one after the
other: the variable `component` says which of them moves, and the others keep their initial state. A
part that theorems are about is extended by the run's module, and the run checks the part's own
definitions, those the theorems name. The other parts are instances, and a property of one of them
is stated under its component.

| Run | Property | What it says |
|---|---|---|
| `risk` (`MCRisk`) | `OneSessionPerNonce` | racing attestations mint at most one session from a nonce, for the app it was issued to |
| | `NoReplay` | no two checks consume the same sequence of a token |
| | `RefinesReplayGuard` | the service implements `ReplayGuard` |
| | `ScoringSound` | the score is the capped sum, the level the most severe one met, and more signals never relax an answer |
| | `ReadsExact` | both stores answer alike, following the cursors shows every event once although others arrive between the pages, simulations balance |
| | `RetentionKept` | only events past a window in force are purged, and all of them in the end |
| `workers` (`MCWorkers`) | `BreakerEvidence` | an open breaker has `BreakerTrip` failures since the endpoint's last success |
| | `EverythingSettles` | every buffered event is fanned out, every job has an outcome and `Stop` returns, unless the process panics |
| | `NothingStrandedByReaping` | no event is accepted into a pipe that was reaped |
| | `OnePipeWorks` | a tenant has one working pipe |
| | `BatchAccounted` | a settled event was delivered or counted at every connector its batch was meant for |
| | `ExporterSettles` | events, `Submit` calls and `Stop` come to an end |
| | `OnlyPublicDialled` | only public addresses and the operator's proxies are dialled |
| | `MigrationsSound` | a replica serves on its own schema, and no migration takes effect twice |
| | `NothingClosedInUse` | workers and Writer find open what they use, and so does a request unless the listener failed or `Shutdown` ran out of time |
| `control` (`MCControl`) | `ChainUnbroken` | concurrent appends leave neither gap nor fork |
| | `TrailTellsState` | the newest event about a switch or rollout tells what its row holds |
| | `InForceHistory` | what is in force is never doubled or lost, and switch versions step by one |
| | `EveryTxEnds` | no order of locks makes transactions wait for each other |
| | `StoresAgree` | the stores answer and read alike, page by page, but for four differences that it names |
| | `TrailReadable` | the trail verifies, of what tampering makes of it only its beginnings do, and paging through it while it grows skips nothing |
| | `MostSpecificWins` | the switch in effect is the most specific one |
| | `ExportSound` | an accepted connector can be rendered for unless its kind has no name, and a row holds only listed fields |
| `rollout` (`MCRollout`) | `LossOnlyBelowPoison` | a committed record is stored, unless an undecodable record at or behind it was committed |
| | `EventuallyStored` | an event in the topic is stored across outages, crashes and restarts, with the same exception |
| | `AutoRollbackSound` | an automatic rollback ends the rollout assessed, unless someone changed it during the sweep |
| | `ServedExplained` | what an instance is served was active once or a candidate at a percentage that covers it |
| | `BreachEnds` | no rollout stays active and in breach for ever, also beside an app whose rollbacks always fail, and a withdrawn candidate leaves the snapshot |
| | `SupersededStaysSuperseded` | an older switch never undoes a newer one of its scope |
| | `KillConverges` | once commands cease, the app ends up as the switch in effect says, with one exception between two scopes (`HeldForAnother`) |
| `parts` (`MCParts`) | `LimitsHeld` | rate limit and quota hold across replicas, and no outage of Redis opens a fail-closed procedure |
| | `BatchAnswered` | a batch is answered event by event with what was done, and what is published names the caller's tenant and a registered app |
| | `WindowsExact` | both detectors count the trailing window exactly; a late call is judged by the window of its own epoch, less the buckets taken over |
| | `AttestationSound` | a retired key stops counting, a standing one is found, what is accepted is this request's |
| | `DomainFollowsRow` | whatever tiers a process has, a secret is sealed where the tenant's row says, and a change shuts the old domain |
| | `ResultsTrue`, `EnforcedAsWritten` | bulk results are true; what is enforced is what `simulate` computes and devices are served, except for texts the two services parse differently, which the CLI never writes |
| | `SessionSound`, `EventsOnce` | the configuration file is always usable and exit codes tell the effect, with two named exceptions to the documentation; a tail prints once |
| | `ReleaseToolsHonest` | both tools read the same controls from a table with the catalogue's columns, an unblocked release rests on evidence, and no disclosure is dropped or weakened |

## Where code and documentation disagree

Each of these runs checks one sentence of the repository's documentation or comments, and
TLC shows a behaviour of the code that breaks it.

| Run | Property | The sentence | What happens |
|---|---|---|---|
| `ingest_poison` | `PersistBeforeCommit` | `docs/data-plane-scale.md`: the "durable read position never runs ahead of what is actually stored" | An undecodable record is marked committable when it is read. A Kafka position covers the earlier records too, among them events still in the Writer's batch. A crash then loses them. |
| `ingest_shutdown` | `ShutdownEnds` | same document: "retries during drain are bounded by a grace window so a down store cannot hang termination" | Only the flush after the channel is closed and empty gets the grace context. A flush already retrying uses the background context and never gives up. |
| `webhook_panic` | `NeverPanics` | comment on `Stop`: late timers "drop instead of panicking on a send to a closed channel" | A retry timer tests the flag, `Stop` runs to the close of the queue, the timer sends. |
| `webhook_drain` | `FanoutCompletes` | comment on `Stop`: "all pending fan-out completes before the worker queue closes" | The flag is set first, so the jobs of buffered events are dropped in `enqueue`. |
| `canary_stale_sweep` | `AutoRollbackTargets` | comment on the controller: it rolls back a rollout "whose candidate cohort breaches" | The rollout was replaced or promoted between the listing and the write; the new state is rolled back. |
| `canary_promote_race` | `PromoteActivates` | `docs/canary-rollout.md`: promotion "Activates candidate as the new active policy" | A new rollout written while the promotion of the old one runs is marked promoted, and its candidate was never activated. |
| `config_signature` | `ServedConfigLoads` | comment on the signer: the config is signed "so the device can verify authenticity offline" | The server signs the bare config bytes; the device core verifies the envelope's preimage (domain, version, TTL, key id and bytes). It refuses the config. |

`LossOnlyBelowPoison`, the theorem `FanoutSafety` and `AutoRollbackSound` say what remains true of the
first, the third and the fifth; all three are proved.

Other disagreements are exceptions that a property of a passing run names. The property says what
holds besides them.

| Property | The sentence | The exception |
|---|---|---|
| `StoresAgree` | `registry/mem.go:17`: the in-memory store "mirrors the Postgres store's semantics" | It takes a build of an app that does not exist (`mem.go:218-240`); the foreign key of `003_builds.sql` does not. |
| `StoresAgree` | `compliance/audit.go:9-10`: the stores are "held to identical semantics by a shared suite" | A rollout request without an app is invalid in one and not found in the other; a new rollout keeps the observations of the last rollback in PostgreSQL only; a range that ends before the epoch is empty in PostgreSQL and open in memory. |
| `TrailReadable` | `docs/audit-trail.md:26-27`: "any insert, edit, drop, or reorder breaks the chain" | The loss of the newest events leaves a trail that verifies. |
| `ExportSound` | `siem/store.go:101-104`, of endpoints: validation lets a typo surface "at registration time rather than later as repeated delivery failures" | A kind the enum has no name for passes with the unspecified format, for which nothing is rendered (`mapping.go:37-38`). |
| `KillConverges` | `docs/kill-switch.md:46-48`: "issuing or changing a switch busts cached config within the TTL" | The tag has command and version and not the scope. A device that holds the tag of a switch it refused as superseded is told "not modified" about a switch of another scope with the same command and version. |
| `EnforcedAsWritten` | `config/service.go:254-265` and `trust/service.go:455-477` read the same text | A weight's key that only begins with a number is read by the first (`Sscanf`) and skipped by the second; a value that is no number leaves the first what it had decoded and the second nothing. |
| `SessionSound` | `errors.go:16`, `docs/cli.md:120`: exit code 2 for bad flags and arguments | A line that cobra turns down exits 1. |
| `SessionSound` | `docs/cli.md:5-6`: "every mutating command supports `--dry-run`" | The `config` commands write the file all the same. |
| `ReleaseToolsHonest` | comment on `MergeMASVSReport`: "both tools parse the same mapping doc" | `masvs-report` takes columns by position, `mastg` by name; a table with permuted columns gives different controls. |

## Bounds

Every bound is a constant of its module, or is given where an MC module instantiates it.

- **risk**: two attestations race for one of two nonces or take one each, over two apps. One attestation
  with two proof checks, sequences 0 to 2, covers equal, smaller and larger numbers and the zero that
  `ConsumeSequence` refuses; `TokenTTL` 1 with `MaxNow` 1 lets a token expire in the middle of a check. The
  algebra is compared with its references over three further signals a call may gain, weights of
  zero and of the maximum, and thresholds in and out of order. Analytics: events of two tenants, some
  of one instant, pages of one and two, four days, one tenant whose purge fails. Two further events, one
  that sorts before those listed and one behind, arrive only between the pages of a walk, on a day without
  a purge (`BetweenPages`).
- **workers**: three events for one endpoint over queues of one and two workers, so that queues overflow
  and results of one endpoint overlap; `MaxAttempts` 2 and `BreakerTrip` 2 are the least values with a retry
  and a streak. Two SIEM events over two pipes: a pipe is reaped and replaced while a
  `Submit` holds it. Two replicas of two releases that disagree on a migration's text, one fault, one stop.
  The addresses lie on both sides of the edges of the reserved ranges.
- **control**: two connections, two scopes, three calls: every pair of transactions overlaps at every
  statement, and a third call sees what they left. While a call about the second scope runs, no third
  one begins (`AtMostTwo`). The stores get three or four calls per group of
  records, enough to fill a page, replace and re-create. Three connections and more are covered by the proofs.
- **rollout**: two partitions, two events on one of them, one undecodable record anywhere, two starts;
  `BatchSize` 2 over `ChannelBuffer` 1 lets batch, channel and hand-off hold records at once. Two apps, so
  that one rollout can hold up the other, and an instance in bucket 0, the one an off-by-one moves;
  `MinSamples` 1 makes one blocked decision a breach. A rollout is explored in three shapes: two changes,
  or one and a restart (`RestartOrChange`), with one policy at 50 percent; one change with two policies
  at 0 and 50 percent; and an instance in each app, where the rollbacks of one app always fail
  (`OthersRollBack`). Two fetches in flight and three
  events (switches, failed lookups) let an older answer arrive after a newer one. Switches there have
  the scope of the app or of its build (`AppAndBuild`) and there is no rollout (`NoRollout`). With a second policy
  and rollouts there are two events and switches of one scope (`OneScope`).
- **parts**: windows of two buckets and more epochs than that, so that buckets are reused; caches of one
  or two entries, so that they evict and expire; two concurrent calls or processes; one fault each; contracts
  of three items. Readers of the fleet's snapshot come while no call waits (`ReadersApart`). Catalogues have up to
  five lines, four of them where a header has permuted or missing columns; the tools run on the longer ones with
  the Android manifest only (`ToolsApart`), on shorter ones with each of four manifests. Sealing: every choice of
  `tiers`. Keys: two verifications, a cache and a fetch of one
  second each, one rotation. The edge has two slots for calls, a bucket of one token refilled once
  a second, a budget of one batch of two events per window of two seconds, and four shapes: four nonces on two
  replicas whose clocks differ by a second, with a fault (scripts overtake each other, and fail-closed
  calls meet an outage); two batches on the two replicas until a counter has lapsed; three batches
  of two tenants, an app registered late; two batches of any kind with a fault. The rate is a whole number
  of tokens per second, where the code has a `float64`. The two processes of the command line are symmetric, and
  the run declares that; it checks invariants only.

The runs of the findings use the least instance that shows them: one event, or two calls and three changes.
The passing runs say `CHECK_DEADLOCK FALSE`, since some part of each may stop: finitely many calls are
answered, a pipeline is down and out of restarts, a dispatcher has stopped, the clock has reached its
bound. The canary sweep never stops, and its runs check deadlock.

## Fairness

- **IngestPipeline**, `FairSpec`: weak fairness of the consumer, the Writer, its ticker and
  backoff timer, the client's auto-commit and the steps of a shutdown once it has begun. A write
  returns, with either result: the store may stay down. `EventuallyStored` also needs that writes
  do not fail for ever (strong fairness of `WriteOK`) and that a process that is down is started
  again; `ShutdownEnds` is checked without these, since it is about a store that is down.
- **WebhookDispatcher**, **SiemExporter**: weak fairness of the goroutines' steps and of timers and
  tickers, and of a delivery having an outcome, since the HTTP client has a timeout. Nothing forces
  `Submit`, `Stop` or a breaker to reset.
- **CanaryRollout**: weak fairness of the sweep's steps, since a ticker drives it, and strong
  fairness of the rollback's write: a database that is tried again every sweep answers once. In the third
  shape the app whose rollbacks always fail is left out of that.
- **ConfigDelivery**: weak fairness of the steps of a fetch; the host fetches periodically.
- **Analytics**: weak fairness of the purge pass, which a ticker drives.
- **ControlTx**: weak fairness of each connection's next statement: the driver waits for locks only.
- **ServerLifecycle**: weak fairness of a replica's next step and of answers to requests.

## What is proved

All theorems hold for every value of the constants. What they assume of the constants is named: the
`ASSUME`s of `TrustService`, `Risk`, `IngestPipeline`, `WebhookDispatcher`, `ControlTx` and `Sealing`, and
hypotheses of the theorems (`CanaryConstantsOK`, `ServerConstantsOK`, `HttpConstantsOK`,
`AttestConstantsOK`, `EdgeConstantsOK`, `Nil` neither a pipe nor a connector), which `MCRollout`, `MCWorkers` and `MCParts`
assume of the constants they are run with. TLC evaluates all of them.

**TrustServiceProofs.** `NonceSafety` (`OneSessionPerNonce`), `ReplaySafety` (`NoReplay` and
`ProofBacked`), `OrderSafety` (`SequenceOrder`), `RevocationSafety` (`RevocationFinal`), `Refinement` (`RefinesReplayGuard`),
`TypeCorrect`. None of the properties is inductive: they speak of rows and answers, and what separates
two calls is what each holds between its steps. `NonceInv` adds that a call past `"consume"` holds a
nonce that is gone from Redis, and that two such calls hold different ones. `RowInv` adds that an
accepted session has a row and a level. `ChkInv` adds that a check at `"consume"` has a genuine tag
for an accepted session, and that a consumed number lies between 1 and the row's `last`. For the
refinement, every step but opening, revoking and consuming leaves the mapped variables alone.

**IngestPipelineProofs.** `CommitSafety` (`LossOnlyBelowPoison`), `PersistedFirst` (without
undecodable records, `PersistBeforeCommit` holds), `HandOffSafety` (`HandOffOrder`), `CommitOrder`
(`CommitAdvances`), `TypeCorrect`. Positions are closed under earlier records (`PositionInv`);
batch, channel and hand-off are consecutive stretches of `pending`, which is in offset order
(`QueueInv`); every record read is stored, marked or pending (`CoverageInv`); nothing undecodable is
pending and a batch being acknowledged is stored (`ValueInv`); the channel is empty once the Writer
drains (`DrainInv`). `Ack` then marks records that are stored, and what a mark covers besides them
was read before, so it is stored, marked or earlier in the batch.

**WorkerProofs.** For the webhooks: `BreakerSafety` (`BreakerEvidence`), `FanoutSafety`
(`FanoutNeverPanics`), `AdmissionSafety` (`NothingAdmittedAfterStop`), `TypeCorrect`. `StreakInv`
ties the breaker's counter to the failures since the last success; `ClosedInv` says that once the
queue is closed only retries, which are on a later attempt, can still be in `enqueue`. For the client
that the workers send with: `DialSafety` (`OnlyPublicDialled`). `HttpInv` says that only
proxies are recorded, that what is dialled is one of them or a host, and that the addresses a
connection tries are those that were tested: another answer for the same name in between changes
nothing. `PublicNotReserved` shows that the tests cover every range their comment lists.

For the SIEM export, in the same module: `ReapingSafety`, `MapSafety`, `OnePipeSafety`, `StopSignalsAll`,
`AccountSafety` (`BatchAccounted`). `PipeInv`: a pipe that a stale `Submit`
removes is closed for good, a closed pipe is over and empty, a pipe is over only after it was closed
or told to quit, a live pipe is the one in the map, and from the moment `Stop` has its snapshot every live
pipe is in it. `AccountInv`: an accepted event is in one queue or batch, once, and what is owed at a connector is due in
the batch that its pipe works on, at a connector still to be served.

**ControlProofs.** `TrailUnbroken` (`ChainUnbroken`) and `NoCollision`
(`AppendsNeverCollide`). The chain alone is not inductive: an append relies on what its transaction
read earlier. `Exclusive` says that whoever is between reading the tail and committing holds the
tenant's lock, and that what it read is still the end of the committed trail. `Numbered` says that
the events are numbered from 1 without a hole.

On top of it, in the same module: `TrailAndState` (`TrailTellsState`), `InForceSafety`
(`OneInForce`), `SwitchVersions` and `PolicyStaysInForce` (the two action properties), which give
`InForceHistoryHolds` (`InForceHistory`), and `RowsAreTyped`. `RowInv` has two halves. `Local` says of
each transaction by itself which table and rows it writes, how far it has come (`Stage`), and that
an issued switch carries the number after the committed one, which the scope's lock keeps in place
(`Counted`). `Apart` and `Unclashing` say what locks and unique indexes guarantee between
transactions: no row is written by two, no id given out twice, and no two rows clash, committed,
visible to one transaction, or written by two. A commit then replaces exactly what the transaction
matched. That the row and its event agree follows because both commit together and `Change` reads
the transaction's own write.

**RolloutProofs.** `RollbackSafety` (`AutoRollbackSound`), `ServedSafety`
(`ServedExplained`), `RolloutTyped`. The sweep acts on copies, so the invariant says what a copy is
worth: what was listed was set once, and it is still the app's last change or the app changed since
(`Listed`); what the snapshot holds was set once (`SnapshotTells`); the row of an active rollout is what
the last event set (`RowsTell`). For the device: `SwitchesOnlySucceed` (`SupersededStaysSuperseded`),
an action property. `ConfigInv` says that every switch stored, on its way or accepted has a version
and that the device knows one for each scope; `apply_kill_switch` then only raises it.

**ServerLifecycleProofs.** `MigrationSafety` (`MigrationsSound`), `ClosingSafety`
(`NothingClosedInUse`). `SchemaInv`: names in the schema are unique and a text took effect exactly
if its row is there. `Migrated`: within the loop, what a replica has passed is in the database, and past
it the whole release; rows only grow, so no other replica disturbs that. `Stacked`, `Depth` and
`Runs`: the defer stack is a prefix of one fixed order, its depth is known at each step, and tasks
run only at the steps where what they use is within that depth. Requests outlive that order only where
`run` returns without a `Shutdown` that completed.

**KeysProofs.** `SealingSafety` (`DomainFollowsRow`) and `AttestationSafety` (`AttestationSound`). Both
parts read a cache under a lock, ask without it and store the answer later, so the invariants say
how old an answer may be. `SealInv`: a cache entry is what the row says or expires within a TTL of the
row's last change (`CacheSound`); an answer of the database on its way is what the row says or was asked for
before that change (`Answered`); so an operation that began a TTL after it chooses the domain the row
names (`Choosing`), also where a tier is missing and it falls back (`FallbackSound`). `AttestInv`: a document on its way is what the provider served when it was sent, at
most a fetch ago (`DocSound`); the cache holds no key retired a fetch before it was filled, and every readable key
that had stood for one (`KeysSound`).

**EdgeProofs.** `EdgeLimits` (`LimitsHeld`) and `BatchesAnswered` (`BatchAnswered`). The bound on
the calls granted is not inductive: it does not say what the bucket still holds. `BucketOK` keeps its
books: what was let through and what is held is at most the capacity and what was refilled up to
the time `ts` of the last script, and the key expires only when time alone would have filled
the bucket, so that a lapsed bucket, which counts as full, gives nothing away. `QuotaOK`: a counter has
counted every event admitted in time for as long as a batch can still come in time, since it outlives that moment.
`AwaitSound`: the fail-closed calls handled and those let through and yet to be handled are at most the calls
granted; the proof counts finite sets of calls (`AwaitMore`, `AwaitLess`). `CallOK` says what a call past each
stage has been tested for, and `AppsSound` that a cached positive answer names a registered app.

Most leaves of the longer proofs name `Zenon`: they are first-order, and the SMT encoding slows down
over a module of this length. Steps with arithmetic, sequences or record updates go to SMT.

## What is only model-checked

- Liveness: `EverythingSettles`, `ExporterSettles`, `EveryTxEnds`, `EventuallyStored`,
  `BreachEnds`, `KillConverges`, and the second half of `RetentionKept`. The prover has no support for `ENABLED` and fairness.
- What a recursive function or a fold computes over arbitrary data, which would need induction with an
  operator as parameter: `ScoringSound`, the windows of `Fleet` and `Guardrails`, the chain
  verification, the parsers of `ReleaseEvidence`, the merges of `StoreDisclosure`, pages and cursors.
- `StoresAgree`: two implementations of some fifty operations, compared call by call.
- `MostSpecificWins`, `ExportSound`, `ResultsTrue`, `EnforcedAsWritten`, `SessionSound`, `EventsOnce`: they
  compare what an operator computes with a reference definition over finite tables, or speak of the
  result of a whole command; their modules choose and fold over arbitrary data.

## What is not modelled

- Cryptography and parsing: HMAC tags, tokens, attestation formats, the event codec. A verdict, a
  Boolean or the tuple that is signed stands for their result.
- The fleet hook of the trust service. It adds a signal to an attestation and reads none of the
  state modelled there.
- The in-memory `ChannelBroker`, which has no acknowledgement and no durability.
- The text of SQL statements and the ClickHouse schema. What a statement matches and writes is
  modelled; a batch write stores all events or none.
- Floating point: the fleet's rates and averages are exact fractions, the block rate of a rollout is
  compared in integers. One shard and one watched signal of the fleet engine.
- Detection, request proofs, transport and the client-side scoring of the device core.
- HTTP handlers, metrics, logging, rendering of reports and tables, SDK bindings, consoles, build
  plugins and examples: input and output without a protocol of their own.

`PROJECT.json` lists every part with its status, and every hazard with the properties that
cover it or the reason none does.

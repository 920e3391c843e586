# A formal model of Shinmon

Shinmon is an API gateway. A *control plane* (`internal/controlplane`, one or
more `gateway-admin` processes) keeps services, ports, listeners, consumers,
keys and configurations in PostgreSQL. *Gateway replicas*
(`internal/dataplane`) load the active configuration and the credentials into
memory, proxy client requests to upstreams, and share rate counters and circuit
breakers in Redis (`internal/coordination`). A browser dashboard
(`web/admin`) drives the control plane.

This directory holds TLA+ specifications of that behaviour, TLC configurations
that check them on small instances, and TLAPS proofs for all instances.
`PROJECT.json` maps every definition to the source lines it stands for and
lists runs, hazards, findings and theorems.

    tlc -config MCConfigurations.cfg MCConfigurations
    tlapm ConfigurationsProofs.tla

## 1. Inventory

| Component | State | Operations | Talks to | What is hard | What makes it correct |
|---|---|---|---|---|---|
| Catalogue (`store.go`, services … permissions) | flags of services, versions and upstreams; permissions and grants | create, enable, disable, grant, delete | listeners, snapshots | a listener depends on rows that change under it | a rule in use is removed only when an allocation and the removal overlap |
| Ports and listeners (`store.go` 215-425) | `port_inventory` and `listeners`, which point at each other | allocate, change status or policies, block, release, cool down | activation sweeps both tables | transactions of several statements that lock the two tables in different orders | one owner per port, statuses agree, no lost edit, nobody waits for ever |
| Dashboard edits (`views/ports.js`) | the table each session loaded | change status, edit policies | `PATCH /listeners` with the version seen | stale tables, simultaneous requests | an accepted edit hides nothing from its author |
| Configurations (`store.go` 673-793) | versions, snapshots, approvals | create, validate, approve, activate, roll back | reads all tables, writes ports and listeners | the snapshot ages while the tables move on | one active version, approved history, loadable snapshots |
| Consumers and keys (`store.go` 490-671) | consumers, keys and their timestamps | create, update, delete, issue, rotate, revoke | notification after commit | `NOW()` is the start of a transaction | a revoked key is dropped everywhere |
| Gateway runtime (`runtime.go`) | snapshot and the two generations it was loaded at | poll, load, take event, report, probe | PostgreSQL, Redis events, upstreams | lost notifications, full buffer, refused snapshots, restarts | skipping a reload is safe; replicas converge; flags come right |
| Upstream selection and health (`snapshot.go` 70-95, `runtime.go` 215-304) | health flags and cursor of every snapshot, all atomics | select, set health, carry over | pipeline | two walks over changing flags, requests on old snapshots | the turn falls on somebody; shares follow weights; known failures are avoided |
| Request pipeline (`dataplane/handler.go`) | one request | the checks in order, policy, circuits, selection, proxy callbacks | Redis, upstreams | stale circuit reads, late results | only authorised requests count or pass; circuits open for cause |
| Rate and quota (`redis.go` 75-101) | two counters per period with expiry | read clock, run script | two clocks | a script that arrives late, or is sent again | a period's budget |
| Body limit (`handler.go` 354-378) | bytes remaining | `Read` | reverse proxy | short reads, the byte after the limit | the limit is exact |
| Migrations (`database.go`) | the schema and `schema_migrations` | migrate under an advisory lock | PostgreSQL | processes of several releases at once, a session left behind by a dead process | every migration once, in order |
| Server lifecycle (`bootstrap.go`, `server.go`) | goroutines, readiness, exit code, the gateway's row | start, migrate or load, listen, serve, shut down | orchestrator, load balancer | failure racing a signal, two writers of one row | ready only on a complete schema; a stop ends; all serve in the end |

The hazards that the properties are for are listed in `PROJECT.json`, each at
the line where it bites. The ones without a property say why.

## 2. Modules

    Catalog <- Ports <- AdminTransactions      (EXTENDS; and INSTANCE Ports: what
                                                every commit is an operation of)
                     <- Configurations
    RuntimeSync
    UpstreamSelection <- HealthProbes
                      <- RequestPipeline
    RequestPolicy
    LimitedBody
    Migrations <- ProcessLifecycle             (MigrationsSpec is what it implements)

    PortsProofs              EXTENDS Ports
    ConfigurationsProofs     EXTENDS Configurations, PortsProofs
    AdminTransactionsProofs  EXTENDS AdminTransactions, PortsProofs
    RuntimeSyncProofs        EXTENDS RuntimeSync
    SelectionProofs          EXTENDS HealthProbes, RequestPipeline
    RequestPolicyProofs      EXTENDS RequestPolicy
    LimitedBodyProofs        EXTENDS LimitedBody
    MigrationsProofs         EXTENDS ProcessLifecycle

An action is one database transaction, one SQL statement (AdminTransactions,
Migrations), one Redis command or script, or one atomic load or store,
whichever is the unit other processes can see. Some operators are labelled
*Mutant of X*: a version of `X` with a plausible bug, used by no action. Putting
one in the place of `X` makes TLC report the property it belongs to, which shows
that the property says something about the code (list in `PROJECT.json`).

**Catalog.** `service`, `version`, `upstream` hold each row's flag or
`"absent"`; `permissions` the rows of the permission table; `granted` the ones
some consumer holds. Names, addresses and texts are model values.

**Ports.** `port[p]` is the row of `port_inventory`, `listener[l]` the row of
`listeners`. Each `Store` method is one action with the guards of its SQL: e.g.
`UpdateListener` requires the row version the caller names, `ReleasePort` only a
lease that is absent or disabled, and deletes the listener with it.
`PublishListeners` is the part of `ActivateConfiguration` that sweeps the two
tables. It is the abstract specification of the inventory: each operation is one
step, although the code checks and writes in separate statements. What that leaves
out (`AllocateListener` and `DeletePermission` check without seeing each other's
uncommitted rows) is the subject of AdminTransactions, and nothing that depends on
it is claimed of Ports.

**AdminTransactions.** The same operations as they run: READ COMMITTED
transactions of several statements, sent by several sessions. `port`, `listener`
and `permissions` are the committed rows, `tx[s]` is the request of session `s`:
its position, the rows it has locked, what it has written and what it has read.
Each statement waits for the rows it locks (`Free`), and `Commit` makes the
writes visible. `audit`, the last statement of every operation, needs a KEY SHARE
lock on the environment's row, which an activation holds FOR UPDATE throughout:
nobody else commits during an activation. A cycle of waiting sessions is ended by
the error 40P01 (`EndDeadlock`), which the code does not map to a refusal: the
client reads HTTP 500 and nothing is written. `OpenEdit` is the dashboard loading
a listener some time before the edit. `Atomic == INSTANCE Ports` names what the
commits implement. `overtaken` only observes: the sessions whose check of a rule was
made before the opposite request committed.

**Configurations.** `config[c]` is a row of `configuration_versions` including
its snapshot, `approvals` the approvals table. The initial state is the one of
migration 004: an empty active configuration. `Capture` is the SQL that builds
the snapshot, `Loadable` is what `buildSnapshot` accepts. A rollback copies a
published snapshot; it touches no port or listener.

**RuntimeSync.** A transaction is `Begin`, which takes the timestamp PostgreSQL
will return from `NOW()`, then one operation that executes and commits, then
`Notify` when the code notifies. `gateway[g]` follows the `Run` loop:
`PollConfiguration` and `PollCredentials` are the two queries of
`refreshIfChanged`, `Load` is the repeatable-read transaction. `events[g]` is
the number of events in the channel; when it is full an event is dropped. The
faults are lost notifications, failed loads and crashes.

**UpstreamSelection.** `SelectUpstreamWhere` with a step per atomic access:
`CountNext` (first walk), `Draw` (the cursor), `ScanNext` and `ScanEnd` (second
walk). Every snapshot has its own pool, flags and cursor, and a request keeps the
one it took when it arrived. `steady` and `outage` only observe.

**HealthProbes.** Who writes the flags: the goroutine of `Run` either reloads
(`Reload` with `copyHealth`) or runs a round of probes, one goroutine per upstream
(`TakeSlot`, `GiveUp`, `Observe`, `Store`). Upstreams fail and recover
(`ChangeHealth`), the process may be told to stop. `knownDown` and `avoid` only
observe.

**RequestPipeline.** `ServeHTTP` from the checks to the proxy callbacks. A check
is reduced to its verdict; `Refusals` keeps the order. `failures` and `open`
are the two Redis keys of a circuit with their expiry. `closed` and `results`
are history. Redis can fail at every command. `redis.go` sets timeouts and leaves
the retries of go-redis at their default, so the recording of an outcome may be sent
up to `Tries` times: `SendUnheard` is a copy whose answer does not come, `RunLate`
its run, before or after the request is answered. An error the client reads may
therefore hide an outcome recorded once, twice or not at all.

**RequestPolicy.** `ReadClock` names the keys and sends the script for the first
time, `Resend` sends it again, `Lose` loses a copy and `RunScript` runs one, heard or
not, up to `MaxDelay` ticks later; `Tick` lets time pass. `copy[q][t]` is the script
as sent for the `t`-th time, with its verdict once it has run.

**LimitedBody.** `limitedBody.Read` over a reader (external) that may return
any number of bytes up to what was asked, with or without the end of the body.

**Migrations.** `database.Migrate` statement by statement, in several processes
whose binaries embed different numbers of files. `schema` is what is committed,
`ledger` the table `schema_migrations`, `lock` the advisory lock. A process that
gives up during a statement leaves a session behind that keeps lock and open
transaction for a while; a COMMIT it had received may still be carried out
(`AbandonedCommits`).

**ProcessLifecycle.** `bootstrap.Run` and `server.Serve` around Migrations: the
main goroutine (`pc`), the one that runs `http.Server.Serve` (`server`), the
channel between them (`result`), readiness, a request in flight, the exit code
(`outcome`), and for a gateway the goroutine of `Runtime.Run` that writes the
replica's row (`reporter`, `row`). A heartbeat that the signal or its deadline makes
`Run` give up may still be with PostgreSQL (`late`) and set the row to ready after
everything main does. `crossed` only observes: the gateways that a signal reached
while a heartbeat was on its way. Signals, crashes, failing statements and failing
sockets can come anywhere; the orchestrator restarts.

## 3. Runs that pass

| Run | What it shows | Bounds and why they are enough |
|---|---|---|
| `admin_transactions` | `PortOwnership`, `StatusAgreement`, `NoLostEdit`, `AllocationsNeverDeadlock` of transactions that interleave statement by statement; `CommitsAreOperations`: every commit is an operation of Ports or one of three named races; `RulesLostByOverlapOnly`: a listener loses its rule only to a removal that overlaps its allocation; `RequestsEnd`: every request ends | 208,372 states. 2 sessions (every race here is one of pairs), 1 port leased to 2 listeners in turn, 2 policies, row versions up to 3, 1 activation stamp. Permissions come and go; services and versions stay enabled (`Flag = {}`), so a version disabled under an allocation, the other half of `AllocateOnOldCatalog`, is covered by the theorem `CommitsRefinePorts` and not by this run. Number of ports and listeners: the proofs |
| `configurations` | `ExactlyOneActive`, `PublishedSnapshotsApproved`, `HistoryKept`, `SnapshotPortsUnique` | 3 configurations (bootstrap, a draft, a rollback, or a rollback of a rollback), 2 actors with 1 required approval, 1 port passing between 2 listeners. All of it is also proved, for every size |
| `runtime_sync` | two kinds of deployment. *Serial, lossy*: `SkippingIsSafe` and `Converges` when credential transactions do not overlap, with 2 faults and a configuration that no gateway loads. *Overlapping, reliable*: `AnnouncedKeysDropped` with a channel of capacity 1, so that events are dropped because it is full | 167,296 states. 5 and 4 transactions, 2 keys (rotation needs two), 3 configurations of which the second is refused, 2 connections in the overlapping case. Replicas do not interact, so 1 is enough |
| `process_lifecycle` | `SchemaInOrder`, `NeverConflicts`, `ReadyOnSchema`, `CleanExitCutsNothing`, `StoppedIsNotReady`; `ProcessesStop` and `AllServe` | 134,840 states. Fleets {admin of release 1, admin of release 2} and {admin of release 2, gateway}, releases of 1 and 2 migrations, 2 signals (a stop, and one of the process that replaces it), 1 fault anywhere, also during a stop; a heartbeat abandoned at the signal is no fault. Deadlock is checked |
| `health_probes` | `SteadySelectionExact`, `WeightedShare`, `KnownDownAvoided`, `FlagsSettle` | 361,932 states over four settings: 3 requests on one snapshot (a round of weights 2 and 1); 1 request through 3 snapshots of which the second lacks an upstream, with a failure and a recovery; a stop during a probe; 2 requests on both sides of a reload. 1 slot for 2 upstreams, so that probes wait |
| `pipeline` | `UnauthorisedStopped`, `OpenCircuitsAvoided`, `OpenedByFailureRun` | 1,828,252 states. Requests of three listeners, with thresholds 2 and 3 and without circuit breaker; each outcome may be sent twice, so that one request can complete a run of failures alone, and failure, success, failure must not; one upstream, 1 change of its flag, 1 tick, after which keys expire. Selection among several upstreams is the subject of `health_probes` |
| `request_policy` | `WithinBudget`, `RefusedForCause` | 1,758,378 states. 3 requests, each script sent once or twice, rate 1 a second, quota 2 a minute, a minute of two seconds of two ticks, scripts at most 1 tick late, 5 ticks: a counter expires within its own period and is created again, and a request can spend its own budget |
| `limited_body` | `LimitExact` | bodies up to 6, limits up to 4, buffers up to 3: shorter, equal and longer than one another in all orders |

The three races of `CommitsAreOperations` are `ReleaseOverEdit` (`store.go` 263-283:
a release whose statement read the listener disabled deletes it although an accepted
edit has enabled it since), `AllocateOnOldCatalog` (318-340: version and permission
are checked without a lock) and `RemoveUsedPermission` (470-488: the other side of
the same race). `RulesLostByOverlapOnly` says what the last two leave of the
program's intent: it takes requests that overlap. Everything else that runs at the
same time has the effect of some order of the atomic operations, so what is proved
of Ports is endangered by these three alone; `PortOwnership` and `StatusAgreement`
survive them.

`CHECK_DEADLOCK FALSE` appears where a system may stop: requests are served
once (`health_probes`, `pipeline`, `request_policy`, `limited_body`), and a
crashed replica cannot start while the active configuration is unloadable
(`runtime_sync`).
Symmetry is used only in runs without liveness properties.

### Fairness

* *AdminTransactions.* A statement that can run, runs, and PostgreSQL's lock queues
  do not pass a waiting statement over for ever: strong fairness of `Statement`.
  Deadlocks are detected: weak fairness of `EndDeadlock`. Nothing is assumed of
  the administrators, and `Fail` has no fairness.
* *RuntimeSync.* An open transaction ends, because requests have deadlines, and
  `notify` follows it. The orchestrator restarts a replica. The poll timer and the
  event channel are cases of one `select`, which Go chooses among at random when
  several are ready, so neither is passed over for ever: strong fairness.
* *HealthProbes.* The health timer is a case of the same `select`: strong fairness
  of `BeginProbe`. A probe has a timeout and frees its slot: weak fairness.
* *ProcessLifecycle.* The deployment says `restart: unless-stopped`; main takes the
  steps it can take; statements and the shutdown have deadlines; PostgreSQL ends an
  abandoned session and grants the advisory lock in the order of its queue, hence
  strong fairness of `Migrating`. Nothing is assumed of requests and signals: a
  request may never finish.

Faults have no fairness anywhere; only their number is bounded.

## 4. Runs that find a disagreement

Each checks one statement of the repository and TLC finds a counterexample.

* `active_snapshot_loads`: the dashboard says that validation checks references
  and that a validated snapshot is ready. `ValidateConfiguration` looks at the
  live tables instead of the snapshot and ignores the flags of services and
  versions, so a validated, activated snapshot can be one that `buildSnapshot`
  refuses. Because `Load` gives up before it stores the credentials
  (`runtime.go` 114), keys revoked from then on stay usable until a later
  configuration loads.
* `used_rule_removed`: the dashboard's help says that *unused* access rules can be
  removed. An allocation checks that its permission exists without locking it, so
  a removal at the same time finds no listener that requires it, and both commit.
  Requests that do not overlap cannot do this (`RulesLostByOverlapOnly`).
* `overlap_lossy`: the credential generation is a maximum of transaction *start*
  times. When a revocation commits after a later-started change that a replica
  has loaded, the generation does not move; if its notification is lost, polling
  never repairs it. The log says that "PostgreSQL polling remains active". The two
  settings of `runtime_sync` show that both conditions are needed.
* `outage_is_real`: an upstream that becomes unhealthy between the two walks of
  a selection can make it return nothing although another one was healthy
  throughout; the client reads "No healthy upstream is available."

## 5. Proofs

Every invariant and every action property of the runs of section 3 is proved for all
values of the constants. A proof has the same shape everywhere: an inductive
invariant that contains the property, the lemma that `Init` gives it, one lemma per
action that keeps it, and theorems that combine them. The invariants were
model-checked before they were proved. The assumptions are the named ones of the
modules on their constants and, in one theorem, `FewRequests`; those that are not
about types are stated below.

**PortsProofs** proves, for any sets of ports, listeners, versions, permissions and
configurations, that `PortsTypeOK`, `PortOwnership` and `StatusAgreement` are
invariants of `PortsSpec`. The assumptions are those of `Catalog` and `Ports` on
their constants: `NoListener` is no listener, `NoConfiguration` no configuration,
the bound on row versions is positive. The three facts form the inductive
`Consistent`. Neither of the last two is inductive alone: blocking or releasing a
port writes the listener that the port names, so status agreement needs that the
listener names the port back and that no second port names it (`PortOwnership`), and
every action needs the types. There is one lemma per operation, resting on lemmas
about the ways a row is rewritten (`WithStatusRow`, `WithPolicyRow`,
`ActivatedRow`).

**AdminTransactionsProofs** carries this over to transactions that overlap. The
inductive invariant `AdminInv` says that the committed tables are `Consistent`, that
no two sessions have locked the same row, and that every request has written what
its stage says: one predicate per stage (`Following`, `Deleting`, `SweepingPorts`
and so on) describes the uncommitted rows as a function of the *committed* ones it
has locked. The argument is the one of two-phase locking: a locked row is committed
by nobody else, so what was computed from it is still right at COMMIT. Where a
request relies on a row it has not locked, the predicate says why that is safe: a
listener that a block finds disabled cannot be enabled without the port's row, which
the block holds; an identifier not yet committed is known to one session; during an
activation nobody commits, because of the environment's row. From it follow the
types, `PortOwnership`, `StatusAgreement`, `NoLostEdit`, `AllocationsNeverDeadlock`
(an allocation is only waited for by requests that hold nothing, and a cycle needs
holders all round) and the refinement `CommitsAreOperations`: every commit is an
operation of Ports or one of the three races. That the permission a listener
requires exists is no part of `AdminInv`, since two of the races break it;
`RulesLostByOverlapOnly` is proved instead, with `OverlapInv`: a request past its
check that has not been overtaken still finds true what it checked, because only the
commit of the opposite request makes it false, and that commit marks the request.
Assumed besides the constants of Ports: the bound on row versions leaves room for
one edit (`MaxRowVersion > 1`).

**ConfigurationsProofs** proves `ExactlyOneActive`, `SnapshotPortsUnique`,
`PublishedSnapshotsApproved`, the action property `HistoryKept` and the types,
for every number of versions, administrators and required approvals. Like the
module, it takes each operation on ports and listeners as one step (`PortsStep`).
The inductive invariant `ConfigInv`, together with `Consistent`, adds two facts:
`NumbersInOrder`, version numbers are given out in order, and
`UnpublishedAreOriginal`, a version that awaits activation is no rollback and its
author is not among its approvers. The first makes the original of a rollback
older than the rollback, so that following the chain of sources ends at a version
that gathered approvals; the second gives that version its approvals when it is
activated. A snapshot uses no port twice because it was captured under
`PortOwnership` and is never rewritten.

**RuntimeSyncProofs** proves `SkippingIsSafe` for any keys, consumers, replicas,
connections and faults: a replica that finds its two generations unchanged and
does not reload has the keys that are active. `SkippingIsSafe` speaks of
equal generations; what is inductive is `LoadedAgrees`, which holds at every
moment: a replica is right about each key that has not changed since the
generation it loaded. It is kept because an open transaction has a later timestamp
than anything stored or loaded (`OpenIsLatest`, true only of transactions that do
not overlap), because times do not lie in the future (`TimesPast`), and because no
issued key or owner disappears (`KeysIssued`). Assumed: keys are not consumers, and
there are finitely many replicas and connections.

**SelectionProofs** is about UpstreamSelection in its two environments, for pools of
any length, any weights and any number of requests. Under HealthProbes it proves
`SteadySelectionExact`, `KnownDownAvoided` and `WeightedShare`, under RequestPipeline
`UnauthorisedStopped`, `OpenCircuitsAvoided` and the action property
`OpenedByFailureRun`, and the types of both. `SelectionInv` describes the
two walks: the total is the last of the prefix sums of the weights found eligible,
and during a steady second walk the ticket lies between the sum before the
position and the total, so it falls on somebody. For `WeightedShare` the requests
that drew from a cursor are numbered by their tickets (`TicketsDrawn`), and what is
left of a ticket, plus the sum before the position, is the ticket modulo the total.
If in the end every total is the weight of the same allowed set, every request walked
over the same sums (`SumsBelow`, `SumsReached`), so an upstream served the tickets
between its two sums, which each round holds as often as its weight (`RoundShares`).
The theorem assumes `FewRequests`: finitely many requests, and no more than the cursor
has values (2^64 in the code), so that the cursor does not wrap within a round.
`ProbesInv` follows a known
failure from the probe to the flag of the snapshot that a request holds, across
`copyHealth`. `PipelineInv` says what a request has read of the circuits so far,
and that a live failure counter counts the last entries of `results`, all of them
failures of that circuit's window. `OpenedByFailureRun` speaks of recorded outcomes,
one for each run of the command: a request whose failure is sent again counts as
often as it runs, so a circuit may open after fewer failed requests than its
threshold.

**RequestPolicyProofs** proves `WithinBudget` and `RefusedForCause` for any rate,
burst, quota, delay, number of requests and of tries. What a script decides depends
on a counter that may have expired and begun again within its own period, so
`PolicyInv` counts the lives a counter has spent (`SpentLives`): each lasted a full
period, the first began no earlier than its period and the last no later than
`MaxDelay` after it. For `RefusedForCause`, every unit of a budget is charged to a
request and a try (`Charged`): when a run is refused the charges fill the capacity,
and those of the refused call itself come from its earlier tries, at most one each.
So a call sent once is refused for others' requests only, and the code promises no
more of one that was sent again. The attempt showed that the budget was once stated
too strongly: with a rate of 0 and a burst above 0, which the control plane accepts,
the script does not limit the rate at all (`redis.go` 79-84); `Limited` now says
when there is a limit.

**LimitedBodyProofs** proves `LimitExact` and the types for any body, limit and
buffer size. `LimitExact` is not inductive: it needs `Accounted`, which says that
every byte is forwarded, unread, or the one byte the probe dropped.

**MigrationsProofs** proves that the processes of ProcessLifecycle never leave the
protocol of Migrate (`LifecycleImplementsMigrations`), and from the inductive
invariant of `MigrationsSpec` that `SchemaInOrder` and `NeverConflicts` hold for
any number of processes of any releases that stop anywhere; and `ReadyOnSchema`
for any fleet (`ReadyMeansMigrated`). The invariant says that a session between
lock and unlock is the lock's owner and alone (an abandoned one included), and
that its position in the files says how far the schema is: all files before it
are applied, and while it works on one that the ledger lacked, that one is the
next. Its second part is about the end of a process. `CleanExitCutsNothing` needs
`DrainedForGood`: the exit code is 0 only once `Shutdown` has drained the server,
and by then nothing accepts requests. `StoppedIsNotReady` needs `RowTakenBack`:
before `MarkNotReady` clears the row the reporter has been cancelled, and unless a
report was on its way at that moment (`crossed`) none can land any more. The
exception is real: nothing in the code orders a heartbeat already sent before
`MarkNotReady`. Assumed: no process is called like the two special owners
of the lock, and admins and gateways are different processes.

Only model-checked is liveness under fairness, which is out of the prover's reach:
`RequestsEnd`, `Converges`, `AnnouncedKeysDropped`, `FlagsSettle`, `ProcessesStop`,
`AllServe`.

No module uses a RECURSIVE operator.

## 6. Abstractions to know about

* AdminTransactions: statements after which a transaction only touches rows it has
  locked are merged with the last step that waits. `newID` is drawn before the
  transaction begins, so two allocations never use the same one. Migration 002's
  unique index is not modelled: `SnapshotPortsUnique` and `PortOwnership` show that
  no operation runs into it.
* Store transactions are atomic in Ports and Configurations; the run
  `admin_transactions` says when that is wrong. An activation and a rollback hold
  the environment's row FOR UPDATE from their first statement, so they commit one at
  a time and nothing that ends in an audit row commits between; the other
  transactions of the configuration lifecycle write one row of their own and read
  the rest in one statement.
* In RuntimeSync an operation executes and commits in one step after `Begin`; the
  module's header says why the interval between is unobservable. A snapshot is taken
  to be immutable under its number, which migration 006 alone violates.
* Redis commands are sent up to `Tries` times where a run changes something
  (RequestPolicy, and the recordings of RequestPipeline). A circuit that is read
  again is read once, at the moment of the answer that is heard.
* Key expiry, the permissions of a consumer and the address in the heartbeat row are
  left out.
* ProcessLifecycle: opening the pool and reading the configuration are merged with
  `Start`. One request in flight stands for all. A configuration that cannot be
  loaded is RuntimeSync's subject. A heartbeat statement that its process has given
  up takes effect at any later moment, or never (this is the exception in
  `StoppedIsNotReady`; without it TLC finds a stopped gateway recorded as ready).
  The same of an abandoned `MarkNotReady` is left out: it could only clear the row,
  until the next heartbeat.
  When the server fails without a signal, a last report may land after
  `MarkNotReady`; the model has this behaviour and no property forbids it, because
  readers only count rows of the last 30 seconds.
* HealthProbes: an upstream is `up` when it would answer in time with an accepted
  status. A stop during a round marks upstreams unhealthy that were not heard from
  (`Observe`), while requests in flight are still served; `FlagsSettle` is about a
  process that is not told to stop.
* The pipeline's answer "All upstream circuits are open." is chosen when one circuit
  is open, whatever the health of the others (`Refuse`); it is modelled as it is,
  and no property is stated about it.

## 7. Not modelled

* *Audit log*: one row inside each transaction, never read back to decide anything;
  its lock on the environment's row, which does matter, is in AdminTransactions.
* *HTTP front end* (`httpapi`, `correlation`): sequential plumbing without state.
* *Configuration loading*: parsing of environment variables, once, at the start.
* *Metrics*: written by all, read by none.
* *Dashboard shell, router and other views*: presentation. The router discards a
  view that finished late only after its render function has written to the page;
  to say anything about it, what each view writes and when would have to be
  modelled.
* *Field checks of `buildSnapshot`* on values that the control plane has already
  validated, and *key expiry and permissions* of credentials.
* *Commands, load test, deployment files and scripts*: I/O.

## 8. Plan

Done: all modules of section 2 and the proofs of section 5.

Left to model: the rest of `buildSnapshot`, and key expiry.

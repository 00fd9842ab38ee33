# A TLA+ verification project for Synapse

Synapse (`synapse/`, Go) is a control plane that creates, watches, repairs and
deletes self-hosted Convex deployments. Its state lives in Postgres; its effects
are containers of one or more Docker daemons. Several Synapse processes may run
against one database, each with an HTTP API, provisioner workers, a health
worker and further timers. No process holds a lock over more than one SQL
transaction except the sweeps, which take a Postgres advisory lock. Almost every
operation is therefore a sequence of separate statements and Docker calls with
anything in between, and that is what this project models and checks.

## 1. Inventory

| Component | State | Operations | Hard behaviour |
|---|---|---|---|
| Provisioning queue and workers (`internal/provisioner/worker.go`) | `provisioning_jobs`: status, `claimed_by`, `claimed_at`, `attempts`; the workers' own positions | `claimNext` (SKIP LOCKED, oldest first), `runJob`, `markProvisionRunning`, `markDone`, `markFailed`, `requeueStale`, `reapStuck` | crash between any two steps, claims that outlive their holder, attempt cap, a head of the queue that cannot be claimed |
| Deployment handlers (`internal/api/deployments.go`) | `deployments`, `deployment_replicas`, `deploy_keys` | create, delete (with `force`), restart, resize, rebuild, rotate, push env, upgrade | one read, then several statements and Docker calls; racing requests and workers |
| Docker provisioner (`internal/docker/provisioner.go`) | containers by name | `Provision`, `Destroy`, `Recreate`, `Restart`, `Status`, `MigrateSnapshot` | names collide, calls fail half-way or after the context is done |
| Boot (`cmd/server/main.go`) | – | `sweepOrphanedProvisioning`, the workers' recovery | rows of processes that died |
| Health worker (`internal/health/worker.go`) | one sweep at a time, under an advisory lock | list, look, update replica, auto-restart, aggregate, write, page | the verdict is computed by one statement and written by another; a sweep may die |
| Reconcile apply (`internal/api/reconcile_apply.go`, `internal/provisioner/reconcile.go`) | `operation_runs`, `operation_steps`, jobs of kind `reconcile` | apply, create, restart, ledger writes, rollup, orphan reaper | job, step and run are settled by separate statements; plans from a stale scan |
| `upgrade_to_ha` (`worker.go` 1233-1521) | a long job over several containers and a snapshot | start replicas, migrate, swap, stop the old one | crash, delete and port collision in the middle |
| Backups (`provisioner/backup.go`, `api/backups.go`, `backups/sweeper.go`) | `deployment_backups`, archives | request, export, restore, fail stale, schedule, prune | timeout against a late worker, prune against requests |
| Teams, projects, membership (`api/teams.go`, `projects.go`, `me.go`, `invites.go`) | members and roles, invites, projects, overrides | invite, accept, change role, leave, transfer, three cascading deletes | READ COMMITTED counts, row locks taken in different orders, teardown before erase |
| Accounts (`api/auth.go`, `auth/jwt.go`) | users, `password_reset_tokens`, JWTs in clients' hands | register, login, refresh, forgot, reset | first-admin race, single use of links, whole-second timestamps |
| Env vars, limits, keys and the containers made from them (`deployments.go`, `projects.go`) | `project_env_vars`, secrets, limits, what a container was created from | change, rebuild, rotate, push | nothing keeps two rebuilds apart |
| Domains and DNS verifier (`api/domains.go`, `dns_credentials.go`, `dns/verifier.go`) | `deployment_domains`, `dns_credentials`, the zone | add, verify, auto-configure, delete, sweep, rebake | four copies of one fact; verifier, verify and delete on one row |
| Proxy (`proxy/`) | two caches | resolve, invalidate, fail over, probe | a resolve that fills the cache after an invalidation |
| Hosts and agents (`api/hosts.go`, `agents.go`, `observed_state.go`, `cmd/synapse-agent`) | `hosts`, `host_agents`, adoption tokens, container rows | adopt, heartbeat, drain, remove | placement against removal, heartbeats cut anywhere, failed and partial scans |
| Cells, links, desired state (`api/cells.go`, `cell_links.go`, `desired_state.go`, `cells/backfill.go`) | cells, attachments, placements, `desired_states` | attach, backfill, delete, sync, the cleanup of a deployment's delete | attach against both deletes; a sync over moving placements |
| Drift engine (`api/drift.go`) | reports | classify, roll up, plan | reads that are not one snapshot |
| Paged lists (`api/pagination.go` and eight list handlers) | a cursor in the client's hands | first page, next page | rows that come and go, equal timestamps |
| Apply settings, alerts, email, audit, crypto, SSH transport, host domain, dashboard, CLI, installer | – | switch, output, clients | section 9 |

How they interact: the handlers insert rows and jobs in one transaction; workers
claim jobs and call Docker; the health worker compares the same rows with the
same containers; agents report what runs on their machines, the drift engine
compares that with the desired state derived from the placements, and an apply
turns the difference into jobs of the same queue. Domains, limits, keys and env
vars reach a container only by replacing it. The proxy reads what all of them
write, through caches. What makes them correct:

* one worker at a time builds a replica; a job is tried at most `MaxAttempts` times
  and is settled in the end;
* `deleted` is final, `failed` is left only by an operator;
* a sweep takes a deployment down only when it is down, and the row of a dead replica
  in the end;
* a run of the reconcile ledger is closed exactly when its jobs are settled, and
  is always closed;
* an upgrade keeps the old container serving until the pair has its data; a
  complete backup has its archive and is kept as long as the retention says;
* an invite, a reset link and a rotation work once; nothing is erased while its
  container runs;
* a name is active only if a lookup for its row said so, and its rise reaches the
  container; a name that went is not routed for longer than the cache lives; a request
  is refused only if no replica of it was up;
* a drift report neither calls a running container missing nor a missing one clean;
* a client that follows the cursors sees every row once, and comes to the end.

The file `PROJECT.json` lists, under "hazards", every place found so far where
these can go wrong, with the properties that would show it.

## 2. Modules

| Module | Models | Extends |
|---|---|---|
| `Topology` | replica rows, container names, the vocabulary of the status columns | |
| `Provisioning` | handlers, queue, workers, reaper, boot, containers | `Topology` |
| `JobLease` | what the queue promises (abstract) | |
| `HealthSweep` | one node's health sweep, over rows and containers it is given | `Topology` |
| `Lifecycle` | `Provisioning` and `HealthSweep` over the same rows and containers, and containers that die by themselves | `Provisioning`, instantiates `HealthSweep` |
| `ProvisioningProofs` | theorems about `Provisioning` and `Lifecycle` | `Lifecycle` |
| `Reconcile` | apply, reconcile jobs, ledger, rollup, reaper | |
| `Tenancy` | teams, members, invites, projects, overrides, cascading deletes, with Postgres' row locks | |
| `Accounts` | registration, sessions, password resets | |
| `Rebake` | what a container was created from against what the tables say; keys and rotations | |
| `Backups` | backups and restores: requests, jobs, sweeper | |
| `Upgrade` | `upgrade_to_ha` on the same queue, rows and containers | `Backups` |
| `Routing` | the deployments and names that the next two share | |
| `Domains` | domain rows, zone, resolvers, credentials, verifier, origins | `Routing` |
| `Proxy` | dispatch, both caches, failover, HA probe | `Routing` |
| `Fleet` | hosts, agents, tokens, heartbeats, placement checks | |
| `Cells` | cells, attachments, placements, links, backfill, desired-state sync, the cleanup of a delete | `Fleet` |
| `Drift` | the drift engine over both | `Cells` |
| `Listing` | the eight paged lists | |
| `ReconcileProofs`, `AccountsProofs`, `RebakeProofs` | theorems about the module they are named after | that module |
| `UpgradeProofs` | theorems about `Backups` and `Upgrade` | `Upgrade` |
| `TenancyProofs` | theorems about the members of teams and the lists of them | `Tenancy`, `Listing` |
| `RoutingProofs` | theorems about who routes a name and who decides on it | `Proxy`, `Domains` |
| `FleetProofs` | theorems about hosts, heartbeats, cells and drift | `Drift` |
| `MC*` | model values, symmetry and sets for TLC | one component each |

One SQL statement (or one transaction) is one step, and one Docker call is one
step. Between them every other process may step. Definitions carry the names of
the functions they model; `PROJECT.json` maps each to its lines. Operators whose
comment starts with "Mutant:" are wrong variants of the definition that follows;
no specification uses them. They document which mistake each property excludes.

### Provisioning

`dep`, `rep`: the status columns. `jobStatus`, `claimedBy`, `attempts`: the queue;
the create handler makes one job per replica row, so a replica id names its job.
`pc`, `cur`, `late`, `ripe`: for each worker its next step, its job, whether its job
context is done, and whether its claim is old by the database's clock. `req`: the delete
and restart requests in flight, with the deployment they read and the replica they are at.
`cont`: the Docker daemon's containers by name; an HA replica's name differs from a single
one's, and `Destroy(j.Name)` uses the latter. `born`: the rows in `created_at` order.
`lastDeploy`: the rows whose `last_deploy_at` is not NULL.

Time appears in four places. `Deadline(w)` says that JobTimeout passed on the worker's
own clock, which starts when it has the claim in hand (`worker.go` 591): from then on
its context is done, and statements and Docker calls that use it fail. `ClaimAges(w)`
says that it passed on the database's clock, which starts with the claim transaction and
counts whole seconds (`worker.go` 432, 447, 805-812): from then on the reaper may requeue
the job. Nothing orders the two, so a job may be claimed again while its first worker still
has time. A claim whose holder crashed is stale at once, which only lets
`requeueStale` run earlier than the clock would. `Boot` may find any set of rows older than
ten minutes. `markDone`, `markJobFailed` and `markFailed` use contexts of their own and no
guard on the claim, so a late worker still takes these steps, as in the code.

`AtHead` is `claimNext`'s choice: the oldest pending job not locked by another
claim. A job of an HA deployment whose storage row does not decrypt
(`Unloadable`) is left pending and the claim returns nothing; it can be passed
over only by as many workers as there are other idle ones holding such locks.

### HealthSweep and Lifecycle

The sweep lists the running replicas, then for each one looks at Docker, updates
the row and possibly restarts the container; then, for each deployment touched,
it aggregates (`Aggregate`) and writes (`WriteStatus`), two statements. `SweepDies`
and `StatementFails` are its faults. Docker's `paused` is classified like `exited`,
and `created` and `restarting` like `running`; they are not told apart.
`steady` is a history variable: the replicas listed by the current sweep that have
been up ever since.

### Reconcile

Deployments are managed, single-replica and meant to run; `obs` is the agent's last
scan, possibly stale. An `Apply` inserts the run, its steps and its jobs in one
transaction. Jobs go through the gate, the action, and the ledger writes: job,
(deployment row,) step, and the rollup's read of jobs, read of steps and final
UPDATE, each one step. The reaper closes runs that have not been updated for
JobTimeout (`Age`). `SweepDown` is a whole health sweep in one step and deletes
have no failing teardown here: both are modelled in full in the modules above.
`Events` names what the environment may do in an instance.

### Tenancy and Accounts

A request is a record in a slot: who asks, what it names, what it has read
(`seen`), and its next statement. Postgres runs READ COMMITTED, so a count sees
other requests' commits and nothing of their transactions; `Holds*` are the row
locks a request has, and a step that needs a locked row waits. `DeadlockVictim`
is Postgres' answer to a cycle of waits. `joined` (Tenancy), `uses` and `dead`
(Accounts) are history. In `Accounts` the clock has ticks finer than the second
of a JWT's `iat`, and `now()` is the start of a transaction.

### Rebake

`cont` is what each replica's container was created from; `row`, `doms`, `env`
are what the tables say; `keys` the deploy keys with the secret that signs them.
A rebuild removes and creates one replica after the other, each a step that may
fail. `alone` marks a request nothing overlapped (history): the code has no
lock, so that is what it can promise.

### Backups and Upgrade

One deployment, `dep`; backups by number in the order of `created_at`; `files` the
archives; `jobs` and `wk` the queue and its workers as in `Provisioning`, for the
kinds backup, restore and upgrade. `sw` is the sweeper under its advisory lock; it takes
its victims in any order, since the query that lists them has no ORDER BY.
`Upgrade` adds ports, the pair's imported data and the delete of the deployment.
`taken`, `calm` and `torn` are history and carve out of the properties what an
operator asked for.

### Domains and Proxy

`Domains` keeps four copies of one fact that move separately: the zone (`record`),
what resolvers answer (`seen`), the row, and the origins in the container
(`baked`). Requests (`op`, one per caller) run side by side, statement by statement, and
know the row they loaded by its id; the verifier's sweep (`ver`) works on rows loaded
earlier; its rebuilds (`rebakes`) are detached. Every rebuild first reads the active
domains and recreates the container in a later step, with what it read. `matched` (the rows some lookup found) and
`owed` (names whose
rise to active somebody saw, until a container is created with them) are history. `Proxy` takes
the tables as given by others (`World`) and models a request statement by statement through
`domainCache` and `cache`, whose entries have a remaining life (`left`) and, as history,
the time since they stopped being true (`stale`). A row stops being active in two ways:
`Deactivate`, followed by `InvalidateDomain`, and `Rearm` (`auto_configure` of an active
row), followed by nothing; `hushed` remembers the latter and `straddled` the names a lookup
was reading when their entry went. `steady` holds the replicas of a request that have
been up since it got their addresses.

### Fleet, Cells and Drift

`Fleet` has hosts, agents, tokens and container rows; a heartbeat is one
transaction and then single statements, any of which may be its last. `Cells`
adds cells, attachments, placements, links and the desired state; `Drift` reads
them one statement after the other and classifies. `told` (what is recorded of a
container and still true) and `sure` (what had been told when a computation
began) are history. A report's item carries what the desired row it judged wanted, as the
item's `desired_state_id` does. A delete is the soft delete and then the four
statements of `cleanupDeploymentCellState`, each of which may fail and is passed over. A
report is of a host, a cell or the project; containers carry the labels that are stamped,
which are those of the deployment and the project. Three initial states: the control plane alone with a deployment; beside
it an adopted empty host, and two linked cells; or an adopted host with the deployment on it, recorded,
attached, placed and synced.

### Listing

A list is four facts (`asc`, `hides`, `back`, `holds`) taken from its query; a row
has the `created_at` of the transaction that inserted it, which may commit after
younger ones. A walk asks for pages; the cursor's row is read by one statement and
the page by the next.

## 3. Runs

All runs pass and are exhaustive within their bounds. `TypeOK` of `Provisioning` is an invariant of its
own; in the other modules the type invariant is a conjunct of one of the invariants named
here.

| Run | Instance | Shows |
|---|---|---|
| `prov_single` | 1 single-replica deployment, 2 workers, 2 requests, 2 attempts | `TypeOK`, `OneBuilder`, `DoneMeansDecided`, `DeletedIsFinal` with every interleaving of two claims, two requests, crashes, timeouts on both clocks, the reaper and boots |
| `life_ha` | 1 HA deployment that serves, 1 request, sweeps that die and statements that fail | `DownIsReal`, `FailedUntilOperator`, and `DownReplicaIsSeen` under fairness |
| `life_queue` | 1 remote deployment from its creation on beside an HA one that cannot be claimed, 1 worker, 2 attempts | `DownIsReal` for a container on another daemon; `JobsSettle` under fairness; the queue implements `JobLease` |
| `reconcile` | 1 deployment, 1 worker and the reaper, 2 attempts, 3 events among crashes, lost ledger writes, deletes, sweeps, the kill switch | `FinalMeansSettled`, `DeletedIsFinal`, and `RunsFinish` and `CreatesFinish` under fairness |
| `tenancy` | 2 accounts, 2 teams, 1 project, 1 deployment, 2 requests at a time, 3 in all | `InviteOnce`, `TornDownBeforeErased`, and `RequestsEnd` under fairness |
| `accounts` | 2 accounts, 3 links, a cap of 1, 2 requests at a time, seconds of 2 ticks | `OneInstanceAdmin`, `SessionsFollowPassword`, `LinksEnd` |
| `rebake` | 1 deployment, single or HA, 2 keys, 3 secrets, 2 requests at a time, 5 in all | `ActiveKeysSigned`, `RebakeHeals` |
| `backups` | 2 backups, a restore, an upgrade, 2 workers, 1 request at a time, 1 fault | `CompleteHasArchive`, `PruneKeepsRetention`, `ServesThroughout` |
| `domains` | 1 name, 1 credential, 2 requests at a time, 3 operations and edits by hand together, 1 detached rebuild, 1 fault | `VerdictsFitTheRow`, `RiseIsBaked`, and `ActivatesWhenVisible` under fairness |
| `proxy` | a local and a remote or adopted deployment, 1 name, 3 changes, 2 requests, a cache life of 2 | `StaleAtMostTTL`, `InvalidationHolds`, `NoReplicaPassedOver` |
| `fleet` | the self-host and one more, 1 agent, 1 token, 2 deployments, 2 cells, 2 requests, 3 requests and events together | `RemovalIsClean`, `AttachedAgree`, `ReportIsTrue`, and `GoneIsSeen` under fairness |
| `listing` | 4 rows, pages of 1 and 2, 3 changes, each of the 8 lists | `EveryRowOnce`, and `WalkEnds` under fairness |

Why the bounds are enough for what is asked. The safety properties of
`Provisioning` relate one job, its deployment and the processes at it: two workers
give a holder and a successor, two requests a delete and a restart (or two deletes)
that race, two attempts a first try, a retry and a give-up. Deployments interact
only through the order of the queue, for which `life_queue` has one that cannot be
claimed. A sweep handles deployments one after the other and shares nothing between
them. The theorems of section 6 do not depend on the bounds at all, and cover the
two racing jobs of an HA deployment, which no run has.

In the other modules a race needs two parties, and each property relates the rows of
one team, account, deployment, name, host or list: two requests at a time make every
pair of operations overlap in every order; a third, and the faults, add what came
before. `Accounts` needs three links for one that is consumed, one that must die with
it and one minted meanwhile; `Listing` four rows for a page boundary between rows of
equal time with one on either side. In `Backups` a second backup gives the retention of
one something to prune. In `Fleet` the budget of three counts requests and events
together; heartbeats, scans and the steps of a request cost nothing.

What an instance does not reach: two agents on one machine's host row; two jobs of one reconcile run; more than one fault
in one upgrade; ports held by the stopped replicas of others (`HeldPorts` is empty:
the collision comes from a deployment that takes a port meanwhile).

Deadlock is checked in the `Provisioning` and `Lifecycle` runs. The others are bounded
by the number of requests, changes or runs, and may stop when these are used up.

Symmetry is used in `prov_single`, `accounts`, `rebake` and `backups`, which check no
liveness.

## 4. Fairness

`Provisioning`: weak fairness of each worker's steps and of its claims (the loop
polls for ever, and a job's context bounds each call), and of the reaper's two
passes (a ticker). Nothing obliges a process to crash, to be late, to boot, or a
user to send a request.

`Lifecycle`: weak fairness of listing and sweeping (a ticker), strong fairness of
looking at a replica, because the status call of one sweep may fail and the next
sweep asks again: a daemon that never answers is excluded, one that fails now and
then is not. Requests finish.

`Reconcile`: weak fairness of workers, claims, the first two passes of the reaper and
of time passing; strong fairness of the steps of its third pass, since the reaper too
may crash: it is assumed to survive some of its sweeps, not any particular one.

`Tenancy`: weak fairness of a request's own steps. A handler runs until it
answers; a lock is the only thing that can hold it up, and Postgres aborts one request
of a cycle. `Domains`: handlers, the verifier's ticker and time. `Drift`: the agents'
loop and the two statements with which a removal ends, so that a lock on a host
row is given back. `Listing`: the client asks for the next page as long as it is given a cursor,
which is what `docs/API.md` tells it to do; nothing is assumed of who changes rows.

## 5. What the comments promise and the code does not keep

Noticed while modelling: the modules take these steps as the code does, the
properties above are stated so that they hold, and no run is kept for what follows.

Provisioning, health, reconcile:

* A delete leaves the teardown to the worker because it read `provisioning`
  (`deployments.go` 2687); the worker may have finished between that read and the
  UPDATE, which has no status guard. The row goes from `running` to `deleted` and the
  container stays.
* The worker that lost against a delete destroys the single-replica name
  (`worker.go` 1097, comment at 1089); of an HA deployment this removes nothing.
* The reaper compares `last_deploy_at` (`worker.go` 514, comment at 505-509), which is
  NULL until a deployment first leaves `provisioning`; a first deployment whose job was
  given up stays `provisioning` until a process boots.
* A sweep between the two UPDATEs of a restart (`deployments.go` 2931, comment at 2927)
  leaves a `running` deployment whose only replica row is `stopped`; no sweep lists it.
* The reaper's clock and the worker's are not the same (`worker.go` 432, 447, 591, 805):
  a job may be handed on before its first worker's context is done. The name of the
  container keeps them apart (`OneBuilder`): Docker refuses the second.
* The rollup of one job runs between another job's `markFailed` and its step write, and
  finalizes the run `succeeded` (`reconcile.go` 185, comment at 216-221).
* A pending job whose storage does not decrypt blocks the jobs behind it when one
  worker is idle (`loadStorage`'s comment says it does not clog the queue). The
  hypothesis `Claimable` of `JobsSettle` is exactly this exception.
* After a crash between `Provision` and the row update, the retry is refused the
  name by Docker, so the recovered job ends `failed` (ROADMAP: "auto-recover").
* A sweep that aggregated before a restart completes writes `stopped` after it, and
  pages. A sweep that dies after the replica UPDATE never recomputes the deployment,
  whose row stays `running`; only the replica row is sure to follow (`DownReplicaIsSeen`).
* A worker that dies between `markDone` and its step write leaves the step `planned`
  in a run that another worker closes. A late worker settles the reconcile job its
  successor is working on, and the next apply puts a second worker on the deployment.
* A create planned from a stale scan meets the container it believed missing, fails, and
  takes a healthy deployment to `failed`. `reconcileCreate` ignores
  `markProvisionRunning`'s answer: a deployment deleted meanwhile keeps its container.
  `reconcileRestart` sets only the deployment row, and the sweep does not list a replica
  that is `stopped`.

Tenancy and accounts:

* `updateMemberRole` says two concurrent demotions cannot race past the last-admin
  guard; each locks its own member row only, and both may pass (`teams.go` 577-593).
  No property is kept of the last admin: the guard alone is all that holds.
* `deleteTeam` counts deployments and deletes later; `deleteProject` may erase a
  deployment created after it listed them, with its container.
* Project overrides survive the removal of the team member and a transfer
  (`projects.go` near 1419 speaks of a cascade).
* `forgotPassword`'s cap is overrun by concurrent requests, one each.

Containers and keys:

* Nothing keeps two rebuilds apart: the one that read first may write last. A rebuild that
  races a delete recreates the container. A rotation recreates without CPU and memory
  limits, and does not invalidate keys baked by a rebuild that overlaps it
  (`deployments.go` 3170-3174). A rotation whose commit fails after `Recreate` leaves a
  container on a secret no row has. Rebuild and rotation use the local daemon for remote
  deployments too. A push never removes a name that was deleted.

Backups and upgrade:

* `createBackup`'s "one in flight" is a check before an insert. A late `failBackup` marks
  a complete backup failed. Deleting a failed backup during its export leaves the archive.
  A crash between `complete` and `markDone` exports again.
* An upgrade that dies after starting its replicas meets their names on the retry and fails.
  A delete that loaded the row before the swap tears down the single container only. A
  restore into the old container during an upgrade is lost at the swap. The worker's port
  query and the API's disagree on stopped replicas; the retry that "regenerates a fresh
  candidate" may pick the same one.

Domains and proxy:

* `recordPendingError` touches `updated_at`, from which `MaxAge` is measured
  (`verifier.go` 78-80, 449-463): a row with failing lookups never ages out.
* Auto-configuring an active domain takes it to `pending` and does not invalidate the
  proxy (`domains.go` 955-1002, against `proxy.go` 455-457); a crash between the flip and `OnActivated` loses the rebake; a soft-deleted
  deployment keeps its domain rows; the in-use check of a credential is a separate statement.
* A rebuild that read the active domains before one rose may recreate the container after
  the rebuild made for it (`deployments.go` 272-391, against the comments at 351 and `verifier.go` 95). A verify whose row
  was `active` when it was loaded and was re-armed since writes `active` without a
  rebuild (`domains.go` 816). `RiseIsBaked` is what remains.
* A delete between the upsert and the UPDATE of an auto-configure leaves a record that
  no row owns (`domains.go` 930-955, against 667-669); the cleanup of a delete may remove
  the record that a row re-created under the same name has just minted.
* A lookup that read before a delete fills the cache after the invalidation, until the entry
  expires (`InvalidationHolds` excepts it); `InvalidateDomain` reaches one node;
  `Resolver.Invalidate` has no caller.
* When every replica refuses, `flush` (`proxy.go` 855-860) says the error handler wrote an
  answer, but that of `proxyWithFailover` only stores the error: the client gets an empty 200.
  A body over 1 MB is truncated when it fails over.

Fleet, cells, drift:

* A drain is undone by the next heartbeat; a heartbeat in flight brings a revoked agent back
  online (`agents.go` 377). `updateHost` writes back the status it loaded. A lost answer to
  `register` spends the token; `createRemoteSetup` may leave a token without a host.
* Registering counts as a heartbeat, so drift trusts a host that has not scanned yet
  (`drift.go` 824). Two agents on one host prune each other's rows. HA replicas on one host
  share one observed key. A drift run that dies leaves its operation run `running`.
* `deleteHost` re-checks only the deployment guard under its lock.
* An attach that loaded a deployment before its delete inserts behind the cleanup, and so may
  a sync: the deployment stays as a ghost (against `deployments.go` 2634 and
  `docs/DESIRED_OBSERVED_DRIFT.md` 107).
* A report of a cell selects containers by the label `synapse.cell_id` (`drift.go` 1096),
  which nothing stamps (`docker/provisioner.go` 395-403, `docker/remote.go` 114-122): it
  calls what runs missing (against `docs/DESIRED_OBSERVED_DRIFT.md` 84), and a plan made from it would create it again.
* Attaching a host fills the placements of adopted deployments too (migration 000019 says
  they have none); the attach uses the primary host it loaded before. Two concurrent
  syncs can leave two active desired states for one key. Cell links are counted, then the
  cell is deleted.

Lists:

* `teams.go` 928 says the user id disambiguates the position; a member at the cursor who
  leaves and rejoins moves the cursor, and members in between are skipped. The properties
  except such a walk (`jumped`).

## 6. Proofs

Eight modules hold proofs that TLAPS checks. A theorem holds for every value of the
constants that satisfies the assumptions named in the component's own module: any number
of deployments, workers, requests, rows, tokens, retries, any cache life, any length of a
second. Each inductive invariant was checked by TLC on the instance of the component's
run before it was proved.

| Module | Theorem | States |
|---|---|---|
| `ProvisioningProofs` | `Invariance` | `Spec => []IInv` |
| | `TypeCorrect`, `OneBuilderAtATime`, `AttemptsBounded`, `DoneDecided` | `Spec => []P` for `TypeOK`, `OneBuilder`, `AttemptsLeft`, `DoneMeansDecided` |
| | `DeletedFinal`, `LeaseImplemented` | `Spec => DeletedIsFinal`; `Spec => LeaseSpec`, the refinement of `JobLease` |
| | `LifeInvariance` | `LifeSpec => []LifeInv` |
| | `SweepsAreTruthful`, `FailedStaysFailed` | `LifeSpec => DownIsReal`, `LifeSpec => FailedUntilOperator` |
| | `DeletedFinalUnderSweeps`, `LeaseKeptUnderSweeps` | `DeletedIsFinal` and `LeaseSpec` again, of `LifeSpec` |
| `ReconcileProofs` | `IInvHolds`, `ClosedRunsStaySettled`, `DeletedStaysDeleted` | `IInv`, `FinalMeansSettled`, `DeletedIsFinal` |
| `TenancyProofs` | `InviteTokensAreUsedOnce`, `TornDownFirst` | `InviteOnce`, `TornDownBeforeErased` |
| | `WalksShowEveryRowOnce` | of `ListSpec`: `EveryRowOnce` |
| `AccountsProofs` | `AtMostOneInstanceAdmin`, `SessionsFollowThePassword`, `LinksEndWithAReset` | `OneInstanceAdmin`, `SessionsFollowPassword`, `LinksEnd` |
| `RebakeProofs` | `IInvHolds`, `KeysFollowTheSecret`, `RebuildsHeal` | `IInv`, `ActiveKeysSigned`, `RebakeHeals` |
| `UpgradeProofs` | `IInvHolds`, `CompleteBackupsHaveArchives`, `ServesWhileUpgrading`, `PruningKeepsRetention` | `IInv`, `CompleteHasArchive`, `ServesThroughout`, `PruneKeepsRetention` |
| `RoutingProofs` | `IInvHolds`, `SteadyHolds`, `StaleEntriesExpire`, `DroppedNamesAreUnknown`, `FailoverPassesNoneOver` | of the proxy: `IInv`, `SteadyInv`, `StaleAtMostTTL`, `InvalidationHolds`, `NoReplicaPassedOver` |
| | `DomainsInvariant`, `VerdictsAlwaysFit`, `RisesAreBaked` | of `DomainsSpec`: `DomainsInv`, `VerdictsFitTheRow`, `RiseIsBaked` |
| `FleetProofs` | `FleetInvariant`, `RemovalIsAlwaysClean`, `AttachedAlwaysAgree`, `ReportsAreTrue` | `FleetInv`, `RemovalIsClean`, `AttachedAgree`, `ReportIsTrue` |

The assumptions: `None` and the like are not members of the sets they are distinguished
from; bounds are naturals, and `MaxAttempts`, `TTL`, `MaxSecret` and the length of a second
are not zero; HA, remote and unloadable deployments are deployments, and no HA deployment is
remote; a retention is between 1 and 90, as the handler checks; a deployment called `site`
was adopted, since Synapse's own names have two words and a number (`docker/names.go`); the
rows of a list, and the requests in flight in `Tenancy`, are finitely many; the fleet has a
host besides the control plane's, an agent, a deployment and two cells, which its initial
states name.
In `life_ha` TLC starts from a deployment that serves already; the theorems about
`LifeSpec` start from `LifeInit`, from which TLC has explored the instance of `life_queue`.

The invariants of the runs are not inductive. What each proof adds is what the code
relies on without saying so.

* **Provisioning.** `JobInv`: a pending job has an attempt left, a job somebody works on
  was taken, and its deployment row exists. `RowInv`: while a deployment is `provisioning`
  so are all its replica rows; a request past its first read finds the row out of
  `provisioning` for good, `deleted` once it frees the ports; a worker about to call
  `markDone` has seen, or caused, its deployment leave `provisioning`. `OneBuilder` is a
  conjunct of its own: two workers may hold one replica's job in turn with time left to
  both, and only Docker's refusal of a name in use keeps the second from building; no step
  takes a builder's container away while its deployment is `provisioning`. `AttemptsLeft`
  is proved only; `LeaseSpec` bounds the attempts in the runs.
* **Lifecycle.** A container may die or be removed by itself, which frees its name, so
  `LifeInv` is without `OneBuilder`.
  `SteadyInv` is why a sweep's verdict, computed by one statement and written by another,
  is still true: the row of a replica that has been up since it was listed says `running`,
  so a sweep about to write anything else has lost to a delete, which its UPDATE's guard
  sees. Provisioning's steps are shown again not to disturb this.
* **Reconcile.** A worker settles its job and rolls its run up by id, whoever holds the
  claim by then. `ProcInv` says that a process past the count of live jobs counted none,
  and that this cannot change: no statement but `Apply`'s makes a job live again, and
  `Apply` opens a run of its own.
* **Tenancy.** `Shape` is what a request carries (the admins it counted, the token it was
  sent); `Facts` is what of it still holds because a lock or the order of a deployment's
  states keeps it so; `InviteInv`: open invites have tokens of their own, and a token that
  let somebody in opens nothing; `ExclInv`: one request at a time is between locking an
  invite and joining.
* **Accounts.** `ReqInv`: a first registration about to commit sees no account at all,
  since `ExclInv` keeps others from being between the lock and the commit; a reset past its
  lock has the link open and every sibling it saw is closed or about to be deleted by it.
  `TruncateMonotone` is the arithmetic of whole seconds.
* **Rebake.** `AloneInv`: a request nothing overlapped is the only one under way, so
  (`Facts`) what it read is what the tables still say, and the replicas it has been through
  are as they say. `LockInv`: two rotations are not both past their row locks, overlapped
  or not, which is why a key is rotated away at most once.
* **Backups and Upgrade.** `ArchiveInv`: a backup about to be called complete has its
  archive or lost it to a deleter. `Promise`: above every victim of a sweep, as many complete
  backups as the retention says are not victims themselves. This holds of the set of
  victims, so the order in which they go does not matter; that it holds when the list is
  read is the one place that needs counting (the newest backups kept are as many as the
  retention). `ServeInv`: an attempt owns the containers it built, two attempts never the
  same one, and once the row points at the pair only the attempt that stops the old
  container still holds them.
* **Proxy.** `CacheInv`: the time since an entry stopped being true and what is left of
  its life add up to the TTL at most. The bound on staleness alone is not inductive, because
  a hit moves neither. `HoldInv`: a lookup that read a row now gone is either before the
  handler's invalidation or its name is marked as straddled, or as lost without one.
  `SteadyInv`: the replicas that were up all along are among those the loop has still to try.
* **Domains.** Requests, sweep and rebuilds overlap freely, so a request may believe little
  of the row it loaded. `OpOK` and `VerInv`: the row of that id, if it is still there,
  belongs to the deployment loaded with it, and a verdict about to be written is that of a
  lookup for that id; hence `VerdictsFitTheRow`, which fails if an UPDATE goes by name.
  `RiseInv`: an active name that no container was created with since is owed by somebody:
  a rebuild that has not read yet, one that read the name and has still to recreate, or a
  create on its way there. It holds as long as no call has failed (`faults = 0`), and it
  says nothing of a rebuild that read earlier and recreates later: section 5.
* **Fleet, Cells, Drift.** `RemoveInv`: a removal about to erase its host holds the row's
  lock, is the only one that does, and nothing lives there, since an insert that names a
  locked host waits. `AttachedAgree` needs `PlaceOK` (a placement names a cell and a wish, or
  is not there), the shape of each request, which says what it loaded, and `AgreeInv`: a
  cleanup under way is of a deployment that is deleted, so what it has done so far, or
  failed to do, touches no other. `ReportIsTrue` is
  about three actors. `BeatOK`: a heartbeat in flight is right about every container that
  has not turned since its scan, and nothing is told of the others. `ToldOK`: what is told
  up has a row, what is told gone has none. `DriftOK` carries this through the reads of a
  computation: what it was told is still told, the rows it read agree, and so do its
  verdicts, those of a cell only as far as a row it found goes. It fails at once if a
  failed scan may prune.
* **Listing.** `WalkInv`: the cursor divides the rows; those in front of it were not
  shown, those of the walk's base behind it were shown once. `CursorOrder` and
  `CursorAdvances` are the facts about the row comparison `(created_at, id)` this
  rests on, for both directions.

Only model-checked: liveness (`JobsSettle`, `DownReplicaIsSeen`, `RunsFinish`, `CreatesFinish`,
`RequestsEnd`, `ActivatesWhenVisible`, `GoneIsSeen`, `WalkEnds`), which the
prover does not handle: it has no rules for `ENABLED` and fairness. Every invariant and every
action property of the runs is a theorem.

## 7. Abstractions

* Data: names, images, environment, storage contents and error texts are left
  out. A deployment is its name (UNIQUE over deleted rows too).
* Volumes and networks are left out: no property tells them apart from containers.
* Read-only failures that end a handler early are `RequestAbort` in `Provisioning`; in
  the later modules a request that is refused or fails before it writes ends.
* `claimNext`'s lock is held for its one transaction, so a claim is one step.
* Audit rows and e-mails are best-effort and read by nothing modelled here.
* `Provisioning`: the two clocks of a claim are not related at all, so the instances also
  have skews that no real pair of clocks shows; the properties hold without a bound on it.
* `Tenancy`: one e-mail address is invited per team; names and slugs are left out.
* `Accounts`: a password is its version; access tokens expire by themselves.
* `Rebake`: one deployment; ports and container ids are left out.
* `Backups`: an age is the last hour, the last day or before; jobs are claimed in any
  order; a commit whose answer is lost is not modelled.
* `Domains`: the public IP and the storage key are configured, deployments run,
  a rebuild is its read and its recreate (`Rebake` has the rest), every credential covers
  every zone.
* `Proxy`: the network-DNS mode, one process; a read takes no time against the cache's
  life.
* `Fleet`: at most one agent process per machine; registration is one step; observed
  state is enabled. `Cells`: one project, one link and one service token at a time.
  `Drift`: hosts, facts and existence are read in one step; containers carry the labels
  of the deployment and the project, and none the cell's, since nothing stamps it;
  older containers without labels, and the name they are then found by, are left out, and
  so are severities, which only tell `warning` from `drifted`; reports are judged, not stored.
  A delete has no failing teardown here (`Provisioning` has it), its cleanup may fail.
* `Listing`: one walk; what a row shows and who may ask are left out.

## 8. What could follow

1. The probe of adopted deployments against `updateAdopted`, the one hazard without a
   property.
2. The create handler's own port allocation beside the worker's (`Upgrade` has the latter).
3. The composition of `Domains` with `Proxy`: `World` of the latter is what the former does,
   and with both proved the refinement is what connects them.

## 9. Not modelled

The probe of adopted deployments and `updateAdopted`; slug choice; the
certificate gate, which answers each question from the tables and keeps nothing; token
scopes and hashing (request checks and cryptography); text-only updates of teams, projects and
cell links; service discovery and the other read handlers; alerts, email and audit
(best-effort output; the condition that pages is in `HealthSweep`); secrets at rest (a
row that does not decrypt is `Unloadable`); the SSH transport and Headscale (their
failures are the failing calls); the host-domain job and the updater, which live in
another daemon's files, and the `adopt-domains` command, which runs once; dashboard, CLI
and installer (clients and scripts).

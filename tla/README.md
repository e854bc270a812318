# A verification project for the Minecraft dashboard (`mcdash`)

`mcdash` runs Minecraft worlds on a k3s cluster: it launches a world from a
backup zip, starts and stops it, takes snapshots, restores and deletes it, and
gives access to its console. This directory holds TLA+ models of the parts that
are hard to test, the TLC configurations that check them, and proofs that the
TLA+ proof system checks. Paths below are relative to the repository root; the
program is `src/mcdash/`.

## 1. Inventory

| Component | State it keeps | Operations | How it interacts | What makes it correct |
|---|---|---|---|---|
| **Service and reconciler** (`service.py`) | per world a ConfigMap `<w>-mcdash` with the spec and the pending operation `op`; caches of release values, RCON passwords, players | `launch create_world start stop snapshot restore delete update_settings set_whitelist rcon`; a thread that calls `_advance` every 3 s | one `RLock` around every handler and around `reconcile_world`; calls to Kubernetes, Helm, RCON and the backup index between two writes of the record | one user of the volume at a time; played data saved before it is destroyed; nothing left without a record; every operation ends |
| **RCON pool** (`rcon.py`) | per world a slot: lock, client, key, last seen pod, eviction mark | `run note_target evict sweep_idle close_all` | called by web threads, handlers and the reconciler; marks and targets are written without the slot's lock | a command never runs twice, replies are not mixed up, an evicted connection is not used again, nobody waits for ever |
| **Kubernetes adapter** (`k8s.py`) | none (the cluster's objects) | get, list, create, replace, delete of ConfigMaps, Secrets, claims, Jobs, pods; log streaming | every call may fail or time out after it took effect | errors mean what the callers take them for; `JobInfo.done` |
| **Helm adapter** (`helmops.py`) | none (the release) | `upgrade_install uninstall list get_values`, rendering of values | a subprocess with a 120 s limit, without `--atomic` | a failed upgrade may have changed anything |
| **Job pods** (`jobs/`) | the volume, the snapshot file | `seed` (open, wipe, copy), `snapshot` (zip, rename) | run by the Job controller, one retry, removed an hour after they end | a wiped volume is never taken for a whole one |
| **Backup index, store** (`backups.py`, `store.py`) | zips of three tiers, labels, roster, audit log, detection cache | `scan get promote delete prune_snapshots set_label` | web threads and reconciler, one lock for the small files, none for the zips | the archive is never written; a listed backup can be read |
| **Web application** (`web/app.py`, `web/static/app.js`) | a bounded queue per log viewer; the console's suggestion state in the browser | routes, SSE log stream, suggestions | threads, an event loop, a browser | the viewer learns of the end; stale answers are dropped |
| **Completion** (`completion.py`) | command trees per version, a commands Job per server pod | `complete`, `_commands_job` | Jobs, files written by the Job | at most one Job per pod |
| **Pure functions** (`detect.py`, `naming.py`, parts of `helmops.py`, `jobs/seed.py`) | none | names, versions, Java tags, zip layouts | | total, and agree with the documented tables |
| **Fake service, CLI, ingest script, chart, legacy** | | | | not modelled |

Hard behaviour: the process may die or a call may fail between any two cluster
calls of a handler; the cluster moves on its own (pods stop in their own time,
Jobs retry and expire, claims in use linger); a Helm or API call reported as
failed may have taken effect; RCON commands time out but may still run; the RCON
pool is shared by threads that do not wait for each other. The `hazards` of
`PROJECT.json` list each of these at its line.

## 2. Modules

| Module | What it is | Run |
|---|---|---|
| `World` | one world: the service's handlers, the reconciler's steps, the Jobs, the server pods, the volume, and faults | `World*` |
| `WorldVolume` | the abstract promise: a volume with one user, whole worlds for servers, saved data before destruction | |
| `WorldRefinement` | the refinement mapping from `World` to `WorldVolume` | `WorldCrashes` |
| `WorldProofs` | theorems about `World` | |
| `VolumeProofs` | theorems about the data on the volume, and the refinement of `WorldVolume` | |
| `RconPool` | one slot of the RCON pool, its callers, evictions and the server | `Rcon*` |
| `RconPoolProofs` | theorems about `RconPool` | |
| `Registry` | the records and releases of all worlds, and their ports | `Dashboard` |
| `Leases`, `RegistryRefinement` | what is promised about ports, and the mapping that shows `Registry` keeps it | `Dashboard` |
| `RegistryProofs` | theorems about `Registry`, the refinement among them | |
| `Access` | whitelist, admins and open mode of one world: record, release values, server files, forms | `Access` |
| `AccessProofs` | theorems about `Access` | |
| `Library` | promoted backups, their sidecars and the labels file | `Dashboard` |
| `LibraryProofs` | theorems about `Library` and `Archive` | |
| `LogView` | the log of a server on its way to a browser | `Dashboard` |
| `Suggestions` | the console's suggestion list in the browser | `Dashboard` |
| `CommandsJob` | how a server's command list is read | `Dashboard` |
| `Completion` | completing a command line from the command tree | `Dashboard` |
| `PageProofs` | theorems about `LogView`, `Suggestions`, `CommandsJob` and `Completion` | |
| `Archive` | which file of a zip goes where, there and back | `Dashboard` |
| `Dashboard` | puts the last group together for TLC | `Dashboard` |
| `DashboardProofs` | theorems about `Dashboard`: each part behaves as it does alone | |

The parts meet in `mcdash` at few points, and the modules at the same: `World` has
one world and abstracts the others to nothing, `Registry` has several and reduces a
Job to ending well or badly; `Archive` is the inside of `World`'s seed and snapshot
Jobs; `Suggestions` relies on the service finishing to read a command list
(`HasRead` is fair), which is `PendingEnds` of `CommandsJob`; what it shows is what
`Completion` finds.

### `World`

| Variable | In the program |
|---|---|
| `known`, `op` | the ConfigMap exists; its `op` (kind, step, error, Job, backup, `paused`). `failed` is the presence of `error`; `"none"` is no op |
| `release` | the Helm release: absent, `replicaCount` 0, 1 |
| `vol` | the claim and what is on it: `empty`, `partial` (wiped, not refilled), `seeded`, `played` (a server has run on it), `doomed` (deleted but mounted) |
| `pods` | server pods: `stopping` (scaled down: same template, so the ReplicaSet ignores it), `replaced` (template changed: strategy Recreate waits for it) |
| `saveOff` | pods that were told `save-off` and not yet `save-on` |
| `jobs` | Jobs by name: kind, source, and which of its two pods does what |
| `files` | snapshot zips, oldest first |
| `kept`, `faults` | a history variable (the played data is in a snapshot asked for after the last change of release) and the fault counter |

Handlers hold the service's lock, so each is one action; `_advance` is one action
per step, and `reconcile_world`'s loop of up to five is several actions (other
requests may fall between them in the model; `_busy` must cope). Inside a handler
the cluster calls are counted, and the action takes effect up to its n-th call:
`Cut` (requests: the exception reaches the user) and `Ended` (reconciler: a failed
call is recorded by `_fail`, a crash is not) say which prefixes the run's `Faults`
allow. That is sound for interleavings with the cluster because the calls of one
handler touch different objects, and each object reacts on its own.

`JobStatus` separates a Job's first pod from its retry because the code does:
`JobInfo.done` is true as soon as one pod has failed, while `backoffLimit` 1 still
lets a second pod run.

What one model value stands for: a Job's name, its stamp and its snapshot file are
one name (`_stamp` gives both). A new Job gets any unused name (`Fresh`); names are
a bound, so requests that need names wait until one is free. Stamps have one
second, so equal names would need two operations of one world within a second;
that is left out and listed as a hazard.

### `RconPool`

`server`, `started`, `accepts`, `secret` are the cluster; `cached` is one entry of
`_secret_cache`; `conn`, `pending`, `target`, `holder` are `_Slot`; `run` the locals
of `RconPool.run`; `wire` the outstanding command (`quiet`, `unread`, `answered`);
`at`, `seen`, `key` the callers' program counters and what they read;
`late` counts commands the caller gave up and the server may still run, `ran`
what the server ran; `doomed` remembers (a history) when an eviction asked to close
the present connection. `evict` takes effect at once when it finds the lock free;
otherwise it decides to mark (`NoteBusy`, `EvictBusy`) and marks later (`Mark`,
`EvictMark`), which is the window that the lock's `acquire(blocking=False)` leaves.
Callers are of three kinds: status polls (`list`, `retry_sent=True`), console input
(one command, sent even when no pod was listed) and batches (two commands).
Packets, ids and sentinels are abstracted to *written* and *answered*.

### `Registry`

`record[w]` is the ConfigMap (port, RCON port, the step it waits in, `failed` for an
error), `release[w]` the Helm release with its `mcdash` values and whether it has a
replica, `claim` the claims. Port 0 is none, as in the code. `Stored` and `SpecOf` are
what `_records` returns: lost records written again from the release, an RCON port
that only the release knows adopted. Every handler starts there, so each action works
on `SpecOf(w)` and saves `Stored`. `Install` is `_ensure_rcon_port` and `_install`:
the port is saved before helm runs, helm may fail before or after it took effect, and
the dashboard may die between any two calls. The initial states are those an older
dashboard left, with RCON ports missing in records or in both.

`Leases` is what a player or a router sees: a tenant is granted two free ports,
perhaps later a second one, and keeps the first until it goes. An RCON port may be
forgotten if it was assigned and never served (record lost before the install).

### `Access`

`rec`, `env` and `server` are the access settings of the record, of the last install,
and the server's `whitelist.json`, `ops.json` and switch. `Obeyed` is the RCON batch
`set_whitelist` sends, `HalfWay` what a broken one leaves, `Booted` what a starting
container makes of its environment (an empty list leaves the file alone). `form` is a
settings form between what it read and what it saves. Two history variables bound the
claims to what the code can promise: `behind` (the server missed an edit: it was
booting, the batch broke, or a container restarted with older values) and `demoted`
(admins an accepted edit took off). `Reseed` may leave any files on the volume.

Names have one spelling here. In the code names are compared without case for
admins and with case for whitelist removals, so that a roster entry respelled sends
`whitelist add New` and then `whitelist remove new`, which the server takes for one
player and removes.

### `Library`

A file is named by the copy in it (the request that opened it), so that two requests
writing one temporary file, or renaming each other's, show. `shared` (history) has the
copies two requests were at, `mixed` the names two operations were at at once; where
they are excluded, the code has no lock and the outcome is arbitrary: two promotes of
equal stamps can choose one name, a delete can remove the sidecar of the promote that
takes the name over, and a label set during a delete can outlive the backup.

### `LogView`

`box` is the container; `pump` the thread of `_log_events` inside `stream_pod_log`;
`posted` the calls on their way to the event loop (`call_soon_threadsafe` keeps their
order); `queue` the bounded queue; `viewer` the browser and the coroutine's knowledge
of it. Lines are numbered, and `aged` is the last one older than the look-back of two
seconds. `missed` (history) excludes the two losses the code accepts: a full queue, and
a line that aged while the stream was being opened again.

### `Suggestions`, `CommandsJob`, `Completion`

`Suggestions` has the text as a number, the timers of `app.js` and which one
`clearTimeout` would stop, the newest request and a stale one. `CommandsJob` numbers
the servers that start; `podOf` says which of them share a pod (a container that
restarts in place), `recorded` is the pod the pointer file names. `Completion` is the
walk of `CommandTree` one stack entry at a time, over the tree `Tree` of `Dashboard`
that has each shape of the real one: a redirect, an empty literal that means the root,
arguments beside literals, an argument of three tokens, a greedy one.

### `Archive`

`FindWorld` and `MapMember` are `find_world` and `map_member` on sequences of path
parts; every set of the members in `Dashboard` is a zip. `Snapshot` is the walk of
`snapshot.py`.

### `Dashboard`

These parts share no state, so their product would only multiply. In each behaviour
one part is live and the others stay at their beginning; the state space is the sum,
and fairness is stated for each part's steps. A property of a part is checked exactly
as if it were alone (`EachPartAlone` proves it of the safety properties).

## 3. Runs

All runs switch deadlock checking off: a world nobody asks anything of, a pool
nobody calls and a log that has ended rightly stop.

| Run | Question | Answer |
|---|---|---|
| `WorldCrashes` | crash between any two calls, RCON failing: is the volume safe? | yes: `FirstSeedAlone`, `OneServer`, `ServerOnWholeWorld`, `PlayedDataKept`, and `World` implements `WorldVolume` |
| `WorldJobFailures` | failing, retrying, expiring Jobs | `FirstSeedAlone` and `SavingResumes` hold |
| `WorldFailures` | every fault, two per behaviour | typed; no orphans; a pending operation is touched only by its own steps |
| `WorldLiveness` | does every operation end? | yes with failing and expiring Jobs and failing RCON; a delete frees its name |
| `RconPool` | the pool's promises, with liveness | hold |
| `Access` | record, release values and server files drift; do they meet again? | yes, on a server that saw every edit: `ListedMayJoin`, `AdminsAgree`; the settings form undoes nothing (`FormKeepsAccess`) |
| `Dashboard` | ports of two worlds | `PortsUnique`, `RconKept`, `FullRangeStops`, and `Registry` implements `Leases` (`LeasesKept`) |
| | the log viewer | `LinesInOrder`, `EndTold`, `PumpEnds` |
| | the console | `SuggestionsFresh`, `LoadingEnds`; `RecordedForward`, `PendingEnds`; `AcceptedContinues` |
| | backups | `WholeOrShared`, `TempsGone`, `ShownOwn`, `LabelsKept`; `NothingMerged`, `SnapshotRestores` |
| `WorldRestoreOldest`, `WorldJobRetry`, `WorldLaunchCrash`, `WorldHalfSeeded`, `RconStaleTarget` | promises of the documentation that the code breaks | each has a counterexample, explained under `findings` in `PROJECT.json` |

Bounds. Three Job names are one more than an operation uses (a restore names a
snapshot and a seed Job), so Jobs of two operations overlap; two server pods are
what it takes for two servers; `Keep` = 2 with three names makes prune delete;
`MaxFaults` counts crashes, failed calls and early expiries in one behaviour
(failing Jobs and RCON are not counted). The liveness and all-fault runs use two
Job names and one pod. The pool's run has a status poll and a batch, two server
pods over time and two passwords; the same safety properties were also checked
once with a console caller added (two servers, two passwords: 9.7 million states),
which is too slow to keep as a run next to liveness.

`Dashboard`: two worlds compete for three game ports and one RCON port, so the RCON
range is full as soon as one has it; two faults allow a lost record followed by a
failing install. Three log lines, a tail of two and a queue of two let the queue
overflow and the stream start in the middle. Two changes of the text and two reads of
the command list put an answer, a retry and a newer request in every order. Three
servers are a present one, an earlier one whose Job may still run, and one before it.
Two promotes and two names: equal names, and a second name to be chosen. Lines of four
tokens reach the root again through `execute as @a run`. `Access`: two players, one to
take away and one to keep; the rest of its state is finite by itself.

Fairness. `World`: the reconciler thread ticks every 3 s (`start_reconciler`); pods
terminate within the 90 s grace period; a Job pod that can work ends, and a Job that
cannot succeed fails; a finished Job is removed after its TTL. No fairness for users,
for servers becoming ready, or for faults. `RconPool`: threads run, and the 5 s socket
timeout ends every wait (`Lost`); nothing is assumed of the server. Each caller makes
one call: with unboundedly many callers Python's lock promises no order.

`Dashboard`: the pump thread and the event loop run (`Pump`, `Put`, `Feeds`), a
departed viewer is noticed at the latest at the keepalive (`Noticed`), time passes
(`Ages`); a browser's timers fire and its requests are answered, also if only with an
error; the cache of the command list has a TTL of seconds, and the commands Job a
deadline (`JobEnds`). `PendingEnds` also takes a console that keeps asking (`Asks`),
which `LoadingEnds` shows the browser does. Nothing is assumed of the container, of
users, or of the order of requests.

### What each fault breaks

The properties were checked against each fault alone (one per behaviour). A run
states a property under the faults where it holds; this table is where it does not.

| Fault | Breaks |
|---|---|
| dashboard crash | `SavingResumes` (`save-off` is sent before the record says so); `OperationsEnd` (`WorldLaunchCrash`) |
| RCON failure | `SavingResumes` (a failed `save-on` is only logged) |
| Job pod failure | `ServerOnWholeWorld`, `PlayedDataKept` (Stop erases a failed reseed, `WorldHalfSeeded`) |
| early expiry of a Job | nothing alone; with a crash between install and record, `FirstSeedAlone` (the seed Job is made again under the running server) |
| a call refused | the volume's five safety properties and `OperationsEnd`: a teardown that stops after `helm uninstall` leaves a world that Start, Snapshot and Restore accept |
| a call that took effect but is reported failed | the same, and a restore that drains a release nobody scales down |
| `TypeOK`, `NoOrphans`, `BusyProtected` | survive every fault |

## 4. Proofs

`WorldProofs` proves for every set of Jobs, pods and faults and every bound:

* `TypeCorrect`: `Spec => []TypeOK`. One step per action; the lemmas on records and
  operations (`RecordTypes`, `OpTypes`) say that what `NewOp`, `Failed` and `JobsWith`
  build is well typed.
* `NoOrphansAlways`: `Spec => []NoOrphans`, under all faults. `NoOrphans` is not
  inductive: a world without a record whose operation were still pending could be
  advanced, and would create a Job or install a release. The invariant `Orphanless`
  adds that there is no operation without a record; only the last call of `Teardown`
  removes the record, and by then it has removed everything else.
* `SeedsAlone`: with crashes, failing Jobs and failing RCON (no expiry of an unseen
  Job, no refused or ambiguous call), `Spec => []FirstSeedAlone`. The invariant is
  `SeedInv`: a seed Job whose first pod works is the Job of the pending or failed
  operation (`SeedTracked`); in that step no server pod lives and the release is not
  running (`NoServerInSeed`); the operation record is sane (`OpSane`); and the volume
  exists wherever a step relies on it (`VolumeThere`). TLC checked `SeedInv` as an
  invariant on two and three Jobs before it was proved. The assumption on `Faults` is
  needed: the table above names the behaviours that break it otherwise.

* `PendingProtected`: `Spec => BusyProtected`, under all faults. It needs `Orphanless`:
  launch and create test for a record and not for an operation, so a pending operation
  without a record would be overwritten.
* `NeverTwoServers`: `Spec => []OneServer`, under the faults of `SeedsAlone`. A
  Deployment does not wait for a stopping pod of its own template, so the invariant
  `OneInv` says that none stops beside a wanted release (`NoneStops`), that an absent
  release outside a teardown has no pod (`AbsentIsEmpty`), and that a seed or install
  step finds the release running or no pod. With `SeedInv` this covers every handler
  that scales up. A refused or ambiguous call breaks it: a teardown that fails after
  `helm uninstall` leaves an idle world without a release whose pod still stops.
* `SavingAlwaysResumes`: with failing and expiring Jobs, `Spec => []SavingResumes`. The
  invariant adds that a pod that starts is not one that was told save-off
  (`OffWasReady`).

`VolumeProofs` proves, for crashes and failing RCON at any call (`Faults` within
`crash` and `rcon`, the faults of the run `WorldCrashes`), for every set of Jobs and pods
and every `Keep`:

* `ServedWorldIsWhole`: `Spec => []ServerOnWholeWorld`, and `PlayedDataSaved`: `Spec =>
  PlayedDataKept`. Data is destroyed long after the snapshot that saved it, so neither
  follows from what the destroying step sees. `VolumeInv` carries the promise along: a
  drain, seed or teardown that is pending while the data is still there means that it was
  saved (`SavedFirst`), and a snapshot step whose file or success is there is of the
  present data (`SnapshotSaves`); a volume without a release has nothing to save
  (`PlayedIsReleased`), which is what a delete without a snapshot takes it for; and the
  volume is half-copied exactly while the recorded Job's first pod copies (`WipedTracked`,
  `OpenedWiped`).
* Under it lies `SourceInv`. A seed Job whose first pod found no source is retried, when a
  server may already run: the retry must not find it either. It does not, because a file
  that is gone stays gone: the only Job that could write a file of that name has ended
  before anybody could name it as a source (`SourcesOld`, `FilesDone`, `SecondPodsFail`).
* `WorldImplementsVolume`: `Spec => VolumePromise`, the refinement of `WorldVolume`: one
  lemma for the requests, one for the reconciler's steps, one for the cluster, each with
  the abstract action it maps to.

  The assumption on `Faults` is needed: the table of faults names the behaviours that
  break these properties otherwise, and `WorldHalfSeeded` shows one for failing Jobs.

`RegistryProofs` proves, for every set of worlds and faults and every pair of ranges:

* `RegistryTypeCorrect`, `PortsStayUnique` and `RconPortKept`. `PortsUnique` is not
  inductive: a lost record is written again from its release, so a release that
  disagreed with its record would bring a foreign port back. `RegistryInv` adds
  `Agree`: where a world's record and release both have a port they have the same
  one, and neither has an RCON port without a game port. All handlers
  and steps are one shape (`Changes`: the world's record and release go to values that
  keep, adopt or freshly take a port), so the invariant is proved once for the shape
  and each action is shown to have it.
* `RegistryImplementsLeases`: the refinement, step by step, from the same shape.
* `FullRangeNeverBlocks`: `RegistrySpec => []FullRangeStops`. Without a failing call an
  operation fails when its seed does or when an install finds no port; its server is down
  then because it already was while the operation waited in either step. That is what the
  invariant adds (`Calm`), for every world, also as the listing heals it.

`AccessProofs` proves, for every set of players, `AccessTypeCorrect`,
`ListedMayAlwaysJoin`, `AdminsAlwaysAgree` and `FormNeverLosesEdit`. The invariant
`AccessInv` says of a server that is not behind that its files agree with
the record (`Agrees`), that while the record has no admins nobody who was demoted
is left in `ops.json`, which a boot would then leave alone (`EmptyIsClean`, the reason
for `check_ops_change`), and that a form that is open has the record's settings
(`FormCurrent`, since no other handler runs meanwhile).

`LibraryProofs` proves, for any number of promotes and names, `ListedAreWhole` and
`TempsAlwaysGone` from an invariant about copies (a copy is new to the request that
opens it, or is shared; past the copying it is whole or shared), and
`LabelsNeverUndone` from `LockInv`: the lock has one holder, and what the holder read
is what is in the file. `LabelsAreOwn` (`[]ShownOwn`) is about three operations at once,
so `OwnInv` says for each name at which no two operations were together (`NameOwn`): one
promote at most has it, and where it is says what the name, its temporary file, the
sidecar and the label may hold.

It also proves of `Archive`, for any paths a zip may have:

* `NoFileOverAnother`: `[]NothingMerged`. `MapDecides` shows that where a member goes
  determines the member: what lies under the world directory goes to a path that begins
  with `world`, what lies beside it keeps its path under the layout's beginning and does
  not begin with `world` (`BesideShape`, the reason for the stray directory's test), and
  taking one beginning off two paths keeps them apart (`RestDecides`).
* `SnapshotComesBack`: `[]SnapshotRestores`. A snapshot has `world/level.dat` at its top,
  so the only shallowest server directory is `world` (`TopWorldFound`), and then every
  file keeps its path (`TopWorldKeeps`). It needs that `EXCLUDED_TOP` does not have the
  world itself (`ArchiveAssumption`).

`PageProofs` proves of `LogView`, for any length of the log, of the tail and of the queue,
`LogTypeCorrect` (the queue is bounded) and `LinesStayInOrder`. The invariant `OrderInv`
follows the lines through the pipeline: what is shown, queued and posted rises strictly
and ends at the last line read (`Increasing`, `ReadLast`); notices and the end come
after the lines (`LinesFirst`); a stream is opened again only past its look-back
(`ReadAged`); and while nothing was missed, a line's place in the pipeline is its number
less a constant (`Exact`), so none is left out.

Of the console it proves `SuggestionsTypeCorrect` and `CommandsTypeCorrect` (one commands
Job at a time), and

* `SuggestionsStayFresh`: under a text typed at its end a request for it is still to be
  sent, is under way, or was answered with the list shown (`FreshInv`);
* `RecordedStaysForward`: a running Job belongs to a server that started, and what is
  recorded is no later than its pod (`PodsForward`);
* `AcceptedAlwaysContinues`, for every command tree. What the walk reaches is a recursive
  notion; instead of an induction, a node counts as reached if it is in every set that
  has the root and is closed under the walk's steps (`ReachedOn`). The walk over a line
  with one more token is closed under the steps over the shorter line, so it reaches what
  that one reached, and from there the accepted token. `CompletionAssumption` asks that
  nodes lead to nodes, that arguments are one token wide or more, and that an argument
  takes the values offered for it.

`DashboardProofs` proves that putting these parts together changes none of them:
`EachPartAlone` says that a behaviour of `Dashboard` is one of every part, up to fairness,
because a step is a step of one part and leaves the variables of the others. With it
`DashboardTypeCorrect` (`[]DashboardTypeOK`) follows from the types of the parts, and the
safety theorems of the parts apply to the run.

`RconPoolProofs` proves, for any callers and any number of servers and passwords:

* `PoolTypeCorrect`, `ConnectionsNotShared` and `EvictionsHonoured`. Neither of the last
  two is inductive alone; `LockInv` says that a caller is in a run exactly while it
  holds the slot's lock, that an open connection found there has its key (`Owns`), and
  that a doomed connection always carries the mark, which the next run looks at first
  (`DoomKnown`).
* `NeverRepeated` and `BatchesInOrder`, from `CountInv`. A bound on runs alone is not
  inductive, because a command its caller gave up may still be read. The invariant
  bounds `Attempts`: runs so far, packets a server may still read late, and the packet
  on the wire. What is allowed depends on where the run is (`Allowed`): nothing before
  the first send, one more with every send, and a second one only for the idempotent
  list, after the run has used up its retry. Executing a packet turns one attempt into
  one run, so nothing the server does can exceed what the caller was allowed.

The assumptions are those of the modules, which TLC evaluates for the values each run
gives: `PortsAssumption`, `CallersAssumption`, `BoundsAssumption`,
`RegistryFaultsAssumption`, `LibraryAssumption`, `LogAssumption`, `SuggestionsAssumption`,
`CommandsAssumption`, `CompletionAssumption`, `ArchiveAssumption`, and for `World` `Keep`
positive, `Faults` among the six, `MaxFaults` a number, names distinct. The theorems about
`World` that hold for some faults only name them as a hypothesis.

Model-checked only:

* every liveness property (`OperationsEnd`, `DeleteFrees`, `CallsEnd`, `EndTold`,
  `PumpEnds`, `LoadingEnds`, `PendingEnds`): liveness under fairness is beyond the prover;
* the properties the code breaks (runs that expect a violation): there is nothing to
  prove.

Two kinds of steps needed care. Facts about sequences are lemmas of their own
(`Beginning`, `Joined`, `SamePath`, `Appended`), proved where nothing else is in sight; the
provers do not find them in a large context. And nothing is proved by induction over
data: where a definition reads like one, closed sets (`ReachedOn`) or pointwise statements
(`Exact`) take its place.

## 5. Not modelled, and what is known about it

* Contents of the volume while a server runs: a snapshot is whole or absent; one taken
  without a pause may be torn in reality.
* The roster: `roster_add` and `roster_remove` are a read and a write without a lock
  between them; of two at once one is lost.
* `MCD_SNAPSHOT_KEEP` of 0 or less, which `config.py` accepts and which deletes the
  snapshot a delete has just taken (`World` assumes `Keep` positive).
* A listing (`_records`) takes one step in `Registry`. Pages list without the
  service's lock, so one that is held up between reading the ConfigMaps and healing
  can write an old record over a new one; that takes as long as a whole installation.
  One that cannot read a release's values leaves the world out (finding at
  `service.py:383`).
* A crash of the dashboard during a promote: the hidden temporary file stays, and is
  overwritten by the next promote of that name.
* `set_whitelist` while a server boots: accepted if mode and admins stay the same, and
  applied at the next boot only; `Access` calls such a server behind.
* Validation of forms, version tables, memory and image choices of `render_values`,
  detection of versions, parsers, ranking of suggestions, RCON framing, rendering,
  audit lines, metrics: functions without state.
* The health probe of the chart shares the event loop with the two form handlers, which
  may wait for the service's lock while a helm command runs (up to 120 s).
* A deleted Job's pod is not followed; its claim stays `doomed` for a while, as in the
  cluster. Recorded messages and HTML are left out throughout.

## 6. What is left

Most consequential first: a listing in two steps in `Registry`; the roster beside the labels; `_derive` and
`defaults_for` as a view of `World`'s state (what the page says against what is true);
`unique_name`, `version_tuple`, `java_tag_for`, `jvm_memory` and `safe_relpath` as
operators checked against reference definitions.

# Formal models of rik's function runtime and workload API

This directory holds TLA+ models of three parts of rik, with TLC configurations and TLAPS proofs.

1. **The riklet's function runtime.** `FunctionRuntime::up` and `down` in
   `src/riklet/src/runtime/function_runtime.rs` boot and tear down one
   Firecracker microVM per instance. They drive a host network: an IP pool, a tap
   device, firewall rules.
2. **The riklet's rootfs cache.** `FunctionRuntimeManager::create_runtime`,
   `create_fs` and `download_image` in the same file download a workload's root
   file system into `/tmp/<name>/rootfs.ext4`, once per name.
3. **The controller's external API for workloads.** `Server::run` and its four
   worker threads (`src/controller/src/api/external/mod.rs`), `Router::handle`
   (`routes/mod.rs`), and the `get`, `create` and `delete` routes
   (`routes/workload.rs`). The routes write to the SQLite repository and send
   `CRUD::Delete` messages to the scheduler.

How they interact: the controller's delete route tells the scheduler, which
eventually makes a riklet call `down()`. The riklet's `create_runtime` builds the
runtime whose `up()` boots the VM. These links pass through the scheduler and gRPC,
which are not in the sources under study. The three models are therefore
independent, and each is checked and proved on its own.

`PROJECT.json` maps every definition that models code to its source lines.

## Modules

| Module | Models | State | Actions |
|---|---|---|---|
| `FunctionRuntime` | `up`, `down`, `generate_microvm_config`; the network and the allocator from spec 4.B; firepilot's `Machine` as environment outcomes | `pc` (the await each instance's task is at), `leased`, `lease`, `tap`, `rules`, `vm`, `machine`, `upResult`, `downResult` | `Up`, `UpInit` (init plus the config build), `UpCreate`, `UpPreboot`, `UpStart`, `Down`, `DownKill`, `DownDestroy`, and the environment's `Restart` (with `restarts`, `orphans`) |
| `RootfsCache` | `create_runtime`, `create_fs`, `download_image`, the error closure, agent crashes | `pc`, `name` per task; `dir`, `file` per name (none/partial/complete); `path` (the rootfs the runtime was built on); `crashes` | `CreateRuntime`, `Check`, `Mkdir`, `Download`, `CreateFile`, `WriteAll`, `RemoveDir` (inside the last three), `Crash` |
| `WorkloadApi` | `Server::run`, the worker loop, `Router::handle`, the three workload routes | `started`, `pc`/`arg`/`status` per worker, `rows`, `nextId`, `sent` (log of ids in Delete messages), `faults` | `Run`, `Recv` (with `ListWorkloads`), `CreateCheck`, `CreateInsert`, `DeleteFind`, `DeleteSend`, `DeleteRemove`, `Respond`, `Panic` |

### Granularity of a step

- **FunctionRuntime.** A step is one `.await` with the synchronous code around it,
  because tasks interleave only at awaits.
- **RootfsCache.** A step is one file-system call, or the whole HTTP transfer.
  Nothing in `create_fs` is serialised, so tasks interleave between these calls.
- **WorkloadApi.** A step is one repository statement or one channel send. The
  worker threads interleave freely, and each thread has its own connection.

### Errors and outcomes

Each `?` is a disjunct that returns, with the state changes that happened before
it. Each `unwrap` that can fail on these paths is a `Panic` that ends the thread.

An external call's outcome is a nondeterministic choice:
- firepilot may fail after spawning the process;
- `network.destroy()` is best-effort (spec 4.B): a failed rule removal or tap
  deletion is reported as an error, the remaining steps still run, and the subnet
  is released;
- `check_duplicate_name` may fail; any `Err` of it lets `create` go on to insert;
- `find_one` may fail; any `Err` of it is answered 404;
- a start may time out after the guest booted;
- preboot may fail with only some of the rules installed;
- `write_all` may fail leaving part of the file;
- `remove_dir_all` may fail and panic.

### Agent restarts

`FunctionRuntime!Restart` is an agent crash and restart, at most `MaxRestarts`
times. Every runtime and the allocator's in-memory state go back to their initial
values. The subnets still held then go into `orphans`: their taps and rules stay on
the host, because the sources have no orphan sweep (spec 6, S6). The per-instance
variables describe the runtimes of the current agent, which start from
`create_runtime` again, so they start afresh; of the old runtimes the model keeps
only the subnets they were wired for, in `orphans`. `orphans` is ghost state for
the run that shows the consequence. No action reads it. The agent's process
lifecycle is not under `src/`, so `Restart` (and `RootfsCache!Crash`) are
modelled from spec 6.

### Abstracted data

- Image bytes: none, partial or complete.
- Names: model values.
- JSON bodies: the request each one parses to.
- Log messages: left out.

## Runs

| Run | Configuration | Expect | What it shows |
|---|---|---|---|
| runtime_safety | `MCFunctionRuntime.cfg`: 3 instances, 2 subnets, 1 restart | pass | `PoolAccounting`, `SubnetExclusive` and `WiredBeforeRunning` hold through every error path and `destroy` failure (about 62k states under symmetry) |
| runtime_error_leaks | `ErrorReturnReleases` | violation | a failed `up()` leaks its lease, tap, rules or process, and a kill error in `down()` skips `network.destroy()` |
| runtime_machine_state | `MachineIffRunning` | violation | `machine` is never reset after kill; a timed-out start leaves a guest running with `machine = None` |
| runtime_orphan_subnet | `OrphanSubnetFree` | violation | after a restart, a subnet still wired for a dead instance is leased again |
| cache_ownership | `MCRootfsCache.cfg`: 3 tasks, 2 names, 1 crash | pass | `DownloadOwnership` and `CompleteFileStable` hold |
| cache_partial_read | `RuntimeRootfsComplete` | violation | a concurrent `exists()` check sees the file between `File::create` and `write_all` |
| cache_orphan_dir | `NoOrphanDir` | violation | a panicking `remove_dir_all` leaves a directory that blocks the name forever (an agent crash mid-download does the same) |
| api_deletions_notified | `MCWorkloadApi.cfg`: 2 workers, 2 names, ids ≤ 2, 1 panic | pass | `DeletionNotified` holds (about 183k states) |
| api_name_race | `NameUnique` | violation | `create` takes any `Err` of `check_duplicate_name` for a free name, and check and insert are two statements: a failing check, or two creates interleaving, store the name twice |
| api_startup_delete | `NotifiedNotStored` | violation | the startup `Delete` of workload 1 contradicts the first workload created |
| api_workers_die | `ServerKeepsServing` | violation | panics on the `unwrap`s kill workers, and none is respawned. The unwraps are on the body read, on the send, on `delete` and on `respond`; TLC's trace has both workers panic reading a request body. |

### Why the bounds are enough

- **Three instances over two subnets.** The pool runs out while leases are held,
  and one instance can be inside its up while another is in down.
- **Three tasks over two names.** Two tasks can race on one name while a third
  uses the other.
- **One crash.** It interrupts a download.
- **One agent restart.** It can hit any runtime at any await, with leases held,
  and the pool is then reused.
- **Two workers, two ids and one panic.** Two deletes or two creates can
  interleave, an id can be reused after the startup `Delete`, and a panic can
  land between the send and the delete.

Each violation run finds its trace in fewer than 10 steps.

### Symmetry

- Every run checks safety only (invariants, and the action property
  `CompleteFileStable`), so symmetry is sound in all of them.
- The runtime runs use symmetry over instances and subnets, the cache runs over
  tasks and names, and the API runs over workers.

### Mutants

Each property of a passing run is broken by a plausible bug, kept in the modules
as a named operator:

| Mutant | Breaks |
|---|---|
| an allocator that leases "no subnet" | `TypeOK` |
| `destroy` that keeps the lease | `PoolAccounting` |
| a reserve that ignores the leased set | `SubnetExclusive` |
| a skipped preboot | `WiredBeforeRunning` |
| `create_dir_all` instead of `create_dir` | `DownloadOwnership` and `CompleteFileStable` |
| a delete that forgets the notification | `DeletionNotified` |

## Fairness and liveness

No run assumes fairness and no liveness property is checked. Nothing under `src/`
bounds the awaited firepilot and network calls, the file-system calls or the
repository statements with a timeout, so no fairness on their completion is
justified by the code; the runs check safety only.

## Proofs (TLAPS)

| Module | Theorem | Statement |
|---|---|---|
| `FunctionRuntimeProofs` | `RuntimeSafety` | `Spec => [](LeaseInv /\ WiredBeforeRunning)`, where `LeaseInv` is `PoolAccounting /\ SubnetExclusive` |
| `FunctionRuntimeProofs` | `PoolAccountingHolds`, `SubnetExclusiveHolds` | each of these invariants, as `Spec => []P` |
| `FunctionRuntimeProofs` | `TypeCorrect` | `Spec => []TypeOK` |
| `RootfsCacheProofs` | `TypeCorrect` | `Spec => []TypeOK` |
| `RootfsCacheProofs` | `OwnershipHolds` | `Spec => []DownloadOwnership` |
| `RootfsCacheProofs` | `CompleteFileStableHolds` | `Spec => CompleteFileStable`, an action property |
| `WorkloadApiProofs` | `TypeCorrect` | `Spec => []TypeOK` |
| `WorkloadApiProofs` | `DeletionsNotified` | `Spec => []DeletionNotified` |

All of them hold for every value of the constants allowed by the `ASSUME`s: finite
non-empty instance, task and worker sets; a no-subnet/no-name value outside the
pool/names; `MaxId ≥ 1`; natural `MaxCrashes`, `MaxRestarts` and `MaxFaults`.

Each theorem follows one pattern. An inductive invariant `IInv` is checked by TLC
first, then three facts are proved: `Init => IInv`, `IInv /\ [Next]_vars => IInv'`
(one step per action), and `IInv => property`.

### `RuntimeSafety`

`WiredBeforeRunning` alone is not inductive: `UpStart` boots the guest, and
nothing in that state says the rules are in place. `PhaseInv` says, per instance:

- which resources exist at each await of `up()`: a lease and a tap from create
  on, rules at start;
- that `down()` phases only follow a successful `up()`;
- that `destroy` follows a kill.

`IInv == TypeOK /\ LeaseInv /\ PhaseInv /\ WiredBeforeRunning`. `DownDestroy`
keeps `LeaseInv` on both of its outcomes, because it releases the subnet even
when a rule or tap removal fails. `Restart` preserves `IInv` trivially: every
instance goes back to its initial state and the leased set is emptied.

### `OwnershipHolds`

`IInv == TypeOK /\ DownloadOwnership`. The argument:

- a task passes `Mkdir` only when the directory is absent, and then no other task
  owns the name;
- only the owner's `RemoveDir` removes it, shown by lemma `RemoveDirOwnership`;
- a crash sends every task back to idle.

### `CompleteFileStableHolds`

`CompleteFileStable` says that no step takes a complete rootfs away. It needs two
facts beyond `IInv`:
- `FileInDir`: a file that is not "none" sits in an existing directory;
- `CompleteUnowned`: no task is inside download_image for a name whose file is
  complete.

`CacheInv == IInv /\ FileInDir /\ CompleteUnowned`, checked by TLC before it was
proved. The argument:
- `Mkdir` succeeds only on an absent directory, so by `FileInDir` the file is
  "none";
- the writer that completes a file leaves download_image in the same step, and
  `DownloadOwnership` says no other task owned that name;
- the only steps that change a file, `CreateFile` and the clean-up closure
  (lemma `RemoveDirCache`), act on their owner's name, whose file is therefore not
  complete.

Lemma `NextCacheInv` proves, per action, both that `CacheInv` is kept and that
complete files stay complete. The theorem closes by PTL.

### `DeletionsNotified`

- `ArgTyped` says what a worker's argument is at each point.
- `SentBeforeRemove` says that a worker about to delete has already sent that id,
  since `Notified` grows only.
- Lemma `AppendNotified`: appending to the log adds exactly its element.

### Only model-checked

- `NameUnique`, `NotifiedNotStored`, `ServerKeepsServing`, `ErrorReturnReleases`,
  `MachineIffRunning`, `OrphanSubnetFree`, `RuntimeRootfsComplete` and
  `NoOrphanDir` do not hold of the code; TLC's traces are the result.
- No liveness is stated (see Fairness). TLAPS would not handle it either.

## Not modelled

- **The instance and tenant routes.** Their modules are outside the sources
  studied.
- **`listen_notification` and the logger.** They only print.
- **`Router::new`.** It builds a constant table.
- **The internals of `FunctionRuntimeNetwork` and the allocator.** Their code is
  not under `src/`. They are modelled from spec 4.B only as far as `up`/`down`
  observe them.
- **The agent's orphan sweep after a restart (spec 6).** It is not in the
  sources. The restart itself is modelled, and runtime_orphan_subnet shows what
  the missing sweep leads to.
- **`RikRepository`.** Its SQL is not available. Each of its calls is one atomic
  statement, which is what the routes assume.
- **The `into_string().unwrap()` on the kernel path in `generate_microvm_config`.**
  `kernel_location` is agent configuration fixed at startup, the same for every
  instance, so it either never fails or panics every `up()`. It does not depend on
  the state or on an interleaving.

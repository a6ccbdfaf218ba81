# Verification of runwasi

runwasi lets containerd run WebAssembly: a shim process serves containerd's task
API, and each task is a process that runs a wasm module in one of four engines.
This directory has TLA+ models of the parts of the shim where concurrency, faults or
cleanup are hard to test, TLC configurations that check them on small instances, and
TLAPS proofs for every size. All paths below are relative to the repository's
`crates/`; `PROJECT.json` maps each definition to the lines it models.

## The parts and how they interact

containerd sends `create`, `start`, `kill`, `wait`, `delete`, `state` and `shutdown`
to the shim. Handlers run concurrently in `Local` (`sandbox/shim/local.rs`), which
keeps an `InstanceData` per container id. That guards a `TaskState` with a lock and
calls the `Instance`, whose exit code is a `WaitableCell`: filled once by the thread
that reaps the container's process, read by every `wait`. While a container is
created, `load_modules` fetches the image's layers from containerd's content store and
replaces them by compiled ones, which all shims of the host share. The container's
process asks the `Executor` what to run, and the engine runs it; under wasmtime that may
be an HTTP server. The stress test tool is a client that drives many tasks at once.

| module | code | kind |
|---|---|---|
| `AtomicCell` | the promise of `WaitableCell` | abstract specification |
| `WaitableCell` | `sandbox/sync.rs` | implements `AtomicCell` |
| `TaskLifecycle` | the call order of the `Instance` trait, `sandbox/instance.rs` | abstract specification |
| `TaskService` | `sandbox/shim/{local,instance_data,task_state,events,cli}.rs`, `sys/unix/container/{instance,container}.rs` | implements `TaskLifecycle`, uses the cell as `AtomicCell` describes |
| `PrecompileCache` | `load_modules` and what it calls, `sandbox/containerd/{client,lease}.rs` | composition of loads, engines, containerd |
| `SaveContent` | the chunked write of `save_content`, one step of `PrecompileCache` | |
| `Executor` | `sys/unix/container/executor.rs`, `container/{context,path,engine}.rs`, `run_wasi` of the four engines | |
| `HttpProxy` | `containerd-shim-wasmtime/src/http_proxy.rs`, the signals of its `instance.rs` | |
| `StressTest` | `stress-test/src` | a client of `TaskLifecycle` |

`MC*.tla` instantiate these for TLC. `*_proofs` and `TaskService_safety` hold the
proofs.

Operators called `Name_something`, placed before `Name`, are plausible bugs of the code
that `Name` models (a dropped guard, a lost step). Each property of each passing run is
violated when one of them takes the place of the original; `PROJECT.json` says which.

## How state and actions correspond to the code

**WaitableCell.** A mutex, a condition variable (`waiters`) and a once-cell. Each
operation is a call (`CallSet`, `CallRead`), then steps: lock, touch the cell, notify or
block, unlock. Dropping a `WaitableCellSetGuard` is a set. Spurious wakeups and timeouts happen at
any time. Poisoning is left out: no code panics with the mutex held.

**TaskService.** A thread is a ttrpc handler; `pc` says where it is. A step is what the
handler does between two accesses to something others can change: the instance map, the
`TaskState`, the pid, the exit code, the container, the event stream. The write lock
that `InstanceData` holds across a call into the instance is `lock`. Each failure
return of the code is an alternative of its action: hooks, `Instance::new`, fork, kill,
`waitid`, delete. If `Instance::start` panics because no thread can be spawned, the shim
aborts (`panic = "abort"` of the release profile; in a build that unwinds, the lock would
be poisoned and the shim go on). The reaper thread of `Instance::start` and the waiter
thread of `task_start` are actors of their own. `send` only logs an error of the
publisher, so an event may be lost: `Losable` says which ones a run lets go. `events` are
those that arrive; `hist`, `reported` and `shown` record history for the properties.

**PrecompileCache.** A step of a load is one request to containerd and what follows
until the next. Loads run in several shims, of one engine or several versions. External:
the content store, labels, leases, and a collector that may run at any time and keeps what images
and leases reach through `gc.ref` labels. `Faults` chooses failing requests, crashes of
a shim, engine errors, and the removal and new pull of an image. A dropped `LeaseGuard`
releases its lease later, in a task of its own: at any time, never, or, with `"late"` in
`Faults`, after the lease has expired, when it deletes whatever lease has its id then.

**SaveContent.** Stat, chunks from the offset that the store names, commit, validation.
Sizes are numbers; contents are told apart, and an upload remembers whose bytes it has.
A crash may fall between any two requests and within a chunk, and the store may drop
uploads and content.

**Executor.** One `validate` and one `exec`, for every first argument (missing, empty, a bare
name, a path, with a function after `#`), every placement of files, and every list
of layers. A file is its magic bytes and its executable bit. What a binary exports and what
its guest does is chosen freely; how the engine turns that into an exit code is the code's.
The status of a process that panics, 101 or the number of SIGABRT, is the Rust runtime's
and taken as given.

**HttpProxy.** One task selects between the server and the signals; every connection
and every guest call has a task. A step lies between two awaits. `tokens` are those of
the `TaskTracker`, one for each task that was spawned on it; they are all that the server
waits for before it exits. The model begins when
the signal streams exist; `status` is the exit code of the process.

**StressTest.** One tokio task polls all futures, so steps lie between awaits; a drop
blocks that thread (`busy`). The service keeps tasks as `TaskLifecycle` says, by
`INSTANCE`. Without containerd, `delete` spawns a blocking task that unmounts the task's
files (`unmount`), does not wait for it and never learns how it ends.
Requests may fail, fail after having been carried out, or arrive after their future
was dropped (`late`). Timeout and Ctrl-C come at any time.

## The runs

| run | instance | what it checks |
|---|---|---|
| `cell` | one thread that sets repeatedly, two that read in all three ways, two values | the cell is touched only under the mutex; `wait` never returns empty; the cell implements `AtomicCell` with its liveness (so one value for all, and timed waits end); no reader misses a notification |
| `task_lifecycle` | three RPCs at once, one instance | transitions whose results are ignored succeed; one exit code for everyone; of the events that arrive, exit follows start; the status told by `state` never falls behind what was told before; stopped tasks stay stopped |
| `task_reuse` | three RPCs at once, two instances under one id | after its `TaskDelete` a task cannot be found |
| `task_live` | two RPCs at once, fairness | no running container is deleted by force; a stopped task can always be deleted; exits are handed to the publisher; waits and other RPCs return; the service implements `TaskLifecycle` |
| `task_create_race` | two creates of one id | finding 1, violated |
| `cache_one_engine` | two loads, one engine, two layers, requests, crashes and engine errors | saved content is not collected before the lease goes; labels do not dangle; a load does not keep its lease |
| `cache_two_engines` | two loads of two engines, image removed and pulled again, crashes and late releases | every load gets its own engine's modules; collected content is replaced by the original, not by an error |
| `cache_kept_doc` | two engines, one layer | finding 2, violated |
| `save_content` | contents of none, less than one, one, more than one and several chunks, and two of equal size | what is reported as saved is there; an upload cut off can be completed; saves return |
| `http` | two connections, two requests | exit 0 cuts nothing off; requests end with their guests; graceful shutdown ends once connections and guests have; signals are answered, those that come in together as one |
| `executor` | four engines, one PATH directory and the working directory, up to two layers and two exports | the verdict of `validate` stays; the wasm file that was checked is the one that runs, where the name leads to one file; exit code 0 is never made up, except as described below |
| `stress` | two tasks and the pause task, one permit, two faults, both modes | parallelism and set-up barrier; nothing is left without a last attempt at deleting it; success means clean but for mounts; the shim outlives its tasks; no process is left; the tool ends |

*Why the bounds are enough.* The races found in reading the code are between two actors;
three handlers give each pair a bystander. Two instances under one id are a task and
its successor. Two layers make position and order in `load_modules` matter, one lease per
engine makes two loads compete. `ChunkSize` 3 with six sizes has every remainder. Two
requests let one be answered while another is cut off. One permit with two tasks makes
the semaphore block, and two faults let the clean-up of a failure fail as well. Where a
property is proved too (below), the bound does not matter.

*Symmetry* is used only in the runs `task_lifecycle` and `task_reuse`, over threads and
instances, whose specification has no fairness.

*Deadlock* is checked for the cell, the cache and the upload. The shim may be idle for
ever or has exited, and the HTTP server, the container's process and the stress test
tool end, so these runs say `CHECK_DEADLOCK FALSE`; what must not hang there is stated
as a liveness property.

*Fairness.* Threads and futures that can go on do: weak fairness of their steps. Locks
do not starve: strong fairness of taking a lock (`Lock`, `LockStep`, `WaiterMark`), as
futex-based locks give in practice. Not assumed: that clients call, that processes exit, that
guests answer, that requests come, that signals are sent. Timeouts do fire. `PrecompileCache` assumes that containerd expires a lease after the
24 hours it was given, and `StressTest` that the service answers, with an error if need be.

## What is proved

For every value of the constants, from the named assumptions of each module (which say
only that special values are distinct from ordinary ones, that sizes and codes are naturals,
that tables and lists have the elements they should, that `ChunkSize` is positive, and that
the stress test has tasks, finitely many):

- `WaitableCell_proofs`: type correctness, `AccessGuarded`, `WaitReturnsValue`,
  `OneValue`, `SetOnce`, and `SafeSpec => Atomic!SafeSpec`. The strengthening is
  `Control`: where a thread is says whether it is inside an operation and may be woken.
- `TaskService_proofs`, `TaskService_safety`:
  `Inv == TypeOK /\ HasObj /\ InnerTransitionsOk /\ CodesAgree /\ History`. `HasObj`
  says that a handler past its lookup holds an instance. `CodesAgree` says that every code read,
  reported or sent is the one in the cell. `History` relates the task state, the lock,
  the process and the reaper to what has happened; without it a kill could meet a
  container that was never started. From it follow `CallDiscipline`, `NeverDeletesRunning`,
  `OneVerdict`, `NoResurrection`, and the refinement
  `SafeSpec => ImplementsLifecycle`, in which every step is one of `TaskLifecycle` or a
  stutter. The refinement mapping does not look at `TaskState`: it reads the container, the
  reaper thread and the exit code, so that the refinement says that the state machine and
  its lock keep these in order.
  Three further invariants rest on `Inv`. `Owned` says that a task in `Deleting` has a
  handler that will take it out; it gives `WaitedMeansStopped`. `Seen` says that a pid or an
  exit code which someone was told is still there, and that a handler which reads later reads
  no less; it gives `StatusMonotone`. `Ledger` ties the instance map and the event stream to the
  handlers: an instance is registered by one thread under one id and launched by one
  thread, its waiter exists only after `TaskStart`, and only the waiter publishes
  `TaskExit`. It gives `ExitAfterStart` and `DeletedUnregistered`, both also when creates
  of one id race (finding 1).
- `PrecompileCache_proofs`: type correctness; `SavedStays`, from
  `LeaseInv` (a load that saves, or whose guard is still to be released, owns its engine's
  lease, which protects what it wrote; this needs that no release runs after its lease has
  expired, `"late" \notin Faults`); `RightModule`, from `RightInv` on the labels of
  layers and those a load has read; `KeptWithImage` for a single engine, under the same assumption, from `Referenced`
  (the compiled content named by a layer's label is there, and a `gc.ref` keeps it);
  `LoadSucceeds` where requests and compilation do not fail (`"rpc"` and `"engine"` are not
  in `Faults`; crashes, removals and late releases may be), from `Whole` (containerd has the manifest and
  all layers of every image that it has, whatever is collected).
- `SaveContent_proofs`: type correctness, `SavedIsData`, `NoGap` (chunks meet), and
  `OwnUploadCommits`, from `Resumable`: an upload with the bytes of one
  content only is not longer than it.
- `HttpProxy_proofs`: type correctness and `GracefulExitDrained`, with `HasReq` (a
  task inside `handle_request` has a request), `TokensCount` (whoever has a connection open or
  runs a guest holds a token, so that no token left means that nothing is left) and
  `StopAsked` (the accept loop ends only when it is cancelled).
- `Executor_proofs`: `VerdictKept`, `CheckedFileRuns` and `CodeIsTrue`,
  for any PATH, files, layers, binaries and guest codes. The invariant says that what was
  decided is what would be decided again as long as no file has changed, and that a
  process which has ended did so in one of the ways in which its engine can end it; each way
  is shown to tell the truth. `LongPath` and `FoundInCwd` say that the search of a path of
  several components, and of a bare name that no other directory of PATH has, comes to the
  file that `can_handle` opens.
- `StressTest_proofs`: `ParallelLimit`, `SetupFirst`, `DeleteHonest`, `NothingForgotten`,
  `SuccessIsClean`, `ShimKept` and `NoProcessLeft`, for any finite set of tasks, any
  `--parallel` and any number of faults. The invariant has seven parts beside the types:
  `Phases` (where the futures are while `main` is at a place, and which drop blocks the
  thread), `Fate` (what the place of a future says of its last request and of the task the
  service has), `Honest` (what an answer, a mark or a result says), `Mounts` (only a create
  that comes in after the unmount can leave a mount, and then the task is never deleted),
  `Barrier` (no more
  arrivals are counted than tasks that are set up, and main), `Slots` (permits and their
  holders add up) and `Success`. `Fate` has to speak of requests that arrive after their
  future was dropped: without it a late create could bring up a task after a drop that had
  found nothing to delete.

Type correctness, `OneValue`, `SetOnce`, `CallDiscipline` and `NoGap` are proved and are
not among the properties of the runs, which they would only repeat.

*Only model-checked:* every liveness property (the prover has no fairness and no
`ENABLED`): `WaitersWake`, `ExitAnnounced`, `WaitsReturn`, `RpcsReturn`, `LeaseFreed`,
`SaveReturns`, `RequestsFinish`, `GracefulEnds`, `SignalsHeeded` and `Ends`, and the
liveness part of `ImplementsAtomicCell`. Every invariant and every action property of a
passing run is proved, `SavedStays`, `KeptWithImage` and `LoadSucceeds` under the hypotheses
above, without which they are false.

## Findings

1. *Two creates of one id succeed* (`task_create_race`). `task_create` looks for the id,
   releases the lock, builds the container, and inserts without looking again
   (`local.rs:112`, `155-158`). The tests expect `AlreadyExists`. No RPC can reach the
   container that was replaced.
2. *Compiled content does not stay with its image* (`cache_kept_doc`). The `gc.ref` label
   is named by position only (`client.rs:482`), so a second engine or version overwrites
   it. `docs/oci-decision-flow.md:33` says that the content stays until the image is removed.

## Observations

Met while modelling; the models have this behaviour, and no document claims otherwise.

- A `wait` on a task that is deleted before it was started never returns; `WaitsReturn`
  speaks of started tasks. A failing hook leaves the task registered.
- `shutdown` looks whether there are instances and signals afterwards; a create between the two
  gives a task that goes with the shim.
- If the waiter thread of `task_start` cannot be spawned, the exit is never published.
  An event that the publisher cannot send is lost for good, after a warning.
- After a start that failed, `wait` answers 137, but `state` goes on to say CREATED, since
  there is no pid (`local.rs:298`). `StatusMonotone` excepts this.
- `delete` removes whatever the map has under the id. When creates and deletes of one
  id overlap, a delete may remove the entry of a task that nobody has deleted.
- The image is marked as precompiled with its first layer. A crash before the others are
  saved leaves them uncompiled for good; loads then use the originals.
- A release spawned by a dropped `LeaseGuard` waits for the next `block_on` of its thread.
  If that comes after the lease has expired, it deletes by id the lease that another load has
  meanwhile, and the content which that load saves can be collected (`SavedStays` fails with
  `"late"` in `Faults`).
- `Instance::new` takes an error of `load_modules` as "no layers", with a warning.
- wasmtime's `precompile` skips layers that are not compilable and then returns fewer results
  than layers.
- `can_handle` and `as_bytes` look for a bare name in different places: the first opens it
  in the working directory, the second reads the first file in PATH. `CheckedFileRuns`
  states where they agree. It leaves out text modules, which not every engine accepts.
- wamr does not ask for the guest's exit code; wasmer panics when there are no arguments; exit
  codes lose all but 8 bits, so that a guest that exits with 256 has succeeded. `CodeIsTrue`
  allows exactly this.
- SIGQUIT counts as SIGINT. `wait_for_signal` makes new streams for the second signal,
  after which the raw number, 2 or 15, is the exit code. A SIGTERM that came in together with
  the SIGINT that was taken is lost with the old streams. The first SIGINT of a component
  that is not an HTTP proxy has no effect.
- A graceful shutdown waits for clients that keep an idle connection open, for as long as
  they do: connections are not told of the cancellation.
- `handle_request` expects an error from a guest that did not answer; one that drops its
  response-outparam and returns without error makes `expect_err` panic
  (`http_proxy.rs:221-231`).
- In the stress test tool a task that fails in set-up never comes to the barrier; the
  watchdog is not armed before the barrier opens, so that only Ctrl-C helps, and `Ends`
  excepts this case. The watchdog starts anew with every turn of the loop; the
  model assumes at least one task and a timeout. A create that the service carries out
  after the drop has asked for a delete leaves the task with containerd. Errors of the
  unmount are dropped, and success may be reported before it has run.

## Not modelled

- `sandbox/oci.rs`, `sandbox/instance_utils.rs`, `sandbox/cli.rs`, `sandbox/error.rs`,
  metrics: sequential reading, parsing or conversion without state between calls. That
  hooks may fail is part of `TaskService`.
- `sandbox/async_utils.rs`, `sandbox/shim/otel.rs`: runtime and tracing set-up. The
  models take a blocking call as a step of its thread.
- `sys/windows`: bodies are `todo!()` or empty.
- `oci-tar-builder`: a sequential transformation of data into a tar file.
- youki, the zygote process, hyper, tokio, the engines' libraries and containerd are
  external: they do what the code here relies on, or fail.
- Starting and cleaning up the shim's own process, which the containerd-shim crate does.
- Test support, test modules and benches.

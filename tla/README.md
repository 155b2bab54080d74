# A verification project for the Kimina Lean server

The Kimina Lean server checks Lean 4 code over HTTP. In *exec* mode it also keeps
proof states: a client creates states from code, steps them with tactics in
batches, cancels and cleans up what it no longer needs. The Python package
`lean_client` batches the steps of many searches into such requests. Everything
in the server runs on one asyncio event loop and talks to Lean processes over
pipes; what is hard about it is what happens between two `await`s.

This directory holds TLA+ modules translated from that code, TLC configurations
that check them on small instances, and theorems checked by TLAPS.

## Inventory

| Component | State | Operations | Talks to |
|---|---|---|---|
| request admission (`exec_request_limiter.py`) | counters `_in_flight`, `_queued`; a condition | `slot()` = `acquire` / `release`, `stats` | wraps create_states, step_batch, verify |
| item lifecycle registry (`exec_lifecycle.py`) | a record per item: status, operations in flight, expiry | `begin`, `finish`, `cancel`, `cleanup_decision`, `mark_cleaned`, `should_cancel`, `sweep_terminal`, `stats` | synchronous, called by the routes |
| exec routes and lanes (`routers/exec.py`, `exec_backends.py`, `exec_backend_utils.py`) | local to a request: begun items, pinned tokens, leases, result slots | create_states, step_batch, verify, cancel, cleanup, stats, limits | registry, store, pool, limiter |
| state store (`state_store.py`) | index of tokens, owners, pins; a `.bin` and a `.json` file for each token | `put`, `resolve(_and_pin)`, `unpin`, `create_child`, deletion, `gc_expired`, rehydration | routes, GC task, disk |
| worker pool (`pantograph_manager.py`) | `_free`, `_busy`, `_starting` (also per profile); a condition | `get_worker`, `release_worker`, `destroy_worker`, `cleanup`, `stats` | routes, worker processes |
| worker process (`pantograph_worker.py`) | one Lean process, its pipes and timeout | create, step, verify, gc, close | pool, lanes |
| single-process lock (`single_process_lock.py`) | a locked file | `acquire`, `release` | lifespan, store directory |
| REPL pool and check route (`manager.py`, `repl.py`, `routers/check.py`) | `_free`, `_busy`; a condition; a header response per REPL | `get_repl`, `prep`, `release_repl`, `destroy_repl`, `cleanup` | database, REPL processes |
| client batcher (`exec_env.py`) | queue, timer task, send tasks, item locks, semaphore | `submit_step`, `flush`, `close`, retry on overload | HTTP client |
| client journal (`exec_journal.py`, `step_batch_resumable`) | a JSON file of microbatch records | `get`, `put`, resume | HTTP client |
| lifespan (`main.py`) | start-up and shutdown order | | all of the above |
| snippet splitting (`split.py`), offsets in `check.py` and `exec.py` | none | `split_snippet`, moving positions back | check and exec routes |
| messages of a worker (`pantograph_normalize.py`, verdict of `verify`) | none | exception to messages, axioms to a verdict | worker process |
| infotree and proof utilities (`infotree.py`, `proof_utils.py`) | none | infotree to tactics, reading of an answer | users of the client |
| sync and async clients (`sync_client.py`, `async_client.py`) | a session | batched `check`, exec calls with retries | HTTP |
| configuration (`settings.py`, `exec_server_config.py`, `_exec_server_cli.py`, the client's `exec_server.py`) | none after start | defaults, validation, command line, environment, launcher | lifespan, clients |

The rest (auth, health, logging, metrics, plain schemas, the database row per
proof) keeps no shared state or is pure I/O; PROJECT.json lists each part with its
status, and every hazard at its line.

What is hard: a slot or worker that becomes free while its waiter is cancelled,
times out or is overtaken; a cancel or cleanup between two awaits of an
operation; a lane that fails while its siblings go on; cleanup that must never
report success while a state remains; limits that are tested in one step and
used in a later one; crashes between two writes of the store or of the journal.

What makes each component correct:

- *admission*: the counters are exact, bounds are kept, no wake-up is lost;
- *registry*: `in_flight` equals the open operations, a cancelled item drains and refuses work until its retention ends;
- *routes*: brackets and pins balance on every path, a cancelled item gets no state, a cleaned item has none, the parent of a step stays;
- *store*: pinned states stay, tokens survive a restart, space is bounded;
- *pools*: caps hold, a process belongs to one client at a time, none is lost, nobody waits for what is free;
- *lock*: at most one server owns a store directory;
- *batcher and journal*: every caller is answered, once, and nothing is sent twice after a resume;
- *worker process*: every saved state is in the store or unlinked, every item is answered, every worker is given back;
- *computations*: tactics lose no text and no goal, positions come back to the lines the user wrote, no error is silent, a verdict follows from what Lean reported, answers go to the snippets they are about;
- *configuration*: a launched server has the caps its launcher was given.

## Modules

| Module | Models | Role |
|---|---|---|
| `BoundedAdmission` | what the limiter promises | abstract specification |
| `ExecRequestLimiter` | `exec_request_limiter.py` | implements `BoundedAdmission` |
| `ExecRequestLimiterProofs` | | theorems about it |
| `ExecIds` | names shared by the exec modules | |
| `LifecycleRegistry` | `exec_lifecycle.py`, as operators on a registry value | used by the next two |
| `ItemLifecycle` | the registry under any lawful caller | abstract specification of the routes' use of it |
| `ItemLifecycleProofs` | | theorems about it |
| `TokenStore` | `state_store.py` in memory, as operators | used by `ExecItems` |
| `ExecItems` | routes, lanes and garbage collection over registry and store | implements `ItemLifecycle` |
| `ExecItemsProofs` | | theorems about it |
| `PantographManager` | `pantograph_manager.py` and `return_worker` | |
| `PantographManagerProofs` | | theorems about it |
| `DurableStates` | what the store promises of states, without files | abstract specification |
| `StateFiles` | `state_store.py` on disk, with kills and restarts | implements `DurableStates` |
| `StateFilesProofs` | | theorems about it |
| `ServerLifespan` | `single_process_lock.py` and the lifespan of `main.py` | |
| `PantographWorker` | `pantograph_worker.py` under one create, verify or lane task | |
| `PantographWorkerProofs` | | theorems about it |
| `ReplManager` | `manager.py`, `repl.py` and `run_checks` of `check.py` | |
| `ReplManagerProofs` | | theorems about it |
| `StepBatcher` | `AsyncLeanExecBatcher` and the client's retries | |
| `MicrobatchJournal` | `step_batch_resumable` and `exec_journal.py` | |
| `Snippets`, `InfoTree`, `PantographMessages`, `ProofVerdict`, `CheckClient`, `ServerConfig` | computations without state, as operators | used by `Algorithms` |
| `Optional` | None, where a message or a configuration has nothing | used by `ProofVerdict`, `PantographMessages` and `ServerConfig` |
| `Algorithms` | asks each of them its questions | |
| `ClientProofs` | | theorems about `StepBatcher`, `MicrobatchJournal` and `Algorithms` |
| `MC*` | | instances for TLC |

### Actions and atomicity

An action is the code one task runs between two awaits: nothing else can run in
between on one event loop. `async with self._condition` is not an await that
matters: no critical section of the limiter or the pool awaits anything but
`Condition.wait()`, so the lock is free whenever a task asks for it.

`Condition` is modelled as the project's Python (3.13) implements it: `notify(n)`
completes the futures of the first `n` pending waiters; a task whose future is
complete runs later and meanwhile counts as `"notified"`; an exception that
passes through `wait()` hands one notification on.

### ExecRequestLimiter

`in_flight` and `queued` are the two counters, `waiters` the condition's list,
`pc[t]` the place of task `t` in `slot()`. `AcquireFree`, `Reject` and `Enqueue`
are the three ways through the start of `acquire`; `Wake` is one turn of its
`while` loop; `CancelQueued` marks a waiting or notified task as cancelled and
`Unwind` is its `except BaseException`, with the two notifications (one from
`wait()`, one from the handler); `Release` is the `finally` of `slot()`.
A newcomer takes a free slot ahead of notified waiters: the code lets it.

### LifecycleRegistry, ItemLifecycle

The registry's methods are operators from registry to registry, because a caller
makes several calls in one slice (a batch begins all its items before its first
await). `Begun` and `Finished` take a count of calls for each item.
The clock is reduced to what the registry asks of it: `expiry` is `"never"`,
`"armed"` (a retention is running) or `"due"` (it has run out; the record stays
until something sweeps it, and `should_cancel` does not sweep).
`ItemLifecycle` closes the registry with callers that finish only what they
began.

### TokenStore, ExecItems

`owner`, `issued` and `pins` are the store's index; sizes, times and files are in
`StateFiles`, so here `CollectGarbage` may take any unpinned tokens. Tokens are 24
random bytes in the code and never repeat in the model.

`create[c]` follows one `create_one()`; `verify_one()` has the same control and
registers nothing, so it is a create that returns no states. `batch[b]` and
`slot[b][s]` follow a step_batch request: `BatchBegin` is the whole loop before
the `try` (resolve, pin, begin, or skip), the `Slot*` actions are a lane's loop,
`BatchReturns` the normal end with the `finally`, `BatchUnwinds` the `finally`
after `gather` raised. `gather` does not cancel siblings, so their lanes go on
as `"orphans"`. `BatchAborts` is the loop ended by an `OSError` of `resolve()`,
before the `try`. The pool is left open: it grants, times out or raises.

The lanes are split more finely than the event loop splits them where the code
has no await (the look at cancel before `get_worker`); this only adds
interleavings. A batch over the caps is rejected before anything changes and has
no action. `delete_by_item_id_all_or_none` can defer a cleanup because of a pin
only for an item with nothing in flight; every pin has its bracket, so
`BracketsExact` shows that answer is never given by cleanup.

Cancellation of the handler task itself (client disconnect, shutdown) is modelled
in `PantographWorker`, within one task. The request limiter in front only bounds
how many operations run at once, as the sets `Creates` and `Batches` do.

### PantographManager

A worker is an id with the key (profile, header) it was started for, its
`use_count` and the life of its process; `free` keeps the order of release, which
is the order of `last_used_at`. `TryLease` is one turn of `get_worker`'s loop
(reuse, start, evict, wait or give up), `Evicted`, `Started` and `StartFails` the
code after the loop, `Release*`, `Destroy` and `Closed` the way back through
`return_worker`, `Cleanup` the shutdown. Closing a process takes time, during
which other tasks run. Worker ids bound how many processes exist at once.

Not modelled: an exception from closing an evicted worker and cancellation inside
`get_worker`; either leaks a reservation (see the hazards).

### StateFiles, DurableStates

The store's methods await nothing, so each is one action and only a kill can come
between two of its file operations. `records` and `pins` are the index in memory,
`bin` and `side` the two files of a token, `torn` the sidecars a kill cut short,
`scratch` the `pg_*.bin` files of workers in the same directory. Times are ages up
to one past the ttl: the code compares times with the cutoff (`<` for records,
mtime `>=` for files) and with each other, and equal ages may be in either order.

`Put`, `Resolve`, `ResolveAndPin`, `Unpin`, `CreateChild` and `DeleteItem` are the
methods; `Gc` is `gc_expired`: expired tokens, then `_gc_over_budget` (the shortest
least-recently-used run that meets the budget, pinned states counted), then the
orphan sweep, which goes by age alone. `CrashInPut` dies between the move of the
file and the end of its sidecar, `CrashInResolve` in the rewriting of a sidecar,
`CrashInDelete` between a state file and its sidecar, after some tokens of the run
are gone, in the order in which they go. `Start` is `_rehydrate`.

`DurableStates` has no files and no index: only whether the store serves, which
states live with their age, size and item, and which of them requests hold. While it
serves, tokens die in exactly two ways: all the tokens of an item, when none of them
is held (`Dead`), or one collection: all that are stale and, of what is left, the
shortest least-used run that comes back to the budget, minus those held. A kill
(`Killed`) is a step of its own, to not serving; it may cut such a death short, in
its order (`CutShort`), or cost the one token in use (`LostInUse`), never more. A
start changes nothing, which is what "states survive a restart" means. The mapping is
`serving` for `up`, `Live` (the index of a running server, what could be read from
the disk of one that is down) and `Pinned` for `held`. Without any one of these ways
TLC finds a step of `StateFiles` that has no counterpart, except one: that an expiry
is cut short between two stale states shows with three states, and only the theorem
speaks of so many.

### ServerLifespan

Several processes on one directory. A file is its inode, the lock is on the inode,
the path may point elsewhere by the time a process locks what it opened. `Open`,
`Lock`, `Unlock` and `Unlink` are the steps of `acquire` and `release`; `Sweep` is
the one thing the orphan sweep does to the lock file. The model shows that the lock
does not do what the README says of it, and has no passing run.

### PantographWorker

One task over one leased worker: `create_one`, `verify_one` or the items of a lane,
down to the worker's commands (create, load, step, save, unlink, collect), which are
where it awaits. A command is answered, fails or times out; a timeout kills the
process and every later command fails. `Torn` is the cancellation of the task at
any of these awaits, `Exits` the death of the process. `spoilt` records what went
wrong with the task itself, so that `ScratchAccounted` and `TaskEnds` can say which
failures excuse a file left on disk (a cancelled request, a store that cannot move
it, a debug measurement of a dead process) and which excuse a worker that is lost
(only a cancel during its return). Other tasks cannot touch its scratch files, whose
names are unique; leases and cancels of items are in the modules above.

### ReplManager

A check passes `new`, `get`, perhaps `wait`, `create`, `prep` (`header`), `body`,
`store`. `get_repl` counts under the condition and creates after leaving it;
without a database `Repl.create` awaits nothing, so the count is still right when
the REPL is busy, with one it awaits and two checks can both start one (`db`).
`Cancel` may come at any await and runs `run_one`'s handlers, `ReplFails` is any
error or timeout of the REPL, `Exits` its death. `env` says what made environment 0
of the process: that is the header's only if the header is not blank, and a REPL
without one keeps the first body's declarations. Three properties name what they
exempt: a database (`ReplsAccounted`, `NoLostWakeup`), the time after shutdown (the
same two; `cleanup` notifies nobody), blank headers (`BodyOnItsHeader`). With a
database all these hazards are real; PROJECT.json lists them at their lines.

### StepBatcher

`queue`, `timer` and `flushes` are the batcher's fields and tasks; a batch goes
through the locks of its items in sorted order, a slot of the semaphore, sending,
and back off and again when the server is overloaded. What is under the batcher's
own lock awaits nothing and is one step. `Answer` is the answer, an overload, an
error or the loss of the answer after the server ran the request. The transport
never repeats a step request; the batcher repeats what the server refused (429,
503, or a result that says overloaded) and nothing else.
`GiveUp` is a caller cancelled while it waits, `Close` and `CloseReturns` the two
ends of `close()`. Not modelled: cancelling `flush()` or `close()` itself.

### MicrobatchJournal

The journal is replaced atomically, so a kill leaves the old or the new one. `Call`
may come again after any end, with the same plan or another; `Reuse`, `Refuse` and
`Send` are the three things the loop does with the next microbatch. `Responded`,
`Failed` and `Killed` each may have run it on the server or, the last two, not.

### The computations

`Algorithms` asks: a state is a question with, one step later, its answer. Each
module has the code's functions as operators and what is expected of them as
reference definitions written differently. So that it can be proved about, nothing is
recursive but functions over numbers: what is nested is numbered.

- `InfoTree` (`infotree.py`): nodes and edges of a forest whose items may lack a
  node or fail to print, and the cutting of code into tactics, over token strings
  with comments, brackets and the keywords the code looks for; a forest is its items
  in the order they are met, `last[i]` the last of those below `i`; expected: nearest
  ancestors, no text lost or doubled, goals chained from tactic to tactic;
- `PantographMessages` (`pantograph_normalize.py`): every exception says something of
  severity error; payloads are a list of texts, message objects, lists and mappings in
  which what is inside comes before what holds it, the recursive functions go up that
  list;
- `ProofVerdict` (the verdict of `verify`): accepted means compiled, without sorry,
  with allowed axioms, reported once;
- `Snippets` (`split.py` and both ways of moving positions back);
- `CheckClient` (`check()` of both clients, `analyze`, `parse_client_response`);
- `ServerConfig`: the launcher, the server's two readers of a command line over
  the environment, and what a client accepts of `/exec/limits`.

Infotree, messages and split were also compared with the Python functions on
generated inputs while they were written, the messages on 1500 exceptions.

## Runs

| Run | Instance | Checks |
|---|---|---|
| `limiter` | 5 handlers, 2 slots, queue of 2; 2,031 states | types, exact counters, no lost wake-up, `BoundedAdmission`, a free slot is taken |
| `exec_items` | 2 items, 2 tokens, 1 create, 1 batch of 2 over 2 lanes; 85,548 states | brackets and pins, cleanup, parents of steps, cancel, `ItemLifecycle`, draining |
| `exec_items_orphans` | the same | violation, see below |
| `pool` | 3 clients, pool of 1 or 2, 3 keys of 2 profiles, profile cap 1 or 2, 2 uses; 421,906 states up to symmetry | caps and reservations, exclusive leases, no lost worker, no lost wake-up |
| `pool_peak` | the same | violation, see below |
| `state_store` | 2 tokens of sizes 1 and 2, budget 1, 2 items, ttl 2, 2 pins, 1 scratch file; 41,592 states | index equals disk, `DurableStates`, budget, orphans go |
| `store_lock` | 2 servers, 3 lock files | violation, see below |
| `repls` | 3 checks, 2 headers (one blank), pool of 2, 1 use, 4 processes, with and without database; 1,875,553 states up to symmetry | REPLs accounted for, no lost wake-up, bodies on their header |
| `client_batcher` | 4 calls of 3 nodes of 2 items, batches of 2, 2 slots, 1 retry; 336,407 states | one request per item, nothing runs twice, nobody is stuck, every call ends |
| `client_journal` | 3 plans of up to 3 microbatches, 2 runs each; 393 states | at most once, returns what ran |
| `worker` | up to 2 items of 2 tactics, 4 files; 94,849 states | files accounted for, every task ends |
| `algorithms` | forests of 5 items, code of 5 tokens, exceptions of 3 payloads, snippets of 4 lines, 4 snippets in batches, configurations on 12 machines; 2,205,486 states | the five groups above |

Why the bounds are enough. The limiter's hazards need a full house (2), a full
line (2) and a newcomer (1): five tasks; two slots let two notifications be under
way at once. In the routes the smallest interesting batch has two items, of one
item id or of two, in one lane or two; two tokens give a parent with a child or a
root for each item, one of which the other actors may delete. The pool needs two
workers and a third client that waits, two headers of one profile (reuse must
tell them apart) and a second profile (eviction); two uses wear a worker out on
its second lease. Four process ids let two dying processes overlap two new ones.
The store needs a parent and a child or two items. One state fills the budget and
the other is over it, so a collection takes none, one or both, stale ones and those
over the budget together, and spares what is held; a ttl of 2 gives used, older and
stale. The order within a collection that is cut short needs three states: there the
theorem `StoreImplementsDurable` goes further than the run. The theorems lift all of
these. The batcher's
deadlock hazard needs two batches with two items in common, its retry hazard one
retry; four calls make two full batches or one with a timer, and two of them step
the same node. In `repls` the third check is the one that overtakes or waits. Two
runs in `client_journal` are one more than allowed. In `algorithms` five tokens hold a
comment or bracket pair with code on both sides and three nodes around it, five items
a failed child with a sibling, a parent and a child of its own, and three payloads a
mapping in a mapping; all five of its properties are proved without the bounds.
Deadlock is checked except in runs whose system really stops: a task that is over,
questions answered, calls all ended, all processes down with nothing left to do.

Fairness. Only what the event loop guarantees is assumed: a runnable task runs
(`Wake`, `Unwind`, the ends of operations), and each await of an operation ends,
because `get_worker` and the worker commands have timeouts. No fairness on
arrivals, cancellation, expiry or garbage collection, with one exception: the
orphans of `state_store` go because the clock ticks and `run_state_gc` comes round
in a server that stays up. In `client_batcher` timers fire, tasks run, `close()`
goes on, and an HTTP request ends with an answer or a timeout; nobody has to
submit, give up or close. In `worker` only the task itself is fair, not the death
of the process or the cancel. The pool's run claims no liveness: its waiters always
end by their own timeout.

Each property of a passing run is paired in PROJECT.json with a seeded bug, an
operator named after the mistake (`UnwindSilently`, `BatchClosesPerItem`, ...) and
placed before the definition it would replace; under it the run's property fails.

### Disagreements with the documentation

- `exec_items_orphans`. docs/backend-end-plan.md (631-632, 713-716) says the parent
  stays pinned and the bracket open until a lane has registered its states. When
  starting a worker raises for one lane, `gather` raises and the `finally` closes
  the bracket under the other lanes. `StepKeepsParent` and `BracketsExact` hold
  with that case included because they speak of requests that are still open;
  `CancelledCommitsNothing` and `CleanedIsEmpty` hold even with orphan lanes.
- `pool_peak`. docs/safety_net.md (22-23) and docs/backend-end-plan.md (1265-1266)
  say that `max_workers` bounds the Lean processes. The pool's own count never
  exceeds it (`CapsRespected`), but a closing process is no longer counted: with one
  worker allowed, a second client starts its own while the destroyed one still closes.
- `store_lock`. README.md (47-48) says the lock prevents two server processes from
  sharing a store. `_sweep_orphans` (state_store.py:289) unlinks any file of the
  directory older than the ttl that is not a tracked token's, the lock file
  included; a second server then locks a new file of the same name. The race of
  `release()` (unlock, then unlink the path) is in the model too.

Seen while modelling, without a run of their own. The definitions do what the code
does, and the property that would meet the case exempts it by name, or says nothing
of it; so no run shows these, and no passing property excludes them.

- docs/backend-end-plan.md (715-716, 1327) wants the whole handler of an item inside
  try/finally. The loop that pins and begins stands before the `try`
  (exec_backends.py:131-148): when `resolve()` of a later item raises, what the earlier
  ones pinned and began stays so for ever (`BatchAborts`). `BracketsExact` counts such
  items as open, and `CancelDrains` exempts them.
- repl.py:144 calls `max_repls` the maximum number of REPLs. With a database `get_repl`
  awaits between the count and the place it takes, so two checks that found room for
  one start both (`ReplsAccounted` speaks of servers without a database).
- README.md:181 and docs/safety_net.md:47 size the queue by the requests in flight.
  `--max-in-flight-exec-requests` alone leaves it sized by the environment's value
  (_exec_server_cli.py:34-41): with 1 on a machine of four processors it is 12 where
  the typed configuration makes it 4. `ReadersAgree` exempts that case; a launcher
  always passes both.
- docs/backend-end-plan.md (157-158) says batches are never above the caps on items and
  attempts. exec_env.py:301 takes the recommended width and compares it with neither, so
  a server whose cap is below its number of workers recommends batches it refuses.
  `LaunchedAsGiven` says nothing of widths.
- docs/exec-diagnostics-spike.md:135 rejects any axiom outside the allow-list. The
  pattern of pantograph_worker.py:523 does not match a report that is broken over lines,
  which then reads as no axioms, and a disallowed one is accepted (`AcceptedIsProved`
  asks for a report on one line).
- Code that prints a report of axioms itself: `_extract_axioms` reads the first report
  it finds, which need not be the one asked for, so what the latter says is not looked
  at and a disallowed axiom is accepted (`AcceptedIsProved`).
- A text at line 0 in what Pantograph raises: `ExecPos` takes no line 0 and only the
  positions of objects are raised to 1, so the conversion raises itself and nothing is
  told; nor is anything of an exception whose only argument is None (`ErrorsAreTold`).
- In a mapping an empty list of messages replaces its description, and a severity the
  code does not know becomes "info".
- An import of a package whose name starts with Mathlib (`import MathlibFoo`) counts as
  one of Mathlib and is dropped from the header (split.py:37); `Snippets` has no such
  lines.
- A cancel between the saves of a command, a store that cannot move a file, and debug
  figures of a dead process leave scratch files behind (`ScratchAccounted`); a cancel
  while a worker is given back loses it (`TaskEnds`).
- With a database a check that is cancelled while it stores its answer destroys the
  REPL it gave back, under whoever uses it now (`ReplsAccounted`); after a shutdown
  nobody wakes the checks that wait (`NoLostWakeup`); and a REPL without a header
  keeps the declarations of the first body it ran (`BodyOnItsHeader`).
- While the profile cap binds, a notification may go to a client whose profile is full
  (`NoLostWakeup` of the pool).
- An `allow_unbounded` opt-in of the environment cannot be switched off by a
  launcher, whose command line only has the option to set it (`LaunchedRight`).
- With something pinned a collection may end over the budget although unpinned
  states remain: `_gc_over_budget` counts pinned ones as reclaimed.

## Proofs

`ExecRequestLimiterProofs` proves, for every finite set of tasks and every bound,
`TypeOK`, `CountersExact`, `NoLostWakeup` and the refinement of
`BoundedAdmission`. The inductive invariant is their conjunction: the counters
are cardinalities of sets of tasks (`CountersExact`), the condition's list holds
the waiting tasks once each (`TypeOK`), and each free slot has a task on its way
(`NoLostWakeup`). None is inductive alone: that `Release` cannot push a counter
below zero needs the cardinalities, that `Wake` finds itself counted needs the
tie between `pc` and `queued`, and the wake-up argument needs to know that
`notify` makes exactly the first waiters `"notified"` (`NotifyFacts`,
`NotifyWakes`). Assumption: `LimiterAssumption`, the constructor's checks and a
finite set of tasks.

`ItemLifecycleProofs` proves for any items and any lawful callers that the
registry is exact (`RegistryIsExact`) and that a cancel sticks until its retention
ends (`RegistryCancelSticks`). `RegistryExact` is inductive together with the type
invariant: `cancel` decides by `in_flight` whether an item is drained, which is
right only because `in_flight` equals the open operations.

`ExecItemsProofs` proves of the routes, for any items, tokens, requests, batch size
and number of lanes, type correctness (`ExecTypeCorrect`), `CancelledCommitsNothing`,
`CleanedIsEmpty`, `BracketsExact`, `StepKeepsParent` and that the routes implement
`ItemLifecycle` (`ExecLifecycleProtocol`). `BracketsExact` is about brackets between
`begin` and `finish`: those of a request that aborted before its `try` are open for
ever and counted; an orphan lane's have been closed by the `finally` of its request. The first invariant is `Shaped`: types, and
`SlotsAgree`, which says that an operation under way names its item and that the
token a lane holds was issued and is either still its item's or gone. The latter is
what `create_child` relies on: it registers children under the parent's current
owner, while the lane asks about cancel under the item it resolved at the start; the
two are the same item only because a token never comes back under another one. Given
`Shaped`, one lemma (`CommitStep`) shows for each action that it adds no state to a
refusing item and marks an item cleaned only when it removes its last state; both
theorems follow. The refinement reads the abstract bracket count as the number of
slots and creates between `begin` and `finish` (`OpenBrackets`), and shows for each
action that this cardinality moves by exactly the calls it makes, also when a whole
batch begins or unwinds at once. It carries the registry's theorems over:
`ExecCancelSticks`, and the counts of `BracketsExact`; its pins, and the parent of a
running step, come from an invariant on pins of the same form. Assumptions:
`IdsAssumption` (the null value is no name) and `ItemsAssumption` (sizes are
positive, sets of requests finite).

`PantographManagerProofs` proves of the worker pool, for any clients, workers, keys,
profiles and limits, `TypeOK`, `CapsRespected`, `LeasesExclusive`, `NoWorkerLost` and
`NoLostWakeup`. The inductive invariant has two halves. `Base` says where everything
is: the condition's list holds the waiting clients once each, a client has the
worker its place promises and shares it with nobody, the running processes are the
idle and the leased ones. `Ledger` counts: reserved starts are exactly the clients
that evict or start, in all and by profile (`StartsExact`); idle, leased and reserved
workers fit the caps; and while somebody waits and the profile cap does not bind, the
notified clients and the workers in use or reserved make at least a full pool
(`WakesOK`). `CapsRespected` alone is not
inductive: the limits are tested in `get_worker` before a start that is counted only
as a reservation, so the end of a start must find its reservation; nor is
`NoLostWakeup`, which only says somebody is notified, not that as many are as there
is room. Each action has a lemma for each half. Assumption: `PoolAssumption` (limits
are positive or -1, finitely many clients and process ids).

`StateFilesProofs` proves of the store, for any tokens, items, sizes, ttl and
budget, type correctness, `IndexOnDisk`, `BudgetRestored` and the refinement of
`DurableStates` (`StoreImplementsDurable`). Of `DurableStates` itself it proves what a
user of the store counts on (`StatesLiveOnce`): a state that died stays dead, nobody's
state becomes another item's, and a held one is lost to a kill of the server only; the
refinement makes that a fact about the files. The inductive invariant is `StoreInv`:
types, the index agreeing with the files token by token while the server is up,
`Fresh` (a token never issued has no record and no file, so neither `put` nor a kill
in it revives one) and `PinsOnTracked` (what is pinned is in the index of a running
server, so a death that spares pinned tokens spares all that requests hold).
Refinement goes by the reason of a step: saving (`SaveIsDurable`), using, starts and
time (`LifeIsDurable`), deaths (`DeathIsDurable`), kills (`KillIsDurable`). A
collection maps to the two parts of its reason because what `gc_expired` takes is
worked out from the same ages, sizes and pins as the abstract death (`SameReasons`);
a kill in it leaves a beginning of the same order, with perhaps one file of a pair
gone (`CutShortFacts`). `Bytes`, the sum of the sizes, is a parameter of
`DurableStates`: the proofs need only that both measure the same set. Assumption:
`StoreAssumption`.

`PantographWorkerProofs` proves `ScratchAccounted`, for lanes and tactics of any
number. A running operation has on disk exactly the files of its results and the one
it is saving, each once and none of them in the store (`OperationOK`), and nothing
else unless the task leaked it before (`DiskOK`); answers have their files in the
store, apart from each other (`AnswersOK`). The property speaks only of the end and
of the answers, so each of the three is needed. All commands are instances of one
lemma (`CommandKeeps`: what an operation gives up and takes), all ends of another
(`OutsideKeeps`). Assumption: `WorkerAssumption`.

`ReplManagerProofs` proves of the REPL pool, for any checks, headers, sizes and
limits, with a database and without, type correctness, `ReplsAccounted`,
`NoLostWakeup` and `BodyOnItsHeader`. The inductive invariant adds to them what holds
in every case: a REPL in use is out of the free list and has one user of its header
(`UsersOK`), and it ran its header before it was ever given back (`ReadyOK`); and,
without a database until shutdown, that the pool fits `max_repls`, that no process
runs outside of it, and that the woken checks and the busy REPLs fill it while
somebody waits (`CountsOK`). The last is the number behind `NoLostWakeup`: `notify()`
wakes one check for each REPL that comes back, and one that is overtaken waits again.
Assumption: `ReplAssumption`.

`ClientProofs` has three parts. Of the batcher it proves, for any calls, batch size,
slots and retries, `OneRequestPerItem`, `NeverRepeated`, that something can always
go on while a call waits (`NobodyStuck`), and the safety half of `EveryCallEnds`:
when `close()` returns nobody waits (`ClosedLeavesNobody`). The
invariant `BatcherInv` says that a call is new, queued once or in one batch
(`PlacesOK`), that what a batch still has to answer has not run (`RunsOK`), and that
a batch past its locks holds all of them, a lock being of one batch (`LocksOK`). For
`close()` one more is needed (`WaitersOK`): who waits is queued or still to be
answered. It holds because a flush cuts the whole queue into batches (`CutCovers`, an
argument about division) and a retry asks for all that still wait. `NobodyStuck` is
what liveness rests on: locks are taken in sorted order, so what a batch misses is
above what it has (`AwaitedOK`), and among the batches at their locks the one that
waits for the highest waits for nobody (`SomeBatchGoes`); with the semaphore behind
the locks and batches that are never empty, no circle can close. Assumption:
`BatcherAssumption`.

Of the journal it proves type correctness, `AtMostOnce` and `ReturnsWhatRan` for any
plans. A record is written before its request is sent and none is ever removed; so a
microbatch that ran has a record (`JournalKnows`), a request on its way has one that
says running and no run yet (`SentIsRunning`), and what a call merged is in the
journal under its own requests (`MergedIsJournalled`). `AtMostOnce` alone is not
inductive: it says nothing about the request on its way. Assumption:
`JournalAssumption`.

Of the computations it proves all five properties of `Algorithms`, for inputs of any
size: as facts about the operators, which quantify over everything the code can be
given, and from them as invariants of `AskedSpec`.

- `PositionsLandOnTheirLines`: for any lines and any remarks about the body. What
  has to be known of the header is that after `k` lines the list of other imports
  has those of the first `k` lines, once each (`Collects`).
- `FlatteningIsFaithful`: for any forest. Each round of `infotree.py` lifts the
  children of one item that failed or of one that repeats its parent. What every round
  keeps (`TreeOK`) says that the edges left lead from each node left to its nearest
  ancestor left (`NearestWithout`), and that nothing went but what may go. The rounds
  are numbered, twice as many as there are items are enough, since each that changes
  anything takes one away (`RoundKeeps`).
- `CuttingKeepsTheText`: for any text and any nodes over it. Sorting the nodes and
  pushing each start past the end before it leaves stretches that follow each other
  (`SortedSorts`, `AdjustedTiles`). From then on the tactics are a cut of the text
  (`IsCut`: the text from place to place, in order) and every pass keeps it one:
  handing trailing blanks and comments to the next (`TransferredCut`), joining what is
  unfinished (`JoinedCut`), moving `by` (`LoopsKeepCut`, one argument for the loops,
  whatever each decides). A cut joins to the text it was cut from (`CutJoins`), and
  filling in goals only touches goals (`GoalsFilledFacts`).
- `ExceptionsAreTold`: for any payloads nested in any way and any severity words. Both
  recursions go from what is inside to what holds it (`ReadFacts`); so whatever set
  contains the messages of all texts and objects in an exception contains the messages
  of the exception, and each payload but None says something (`MessagesStay`). Taken
  with the messages that stand at no line 0, no call of `ExecPos` raises; taken with
  the errors, they are errors.
- `VerdictIsHonest`: for any messages of a compilation and any allowed axioms.
- `EverySnippetAnsweredOnce`: for any snippets, batch size, failures and order of the
  answers. The batches are the stretches of the list from `(b - 1) * size` on
  (`BatchFacts`), the merged answers are those batches' answers end to end
  (`Flat`), and every place of the list lies in exactly one of the stretches
  (`BatchOf`, `BatchOrder`).
- `LaunchesWhatItWasGiven`, `CommandLineMeansOneThing`: for any integers as options
  and environment, any number of processors and any memory.
  Every field is read alike by both ends, whatever `--workers` resizes on the way
  (`Resized`, `OptionsWin`); only the queue that is left open beside the requests in
  flight is not. That clients take the limits of a bounded server is one of its own
  checks again (`LimitsAreTaken`).

The recursive functions among these operators go over numbers: the places of a list,
the rounds of a loop, the ends of lines, payloads. That such a function exists, and
what it returns, is proved by induction, written as an argument by least
counterexample (`LeastNat`, from `NatLessThanWellFounded` and `WFMin`, and `Upto`): the
library's induction theorems take an operator as parameter, which the provers
cannot instantiate, but a set of counterexamples is a value like any other.
Assumptions: `AlgorithmsAssumption`, `AbsentAssumption` (None is no number and no
Boolean) and `WordsAssumption` (the words for severities have those the code writes).

Every safety invariant and action property that a passing run checks, and every
refinement, is thereby a theorem. Only model-checked is liveness (`FreeSlotIsTaken`,
`CancelDrains`, `OrphansReclaimed`, `TaskEnds`, and of `EveryCallEnds` that the calls
end): it needs fairness and ENABLED, which the provers do not handle.

## Not modelled

- Auth, health, logging, metrics: stateless checks and monotonic counters.
- The database row per proof: one insert through an external ORM. That storing
  awaits, and what a cancel during it does, is in `ReplManager`.
- Memory and CPU limits and monitors of REPLs and workers, goal texts, debug
  figures: read-only or a reason for a process to die, which the models allow at
  any time.
- Benchmarks, progress bars, sessions, the example notebook, messages by line and
  sample statistics of `proof_utils.py`.
- Cancellation inside `get_worker` and of the batcher's `flush()` and `close()`.

## Plan

1. *Done*: admission, registry, routes, pool; store on disk, lock and lifespan;
   worker process; legacy REPL pool; client batcher and journal; the computations;
   configuration.
2. *Done*: theorems about admission, registry, routes, pool, store, worker process,
   REPL pool, batcher and journal, the registry's carried over to the routes, and what
   the store promises by itself; about every computation, for inputs of any size.
3. Models: `get_worker` with tasks cancelled at any await; handlers cancelled in the
   composition of routes and pool.

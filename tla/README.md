# TLA+ models of Skip

Skip is a framework for reactive services. Its parts are the store (SKStore), a
database of contexts kept in a memory-mapped file; the service runtime on top of it
(`skipruntime-ts`); SKDB, a SQL database whose clients mirror tables of a server; and
the Skiplang compiler and its tools. This directory holds TLA+ models of the parts
whose correctness depends on interleavings, failures and reconnections, TLC
configurations that check them on small instances, and proofs of the core.

`PROJECT.json` gives, for every definition, the source lines that it models.
Line numbers below are those of the source.

## 1. The system and what is modelled

| Part | Source | Module | |
|---|---|---|---|
| Registry of contexts: snapshots, commits, global lock, reference counts | `skstore/Context.sk`, `runtime/palloc.c`, `runtime/runtime.c` | `ContextRegistry`, `AtomicStore` | checked and proved |
| Multiplexed websocket, client and server | `sql/ts/src/skdb_orchestration.ts`, `Mux.kt` | `MuxSocket` | checked |
| Mirror of a table: resilient sockets and streams, watermarks | `skdb_orchestration.ts`, `Service.kt`, `Skdb.kt`, `SqlCsv.sk` | `MirrorConnection` | checked |
| Service runtime: updates, forks, reload, resource instances, external services | `skipruntime-ts/core/src/index.ts`, `Runtime.sk`, `Context.sk`, `helpers/src/remote.ts` | `ServiceRuntime` | checked |
| Engine: arrows, dirty keys, dependency index, lazy directories, DMap and purging | `skstore/` | | planned |
| Persistent heap below the roots: free lists, growth of the file, recursive counts | `runtime/palloc.c`, `free.c`, `intern.c` | | planned (roots are in `ContextRegistry`) |
| REST/SSE server, polled suppliers, adapters to Kafka and PostgreSQL | `skipruntime-ts/server`, `helpers`, `adapters` | | planned |
| Worker RPC of SKDB and of the WebAssembly runtime | `sql/ts/src/skdb_w*.ts`, `prelude/ts` | | planned |
| SQL front end and evaluation, schema migration | `sql/src` | | not modelled: sequential, data-heavy |
| Compiler, skargo, parsers, JSON, dates | `skiplang/*` | | not modelled: batch programs, pure functions |
| React hooks, examples, web site, editor support | `packages`, `examples`, `www`, `ide` | | not modelled: presentation |

The complete list, with the reason for each part that is left out, is under
`components` in `PROJECT.json`. How the modelled parts fit together: a service or an
SKDB process runs every change as a transaction of the registry
(`ContextRegistry`); the service runtime makes forks of its main context by such
transactions and merges them (`ServiceRuntime` starts where `ContextRegistry` ends:
each of its steps that changes a context is one committed transaction). An SKDB
client reaches the server over one multiplexed websocket (`MuxSocket`), and
`MirrorConnection` uses what `MuxSocket` shows of it: messages of a stream arrive in
order and without gaps until the stream or the socket ends.

## 2. Modules

### ContextRegistry, AtomicStore

State: the root pointer `ginfo->contexts`, the reference count and content of each
interned root, the owner of the global lock, and per process a program counter with
its local pointers (`held`, `ctx`, `gref` are the three references that
`SKIP_context_sync_no_lock` juggles). Each lock region and each use of the root
outside a lock is one action: `HasContext`, `ContextInit`, `GetContexts`, `RunOk` and
`RunRaise` (the transaction's own code), `SyncLock`, `SyncGet`, `SyncCommit`,
`SyncRelease`, `Unlock`, `Continue`, `Notify`, `NotifyRaise`, `Free`, `ForkExists`,
`OutOfMemory` and `Crash`. The content of a context is the set of transactions it
contains. The actions cover `runWithGcIntern`, `runWithResult`, `runLocked` and
`withContext`, with and without a synchronizer (`Modes`).

`leaked` counts references that no one will free: those of crashed processes and
those the code itself forgets (`forkExists`, an exception in `runLocked` or in a
notification). `AtomicStore` is what users of the store rely on: a set of
transactions to which each commit adds atomically.

### MuxSocket

Two ends, each a record with the fields of `MuxedSocket` and its streams; a method of
the code is an operator from record to record, so that a method that calls another
(`closeSocket` closing every stream, a failing send erroring the socket) composes as
in the code. The two implementations differ in places (`errorSocket` before
authentication, resets and `activeStreams`, the answer to a close), and the operators
branch on the end where they do. Steps are messages and websocket closes arriving,
calls of the two applications, timers, the end of the `await` in `sendAuth`, and
losses of the connection that take part of what is on the wire with them.

A handler of the client is one step, as JavaScript runs it to completion. The server
has threads: the websocket's, the session timer's and those of the application. Its
handlers read the state of the socket (`Mux.kt:530`) or of a stream (an
`AtomicReference`, `Mux.kt:1110–1204`) and act on it later with no lock kept between.
In the model the websocket thread takes a message (`OnSocketMessage`), looks at the
socket and decides (`LookUp`, `AcceptStream`, `Authenticate`), reads the state of the
stream (`ReadStream`) and acts on it (`ActOnStream`) in separate steps, and a call of
the application on a stream is a `BeginCall` that reads and a `FinishCall` that acts.
One step are: the loops over the streams, which the code runs under the write lock;
the calls that end the socket (the second of two finds no stream to tell but those
opened since); the socket check of a send with the send itself; and, for a stream that
is known, the look-up with the read of its state.

### MirrorConnection

The client's `ResilientMuxedSocket`, its `ResilientStream`s and `SKDBServer.mirror`
for one table, and the server's processes behind them. Local writes and rows of the
server are numbered; a payload comes in chunks closed by a checkpoint. Modelled are
pings, failure detection, replacement of streams and sockets, the queue of those who
wait for a socket, the diff sent on reconnection, feedback watermarks and their
seeding, closing, refusal, and a second call of `mirror`.

The server applies a payload (`apply`) or rejects it (`reject`) as `SqlCsv.sk` does
when a write violates a privacy rule or a constraint: the table and the server's
watermark stay as they are, and the answer (`Answer`) carries the checkpoint all the
same, with the rows of the rejected payload, which the client puts in its feedback
table. A checkpoint that the server has seen is skipped and acknowledged.
`Rejectable` says which writes may be rejected.

### ServiceRuntime

Contexts are records (tick, input, resource instances, links to external resources,
values); a fork is a context with its origin, the origin's tick and the actions
postponed to its merge. Application calls (`Update`, `Reload`, `InstantiateResource`,
`CloseResource`, `Subscribe`), continuations after an `await` (`Continue`, which is
`Merge`, `AbortFork`, `Return` or `ReadAndClose`) and events of external streams
(`Open`, `Fail`, `Deliver`) interleave as the JavaScript event loop lets them:
continuations run before the next macrotask, and one macrotask may make several calls
if `Burst` says so. Subscriptions to external resources are made by the update of the
context, ended by postponed actions or by the rollback of an aborted fork, and told
apart by the tick at which they were created. The tick counts updates of the graph;
the second pass of an update that made directories is folded into the first, as both
are in one transaction.

The notifiers of clients and the postponed ends are called once the contexts are
replaced (`Context.sk:3127` and `3332`), and `reload` closes the streams of destroyed
instances after its merge (`index.ts:844`). `Raising` says whose callbacks may raise
there. An exception rejects the promise of a call whose effect is there (`raised`),
the ends that were still to be performed are lost (`lost`), and a reload keeps the
sessions it was to close and the old `this.definition`. A session without its instance
makes every later `notifyAll` raise (`Performed`).

Each definition of the service has a map of its own of the subscriptions
(`externals`). A reload derives its definition with a copy of that map (`Derive`); a
subscription is made on the definition of its context and ended on the definition that
made it (`CloseExternalService` keeps it), so the entries of a copy stay when the
subscriptions are ended. `Known` is the entry that counts.

## 3. Runs

Run one with `tlc -workers 2 -config <run>.cfg <MC module>`.

| Run | Module | What it shows |
|---|---|---|
| `registry_store` | MCContextRegistry | Two processes, three transactions, four addresses, one crash, all entry points but `runLocked`, on an initialised database: counts are exact, nothing borrowed is freed or changed, no committed transaction is lost, none that failed is visible, no reference is left over when no process crashed, and the registry implements `AtomicStore`. |
| `registry_cold` | MCContextRegistry | From an empty database with a heap of two roots that fills up, with `runLocked`, raising notifications, `forkExists` and a crash: counts stay exact, and every call returns. |
| `registry_notify_failure` | MCContextRegistry | *Violation.* `runWithResult` returns `Failure` for a transaction that is committed (finding 1). |
| `mux_faults` | MCMuxSocket | One stream, two messages of the client and a reply, a re-authentication, a lost connection, a late session timer, closes and errors by both applications, the threads of the server: delivery in order, one announcement, no data after the end but the message that a thread of the server had in hand, no stream left open that a socket had when it ended, both ends agree when the wire is empty. |
| `mux_live` | MCMuxSocket | Two streams of the client: what is sent is delivered, and a close completes. |
| `mirror_faults` | MCMirrorConnection | Two writes, the first of which may be rejected, one row and one fault anywhere: nothing acknowledged is missing on the server unless it was rejected, a rejection reaches the feedback table as long as no stream is replaced, nothing below the watermark is missing on the client, streams live on the current socket, writes and rows arrive (or the writes are rejected) in the end. |
| `mirror_close` | MCMirrorConnection | The application closes, or the server refuses, at any point: the client stays closed, and `closeSocket` ends. |
| `mirror_seeded` | MCMirrorConnection | *Violation.* The first payload acknowledges writes that the server does not have (finding 2). |
| `mirror_replaced` | MCMirrorConnection | *Violation.* A stream that is being replaced survives a second `mirror` (finding 3). |
| `runtime_forks` | MCServiceRuntime | Two updates or reloads over two external resources that open, fail and change, with suppliers that may raise: all or nothing, no subscription ended too early, and none left behind but by an exception, values of the external resources reach the main context when a stream delivers one event at a time. |
| `runtime_resources` | MCServiceRuntime | Two instances created, read, subscribed to, closed and collected while calls wait, with notifiers and suppliers that may raise: a session has its instance unless a reload was cut short, every call is settled. |
| `runtime_burst` | MCServiceRuntime | *Violation.* Two events that arrive together: the second is lost (finding 4). |

Each property of a passing run has a mutant in `PROJECT.json`: a definition with a
plausible mistake in it, kept in the module next to the original, under which TLC
finds the property violated.

### Bounds

- Registry: the commit protocol involves a committer and one other; a third
  transaction lets one process commit twice around a transaction of the other. Four
  addresses are what three transactions and the first root need; `registry_cold` has
  two so that allocation fails and addresses are reused. The proofs lift all these
  bounds for safety.
- Multiplexer: a stream of an identifier is never reused, so the hazards are those of
  one stream against its socket; two messages tell a gap from a repetition.
  `mux_live` has a second stream of the client (identifiers 1 and 3) because the
  watermark for new streams compares two. The calls of the server's application that
  other threads interrupt are its closes; an instance in which they are closes and
  errors (1.7 million states) satisfies the same invariants.
- Mirror: one fault may hit between any two steps; a socket that is given up twice for
  one fault needs `MaxSocket` up to 4. Two writes tell a write that is acknowledged
  from one that is covered by it. The first write may be rejected, so that a write that
  is applied follows it; an instance of `mirror_faults` in which both may be (586
  thousand states) satisfies the same properties. Before rejections were added, two
  mirror sessions with a write, a row and a fault (6.6 million states) satisfied the same
  safety properties.
- Service: two calls suffice for a merge that finds its origin changed; two keys let
  one of two promises fail after the other was fulfilled and let writers of one key
  fork the fork that waits for the other. Two resource instances let the creation of
  one, or the reading of it, be cut short by the notifier of the other. `MaxTick` bounds
  the calls that may be repeated (`subscribe`, `closeResourceInstance`): three ticks let
  an instance be closed and subscribed to again. `runtime_resources` with `MaxTick` 5
  (1.0 million states), with a key and an instance (115 thousand states), and
  `runtime_forks` with three calls on one key (24 thousand states) satisfy the same
  properties.

Deadlock is not checked: the budgets of calls and faults end, and a service that has
nothing to do stops.

### Fairness

- Registry (`FairSpec`): a process in a call goes on; the robust mutex is taken over
  from a dead owner (`palloc.c:118`). Nothing forces calls to begin.
- Multiplexer: what is on the wire arrives, the threads of the server go on, the
  signature is computed, and the server closes its half when the client has closed (`Service.kt` does this in `onClose`).
  `OrderedOpen` is an assumption about the application, which the code in the
  repository meets: it sends the request of a stream right after it opens it. A
  stream that is first used after a later one is below the watermark and is ignored.
- Mirror: messages are delivered while the socket is up, pings and failure timers
  end, a reconnection succeeds in the end (the code retries for ever), the tail
  process sends. That connecting succeeds in the end is an assumption about the network.
- Service: the event loop runs ready continuations, and a request for a stream is
  answered, if only by an error.

In the two larger modules weak fairness is written out, with the guard in place of
`ENABLED`.

## 4. Findings

1. `Context.sk:3131`: an exception of `notifyAll` or of a postponed action after the
   commit makes `runWithResult` return `Failure`, although `SKStore.md:131` promises
   that in a failed transaction "nothing changed".
2. `SqlCsv.sk:391`: the first payload that a table receives sets the feedback watermark
   to the current tick. Local writes that are still on their way count as
   acknowledged; if their stream fails, the diff leaves them out.
3. `skdb_orchestration.ts:630`: `close()` of a stream that awaits
   `replaceFailedStream` is undone when the await ends, so the streams of a replaced
   mirror session come back, against the comment at line 1820.
4. `remote.ts:92`: each event calls `callbacks.update` without waiting for the one
   before. Two events in one chunk fork the main context at the same tick; the second
   merge fails with `ConcurrentFork`, which is logged, and its data is lost, although
   `api.ts:446` says that changes of the external service propagate.

Some behaviours are in the models without being checked as findings, because no document
speaks of them; the properties name them as their exceptions:

- Two processes that both find an empty registry may both initialise it, and the later
  one discards what the first committed (`CommittedKept` is therefore stated from an
  initialised registry).
- A stream can be opened on a server's socket that has ended, and stays open: the handler
  had read the state of the socket before (`Mux.kt:530`, `615`), or went on after it
  found the session expired (`Mux.kt:564`). The end of the `await` in `sendAuth` brings
  a client's socket that ended back to `AUTH`. `EndedSocketTellsStreams` excepts the
  streams opened afterwards.
- The server may call `onData` once after `onError`, and a `close` that races the peer's
  may leave the stream in `CLOSING` (`QuietAfterEnd`, `StreamsAgree`).
- A rejected write whose answer is lost with its stream is not rejected again if a later
  write was applied: the diff sent after the reconnection has a checkpoint that the
  server has seen. The write is acknowledged and in no feedback table
  (`RejectionReported` is stated while no stream was replaced).
- An exception of a notifier or of a supplier after a merge (see `ServiceRuntime` above)
  is finding 1 again at the level of `update` and `reload`; `AllOrNothing`,
  `NothingLeftBehind` and `SubscribedIsAlive` say what remains true.
- A stream of an external resource that is unsubscribed while it connects opens later and
  stays open (`remote.ts:101`); `NothingLeftBehind` speaks of subscriptions, not of
  sockets.

`MarkIsComplete` looks in one direction: rows are only added, so that a row which the
decoder kept too long would not be seen.

## 5. Proofs

`ContextRegistryProofs` proves, for every number of processes, addresses and
transactions, every set of entry points and every bound on crashes:

| Theorem | Statement |
|---|---|
| `RegistryInv` | `Spec => []IInv` |
| `TypeTheorem` | `TypeOK`: among others, no count becomes negative |
| `RefCountTheorem` | `RefCount`: each root counts exactly its references |
| `BorrowedAliveTheorem` | `BorrowedAlive`: no use after free |
| `SnapshotStableTheorem` | `SnapshotStable`: a borrowed snapshot does not change |
| `NoConcurrentAccessTheorem` | the `invariant_violation` of `resolveContext` is not reached |
| `AtomicStoreTheorem` | on an initialised registry, `Spec => ImplementsAtomicStore` |
| `CommittedKeptTheorem` | on an initialised registry, a committed transaction stays |

They assume `RegistryAssumption` only: `None` is not a process, address or transaction,
the set of processes is finite, and the other constants have their types.

The invariant is `IInv == TypeOK /\ Shape /\ LockInv /\ InitialisedInv /\ RefCount`.
`RefCount` is not inductive by itself: `Free` and `SyncRelease` subtract references
and need to know that the process has them, which is `Shape` (which pointers are set at
which program counter); `SyncRelease` returns a reference to the root it read as its
own, which needs `LockInv` (only the owner of the lock commits, and a transaction
without synchronizer still sees the root it started from). The step lemma is split
accordingly: `ControlStep` (control, pointers, lock), `CountStep` (counts) and
`TypeStep` (types; that counts do not become negative follows from `RefCount`, so
the types come last). `CountStep` rests on `CountUpdate`: redirecting one pointer
moves one unit of the cardinality of its owners; every action redirects at most a few
pointers, and `BalancedStep` adds them up. `SnapshotStable` follows because only fresh
addresses are written (`HeapWrites`) and a borrowed one is not fresh (`FreshUnused`).
The refinement maps `db` to the content of the root; `SyncCommit` is a `Commit` because
of `LockInv`, and all other steps stutter.

Checked by TLC only: liveness; `FailedAbsent` and `QuiescentRefs`; and all properties of
`MuxSocket`, `MirrorConnection` and `ServiceRuntime`.

## 6. What the models leave out

- Contents: rows, SQL, JSON, error codes and the binary formats. Identifiers of streams
  are 24 bits on the wire; the encoder raises after 2^23 streams, beyond any instance.
- `ContextRegistry`: the tree under a root (its own counts and free lists), growth of
  the file, and what the engine computes in a transaction.
- `MuxSocket`: pings, and interruptions of the server's threads at the places that are
  one step above.
- `MirrorConnection`: the `:reboot` signal, several tables in one session, concurrent
  calls of `mirror`, the contents of a rejected payload, and server processes whose
  stream is gone.
- `ServiceRuntime`: `initService` and `close`, contents of notifications, streams that
  drop after they opened, suppliers other than `SkipExternalService` (but for their
  exceptions), reloads of some of the external services only, exceptions before a
  commit, and a service graph beyond one external collection per key and per instance.

## 7. Plan

1. `ExternalService`: `PolledExternalService` and the dropped streams of
   `SkipExternalService` as suppliers of `ServiceRuntime`; the leak of streams that are
   unsubscribed while they connect.
2. `Engine`: update of eager directories to a fixed point against the abstract
   "each directory is its mapper applied to its parents"; dependency index; lazy
   directories with their capacity; purging of tombstones against readers that are
   behind.
3. `StreamService`: the life of an SSE stream in `rest.ts` over `ServiceRuntime`, and the
   tail processes of `Service.kt`.
4. `Replication`: conflict resolution between several peers of a table, over what
   `MirrorConnection` shows of one connection.
5. `PersistentHeap`: free lists and recursive counts under the roots of
   `ContextRegistry`, growth of the file.
6. `WorkerRpc`: calls and subscriptions between a page and its worker.
7. Proofs: `AllOrNothing` and `LinkedIsLive` of `ServiceRuntime` for any set of keys and
   calls (the strengthening: a fork that may be merged contains what its origin
   contains); `AnnouncedOnce` and `InOrderDelivery` of `MuxSocket`; the abstract engine.

# dev_essential in TLA+

dev_essential is a C++14 library collection: the utility library *a_util*, the
*pkg_rpc* remote-procedure-call package, the *ddl* libraries (data definition
language: data model, codecs, serialization, mapping) and a CSV reader. This
directory models the parts of it whose correctness depends on state, ordering
and concurrency. Paths in this file are relative to the repository.

## Inventory

### Modelled

| Component | State it keeps | Operations | What is hard about it | What makes it correct |
|---|---|---|---|---|
| a_util `shared_mutex` (`src/concurrency/shared_mutex.cpp`) | flag word (writer bit, reader count), two condition variables | lock, try_lock, unlock and the shared forms | lost wakeups, a writer that claims the lock while readers are inside, the reader limit | a writer is alone, the flag word counts who is inside, nobody sleeps on a condition that has come true |
| a_util `semaphore` (`include/a_util/concurrency/detail/semaphore_impl.h`) | token count, waiters | notify, wait, try_wait, wait_for, reset | timeouts racing notifies, spurious wakeups | each token goes to one thread, nobody sleeps beside a token, a timed wait ends |
| a_util `Timer` (`src/system/timer.cpp`, timerfd build) | running and stop flags, worker thread, two mutexes, reference count | start, stop, setPeriod, destruction, callback | stop from inside and outside the worker, restart, destruction | stop waits for the callback, callbacks never overlap, stop returns |
| pkg_rpc registry (`src/pkg_rpc/rpc_object_registry.cpp`) | map from names to objects with a shared_mutex each, a shared_mutex for the map | register, unregister, look up and lock, call | an object unregistered while requests look it up or are inside | no call enters an unregistered object, none is inside one being unregistered |
| pkg_rpc HTTP server (`src/pkg_rpc/threaded_http_server.cpp`) | accept thread, detached request threads, counter, queue of sockets | StartListening, accept, request, StopListening, destruction | counting detached threads, destruction with requests under way | the counter is exact, StopListening drains all requests and returns |
| ddl mapping engine, structure (`src/ddl/mapping/engine/mapping_engine.cpp`) | targets, sources, triggers that point at each other | setConfiguration, Map, unmap, unmapAll, start, stop, destruction, samples, timer ticks | shared sources and triggers, a Map that fails half way, raw pointers | what is mapped stays wired, what is deleted is not referred to |
| ddl mapping engine, data flow (`source.cpp`, `target.cpp`, triggers) | target buffers with a shared_mutex each, trigger counters, running flags | onSampleReceived, onTimer, getCurrentData, start, stop, reset | several threads of the environment in one buffer, several locks held at once | whole samples in every buffer seen, the counter counts sends, callbacks return |
| ddl DataDefinition and data model (`src/ddl/dd/dd.cpp`, `dd_validationinfomodel.cpp`, `include/ddl/utilities/dd_access_map.h`, `datamodel_*.cpp`) | maps of named items, a validity and an index of users cached on each, a protocol of problems | add, remove, rename, change a reference or attribute, validate | every cache is repaired by hand in the handler of each event; a rename is carried on to all users while the model is between two names | the protocol is the problems of the items, renames keep a consistent model so, changes reach all users |
| ddl layout (`dd_typeinfomodel.cpp`, `dd_offset_calculation.cpp`, the handlers in `dd.cpp`) | sizes of types and positions of elements, cached on the model | change sizes, fields, attributes, versions; add, insert, remove, pop; recalculate | each event recalculates a different part, users are found by walking an index in hash order | elements do not overlap, the partial recalculation leads to the layout a complete one gives |
| ddl codec, element tree, structure access, binary comparison (`codec_elements.cpp`, `codec_factory.cpp`, `struct_element*.cpp`, `ddcompare.cpp`) | a tree of elements with leaf numbers, sizes of dynamic arrays found in the data | make a tree, look up a leaf, resolve dynamic arrays, offsets by path, equality and subset of layouts | search bounds, places known only after the ones before, a size in the data | every leaf is found where the data definition has it; a reader and a writer agree; equality implies subset |
| ddl mapping configuration (`src/ddl/mapping/configuration`) | sources, targets with assignments and triggers, transformations, a validity flag each, the sources a target uses | edit by name, set and modify the data definition, load and merge documents | references by name kept in step by hand, flags refreshed after some changes and not others | a target lists the sources it uses, what is flagged valid fits |

### Parts of modelled components that are left out

| Component | Left out, and why |
|---|---|
| shared_mutex, semaphore | destructors (legal only with nothing under way), a negative start count, the exception for a negative timeout |
| Timer | the Windows and QNX builds, a failing timerfd_create, setCallback |
| HTTP server | starting twice, a `std::thread` that cannot be started: neither is handled in the code |
| mapping engine | values: conversions of `element.cpp`, transformations, the comparison of a data trigger (here it fires or not), trigger_counter modulo |
| data model, DataDefinition | enum elements, header events, the add and create functions that copy from another definition, two views on one model, attributes without influence on validity |
| layout | types that do not exist or contain themselves (DataDefinition calls those invalid), the table of default alignments, streams |
| codec, access, comparison | lookup by name, the cache of factories, constants and defaults, `DDCompare::isEqual` with its checks of names, descriptions and units, a path ending in an array position without a bracket |
| mapping configuration | header, setComparison and the setters of an assignment in place, the conversions of a table one by one, copies and swaps of whole configurations, the XML |

### Not modelled

| Component | Why |
|---|---|
| ddl codec serializer and accessors | shifts and masks of words; the accessors forward to the element tree |
| ddl serialization | a wrapper that reads and writes files around the codec |
| ddl XML reading and writing | between XML elements and the data model, element by element, without state of its own |
| ddl predefined types, legacy object model | tables of constants, older copies of the data model classes |
| ddl C interface | forwards and converts exceptions into error codes |
| a_util result | an error code with a shared, immutable description |
| a_util memory | ownership of one buffer, without sharing or concurrency |
| a_util `fast_mutex`, thread helpers | one atomic flag, aliases of the standard library |
| a_util strings, regex, parser | character level functions without state |
| a_util date and time | calendar arithmetic without state |
| a_util filesystem, process, system, uuid | calls of the operating system |
| a_util variant, xml, logging | a tagged union with conversions, a wrapper of a vendored parser, output |
| csv_reader | reads a file once |
| pkg_rpc url, JSON-RPC transport, stub generator | string handling, generated code, vendored libraries |
| `extern` | vendored: httplib, libjson-rpc-cpp, pugixml and others |

The modules stand for about 5000 lines of the source, those with state, order
or concurrency in them. Most of the rest of the repository is vendored, generated,
or conversion without state, so the modelled share of all lines stays small.

### How the components interact

* `shared_mutex` is the lock of the registry (one for the map, one per object)
  and of every mapping target. `LockHolds` is its state as callers see it,
  `RWLock` its specification, `SharedMutex` the implementation shown to meet it;
  `RpcRegistry` and `MappingDataflow` are built on `LockHolds`, one function from
  threads to holds per lock.
* A request thread of the HTTP server calls the registry, and the registry an
  RPC object, whose methods may call the registry again.
* The environment of the mapping engine calls sources (`onSampleReceived`) and
  periodic triggers (`onTimer`) on threads of its own; the engine calls the
  environment to register, to send targets and to announce them.
* The `Timer` calls its user's callback on its worker thread, which may call the
  `Timer` again.
* A DataDefinition observes its data model: every change comes as an event, whose handler
  repairs validity (`DataDefinition`) and positions (`StructLayout`). A codec
  makes its tree from those positions (`StructCodec`).
* A mapping configuration refers by name to the types of a DataDefinition, which is set and
  modified under it; the engine maps its targets (`Configs` of `MappingEngine`).

## Modules

| Module | What it is |
|---|---|
| `LockHolds` | holds on one shared_mutex: out, shared, claimed, exclusive, and who may take which |
| `RWLock` | the readers-writer lock in four actions |
| `SharedMutex` | `shared_mutex.cpp`, one action per stretch of code under its internal mutex; waiting threads are the wait sets of the two condition variables |
| `Semaphore` | the semaphore with timed and untimed waiters |
| `ConcurrencyProofs` | the inductive invariant of `SharedMutex` and its theorems; those about `Semaphore`; those about `Timer` |
| `Timer`, `MCTimer` | the timer, and the ways it is used in the runs |
| `RpcDirectory` | the registry as its users see it: a set of names and who is inside which |
| `RpcRegistry`, `MCRpcRegistry` | the registry with its two levels of locks |
| `HttpServer` | owner, accept thread and detached request threads |
| `RpcProofs` | the inductive invariant of `RpcRegistry`, that it implements `RpcDirectory`; theorems about `HttpServer` |
| `MappingEngine`, `MCMappingEngine` | the engine's objects and the raw pointers between them |
| `MappingEngineProofs` | its inductive invariant and theorems |
| `TargetSnapshot` | what a reader of targets may rely on |
| `MappingDataflow`, `MCMappingDataflow` | samples, ticks and reads by several threads at once |
| `MappingDataflowProofs` | that it implements `TargetSnapshot`, for any sets and any number of calls |
| `DataDefinition`, `MCDataDefinition` | items that refer to each other by name, their validity, index and protocol |
| `DataDefinitionLevels` | what the level of an item should be, by recursion over what it refers to, and the properties that need it |
| `DataDefinitionProofs` | that the protocol is the problems of the items, for any worlds |
| `StructLayout`, `MCStructLayout` | sizes and positions and what each event recalculates of them |
| `StructLayoutProofs` | its inductive invariant and theorems, for any models and changes |
| `StructCodec` | on top of `StructLayout`: the codec's tree, lookups, dynamic arrays, comparison |
| `MapConfiguration`, `MCMapConfiguration` | the mapping configuration as a client and documents edit it |
| `MapConfigurationProofs` | its inductive invariant and theorems, for any worlds |
| `FoldTheorems` | induction over a fold, with the step and the invariant as parameters of the module |

Modules with a name that starts with MC only give constants their values; those of the
last three name the *worlds*: small models to start from, and what the user may
change in them. An
operator with an underscore in its name (`Unlock_NotifyOne`) is a plausible bug of
the definition it stands before; nothing uses it, but with it in the place of that
definition a property of the run is violated.

### State and code

* **SharedMutex.** `flag` is split into the writer bit and `readers`; `place` says in
  which operation a thread is and where; `cond1` and `cond2` are the threads asleep in
  `_cond1` and `_cond2`. `LockWait`, `LockClaim` and `LockDrain` are the two loops of
  `lock()`: a writer sets its bit, which keeps newcomers out, and sleeps until the
  readers inside have left. `UnlockShared` notifies the draining writer when the count
  gets to zero and one reader when a slot was freed from a full lock.
* **Semaphore.** `Wait`, `TryWait` and `WaitFor` start an operation, `GoOn` goes through its
  loop again after a notify or a spurious wakeup, `DeadlinePasses` is the deadline.
* **Timer.** Each operation is cut at the places where another thread can come
  between: the test of `_is_running` before the mutex, the mutex, the join, the
  reference. The worker is cut at its loop test, its mutex, the blocking read, the
  callback, and the test of the period. `fault` records a null `_thread`, a
  `std::terminate` and a use of a destroyed object.
* **RpcRegistry.** `objects` has a lock for each registered name; a lookup holds the map's
  lock shared until it holds the object's, an unregister claims both. `target` is
  the object a thread is inside.
* **HttpServer.** `owner` is the thread that starts, stops and destroys; `request`
  where each connection's thread is; the counter and queue of `AcceptFunc` are
  variables, as is the part of the server (derived, base) that is still alive.
* **MappingEngine.** A pointer is the name of the object it points to, and becomes `Freed`
  in every list that keeps it when the object is deleted. A source has four such
  lists: `assigned` (`_assignments`), `received` (`_received_elements`), `locks`
  (`_targets`) and `fires` (`_triggers`). `Map` is the whole function; its failures are
  `MapTargetFails` (in `Target::create`, after any part of the assignments) and
  `MapTimerFails` (a timer refused, after any part of the triggers), each with the clean-up
  the code does. `Unmapped(m, T)` is what is left of the structure without the targets `T`:
  one for `unmap`, all for `unmapAll`, whose loop has the same result in any order.
* **MappingDataflow.** A call is cut at every lock operation, every element written and
  every part of a buffer read. `aquireWriteLock` of the code is `lock_shared` and
  `aquireReadLock` is `lock`: sources write elements of their own side by side,
  whoever looks at the whole buffer is alone.
* **DataDefinition.** `dd` is the model with its caches, and a handler is an operator from
  one `dd` to the next, so that an action is the whole event: the map that takes the new name,
  the check of the item, the walk through its users, the service's protocol. An item is its kind, its references
  and whether its own attributes are right. `order` is the order of the hash containers, over
  which some walks go. The functions of the code call each other (an item validates what it refers to, a user that follows a rename
  has users); each operator is given, as `deeper`, a function from calls to states that does what is one level of calls below, and
  `Deepest` stacks `depth` of these levels.
* **StructLayout.** `dl` has the types, the infos calculated for them, the index of
  users and the language version. `UpdateAll`, `UpdateChanged` and `UpdateLast` are the three ways an event
  recalculates elements; a calculated serialized position is stored where the user's would be.
* **StructCodec.** No state: operators that build the tree from `dl`, find leaves in it, resolve a decoder's
  copy and compare two trees, checked in every state of `StructLayout`.
* **MapConfiguration.** `config` is sources and transformations by name, and a sequence of targets, as in the code's
  vector. `judged` and `tidy` are history (see below). `fault` is a null pointer followed. `Without` is the loop that erases
  items of a list while it walks it; `Released` then takes a source from the list of a target if nothing that is left uses it.

## Runs

| Run | Instance | What it shows |
|---|---|---|
| `SharedMutex` | 4 threads, 3 reader slots | the flag counts who is inside and a writer is alone, no sleeper is forgotten, refinement of `RWLock` with its liveness |
| `Semaphore` | 3 threads, 1 token, at most 3 | nobody sleeps beside a token; waiters are served, timed waits end |
| `Timer` | 1 owner, 3 workers, three uses | callbacks never overlap in any use; in plain uses stop waits for the callback and returns, nothing crashes, timers fire and end |
| `RpcRegistry` | 1 owner, 2 request threads, 2 objects | mutexes match calls, refinement of the atomic directory with methods that register and unregister; unregistering returns when methods do not |
| `HttpServer` | 3 connections, stopped first | counter and queue match the threads, stopping drains and returns, every accepted connection is taken up |
| `MappingEngine` | 3 targets, 2 sources, 2 periods, 4 configurations | samples write under locks, triggers serve mapped targets, after any calls and failures; tidy targets stay wired and never meet a deleted object |
| `MappingDataflow` | 2 targets, 2 sources, timer, reader, control | buffers are whole and count their sends (refinement of `TargetSnapshot`), they do not change under an exclusive holder, calls return |
| `DataDefinition` | 8 worlds of 2 to 4 items over 5 names, 8 levels of calls (deeper ones would stop the run) | the protocol is the problems of the items and no problem goes unseen; renames keep a model without loose ends so; changes reach all types |
| `StructLayout` | 8 worlds: growing, nested, versions, positions, fields, types, diamond, dynamic arrays | elements stay apart in both layouts; the partial recalculation gives what a complete one gives; leaves are found at the places the definition has; decoders place dynamic arrays like static ones; equal layouts are subsets |
| `MapConfiguration` | 4 worlds: nested elements, shared sources, tables, documents that lean on each other | a target lists the sources it uses and all of them exist; what is flagged valid fits the data definition |
| `TimerOneShotStop` | 2 workers | *violated*: stop() of a one-shot timer and the timer's own stop wait for each other |
| `MapConfigurationErase` | 2 targets, a definition that loses a type | *violated*: an invalid target gets the validity flag of the one removed before it |

### Bounds

* Threads, connections and workers: a race between two threads with a third that
  waits or arrives late is the largest the code's conditions tell apart; for the lock
  the proofs take over for any number. The lock has one thread more than slots, so that
  the limit is met.
* `Workers = 3` bounds how many worker threads of a timer exist at once: the one being
  left, the one being started and one more.
* `MaxCount = 3` tokens: one per thread.
* `MaxCalls = 1`: each source delivers one sample, the timer ticks once, the reader
  reads once. A torn buffer shows already between the default and the first
  sample, and the counter gets to two through two triggers. start, stop and reset
  are not bounded.
* In `MappingEngine` nothing is bounded but the names: a freed pointer is one value
  however often it arose.
* `size` and `most` of a world bound the items and the references of one. Two users of
  one item, a chain of three, and two names to rename between are what the walks
  over the index tell apart; every kind of item is in a world, and worlds that differ only in `order` have the hash
  containers the other way round.
* Layouts: elements of one, two and four bytes and of some bits, arrays of 2 and 3, a struct
  inside another, a diamond of structs, one dynamic array whose size is 0 to 2; positions up to `span` bytes.
  `Width` stands for 2^64 and is above every size that occurs.
* `MapConfiguration`: two sources, one target made by the client and those of the documents, at most two triggers
  each; two targets where one is removed beside another. Documents are loaded in the code's three ways, over everything a client can have done before.

### Fairness

Weak fairness is asked of the steps a thread takes inside an operation: the
operating system schedules every runnable thread. Nothing obliges a user to call
an operation, with these exceptions, each a promise of the user's code: a thread leaves a lock it
holds (`Leave`), a callback or an RPC method returns even if it makes calls in between
(strong fairness of `CallbackReturns` and `EndCall`), a connection closes
(`CloseConnection`). Spurious wakeups and expirations may come at any time; a
deadline comes in the end (`DeadlinePasses`). In `MappingDataflow` calls are bounded, so a lock that is wanted
is free for good in the end and weak fairness is enough.

The three modules of the ddl data model and the configuration have one caller and
no liveness: every call returns.

### Where deadlock is not checked

`Timer` and `MappingEngine` stop when the process has crashed or the object is
destroyed; `HttpServer` stops after its destruction; in `RpcRegistry` methods that
register may deadlock with an unregistration (see below), and its other
uses have `UnregisterReturns`; in `MappingDataflow` all calls are made in the end,
and `CallsReturn` rules deadlocks out; in `MapConfiguration` a client that has followed a null
pointer does not go on.

## Where the code and its documentation differ

Two runs are violated, each listed as a finding with the text it contradicts:

* **TimerOneShotStop**: the owner holds `_mutex_timer` and joins the worker, which is past the
  test in its own `stop()` and waits for that mutex.
* **MapConfigurationErase**: `removeTarget` erases from a vector, the assignment of targets swaps all members
  but `_is_valid`, and `addAssignment` then trusts the flag and dereferences a type that is not there.

The properties of the passing runs state exactly what the code keeps, and
their premises exclude the following; each premise is as weak as that allows.

* **RpcRegistry**: unregistering waits for the calls of an object with the map's lock held; a method
  that registers waits for the map's lock. `UnregisterReturns` therefore assumes methods that leave the registry alone.
* **HttpServer**: only the implementation object in the base class stops the threads,
  after the derived class is gone; a server destroyed while listening handles a request with its derived part destroyed.
  `StopsFirst = TRUE` excludes this, and no property is about it. The last request thread notifies the waiter after it has decremented the
  counter, so the waiter may have gone on (`threaded_http_server.cpp:67`): no property is about this.
* **Timer**: `StopsCleanly` holds for one owner. Two threads that stop and start one timer pass the test of
  `_is_running` together.
* **MappingEngine**: with two targets copying from one source of which one has a signal trigger on it,
  unmapping that one deletes the trigger and the source keeps its pointer. `received()` elements of an unmapped target stay in a source that
  lives on; a source is deleted with its last copied element although another target
  has a `received()` flag of it or a trigger on it; a Map that fails leaves pointers in the sources
  that were there before; a handle unmapped twice is used without being looked up. `tidy` excludes
  these; the properties without `tidy` hold in all of them.
* **MappingDataflow**: `updateAccessFunctionValues` comes before `aquireReadLock` in
  `getCurrentBuffer`, so the simulation time changes in a buffer another thread is sending.
  `TimeTargets = {}` excludes targets with a simulation time.
* **DataDefinition**: `dd_validationinfomodel.cpp:273` renames the users of a unit without
  their places in the other indexes, although the header (line 38) promises to keep the model consistent while
  renaming; references to types that do not exist are not indexed, so that the type's later addition or removal
  reaches direct users only; a stream struct or a RefUnit that changes is not validated again; a moved view stays
  attached. `Consistent` is the state in which these have not bitten, and renames and changes keep it.
* **StructLayout**: a calculated serialized position counts as the user's own, so an inserted or grown element overlaps its
  successors; users of an enum are recalculated before the enum itself (`dd.cpp:648`, `690`);
  dependents are recalculated in hash order, so a diamond of structs can keep stale sizes, as can
  `calculatePositions` and `setVersion`; nobody tells the users of a struct of an added, removed or inserted
  element; a changed bit position recalculates nothing. `UpToDate` (calculating any type again would change nothing) and
  the exceptions of `ChangesAreCarried` are these.
* **StructCodec**: `isBinaryEqual` throws for a dynamic leaf array, and through `begin + (end - 1 / 2)` when the search runs past
  the end; it is not symmetric between a static and a dynamic struct, and equal structs may differ in size, hence the
  premises of `EqualIsSubset`. An element after a dynamic one gets alignment 1 in the codec and its type's in the data
  definition; a dynamic array of no elements whose type is larger than its alignment underflows; bit-sized members
  are not rounded behind a dynamic one; an element after a dynamic one at offset 0 counts as unresolved. `Layable` and `Countable` exclude them. A path counts array positions
  after the first wrongly and adds bytes to bits.
* **MapConfiguration**: a merged document whose targets use sources only the existing configuration has leaves
  them out of `getReferencedSources`, after which a renaming leaves them dangling and `modifyDD` follows a null
  pointer; `setVariable` of a trigger already added does not update the set either (`tidy`). A definition set without a check, or one that fits,
  does not refresh all flags (`judged`). `setDD` with one that does not fit replaces the definition by an empty one although the
  documentation says the object remains untouched; a refused assignment of a parent element leaves the nested ones flagged
  invalid; `removeSource` of an unknown name removes assignments that use it.

## Proofs

`ConcurrencyProofs` proves about `SharedMutex`, for every finite set `Threads` and
every positive `MaxReaders` (the assumptions of `LockHolds`):

* `MutexTyping`, `NoWakeupLost`, `Holders`: MutexTypeOK, WakeupsNotLost and HoldersAsCounted (the flag counts
  who is inside, and a writer is alone) are invariants of `Safe`.
* `Refinement`: `Safe` implements the safety part of `RWLock`.

The inductive invariant `MutexInv` is MutexTypeOK, FlagMatchesThreads (the reader count is the
number of readers, the writer bit has one owner) and WakeupsNotLost, strengthened by two facts they need:
`WaitersInLoops` (a thread in a wait set is in the loop that waits there, so that a
notify wakes the right kind of thread) and `WriterSeesNoReaders` (the
count is zero while a writer is in, so that `unlock()` may zero the whole word).
MutualExclusion follows from the last and the accounting. Four lemmas say how
the cardinality of the set of readers changes when one thread joins or leaves; the step theorem has
one case per action. The refinement proof maps each step to a step of `RWLock`
or to a stutter, with the holds computed from `place`.

`ConcurrencyProofs` also proves `SemTyping` and `NoTokenUnseen` about `Semaphore`, for every set
of threads and every `MaxCount` (which is only a cap for TLC). NoSleeperWithTokens
is inductive with the types: a thread goes to sleep only at a count of zero, and
the one action that raises the count empties the wait set.

About `Timer` it proves, for any use and any finite sets of owners and workers, `Typing` and `Serialized`
(CallbacksSerialized). `IInv` says what each place of a worker and of a caller implies: the worker
between its read and the end of its turn holds the callback's mutex (`CallbackHolds`), whoever joins holds `_mutex_timer` and
there is a thread to join (`JoinHolds`), the references are the object's own, the thread's, and one for each start and stop on its
way (`RefsCount`), and a periodic timer that its callback leaves alone has one worker (`OneWorker`). `StopsCleanlyHolds` is for one owner and a callback that leaves
the timer alone (`OneOwner` and the uses in the property): the timer is running iff there is a thread nobody joins, a start
finds no thread, and destruction leaves none (`OwnedPeriodic`); a one-shot worker is `_thread` until it has
stopped itself (`OwnedOneShot`).

`RpcProofs` proves, for all sets of threads, names and nested uses:

* `NoDanglingEntryHolds`, `ObjectLockMeansCallHolds`;
* `Typing`, and `MutexesMatchCallsHolds`, which joins the first two to the property of the run;
* `ImplementsDirectoryHolds`: `Spec` implements `RpcDirectory`, all of it, as that
  specification states no fairness.

Its `IInv` says what the position of a thread implies (its hold on the registry lock,
that its argument is a name other than the object it executes, whether it executes
one), that the registry lock has one writer who is alone once it is in, and that
calls are inside registered objects and hold their mutexes. The crucial
step is `UnregisterErase`: a mutex without readers means an object without calls, and a thread
that had found the entry would still hold the registry lock that the unregistering
thread has exclusively.

`RpcProofs` also proves about `HttpServer`, for every finite set of connections, `Accounting`,
`PopFindsConnection`, `CountsHold` (both in one, as the run has it) and `Draining`, whether or not the owner stops the
server before it destroys it. `HttpIInv` adds to the counter's invariant the exact length of the
queue (a connection for each thread about to pop and for the one being started), the
room that a connection being handed over leaves for its thread, and that a server that is not
listening has a counter of zero.

`MappingEngineProofs` proves, for every set of targets, sources, periods and configurations and every kind of failure,
`Typing`, `SamplesWriteSafelyHolds`, `TriggersServeTargetsHolds` and `MappingIntactHolds`. `SourcesHang`, `FiresHang` and `TriggersHang` say
what the pointers of sources and triggers may point to in any state. The last theorem needs `AllTidy`: a tidy source's lists are exactly what the mapped
targets ask for, and targets that share a source share the triggers on it, so that deleting with the one leaves
nothing the other needs. Map and unmap are unfolded once, into lemmas that say what is a member of each list afterwards.

`MappingDataflowProofs` proves, for any sets of threads and targets and any number of calls, `Typing`, `BufferStableHolds` (if no target has
a simulation time, `TimeTargets = {}`) and `ImplementsSnapshotHolds`. `IInv`: each place implies
its locks and the reverse (`LocksMatch`), locks exclude (`LocksExclude`), what a source has
written so far follows from its place in its loops (`ElementsMatch`), and a copy half made is of the buffer as it is (`CopiesMatch`).
In the refinement the count of a target is its counter without the threads between counting and sending; the last `WriteElement`
is the abstract update, `CopySecond` the send or the read, `Reset` the reset, and the rest stutters.

`MapConfigurationProofs` proves about `MapConfiguration`, for any worlds that satisfy `WorldsAssumption`, hence for any data
definitions, documents and elements and any number of calls:

* `Typing`: a name is one source or one target, and no element of a target is assigned twice;
* `References`: the list of sources of a target is what its assignments and triggers use, and it leads somewhere;
* `Validity`: what is flagged valid fits the data definition.

`WorldsAssumption` says of documents what the reader refuses otherwise: repeated elements (`map_target.cpp:246`),
repeated names (`checkSignalName`, `map_configuration.cpp:1016`), a data trigger without variable, an assignment with neither
source nor constant nor function. It says nothing about how documents fit the configuration or the data definition.
`IInv` has four parts. `Shape` says which fields the records have and that the lists are sequences; `Names` is about names;
`Refers` and `Judged` are the two properties over any configuration and not only the present one, since a call
goes through several: the document is read on its own, merged, checked together, and possibly given up. `Judged` needs `Refers`, as
a check looks at the type of the source of each assignment, and `Refers` needs `Names`: a source removed must not be a target.
Most of the work is in dropping items. `WithoutDraws` says that what `Without` leaves are items of the list at places of their
own, all of those whose field is not among the values and no other; from it follows what `Released` leaves in the list of
sources.

A fold over a list is an induction over data, and the prover cannot instantiate the induction theorems of the library, whose
predicate is a parameter of the theorem. `FoldTheorems` has the step and the invariant as CONSTANT operators of the module
instead: `FoldLeftInduction` is proved once, from the well-foundedness of `<` on the naturals, and an instance of the module
gives it for a step and an invariant of one's own.

`StructLayoutProofs` proves about `StructLayout`, for any models and changes that satisfy `WorldsAssumption` (finitely many
types, names that lead to types of the right kind, sizes, versions and positions in the naturals; what unknown names lead to is
the subject of `DataDefinition`) and any number of changes:

* `ElementsApart`: elements never share a byte and a static struct has room for all of its own;
* `Typing`: every element has an info, and positions unless it comes after something dynamic;
* `SerializedApart`, for the action property `SerializedStayApart`: in a struct that is up to date and whose serialized elements lie
  one behind the other, they still do after one is added at the end, popped or removed.

That neighbours do not overlap would be enough if everything were always calculated from the first element on. It is not, so the
invariant `LaidOut` is about all pairs: each element lies behind all static ones before it (`WellAt`), it is without a position
only if a dynamic one is before it, and a struct that calls itself static has no dynamic element. The last part is what
`UpdateLast` lives on, since it takes over what was known and looks at one element; after `FrontLaidOut` it may. `UpdateChanged`
may start at the first element without an info, as those before it have their places (`PlacedUpToFirst`). One
lemma about a visit (`VisitIs`) and one about a walk (`WalkIs`) serve all three ways. A change of one struct leaves the
others as they are (`OnlyOf`), therefore the invariant does not need the users of a type to be recalculated in the right
order, or to be found: `Dependencies` only has to yield structs (`DependenciesAre`). That they are found, and in an order that leads to
the layout a complete calculation would, is `ChangesAreCarried`, which stays with the model checker and depends on the order of the
containers. The recursion over users in the code is a fold in the model, with a level for every struct: a level calls the one before it
where the code calls itself, and as no struct is found twice the last level is never called with one left to find.

`SerializedApart` compares a step's two states. A pop, or an element added, leaves all elements but the last as they are
(`LastCalculated`, which needs that "no info" is not mistaken for an info, `NoInfoAssumption`), and the new one is put behind the last,
which lies behind all others. A removal calculates all of them again. What becomes of an element depends on it and on
the size of its type alone, apart from its place (`Took`), so a layout that is up to date tells the sizes its elements will have;
and it tells that those with a position of their own are in order (`AscendingInOrder`), the removed one left out too (`RemovedInOrder`).
One more element either has such a position, and then so had all before it, or it is put behind the last one (`TakenOn`): either way
the new list rises.

`DataDefinitionProofs` proves about `DataDefinition`, for any names, predefined items, worlds that satisfy `WorldsAssumption`, and any
order of the containers:

* `ProtocolMatches`: the protocol of the service is the problems of the items there are, all of them and no others
  (ProtocolMatchesItems), whatever is added, removed, renamed, changed or validated;
* `Typing`: items are kept under their own kinds, and those of the kinds that are validated have an info;
* `AllComeBack`: no struct and no meta type stays marked as on its way when the call is over (`NothingUnderWay`, a part of TypeOK), so no
  later validation takes the mark for a recursion.

Every handler is a long walk through items that call each other, so the invariant has to hold between any two steps of it, and for
a definition from which an item has just been taken: its problems are in the protocol until the last of its users has been told.
`Matching(s, left)` says this. The protocol of `s` is the problems of the items of `s` and `left`, and no info has the identity of one whose
problems are left; a new info of the same name must therefore not take an identity that is still in the protocol, which is what
`FreshIdentity` is about. Each function of the code takes a matching `s` to a matching one in which no item has gone, changed its
kind or has another number of references, and in which the same infos are marked as on their way (`To`): the handlers go on with
items they have looked up before they called. There is one lemma for each. In the midst of an update the item itself is marked (`Leads`,
which is `To` without the marks); it was not when the update began and is not when it is settled, and what is called in
between leaves the marks alone. What is called is a parameter, about which they assume just this (`Sound`); one level of calls on top of a sound
function is sound (`DoTo`), therefore `Deepest` is, by induction over the levels (`DeepestSound`). A call below the last level returns the
state it was given, so the theorem holds for every `depth`. The loops are instances of `FoldTheorems`.

Only model-checked: all liveness (fairness is beyond the prover), the liveness part of the refinement of `RWLock`, `ChangesAreCarried`
of `StructLayout`, the module `StructCodec`, and of `DataDefinition` what depends on walks that come to an end: that infos are validated
between two calls (the rest of TypeOK) and what `DataDefinitionLevels` says. That module and `StructCodec` compare with
definitions by recursion, which the prover does not take.

## Plan

What an extension would take next:

1. `MapConfiguration` composed with `MappingEngine`: its targets in the place of `Configs`, so that what a merge leaves out of
   the referenced sources meets the engine's Map.
2. DataDefinition with two views on one model, and with definitions that copy from each other.
3. `DDCompare::isEqual` on top of `StructCodec`, and lookup by name.
4. The bit serializer and date arithmetic as pure operators against reference definitions.
5. A proof that infos of `DataDefinition` are validated between two calls: a bound on the depth of calls from the number of names, and an
   invariant about the infos that a handler on its way has forced and will come back to.

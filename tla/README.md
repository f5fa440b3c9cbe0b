# A TLA+ model of ComposableAsync

ComposableAsync is a C# library of *dispatchers*: objects that run actions in a
context of their own (a thread, a task scheduler) or in a way of their own
(retrying, breaking a circuit), and that compose. Its repository also holds the
documentation site, whose scripts keep a search index and a page alive in the
browser. This directory holds TLA+ modules that follow both statement by
statement, TLC configurations that check them on small instances, and TLAPS
proofs of the safety properties that must hold for every size.

All source paths below are relative to `src/` of the repository.

## 1. Inventory

### The library

| component | state | operations | who it talks to | hard behaviour |
|---|---|---|---|---|
| event count `ComposableAsync.Concurrent/Signals/SimplifiedEventCount.cs` | epoch, stamped epoch, `_InWait`, `_Spurious`, lock, semaphore | PrepareWait, Wait, RetireWait, NotifyOne, Dispose | the queue | lost and doubled wakeups, an uncancellable `WaitOne`, a semaphore of 2, disposal under a notifier |
| blocking queue `Collections/BlockingMpscQueue.cs` | linked list `_Head`/`_Tail`, token | Enqueue, OnElements/Next, GetUnsafeQueue, CompleteAdding, Dispose | event count below, fiber above | lock-free push in two steps, park/unpark, drain against late producers |
| fibers `Fibers/MonoThreadedFiber.cs`, `ThreadPoolFiber.cs` | queue, end task, thread | Dispatch, Enqueue (eight overloads), Send, DisposeAsync, Clone | queue, work items, synchronization context | stopping at any moment, exceptions of actions, re-entrance, fibers that wait for one another |
| work items `WorkItems/*` | task source, token, registration | Do, Cancel | fibers call them, tokens call back | cancellation racing Do, asynchronous actions that leave the thread |
| fiber synchronization context | the fiber | Post, Send | fibers | continuations that come back to a stopped fiber |
| task scheduler fiber | a `ConcurrentExclusiveSchedulerPair` | Enqueue, Send, DisposeAsync | TPL | refusal after Complete |
| circuit breaker `ComposableAsync.Resilient/CircuitBreaker/*` | state, failure counter, last failure | Enqueue (four overloads) | open behaviours, filter | outcomes recorded late, in another state |
| retry `ComposableAsync.Resilient/Retry/*` | limit; a counter per call | Enqueue (four overloads) | time out providers, filter | off-by-one, waits, cancellation |
| builders and filters | configuration | fluent methods | breaker, retry | seen through constants only |
| composed dispatcher, adapters, awaiter | two dispatchers | Then, Dispatch, Enqueue, Clone, DisposeAsync | any dispatcher | order of nesting, shared clones, tasks that are dropped |
| managers, proxy factory, actors | a bag of disposables | Build, BuildAsync, calls, DisposeAsync | fibers | Build racing DisposeAsync, Sends between actors, one fiber disposed of many times |
| back bone `Concurrent.Flow` | processors, subscriptions, token | Register, Connect, Process, Dispose | Rx | Connect racing Dispose, tokens linked over several levels |
| channel `Concurrent.Channel` | an Rx Subject | OnNext, Dispose | Rx | wrapper only |
| ASP.NET dispatchers | dictionary of dispatchers | GetOrCreate | requests | unsynchronised dictionary |

How they interact: a caller enqueues on a fiber; the fiber wraps the action in
a work item and pushes it on its queue; the queue notifies its event count; the
fiber's only thread is woken, takes the item and calls `Do`, which settles the
task that the caller holds. A cancellation token may settle the same task from
another thread; an action that awaits leaves the thread and comes back through
`SynchronizationContext.Post`, which enqueues again. `DisposeAsync` cancels the
queue's token; the thread leaves its loop, cancels what is left in the list and
disposes of the queue. Retry and breaker sit in front of any of this, one around
the other, and see only the task of the action. A factory gives each actor a
fiber, or one fiber to all, and disposes of what it gave.

### The documentation site (`docs/styles`)

| component | state | operations | who it talks to | hard behaviour |
|---|---|---|---|---|
| search page, `enableSearch` and `renderNavbar` of `docfx.js` | query, handlers, what is shown | keyup, index-ready, query-ready | the worker, files | answers that arrive under a later query, events bound late or twice |
| search worker `search-worker.js` | stop words, data, index | answers of two files, onmessage | the page, the index | files in any order or never, queries before the index |
| search index `lunr.js` (2.1.2) | inverted index, token set, sparse vectors | Builder.add, build, Index.search | the worker | an automaton that is minimised while it grows, fuzzy and wildcard matching, a query language with escapes |
| page scripts, rest of `docfx.js` | selected tabs, stack of headings, classes of entries | renderAffix, renderTabs, clicks, filter | the page | tabs that depend on tabs, headings that jump, an exception that stops what follows |
| `docfx.vendor.js`, `main.js` | | | | minified third-party code, and a comment |

What makes each component correct is stated as the properties of its module
(section 3). The hazards, each at its line, are in `PROJECT.json`.

## 2. Modules

| module | models | kind |
|---|---|---|
| `EventCount` | the event count, one action per shared access | component |
| `MpscFifo` | what a fiber relies on in its queue | abstract specification |
| `BlockingMpscQueue` | the queue and the consumer loop, composed with `EventCount` | component, implements `MpscFifo` |
| `MonoThreadFiber` | fiber, work items, tokens, continuations, over `MpscFifo` | component |
| `CircuitBreaker` | the breaker under concurrent callers | component |
| `Retry` | the loop of both retry dispatchers | component |
| `Pipeline` | retry around breaker, breaker around retry | composition of `Retry` and `CircuitBreaker` |
| `Actors` | factory, managers, actors, Sends between them | composition, fibers as their users see them |
| `BackBone` | Connect, Process and Dispose of a back bone | component |
| `DocsSearch` | search page and worker | component |
| `DocsOutline`, `DocsTabs`, `DocsToc`, `DocsPage` | three page scripts, and the page that runs them in order | components, composition |
| `LunrTokenSet`, `LunrVector`, `LunrQuery` | automaton, sparse vectors, query language | components, algorithms |
| `LunrIndex` | the index built from them and asked | composition |
| `...Proofs` | inductive invariants and theorems, of one module each; `DisposalProofs` of `Actors` and of `BackBone`, `DocsProofs` of the page, of the search and of `LunrVector`, `LunrProofs` of `LunrIndex`, its automaton and its queries | proofs |
| `MC...` | symmetry, or values of constants, for TLC | instances |

The concurrent layers are joined, not just stacked: every step that
`BlockingMpscQueue` takes on the event count's variables *is* an action of
`EventCount` (an instance whose notifiers are the calls of Enqueue and whose
waiter is the consumer), and `MonoThreadFiber` takes every queue step through
the actions of `MpscFifo`, the specification that `BlockingMpscQueue` is
checked, and proved, to implement under a refinement mapping. In `Pipeline` the calls of
`Retry` are the callers of `CircuitBreaker`, and a step of a composed dispatcher
is a step of each. Definitions called "Faulty variant" in a comment are used by
no specification; each is a change of the definition beside it that a run is
known to catch.

### State and actions against the code

*EventCount.* `epoch`, `epochStarted`, `spurious`, `inWait`, `sem` are the
fields; `lock` is the owner of `_Lock`. The waiter's place `wpc` and a place per
notifier `npc` stand for the program counter inside each method. The full
fences make the order of most accesses sequential; where the code has no fence
between two accesses (the store to `_InWait` and the load of `_Epoch` that ends
PrepareWait; the two stores of NotifyOne's lock block as seen by a reader
without the lock) both orders are actions. `LeaveCancelled` is the
`OperationCanceledException` of `WaitHandleExtension.WaitOne`; it is taken only
with an empty semaphore because WaitAny prefers the lower index.

*BlockingMpscQueue.* An item is its own node and its own call of Enqueue
(`ppc`): `CheckToken`, `Exchange`, `LinkNode`, `NotifyOne`/`NotifyStep` are the
statements of Enqueue in order. The consumer (`cpc`) spins, parks, looks again,
waits, takes, runs, drains and disposes. Spinning stands for any number of
turns. `order` is a history of the exchanges. `Killers` are items whose callback
throws the one exception that Consume catches.

*MonoThreadFiber.* A work item goes through the queue as `<<w, "start">>`, the
continuation that Post enqueues as `<<w, "resume">>`. `task`, `token`,
`registered` are what the caller, the source and the registration see; `code` is
how far Do is; cancellation is two steps, the flag and then the callback, as in
.NET. The registration's Dispose is one step. `ThreadPoolFiber` has the same
statements in its PrivateEnqueue, ConsumeInContext and DisposeAsync, and the map
cites both.

*CircuitBreaker.* A critical section under `lock (this)` is one action; the
action that is run in between is not. `sinceFail` is `DateTime.Now - _LastFail`
and saturates at `Delay`, past which the code cannot tell. `probe` and
`sinceProbe` are history. `FilterIgnores` allows an exception to be ignored, it
forces none to be.

*Retry.* One counter, token and place per call. `dispatcher` is what the builder made,
chosen from `Dispatchers` at the start: the maximum, which may be negative, since
`RetryBuilder.cs:17-25` takes any int (`ForEver` gives int.MaxValue), and the provider of
time outs. `"none"` is `RetryDispatcher`; the others are `RetryDispatcherAsync` with a single time
out (or with a function, whose answers are user code), or with an array of `length` time
outs, which may be 0: `RetryBuilderWithWait.cs:28-38` passes any array on, and then
`ArrayTimeOutProvider.cs:24` reads index -1. So it does, at a negative index, when the counter has wrapped
(`ThrowOutOfRange`, the outcome `outOfRange`). `IntMax` is int.MaxValue. A time out of zero is
a wait that is over at once; negative ones, for which Task.Delay throws or never ends,
are left out. The module has no run of its own: it runs, and is proved about, in `Pipeline`.

*Pipeline.* `first` is `_First` of the composed dispatcher. With the retry first,
`AttemptToEnter` is an attempt that finds itself at the door of the breaker, and
the outcome of the action is an outcome of both. With the breaker first, the
door is passed once, the loop goes round inside, and its end is the outcome that
the breaker records. `mode` tells Enqueue of an action, of a function, and
Dispatch, which drops the task of a loop that waits (`Detached`).

*Actors.* `manager` chooses among the dispatcher managers of both builders.
`built` follows Build and BuildAsync: a dispatcher is got, added to the bag, and
for BuildAsync the actor is constructed on its fiber. `snapshot` is what
`ToArray` returned to DisposeAsync. A fiber has a queue and the frame that is on
its thread; on disposal one with a thread cancels its queue, the exclusive
scheduler runs it. `Send` runs in place on its own fiber and is an Enqueue that
is waited for elsewhere. `early` is history.

*BackBone.* `connect` is where each Connect is between the check of the token,
the subscription and `Add` to the lazy `CompositeDisposable`; `dispose` where
Dispose is between its look at the lazy value and `Cancel`. A message goes by
`stage` through back bone, adapter and processor; `Linked` is the token that
`CreateLinkedTokenSource` makes at each level. `missed` is history.

*DocsSearch.* `toWorker` and `toPage` are the message ports. `handlers` counts
the keyup handlers, because showSearch is called by the code once per loading of
the bar and once more from renderNavbar. `items` records of which query the hits are, and whose words are
marked in them, which the code reads from the box when they arrive.

*DocsOutline, DocsTabs, DocsToc.* `stack` is the stack of getHierarchy, `parent`
what it attaches items to. `selectedTabs` is `state.selectedTabs`, `visible` and
`selected` are the attributes and classes of the tabs; the splices are modelled
with what they do for an index of -1. The classes show, hide and filtered of the
table of contents are sets of entries. `DocsPage` runs outline and tabs in the
order of the ready handler; either may throw, and then nothing follows.

*LunrTokenSet.* Nodes are ids, `edges` is one function for the fields of all of
them, `minimizedNodes` is keyed by what `toString` makes of a node, which joins
flags, labels and ids without a separator (`Spelled`). *LunrQuery*: lexer and parser as functions of the string; a
query is its clauses, or the failure that the code throws. *LunrIndex*: add and
build take one step per document and per term; a weight stands for a score.

## 3. What is checked

Runs that pass:

| run | shows | instance |
|---|---|---|
| `event_count` | `TokenAccounting`: the semaphore holds a token, or is about to, exactly when the waiter will consume one. `NeverFull`: no SemaphoreFullException. The uncancellable pump ends, a notified or cancelled waiter leaves | 3 notifiers, epoch modulo 3 |
| `queue` | `ImplementsFifo` (refinement of `MpscFifo`), `NoLostWakeup`; what is pushed is served unless the consumer is stopped, CompleteAdding ends the consumer | 3 items, one of which may end the consumer, epoch modulo 2 |
| `fiber` | drained and served items are settled; the drain never cancels what has begun; tasks are settled unless the consumer is stopped; DisposeAsync completes | 3 items: cancellable, cancellable and asynchronous, dispatched and ending the consumer |
| `breaker` | state and counter agree, a half-open breaker has its probe, probes are a delay apart and the only ones let in, a breaker leaves half-open unless the filter ignored how its probe ended (`ProbeDecides`) | 3 callers, threshold 2, delay 2, a filter that may ignore |
| `pipeline` | the number of retries is exact, when the maximum is the largest int, and when it is negative and the counter wraps before it meets it; the waits come in order, and the array of time outs is read out of its bounds in two cases only (`WaitsInOrder`); the breaker is told what the caller is told; a loop behind the breaker counts once; a call ends | 2 calls, both orders, every kind of call, 4 dispatchers |
| `actors` | the factory's disposal leaves no fiber of a built actor running, stops none that the user keeps, and ends; Sends that go one way return | 2 actors, 2 calls, 5 managers, Sends of either actor to either |
| `backbone` | a disposed back bone has no source; a cancelled message has no result | 2 sources, 2 messages |
| `docs` | headings are nested under the right ones; every group shows one tab through all clicks; the filter hides exactly what does not match; what the page shows of a search in the end answers what was typed last, and a query is answered or has thrown. The page scripts and the search share no variable: `MCDocs` explores each while the other rests | 5 headings, 6 layouts of groups, 2 tables of contents; 3 inputs, 3 handlers |
| `lunr` | the token set accepts the indexed terms only and is minimal; any text can be asked for; clauses do not leak into one another; a search finds what a definition of matching by edits and wildcards says; no pair of a vector is missed | 2 letters and a digit, corpora of 2 documents, every string of 3 of 9 characters, and clauses of fields, boosts, wildcards and one or two edits |

Runs that TLC refutes, each with a line of the repository that says otherwise
(see `findings` in `PROJECT.json`):

| run | counterexample |
|---|---|
| `fiber_async_lost` | an action that awaits across DisposeAsync: its task never ends |
| `breaker_stuck` | the probe's exception is ignored by the filter: half-open for ever |
| `lunr_keys` | seven words of digits: two different nodes have the string `002112` (0 to node 2 and 1 to node 12; 0 to node 21 and 1 to node 2), `minimize` merges them, and the index has 402 and 41 for 40 and 410 |

### What the properties are worded around

The code does more than its documentation says. Each of these is in the models,
and the property that meets it names it as its exception.

* Enqueue passes the token check, the queue is drained, and the node is linked
  to nobody (`BlockingMpscQueue.cs:37`). A producer between its exchange and its
  link also hides from the drain an item that was enqueued before (`:40`);
  `MpscFifo` makes this gap part of its promise. In `Actors` such a push is
  `Lost`.
* A producer past its lock block may release the disposed semaphore: an
  ObjectDisposedException comes out of Enqueue (`SimplifiedEventCount.cs:81`, the
  place `threw`).
* An item cancelled between `CancellableWorkItem.cs:33` and `:36` has a cancelled
  task and runs: what `code` says of it and what `task` says part ways here, and no
  property excludes it.
* Any OperationCanceledException of a dispatched action ends the consumer
  (`MonoThreadedFiber.cs:107`, the constant `Killers`); what is enqueued afterwards
  is accepted and never served.
* A success from before the opening closes an open breaker at once
  (`CircuitBreakerDispatcher.cs:212`). `ProbesSpaced` speaks of the way through half-open only.
* In half-open the void behaviour is run first for calls of both kinds
  (`CircuitBreakerDispatcher.cs:192`): a caller who has a fallback may get an exception.
* `ForEver` is int.MaxValue retries (`RetryBuilder.cs:17`), after which a call
  gives up like any other. A negative maximum stands for 2^31 retries or more (`Retries`).
  With an empty array of time outs even `ForEver`, which `IRetryBuilder.cs:11-12` describes as
  "without limit", retries nothing: the first failure ends the call with an
  IndexOutOfRangeException in place of its own (`ArrayTimeOutProvider.cs:24`, the outcome `outOfRange`).
* `breaker.Then(retry)` with a retry that waits: Dispatch drops the task
  (`DispatcherAdapter.cs:18`) and the breaker records a success before there is one
  (`Detached`). A loop that the caller cancels is a failure to the breaker.
* Two fibers that Send to each other wait for ever; `SendsReturn` needs `Ordered`.
* A Build that overlaps DisposeAsync adds its fiber after the snapshot, and the
  fiber is never stopped (`ProxyFactory.cs:79-87`, `early`). With one dispatcher for all, the one
  fiber is told to stop once per actor and once more.
* A first Connect that overlaps Dispose keeps its source (`BackBone.cs:24-38`, `missed`), and
  an exception of a processor leaves an async void handler (`:27`, the stage
  `unhandled`).
* A query that arrives before the stop words, or with a syntax error, throws in
  the worker (`search-worker.js:22`, `dropped`): nothing is answered and nothing
  is asked again, and the hits of the query before stay under the new title.
  Both calls of showSearch bind a handler, and every query is then posted twice. A
  navigation bar with no list is asked for again and again (`docfx.js:360`).
* Tabs with two ids, groups that share some ids only, or a first group with no
  visible tab leave two tabs selected or end in a TypeError (`docfx.js:853`,
  `:908`), and so do tabs that depend on tabs which depend on others: `WellFormed`
  says which layouts are safe. The selection is never
  restored from the address (`docfx.js:962`).
* A heading above the first one ends in a TypeError and the tabs are not rendered
  (`docfx.js:596`).
* After a filter, an entry with entries two levels below may stay visible with
  nothing to show (`docfx.js:474`): `FilterIsExact` asks for it only where what is
  below are leaves.
* A fuzzy query makes its edits from the left to the right: nothing is inserted after
  the last character (`lunr.js:1316`) and of two neighbours one only is deleted (`:1266`).
  So `as~1` does not find `as1`, nor `saa~2` `s`, though `:1216` counts every insertion and
  deletion as one edit. `Edits` says exactly which words are found, at any distance, and
  `AnswersAreExact` compares the automata with it. A wildcard matches no character, too, where
  `:1677` has "one or more" (`WildcardMatches`); under an edit distance it is any one
  character (`Like`). An escaped star is still a wildcard; a text of non-word characters is indexed as
  the empty term; the stop words are taken from searches and not from the index (`search-worker.js`):
  `IndexPipeline` and `SearchPipeline` say so.
* The worker loads `lunr.min.js`, the minified form of `lunr.js`, which the models follow.
* The terms of a query come out of `toArray` in an order that depends on how
  `intersect` met the characters (`ToArray`). `ScoresAddUp` holds for each of several orders, in
  which the indexes are inserted into the vector of a query neither up nor down.

### Bounds, and why they are enough

* Threads are interchangeable and meet only through a few words of memory. Two
  producers are needed for a gap or for a lock conflict, three for a gap before
  a linked item while a third one notifies. The safety properties are proved for
  any number.
* `EpochModulus` is 2 or 3 instead of 2^32, which makes the wrap *more* frequent.
  The proofs take any modulus, even 1: the comparison of epochs is an
  optimisation and no safety rests on it.
* An item is enqueued once. Successive calls of one thread are one of the
  interleavings of distinct items. An action of the fiber model awaits at most
  once; a second await repeats the same two states.
* Two ticks of delay tell "just failed", "on the way" and "elapsed" apart; three
  callers give a probe, a late failure and a late success. In the pipeline one
  tick is enough to open and to try again.
* `IntMax` is 2. The dispatchers stand on both sides of each bound: the counter is checked
  where it would wrap, and where it does, by a maximum that it meets there and by one that it never
  gets to; there are fewer time outs than retries, so that the last one is repeated, or none.
* Two actors are the least that can wait for each other, and under one fiber the
  least that can have it disposed of twice. Two sources are the first, which makes
  the composite, and another one.
* `MaxTyped` and `MaxHandlers` are 3: a query before the index, one after and one
  that overtakes; a page that binds once more than it should.
* Five headings reach every pop of two levels with a sibling after it, and every
  depth of the four levels. The layouts have groups that share tabs, depend on
  one another, stand alone, and break the rules.
* The corpora have terms that share prefixes and suffixes (which the automaton
  merges), a number, stop words, a word with a wildcard and words of no
  letters; a term has four characters at most, one more than the longest string
  that is tried exhaustively. Two edits are the least that meet each other; a variant that
  spends all edits on the first one is caught.

### Deadlock and fairness

A stopped queue or fiber, calls that have ended, a disposed factory or back
bone, a page whose reader went away really stop: their configurations say
`CHECK_DEADLOCK FALSE`. In `EventCount` a disposed count still answers notifiers, and in
the breaker time goes on, so deadlock is checked.

Fairness is weak fairness of threads that are *inside* a call: the consumer's
thread keeps running, a started Enqueue returns, a cancelled source runs its
callbacks, an action ends, an awaited operation completes, a delay elapses, a
Connect or a Build that has begun goes on. No one is required to call anything:
waiters may stay away, items may never be enqueued, no cancellation and no
disposal has to happen, and no file has to arrive. In the queue it is enough
that *some* producer that is inside Enqueue moves on. In `Actors` a method
returns unless it waits for its Send, which is what may deadlock. In the browser
the event loops of page and worker go on. Weak fairness is enough for `_Lock`: a
notifier that takes it also withdraws the announcement, so no thread can take it
again and again while the waiter wants it. The page and the index are checked for
safety only and state no fairness.

## 4. What is proved

TLAPS checks the theorems of eight modules, for every value of the constants. Each
module joins the properties to what makes them inductive (`IInv`), shows with one
step per action that it is kept (`NextIInv`), states `Inductive == Spec => []IInv`
and draws the theorems from it; where a conjunct takes more than a few lines it
has a lemma of its own.

`EventCountProofs`, from `EpochAssumption` (the modulus is positive) and
`OwnerAssumption` (owners of the lock are distinct). `IInv` adds `LockInv` (who
owns the lock is where the lock is held, and conversely), `WaiterInv` (what
`_InWait` and `_Spurious` can be at each place of the waiter) and `TokenInv` (the
token accounting together with the single token and with the fact that `_InWait`
is down, and stays down until the waiter itself raises it, while a notifier is
committed). Theorems: `TypeCorrect`, `TokensAccounted`, `TokensSingle` and, for the
action property, `ReleaseNeverFull`.

`BlockingMpscQueueProofs`, from those and `ItemsAssumption` and `NullAssumption`.
`CountSteps` and `SameSteps` show that a step of the queue is a step of the event
count or leaves it alone, so that the invariant of `EventCountProofs`, taken
through an instance of that module, holds of the event count inside the queue.
Two conjuncts are about the queue itself: `NotifyingInv` (a call of NotifyOne is
inside a call of Enqueue) and `ParkInv` (once the consumer has
looked again and found nothing, an item that is linked comes with a token of the
semaphore or with a producer that has yet to notify). Theorems: `TypeCorrect`, `WakeupsAreNotLost`.

The refinement is a theorem too: `QueueIsFifo == Spec => ImplementsFifo`. `order`,
the history of the exchanges, numbers the nodes of the list (`At`), and `ShapeInv`
says what the pointers of the code are in these terms. `OrderInv`: who has
exchanged is in the order once. `ListInv`: `_Head` is the last place, and a node
leads to the next place exactly when the producer of that one has linked it, so
that gaps may be anywhere. `CursorInv`: the tail and the cursor of the consumer
are places of the list. With these a step of a producer or of the consumer is the
step of `MpscFifo` that takes or puts the item of that place, or stutters.
`EnqueueThrowsLate` joins `EndInv` to them: Enqueue throws only when the consumer has ended.

`MonoThreadFiberProofs`, over `MpscFifo` and so over any queue that implements it. `QueueInv`: an
item is in the queue once, and nothing is drained while the consumer loops.
`ThreadInv`: what runs was given to the callback. `TaskInv` and `CanceledInv`: a
work item has a task and, until it is settled or begun, its registration; a
task is cancelled by its token, by a refused Enqueue or by the drain. Theorems:
`TypeCorrect`, `TakenSettled`, `RunningSpared`. `QueueIsUsed == Spec => Queue!Spec` closes the gap to the queue:
the fiber does nothing to it that `MpscFifo` does not allow, and `QueueIsFifo` says
that the linked list is a `MpscFifo`.

`CircuitBreakerProofs`, from `BreakerAssumption` (a positive threshold, a
natural delay). The invariants are joined to `SpacingInv`, which bounds the time
since the last failure by the time since the last probe: a failure recorded
later than the probe can only push the next probe further. Theorems:
`StateFollowsFails`, `HalfOpenHasProbe`, `SpacedProbes`, `ProbesOnly`.

`PipelineProofs`, from the assumptions of `Retry` and `Pipeline`, over both orders, for any dispatcher that
the builder can make. `RetryInv` ties the counter
to the attempts at each place of the loop, before and after it has wrapped (`Wrapped`); the lemmas about it are about the
actions of `Retry`, and serve every step of the pipeline that takes one.
`PassageInv` says where a call may be, for each order, while it is at the door of
the breaker, inside it, or past it. Theorems: `RetriesAreCounted`,
`WaitsAreInOrder`, `OutcomesRecorded`. `LoopsAreCountedOnce`, from
`CallsAssumption` (so many calls were made: a finite set), rests on `CountedSteps`: a step that
adds a failure to the counter of a breaker around a loop ends one more call as failed.
`BreakerIsUsed` shows that a pipeline is a behaviour of the breaker for each of the
breaker's variables, and `ComposedBreakerIsSafe` draws from it, and from the theorems of
`CircuitBreakerProofs` taken through an instance, that a composed breaker keeps
all that a breaker alone does.

`DisposalProofs` is about two components that meet only there. Of `Actors`, from
`ActorsAssumption`: `BagInv`: a fiber that was built is in the bag of its
manager. `DisposalInv`: what was in the bag when DisposeAsync began is told to stop, or
is about to be. `FiberInv` and `PlaceInv` say what can still run where. Theorem: `DisposalIsQuiet`.
Of `BackBone`, from `BackBoneAssumption`, with `BackBoneInv` for its inductive invariant:
`CompositeInv`: the lazy composite is there once
something was added, and disposed of once Dispose has found it. Theorem:
`DisposalDisconnects`. `CancelledGoesNoFurther` is what is safety in
`CancelledHasNoResult`: a message that is cancelled before its finalizer has begun
stays on its way or throws, and never gets to it (`OnTheWay`, `Failed`).

`DocsProofs`, from `TreesAssumption` (an entry of a table of contents comes after
what it is below) and `LayoutsAssumption` (layouts are sequences of groups, and to
have no condition is not an id), for articles, groups and tables of any size. The
loops of these scripts are recursive functions, and a theorem of the library about
them would need an operator for an argument; `Least`, `Induction`, `Recursion` and
`Stays` say the same of *sets*: a recursive function exists, and stays in the sets
`I[k]` that its steps lead from and to. The rest of the module chooses the `I[k]`.

* `HeadingsNested`. `OutlineInv`: the headings of a frame of the stack have one level and
  the same heading above, deeper from frame to frame; those that have left the stack are
  attached to what is above them (`Nested`), and after the last of a frame come only
  headings below it (`Trail`). `Closes` follows the loop of getHierarchy to its end.
* `TabsShown` and `ClicksFollowed`. `Sound(c, k)`: in the classes `c` the first `k` groups
  show one tab that is there and selected, the list of selected ids holds none
  twice (`Holds`) and at most one of each group (`Single`). `UpdateSound` shows that
  updateVisibilityAndSelection leads from `Sound(c, k - 1)` to `Sound(.., k)` and
  loses no tab that was selected (`ReselectKeeps`); `ClickSound` carries the tab
  that was clicked through the loop over all the groups. The proof needs all of
  `WellFormed`: a group where every tab is conditional and nothing it depends on is
  before it has no tab to select (`Inhabited`), two tabs of a group with one id may
  be there together (`Unambiguous`), and a tab that depends on one which comes and goes
  may go in the same click after its group was looked at (`Unconditional`). TLC
  finds a page that breaks when one of the rules is left out.
* `FilterExact`. `TocInv`, and for the loop `Exact`: what the classes of the first `k`
  entries say. `ParentsHaveSome`: an entry that is not a leaf has one below.
* `LastQueryShown`. `SearchInv`: the title is the query, and the last message on its
  way, to the worker or to the page, is about it (`LastIsLast`); before a handler is
  bound nothing is asked (`AnnouncedOnce`).
* `UpsertAdds` and `DotAddsUp`, of the sparse vectors of lunr, of any length.
  `StandsFor(v, h)`: the pairs of `v` are sorted by index, one for each, and `h` is its
  value at every index, 0 where it has no pair. `PositionProperties`: the search by halves
  ends between the pairs below an index and the others. From this `UpsertAdds`, and along
  the merge `DotAddsUp`. Both are the general form of what `ScoresAddUp` checks of whole
  searches.

`LunrProofs`, from the assumptions of `LunrIndex` and `LunrQuery` (the fields have
distinct names, documents have a text for each of them, the stemmer makes strings of
strings, `toLowerCase` maps letter to letter, what is asked is a string, and no special
character is another one or a digit), for documents, terms and queries of any number
and length: `TokenSetExact` and `TokenSetMinimal`, of indexes none of whose terms has a
digit (`NoDigits`), and `QueriesComposed` and `TermsCanBeWritten`, of any index. The condition is there because of `lunr_keys`: without it both are
false. It is sufficient, not necessary; `lunr` checks both with digits on an instance
that has too few nodes for two of them to share a string.

* *Strings.* `SpelledInjective`: without digits among the labels no two nodes have one
  string. It is read backwards: its last character that is not a digit is the last
  label, and what follows it is the last id (`LastLabel`, `DigitsInjective`). So nodes of
  one string are `Alike`, and an edge that leads to one may lead to the other, whatever
  the length of the words (`Redirecting`).
* *The builder.* `Builder(g, F, reg, q, word, len, next)` is the inductive invariant.
  `Path`: `q` is the path of the last word, the edges along it are unchecked
  down to `len`, and no other edge leads to a node of it; `Bounded`: ids are below the next one;
  `Registered`: every registered node is off the path and still spells its key, which it
  could not if it were to change; `Closed`: registered nodes lead to registered
  nodes only, a node of the path to those and along the path; `AllEnd`: some word
  leads on from each. `Checking` shows that one turn of the loop of minimize keeps it with `len` one less, and
  `Minimizing` follows the loop; `Growing` does the same for the branch that insert
  adds where the new word leaves the path. That it leaves it with a label past all those
  the node has (`Rightmost`) is why words have to be inserted in order.
* *Exactness.* `Extending`: the branch adds its word to the language of the root and nothing else;
  minimize adds and takes nothing. `Exact` joins this to the number of terms inserted, and
  `TermsInv` follows add, field by field, to terms that are words, each of them once
  (`IndexedType`), which the sort puts in order (`SortedWordsProperties`).
* *Minimality.* Two registered nodes of the same words have, by induction on the length of the
  longest, the same labels, the same nodes behind them and so one string, under which one
  node only is registered (`Distinct`). The root is in no registry, but it has a longer word than
  any other node (`RootIsLonger`), and what is reachable from it is registered
  (`ReachableLed`, `WordsOfLed`).

* *Composition.* `Stop`, `SliceString` and `Lexemes` go up through the string, so their values
  are found from its end (`Climbing`), and what holds of them is proved from there
  (`ClimbingInduction`). `ParseSplit`: lexText stops at a space that no backslash escapes, wherever
  it began before it, and reads up to there what it reads of the left part alone; a run of
  digits ends there too. From the space on it reads what it reads of the right part, some
  characters further on (`Stands`, `StopShift`). The parser, having read the left part, is
  at a term or at the start; the right part takes it the same way as from the start, with the clauses
  of the left before (`Resumed`).
* *Notation.* `EscapedSpelled`: every character of a text stands in its notation as itself or
  behind a backslash, one after the other. So lexText goes through all of it to the delimiter or the
  end after it, and sliceString gives the text back (`EscapedRead`). `NotationLaid` says where
  field, text, distance and boost stand, `ClauseRead` reads them one by one, and `ClauseParsed` makes the clause.

The recursive functions here are handled as in `DocsProofs`. `RankedRecursion` adds those whose
argument does not go down by one (the digits of a number), and `NatRecursion` those that are
defined on all of `Nat`. The invariants speak of every number of steps and every word, so
TLC cannot evaluate them as they stand; it checks the properties that they imply.

Only model-checked: liveness and ENABLED (`NotifiedWakes`, `EveryItemServed`, `CallEnds`
and the like), which are out of the prover's reach, and two invariants of `LunrIndex`:
`AnswersAreExact` and `ScoresAddUp`. The first compares the intersection of two automata with a
definition of matching, and needs an invariant for each way to make the second automaton: an
induction over data of the kind that is done for the lexer, and has not been done. Of the second
the vectors are proved (`UpsertAdds`, `DotAddsUp`); what is between them and the score, the
keys of a field's counts in the order of a JavaScript object and the terms of a clause in that of `toArray`, is
written with `SortSeq` and `SelectSeq`, of which the prover has no rules.

## 5. What is not modelled, and the plan

Not modelled on purpose: Castle proxies and reflection, Rx subjects and the
channel around one, WPF lookup and the synchronization context fiber that
forwards to it, names of threads, messages of exceptions, the fluent builders,
examples, tests and packaging. Also:

* `SpinningMpscQueue` and `StandardMpscQueue`: no fiber of the library uses them,
  only tests and benchmarks do. (Unlike the blocking queue, the standard one
  throws InvalidOperationException out of an Enqueue after CompleteAdding.)
* `FiberTaskScheduler`: forwards the tasks of the TPL to Dispatch; which of them run
  inline is the TPL's to say. That `ThreadPoolFiber.Thread` is set late and never
  reset is not followed either (`ThreadPoolFiber.cs:98`).
* The ASP.NET cache: what goes wrong between two requests is inside Dictionary.
* An exception other than OperationCanceledException from a dispatched action is
  unhandled on the consumer's thread and ends the process. Continuations that
  TrySetResult runs on the consumer's thread (`WorkItem.cs:30`) are user code.
  Finalizers call the same StopQueueing as DisposeAsync.
* `DateTime.Now` (`CircuitBreakerDispatcher.cs:197`) is local time; the clock of the
  model only goes forward. Time outs are finite and not negative.
* Of `lunr.js`: serialisation of an index, the rules of the stemmer (any function
  of terms), the score beyond boost and weight, and so the order of the answers.
* Of `docfx.js`: the markup of tables, links, alerts, breadcrumbs and footers, and
  `localSearch`, which nothing calls. `docfx.vendor.js` is minified third-party code.

What is left, in the order of what it would add:

1. `Spinning-` and `StandardMpscQueue` against `MpscFifo`; `FiberTaskScheduler`.
2. Serialisation of an index, and the order of the answers.

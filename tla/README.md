# Verification of sisa-messaging

TLA+ modules, model-checking runs and machine-checked proofs for the sisa-messaging workspace
(`src/`): a message bus in Rust whose services publish through an optional transactional outbox,
receive on durable endpoints and deduplicate with an optional inbox, over NATS JetStream and
PostgreSQL. The modules are translated from the code in `src/crates`; `PROJECT.json` says for every
definition which lines it stands for.

- [The system](#the-system)
- [The modules](#the-modules)
- [The outbox](#the-outbox-outboxtla), [its runs](#runs-of-the-outbox), [its proofs](#proofs-of-the-outbox)
- [The endpoint](#the-endpoint-endpointtla), [its runs](#runs-of-the-endpoint), [its proofs](#proofs-of-the-endpoint)
- [The NATS transport](#the-nats-transport-natstransporttla)
- [The in-memory transport](#the-in-memory-transport-inmemorytransporttla)
- [The partitions](#the-partitions-partitionstla)
- [The bus](#the-bus-bustla)
- [The journey of a message](#the-journey-of-a-message-journeytla)
- [Where the code and its documentation disagree](#where-the-code-and-its-documentation-disagree)
- [What is not modelled, and the plan](#what-is-not-modelled-and-the-plan)

## The system

| Part | Source | State it keeps | Operations | Talks to |
| --- | --- | --- | --- | --- |
| Outbox store | `postgres/src/outbox.rs`, the migration | rows: status, due time, attempts | `insert` in the caller's transaction; `claim`, `mark_dispatched`, `mark_retry`, `mark_failed`, each committed on its own | PostgreSQL |
| Dispatcher | `runtime/src/dispatch.rs` | the batch of the round, its deadline, what it published | `run`: rounds of claim, publish, mark; poll; stop | store, transport |
| Endpoint | `runtime/src/endpoint.rs`, `handler.rs`, `retry.rs` | the delivery in hand, the publishes its handler holds | `receive`, `process`, `send_held`, the settlements | transport, pipeline |
| Inbox | `runtime/src/inbox.rs`, `postgres/src/inbox.rs` | receipts, the open transaction of each delivery | `begin`, `record`, the handler, `write`, `commit` | PostgreSQL, outbox store |
| NATS transport | `nats/src/*.rs` | the stream, the shared consumer's filter, the duplicate window | `connect`, `publish`, `subscribe`, `publish_error`, `set_aside`, ack / nak / term | JetStream |
| Bus | `runtime/src/bus.rs` | the workers, the stop signal | `start`, `publish`, `shutdown`, last clone dropped | all of the above |
| Partitions | `runtime/src/maintenance.rs`, `postgres/src/partitions.rs`, `core/src/partition.rs` | the tables' partitions, a session lock | hourly: create ahead, warn about the default, expire | PostgreSQL |
| In-memory transport | `runtime/src/in_memory.rs` | a queue per endpoint, its notify permit | `publish`, `subscribe`, the settlements, drop | - |
| Values | `core/src/{envelope,message,codec,time,...}.rs` | none | parse, validate, encode, calendar arithmetic | - |

How they interact. A service's transaction inserts outbox rows; each instance of the service runs a
dispatcher, and all of them compete for the rows through the database: a claim moves a row's due
time a lease ahead, which both keeps others off and is the token that later marks must match. The
dispatcher publishes through the transport. Each instance also runs one worker per endpoint; they
compete for the copies the broker holds for that endpoint. A worker runs the handler (with an inbox,
in one transaction with the receipt and the outbox rows of the handler's publishes), then settles the
delivery. One stop signal per bus ends its workers between two deliveries, rows or polls.

What is hard about it is listed, at its line, under `hazards` in `PROJECT.json`: leases that run out
under a dispatcher that still works, statements whose answer is lost, publishes that arrive after
they were given up, deliveries that come again while the first is still being handled, commits with
an unknown outcome, crashes between any two steps, and instances of different versions sharing one
endpoint.

What makes each part correct:

- *Outbox*: a message goes out if and only if its transaction committed; `dispatched` means the
  broker has it; two dispatchers do not work on one row within their leases; a late mark changes
  nothing of a newer claim; attempts are counted once each; every committed row ends `dispatched` or
  `failed`.
- *Endpoint and inbox*: acked means handled, committed, and published or written to the outbox;
  rejected means kept in the error destination; with an inbox the handler's work happens once;
  everything is settled in the end.
- *Transport*: an endpoint gets every message of its types once it subscribed, never its own error
  copies, and nothing is terminated without a copy.
- *Bus*: no worker starts unless all subscribed; after a shutdown no worker runs.
- *Partitions*: each day of the next intervals has a partition or is in the default, no two overlap,
  no unsent outbox row expires.

## The modules

| Module | What it is |
| --- | --- |
| `Outbox` | The outbox rows, the statements on them, the dispatchers, the broker and time; its properties, inductive invariant and fairness |
| `OutboxPromise` | What the outbox promises of each message; `Outbox` implements it |
| `MCOutbox` | Instances of `Outbox` for TLC |
| `OutboxProofs` | TLAPS proofs about `Outbox` |
| `Endpoint` | The workers of one endpoint, the pipelines with and without inbox, the broker's copies and the database's transactions |
| `EndpointPromise` | What an endpoint promises of each copy; `Endpoint` implements it |
| `MCEndpoint` | Instances of `Endpoint` for TLC |
| `EndpointProofs` | TLAPS proofs about `Endpoint` |
| `NatsTransport` | The JetStream stream and consumer as the NATS transport uses them |
| `MCNatsTransport`, `NatsProofs` | Instances of `NatsTransport` for TLC; TLAPS proofs about it |
| `InMemoryTransport`, `MCInMemoryTransport`, `InMemoryProofs` | The queues of the transport inside the process, and the Notify their streams wait on |
| `Partitions`, `MCPartitions`, `PartitionsProofs` | The partitions of the outbox table and their maintenance by several instances |
| `Bus`, `MCBus`, `BusProofs` | The builder, `start`, the workers, clones and `shutdown` |
| `Calendar`, `CalendarProofs` | Days, dates, times and partition intervals, as functions; that they are those of the calendar |
| `Envelope` | The envelope with its checks, and its forms: attributes, rows, receipts, headers, error copies |
| `RetryPolicy` | The delay after an attempt, and which attempt is the last |
| `Journey`, `MCJourney`, `JourneyProofs` | One message through all of these forms; checks `Calendar`, `Envelope` and `RetryPolicy` |

The models are separate because each is about one kind of difficulty, and share their borders: the
broker that `Endpoint` assumes is what `NatsTransport` and `InMemoryTransport` model; the rows whose
partitions expire in `Partitions` are those of `Outbox`; the workers that `Bus` starts and stops run
`Endpoint`, `Outbox` and `Partitions`; and the steps that `Journey` takes one after the other are
those of `Outbox`, `NatsTransport` and `Endpoint`, with what they carry in place of when they run.

Each model has definitions marked *Slip*: a plausible mistake in one definition (a dropped guard, a
swapped order). They are not part of any specification; `PROJECT.json` pairs each with the property
that fails when it takes the place of the definition, so every property is known to be able to fail.

Run a check with `tlc -config MCOutbox_contention.cfg MCOutbox` and a proof with
`tlapm OutboxProofs.tla`.

## The outbox (`Outbox.tla`)

**State.** `status`, `due` and `attempts` are the columns `status`, `available_at` and `attempts`;
`absent`, `open` and `rolledback` stand for a row before its insert, in its writer's open
transaction, and after a rollback. `phase`, `left`, `leased`, `todo`, `seen` and `published` are the
local variables of `round`: `claimed_at + lease`, the records' `leased_until`, the rest of the batch,
the records' `attempts`, and the vector `published`. `stop` is the watch channel. `stored` is what
the broker has and `late` the publishes the dispatcher gave up on that the broker may still store.

**Steps.** One action per await: a statement is one atomic step, since each commits on its own, at
the database's `now()`. `Claim` takes the oldest due rows, except that a row another statement may
have locked at this moment (`Locks`) may be skipped, as `FOR UPDATE SKIP LOCKED` does. `ReadRow`,
`ReadFails` and `ReadDone` are the loop in `claim` over the rows that came back. `Send`, `PublishOk`,
`PublishErr`, `PublishTimeout`, `PutBack`, `LeaveLoop` and `MarkBatch` are the loop of `round`. A
statement that is answered with an error either had no effect (the `...Fails` actions) or had its
effect all the same; the code only logs an error of a mark, so the second case is the mark itself.
`Crash` kills the process in any phase with its last statement in effect or not, and starts another.

**Time** is relative: `due`, `leased` and `left` count the ticks from the present to a moment, and
`Tick` brings them all a tick nearer. The database's clock and the dispatcher's monotonic clock are
assumed to run at the same rate; they are never compared with each other. A moment between two ticks
is rounded up, so every retry delay is at least one tick. `mark_failed` sets `available_at` to its
own `now()`, which is strictly later than the end of every lease granted before on the row (the claim
saw them pass), and so is modelled as one tick ahead.

**Abstractions.** A row's columns other than these are its identity and whether they make a valid
envelope (`Unreadable`). The texts of errors and logs are left out. Which delay `RetryPolicy::delay`
gives is any of `RetryDelays`.

**Bounds**, each a guard by name. `AttemptBound`: a failed row is set back by a person while its
count is below it. `StallBound`: how far past the end of its lease a round may fall behind; any
positive value lets another dispatcher claim the row, work on it, put it back or fail it while the
first still holds it. `AgeBound`: a due time further back than this is not told apart; the code only
asks whether it has come, and whether it equals a lease that is at most `StallBound` old.

### Runs of the outbox

| Run | Instance | What it shows |
| --- | --- | --- |
| `outbox_contention` | 2 rows in one batch, 2 dispatchers, lease 1, 2 attempts | The safety properties under competing claims, partly handled batches, lapsed leases and stale marks |
| `outbox_takeover` | 1 row, 2 dispatchers, one of which may be stopped for good | Liveness across dispatchers; the refinement |
| `outbox_drain` | 2 rows, one unreadable, 1 dispatcher, batches of 1 | Liveness through errors and retries; the mark inside the claim, and full batches that are followed by the next round at once |

Type correctness and the inductive invariant are proved below for every instance, so no run spends
its time on them. Two dispatchers are enough for every property that relates dispatchers, since each is about a pair;
two rows are enough for batches that are partly published, put back and left.

**Fairness.** Time passes, and each dispatcher's task runs on (Tokio schedules a ready task). From
some time on there are no more crashes and every round ends within its lease; and an error does not
come back for ever to the same statement about the same row. The second assumption is needed, and is
not given by the code: a publish that always outlasts the lease counts no attempt, so its row is
claimed again for ever and the rows after it in its batch with it (`dispatch.rs` line 144).

### Proofs of the outbox

`OutboxProofs` proves, for every finite set of rows, every set of dispatchers, any batch size, lease,
attempts and delays, type correctness (`TypeCorrect`), `DispatchedIsStored` (`Dispatched`),
`OnlyCommittedIsSent` (`Committing`), `LeaseExclusive` (`Exclusive`), `NoOverwrite`
(`NotOverwritten`), `AttemptsDecide` (`AttemptsCounted`), and that `Outbox` implements
`OutboxPromise` (`Implements`). They rest on the named assumptions of the module and on the inductive
invariant `IInv` (`Inductive`), whose parts are:

- `HoldingInv`: rows are held in a round only, and a row to do is not one that is published.
- `DeadlineInv`: the dispatcher's deadline comes no later than the database's. This is the comment in
  `round`: `claimed_at` is read before the claim is sent.
- `TokenInv`: the due time of a held row is never before the one its claim set; while it is that one
  and lies ahead, nobody has touched the row; when the two are equal the row is pending with the
  attempts the claim saw. This is why matching the due time is a fence.
- `UniqueInv`: two dispatchers that hold one row hold it under different due times. This is what
  makes the fence unambiguous, and rests on a claim taking only rows whose due time has come.
- `BrokerInv`: what reached the broker was committed, and `published` and `dispatched` name rows the
  broker has.

`LeaseExclusive` alone is not inductive: it says nothing of due times, so a claim could not be shown
to leave other holders alone. The proof has a lemma per group of steps: those that change no row and
let go of rows at most (`LetGoInv`), the marks (`MarkedRowInv`, `DispatchInv`), the claim (`ClaimInv`),
the ends of a round (`RoundEndInv`) and time (`TickInv`).

## The endpoint (`Endpoint.tla`)

**State.** The broker's side is `copy` (a copy waits, is out with an instance, or is settled for
good), `deliveries` (its delivery count), `errors` (the error destination) and `sent` (how many of a
handler's publishes it has). `MessageOf` lets it store one message twice, as a publish that was
retried outside the duplicate window does. The database's side is `receipts`, `holder` (who holds an
uncommitted receipt: a worker, a transaction that was dropped and is not rolled back yet, or one
whose COMMIT was not answered), `work` and `outbox`. A worker's side is `step` (where `process` and
`run` stand), `job`, `attempt`, `broken` (the transaction is aborted) and `held`.

**Steps.** One action per await of `process` and of `Transactional::run` or `Plain::run`, and a
failing twin for each call that can fail, with its effect or without where the caller cannot know.
`Record` waits while another transaction holds the same receipt, as `INSERT ... ON CONFLICT DO
NOTHING` does on the unique constraint. `DropTransaction` does not roll back at once: the rollback
reaches the database later (`Resolve`). `Settle` takes a settlement in any time order: also one for a
copy that has timed out and is out again with another instance; `SettleFails` is one that did not
take effect. `AckExpires` may come at any time, so every handling may overlap with the next.

**Abstractions.** The attempt number is counted up to the last attempt, since the code only asks
`is_last`. The retry delay is how long a waiting copy may wait. Deliveries a client has pulled and
not begun are the waiting ones: one that times out there is a copy whose handling starts stale. A
handler publishes `Publishes` messages, in order. `Handles` is per instance, since the instances of an
endpoint share its copies while a deploy is under way: one without a handler gives a message up at
once (`find`) that another would handle, and its copy in the error destination is what is left of it.

### Runs of the endpoint

| Run | Instance | What it shows |
| --- | --- | --- |
| `endpoint_inbox` | 2 messages in 3 copies, 2 instances; the second message does not decode and one instance has no handler for it; inbox and outbox | The safety properties and the refinement |
| `endpoint_plain` | 1 message in 2 copies, 2 instances, 2 publishes, no inbox | The same without a transaction, with partly sent publishes |
| `endpoint_settled` | 1 copy redelivered among 2 instances, one of which may stop; inbox without outbox, no publishes | Liveness; the statement before the COMMIT, which keeps an aborted transaction from being acked |

Two attempts tell the last from the others; two instances and two copies of a message give every
overlap of two handlings. Deadlock is not checked: when every copy is settled, the workers wait for
deliveries that do not come.

**Fairness.** The broker delivers what waits and times out what is held, the database ends every
transaction, each worker runs on, and there are no more crashes from some time on. An `Ack`, a
publish to the error destination and a `Reject` that are tried again and again succeed at last.
Nothing is assumed of the handler, of `begin`, `record` and `commit`, or of the publishes.
`RecordFails` is not among the steps a worker must take, so that a worker that waits for a receipt is
freed only by the end of the transaction it waits for.

### Proofs of the endpoint

`EndpointProofs` proves, for any messages, copies, instances, handlers and attempts, type
correctness, `WorkOnceAndWhole`, `HandlerAlone`, `RejectedHasCopy`, `AckedIsDone` unless the endpoint
has an inbox and the bus no outbox, and that `Endpoint` implements `EndpointPromise`. The inductive
invariant `IInv` adds to them: who works in a transaction holds its receipt and a held receipt is not
a committed one (`TransactionInv`); who sends has had its work done and has sent what it no longer
holds (`SendingInv`); who rejects has put the copy in the error destination (`RejectingInv`).

## The NATS transport (`NatsTransport.tla`)

**State.** `stream` is the sequence of stored messages, of the endpoint's types or on its error
subject (`of` names the message an error copy is made from); `window` the ids that the duplicate
window still remembers. `durable` and `filter` are the consumer, `place` where each stored message is
with it: ahead, passed over, waiting for (another) delivery, out with an instance, or settled.
`phase`, `subjects` and `job` are the local state of `subscribe` and of the deliveries it returns.
`subscribed` and `owed` only record history: the types of the instances that have subscribed, and the
messages stored after that.

**Steps.** `subscribe` is two steps with the server in between, since the consumer's filter is read
in one request (`ReadConsumer`) and written in another (`CreateConsumer`), which the server takes
whatever it saw in the meantime. The consumer walks the stream in order and goes past what its filter
does not take, for good (`Pass`). `set_aside` and the runtime's `publish_error` store a copy first
(`CopyAside`) and terminate second (`Reject`); each may fail with its effect or without. What the
runtime does between a delivery and its settlement is the endpoint's model, and any choice here.

**Abstractions.** Subjects, headers and bodies are reduced to the type, the id and whether the
headers make an envelope. A second error copy of one message is not told apart from the first. A
publish is one step of the server; whether its sender learns of it is in `Outbox` and `Endpoint`.
An envelope whose attributes do not fit a header never reaches the stream and is left out.

| Run | Instance | What it shows |
| --- | --- | --- |
| `nats_deploy` | 2 messages, one no envelope; 3 instances, with type a, with type b and with none, that start one after the other | The safety properties, through restarts and subscribes that fail |
| `nats_settled` | 1 message, of two, one no envelope; instances with types a, and a and b | Liveness |

`OneStarts` is an assumption about deployments: an instance subscribes only when no other one is
between its two requests, and a failed subscribe has no request on its way any more. Without it
nothing keeps a subscribed type in the filter (see [below](#where-the-code-and-its-documentation-disagree)). So
`FilterOnlyWidens` is about one instance's read and write, with failures, crashes and restarts around
them, and not about two that overlap. Two instances with different types
are every pair of versions; a third with none meets the guard for an empty filter; two messages give
an owed one behind one that is not. `MaxStored` bounds the originals in the stream; every one of them
can have its error copy besides.

**Fairness.** The server goes on delivering and its ack wait runs; an instance that is down starts
again, goes on with what it has, and from some time on does not crash; creating the consumer, and
settling or setting aside a given message, succeed at last when they are tried again and again. That
the runtime acks a message or gives it up at last is what `endpoint_settled` shows. Deadlock is not
checked in `nats_settled`: when all is settled there is nothing left to do.

**Proofs.** `NatsProofs` proves, for any types, messages, instances and number of stored messages, type
correctness, `TerminatedHasCopy` (`TerminatedIsCopied`) and `CopiesStayAside` (`CopiesAreAside`), and,
when instances start one after the other, `TakesItsOwn` (`EndpointTakesItsOwn`) and `FilterOnlyWidens`
(`FilterWidens`). `OneStarts` stands in front of the last two as a hypothesis. The inductive invariant
`IInv` adds that an instance about to write the consumer has its own types in the filter and never an
empty one (`WritersInv`); that the consumer has a filter and everything before it is passed
(`ConsumerInv`); that an error copy lies on the error subject and is never delivered (`CopiesInv`);
that what an instance has was taken by the consumer (`JobsInv`); and that who terminates has made a
copy (`TerminatingInv`). `OneInv` is the part that needs `OneStarts`: the one instance that is about to
write has read the filter as it still is, so all that was subscribed to stays in it.

## The in-memory transport (`InMemoryTransport.tla`)

**State.** `queue` has the pending copies of each endpoint; `permit` and `waiters` are the `Notify` of
the queue, and `notes` counts the copies that are in the queue while their `notify_one` is still to
come, since the two are not one step. `phase` is where each stream stands in `pop`: looking, having
found nothing, waiting, woken, or looking again with the permit it took; a stream that is `handling`
has a delivery out. `later` are the copies that the tasks of `retry` sleep over. `acked` and
`rejected` record what an endpoint is done with, `owed` what it was to get.

**Steps.** `Take`, `FindEmpty` and `Wait` are the turns of `pop`'s loop, between any two of which
others push. `Publish` copies a message to every endpoint with its type; `Ack`, `Retry` with `Due`,
`Reject` and `Drop` are the delivery's ends, of which the last puts an unsettled copy back. `Close`
is a stream that its owner drops; tokio hands the wake-up of a waiter that is dropped to the next one.

**Abstractions.** The time of a retry is any time. `publish_error` appends to a list that only tests
read, and is left out.

| Run | Instance | What it shows |
| --- | --- | --- |
| `in_memory` | 2 messages of 2 types; 2 streams of one endpoint, the second with one type more; a third on an endpoint of its own, which its owner may drop | `OneCopy`: each endpoint has one copy of each message it subscribed to; `NoPushIsMissed`: no stream sleeps over one; `EveryCopyIsSettled` |

Two streams and two messages give every way for a push to fall between a look and a wait while
another stream takes the permit. `MaxAttempt` is 2: every end of a delivery may then come after
another. **Fairness:** tasks that can run do, timers fire, and the owner of a stream settles or drops
what it has and asks for more. Deadlock is not checked: when all is settled, the streams wait.

**Proofs.** `InMemoryProofs` proves, for any messages, endpoints, streams and attempts, type
correctness, `OneCopy` (`OneCopyEach`), and `NoPushIsMissed` (`PushIsSeen`) under `NoSharerCloses`: a
stream that its owner may drop shares its endpoint with no other, which is what leaves out the missed
push described [below](#where-the-code-and-its-documentation-disagree). The inductive invariant has
the waiting streams in the line of their `Notify`, each once, and none of them beside a permit
(`LineInv`); what an endpoint is owed in exactly one of its queue, the tasks of `retry`, its streams'
hands and what it is done with, each place without doubles (`CopiesInv`); and, for the pushes,
`AwakeInv`: while there are copies in a queue, there is a permit, a wake-up still to come, or a stream
on its way to look. Two steps are what it is needed for: a stream that finds nothing between a
push and its `notify_one`, and one that takes a permit and one of several copies.

## The partitions (`Partitions.tla`)

**State.** Days are numbers. `attached` are the table's partitions, `archived` the tables detached
from it; a partition is named after its first day. `fate`, `day` and `home` are a row's status, the
day of its `created_at`, which is the day its transaction began, and the partition it lies in. `run`
has the local variables of each instance's run; `lock` is who has the advisory lock: an instance, or
a session (`Closing`) whose connection is closed and which the server is still to end. `alone` and
`reach` only record history: the runs that no other run has overlapped, and how far ahead such a run,
when it met no error, has made sure of the days. A run that loses its lock leaves `alone`, as the next
one then begins beside it, and `reach` falls back to today when two runs overlap.

**Steps.** `maintain` is a step per statement: take the lock, list, create the missing partitions one
by one, check the default partition, list again, count the unsent rows of each expirable partition,
expire the ones with none; with a failing twin of each, `CreateFails` with its effect or without.
`Attach` is what PostgreSQL accepts: no overlap, no row of those days in the default partition, no
table of that name. Creating waits for the writers in the default partition, expiring for those in
the partition. `LockLost` is the session of the lock ending under a run, which goes on with its other
connections; `Abort` an error or a process that dies.

**Abstractions.** An instance's intervals are the set of days they start on (`FirstDays`);
`Journey` checks that days, weeks and months are such intervals. The inbox's table is kept in the
same way without the counts, and is not modelled apart.

| Run | Instance | What it shows |
| --- | --- | --- |
| `partitions` | 2 instances, with intervals of 1 day that drops and of 3 days that detaches, 1 interval ahead, retention 1; 1 row; days 0 to 2 | `CoveredAhead`, `LockHasARun`, `OnlySentExpires`, `GapsOnly` |

Intervals of one and of three days that start on other days give every kind of gap: whole, at the end
of an interval, and within one. One row is enough, as no property relates two.
The three days end before a longer partition lies across another instance's cutoff; that such a
one is kept is what `AheadIsCovered` and `SentBeforeExpired` prove, for any intervals and days.

Three assumptions of these properties are about how the service is run, and lie in the instance:

- `OnlySentExpires` needs transactions no longer than the retention (`LongestTransaction`). A longer
  one commits a row into a partition that was counted, and expires with it unsent.
- `OnlySentExpires`, `CoveredAhead` and `GapsOnly` are stated of runs that no other overlaps (`alone`).
  The advisory lock sees to that until its session is lost. A run that goes on after that expires by
  *name*: another instance may have expired that table and made another of its name since.
- An interval much longer than the retention makes the worker create partitions for days that are
  expirable at once. It then creates and expires them in turns, or, when it detaches, finds the name
  taken and leaves those days, all before today, to the default partition.

**Proofs.** `PartitionsProofs` proves, for any instances, intervals, ranges and rows, type correctness,
which says that no two partitions overlap and every row lies where PostgreSQL routes it;
`LockHasARun` (`LockIsARuns`), `CoveredAhead` (`AheadIsCovered`), `GapsOnly` (`OnlyGaps`), and
`OnlySentExpires` (`SentBeforeExpired`) under `ShortTransactions`, which is
`LongestTransaction <= Retention`. Of an instance's intervals it assumes that every day is in one and
that there are the next ones to create (`IntervalsAssumption`), which `CalendarProofs` shows of days,
weeks and months (`IntervalsTileDays`). The inductive invariant says that no two tables share a name,
detached ones included (`NamesInv`), which makes expiring by name safe; that a run alone is the
only one (`AloneInv`); that while such a run creates, the partitions it does not know lie behind its
cursor, and every day it has passed without an error is held (`Filling`); and that what it is about to
expire is attached, and over for the retention (`Doomed`). For `OnlySentExpires`, `CleanInv` adds that
a partition counted without unsent rows gets none: a row's day is at most `LongestTransaction` before
today, which a doomed partition has behind it.

## The bus (`Bus.tla`)

**State.** `endpoints`, `outbox` and `partitions` are the builder's; an endpoint is built when it is
given to the builder, so what it `writes` to depends on the order. `worker` is what each task does:
`idle` in its select before it looks for the stop, `looking` after it has seen none, `busy`, `ended`.
`handles` are the join handles behind the mutex, `call` what each clone's `shutdown` does.

**Steps.** The builder's calls in any order; `Check` and `SubscribeNext` of `start`, which may fail or
be dropped between any two subscriptions; `Spawn`. A worker's select looks for the stop first
(`Look`), may then still take up work that comes (`TakeUp`), and sees the stop the next time. A clone
calls `shutdown`, waits for the mutex, waits for the last worker and takes its handle out *after* it
has ended, so that a call that is dropped between (`DropCall`) leaves the handle to the next. The last
clone that drops closes the channel.

| Run | Instance | What it shows |
| --- | --- | --- |
| `bus` | up to 2 endpoints of 2 names, up to 3 workers, 2 clones | `RunsWhole`, `ReturnedMeansStopped`; `ShutdownReturns` and `LastDropEnds` |

Two clones give a call behind another and a call after a dropped one. **Fairness:** each worker's task
runs on and its handler returns in the end; the mutex is handed to those who wait. A handler that
itself awaits `shutdown` waits for itself, as the comment at `bus.rs` line 204 warns, and is left out.
Deadlock is not checked: a bus that has stopped stays so.

**Proofs.** `BusProofs` proves, for any names, endpoints, workers and clones, type correctness,
`RunsWhole` (`BusRunsWhole`) and `ReturnedMeansStopped` (`ReturnMeansStop`). The inductive invariant
says that a valid endpoint with an inbox writes to the outbox if there is one (`BuilderInv`); that what
was accepted stays so until the bus runs with every endpoint subscribed (`StartInv`); that shutdown
still has the handle of every worker that runs (`WorkersInv`); and that only a call that waits holds
the mutex, and one that has returned left no handle behind (`CallsInv`). A handle is taken out
after its worker has ended, so a call that is dropped leaves no running worker without one.

## The journey of a message (`Journey.tla`)

**State and steps.** `Journey` takes one message along the steps of the system one after the other,
for what the other models abstract: its content. It is made on some day, goes out as a row or as
headers, is claimed, delivered, read, retried, handled or given up, and its handler's publish starts
the next hop of the conversation. Another client's message comes in at the headers. `Envelope` has
the functions that write and read each form and the checks that refuse one; `Calendar` those of
`core/src/time.rs` and `partition.rs`; `RetryPolicy` those of `retry.rs`. All of them are operators or
recursive functions, for proofs about the modules that use them.

**Abstractions.** A text is its kind, out of those that the checks tell apart (empty, a word, a phrase
with spaces, one with a line break, a UUID as the crates write it or otherwise, a message type as its
levels, a time as its fields, a media type), and something to tell it from others. So what is checked
is the rules on the attributes together, not the rules on single characters (letters of a level, 20
characters of an extension's name, 249 bytes of a message type). Headers with several values, values
whose whitespace a client trims, and PostgreSQL's own limits (NUL characters, the year 0 in
`timestamptz`) are left out. Data is whole or does not decode.

| Run | Instance | What it shows |
| --- | --- | --- |
| `journey` | every day of the first 401 years of the range, of 1968 to 1972 and of the last year; messages of every combination of optional attributes; another client's with each attribute missing, changed or added; 4 endpoints with policies of their own; 3 hops | `CalendarAgrees`, `MessagesKeepWhole`, `ErrorSubjectKeepsAll`, `OneConversation`, `WaitsDouble` |

The calendar repeats after 400 years (an era in the code), so the first era and both ends of the range
stand for all days. `CalendarAgrees` leaves out two intervals that the range cuts short: the last, and
the first week, which begins on Saturday 0000-01-01 and in the code ends on the *next Saturday*, where
`partition.rs` line 44 says that an interval ends at the start of the next one. The four policies have
a first delay that doubles up to its maximum, one of zero, one that passes the maximum in one step, and
one above it; `LongestDelay` stands for `Duration::MAX`. Deadlock is not checked: a journey ends.

**Proofs.** `JourneyProofs` proves `CalendarAgrees` for every day of the years 0000 to 9999 and every
time of a day (`EveryDayAgrees`), from `CalendarProofs`. That module cuts days as the code does: an era
of 400 years, a year from March 1 on, a month, a day (`Parts`). Two lemmas about one era and one year,
which the prover's arithmetic decides, say that the divisions in `date_from_days` find the parts of
every day (`YearOfEraFinds`, `MonthOfFinds`); from them follow that the two conversions undo each other
(`DayDateDay`, `DateDayDate`), that the next day has the next date (`DaysFollow`), that days, weeks and
months tile the days (`IntervalsTileDays`), and, digit by digit, that a time is read as it was written,
at any offset (`WrittenReads`, `OffsetTextReads`).

It proves the other invariants as well, for messages, policies, errors and bounds of any size, from an
inductive invariant `IInv`: on the stream lies the envelope its publisher gave, as headers, or another
client's message as it came (`WayInv`); the waits so far are the delays of growing attempt numbers
(`WaitsInv`); the messages handled are one conversation, and the next one continues it (`TalkInv`). None
of the properties is inductive without these: that an endpoint reads what was sent says nothing of the
row and the headers on the way, and that a copy on the error subject can be read says nothing of the
envelope before.

The proof goes by attributes. `Tells` says that attributes, in whatever form they came, are exactly an
envelope's. The outbox row, the inbox receipt and the headers all tell the envelope that they were
written from (`RowTells`, `ReceiptTells`, `HeadersTell`), and what tells an envelope passes every check
and reads as that envelope (`TellingReads`); so each form can be exchanged for another, and a slip in one
list of columns breaks one lemma. Another client's attributes that pass the checks make an envelope that
keeps all rules and says what they say (`ForeignReads`). With that each step keeps `IInv`, and
`MessagesStayWhole`, `ErrorSubjectHasAll`, `ConversationIsOne` and `JourneyTyped` follow.

`WaitsDouble` compares `delay`, which stops doubling at the maximum and saturates at `Duration::MAX`,
with plain doubling (`Doubled`). Both are recursive functions. The library's induction theorems are out
of the provers' reach, but the least element of a set of numbers is not (`WFMin`), so `FromZeroUp` states
induction for a set, `RunExists` and `RunsAgree` say that a recursive function of a known step has one
value at every number, and from the recursions themselves follow `DelayIs`, `DelaysGrow` and
`WaitsAreDoubled`.

What is assumed of the constants (`JourneyAssumption`, `NoneAssumption`) is what the types say: drafts
are envelopes, which the constructors' checks make them; a policy's durations are at most `Duration::MAX`;
the header values of another client's message are texts without a line break, which would end the header;
an endpoint's name has none either, since it is the durable name of a JetStream consumer
(`subscribe.rs` line 68), which has no whitespace; and `None` stands for no value, so it is none of the texts and numbers.

## Where the code and its documentation disagree

Each of these was met while modelling. None is a run of its own; each shows with the change of an
instance that is named, and the properties and theorems are stated so as to leave it out.

1. *A failed claim keeps rows.* `store.rs` line 96 says that no row is claimed when `claim` returns an
   error. When the statement that marks an unreadable row fails (`outbox.rs` line 222; `ReadFails`), the
   batch was already leased. Nothing is lost: the rows come back after the lease.
2. *Acked without its publishes.* The comment at `endpoint.rs` line 350 promises that the handler's
   publishes are in the outbox or the broker before the ack. With an inbox and no outbox a redelivery
   that finds the receipt is acked without them. The architecture names this gap; the comment does
   not. (`MCEndpoint_inbox` with `Outbox = FALSE`: `AckedIsDone` fails. The theorem about it excludes
   that setting, and `endpoint_settled` has no publishes.)
3. *A handled message given up.* The architecture (`docs/01-architecture.md` line 278) says a
   redelivery whose inbox row exists is acked. When `begin`, `record` or the empty `commit` fails on
   the last attempt, the message goes to the error destination, from where it may be sent again.
4. *The filter may narrow.* The comments at `subscribe.rs` lines 49 to 52 say that the consumer's
   filter keeps the subjects it has and only widens. Of two instances that subscribe at once the
   second write takes the first one's subjects out again, and every instance then skips the messages
   of that type until one that handles it subscribes again. (`MCNatsTransport_deploy` with
   `OneStarts = FALSE`: `FilterOnlyWidens` fails.)
5. *A push may be missed.* The comment at `in_memory.rs` lines 29 and 30 says that a push between a
   look and a wait is not missed. Two pushes leave one permit: when two streams have found the queue
   empty, the first takes the permit and one copy, and its owner drops it before it asks for another,
   the second waits over the other copy until the next push.
   (`MCInMemoryTransport` with a stream of the shared endpoint in `Closers`: `NoPushIsMissed` fails.)

## What is not modelled, and the plan

Liveness is model-checked only; TLAPS does not prove it here, and the theorems about steps and
states need no fairness. Every invariant and every action property of the runs is proved. The facade
re-exports, the test support and the example service have no logic of their own and are not
modelled, nor are the error types, the traits and the clock, whose contracts are what the properties
state. The in-memory transport's list of error copies, TLS and connection settings of NATS, the
validation of `Settings` values, logs and texts of errors are left out.

What is left of the plan is `Delivery`, which composes the outbox's promise, the broker and the
endpoint's promise: a committed message is handled once with inboxes on both ends.

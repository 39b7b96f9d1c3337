# TLA+ verification of aiokafka

aiokafka is an asyncio client for Apache Kafka. This directory holds TLA+ models of its
components, the configurations that check them with TLC, and TLAPS proofs. `PROJECT.json`
maps every definition to the source lines it models.

An asyncio program runs one callback at a time, so an action of a model is what the event
loop runs between two awaits. What happens on the other side of a socket is external: it is
modelled from the answers that the code tells apart.

## The system

| component | state | operations | modelled by |
|---|---|---|---|
| `producer/producer.py` | the parts below | `send`, `send_batch`, `flush`, `stop`, the transaction calls | partly: `TxnProducer`, `Delivery` |
| `producer/message_accumulator.py` | a queue of batches per partition, pending batches, futures | `add_message`, `add_batch`, `drain_by_nodes`, `reenqueue`, `flush`, `close`, `fail_all` | `Delivery`, `TxnProducer` |
| `producer/sender.py` | one task, produce tasks by broker, one transactional task, muted partitions, coordinators | the sender loop and one handler per request | partly: `TxnProducer`, `Delivery` |
| `producer/transaction_manager.py` | state machine, partitions, group and offsets of the transaction, sequence numbers | transitions and notifications | `TxnProducer`, `Delivery`; its promise: `Transactions` |
| `consumer/consumer.py` | the parts below | the application's calls | inputs of `GroupCoordinator` and `Fetcher` |
| `consumer/subscription_state.py` | subscription, assignment, positions | subscribe, assign, seek, pause, waiters | `SubscriptionState`, `Fetcher` |
| `consumer/group_coordinator.py` | member, generation, coordination, heartbeat and refresh tasks | join, sync, heartbeat, commit, leave, close | `GroupCoordinator` |
| `consumer/fetcher.py` | fetch tasks, records, positions | fetch, reset, deliver | `Fetcher`, `PartitionRecords` |
| `client.py`, `conn.py`, `cluster.py` | connections, request queues, topics, metadata, coordinators | `send`, metadata synchronizer, lookup, close | partly: `Network`, `Connection` |
| `coordinator/assignors/` | what a sticky member remembers | range, round robin, sticky | `Assignors`, `StickyAssignor`, `Assignment` |
| `record/` | bytes of batches | builders and readers, in Python and in Cython | `RecordFormat`, `PyRecords`, `CyRecords`, `Records` |
| `partitioner.py`, `protocol/`, `codec.py`, `admin/`, `metrics/`, `errors.py`, `helpers.py` | | | not modelled |

A producer's calls append to batches in the accumulator. The sender task drains the oldest
batch of each partition that is not muted, groups them by leader and starts one produce task
per broker. A produce task resolves the futures of its batches or, after a backoff, puts them
back at the head of their queues. With a transactional id the sender also runs one
transactional task at a time: partitions are added, then a group, then its offsets are
committed, then the transaction is ended.

A consumer's subscription is shared by three parties. The coordination routine joins the
group and replaces the assignment; a heartbeat task keeps the member alive and tells the
routine to rejoin; a refresh task per assignment fetches committed offsets. The fetch routine
starts one fetch or reset task per broker for the partitions of the active assignment, and
`getone()` or `getmany()` takes from what these brought. All of it goes through the client's
connections, one per node and group of connections, on which answers come in order.

What makes this hard: leaders, coordinators, subscriptions and topic lists that change while
something that depends on them is awaited; requests handled after the client gave them up;
answers lost after the broker acted; errors that end one of several steps; tasks that wake
each other. The list of hazards, with lines, is in `PROJECT.json`.

## Modules

In every module but `TxnProducer` a frozen variable `mode`, chosen by `Init` from the constant
`Modes`, holds the configuration, the kinds of faults and calls that may happen and how many,
so that one run covers several scenarios. The modes of each run are in its `MC` module.

### `TxnProducer` and `Transactions`

Transactions, end to end. The state is the fields of `TransactionManager` (`state`,
`waiter`, `txnPartitions`, ...), the batches of the accumulator (`queued`, `pending`), the
tasks of the sender (`task`, `produce`, `muted`, `sender`), what the brokers hold
(`coPartitions`, `coGroups`, `written`, `visible`, `dropped`, `heldOffsets`) and a history
of what the application asked for (`decision`). Actions carry the names of the methods.

- A turn of `_sender_routine` is one action: it chooses the transactional task and drains.
- A task is split where it awaits: `create_request`, the answer, the backoff;
  `_do_txn_commit` also awaits `flush_for_commit` before it looks at the transaction.
- Each answer is chosen from what its handler tells apart (`Outcomes`), independently of
  whether the broker acted: an answer may be lost. A partial answer to AddPartitionsToTxn or
  TxnOffsetCommit is any subset, which covers every order the handler's loop may meet.
- `_pending_batches` loses a batch in a done callback of its future; here that is part of
  the answer. A flush or `fail_all` that runs in between finds a batch that is resolved
  already, and neither waits for it nor changes it.
- Abstracted: the leader of a partition is fixed, a request that was given up is not
  handled later (both are in `Delivery`), InitProducerId and coordinator lookup are one
  step, `stop()` is not called.

`Transactions` is the abstract specification: transactions follow each other, what is sent in
one is stored unseen, and one step makes all of it seen or none. `ImplementsTransactions`
states that `TxnProducer` implements it: what is stored is what was written and not yet
covered by a marker, together with the offsets the group coordinators hold; what is seen is
what a commit marker covers.

### `Delivery`

Delivery without transactions. Messages are named by the call that sends them; a batch is
its messages, its sequence number, its retry count and its future. `calls` says where each
call of `send` or `send_batch` is, including those that wait in `wait_drain`. A produce
request sits in `wire` until a broker handles it, also when the client does not await it any
more. Leaders step down and are elected; the client's `leader` is what it learnt last.

- `sender_routine` includes `drain_by_nodes` and `_pop_batch`, with expired leaderless
  batches as a nondeterministic choice (time is not modelled).
- Sequence numbers are those of a small integer width: `SeqMax` stands for 2^31 - 1.
- The brokers' logs are replicated without loss, and a leader keeps every sequence number.
- A forced metadata update returns the actual leaders.

### `SubscriptionState` and `GroupCoordinator`

`m` is the member: the subscription (`SubscriptionState`'s record of `Subscription` and
`Assignment` objects), generation and member id, the places of the tasks (`co`, `hb`, `rt`,
`close`, the commits), the requests of each task and their answers. `b` is the group at the
broker. The code of a task between two awaits is a composition of operators on `m`, named
after the methods. `NoGroupCoordinator` is the mode without a group.

- Requests to the coordinator share one connection: they are handled in order.
- Peers join and leave, members are evicted, coordinators move, answers are lost or are
  errors; the application subscribes, unsubscribes, assigns, commits and closes at any await.
- A topic stands for its partitions, offsets for what is consumed. Time is not modelled:
  timeouts and the idle check may happen whenever their mode has them.

### `PartitionRecords` and `Fetcher`

`PartitionRecords` is the iteration over fetched batches with the read_committed filter, as a
function. `f` is the consumer's side: positions and resets, records that wait, one task per
node, the routine and one reader; `c` is the cluster: leaders, log starts, answers. Logs are
fixed by the mode and hold aborted, committed and open transactions, compacted batches and a
corrupt one. `NothingSkipped` compares what the application was given with a definition of
what is visible that does not use the filter.

### `Connection` and `Network`

`Connection` is one `AIOKafkaConnection`: its queue of requests with correlation ids modulo
`IdBound`, its handshake, its closing. `Network` composes the connections with the client:
callers of `send`, the lock under which connections are made, `_md_synchronizer`, topics,
waiting for a topic, coordinators by purpose, `close()`. Not in it: `bootstrap`, the version
probe, errors of `write`, the correlation id quirk of 0.8.2.

### `Assignors`, `StickyAssignor` and `Assignment`

The assignors as functions from what the leader knows to an assignment. `StickyAssignor`
includes `SortedSet` with its cached ends and `PartitionMovements`; the order in which a
Python set is iterated is a parameter. `Assignment` is a group: members join,
leave and resubscribe, topics grow and disappear, and after one or several of these changes
`Rebalance` runs the assignor on what the members report, for a sticky member what its class
remembers. The properties are independent definitions of validity, evenness and stickiness.

### `RecordFormat`, `PyRecords`, `CyRecords` and `Records`

The three record formats byte by byte, once from the Python code and once from the Cython
code; what they share (fields of fixed width, layout) is in `RecordFormat`. The
checksum (a sum weighted by position) and the codec (run lengths) stand in for the libraries'
ones. `Records` takes records through a builder, a broker that assigns
offsets, may stamp its time and may compact, and a response cut off at any of `CutPoints`.
Varints of more than five bytes are outside TLC's integers.

### Proofs

`TxnType_proofs`, `TxnProducer_proofs`, `TxnBroker_proofs`, `TxnRefinement_proofs` and
`TxnOutcome_proofs` extend `TxnProducer`.

## Runs

`tlc -config <cfg> <module>`.

| cfg | module | what it shows |
|---|---|---|
| `MCTxnProducer` | `MCTxnProducer` | two transactions on two leaders, a group, one lost request or answer, produce errors and fatal errors: what an EndTxn covers, that partitions are added before they are used, and the refinement of `Transactions` |
| `MCTxnErrors` | `MCTxnProducer` | a partition and a group that are refused: commit and abort return or raise (liveness) |
| `MCDelivery` | `MCDelivery` | idempotence with a moving leader, and two partitions without idempotence with refused, expired and empty batches: one batch per partition in flight, order of queues, no batch lost, acknowledged means in the log (once, with idempotence), the log is a prefix of what was appended, a drained batch is frozen |
| `MCDeliveryLive` | `MCDelivery` | futures are resolved and `stop()` returns with nothing unresolved, also with `acks=0` (liveness) |
| `MCGroupSafety` | `MCGroupCoordinator` | what a resting member has is what the group made for its present subscription and metadata, its tasks serve that assignment, automatic commits are of its own partitions, callbacks alternate |
| `MCGroupLive` | `MCGroupCoordinator` | after faults the member is assigned, committed offsets are served, `close()` ends (liveness) |
| `MCFetcher` | `MCFetcher` | each visible record is given once, in order and while its partition is owned; seeks hold; everything is read in the end (liveness) |
| `MCNetwork` | `MCNetwork` | answers reach the request they answer, nobody waits for a dropped future, no connection leaks, awaited topics are found (liveness) |
| `MCAssignment` | `MCAssignment` | assignments are valid, as even as documented, and sticky |
| `MCRecords` | `MCRecords` | what one implementation writes the other reads back; offsets advance past what was read; sizes announced hold |
| `TxnAbortLost` | `MCTxnProducer` | violated: after `error_transaction` the abort looks empty and no EndTxn is sent; the next commit makes the aborted batch visible |
| `FetchDrained` | `MCFetcher` | violated: `getmany()` drains one partition and raises for the next; the drained records are lost |

Further configurations, for the same modules: `MCTxnMore` (type correctness, `EndIsAtomic`,
`NothingHangs`, `GroupAddedBeforeOffsets`, `EndedIsFinal`), `DeliveryTypes` and `GroupTypes`
(type correctness) pass. These are violated, each by a behaviour of the code that differs
from what the repository says:

| cfg | module | disagreement |
|---|---|---|
| `TxnUnmuted` | `MCTxnProducer` | `error_transaction` clears the partitions that wait to be added, so their batches are produced to partitions not in the transaction (`transaction_manager.py:145`; comment `sender.py:133`) |
| `TxnSecondGroup` | `MCTxnProducer` | only the first group of a transaction is added (`transaction_manager.py:187`; comment `sender.py:312`) |
| `DeliveryExpired` | `MCDelivery` | an idempotent producer expires a batch whose partition has no leader, after taking its sequence number (`message_accumulator.py:469`; comment `sender.py:875`) |
| `DeliveryStopBatch` | `MCDelivery` | a `send_batch` that waits while `stop()` runs leaves a future that is never resolved (`message_accumulator.py:560`; docstring `producer.py:379`) |
| `GroupStaleCommit` | `MCGroupCoordinator` | a `commit()` that is retried across a rebalance is accepted in the new generation instead of raising `CommitFailedError` (`group_coordinator.py:1012`; docstring `consumer.py:557`) |
| `RecordsMixedMagic` | `MCRecords` | the Cython reader takes the magic of every batch from the first one of the buffer (`memory_records.pyx:84`; comment `memory_records.pyx:20`) |

### Bounds

`TxnProducer`: two transactions are needed for one to leak into the next, and two partitions
on two leaders for a produce task to run beside AddPartitionsToTxn. One fault gives one lost
answer or one retry, at any point. `Delivery`: three calls and batches of two messages give a
retried batch with a second one behind it and a waiting call; `SeqMax = 1` makes the sequence
number wrap within three messages; one election gives a stale leader and a leaderless
partition. `GroupCoordinator`, `Fetcher`, `Network`: two or three events per behaviour, of any
kind of the mode and at any point; two of them are what it takes for a change to meet a
recovery that is under way. Two topics, two nodes, two partitions and two callers give every
pair a race needs. `Assignment`: three members and up to six partitions through three or four
changes, so that a partition can move and come back. `Records`: up to three records a
batch with lengths and timestamps at the edges of one and two byte varints.

Deadlock is not checked: the application may stop calling at any time, and the events run out.

### Fairness

Weak fairness of every task and of every waiting call: the event loop runs what is ready. An
awaited request ends: `client.send` raises after `request_timeout_ms`. Faults are bounded, so
brokers answer in the end. Leaderless partitions get a leader, coordinators are found and
metadata updates succeed in the end. Of the application it is assumed that it polls
(`EventuallyAssigned`, `EverythingIsRead`), which the consumer's documentation requires, and
nothing else. In `Fetcher` the weak fairness of each action is written out with the condition
that enables it, which is what TLC checks fastest.

## Theorems

All for arbitrary constants that satisfy `TxnProducerAssumption`.

`Invariance` shows that `IInv` is inductive. `EndTxnScope` and `NoLeak` are not inductive
alone: that no batch is left when EndTxn is sent follows from the snapshot of
`flush_for_commit` covering everything queued or pending (`TaskInv`), from a batch being
resolved exactly when it leaves these sets (`BatchInv`), and from `send` requiring
`IN_TRANSACTION`. `TypeCorrect`, `NoBatchOutlivesItsTransaction` and
`EndTxnCoversTransaction` follow.

`BrokerInvariance` adds what the coordinator knows: `AddedInv` relates the producer's
partitions to the coordinator's, `RequestInv` keeps requested partitions pending, and
`DecisionInv` says that what is undecided belongs to the open transaction and that the
request in flight carries the application's decision. `ProducedAfterAdded` and
`AbortedNeverVisible` follow, assuming `Unauthorized = {}`: with authorization errors
`TxnUnmuted.cfg` and `TxnAbortLost.cfg` refute them.

`RefinementInvariance` adds three invariants, again for `Unauthorized = {}` and for one
consumer group (`OneGroup`; with two, `TxnSecondGroup.cfg` shows offsets committed for a group
that was never added). `HistoryInv`: the transactions reported as ended are exactly those
before the open one. `OffsetInv`: the coordinator's group is in the transaction whenever the
producer believes so, and what the group holds back belongs to the open transaction.
`MarkInv`: no marker covers a batch that is not answered. From them `Refinement` shows
`ImplementsTransactions` step by step: `begin_transaction`, `commit_transaction` and
`abort_transaction` are `Begin` and `Ask`; an answered produce or offset request is `Store`;
the EndTxn the coordinator processes, and `do_txn_commit` of an empty transaction, are `End`;
an EndTxn sent again after a lost answer is an `End` that finds nothing stored; every other
step stutters.

`OutcomeInvariance` adds that what was dropped was to be aborted. `EndsAtomically`,
`NothingStaysOpen`, `GroupAddedFirst` and `EndedStaysEnded` follow, the properties
`MCTxnMore.cfg` checks.

Only model-checked: everything about the other modules, and
all liveness (fairness and ENABLED are out of the prover's reach, as are induction over data
and RECURSIVE operators, on which the assignors and the record formats rest).

## What the models leave to know

Behaviours met while modelling that no listed run is about:

- `GroupCoordinator`: an unsubscribe between the checks of the coordination routine and its
  assertions ends the routine; so does cancelling the heartbeat task while it leaves the
  group or before it has started. Two assignors in the strategy create two memberships.
  Heartbeat and refresh do not recover from an authorization error. Without a group, a
  pattern set again after unsubscribe is never assigned.
- `Fetcher`: `assign()` followed by `unsubscribe()` in one tick, and a leader that moves while
  two fetches of a partition are in flight, end the fetch routine, after which `getone()`
  waits forever. `seek_to_end()` during an earliest reset is overwritten.
- `Network`: `_md_synchronizer` compares the topic list with itself, since `add_topic` changes
  it in place (`client.py:284`); topics are still found because callers wait for a second
  update. A request that times out closes whatever connection its node has by then.
- `StickyAssignor`: `on_generation_assignment` is never called, so every member reports
  generation -1, and what a member remembers is an attribute of its class.
- `Delivery`: with `acks=0` a request that could not be written is retried.
- `record/util.py`: `encode_varint_py` returns one too few for values over five bytes.

## Not modelled

`protocol/` (schemas), `codec.py` (library calls), `admin/` (one request per call),
`metrics/` (no other component reads it), `partitioner.py` (32-bit products, outside TLC's
integers), SSL and SASL exchanges beyond their order, `bootstrap` and the version probe of
the client, `offsets_for_times`, `stop()` of a transactional producer, corrupted bytes inside
a record batch.

------------------------------ MODULE Delivery -------------------------------
(***************************************************************************)
(* The delivery path of AIOKafkaProducer without transactions: calls of    *)
(* send and send_batch, MessageAccumulator with one queue per partition,   *)
(* the sender task with one produce task per broker, retries, changing and *)
(* unknown leaders, sequence numbers when idempotence is enabled, and stop.*)
(* The brokers are external: a request may be handled after the client has *)
(* given it up, or never.                                                  *)
(*                                                                         *)
(* One action is what the event loop runs between two awaits.  A message   *)
(* is named by the call that sent it.                                      *)
(***************************************************************************)
EXTENDS Integers, Sequences, FiniteSets, SequencesExt

CONSTANTS
    Partitions,       \* the topic-partitions the application produces to
    Nodes,            \* the brokers
    NoLeader,         \* leader_for_partition is None or -1
    Calls,            \* calls of send and send_batch, each of one message
    NoPartition,      \* a call that has not been made
    SeqMax,           \* the largest sequence number, 2^31 - 1 in the code
    Modes             \* the configurations and bounds a behaviour may have

ASSUME DeliveryAssumption ==
    /\ NoLeader \notin Nodes /\ NoPartition \notin Partitions
    /\ IsFiniteSet(Calls) /\ SeqMax \in Nat \ {0}
    /\ \A c \in Modes :
         /\ c.tps \subseteq Partitions /\ c.calls \in 1..Cardinality(Calls)
         /\ c.kinds \subseteq {"message", "invalid", "batch", "stop"}
         /\ c.idempotent \in BOOLEAN /\ c.acks \in {0, 1} /\ (c.idempotent => c.acks = 1)
         /\ c.batchSize \in Nat \ {0}
         /\ {c.faults, c.refused, c.elections, c.expired} \subseteq Nat

VARIABLES
    \* the application
    calls,            \* where each call is
    stop,             \* AIOKafkaProducer.stop: "no", "flush", "close" or "done"
    scope,            \* the batches whose futures close() waits for
    \* MessageAccumulator and TransactionManager
    batches,          \* every MessageBatch created, by number
    queue,            \* _batches
    pending,          \* _pending_batches
    closed,           \* _closed
    sequence,         \* _sequence_numbers
    \* Sender
    sender,           \* the sender task: "running", "cancelled" or "done"
    wake,             \* some future the sender awaits is done
    unknown,          \* unknown_leaders_exist: it awaits metadata, not data
    produce,          \* the _send_produce_req task of each node
    muted,            \* _muted_partitions
    leader,           \* the leaders in the client's metadata
    refresh,          \* a forced metadata update is under way
    \* the brokers
    actual,           \* the leaders
    wire,             \* produce requests no broker has handled yet
    log,              \* the batches in each partition's log, with their sequence numbers
    \* history
    appended,         \* the messages of each partition in the order of append()
    faults, refusals, elections, expiries,
    mode              \* the configuration, chosen at the start

appVars == <<calls, stop, scope>>
accVars == <<batches, queue, pending, closed, sequence>>
senderVars == <<sender, wake, unknown, produce, muted>>
clientVars == <<leader, refresh>>
brokerVars == <<actual, wire, log>>
histVars == <<appended, faults, refusals, elections, expiries>>
dynamic == <<appVars, accVars, senderVars, clientVars, brokerVars, histVars>>
vars == <<dynamic, mode>>

\* What the application does: "message" (send), "invalid" (a send whose append raises),
\* "batch" (send_batch), "stop"; to which partitions, and in how many calls.
Kinds == mode.kinds
Targets == mode.tps
MaxCalls == mode.calls
Idempotent == mode.idempotent   \* enable_idempotence: the accumulator has a txn_manager
Acks == mode.acks               \* the acks option, 0 or not
BatchSize == mode.batchSize     \* messages of a full batch (max_batch_size)
MaxFaults == mode.faults        \* bound: retriable errors and lost requests or answers
MaxRefused == mode.refused      \* bound: errors that cannot be retried
MaxElections == mode.elections  \* bound: leaders that step down
MaxExpired == mode.expired      \* bound: batches drained without a leader after their ttl

Ids == 1..Cardinality(Calls)
MessageBatch ==
    [tp : Partitions, msgs : Seq(Calls), shut : BOOLEAN, seq : -(SeqMax + 1)..SeqMax,
     retry_count : Nat, future : {"none", "done", "failed"}]
NewBatch(tp, msgs) ==
    [tp |-> tp, msgs |-> msgs, shut |-> FALSE, seq |-> 0, retry_count |-> 0, future |-> "none"]

ProduceTask ==
    [stage : {"idle", "sent", "answered", "retry", "metadata", "closing"}, batches : SUBSET Ids,
     ok : SUBSET Ids, refused : SUBSET Ids, moved : BOOLEAN, retry : SUBSET Ids]
Idle == [stage |-> "idle", batches |-> {}, ok |-> {}, refused |-> {}, moved |-> FALSE,
         retry |-> {}]
SentTask(ids) == [Idle EXCEPT !.stage = "sent", !.batches = ids]
InFlight == {n \in Nodes : produce[n].stage # "idle"}

\* A request holds the built buffers of its batches.
Attempt == [id : Ids, retry : Nat, seq : -(SeqMax + 1)..SeqMax]
attempts(bs, ids) == {[id |-> b, retry |-> bs[b].retry_count, seq |-> bs[b].seq] : b \in ids}

unresolved == {b \in DOMAIN batches : batches[b].future = "none"}
PartitionsOf(ids) == {batches[b].tp : b \in ids}

-----------------------------------------------------------------------------
(* The calls                                                               *)

\* The drain waiter a call awaits is the one the batch had at its n-th retry.
drained(c) == batches[calls[c].batch].retry_count > calls[c].retry
runs(c) == calls[c].stage = "waiting" /\ drained(c)

MutNeverShut(b) == Len(batches[b].msgs) < BatchSize
\* BatchBuilder.append returns None when the batch is full or closed.
has_room(b) == ~batches[b].shut /\ Len(batches[b].msgs) < BatchSize

raise(c) == calls' = [calls EXCEPT ![c].stage = "raised"]

wait_drain(c, kind, tp) ==
    LET b == Last(queue[tp]) IN
    calls' = [calls EXCEPT ![c] = [stage |-> "waiting", kind |-> kind, tp |-> tp, batch |-> b,
                                   retry |-> batches[b].retry_count]]

future_of(c, kind, tp, b) ==
    calls' = [calls EXCEPT ![c] = [stage |-> "returned", kind |-> kind, tp |-> tp, batch |-> b,
                                   retry |-> 0]]

\* The new batch is the last of its queue, and the sender's data_waiter is done.
_append_batch(tp, msgs) ==
    /\ batches' = Append(batches, NewBatch(tp, msgs))
    /\ queue' = [queue EXCEPT ![tp] = Append(@, Len(batches) + 1)]
    /\ appended' = [appended EXCEPT ![tp] = @ \o msgs]
    /\ wake' = (wake \/ ~unknown)

append(b, c) ==
    /\ batches' = [batches EXCEPT ![b].msgs = Append(@, c)]
    /\ appended' = [appended EXCEPT ![batches[b].tp] = Append(@, c)]

\* One turn of the loop in add_message.  A message that append() refuses to encode
\* raises, and leaves the batch it was to open empty in the queue.
add_message(c, kind, tp) ==
    /\ \/ /\ closed
          /\ raise(c)
          /\ UNCHANGED <<batches, queue, appended, wake>>
       \/ /\ ~closed /\ queue[tp] = <<>>
          /\ \/ /\ kind = "message"
                /\ _append_batch(tp, <<c>>)
                /\ future_of(c, kind, tp, Len(batches) + 1)
             \/ /\ kind = "invalid"
                /\ _append_batch(tp, <<>>)
                /\ raise(c)
       \/ /\ ~closed /\ queue[tp] # <<>> /\ has_room(Last(queue[tp]))
          /\ \/ /\ kind = "message"
                /\ append(Last(queue[tp]), c)
                /\ future_of(c, kind, tp, Last(queue[tp]))
             \/ /\ kind = "invalid"
                /\ raise(c)
                /\ UNCHANGED <<batches, appended>>
          /\ UNCHANGED <<queue, wake>>
       \/ /\ ~closed /\ queue[tp] # <<>> /\ ~has_room(Last(queue[tp]))
          /\ wait_drain(c, kind, tp)
          /\ UNCHANGED <<batches, queue, appended, wake>>
    /\ UNCHANGED <<stop, scope, pending, closed, sequence, sender, unknown, produce, muted,
                   clientVars, brokerVars, faults, refusals, elections, expiries>>

\* add_batch looks at _closed when it is called, and not after it has waited.
add_batch(c, tp) ==
    /\ \/ /\ closed /\ calls[c].stage = "idle"
          /\ raise(c)
          /\ UNCHANGED <<batches, queue, appended, wake>>
       \/ /\ closed => calls[c].stage = "waiting"
          /\ \/ /\ queue[tp] = <<>>
                /\ _append_batch(tp, <<c>>)
                /\ future_of(c, "batch", tp, Len(batches) + 1)
             \/ /\ queue[tp] # <<>>
                /\ wait_drain(c, "batch", tp)
                /\ UNCHANGED <<batches, queue, appended, wake>>
    /\ UNCHANGED <<stop, scope, pending, closed, sequence, sender, unknown, produce, muted,
                   clientVars, brokerVars, faults, refusals, elections, expiries>>

call(c, kind, tp) ==
    /\ \/ /\ calls[c].stage = "idle" /\ kind \in Kinds /\ tp \in Targets
          /\ Cardinality({d \in Calls : calls[d].stage # "idle"}) < MaxCalls
       \/ runs(c) /\ kind = calls[c].kind /\ tp = calls[c].tp
    /\ \/ kind \in {"message", "invalid"} /\ add_message(c, kind, tp)
       \/ kind = "batch" /\ add_batch(c, tp)

\* KafkaTimeoutError: the timeout ran out while the call waited.
call_timeout(c) ==
    /\ calls[c].stage = "waiting"
    /\ raise(c)
    /\ UNCHANGED <<stop, scope, accVars, senderVars, clientVars, brokerVars, histVars>>

-----------------------------------------------------------------------------
(* The sender task                                                         *)

MutNoWrap(seq, increment) == seq + increment
\* TransactionManager.increment_sequence_number: a 32-bit integer that wraps.
increment_sequence_number(seq, increment) ==
    IF seq + increment > SeqMax THEN seq + increment - 2 * (SeqMax + 1) ELSE seq + increment

MutUnmutedAll == {tp \in Partitions : queue[tp] # <<>>}
\* The partitions drain_by_nodes looks at, those of them that have no leader, and those
\* whose leader is not in ignore_nodes.
ready_partitions == {tp \in Partitions : queue[tp] # <<>> /\ tp \notin muted}
leaderless == {tp \in ready_partitions : leader[tp] = NoLeader}
drainable == {tp \in ready_partitions : leader[tp] \in Nodes \ InFlight}

MutRetryRenumbers(b) == TRUE
\* _pop_batch assigns the sequence number of a batch once, not when it is retried.
not_retry(b) == batches[b].retry_count = 0

_pop_batch(tps, expired) ==
    LET popped == {Head(queue[tp]) : tp \in tps}
        numbered == {b \in popped : Idempotent /\ not_retry(b)} IN
    /\ queue' = [tp \in Partitions |-> IF tp \in tps THEN Tail(queue[tp]) ELSE queue[tp]]
    /\ sequence' = [tp \in Partitions |->
         IF \E b \in numbered : batches[b].tp = tp
         THEN increment_sequence_number(sequence[tp], Len(batches[Head(queue[tp])].msgs))
         ELSE sequence[tp]]
    /\ batches' = [b \in DOMAIN batches |->
         IF b \notin popped THEN batches[b]
         ELSE [batches[b] EXCEPT
                 !.seq = IF b \in numbered THEN sequence[batches[b].tp] ELSE @,
                 !.retry_count = @ + 1,
                 !.shut = @ \/ batches[b].tp \notin expired,
                 !.future = IF batches[b].tp \in expired THEN "failed"
                            ELSE IF batches[b].msgs = <<>> THEN "done" ELSE @]]
    /\ pending' = pending \cup {b \in popped : batches'[b].future = "none"}

\* One turn of _sender_routine: drain_by_nodes, with the leaderless batches of some
\* partitions expired, then one produce task per broker that has batches.
sender_routine(expired) ==
    LET drained_ids == {Head(queue[tp]) : tp \in drainable}
        sent(n) == {b \in drained_ids : leader[batches[b].tp] = n /\ batches[b].msgs # <<>>}
        used == {n \in Nodes : sent(n) # {}} IN
    /\ sender = "running" /\ wake
    /\ expiries + Cardinality(expired) <= MaxExpired
    /\ expiries' = expiries + Cardinality(expired)
    /\ _pop_batch(drainable \cup expired, expired)
    /\ produce' = [n \in Nodes |-> IF n \in used THEN SentTask(sent(n)) ELSE produce[n]]
    /\ muted' = muted \cup PartitionsOf(UNION {sent(n) : n \in used})
    /\ wire' = wire \cup {[node |-> n, attempts |-> attempts(batches', sent(n))] : n \in used}
    /\ unknown' = (leaderless # {}) /\ refresh' = (refresh \/ leaderless # {})
    /\ wake' = FALSE
    /\ UNCHANGED <<appVars, closed, sender, leader, actual, log, appended, faults, refusals,
                   elections>>

\* The end of SendProduceReqHandler.do: futures are resolved, the rest is to be retried.
answered(n, done, failed, again, moved) ==
    /\ batches' = [b \in DOMAIN batches |->
         IF b \in done THEN [batches[b] EXCEPT !.future = "done"]
         ELSE IF b \in failed THEN [batches[b] EXCEPT !.future = "failed"]
         ELSE batches[b]]
    /\ pending' = pending \ (done \cup failed)
    /\ produce' = [produce EXCEPT ![n].stage = IF again = {} THEN "closing" ELSE "retry",
                                  ![n].retry = again]
    /\ refresh' = (refresh \/ moved)
    /\ UNCHANGED <<appVars, queue, closed, sequence, sender, wake, unknown, muted, leader,
                   brokerVars, appended, refusals, elections, expiries>>

\* _can_retry: with idempotence a batch is never expired here.
can_expire(expired) == Idempotent => expired = {}

MutErrorsIgnored(n, expired) ==
    /\ produce[n].stage = "answered" /\ expired = {}
    /\ answered(n, produce[n].batches \ produce[n].refused, produce[n].refused, {}, FALSE)
    /\ UNCHANGED faults
handle_response(n, expired) ==
    LET again == produce[n].batches \ (produce[n].ok \cup produce[n].refused) IN
    /\ produce[n].stage = "answered"
    /\ expired \subseteq again /\ can_expire(expired)
    /\ answered(n, produce[n].ok, produce[n].refused \cup expired, again \ expired,
                produce[n].moved)
    /\ UNCHANGED faults

\* client.send raised: not connected, timed out or disconnected, all retriable.
send_failed(n, expired, moved) ==
    /\ produce[n].stage \in {"sent", "answered"}
    /\ faults < MaxFaults /\ faults' = faults + 1
    /\ can_expire(expired)
    /\ answered(n, {}, expired, produce[n].batches \ expired, moved)

\* With acks = 0 the request is done when it is written.
done_noack(n) ==
    /\ Acks = 0 /\ produce[n].stage = "sent"
    /\ answered(n, produce[n].batches, {}, {}, FALSE)
    /\ UNCHANGED faults

MutAtTheTail(ids, tp) == queue[tp] \o SetToSeq({b \in ids : batches[b].tp = tp})
\* After the backoff the batches go back to the head of their queues.
requeued(ids, tp) == SetToSeq({b \in ids : batches[b].tp = tp}) \o queue[tp]

MutStillPending(n) ==
    /\ produce[n].stage = "retry"
    /\ queue' = [tp \in Partitions |-> requeued(produce[n].retry, tp)]
    /\ produce' = [produce EXCEPT ![n].stage = "metadata", ![n].retry = {}]
    /\ UNCHANGED <<appVars, batches, pending, closed, sequence, sender, wake, unknown, muted,
                   clientVars, brokerVars, histVars>>
reenqueue(n) ==
    /\ produce[n].stage = "retry"
    /\ queue' = [tp \in Partitions |-> requeued(produce[n].retry, tp)]
    /\ pending' = pending \ produce[n].retry
    /\ produce' = [produce EXCEPT ![n].stage = "metadata", ![n].retry = {}]
    /\ UNCHANGED <<appVars, batches, closed, sequence, sender, wake, unknown, muted, clientVars,
                   brokerVars, histVars>>

MutNoWake(n) ==
    /\ produce[n].stage = "closing" \/ (produce[n].stage = "metadata" /\ ~refresh)
    /\ muted' = muted \ PartitionsOf(produce[n].batches)
    /\ produce' = [produce EXCEPT ![n] = Idle]
    /\ UNCHANGED <<appVars, accVars, sender, wake, unknown, clientVars, brokerVars, histVars>>
\* The end of _send_produce_req, after the linger time; after a retry it first waits for a
\* metadata update that is under way.
produce_close(n) ==
    /\ produce[n].stage = "closing" \/ (produce[n].stage = "metadata" /\ ~refresh)
    /\ muted' = muted \ PartitionsOf(produce[n].batches)
    /\ produce' = [produce EXCEPT ![n] = Idle]
    /\ wake' = TRUE
    /\ UNCHANGED <<appVars, accVars, sender, unknown, clientVars, brokerVars, histVars>>

-----------------------------------------------------------------------------
(* The brokers and the metadata                                            *)

\* What a leader does with a batch: with idempotence it compares its sequence number
\* with the ones it has stored for the producer.
stored(a) == \E i \in DOMAIN log[batches[a.id].tp] : log[batches[a.id].tp][i].seq = a.seq
follows(a) ==
    LET l == log[batches[a.id].tp] IN
    a.seq = IF l = <<>> THEN 0
            ELSE increment_sequence_number(Last(l).seq, Len(batches[Last(l).id].msgs))

awaited(r) == /\ produce[r.node].stage = "sent" /\ Acks # 0
              /\ r.attempts = attempts(batches, produce[r.node].batches)

\* A broker handles a produce request, also one the client does not await any more.  It
\* refuses some batches for good and some for now (NotEnoughReplicas).
broker_handles(r, refused, busy) ==
    LET led == {a \in r.attempts : actual[batches[a.id].tp] = r.node}
        tried == led \ (refused \cup busy)
        accepted == {a \in tried : Idempotent => ~stored(a) /\ follows(a)}
        duplicate == {a \in tried : Idempotent /\ stored(a)}
        outOfOrder == tried \ (accepted \cup duplicate)
        entries(tp) == {[id |-> a.id, seq |-> a.seq] : a \in {x \in accepted : batches[x.id].tp = tp}}
        ids(set) == {a.id : a \in set} IN
    /\ refused \cup busy \subseteq led /\ refused \cap busy = {}
    /\ refusals' = refusals + Cardinality(refused) /\ refusals' <= MaxRefused
    /\ faults' = faults + Cardinality(busy) /\ faults' <= MaxFaults
    /\ wire' = wire \ {r}
    /\ log' = [tp \in Partitions |-> log[tp] \o SetToSeq(entries(tp))]
    /\ produce' = IF awaited(r)
                  THEN [produce EXCEPT ![r.node].stage = "answered",
                                       ![r.node].ok = ids(accepted \cup duplicate),
                                       ![r.node].refused = ids(refused \cup outOfOrder),
                                       ![r.node].moved = led # r.attempts]
                  ELSE produce
    /\ UNCHANGED <<appVars, accVars, sender, wake, unknown, muted, clientVars, actual, appended,
                   elections, expiries>>

step_down(tp) ==
    /\ tp \in Targets /\ actual[tp] # NoLeader /\ elections < MaxElections
    /\ actual' = [actual EXCEPT ![tp] = NoLeader]
    /\ elections' = elections + 1
    /\ UNCHANGED <<appVars, accVars, senderVars, clientVars, wire, log, appended, faults, refusals,
                   expiries>>

elect(tp, n) ==
    /\ actual[tp] = NoLeader
    /\ actual' = [actual EXCEPT ![tp] = n]
    /\ UNCHANGED <<appVars, accVars, senderVars, clientVars, wire, log, histVars>>

metadata_update ==
    /\ leader # actual \/ refresh
    /\ leader' = actual /\ refresh' = FALSE
    /\ wake' = (wake \/ unknown)
    /\ UNCHANGED <<appVars, accVars, sender, unknown, produce, muted, brokerVars, histVars>>

-----------------------------------------------------------------------------
(* stop                                                                    *)

queued_batches == UNION {Range(queue[tp]) : tp \in Partitions}
\* MessageAccumulator.flush waits for the batches it finds now.
flush_scope == queued_batches \cup pending

\* stop(): the task of MessageAccumulator.close.
accumulator_close ==
    /\ stop = "no" /\ "stop" \in Kinds
    /\ stop' = "flush" /\ closed' = TRUE /\ scope' = flush_scope
    /\ UNCHANGED <<calls, batches, queue, pending, sequence, senderVars, clientVars, brokerVars,
                   histVars>>

\* The sender task is cancelled when the flush is over; it awaits its produce tasks.
sender_close ==
    /\ stop = "flush" /\ scope \cap unresolved = {}
    /\ stop' = "close" /\ sender' = "cancelled"
    /\ UNCHANGED <<calls, scope, accVars, wake, unknown, produce, muted, clientVars, brokerVars,
                   histVars>>

stop_returns ==
    /\ stop = "close" /\ InFlight = {}
    /\ stop' = "done" /\ sender' = "done"
    /\ UNCHANGED <<calls, scope, accVars, wake, unknown, produce, muted, clientVars, brokerVars,
                   histVars>>

-----------------------------------------------------------------------------
Init ==
    /\ mode \in Modes
    /\ calls = [c \in Calls |-> [stage |-> "idle", kind |-> "message", tp |-> NoPartition,
                                 batch |-> 0, retry |-> 0]]
    /\ stop = "no" /\ scope = {}
    /\ batches = <<>> /\ queue = [tp \in Partitions |-> <<>>]
    /\ pending = {} /\ closed = FALSE
    /\ sequence = [tp \in Partitions |-> 0]
    /\ sender = "running" /\ wake = TRUE /\ unknown = FALSE
    /\ produce = [n \in Nodes |-> Idle]
    /\ muted = {}
    /\ actual \in [Partitions -> Nodes] /\ leader = actual /\ refresh = FALSE
    /\ wire = {} /\ log = [tp \in Partitions |-> <<>>]
    /\ appended = [tp \in Partitions |-> <<>>]
    /\ faults = 0 /\ refusals = 0 /\ elections = 0 /\ expiries = 0

Application ==
    \/ \E c \in Calls, kind \in {"message", "invalid", "batch"}, tp \in Partitions :
         call(c, kind, tp)
    \/ \E c \in Calls : call_timeout(c)
    \/ accumulator_close \/ sender_close \/ stop_returns

SenderStep == \E expired \in SUBSET leaderless : sender_routine(expired)

ProduceStep(n) ==
    \/ \E expired \in SUBSET produce[n].batches :
         \/ handle_response(n, expired)
         \/ \E moved \in BOOLEAN : send_failed(n, expired, moved)
    \/ done_noack(n) \/ reenqueue(n) \/ produce_close(n)

Brokers ==
    \/ \E r \in wire : \E refused, busy \in SUBSET r.attempts :
         broker_handles(r, refused, busy)
    \/ \E tp \in Partitions : step_down(tp) \/ \E n \in Nodes : elect(tp, n)
    \/ metadata_update

Step == Application \/ SenderStep \/ (\E n \in Nodes : ProduceStep(n)) \/ Brokers

Next == Step /\ UNCHANGED mode

Spec == Init /\ [][Next]_vars

\* The event loop runs what is ready, client.send ends within request_timeout_ms, a broker
\* answers the requests it is sent once the faults are over, and every partition has a
\* leader again.  Nothing is assumed of the application or of what brokers refuse.
Fairness ==
    /\ WF_dynamic(SenderStep)
    /\ \A n \in Nodes :
         /\ WF_dynamic(ProduceStep(n))
         /\ WF_dynamic(\E r \in wire : r.node = n /\ awaited(r) /\ broker_handles(r, {}, {}))
    /\ \A tp \in Partitions : WF_dynamic(\E n \in Nodes : elect(tp, n))
    /\ WF_dynamic(metadata_update)
    /\ \A c \in Calls : WF_dynamic(runs(c) /\ call(c, calls[c].kind, calls[c].tp))
    /\ WF_dynamic(sender_close) /\ WF_dynamic(stop_returns)

FairSpec == Spec /\ Fairness

-----------------------------------------------------------------------------
(* Properties                                                              *)

\* Types; sequence numbers stay in the range struct.pack accepts.
TypeOK ==
    /\ calls \in [Calls -> [stage : {"idle", "waiting", "returned", "raised"},
                            kind : {"message", "invalid", "batch"},
                            tp : Partitions \cup {NoPartition}, batch : Ids \cup {0}, retry : Nat]]
    /\ stop \in {"no", "flush", "close", "done"} /\ scope \subseteq Ids
    /\ batches \in Seq(MessageBatch) /\ Len(batches) <= Cardinality(Calls)
    /\ queue \in [Partitions -> Seq(Ids)] /\ pending \subseteq Ids
    /\ closed \in BOOLEAN
    /\ sequence \in [Partitions -> -(SeqMax + 1)..SeqMax]
    /\ sender \in {"running", "cancelled", "done"} /\ wake \in BOOLEAN /\ unknown \in BOOLEAN
    /\ produce \in [Nodes -> ProduceTask] /\ muted \subseteq Partitions
    /\ leader \in [Partitions -> Nodes \cup {NoLeader}] /\ refresh \in BOOLEAN
    /\ actual \in [Partitions -> Nodes \cup {NoLeader}]
    /\ wire \subseteq [node : Nodes, attempts : SUBSET Attempt]
    /\ log \in [Partitions -> Seq([id : Ids, seq : -(SeqMax + 1)..SeqMax])] /\ appended \in [Partitions -> Seq(Calls)]
    /\ faults \in 0..MaxFaults /\ refusals \in 0..MaxRefused /\ elections \in 0..MaxElections
    /\ expiries \in 0..MaxExpired

\* Only one batch of a partition is with a produce task at a time, whatever the leaders do
\* in between, and _muted_partitions is exactly the partitions of these batches.
OneBatchPerPartition ==
    /\ \A n, m \in Nodes : \A b \in produce[n].batches, d \in produce[m].batches :
         batches[b].tp = batches[d].tp => n = m /\ b = d
    /\ muted = PartitionsOf(UNION {produce[n].batches : n \in Nodes})

\* A queue holds at most one batch that was never sent, behind the one being retried, and
\* batches stay in the order they were created: reenqueue never overtakes.
QueueOrder ==
    \A tp \in Partitions :
      /\ Len(queue[tp]) <= 2
      /\ \A i, j \in DOMAIN queue[tp] : i < j => queue[tp][i] < queue[tp][j]
      /\ Len(queue[tp]) = 2 => batches[queue[tp][1]].retry_count > 0
      /\ \A n \in Nodes : \A b \in produce[n].retry, i \in DOMAIN queue[tp] :
           batches[b].tp = tp => b < queue[tp][i]

\* Every unresolved batch is in exactly one place: queued, or with the one produce task that
\* will answer or re-enqueue it (reenqueue's _pending_batches.remove never fails).
NeverLost ==
    \A b \in unresolved :
      /\ b \in queued_batches <=> b \notin pending
      /\ b \in pending => \E n \in Nodes :
           \/ produce[n].stage \in {"sent", "answered"} /\ b \in produce[n].batches
           \/ produce[n].stage = "retry" /\ b \in produce[n].retry

\* A future with a result: the batch is in its partition's log, and with idempotence once,
\* however often it was sent, answered late or not answered at all.
AckedOnce ==
    \A b \in DOMAIN batches :
      batches[b].future = "done" /\ batches[b].msgs # <<>> /\ Acks # 0 =>
        LET copies == {i \in DOMAIN log[batches[b].tp] : log[batches[b].tp][i].id = b} IN
        copies # {} /\ (Idempotent => Cardinality(copies) = 1)

\* With idempotence the log of a partition is a prefix of what was appended to its batches:
\* nothing is duplicated, reordered or skipped.
LogIsPrefix ==
    Idempotent => \A tp \in Partitions :
      IsPrefix(FlattenSeq([i \in DOMAIN log[tp] |-> batches[log[tp][i].id].msgs]), appended[tp])



\* The records of a batch are fixed once it was drained, when its sequence number and the
\* next batch's are: nothing is appended to a batch that waits in the queue for a retry.
DrainedIsFrozen ==
    [][\A b \in DOMAIN batches :
         batches[b].retry_count > 0 =>
           batches'[b].msgs = batches[b].msgs /\ batches'[b].seq = batches[b].seq]_vars

\* The future a call returned is resolved in the end.
FuturesResolve ==
    \A c \in Calls : calls[c].stage = "returned" ~> (calls[c].batch \notin unresolved)

\* stop() returns in the end.
StopReturns == stop = "flush" ~> stop = "done"
=============================================================================

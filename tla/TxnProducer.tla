----------------------------- MODULE TxnProducer -----------------------------
(***************************************************************************)
(* The transactional producer: TransactionManager, the transactional and   *)
(* produce tasks of Sender, and MessageAccumulator as they are composed by *)
(* AIOKafkaProducer, talking to a transaction coordinator, to partition    *)
(* leaders and to a group coordinator (external, modelled from the answers *)
(* the handlers of sender.py tell apart).                                  *)
(*                                                                         *)
(* One action is what the event loop runs between two awaits.  A message   *)
(* batch is the unit of data; its records, its position in the queue and   *)
(* its sequence number belong to module Delivery.                          *)
(***************************************************************************)
EXTENDS Naturals, Sequences, FiniteSets

CONSTANTS
    Partitions,       \* the topic-partitions the application produces to
    Nodes,            \* the brokers
    Leader,           \* the leader of each partition (fixed here)
    Groups,           \* consumer groups named in send_offsets_to_transaction
    NoGroup,          \* _txn_consumer_group is None
    MaxTxn,           \* bound: transactions begun
    MaxBatches,       \* bound: batches appended
    MaxOffsets,       \* bound: calls of send_offsets_to_transaction
    MaxFaults,        \* bound: retriable errors and lost requests or answers
    Unauthorized,     \* partitions and groups the brokers refuse to this producer
    AnswerErrors      \* what else they may answer: "batch" (a produce error that cannot
                      \* be retried), "fatal" (an error the handlers raise)

ASSUME TxnProducerAssumption ==
    /\ Leader \in [Partitions -> Nodes]
    /\ NoGroup \notin Groups
    /\ MaxTxn \in Nat /\ MaxBatches \in Nat
    /\ MaxOffsets \in Nat /\ MaxFaults \in Nat
    /\ Unauthorized \subseteq Partitions \cup Groups
    /\ AnswerErrors \subseteq {"batch", "fatal"}

VARIABLES
    \* TransactionManager
    state,              \* TransactionState
    waiter,             \* _transaction_waiter
    txnPartitions,      \* _txn_partitions
    pendingPartitions,  \* _pending_txn_partitions
    txnGroup,           \* _txn_consumer_group
    pendingOffsets,     \* _pending_txn_offsets
    \* MessageAccumulator
    queued,             \* the batches of _batches
    pending,            \* _pending_batches
    \* Sender
    sender,             \* the sender task: running, dead, or dead and _fail_all run
    wake,               \* some future the sender awaits is done
    awaitTxn,           \* the sender awaits the _task_waiter
    task,               \* txn_task
    produce,            \* the _send_produce_req task of each node
    muted,              \* _muted_partitions
    \* the brokers
    coPartitions,       \* partitions of the coordinator's open transaction
    coGroups,           \* groups of the coordinator's open transaction
    written,            \* batches in the partitions' logs
    visible,            \* batches a commit marker covers
    dropped,            \* batches an abort marker covers
    heldOffsets,        \* offsets the group coordinators hold for the open transaction
    groupOffsets,       \* offsets a commit marker covers
    \* history
    txn,                \* the number of the current transaction
    decision,           \* what the application asked for each transaction
    completed,          \* transactions complete_transaction ran for
    acked,              \* batches whose future has a result
    failed,             \* batches whose future has an exception
    created, offsetCalls, faults

tmVars == <<state, waiter, txnPartitions, pendingPartitions, txnGroup, pendingOffsets>>
accVars == <<queued, pending>>
coVars == <<coPartitions, coGroups, written, visible, dropped, heldOffsets, groupOffsets>>
histVars == <<txn, decision, completed, acked, failed, created, offsetCalls, faults>>
vars == <<tmVars, accVars, sender, wake, awaitTxn, task, produce, muted, coVars, histVars>>

States == {"UNINITIALIZED", "READY", "IN_TRANSACTION", "COMMITTING_TRANSACTION",
           "ABORTING_TRANSACTION", "ABORTABLE_ERROR", "FATAL_ERROR"}
Batch == [id : 1..MaxBatches, tp : Partitions, txn : 1..MaxTxn]
OffsetsEntry == [group : Groups, tps : (SUBSET Partitions) \ {{}}]
GroupOffset == [group : Groups, tp : Partitions, txn : 1..MaxTxn]

Task ==
    [kind : {"none", "addPartitions", "addOffsets", "offsetCommit", "end"},
     stage : {"none", "start", "flush", "sent", "backoff", "raised"},
     group : Groups \cup {NoGroup}, result : {"none", "commit", "abort"},
     req : SUBSET Partitions, scope : SUBSET Batch]
NoTask == [kind |-> "none", stage |-> "none", group |-> NoGroup, result |-> "none",
           req |-> {}, scope |-> {}]

ProduceTask == [stage : {"idle", "sent", "retry", "closing"},
                batches : SUBSET Batch, retry : SUBSET Batch]
Idle == [stage |-> "idle", batches |-> {}, retry |-> {}]
InFlight == {n \in Nodes : produce[n].stage # "idle"}

-----------------------------------------------------------------------------
(* TransactionManager                                                      *)

is_transition_valid(source, target) ==
    \/ target = "READY" /\ source \in {"UNINITIALIZED", "COMMITTING_TRANSACTION",
                                       "ABORTING_TRANSACTION"}
    \/ target = "IN_TRANSACTION" /\ source = "READY"
    \/ target = "COMMITTING_TRANSACTION" /\ source = "IN_TRANSACTION"
    \/ target = "ABORTING_TRANSACTION" /\ source \in {"IN_TRANSACTION", "ABORTABLE_ERROR"}
    \/ target \in {"ABORTABLE_ERROR", "FATAL_ERROR"}

\* An invalid transition raises AssertionError out of the caller.
transition_to(target) ==
    /\ is_transition_valid(state, target)
    /\ state' = target

is_in_transaction == state = "IN_TRANSACTION"
MutIgnoresPartitions == txnGroup = NoGroup
MutIgnoresGroup == txnPartitions = {}
MutEmptyIfEither == txnPartitions = {} \/ txnGroup = NoGroup
is_empty_transaction == txnPartitions = {} /\ txnGroup = NoGroup

\* notify_task_waiter: wakes the sender only when it awaits the _task_waiter.
MutNoNotify == UNCHANGED wake
notify_task_waiter == wake' = (wake \/ awaitTxn)

complete_transaction ==
    /\ pendingPartitions = {} /\ pendingOffsets = <<>>
    /\ transition_to("READY")
    /\ txnPartitions' = {}
    /\ txnGroup' = NoGroup
    /\ waiter' = IF waiter = "pending" THEN "result" ELSE waiter
    /\ completed' = completed \cup {txn}
    /\ UNCHANGED <<pendingPartitions, pendingOffsets>>

\* error_transaction and fatal_error forget the whole transaction.
forget_transaction(target) ==
    /\ transition_to(target)
    /\ txnPartitions' = {}
    /\ txnGroup' = NoGroup
    /\ pendingPartitions' = {}
    /\ pendingOffsets' = <<>>
    /\ waiter' = "exception"

error_transaction == forget_transaction("ABORTABLE_ERROR")
fatal_error == forget_transaction("FATAL_ERROR")

-----------------------------------------------------------------------------
(* The application                                                         *)

\* InitPIDHandler: set_pid_and_epoch, before the sender task is started.
InitPID ==
    /\ state = "UNINITIALIZED"
    /\ transition_to("READY")
    /\ sender' = "running"
    /\ wake' = TRUE
    /\ UNCHANGED <<waiter, txnPartitions, pendingPartitions, txnGroup, pendingOffsets,
                   accVars, awaitTxn, task, produce, muted, coVars, histVars>>

begin_transaction ==
    /\ txn < MaxTxn
    /\ state # "UNINITIALIZED"
    /\ transition_to("IN_TRANSACTION")
    /\ waiter' = "pending"
    /\ txn' = txn + 1
    /\ UNCHANGED <<txnPartitions, pendingPartitions, txnGroup, pendingOffsets, accVars,
                   sender, wake, awaitTxn, task, produce, muted, coVars, decision,
                   completed, acked, failed, created, offsetCalls, faults>>

commit_transaction ==
    /\ state # "ABORTABLE_ERROR"
    /\ transition_to("COMMITTING_TRANSACTION")
    /\ notify_task_waiter
    /\ decision' = [decision EXCEPT ![txn] = "commit"]
    /\ UNCHANGED <<waiter, txnPartitions, pendingPartitions, txnGroup, pendingOffsets,
                   accVars, sender, awaitTxn, task, produce, muted, coVars, txn,
                   completed, acked, failed, created, offsetCalls, faults>>

abort_transaction ==
    /\ transition_to("ABORTING_TRANSACTION")
    /\ waiter' = "pending"
    /\ notify_task_waiter
    /\ decision' = [decision EXCEPT ![txn] = "abort"]
    /\ UNCHANGED <<txnPartitions, pendingPartitions, txnGroup, pendingOffsets, accVars,
                   sender, awaitTxn, task, produce, muted, coVars, txn, completed,
                   acked, failed, created, offsetCalls, faults>>

\* maybe_add_partition_to_txn, called by _append_batch before the batch is queued.
maybe_add_partition_to_txn(tp) ==
    /\ is_in_transaction
    /\ pendingPartitions' = IF tp \in txnPartitions THEN pendingPartitions
                                                   ELSE pendingPartitions \cup {tp}

\* send and send_batch: a new batch is appended only when the partition has none
\* queued; otherwise the message joins the queued batch, or the call waits.
send(tp) ==
    /\ created < MaxBatches
    /\ sender # "failed"                     \* else add_message raises _exception
    /\ \A b \in queued : b.tp # tp
    /\ maybe_add_partition_to_txn(tp)
    /\ queued' = queued \cup {[id |-> created + 1, tp |-> tp, txn |-> txn]}
    /\ created' = created + 1
    /\ wake' = TRUE
    /\ UNCHANGED <<state, waiter, txnPartitions, txnGroup, pendingOffsets, pending, sender,
                   awaitTxn, task, produce, muted, coVars, txn, decision, completed,
                   acked, failed, offsetCalls, faults>>

\* send_offsets_to_transaction: add_offsets_to_txn.  The structure is validated
\* to name at least one partition.
send_offsets_to_transaction(group, tps) ==
    /\ offsetCalls < MaxOffsets
    /\ is_in_transaction
    /\ pendingOffsets' = Append(pendingOffsets, [group |-> group, tps |-> tps])
    /\ offsetCalls' = offsetCalls + 1
    /\ notify_task_waiter
    /\ UNCHANGED <<state, waiter, txnPartitions, pendingPartitions, txnGroup, accVars,
                   sender, awaitTxn, task, produce, muted, coVars, txn, decision,
                   completed, acked, failed, created, faults>>

-----------------------------------------------------------------------------
(* The sender routine                                                      *)

\* _maybe_do_transactional_request: partitions, then the group, then its
\* offsets, then the end of the transaction.
consumer_group_to_add ==
    IF txnGroup = NoGroup /\ pendingOffsets # <<>> THEN Head(pendingOffsets).group
                                                  ELSE NoGroup
has_offsets_to_commit == txnGroup # NoGroup /\ pendingOffsets # <<>>
needs_transaction_commit ==
    CASE state = "COMMITTING_TRANSACTION" -> "commit"
      [] state = "ABORTING_TRANSACTION" -> "abort"
      [] OTHER -> "none"

NewTask(kind) == [NoTask EXCEPT !.kind = kind, !.stage = "start"]
maybe_do_transactional_request ==
    IF pendingPartitions # {} THEN NewTask("addPartitions")
    ELSE IF consumer_group_to_add # NoGroup
    THEN [NewTask("addOffsets") EXCEPT !.group = consumer_group_to_add]
    ELSE IF has_offsets_to_commit
    THEN [NewTask("offsetCommit") EXCEPT !.group = Head(pendingOffsets).group]
    ELSE IF needs_transaction_commit # "none"
    THEN [NewTask("end") EXCEPT !.result = needs_transaction_commit]
    ELSE NoTask

\* drain_by_nodes: the oldest batch of every partition that is neither muted nor
\* waiting to be added to the transaction, unless its leader has a request in flight.
MutNotMuted == muted
muted_partitions == muted \cup pendingPartitions
drain_by_nodes ==
    {b \in queued : /\ b.tp \notin muted_partitions
                    /\ Leader[b.tp] \notin InFlight
                    /\ \A c \in queued : c.tp = b.tp => b.id <= c.id}

\* One turn of the loop of _sender_routine, after asyncio.wait returned.
sender_routine ==
    /\ sender = "running" /\ wake
    /\ task.stage # "raised"
    /\ task' = IF task = NoTask THEN maybe_do_transactional_request ELSE task
    /\ awaitTxn' = (task' = NoTask)
    /\ LET batches == drain_by_nodes IN
        /\ queued' = queued \ batches
        /\ pending' = pending \cup batches
        /\ muted' = muted \cup {b.tp : b \in batches}
        /\ produce' = [n \in Nodes |->
               LET mine == {b \in batches : Leader[b.tp] = n} IN
               IF mine = {} THEN produce[n]
                            ELSE [stage |-> "sent", batches |-> mine, retry |-> {}]]
    /\ wake' = FALSE
    /\ UNCHANGED <<tmVars, sender, coVars, histVars>>

\* task.result() raises: the sender routine ends with the exception.
sender_dies ==
    /\ sender = "running" /\ wake
    /\ task.stage = "raised"
    /\ sender' = "dead"
    /\ UNCHANGED <<tmVars, accVars, wake, awaitTxn, task, produce, muted, coVars, histVars>>

\* The done callback of the sender task: fail_all, then fatal_error.
fail_all ==
    /\ sender = "dead"
    /\ sender' = "failed"
    /\ failed' = failed \cup ((queued \cup pending) \ acked)
    /\ pending' = {}
    /\ fatal_error
    /\ UNCHANGED <<queued, wake, awaitTxn, task, produce, muted, coVars, txn, decision,
                   completed, acked, created, offsetCalls, faults>>

-----------------------------------------------------------------------------
(* _send_produce_req                                                       *)

\* SendProduceReqHandler.do up to the backoff: ok are answered without error, bad
\* with an error that cannot be retried, the others with one that can, or the
\* request or its answer was lost.  Of those, lostAcks were written.
produce_answered(n, ok, bad, lostAcks) ==
    LET batches == produce[n].batches
        refused == {b \in batches : b.tp \in Unauthorized}
        retry == batches \ (ok \cup bad)
    IN
    /\ produce[n].stage = "sent"
    /\ ok \cap bad = {}
    /\ refused \cap (ok \cup lostAcks) = {}
    /\ bad \subseteq refused \/ "batch" \in AnswerErrors
    /\ lostAcks \subseteq retry
    /\ retry # {} => faults < MaxFaults
    /\ faults' = IF retry = {} THEN faults ELSE faults + 1
    /\ written' = written \cup ok \cup lostAcks
    /\ acked' = acked \cup (ok \ failed)
    /\ failed' = failed \cup (bad \ acked)
    /\ pending' = pending \ (ok \cup bad)
    /\ produce' = [produce EXCEPT ![n].stage = IF retry = {} THEN "closing" ELSE "retry",
                                 ![n].retry = retry]
    /\ UNCHANGED <<tmVars, queued, sender, wake, awaitTxn, task, muted, coPartitions,
                   coGroups, visible, dropped, heldOffsets, groupOffsets, txn, decision,
                   completed, created, offsetCalls>>

\* After the backoff: reenqueue.  Once fail_all ran it raises KeyError instead, in
\* a task nobody awaits.
produce_reenqueue(n) ==
    /\ produce[n].stage = "retry"
    /\ sender # "failed"
    /\ queued' = queued \cup produce[n].retry
    /\ pending' = pending \ produce[n].retry
    /\ produce' = [produce EXCEPT ![n].stage = "closing"]
    /\ UNCHANGED <<tmVars, sender, wake, awaitTxn, task, muted, coVars, histVars>>

\* After the linger time: the node is free and its partitions are unmuted.
produce_close(n) ==
    /\ produce[n].stage = "closing"
    /\ muted' = muted \ {b.tp : b \in produce[n].batches}
    /\ produce' = [produce EXCEPT ![n] = Idle]
    /\ wake' = TRUE
    /\ UNCHANGED <<tmVars, accVars, sender, awaitTxn, task, coVars, histVars>>

-----------------------------------------------------------------------------
(* The transactional task.  Outcomes of BaseHandler.do:                    *)
(*   done       handled without error: the task returns                    *)
(*   retry      a retriable error, or the request or its answer is lost:   *)
(*              the task sleeps and returns, and the next turn retries     *)
(*   abortable  an authorization error: error_transaction                  *)
(*   fatal      any other error is raised out of the task                  *)

taskVars == <<accVars, sender, awaitTxn, produce, muted, txn, decision, acked, failed,
              created, offsetCalls>>

handled(outcome) ==
    /\ task.stage = "sent"
    /\ outcome = "retry" => faults < MaxFaults
    /\ outcome = "fatal" => "fatal" \in AnswerErrors
    /\ faults' = IF outcome = "retry" THEN faults + 1 ELSE faults
    /\ task' = CASE outcome = "retry" -> [task EXCEPT !.stage = "backoff"]
                 [] outcome = "fatal" -> [task EXCEPT !.stage = "raised"]
                 [] OTHER -> NoTask
    /\ wake' = (wake \/ outcome # "retry")

backoff_over ==
    /\ task.stage = "backoff"
    /\ task' = NoTask
    /\ wake' = TRUE
    /\ UNCHANGED <<tmVars, coVars, taskVars, completed, faults>>

\* create_request: the live set of pending partitions, or the live offsets of the
\* first pending entry, is copied only now.
create_request ==
    /\ task.stage = "start"
    /\ task.kind # "end"
    /\ task' = [task EXCEPT !.stage = "sent",
                   !.req = CASE task.kind = "addPartitions" -> pendingPartitions
                             [] task.kind = "offsetCommit" -> Head(pendingOffsets).tps
                             [] OTHER -> {}]
    /\ UNCHANGED <<tmVars, wake, coVars, taskVars, completed, faults>>

\* AddPartitionsToTxnHandler: the coordinator added some partitions, and the
\* answer tells the producer of some of them before it reaches an error.
partition_added(tps) ==
    /\ pendingPartitions' = pendingPartitions \ tps
    /\ txnPartitions' = txnPartitions \cup tps
    /\ UNCHANGED <<state, waiter, txnGroup, pendingOffsets>>

add_partitions_answered(added, told, outcome) ==
    /\ task.kind = "addPartitions"
    /\ handled(outcome)
    /\ told \subseteq added /\ added \subseteq task.req \ Unauthorized
    /\ outcome = "done" => told = task.req
    /\ outcome = "abortable" => added = {} /\ task.req \cap Unauthorized # {}
    /\ coPartitions' = coPartitions \cup added
    /\ IF outcome = "abortable" THEN error_transaction ELSE partition_added(told)
    /\ UNCHANGED <<coGroups, written, visible, dropped, heldOffsets, groupOffsets,
                   taskVars, completed>>

\* AddOffsetsToTxnHandler
consumer_group_added(group) ==
    /\ txnGroup' = group
    /\ UNCHANGED <<state, waiter, txnPartitions, pendingPartitions, pendingOffsets>>

MutAddedOnError(added, outcome) ==
    /\ task.kind = "addOffsets"
    /\ handled(outcome)
    /\ coGroups' = IF added THEN coGroups \cup {task.group} ELSE coGroups
    /\ consumer_group_added(task.group)
    /\ UNCHANGED <<coPartitions, written, visible, dropped, heldOffsets, groupOffsets,
                   taskVars, completed>>
add_offsets_answered(added, outcome) ==
    /\ task.kind = "addOffsets"
    /\ handled(outcome)
    /\ outcome = "done" => added
    /\ outcome = "abortable" => task.group \in Unauthorized
    /\ added => task.group \notin Unauthorized
    /\ coGroups' = IF added THEN coGroups \cup {task.group} ELSE coGroups
    /\ CASE outcome = "done" -> consumer_group_added(task.group)
         [] outcome = "abortable" -> error_transaction
         [] OTHER -> UNCHANGED tmVars
    /\ UNCHANGED <<coPartitions, written, visible, dropped, heldOffsets, groupOffsets,
                   taskVars, completed>>

\* TxnOffsetCommitHandler, and the group lookup of _do_txn_offset_commit.
MutNotPopped(tps) ==
    /\ pendingOffsets' = [pendingOffsets EXCEPT ![1].tps = @ \ tps]
    /\ UNCHANGED <<state, waiter, txnPartitions, pendingPartitions, txnGroup>>
offset_committed(tps) ==
    LET left == Head(pendingOffsets).tps \ tps IN
    /\ pendingOffsets' = IF left = {} THEN Tail(pendingOffsets)
                                     ELSE [pendingOffsets EXCEPT ![1].tps = left]
    /\ UNCHANGED <<state, waiter, txnPartitions, pendingPartitions, txnGroup>>

offset_commit_answered(stored, told, outcome) ==
    /\ task.kind = "offsetCommit"
    /\ handled(outcome)
    /\ stored \subseteq task.req /\ told \subseteq stored
    /\ outcome = "done" => told = task.req
    /\ outcome = "abortable" => task.group \in Unauthorized
    /\ task.group \in Unauthorized => stored = {}
    /\ heldOffsets' = heldOffsets \cup [group : {task.group}, tp : stored, txn : {txn}]
    /\ IF outcome = "abortable" THEN error_transaction ELSE offset_committed(told)
    /\ UNCHANGED <<coPartitions, coGroups, written, visible, dropped, groupOffsets,
                   taskVars, completed>>

\* _do_txn_commit: flush_for_commit waits for the batches of this moment.
MutFlushQueuedOnly ==
    /\ task.kind = "end" /\ task.stage = "start"
    /\ task' = [task EXCEPT !.stage = "flush", !.scope = queued]
    /\ UNCHANGED <<tmVars, wake, coVars, taskVars, completed, faults>>
flush_for_commit ==
    /\ task.kind = "end" /\ task.stage = "start"
    /\ task' = [task EXCEPT !.stage = "flush", !.scope = queued \cup pending]
    /\ UNCHANGED <<tmVars, wake, coVars, taskVars, completed, faults>>

do_txn_commit ==
    /\ task.stage = "flush"
    /\ task.scope \subseteq acked \cup failed
    /\ IF is_empty_transaction
       THEN complete_transaction /\ task' = NoTask /\ wake' = TRUE
       ELSE /\ task' = [task EXCEPT !.stage = "sent"]
            /\ UNCHANGED <<tmVars, wake, completed>>
    /\ UNCHANGED <<coVars, taskVars, faults>>

\* The coordinator ends its transaction: markers go to the added partitions and
\* to the added groups, and to nothing else.
EndTxn(result) ==
    LET open == {b \in written : b.tp \in coPartitions} \ (visible \cup dropped)
        held == {o \in heldOffsets : o.group \in coGroups}
    IN
    /\ visible' = IF result = "commit" THEN visible \cup open ELSE visible
    /\ dropped' = IF result = "abort" THEN dropped \cup open ELSE dropped
    /\ groupOffsets' = IF result = "commit" THEN groupOffsets \cup held ELSE groupOffsets
    /\ heldOffsets' = heldOffsets \ held
    /\ coPartitions' = {} /\ coGroups' = {}
    /\ UNCHANGED written

\* EndTxnHandler
end_txn_answered(processed, outcome) ==
    /\ task.kind = "end"
    /\ handled(outcome)
    /\ outcome # "abortable"
    /\ outcome = "done" => processed
    /\ IF processed THEN EndTxn(task.result) ELSE UNCHANGED coVars
    /\ IF outcome = "done" THEN complete_transaction ELSE UNCHANGED <<tmVars, completed>>
    /\ UNCHANGED taskVars

-----------------------------------------------------------------------------
Init ==
    /\ state = "UNINITIALIZED" /\ waiter = "none"
    /\ txnPartitions = {} /\ pendingPartitions = {}
    /\ txnGroup = NoGroup /\ pendingOffsets = <<>>
    /\ queued = {} /\ pending = {}
    /\ sender = "starting" /\ wake = FALSE /\ awaitTxn = FALSE
    /\ task = NoTask
    /\ produce = [n \in Nodes |-> Idle]
    /\ muted = {}
    /\ coPartitions = {} /\ coGroups = {}
    /\ written = {} /\ visible = {} /\ dropped = {}
    /\ heldOffsets = {} /\ groupOffsets = {}
    /\ txn = 0
    /\ decision = [t \in 1..MaxTxn |-> "open"]
    /\ completed = {} /\ acked = {} /\ failed = {}
    /\ created = 0 /\ offsetCalls = 0 /\ faults = 0

Application ==
    \/ begin_transaction
    \/ commit_transaction
    \/ abort_transaction
    \/ \E tp \in Partitions : send(tp)
    \/ \E group \in Groups, tps \in (SUBSET Partitions) \ {{}} :
          send_offsets_to_transaction(group, tps)

SenderStep ==
    \/ InitPID
    \/ sender_routine
    \/ sender_dies
    \/ fail_all

ProduceStep(n) ==
    \/ \E ok, bad, lostAcks \in SUBSET produce[n].batches :
          produce_answered(n, ok, bad, lostAcks)
    \/ produce_reenqueue(n)
    \/ produce_close(n)

Outcomes == {"done", "retry", "abortable", "fatal"}
TaskStep ==
    \/ create_request
    \/ backoff_over
    \/ \E added, told \in SUBSET task.req, outcome \in Outcomes :
          add_partitions_answered(added, told, outcome)
    \/ \E added \in BOOLEAN, outcome \in Outcomes : add_offsets_answered(added, outcome)
    \/ \E stored, told \in SUBSET task.req, outcome \in Outcomes :
          offset_commit_answered(stored, told, outcome)
    \/ flush_for_commit
    \/ do_txn_commit
    \/ \E processed \in BOOLEAN, outcome \in Outcomes : end_txn_answered(processed, outcome)

Next ==
    \/ Application
    \/ SenderStep
    \/ \E n \in Nodes : ProduceStep(n)
    \/ TaskStep

Spec == Init /\ [][Next]_vars

\* The event loop runs every ready callback; client.send ends every request with an
\* answer or, after request_timeout_ms, an error.
Fairness ==
    /\ WF_vars(SenderStep)
    /\ WF_vars(TaskStep)
    /\ \A n \in Nodes : WF_vars(ProduceStep(n))
FairSpec == Spec /\ Fairness

-----------------------------------------------------------------------------
(* Properties                                                              *)

\* Type correctness of the state of the transaction manager, the accumulator, the
\* sender, the brokers and the history.
TypeOK ==
    /\ state \in States
    /\ waiter \in {"none", "pending", "result", "exception"}
    /\ txnPartitions \subseteq Partitions /\ pendingPartitions \subseteq Partitions
    /\ txnGroup \in Groups \cup {NoGroup}
    /\ pendingOffsets \in Seq(OffsetsEntry)
    /\ queued \subseteq Batch /\ pending \subseteq Batch
    /\ sender \in {"starting", "running", "dead", "failed"}
    /\ wake \in BOOLEAN /\ awaitTxn \in BOOLEAN
    /\ task \in Task
    /\ produce \in [Nodes -> ProduceTask]
    /\ muted \subseteq Partitions
    /\ coPartitions \subseteq Partitions /\ coGroups \subseteq Groups
    /\ written \subseteq Batch /\ visible \subseteq Batch /\ dropped \subseteq Batch
    /\ heldOffsets \subseteq GroupOffset /\ groupOffsets \subseteq GroupOffset
    /\ txn \in 0..MaxTxn
    /\ decision \in [1..MaxTxn -> {"open", "commit", "abort"}]
    /\ completed \subseteq 1..MaxTxn
    /\ acked \subseteq Batch /\ failed \subseteq Batch
    /\ created \in 0..MaxBatches /\ offsetCalls \in 0..MaxOffsets
    /\ faults \in 0..MaxFaults

\* "Committing transaction should be done with care" (_do_txn_commit): while an
\* EndTxn request is in flight no batch is queued or unanswered, and no partition
\* or offset still waits to be added, so the marker covers the whole transaction
\* and the assertions of complete_transaction hold.
EndTxnScope ==
    task.kind = "end" /\ task.stage = "sent" =>
        /\ queued = {} /\ pending = {}
        /\ pendingPartitions = {} /\ pendingOffsets = <<>>
        /\ is_transition_valid(state, "READY")

\* A batch never outlives its transaction: what is queued or unanswered was sent in
\* the current transaction, and between transactions there is none.
NoLeak ==
    \A b \in queued \cup pending :
        /\ b.txn = txn
        /\ state \notin {"UNINITIALIZED", "READY"}

\* "We can't have a race condition between AddPartitionsToTxnRequest and a
\* ProduceRequest, so we mute the partition until added" (_sender_routine): a
\* batch is on its way only to a partition the coordinator knows of.
ProducedOnlyIfAdded ==
    \A n \in Nodes : produce[n].stage = "sent" =>
        \A b \in produce[n].batches : b.tp \in coPartitions

\* A read_committed consumer sees a batch only if commit_transaction was called in
\* the transaction the batch was sent in.
OnlyCommittedVisible == \A b \in visible : decision[b.txn] = "commit"

\* commit_transaction returns only once everything acknowledged in the transaction is
\* visible, abort_transaction only once everything written in it is dropped.
EndIsAtomic ==
    \A t \in completed :
        LET mine == {b \in written : b.txn = t} IN
        IF decision[t] = "commit"
        THEN mine \subseteq visible /\ {b \in acked : b.txn = t} \subseteq mine
        ELSE mine \subseteq dropped

\* Between transactions the brokers hold nothing open: neither a partition or group of
\* a transaction, nor an undecided batch or offset that would block readers.
NothingHangs ==
    state = "READY" =>
        /\ coPartitions = {} /\ coGroups = {} /\ heldOffsets = {}
        /\ written \subseteq visible \cup dropped

\* "We need to add group to transaction before we can commit the offset"
\* (_maybe_do_transactional_request).
GroupAddedBeforeOffsets ==
    task.kind = "offsetCommit" /\ task.stage = "sent" => task.group \in coGroups

\* A transaction that was ended stays ended: no later step writes into it, and what
\* readers saw of it never changes.
EndedIsFinal ==
    [][\A t \in completed :
         /\ {b \in written' : b.txn = t} = {b \in written : b.txn = t}
         /\ {b \in visible' : b.txn = t} = {b \in visible : b.txn = t}]_vars

\* commit_transaction and abort_transaction return or raise: the future they await is
\* resolved, whatever the interleaving of the sender, its tasks and retriable errors.
EndReturns ==
    state \in {"COMMITTING_TRANSACTION", "ABORTING_TRANSACTION"} ~> waiter # "pending"

-----------------------------------------------------------------------------
(* The promise                                                             *)

Promise == INSTANCE Transactions WITH
    current <- txn, asked <- decision, ended <- completed,
    stored <- (written \ (visible \cup dropped)) \cup heldOffsets,
    seen <- visible \cup groupOffsets

\* The producer, with the brokers it talks to, implements atomic transactions: however
\* requests are lost, answered late or sent again, what is sent in a transaction becomes
\* visible in one step or never, as commit_transaction or abort_transaction asked, before
\* either returns, and nothing is written to a transaction that ended.
ImplementsTransactions == Promise!Spec
=============================================================================

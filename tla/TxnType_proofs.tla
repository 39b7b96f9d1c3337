--------------------------- MODULE TxnType_proofs ---------------------------
(***************************************************************************)
(* The type invariant of TxnProducer is preserved by every action, and the *)
(*  inductive invariant it needs.                                          *)
(***************************************************************************)
EXTENDS TxnProducer, SequenceTheorems, TLAPS

\* Every SMT leaf may take up to a minute.
USE SMTT(60)

-----------------------------------------------------------------------------
(* The inductive invariant behind NoLeak and EndTxnScope                   *)

\* What each stage of the transactional task may assume.
TaskInv ==
    /\ task.stage = "none" => task = NoTask
    /\ task.kind = "none" => task = NoTask
    /\ task.stage = "flush" => task.kind = "end"
    /\ task.kind \in {"addOffsets", "offsetCommit"} => task.group \in Groups
    /\ task.kind = "offsetCommit" /\ task.stage \in {"start", "sent"} => pendingOffsets # <<>>
    /\ sender \in {"dead", "failed"} => task.stage = "raised"
    /\ sender = "starting" => task = NoTask
    /\ task.kind = "end" /\ task.stage # "raised" =>
         /\ state \in {"COMMITTING_TRANSACTION", "ABORTING_TRANSACTION"}
         /\ pendingPartitions = {} /\ pendingOffsets = <<>>
    /\ task.stage = "flush" => queued \cup pending \subseteq task.scope
    /\ task.kind = "end" /\ task.stage \in {"sent", "backoff"} => queued = {} /\ pending = {}

\* A batch is queued, or with a produce task, or answered.
BatchInv ==
    /\ queued \cap pending = {}
    /\ sender # "failed" => (queued \cup pending) \cap (acked \cup failed) = {}
    /\ \A b \in queued \cup pending \cup acked \cup failed : b.id <= created
    /\ \A n \in Nodes :
         /\ \A b \in produce[n].batches : Leader[b.tp] = n /\ b.id <= created
         /\ produce[n].retry \subseteq produce[n].batches
         /\ sender # "failed" /\ produce[n].stage = "sent" => produce[n].batches \subseteq pending
         /\ sender # "failed" /\ produce[n].stage = "retry" => produce[n].retry \subseteq pending

\* When there is a transaction at all.
TxnInv ==
    /\ sender = "starting" <=> state = "UNINITIALIZED"
    /\ sender = "failed" => state = "FATAL_ERROR"
    /\ txn = 0 => /\ state \in {"UNINITIALIZED", "READY"}
                  /\ pendingPartitions = {} /\ pendingOffsets = <<>>
                  /\ task = NoTask

IInv == TypeOK /\ TaskInv /\ BatchInv /\ TxnInv /\ NoLeak

-----------------------------------------------------------------------------
(* Type correctness                                                        *)

LEMMA EmptyTasks == NoTask \in Task /\ Idle \in ProduceTask
BY DEF NoTask, Task, Idle, ProduceTask

LEMMA ProduceTaskUpdate ==
    ASSUME NEW t \in ProduceTask, NEW stage \in {"idle", "sent", "retry", "closing"},
           NEW retry \in SUBSET Batch
    PROVE  /\ [t EXCEPT !.stage = stage, !.retry = retry] \in ProduceTask
           /\ [t EXCEPT !.stage = stage] \in ProduceTask
           /\ t.batches \subseteq Batch /\ t.retry \subseteq Batch
BY Zenon DEF ProduceTask

LEMMA TaskUpdate ==
    ASSUME NEW t \in Task, NEW stage \in {"none", "start", "flush", "sent", "backoff", "raised"},
           NEW req \in SUBSET Partitions, NEW scope \in SUBSET Batch
    PROVE  /\ [t EXCEPT !.stage = stage] \in Task
           /\ [t EXCEPT !.stage = stage, !.req = req] \in Task
           /\ [t EXCEPT !.stage = stage, !.scope = scope] \in Task
           /\ t.req \subseteq Partitions /\ t.scope \subseteq Batch
BY Zenon DEF Task

LEMMA HeadOffsets ==
    ASSUME NEW s \in Seq(OffsetsEntry), s # <<>>
    PROVE  /\ Head(s).group \in Groups /\ Head(s).tps \subseteq Partitions
           /\ Tail(s) \in Seq(OffsetsEntry)
<1>1. Head(s) \in OffsetsEntry /\ Tail(s) \in Seq(OffsetsEntry)
  BY HeadTailProperties
<1>2. QED
  BY <1>1 DEF OffsetsEntry

LEMMA OffsetCommittedType ==
    ASSUME pendingOffsets \in Seq(OffsetsEntry), pendingOffsets # <<>>,
           NEW tps, offset_committed(tps)
    PROVE  pendingOffsets' \in Seq(OffsetsEntry)
<1> DEFINE left == Head(pendingOffsets).tps \ tps
<1>1. CASE left = {}
  BY <1>1, HeadTailProperties DEF offset_committed
<1>2. CASE left # {}
  <2>1. 1 \in DOMAIN pendingOffsets /\ pendingOffsets[1] = Head(pendingOffsets)
    BY HeadTailProperties, EmptySeq
  <2>2. pendingOffsets[1] \in OffsetsEntry
    BY <2>1, HeadTailProperties
  <2>3. [pendingOffsets[1] EXCEPT !.tps = left] \in OffsetsEntry
    BY <1>2, <2>1, <2>2 DEF OffsetsEntry
  <2>4. pendingOffsets' = [pendingOffsets EXCEPT ![1] = [pendingOffsets[1] EXCEPT !.tps = left]]
    BY <1>2 DEF offset_committed
  <2>5. QED
    BY <2>1, <2>3, <2>4, ExceptSeq
<1>3. QED
  BY <1>1, <1>2

LEMMA TaskInTxn ==
    ASSUME TypeOK, TxnInv, task.kind # "none"
    PROVE  txn \in 1..MaxTxn
<1>1. task # NoTask
  BY DEF NoTask
<1>2. QED
  BY <1>1, TxnProducerAssumption DEF TypeOK, TxnInv

LEMMA ForgetType ==
    ASSUME NEW target \in States, forget_transaction(target)
    PROVE  /\ state' \in States /\ waiter' = "exception"
           /\ txnPartitions' = {} /\ pendingPartitions' = {}
           /\ txnGroup' = NoGroup /\ pendingOffsets' \in Seq(OffsetsEntry)
BY DEF forget_transaction, transition_to

LEMMA HandledType ==
    ASSUME TypeOK, NEW outcome, handled(outcome)
    PROVE  task' \in Task /\ faults' \in 0..MaxFaults /\ wake' \in BOOLEAN
<1>1. task' \in Task
  BY EmptyTasks, TaskUpdate, Zenon DEF handled, TypeOK
<1>2. QED
  BY <1>1, TxnProducerAssumption DEF handled, TypeOK

LEMMA NextTaskType ==
    ASSUME pendingOffsets # <<>> => Head(pendingOffsets).group \in Groups
    PROVE  maybe_do_transactional_request \in Task
<1>1. consumer_group_to_add \in Groups \cup {NoGroup}
  BY DEF consumer_group_to_add
<1>2. needs_transaction_commit \in {"none", "commit", "abort"}
  BY DEF needs_transaction_commit
<1>3. ASSUME NEW kind \in {"addPartitions", "addOffsets", "offsetCommit", "end"},
             NEW group \in Groups \cup {NoGroup}, NEW result \in {"none", "commit", "abort"}
      PROVE  /\ NewTask(kind) \in Task
             /\ [NewTask(kind) EXCEPT !.group = group] \in Task
             /\ [NewTask(kind) EXCEPT !.result = result] \in Task
  BY Zenon DEF NewTask, NoTask, Task
<1>4. QED
  BY <1>1, <1>2, <1>3, EmptyTasks, Zenon DEF maybe_do_transactional_request, has_offsets_to_commit

LEMMA TypeInit == Init => TypeOK
<1> SUFFICES ASSUME Init PROVE TypeOK
  OBVIOUS
<1>1. task \in Task /\ produce \in [Nodes -> ProduceTask]
  BY EmptyTasks DEF Init
<1>2. /\ txn \in 0..MaxTxn /\ created \in 0..MaxBatches
      /\ offsetCalls \in 0..MaxOffsets /\ faults \in 0..MaxFaults
      /\ decision \in [1..MaxTxn -> {"open", "commit", "abort"}]
  BY TxnProducerAssumption DEF Init
<1>3. QED
  <2>1. state \in States /\ pendingOffsets \in Seq(OffsetsEntry) /\ txnGroup \in Groups \cup {NoGroup}
    BY DEF Init, States
  <2>2. QED
    BY <1>1, <1>2, <2>1, Zenon DEF Init, TypeOK

LEMMA TypeStep == IInv /\ Next => TypeOK'
<1> SUFFICES ASSUME IInv, Next PROVE TypeOK'
  OBVIOUS
<1> USE TxnProducerAssumption DEF IInv, TypeOK, vars, tmVars, accVars, coVars, histVars, taskVars
<1>1. CASE InitPID
  BY <1>1 DEF InitPID, transition_to, States
<1>2. CASE begin_transaction
  BY <1>2 DEF begin_transaction, transition_to, States
<1>3. CASE commit_transaction
  BY <1>3, Zenon DEF commit_transaction, transition_to, notify_task_waiter, States
<1>4. CASE abort_transaction
  BY <1>4, Zenon DEF abort_transaction, transition_to, notify_task_waiter, States
<1>5. ASSUME NEW tp \in Partitions, send(tp) PROVE TypeOK'
  <2>1. [id |-> created + 1, tp |-> tp, txn |-> txn] \in Batch
    BY <1>5 DEF send, maybe_add_partition_to_txn, is_in_transaction, TxnInv, Batch
  <2>2. QED
    BY <1>5, <2>1 DEF send, maybe_add_partition_to_txn
<1>6. ASSUME NEW group \in Groups, NEW tps \in (SUBSET Partitions) \ {{}},
             send_offsets_to_transaction(group, tps) PROVE TypeOK'
  BY <1>6 DEF send_offsets_to_transaction, notify_task_waiter, OffsetsEntry
<1>8. CASE sender_dies
  BY <1>8 DEF sender_dies
<1>9. CASE fail_all
  BY <1>9 DEF fail_all, fatal_error, forget_transaction, transition_to, States
<1>10. ASSUME NEW n \in Nodes, NEW ok \in SUBSET produce[n].batches,
              NEW bad \in SUBSET produce[n].batches, NEW lostAcks \in SUBSET produce[n].batches,
              produce_answered(n, ok, bad, lostAcks) PROVE TypeOK'
  <2>1. produce[n].batches \subseteq Batch
    BY DEF ProduceTask
  <2> DEFINE retry == produce[n].batches \ (ok \cup bad)
             answered == [produce[n] EXCEPT !.stage = IF retry = {} THEN "closing" ELSE "retry",
                                            !.retry = retry]
  <2>2. produce' = [produce EXCEPT ![n] = answered]
    BY <1>10, Zenon DEF produce_answered, ProduceTask
  <2>3. answered \in ProduceTask
    BY <2>1, ProduceTaskUpdate, Zenon
  <2>4. produce' \in [Nodes -> ProduceTask]
    BY <2>2, <2>3
  <2>5. QED
    BY <1>10, <2>1, <2>4 DEF produce_answered
<1>11. ASSUME NEW n \in Nodes, produce_reenqueue(n) PROVE TypeOK'
  <2>1. produce[n].retry \subseteq Batch
    BY DEF ProduceTask
  <2>2. produce' = [produce EXCEPT ![n] = [produce[n] EXCEPT !.stage = "closing"]]
    BY <1>11 DEF produce_reenqueue
  <2>3. [produce[n] EXCEPT !.stage = "closing"] \in ProduceTask
    BY ProduceTaskUpdate, Zenon
  <2>4. QED
    BY <1>11, <2>1, <2>2, <2>3 DEF produce_reenqueue
<1>12. ASSUME NEW n \in Nodes, produce_close(n) PROVE TypeOK'
  BY <1>12, EmptyTasks DEF produce_close
<1>13. CASE create_request
  <2>1. task.kind = "offsetCommit" => Head(pendingOffsets).tps \subseteq Partitions
    BY <1>13, HeadOffsets DEF create_request, TaskInv
  <2>2. PICK req \in SUBSET Partitions : task' = [task EXCEPT !.stage = "sent", !.req = req]
    BY <1>13, <2>1, Zenon DEF create_request
  <2>3. task' \in Task
    BY <2>2, Zenon DEF Task
  <2>4. QED
    BY <1>13, <2>3 DEF create_request
<1>14. CASE backoff_over
  BY <1>14, EmptyTasks DEF backoff_over
<1>15. ASSUME NEW added \in SUBSET task.req, NEW told \in SUBSET task.req, NEW outcome \in Outcomes,
              add_partitions_answered(added, told, outcome) PROVE TypeOK'
  <2>1. task' \in Task /\ faults' \in 0..MaxFaults /\ wake' \in BOOLEAN
    BY <1>15, HandledType DEF add_partitions_answered
  <2>2. task.req \subseteq Partitions
    BY TaskUpdate, Zenon
  <2>3. QED
    <3>1. CASE outcome = "abortable"
      BY <1>15, <2>1, <2>2, <3>1, ForgetType DEF add_partitions_answered, error_transaction, States
    <3>2. CASE outcome # "abortable"
      BY <1>15, <2>1, <2>2, <3>2 DEF add_partitions_answered, partition_added
    <3>3. QED
      BY <3>1, <3>2
<1>16. ASSUME NEW added \in BOOLEAN, NEW outcome \in Outcomes, add_offsets_answered(added, outcome)
       PROVE TypeOK'
  <2>1. task' \in Task /\ faults' \in 0..MaxFaults /\ wake' \in BOOLEAN
    BY <1>16, HandledType DEF add_offsets_answered
  <2>2. task.group \in Groups
    BY <1>16 DEF add_offsets_answered, TaskInv
  <2>3. QED
    <3>1. CASE outcome = "abortable"
      BY <1>16, <2>1, <2>2, <3>1, ForgetType DEF add_offsets_answered, error_transaction, States
    <3>2. CASE outcome # "abortable"
      BY <1>16, <2>1, <2>2, <3>2 DEF add_offsets_answered, consumer_group_added
    <3>3. QED
      BY <3>1, <3>2
<1>17. ASSUME NEW stored \in SUBSET task.req, NEW told \in SUBSET task.req, NEW outcome \in Outcomes,
              offset_commit_answered(stored, told, outcome) PROVE TypeOK'
  <2>1. task' \in Task /\ faults' \in 0..MaxFaults /\ wake' \in BOOLEAN
    BY <1>17, HandledType DEF offset_commit_answered
  <2>2. task.req \subseteq Partitions /\ task.group \in Groups /\ txn \in 1..MaxTxn
    BY <1>17, TaskUpdate, TaskInTxn, Zenon DEF offset_commit_answered, TaskInv
  <2>3. heldOffsets' \subseteq GroupOffset
    BY <1>17, <2>2 DEF offset_commit_answered, GroupOffset
  <2>4. pendingOffsets # <<>>
    BY <1>17 DEF offset_commit_answered, handled, TaskInv
  <2>5. CASE outcome = "abortable"
    BY <1>17, <2>1, <2>3, <2>5, ForgetType DEF offset_commit_answered, error_transaction, States
  <2>6. CASE outcome # "abortable"
    <3>1. offset_committed(told)
      BY <1>17, <2>6 DEF offset_commit_answered
    <3>2. pendingOffsets' \in Seq(OffsetsEntry)
      BY <2>4, <3>1, OffsetCommittedType
    <3>3. QED
      BY <1>17, <2>1, <2>3, <3>1, <3>2 DEF offset_commit_answered, offset_committed
  <2>7. QED
    BY <2>5, <2>6
<1>18. CASE flush_for_commit
  BY <1>18, TaskUpdate, Zenon DEF flush_for_commit
<1>19. CASE do_txn_commit
  <2>1. task' \in Task /\ txn \in 1..MaxTxn
    <3>1. task' \in Task
      BY <1>19, EmptyTasks, TaskUpdate, Zenon DEF do_txn_commit
    <3>2. task.kind # "none"
      BY <1>19 DEF do_txn_commit, TaskInv
    <3>3. QED
      BY <3>1, <3>2, TaskInTxn
  <2>2. QED
    <3>1. CASE is_empty_transaction
      BY <1>19, <2>1, <3>1, Zenon DEF do_txn_commit, complete_transaction, transition_to, States
    <3>2. CASE ~is_empty_transaction
      BY <1>19, <2>1, <3>2, Zenon DEF do_txn_commit
    <3>3. QED
      BY <3>1, <3>2, Zenon
<1>20. ASSUME NEW processed \in BOOLEAN, NEW outcome \in Outcomes,
              end_txn_answered(processed, outcome) PROVE TypeOK'
  <2>1. task' \in Task /\ faults' \in 0..MaxFaults /\ wake' \in BOOLEAN
    BY <1>20, HandledType DEF end_txn_answered
  <2>2. txn \in 1..MaxTxn
    BY <1>20, TaskInTxn DEF end_txn_answered
  <2>3. /\ coPartitions' \subseteq Partitions /\ coGroups' \subseteq Groups
        /\ written' \subseteq Batch /\ visible' \subseteq Batch /\ dropped' \subseteq Batch
        /\ heldOffsets' \subseteq GroupOffset /\ groupOffsets' \subseteq GroupOffset
    BY <1>20 DEF end_txn_answered, EndTxn
  <2>4. QED
    BY <1>20, <2>1, <2>2, <2>3, Zenon
    DEF end_txn_answered, complete_transaction, transition_to, States
<1>7. CASE sender_routine
  <2>1. task' \in Task
    <3>1. pendingOffsets # <<>> => Head(pendingOffsets).group \in Groups
      BY HeadOffsets
    <3>2. maybe_do_transactional_request \in Task
      BY <3>1, NextTaskType
    <3>3. QED
      BY <1>7, <3>2 DEF sender_routine
  <2>2. drain_by_nodes \subseteq queued
    BY DEF drain_by_nodes
  <2>3. ASSUME NEW n \in Nodes PROVE produce'[n] \in ProduceTask
    BY <1>7, <2>2 DEF sender_routine, ProduceTask
  <2>4. produce' \in [Nodes -> ProduceTask]
    BY <1>7, <2>3 DEF sender_routine
  <2>5. muted' \subseteq Partitions
    BY <1>7, <2>2 DEF sender_routine, Batch
  <2>6. QED
    BY <1>7, <2>1, <2>2, <2>4, <2>5, Zenon DEF sender_routine
<1>21. QED
  BY <1>1, <1>2, <1>3, <1>4, <1>5, <1>6, <1>7, <1>8, <1>9, <1>10, <1>11, <1>12, <1>13, <1>14,
     <1>15, <1>16, <1>17, <1>18, <1>19, <1>20, Zenon
  DEF Next, Application, SenderStep, ProduceStep, TaskStep
=============================================================================

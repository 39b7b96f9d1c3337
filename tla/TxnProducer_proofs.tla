------------------------- MODULE TxnProducer_proofs -------------------------
(***************************************************************************)
(* Proofs about TxnProducer, for every set of partitions, brokers and groups*)
(* and for every value of the bounds.                                      *)
(***************************************************************************)
EXTENDS TxnType_proofs

\* Every SMT leaf may take up to a minute.
USE SMTT(60)

-----------------------------------------------------------------------------
(* The invariant is inductive                                              *)

\* The fields of an updated task.
LEMMA TaskFields ==
    ASSUME NEW t \in Task, NEW stage, NEW req, NEW scope
    PROVE  /\ [t EXCEPT !.stage = stage].kind = t.kind
           /\ [t EXCEPT !.stage = stage].stage = stage
           /\ [t EXCEPT !.stage = stage].group = t.group
           /\ [t EXCEPT !.stage = stage].result = t.result
           /\ [t EXCEPT !.stage = stage].scope = t.scope
           /\ [t EXCEPT !.stage = stage, !.scope = scope].kind = t.kind
           /\ [t EXCEPT !.stage = stage, !.scope = scope].stage = stage
           /\ [t EXCEPT !.stage = stage, !.scope = scope].group = t.group
           /\ [t EXCEPT !.stage = stage, !.scope = scope].result = t.result
           /\ [t EXCEPT !.stage = stage, !.scope = scope].scope = scope
BY DEF Task

\* What _maybe_do_transactional_request returns: the end of the transaction comes after
\* everything that has to be added to it.
LEMMA NextTaskShape ==
    ASSUME TypeOK, NEW t, t = maybe_do_transactional_request
    PROVE  \/ t = NoTask
           \/ /\ t.stage = "start"
              /\ t.kind \in {"addPartitions", "addOffsets", "offsetCommit", "end"}
              /\ t.kind = "addPartitions" => pendingPartitions # {}
              /\ t.kind \in {"addOffsets", "offsetCommit"} =>
                   t.group \in Groups /\ pendingOffsets # <<>>
              /\ t.kind = "end" =>
                   /\ pendingPartitions = {} /\ pendingOffsets = <<>>
                   /\ \/ state = "COMMITTING_TRANSACTION" /\ t.result = "commit"
                      \/ state = "ABORTING_TRANSACTION" /\ t.result = "abort"
<1>1. pendingOffsets # <<>> => Head(pendingOffsets).group \in Groups
  BY HeadOffsets DEF TypeOK
<1>2. NoGroup \notin Groups
  BY TxnProducerAssumption
<1>3. ASSUME NEW kind, NEW group, NEW result
      PROVE  /\ NewTask(kind).kind = kind /\ NewTask(kind).stage = "start"
             /\ [NewTask(kind) EXCEPT !.group = group].kind = kind
             /\ [NewTask(kind) EXCEPT !.group = group].stage = "start"
             /\ [NewTask(kind) EXCEPT !.group = group].group = group
             /\ [NewTask(kind) EXCEPT !.result = result].kind = kind
             /\ [NewTask(kind) EXCEPT !.result = result].stage = "start"
             /\ [NewTask(kind) EXCEPT !.result = result].result = result
  BY DEF NewTask, NoTask
<1>4. CASE pendingPartitions # {}
  BY <1>3, <1>4 DEF maybe_do_transactional_request
<1>5. CASE pendingPartitions = {} /\ pendingOffsets # <<>>
  BY <1>1, <1>2, <1>3, <1>5
  DEF maybe_do_transactional_request, consumer_group_to_add, has_offsets_to_commit
<1>6. CASE pendingPartitions = {} /\ pendingOffsets = <<>>
  BY <1>3, <1>6 DEF maybe_do_transactional_request, consumer_group_to_add,
     has_offsets_to_commit, needs_transaction_commit
<1>7. QED
  BY <1>4, <1>5, <1>6

LEMMA TaskInvStep == IInv /\ Next => TaskInv'
<1> SUFFICES ASSUME TypeOK, TaskInv, BatchInv, TxnInv, NoLeak, Next PROVE TaskInv'
  BY DEF IInv
<1> USE DEF tmVars, accVars, coVars, histVars, taskVars, TaskInv, NoTask
<1>1. CASE InitPID
  BY <1>1 DEF InitPID, transition_to, is_transition_valid
<1>2. CASE begin_transaction
  BY <1>2 DEF begin_transaction, transition_to, is_transition_valid
<1>3. CASE commit_transaction
  BY <1>3 DEF commit_transaction, transition_to, is_transition_valid
<1>4. CASE abort_transaction
  BY <1>4 DEF abort_transaction, transition_to, is_transition_valid
<1>5. ASSUME NEW tp \in Partitions, send(tp) PROVE TaskInv'
  BY <1>5 DEF send, maybe_add_partition_to_txn, is_in_transaction
<1>6. ASSUME NEW group \in Groups, NEW tps \in (SUBSET Partitions) \ {{}},
             send_offsets_to_transaction(group, tps) PROVE TaskInv'
  BY <1>6 DEF send_offsets_to_transaction, is_in_transaction
<1>7. CASE sender_routine
  <2>1. /\ queued' \cup pending' = queued \cup pending
        /\ UNCHANGED <<tmVars, sender>> /\ sender = "running"
    BY <1>7 DEF sender_routine, drain_by_nodes
  <2>2. CASE task = NoTask
    <3>1. task' = maybe_do_transactional_request
      BY <1>7, <2>2 DEF sender_routine
    <3>2. QED
      BY <2>1, <3>1, NextTaskShape DEF NoTask
  <2>3. CASE task # NoTask
    <3>1. task' = task /\ queued' \subseteq queued /\ pending' \subseteq queued \cup pending
      BY <1>7, <2>3 DEF sender_routine, drain_by_nodes
    <3>2. QED
      BY <2>1, <3>1
  <2>4. QED
    BY <2>2, <2>3
<1>8. CASE sender_dies
  BY <1>8 DEF sender_dies
<1>9. CASE fail_all
  BY <1>9 DEF fail_all, fatal_error, forget_transaction, transition_to, is_transition_valid
<1>10. ASSUME NEW n \in Nodes, NEW ok \in SUBSET produce[n].batches,
              NEW bad \in SUBSET produce[n].batches, NEW lostAcks \in SUBSET produce[n].batches,
              produce_answered(n, ok, bad, lostAcks) PROVE TaskInv'
  BY <1>10 DEF produce_answered
<1>11. ASSUME NEW n \in Nodes, produce_reenqueue(n) PROVE TaskInv'
  <2>1. produce[n].retry \subseteq pending
    BY <1>11 DEF produce_reenqueue, BatchInv
  <2>2. queued' \cup pending' = queued \cup pending /\ (pending = {} => queued' = queued)
    BY <1>11, <2>1 DEF produce_reenqueue
  <2>3. pending' \subseteq pending
    BY <1>11 DEF produce_reenqueue
  <2>4. QED
    BY <1>11, <2>2, <2>3 DEF produce_reenqueue
<1>12. ASSUME NEW n \in Nodes, produce_close(n) PROVE TaskInv'
  BY <1>12 DEF produce_close
<1>13. CASE create_request
  BY <1>13 DEF create_request
<1>14. CASE backoff_over
  BY <1>14 DEF backoff_over
<1>15. ASSUME NEW added \in SUBSET task.req, NEW told \in SUBSET task.req, NEW outcome \in Outcomes,
              add_partitions_answered(added, told, outcome) PROVE TaskInv'
  BY <1>15 DEF add_partitions_answered, handled, partition_added, error_transaction,
     forget_transaction, transition_to, is_transition_valid
<1>16. ASSUME NEW added \in BOOLEAN, NEW outcome \in Outcomes, add_offsets_answered(added, outcome)
       PROVE TaskInv'
  BY <1>16 DEF add_offsets_answered, handled, consumer_group_added, error_transaction,
     forget_transaction, transition_to, is_transition_valid
<1>17. ASSUME NEW stored \in SUBSET task.req, NEW told \in SUBSET task.req, NEW outcome \in Outcomes,
              offset_commit_answered(stored, told, outcome) PROVE TaskInv'
  BY <1>17 DEF offset_commit_answered, handled, offset_committed, error_transaction,
     forget_transaction, transition_to, is_transition_valid
<1>18. CASE flush_for_commit
  BY <1>18 DEF flush_for_commit
<1>19. CASE do_txn_commit
  <2>1. task.kind = "end" /\ task.stage = "flush" /\ sender = "running"
    BY <1>19 DEF do_txn_commit, NoTask, TypeOK
  <2>2. queued = {} /\ pending = {}
    BY <1>19, <2>1 DEF do_txn_commit, BatchInv
  <2>3. CASE task' = NoTask
    BY <1>19, <2>1, <2>3 DEF do_txn_commit, NoTask
  <2>4. CASE task' = [task EXCEPT !.stage = "sent"] /\ UNCHANGED tmVars
    BY <1>19, <2>1, <2>2, <2>4, TaskFields DEF do_txn_commit, TypeOK
  <2>5. QED
    BY <1>19, <2>3, <2>4 DEF do_txn_commit
<1>20. ASSUME NEW processed \in BOOLEAN, NEW outcome \in Outcomes,
              end_txn_answered(processed, outcome) PROVE TaskInv'
  BY <1>20 DEF end_txn_answered, handled, complete_transaction, transition_to,
     is_transition_valid
<1> HIDE DEF TaskInv, NoTask
<1>21. QED
  BY <1>1, <1>2, <1>3, <1>4, <1>5, <1>6, <1>7, <1>8, <1>9, <1>10, <1>11, <1>12, <1>13, <1>14,
     <1>15, <1>16, <1>17, <1>18, <1>19, <1>20, Zenon
  DEF Next, Application, SenderStep, ProduceStep, TaskStep

LEMMA BatchInvStep == IInv /\ Next => BatchInv'
<1> SUFFICES ASSUME TypeOK, TaskInv, BatchInv, TxnInv, NoLeak, Next PROVE BatchInv'
  BY DEF IInv
<1> USE DEF tmVars, accVars, coVars, histVars, taskVars, BatchInv
<1>1. CASE InitPID
  BY <1>1 DEF InitPID, transition_to, is_transition_valid, TxnInv
<1>2. CASE begin_transaction
  BY <1>2 DEF begin_transaction, transition_to, is_transition_valid
<1>3. CASE commit_transaction
  BY <1>3 DEF commit_transaction, transition_to, is_transition_valid
<1>4. CASE abort_transaction
  BY <1>4 DEF abort_transaction, transition_to, is_transition_valid
<1>5. ASSUME NEW tp \in Partitions, send(tp) PROVE BatchInv'
  <2> DEFINE new == [id |-> created + 1, tp |-> tp, txn |-> txn]
  <2>1. created \in Nat /\ created' = created + 1 /\ new.id = created + 1
    BY <1>5, TxnProducerAssumption DEF send, TypeOK
  <2>2. \A b \in Batch : b.id \in Nat
    BY TxnProducerAssumption DEF Batch
  <2>3. \A b \in Batch : b.id <= created => b # new /\ b.id <= created'
    BY <2>1, <2>2
  <2>4. new \notin pending \cup acked \cup failed
    BY <2>3 DEF TypeOK
  <2>5. \A b \in queued' \cup pending' \cup acked' \cup failed' : b.id <= created'
    BY <1>5, <2>1, <2>3 DEF send, TypeOK
  <2>6. \A n \in Nodes : \A b \in produce[n].batches : b.id <= created'
    BY <2>3, ProduceTaskUpdate, Zenon DEF TypeOK
  <2>7. QED
    BY <1>5, <2>4, <2>5, <2>6 DEF send
<1>6. ASSUME NEW group \in Groups, NEW tps \in (SUBSET Partitions) \ {{}},
             send_offsets_to_transaction(group, tps) PROVE BatchInv'
  BY <1>6 DEF send_offsets_to_transaction, is_in_transaction
<1>7. CASE sender_routine
  <2>1. drain_by_nodes \subseteq queued /\ sender = "running"
    BY <1>7 DEF sender_routine, drain_by_nodes
  <2>2. ASSUME NEW n \in Nodes
        PROVE  \/ produce'[n] = produce[n]
               \/ /\ produce'[n].stage = "sent" /\ produce'[n].retry = {}
                  /\ produce'[n].batches = {b \in drain_by_nodes : Leader[b.tp] = n}
    BY <1>7 DEF sender_routine
  <2>3. QED
    BY <1>7, <2>1, <2>2 DEF sender_routine
<1>8. CASE sender_dies
  BY <1>8 DEF sender_dies
<1>9. CASE fail_all
  BY <1>9 DEF fail_all, fatal_error, forget_transaction, transition_to, is_transition_valid
<1>10. ASSUME NEW n \in Nodes, NEW ok \in SUBSET produce[n].batches,
              NEW bad \in SUBSET produce[n].batches, NEW lostAcks \in SUBSET produce[n].batches,
              produce_answered(n, ok, bad, lostAcks) PROVE BatchInv'
  <2> DEFINE retry == produce[n].batches \ (ok \cup bad)
  <2>1. /\ produce'[n].batches = produce[n].batches /\ produce'[n].retry = retry
        /\ produce'[n].stage \in {"closing", "retry"}
        /\ \A m \in Nodes \ {n} : produce'[m] = produce[m]
    BY <1>10 DEF produce_answered, TypeOK, ProduceTask
  <2>2. \A b \in ok \cup bad : b.id <= created /\ Leader[b.tp] = n
    OBVIOUS
  <2>3. \A m \in Nodes \ {n} : (ok \cup bad) \cap produce[m].batches = {}
    BY <2>2
  <2>4. sender # "failed" => ok \cup bad \subseteq pending
    BY <1>10 DEF produce_answered
  <2>5. /\ pending' = pending \ (ok \cup bad) /\ queued' = queued /\ sender' = sender
        /\ acked' \cup failed' \subseteq acked \cup failed \cup ok \cup bad /\ created' = created
    BY <1>10 DEF produce_answered
  <2>6. /\ queued' \cap pending' = {}
        /\ sender' # "failed" => (queued' \cup pending') \cap (acked' \cup failed') = {}
        /\ \A b \in queued' \cup pending' \cup acked' \cup failed' : b.id <= created'
    BY <2>2, <2>4, <2>5
  <2>7. ASSUME NEW m \in Nodes \ {n}, sender' # "failed"
        PROVE  /\ produce'[m].stage = "sent" => produce'[m].batches \subseteq pending'
               /\ produce'[m].stage = "retry" => produce'[m].retry \subseteq pending'
    BY <2>1, <2>3, <2>5, <2>7
  <2>8. sender' # "failed" => retry \subseteq pending'
    BY <1>10, <2>5 DEF produce_answered
  <2>9. QED
    BY <2>1, <2>5, <2>6, <2>7, <2>8
<1>11. ASSUME NEW n \in Nodes, produce_reenqueue(n) PROVE BatchInv'
  <2>1. /\ produce'[n].batches = produce[n].batches /\ produce'[n].retry = produce[n].retry
        /\ produce'[n].stage = "closing"
        /\ \A m \in Nodes \ {n} : produce'[m] = produce[m]
    BY <1>11 DEF produce_reenqueue, TypeOK, ProduceTask
  <2>2. produce[n].retry \subseteq pending
    BY <1>11 DEF produce_reenqueue
  <2>3. /\ queued' = queued \cup produce[n].retry /\ pending' = pending \ produce[n].retry
        /\ UNCHANGED <<acked, failed, created, sender>>
    BY <1>11 DEF produce_reenqueue
  <2>4. \A m \in Nodes \ {n} : produce[n].retry \cap produce[m].batches = {}
    OBVIOUS
  <2>5. ASSUME NEW m \in Nodes \ {n}, sender' # "failed"
        PROVE  /\ produce'[m].stage = "sent" => produce'[m].batches \subseteq pending'
               /\ produce'[m].stage = "retry" => produce'[m].retry \subseteq pending'
    BY <2>1, <2>3, <2>4, <2>5
  <2>6. QED
    BY <2>1, <2>2, <2>3, <2>5
<1>12. ASSUME NEW n \in Nodes, produce_close(n) PROVE BatchInv'
  <2>1. /\ produce'[n].batches = {} /\ produce'[n].retry = {} /\ produce'[n].stage = "idle"
        /\ \A m \in Nodes \ {n} : produce'[m] = produce[m]
    BY <1>12 DEF produce_close, TypeOK, Idle
  <2>2. QED
    BY <1>12, <2>1 DEF produce_close
<1>13. CASE create_request
  BY <1>13 DEF create_request
<1>14. CASE backoff_over
  BY <1>14 DEF backoff_over
<1>15. ASSUME NEW added \in SUBSET task.req, NEW told \in SUBSET task.req, NEW outcome \in Outcomes,
              add_partitions_answered(added, told, outcome) PROVE BatchInv'
  BY <1>15 DEF add_partitions_answered, handled, partition_added, error_transaction,
     forget_transaction, transition_to, is_transition_valid
<1>16. ASSUME NEW added \in BOOLEAN, NEW outcome \in Outcomes, add_offsets_answered(added, outcome)
       PROVE BatchInv'
  BY <1>16 DEF add_offsets_answered, handled, consumer_group_added, error_transaction,
     forget_transaction, transition_to, is_transition_valid
<1>17. ASSUME NEW stored \in SUBSET task.req, NEW told \in SUBSET task.req, NEW outcome \in Outcomes,
              offset_commit_answered(stored, told, outcome) PROVE BatchInv'
  BY <1>17 DEF offset_commit_answered, handled, offset_committed, error_transaction,
     forget_transaction, transition_to, is_transition_valid
<1>18. CASE flush_for_commit
  BY <1>18 DEF flush_for_commit
<1>19. CASE do_txn_commit
  BY <1>19 DEF do_txn_commit, complete_transaction, transition_to, is_transition_valid
<1>20. ASSUME NEW processed \in BOOLEAN, NEW outcome \in Outcomes,
              end_txn_answered(processed, outcome) PROVE BatchInv'
  BY <1>20 DEF end_txn_answered, handled, complete_transaction, transition_to,
     is_transition_valid
<1> HIDE DEF BatchInv
<1>21. QED
  BY <1>1, <1>2, <1>3, <1>4, <1>5, <1>6, <1>7, <1>8, <1>9, <1>10, <1>11, <1>12, <1>13, <1>14,
     <1>15, <1>16, <1>17, <1>18, <1>19, <1>20, Zenon
  DEF Next, Application, SenderStep, ProduceStep, TaskStep

LEMMA TxnInvStep == IInv /\ Next => TxnInv'
<1> SUFFICES ASSUME TypeOK, TaskInv, BatchInv, TxnInv, NoLeak, Next PROVE TxnInv'
  BY DEF IInv
<1> USE DEF tmVars, accVars, coVars, histVars, taskVars, TxnInv, NoTask
<1>1. CASE InitPID
  BY <1>1 DEF InitPID, transition_to, is_transition_valid
<1>2. CASE begin_transaction
  BY <1>2, TxnProducerAssumption DEF begin_transaction, transition_to, is_transition_valid,
     TypeOK
<1>3. CASE commit_transaction
  BY <1>3 DEF commit_transaction, transition_to, is_transition_valid
<1>4. CASE abort_transaction
  BY <1>4 DEF abort_transaction, transition_to, is_transition_valid
<1>5. ASSUME NEW tp \in Partitions, send(tp) PROVE TxnInv'
  BY <1>5 DEF send, maybe_add_partition_to_txn, is_in_transaction
<1>6. ASSUME NEW group \in Groups, NEW tps \in (SUBSET Partitions) \ {{}},
             send_offsets_to_transaction(group, tps) PROVE TxnInv'
  BY <1>6 DEF send_offsets_to_transaction, is_in_transaction
<1>7. CASE sender_routine
  <2>1. UNCHANGED <<tmVars, sender, txn>>
    BY <1>7 DEF sender_routine
  <2>2. CASE task = NoTask /\ txn = 0
    <3>1. task' = maybe_do_transactional_request
      BY <1>7, <2>2 DEF sender_routine
    <3>2. QED
      BY <2>1, <2>2, <3>1, NextTaskShape
  <2>3. CASE task # NoTask \/ txn # 0
    BY <1>7, <2>1, <2>3 DEF sender_routine
  <2>4. QED
    BY <2>2, <2>3
<1>8. CASE sender_dies
  BY <1>8 DEF sender_dies
<1>9. CASE fail_all
  <2>1. task # NoTask
    BY <1>9 DEF fail_all, TaskInv, NoTask
  <2>2. QED
    BY <1>9, <2>1 DEF fail_all, fatal_error, forget_transaction, transition_to
<1>10. ASSUME NEW n \in Nodes, NEW ok \in SUBSET produce[n].batches,
              NEW bad \in SUBSET produce[n].batches, NEW lostAcks \in SUBSET produce[n].batches,
              produce_answered(n, ok, bad, lostAcks) PROVE TxnInv'
  BY <1>10 DEF produce_answered
<1>11. ASSUME NEW n \in Nodes, produce_reenqueue(n) PROVE TxnInv'
  BY <1>11 DEF produce_reenqueue
<1>12. ASSUME NEW n \in Nodes, produce_close(n) PROVE TxnInv'
  BY <1>12 DEF produce_close
<1>13. CASE create_request
  BY <1>13 DEF create_request
<1>14. CASE backoff_over
  BY <1>14 DEF backoff_over
<1>15. ASSUME NEW added \in SUBSET task.req, NEW told \in SUBSET task.req, NEW outcome \in Outcomes,
              add_partitions_answered(added, told, outcome) PROVE TxnInv'
  <2>1. task # NoTask /\ sender = "running"
    BY <1>15 DEF add_partitions_answered, handled, TaskInv, NoTask, TypeOK
  <2>2. QED
    BY <1>15, <2>1 DEF add_partitions_answered, partition_added, error_transaction,
       forget_transaction, transition_to
<1>16. ASSUME NEW added \in BOOLEAN, NEW outcome \in Outcomes, add_offsets_answered(added, outcome)
       PROVE TxnInv'
  <2>1. task # NoTask /\ sender = "running"
    BY <1>16 DEF add_offsets_answered, handled, TaskInv, NoTask, TypeOK
  <2>2. QED
    BY <1>16, <2>1 DEF add_offsets_answered, consumer_group_added, error_transaction,
       forget_transaction, transition_to
<1>17. ASSUME NEW stored \in SUBSET task.req, NEW told \in SUBSET task.req, NEW outcome \in Outcomes,
              offset_commit_answered(stored, told, outcome) PROVE TxnInv'
  <2>1. task # NoTask /\ sender = "running"
    BY <1>17 DEF offset_commit_answered, handled, TaskInv, NoTask, TypeOK
  <2>2. QED
    BY <1>17, <2>1 DEF offset_commit_answered, offset_committed, error_transaction,
       forget_transaction, transition_to
<1>18. CASE flush_for_commit
  BY <1>18 DEF flush_for_commit
<1>19. CASE do_txn_commit
  <2>1. task # NoTask /\ sender = "running"
    BY <1>19 DEF do_txn_commit, handled, TaskInv, NoTask, TypeOK
  <2>2. QED
    BY <1>19, <2>1 DEF do_txn_commit, complete_transaction, transition_to
<1>20. ASSUME NEW processed \in BOOLEAN, NEW outcome \in Outcomes,
              end_txn_answered(processed, outcome) PROVE TxnInv'
  <2>1. task # NoTask /\ sender = "running"
    BY <1>20 DEF end_txn_answered, handled, TaskInv, NoTask, TypeOK
  <2>2. QED
    BY <1>20, <2>1 DEF end_txn_answered, complete_transaction, transition_to
<1> HIDE DEF TxnInv, NoTask
<1>21. QED
  BY <1>1, <1>2, <1>3, <1>4, <1>5, <1>6, <1>7, <1>8, <1>9, <1>10, <1>11, <1>12, <1>13, <1>14,
     <1>15, <1>16, <1>17, <1>18, <1>19, <1>20, Zenon
  DEF Next, Application, SenderStep, ProduceStep, TaskStep

LEMMA NoLeakStep == IInv /\ Next => NoLeak'
<1> SUFFICES ASSUME TypeOK, TaskInv, BatchInv, TxnInv, NoLeak, Next PROVE NoLeak'
  BY DEF IInv
<1> USE DEF tmVars, accVars, coVars, histVars, taskVars, NoLeak
<1>1. CASE InitPID
  BY <1>1 DEF InitPID, transition_to, is_transition_valid
<1>2. CASE begin_transaction
  BY <1>2 DEF begin_transaction, transition_to, is_transition_valid
<1>3. CASE commit_transaction
  BY <1>3 DEF commit_transaction, transition_to, is_transition_valid
<1>4. CASE abort_transaction
  BY <1>4 DEF abort_transaction, transition_to, is_transition_valid
<1>5. ASSUME NEW tp \in Partitions, send(tp) PROVE NoLeak'
  BY <1>5 DEF send, maybe_add_partition_to_txn, is_in_transaction
<1>6. ASSUME NEW group \in Groups, NEW tps \in (SUBSET Partitions) \ {{}},
             send_offsets_to_transaction(group, tps) PROVE NoLeak'
  BY <1>6 DEF send_offsets_to_transaction, is_in_transaction
<1>7. CASE sender_routine
  <2>1. queued' \cup pending' = queued \cup pending
    BY <1>7 DEF sender_routine, drain_by_nodes
  <2>2. QED
    BY <1>7, <2>1 DEF sender_routine
<1>8. CASE sender_dies
  BY <1>8 DEF sender_dies
<1>9. CASE fail_all
  BY <1>9 DEF fail_all, fatal_error, forget_transaction, transition_to, is_transition_valid
<1>10. ASSUME NEW n \in Nodes, NEW ok \in SUBSET produce[n].batches,
              NEW bad \in SUBSET produce[n].batches, NEW lostAcks \in SUBSET produce[n].batches,
              produce_answered(n, ok, bad, lostAcks) PROVE NoLeak'
  BY <1>10 DEF produce_answered
<1>11. ASSUME NEW n \in Nodes, produce_reenqueue(n) PROVE NoLeak'
  <2>1. produce[n].retry \subseteq pending
    BY <1>11 DEF produce_reenqueue, BatchInv
  <2>2. QED
    BY <1>11, <2>1 DEF produce_reenqueue
<1>12. ASSUME NEW n \in Nodes, produce_close(n) PROVE NoLeak'
  BY <1>12 DEF produce_close
<1>13. CASE create_request
  BY <1>13 DEF create_request
<1>14. CASE backoff_over
  BY <1>14 DEF backoff_over
<1>15. ASSUME NEW added \in SUBSET task.req, NEW told \in SUBSET task.req, NEW outcome \in Outcomes,
              add_partitions_answered(added, told, outcome) PROVE NoLeak'
  BY <1>15 DEF add_partitions_answered, handled, partition_added, error_transaction,
     forget_transaction, transition_to, is_transition_valid
<1>16. ASSUME NEW added \in BOOLEAN, NEW outcome \in Outcomes, add_offsets_answered(added, outcome)
       PROVE NoLeak'
  BY <1>16 DEF add_offsets_answered, handled, consumer_group_added, error_transaction,
     forget_transaction, transition_to, is_transition_valid
<1>17. ASSUME NEW stored \in SUBSET task.req, NEW told \in SUBSET task.req, NEW outcome \in Outcomes,
              offset_commit_answered(stored, told, outcome) PROVE NoLeak'
  BY <1>17 DEF offset_commit_answered, handled, offset_committed, error_transaction,
     forget_transaction, transition_to, is_transition_valid
<1>18. CASE flush_for_commit
  BY <1>18 DEF flush_for_commit
<1>19. CASE do_txn_commit
  <2>1. task.stage = "flush" /\ sender # "failed"
    BY <1>19 DEF do_txn_commit, TaskInv
  <2>2. queued = {} /\ pending = {}
    BY <1>19, <2>1 DEF do_txn_commit, TaskInv, BatchInv
  <2>3. QED
    BY <1>19, <2>2 DEF do_txn_commit
<1>20. ASSUME NEW processed \in BOOLEAN, NEW outcome \in Outcomes,
              end_txn_answered(processed, outcome) PROVE NoLeak'
  <2>1. queued = {} /\ pending = {}
    BY <1>20 DEF end_txn_answered, handled, TaskInv
  <2>2. QED
    BY <1>20, <2>1 DEF end_txn_answered
<1> HIDE DEF NoLeak
<1>21. QED
  BY <1>1, <1>2, <1>3, <1>4, <1>5, <1>6, <1>7, <1>8, <1>9, <1>10, <1>11, <1>12, <1>13, <1>14,
     <1>15, <1>16, <1>17, <1>18, <1>19, <1>20, Zenon
  DEF Next, Application, SenderStep, ProduceStep, TaskStep

LEMMA IInvInit == Init => IInv
<1> SUFFICES ASSUME Init PROVE IInv
  OBVIOUS
<1>1. TypeOK
  BY TypeInit
<1>2. TaskInv /\ TxnInv
  BY DEF Init, TaskInv, TxnInv, NoTask
<1>3. BatchInv /\ NoLeak
  BY DEF Init, BatchInv, NoLeak, Idle
<1>4. QED
  BY <1>1, <1>2, <1>3 DEF IInv

LEMMA IInvUnchanged == IInv /\ UNCHANGED vars => IInv'
<1> SUFFICES ASSUME IInv, UNCHANGED vars PROVE IInv'
  OBVIOUS
<1> USE DEF IInv, vars, tmVars, accVars, coVars, histVars
<1>1. TypeOK'
  BY Zenon DEF TypeOK
<1>2. TaskInv' /\ TxnInv'
  BY Zenon DEF TaskInv, TxnInv
<1>3. BatchInv'
  BY Zenon DEF BatchInv
<1>4. NoLeak'
  BY Zenon DEF NoLeak, InFlight
<1>5. QED
  BY <1>1, <1>2, <1>3, <1>4

\* TaskInv, BatchInv, TxnInv and NoLeak hold in every reachable state.
THEOREM Invariance == Spec => []IInv
<1>1. IInv /\ [Next]_vars => IInv'
  BY TypeStep, TaskInvStep, BatchInvStep, TxnInvStep, NoLeakStep, IInvUnchanged DEF IInv
<1>2. QED
  BY <1>1, IInvInit, PTL DEF Spec

\* Type correctness of the transactional producer, for all constants.
THEOREM TypeCorrect == Spec => []TypeOK
<1>1. IInv => TypeOK
  BY DEF IInv
<1>2. QED
  BY <1>1, Invariance, PTL

\* No batch outlives its transaction: flush_for_commit waits for every batch that
\* add_message put in the accumulator before the state left IN_TRANSACTION.
THEOREM NoBatchOutlivesItsTransaction == Spec => []NoLeak
<1>1. IInv => NoLeak
  BY DEF IInv
<1>2. QED
  BY <1>1, Invariance, PTL

\* While an EndTxn request is in flight nothing of the transaction is still to be sent
\* or added, and complete_transaction cannot fail its assertions.
THEOREM EndTxnCoversTransaction == Spec => []EndTxnScope
<1>1. IInv => EndTxnScope
  BY DEF IInv, TaskInv, EndTxnScope, is_transition_valid
<1>2. QED
  BY <1>1, Invariance, PTL
=============================================================================

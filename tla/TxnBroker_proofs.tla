-------------------------- MODULE TxnBroker_proofs --------------------------
(***************************************************************************)
(* What the brokers hold at the end of a transaction, when no authorization*)
(* error is answered: proofs for every set of partitions, brokers and groups*)
(* and for every value of the bounds.                                      *)
(***************************************************************************)
EXTENDS TxnProducer_proofs

\* Every SMT leaf may take up to a minute.
USE SMTT(60)

-----------------------------------------------------------------------------
(* What the brokers hold, when no authorization error is answered          *)

Undecided == written \ (visible \cup dropped)

\* The producer's and the coordinator's view of the partitions of the transaction.
AddedInv ==
    /\ \A b \in pending : b.tp \in coPartitions
    /\ sender # "failed" => \A b \in queued : b.tp \in pendingPartitions \cup coPartitions
    /\ state = "IN_TRANSACTION" => txnPartitions \subseteq coPartitions
    /\ state \in {"UNINITIALIZED", "READY"} => txnPartitions = {} /\ pendingPartitions = {}
    /\ sender # "failed" => coPartitions \subseteq txnPartitions \cup pendingPartitions
    /\ state # "ABORTABLE_ERROR"
    /\ state = "FATAL_ERROR" => sender = "failed"

\* The partitions of an AddPartitionsToTxn request stay pending until it is answered.
RequestInv ==
    /\ task.kind = "addPartitions" /\ task.stage \in {"start", "sent"} => pendingPartitions # {}
    /\ task.kind = "addPartitions" /\ task.stage = "sent" => task.req \subseteq pendingPartitions

\* What is undecided belongs to the open transaction, and the request that ends it
\* carries what the application asked for.
DecisionInv ==
    /\ \A b \in Undecided : b.txn = txn /\ b.tp \in coPartitions
    /\ \A n \in Nodes : \A b \in produce[n].batches : produce[n].stage = "sent" => b.txn = txn
    /\ \A b \in visible : b.txn <= txn
    /\ state \in {"UNINITIALIZED", "READY"} => Undecided = {} /\ coPartitions = {}
    /\ state = "IN_TRANSACTION" => \A b \in visible : b.txn # txn
    /\ state = "COMMITTING_TRANSACTION" => decision[txn] = "commit"
    /\ task.kind = "end" /\ task.stage # "raised" =>
         task.result = (IF state = "COMMITTING_TRANSACTION" THEN "commit" ELSE "abort")

-----------------------------------------------------------------------------
(* The invariant is inductive                                              *)

\* The inductive invariant behind ProducedOnlyIfAdded and OnlyCommittedVisible.
PInv == IInv /\ RequestInv /\ AddedInv /\ DecisionInv /\ ProducedOnlyIfAdded /\ OnlyCommittedVisible

\* While EndTxn is in flight, or once the flush is over, no produce request is.
LEMMA QuietAtEnd ==
    ASSUME TypeOK, TaskInv, BatchInv, task.stage \in {"flush", "sent"}, task.kind = "end",
           task.stage = "flush" => task.scope \subseteq acked \cup failed
    PROVE  /\ sender = "running" /\ queued = {} /\ pending = {}
           /\ state \in {"COMMITTING_TRANSACTION", "ABORTING_TRANSACTION"}
           /\ pendingPartitions = {} /\ pendingOffsets = <<>>
           /\ \A n \in Nodes : produce[n].stage = "sent" => produce[n].batches = {}
<1>1. /\ sender = "running" /\ pendingPartitions = {} /\ pendingOffsets = <<>>
      /\ state \in {"COMMITTING_TRANSACTION", "ABORTING_TRANSACTION"}
  BY DEF TypeOK, TaskInv, NoTask
<1>2. queued = {} /\ pending = {}
  BY <1>1 DEF TaskInv, BatchInv
<1>3. QED
  BY <1>1, <1>2 DEF BatchInv

\* EndTxn decides every undecided batch, when all of them are in added partitions.
LEMMA EndTxnDecides ==
    ASSUME NEW result \in {"commit", "abort"}, EndTxn(result),
           \A b \in Undecided : b.tp \in coPartitions
    PROVE  /\ Undecided' = {} /\ coPartitions' = {}
           /\ visible' = IF result = "commit" THEN visible \cup Undecided ELSE visible
<1>1. {b \in written : b.tp \in coPartitions} \ (visible \cup dropped) = Undecided
  BY DEF Undecided
<1>2. QED
  BY <1>1, Zenon DEF EndTxn, Undecided

LEMMA RequestInvStep == Unauthorized = {} /\ PInv /\ Next => RequestInv'
<1> SUFFICES ASSUME Unauthorized = {}, TypeOK, TaskInv, BatchInv, TxnInv, NoLeak,
                RequestInv, AddedInv, DecisionInv, ProducedOnlyIfAdded, OnlyCommittedVisible, Next PROVE RequestInv'
  BY DEF PInv, IInv
<1> USE DEF tmVars, accVars, coVars, histVars, taskVars, RequestInv
<1>1. CASE InitPID
  BY <1>1 DEF InitPID, transition_to, is_transition_valid
<1>2. CASE begin_transaction
  BY <1>2 DEF begin_transaction, transition_to, is_transition_valid
<1>3. CASE commit_transaction
  BY <1>3 DEF commit_transaction, transition_to, is_transition_valid
<1>4. CASE abort_transaction
  BY <1>4 DEF abort_transaction, transition_to, is_transition_valid
<1>5. ASSUME NEW tp \in Partitions, send(tp) PROVE RequestInv'
  BY <1>5 DEF send, maybe_add_partition_to_txn, is_in_transaction
<1>6. ASSUME NEW group \in Groups, NEW tps \in (SUBSET Partitions) \ {{}},
             send_offsets_to_transaction(group, tps) PROVE RequestInv'
  BY <1>6 DEF send_offsets_to_transaction, is_in_transaction
<1>7. CASE sender_routine
  <2>1. task' = task \/ task' = maybe_do_transactional_request
    BY <1>7 DEF sender_routine
  <2>2. UNCHANGED pendingPartitions
    BY <1>7 DEF sender_routine
  <2>3. QED
    BY <2>1, <2>2, NextTaskShape DEF NoTask
<1>8. CASE sender_dies
  BY <1>8 DEF sender_dies
<1>9. CASE fail_all
  BY <1>9 DEF fail_all, TaskInv
<1>10. ASSUME NEW n \in Nodes, NEW ok \in SUBSET produce[n].batches,
              NEW bad \in SUBSET produce[n].batches, NEW lostAcks \in SUBSET produce[n].batches,
              produce_answered(n, ok, bad, lostAcks) PROVE RequestInv'
  BY <1>10 DEF produce_answered
<1>11. ASSUME NEW n \in Nodes, produce_reenqueue(n) PROVE RequestInv'
  BY <1>11 DEF produce_reenqueue
<1>12. ASSUME NEW n \in Nodes, produce_close(n) PROVE RequestInv'
  BY <1>12 DEF produce_close
<1>13. CASE create_request
  <2>1. PICK req : task' = [task EXCEPT !.stage = "sent", !.req = req] /\
                   (task.kind = "addPartitions" => req = pendingPartitions)
    BY <1>13, Zenon DEF create_request
  <2>2. task'.kind = task.kind /\ task'.req = req
    BY <2>1 DEF Task, TypeOK
  <2>3. QED
    BY <1>13, <2>1, <2>2 DEF create_request
<1>14. CASE backoff_over
  BY <1>14 DEF backoff_over, NoTask
<1>15. ASSUME NEW added \in SUBSET task.req, NEW told \in SUBSET task.req, NEW outcome \in Outcomes,
              add_partitions_answered(added, told, outcome) PROVE RequestInv'
  <2>1. task'.stage \notin {"start", "sent"}
    BY <1>15, TaskFields DEF add_partitions_answered, handled, NoTask, TypeOK
  <2>2. QED
    BY <2>1
<1>16. ASSUME NEW added \in BOOLEAN, NEW outcome \in Outcomes, add_offsets_answered(added, outcome)
       PROVE RequestInv'
  <2>1. task'.stage \notin {"start", "sent"}
    BY <1>16, TaskFields DEF add_offsets_answered, handled, NoTask, TypeOK
  <2>2. QED
    BY <2>1
<1>17. ASSUME NEW stored \in SUBSET task.req, NEW told \in SUBSET task.req, NEW outcome \in Outcomes,
              offset_commit_answered(stored, told, outcome) PROVE RequestInv'
  <2>1. task'.stage \notin {"start", "sent"}
    BY <1>17, TaskFields DEF offset_commit_answered, handled, NoTask, TypeOK
  <2>2. QED
    BY <2>1
<1>18. CASE flush_for_commit
  <2>1. task'.stage # "sent" /\ task'.kind = "end"
    BY <1>18, TaskFields DEF flush_for_commit, TypeOK
  <2>2. QED
    BY <2>1
<1>19. CASE do_txn_commit
  <2>1. task.kind = "end"
    BY <1>19 DEF do_txn_commit, TaskInv
  <2>2. task' = NoTask \/ task' = [task EXCEPT !.stage = "sent"]
    BY <1>19 DEF do_txn_commit
  <2>3. task'.kind # "addPartitions"
    <3>1. NoTask.kind = "none"
      BY DEF NoTask
    <3>2. [task EXCEPT !.stage = "sent"].kind = task.kind
      BY TaskFields DEF TypeOK
    <3>3. QED
      BY <2>1, <2>2, <3>1, <3>2, Zenon
  <2>4. QED
    BY <2>3
<1>20. ASSUME NEW processed \in BOOLEAN, NEW outcome \in Outcomes,
              end_txn_answered(processed, outcome) PROVE RequestInv'
  <2>1. task'.stage \notin {"start", "sent"}
    BY <1>20, TaskFields DEF end_txn_answered, handled, NoTask, TypeOK
  <2>2. QED
    BY <2>1
<1> HIDE DEF RequestInv
<1>21. QED
  BY <1>1, <1>2, <1>3, <1>4, <1>5, <1>6, <1>7, <1>8, <1>9, <1>10, <1>11, <1>12, <1>13, <1>14,
     <1>15, <1>16, <1>17, <1>18, <1>19, <1>20, Zenon
  DEF Next, Application, SenderStep, ProduceStep, TaskStep

LEMMA AddedInvStep == Unauthorized = {} /\ PInv /\ Next => AddedInv'
<1> SUFFICES ASSUME Unauthorized = {}, TypeOK, TaskInv, BatchInv, TxnInv, NoLeak,
                RequestInv, AddedInv, DecisionInv, ProducedOnlyIfAdded, OnlyCommittedVisible, Next PROVE AddedInv'
  BY DEF PInv, IInv
<1> USE DEF tmVars, accVars, coVars, histVars, taskVars, AddedInv
<1>1. CASE InitPID
  BY <1>1 DEF InitPID, transition_to, is_transition_valid, TxnInv, TypeOK
<1>2. CASE begin_transaction
  BY <1>2 DEF begin_transaction, transition_to, is_transition_valid
<1>3. CASE commit_transaction
  BY <1>3 DEF commit_transaction, transition_to, is_transition_valid
<1>4. CASE abort_transaction
  BY <1>4 DEF abort_transaction, transition_to, is_transition_valid
<1>5. ASSUME NEW tp \in Partitions, send(tp) PROVE AddedInv'
  BY <1>5 DEF send, maybe_add_partition_to_txn, is_in_transaction
<1>6. ASSUME NEW group \in Groups, NEW tps \in (SUBSET Partitions) \ {{}},
             send_offsets_to_transaction(group, tps) PROVE AddedInv'
  BY <1>6 DEF send_offsets_to_transaction, is_in_transaction
<1>7. CASE sender_routine
  <2>1. /\ queued' \subseteq queued /\ pending' = pending \cup drain_by_nodes
        /\ UNCHANGED <<tmVars, coPartitions, sender>> /\ sender = "running"
    BY <1>7 DEF sender_routine
  <2>2. \A b \in drain_by_nodes : b \in queued /\ b.tp \notin pendingPartitions
    BY DEF drain_by_nodes, muted_partitions
  <2>3. QED
    BY <2>1, <2>2
<1>8. CASE sender_dies
  BY <1>8 DEF sender_dies
<1>9. CASE fail_all
  BY <1>9 DEF fail_all, fatal_error, forget_transaction, transition_to, is_transition_valid
<1>10. ASSUME NEW n \in Nodes, NEW ok \in SUBSET produce[n].batches,
              NEW bad \in SUBSET produce[n].batches, NEW lostAcks \in SUBSET produce[n].batches,
              produce_answered(n, ok, bad, lostAcks) PROVE AddedInv'
  BY <1>10 DEF produce_answered
<1>11. ASSUME NEW n \in Nodes, produce_reenqueue(n) PROVE AddedInv'
  <2>1. produce[n].retry \subseteq pending
    BY <1>11 DEF produce_reenqueue, BatchInv
  <2>2. QED
    BY <1>11, <2>1 DEF produce_reenqueue
<1>12. ASSUME NEW n \in Nodes, produce_close(n) PROVE AddedInv'
  BY <1>12 DEF produce_close
<1>13. CASE create_request
  BY <1>13 DEF create_request
<1>14. CASE backoff_over
  BY <1>14 DEF backoff_over
<1>15. ASSUME NEW added \in SUBSET task.req, NEW told \in SUBSET task.req, NEW outcome \in Outcomes,
              add_partitions_answered(added, told, outcome) PROVE AddedInv'
  <2>1. outcome # "abortable"
    BY <1>15 DEF add_partitions_answered
  <2>2. /\ sender # "failed" /\ state \notin {"UNINITIALIZED", "READY"}
        /\ task.req \subseteq pendingPartitions
    BY <1>15 DEF add_partitions_answered, handled, TaskInv, RequestInv
  <2>3. QED
    BY <1>15, <2>1, <2>2 DEF add_partitions_answered, partition_added
<1>16. ASSUME NEW added \in BOOLEAN, NEW outcome \in Outcomes, add_offsets_answered(added, outcome)
       PROVE AddedInv'
  BY <1>16 DEF add_offsets_answered, handled, consumer_group_added, error_transaction,
     forget_transaction, transition_to, is_transition_valid
<1>17. ASSUME NEW stored \in SUBSET task.req, NEW told \in SUBSET task.req, NEW outcome \in Outcomes,
              offset_commit_answered(stored, told, outcome) PROVE AddedInv'
  BY <1>17 DEF offset_commit_answered, handled, offset_committed, error_transaction,
     forget_transaction, transition_to, is_transition_valid
<1>18. CASE flush_for_commit
  BY <1>18 DEF flush_for_commit
<1>19. CASE do_txn_commit
  <2>1. task.kind = "end"
    BY <1>19 DEF do_txn_commit, TaskInv
  <2>2. /\ sender = "running" /\ queued = {} /\ pending = {} /\ pendingPartitions = {}
        /\ state \in {"COMMITTING_TRANSACTION", "ABORTING_TRANSACTION"}
    BY <1>19, <2>1, QuietAtEnd DEF do_txn_commit
  <2>3. QED
    BY <1>19, <2>2 DEF do_txn_commit, complete_transaction, is_empty_transaction, transition_to
<1>20. ASSUME NEW processed \in BOOLEAN, NEW outcome \in Outcomes,
              end_txn_answered(processed, outcome) PROVE AddedInv'
  <2>1. /\ sender = "running" /\ queued = {} /\ pending = {} /\ pendingPartitions = {}
        /\ state \in {"COMMITTING_TRANSACTION", "ABORTING_TRANSACTION"}
    BY <1>20, QuietAtEnd DEF end_txn_answered, handled
  <2>2. coPartitions' = coPartitions \/ coPartitions' = {}
    BY <1>20 DEF end_txn_answered, EndTxn
  <2>3. outcome = "done" => coPartitions' = {}
    BY <1>20 DEF end_txn_answered, EndTxn
  <2>4. QED
    BY <1>20, <2>1, <2>2, <2>3 DEF end_txn_answered, complete_transaction, transition_to
<1> HIDE DEF AddedInv
<1>21. QED
  BY <1>1, <1>2, <1>3, <1>4, <1>5, <1>6, <1>7, <1>8, <1>9, <1>10, <1>11, <1>12, <1>13, <1>14,
     <1>15, <1>16, <1>17, <1>18, <1>19, <1>20, Zenon
  DEF Next, Application, SenderStep, ProduceStep, TaskStep

LEMMA ProducedStep == Unauthorized = {} /\ PInv /\ Next => ProducedOnlyIfAdded'
<1> SUFFICES ASSUME Unauthorized = {}, TypeOK, TaskInv, BatchInv, TxnInv, NoLeak,
                RequestInv, AddedInv, DecisionInv, ProducedOnlyIfAdded, OnlyCommittedVisible, Next PROVE ProducedOnlyIfAdded'
  BY DEF PInv, IInv
<1> USE DEF tmVars, accVars, coVars, histVars, taskVars, ProducedOnlyIfAdded
<1>1. CASE InitPID
  BY <1>1, Zenon DEF InitPID, transition_to, is_transition_valid
<1>2. CASE begin_transaction
  BY <1>2 DEF begin_transaction, transition_to, is_transition_valid
<1>3. CASE commit_transaction
  BY <1>3 DEF commit_transaction, transition_to, is_transition_valid
<1>4. CASE abort_transaction
  BY <1>4 DEF abort_transaction, transition_to, is_transition_valid
<1>5. ASSUME NEW tp \in Partitions, send(tp) PROVE ProducedOnlyIfAdded'
  BY <1>5 DEF send, maybe_add_partition_to_txn, is_in_transaction
<1>6. ASSUME NEW group \in Groups, NEW tps \in (SUBSET Partitions) \ {{}},
             send_offsets_to_transaction(group, tps) PROVE ProducedOnlyIfAdded'
  BY <1>6 DEF send_offsets_to_transaction, is_in_transaction
<1>7. CASE sender_routine
  <2>1. \A b \in drain_by_nodes : b \in queued /\ b.tp \notin pendingPartitions
    BY DEF drain_by_nodes, muted_partitions
  <2>2. \A b \in drain_by_nodes : b.tp \in coPartitions
    BY <1>7, <2>1 DEF sender_routine, AddedInv
  <2>3. ASSUME NEW n \in Nodes
        PROVE  \/ produce'[n] = produce[n]
               \/ produce'[n].batches \subseteq drain_by_nodes
    BY <1>7 DEF sender_routine
  <2>4. QED
    BY <1>7, <2>2, <2>3 DEF sender_routine
<1>8. CASE sender_dies
  BY <1>8 DEF sender_dies
<1>9. CASE fail_all
  BY <1>9 DEF fail_all, fatal_error, forget_transaction, transition_to, is_transition_valid
<1>10. ASSUME NEW n \in Nodes, NEW ok \in SUBSET produce[n].batches,
              NEW bad \in SUBSET produce[n].batches, NEW lostAcks \in SUBSET produce[n].batches,
              produce_answered(n, ok, bad, lostAcks) PROVE ProducedOnlyIfAdded'
  <2>1. \A m \in Nodes \ {n} : produce'[m] = produce[m]
    BY <1>10 DEF produce_answered, TypeOK
  <2>2. produce'[n].stage # "sent"
    BY <1>10 DEF produce_answered, TypeOK, ProduceTask
  <2>3. QED
    BY <1>10, <2>1, <2>2, Zenon DEF produce_answered
<1>11. ASSUME NEW n \in Nodes, produce_reenqueue(n) PROVE ProducedOnlyIfAdded'
  BY <1>11 DEF produce_reenqueue
<1>12. ASSUME NEW n \in Nodes, produce_close(n) PROVE ProducedOnlyIfAdded'
  <2>1. \A m \in Nodes \ {n} : produce'[m] = produce[m]
    BY <1>12 DEF produce_close, TypeOK
  <2>2. produce'[n].stage # "sent"
    BY <1>12 DEF produce_close, TypeOK, ProduceTask, Idle
  <2>3. QED
    BY <1>12, <2>1, <2>2 DEF produce_close
<1>13. CASE create_request
  BY <1>13 DEF create_request
<1>14. CASE backoff_over
  BY <1>14 DEF backoff_over
<1>15. ASSUME NEW added \in SUBSET task.req, NEW told \in SUBSET task.req, NEW outcome \in Outcomes,
              add_partitions_answered(added, told, outcome) PROVE ProducedOnlyIfAdded'
  BY <1>15 DEF add_partitions_answered, handled, partition_added, error_transaction,
     forget_transaction, transition_to, is_transition_valid
<1>16. ASSUME NEW added \in BOOLEAN, NEW outcome \in Outcomes, add_offsets_answered(added, outcome)
       PROVE ProducedOnlyIfAdded'
  BY <1>16 DEF add_offsets_answered, handled, consumer_group_added, error_transaction,
     forget_transaction, transition_to, is_transition_valid
<1>17. ASSUME NEW stored \in SUBSET task.req, NEW told \in SUBSET task.req, NEW outcome \in Outcomes,
              offset_commit_answered(stored, told, outcome) PROVE ProducedOnlyIfAdded'
  BY <1>17 DEF offset_commit_answered, handled, offset_committed, error_transaction,
     forget_transaction, transition_to, is_transition_valid
<1>18. CASE flush_for_commit
  BY <1>18 DEF flush_for_commit
<1>19. CASE do_txn_commit
  BY <1>19 DEF do_txn_commit, complete_transaction, transition_to, is_transition_valid
<1>20. ASSUME NEW processed \in BOOLEAN, NEW outcome \in Outcomes,
              end_txn_answered(processed, outcome) PROVE ProducedOnlyIfAdded'
  <2>1. \A n \in Nodes : produce[n].stage = "sent" => produce[n].batches = {}
    BY <1>20, QuietAtEnd DEF end_txn_answered, handled
  <2>2. QED
    BY <1>20, <2>1 DEF end_txn_answered
<1> HIDE DEF ProducedOnlyIfAdded
<1>21. QED
  BY <1>1, <1>2, <1>3, <1>4, <1>5, <1>6, <1>7, <1>8, <1>9, <1>10, <1>11, <1>12, <1>13, <1>14,
     <1>15, <1>16, <1>17, <1>18, <1>19, <1>20, Zenon
  DEF Next, Application, SenderStep, ProduceStep, TaskStep

LEMMA DecisionInvStep == Unauthorized = {} /\ PInv /\ Next => DecisionInv'
<1> SUFFICES ASSUME Unauthorized = {}, TypeOK, TaskInv, BatchInv, TxnInv, NoLeak,
                RequestInv, AddedInv, DecisionInv, ProducedOnlyIfAdded, OnlyCommittedVisible, Next PROVE DecisionInv'
  BY DEF PInv, IInv
<1> USE DEF tmVars, accVars, coVars, histVars, taskVars, DecisionInv, Undecided
<1>1. CASE InitPID
  BY <1>1 DEF InitPID, transition_to, is_transition_valid
<1>2. CASE begin_transaction
  <2>1. state = "READY" /\ pending = {} /\ sender # "failed"
    BY <1>2 DEF begin_transaction, transition_to, is_transition_valid, NoLeak, TxnInv
  <2>2. \A n \in Nodes : produce[n].stage = "sent" => produce[n].batches = {}
    BY <2>1 DEF BatchInv
  <2>3. \A b \in visible : b.txn \in Nat /\ txn \in Nat
    BY TxnProducerAssumption DEF TypeOK, Batch
  <2>4. task.kind = "end" => task.stage = "raised"
    BY <2>1 DEF TaskInv
  <2>5. QED
    BY <1>2, <2>1, <2>2, <2>3, <2>4 DEF begin_transaction, transition_to
<1>3. CASE commit_transaction
  <2>1. state = "IN_TRANSACTION" /\ txn \in 1..MaxTxn
    <3>1. state = "IN_TRANSACTION"
      BY <1>3 DEF commit_transaction, transition_to, is_transition_valid
    <3>2. QED
      BY <3>1, TxnProducerAssumption DEF TxnInv, TypeOK
  <2>2. task.kind = "end" => task.stage = "raised"
    BY <2>1 DEF TaskInv
  <2>3. decision'[txn] = "commit" /\ state' = "COMMITTING_TRANSACTION"
    BY <1>3, <2>1 DEF commit_transaction, transition_to, TypeOK
  <2>4. QED
    BY <1>3, <2>1, <2>2, <2>3 DEF commit_transaction
<1>4. CASE abort_transaction
  BY <1>4 DEF abort_transaction, transition_to, is_transition_valid
<1>5. ASSUME NEW tp \in Partitions, send(tp) PROVE DecisionInv'
  BY <1>5 DEF send, maybe_add_partition_to_txn, is_in_transaction
<1>6. ASSUME NEW group \in Groups, NEW tps \in (SUBSET Partitions) \ {{}},
             send_offsets_to_transaction(group, tps) PROVE DecisionInv'
  BY <1>6 DEF send_offsets_to_transaction, is_in_transaction
<1>7. CASE sender_routine
  <2>1. /\ \A b \in drain_by_nodes : b.txn = txn
        /\ UNCHANGED <<tmVars, coVars, txn, decision>>
    BY <1>7 DEF sender_routine, drain_by_nodes, NoLeak
  <2>2. ASSUME NEW n \in Nodes
        PROVE  produce'[n] = produce[n] \/ produce'[n].batches \subseteq drain_by_nodes
    BY <1>7 DEF sender_routine
  <2>3. task' = task \/ task' = maybe_do_transactional_request
    BY <1>7 DEF sender_routine
  <2>4. task'.kind = "end" /\ task'.stage # "raised" =>
          task'.result = (IF state = "COMMITTING_TRANSACTION" THEN "commit" ELSE "abort")
    BY <2>3, NextTaskShape DEF NoTask
  <2>5. QED
    BY <2>1, <2>2, <2>4
<1>8. CASE sender_dies
  BY <1>8 DEF sender_dies
<1>9. CASE fail_all
  <2>1. task.stage = "raised" /\ state' = "FATAL_ERROR"
    BY <1>9 DEF fail_all, fatal_error, forget_transaction, transition_to, TaskInv
  <2>2. QED
    BY <1>9, <2>1 DEF fail_all
<1>10. ASSUME NEW n \in Nodes, NEW ok \in SUBSET produce[n].batches,
              NEW bad \in SUBSET produce[n].batches, NEW lostAcks \in SUBSET produce[n].batches,
              produce_answered(n, ok, bad, lostAcks) PROVE DecisionInv'
  <2>1. \A m \in Nodes \ {n} : produce'[m] = produce[m]
    BY <1>10 DEF produce_answered, TypeOK
  <2>2. produce'[n].stage # "sent"
    BY <1>10 DEF produce_answered, TypeOK, ProduceTask
  <2>3. \A b \in ok \cup lostAcks : b.txn = txn /\ b.tp \in coPartitions
    BY <1>10 DEF produce_answered, ProducedOnlyIfAdded
  <2>4. ok \cup lostAcks # {} => state \notin {"UNINITIALIZED", "READY"}
    BY <1>10 DEF produce_answered, BatchInv, NoLeak, TxnInv
  <2>5. /\ written' = written \cup ok \cup lostAcks
        /\ UNCHANGED <<tmVars, task, coPartitions, visible, dropped, txn, decision>>
    BY <1>10 DEF produce_answered
  <2>6. \A b \in Undecided' : b.txn = txn /\ b.tp \in coPartitions
    BY <2>3, <2>5
  <2>7. state \in {"UNINITIALIZED", "READY"} => Undecided' = {}
    BY <2>4, <2>5
  <2>8. QED
    BY <2>1, <2>2, <2>5, <2>6, <2>7
<1>11. ASSUME NEW n \in Nodes, produce_reenqueue(n) PROVE DecisionInv'
  BY <1>11 DEF produce_reenqueue
<1>12. ASSUME NEW n \in Nodes, produce_close(n) PROVE DecisionInv'
  <2>1. \A m \in Nodes \ {n} : produce'[m] = produce[m]
    BY <1>12 DEF produce_close, TypeOK
  <2>2. produce'[n].stage # "sent"
    BY <1>12 DEF produce_close, TypeOK, ProduceTask, Idle
  <2>3. UNCHANGED <<tmVars, task, written, coPartitions, visible, dropped, txn, decision>>
    BY <1>12 DEF produce_close
  <2>4. QED
    BY <2>1, <2>2, <2>3
<1>13. CASE create_request
  BY <1>13 DEF create_request
<1>14. CASE backoff_over
  BY <1>14 DEF backoff_over, NoTask
<1>15. ASSUME NEW added \in SUBSET task.req, NEW told \in SUBSET task.req, NEW outcome \in Outcomes,
              add_partitions_answered(added, told, outcome) PROVE DecisionInv'
  <2>1. outcome # "abortable" /\ task.kind # "end"
    BY <1>15, Zenon DEF add_partitions_answered
  <2>2. task'.kind # "end"
    <3>1. \A s \in STRING : [task EXCEPT !.stage = s].kind = task.kind
      BY TaskFields DEF TypeOK
    <3>2. NoTask.kind = "none"
      BY Zenon DEF NoTask
    <3>3. QED
      BY <1>15, <2>1, <3>1, <3>2 DEF add_partitions_answered, handled
  <2>3. state \notin {"UNINITIALIZED", "READY"}
    BY <1>15 DEF add_partitions_answered, handled, AddedInv, RequestInv
  <2>4. QED
    BY <1>15, <2>1, <2>2, <2>3, Zenon DEF add_partitions_answered, partition_added
<1>16. ASSUME NEW added \in BOOLEAN, NEW outcome \in Outcomes, add_offsets_answered(added, outcome)
       PROVE DecisionInv'
  <2>1. outcome # "abortable" /\ task.kind # "end"
    BY <1>16, Zenon DEF add_offsets_answered
  <2>2. task'.kind # "end"
    <3>1. \A s \in STRING : [task EXCEPT !.stage = s].kind = task.kind
      BY TaskFields DEF TypeOK
    <3>2. NoTask.kind = "none"
      BY Zenon DEF NoTask
    <3>3. QED
      BY <1>16, <2>1, <3>1, <3>2 DEF add_offsets_answered, handled
  <2>3. QED
    BY <1>16, <2>1, <2>2 DEF add_offsets_answered, consumer_group_added
<1>17. ASSUME NEW stored \in SUBSET task.req, NEW told \in SUBSET task.req, NEW outcome \in Outcomes,
              offset_commit_answered(stored, told, outcome) PROVE DecisionInv'
  <2>1. outcome # "abortable" /\ task.kind # "end"
    BY <1>17, Zenon DEF offset_commit_answered
  <2>2. task'.kind # "end"
    <3>1. \A s \in STRING : [task EXCEPT !.stage = s].kind = task.kind
      BY TaskFields DEF TypeOK
    <3>2. NoTask.kind = "none"
      BY Zenon DEF NoTask
    <3>3. QED
      BY <1>17, <2>1, <3>1, <3>2 DEF offset_commit_answered, handled
  <2>3. QED
    BY <1>17, <2>1, <2>2 DEF offset_commit_answered, offset_committed
<1>18. CASE flush_for_commit
  BY <1>18 DEF flush_for_commit
<1>19. CASE do_txn_commit
  <2>1. task.kind = "end" /\ task.stage = "flush"
    BY <1>19 DEF do_txn_commit, TaskInv
  <2>2. pendingPartitions = {} /\ sender = "running"
    BY <1>19, <2>1, QuietAtEnd DEF do_txn_commit
  <2>3. CASE is_empty_transaction
    <3>1. coPartitions = {}
      BY <2>2, <2>3 DEF is_empty_transaction, AddedInv
    <3>2. QED
      BY <1>19, <2>3, <3>1, SMTT(20) DEF do_txn_commit, complete_transaction, transition_to, NoTask
  <2>4. CASE ~is_empty_transaction
    <3>1. task' = [task EXCEPT !.stage = "sent"] /\ UNCHANGED tmVars
      BY <1>19, <2>4 DEF do_txn_commit
    <3>2. task'.kind = "end" /\ task'.result = task.result
      BY <2>1, <3>1, TaskFields DEF TypeOK
    <3>3. QED
      BY <1>19, <2>1, <3>1, <3>2 DEF do_txn_commit
  <2>5. QED
    BY <2>3, <2>4
<1>20. ASSUME NEW processed \in BOOLEAN, NEW outcome \in Outcomes,
              end_txn_answered(processed, outcome) PROVE DecisionInv'
  <2>1. /\ state \in {"COMMITTING_TRANSACTION", "ABORTING_TRANSACTION"}
        /\ task.result = (IF state = "COMMITTING_TRANSACTION" THEN "commit" ELSE "abort")
    BY <1>20, QuietAtEnd DEF end_txn_answered, handled
  <2>2. processed => /\ Undecided' = {} /\ coPartitions' = {}
                     /\ visible' \subseteq visible \cup Undecided
    <3>1. processed => EndTxn(task.result)
      BY <1>20, Zenon DEF end_txn_answered
    <3>2. QED
      BY <2>1, <3>1, EndTxnDecides
  <2>3. ~processed => UNCHANGED <<written, visible, dropped, coPartitions>>
    BY <1>20 DEF end_txn_answered
  <2>4. \A b \in visible' : b.txn <= txn
    BY <2>2, <2>3, TxnProducerAssumption DEF TypeOK
  <2>5. outcome = "done" => processed /\ task' = NoTask /\ state' = "READY"
    BY <1>20 DEF end_txn_answered, handled, complete_transaction, transition_to
  <2>6. outcome # "done" => UNCHANGED tmVars /\ task'.result = task.result
    <3>1. \A s \in STRING : [task EXCEPT !.stage = s].result = task.result
      BY TaskFields DEF TypeOK
    <3>2. QED
      BY <1>20, <3>1 DEF end_txn_answered, handled, Outcomes
  <2>7. UNCHANGED <<txn, decision, produce>>
    BY <1>20 DEF end_txn_answered
  <2>8. CASE outcome = "done"
    <3>1. Undecided' = {} /\ coPartitions' = {} /\ state' = "READY" /\ task'.kind = "none"
      BY <2>2, <2>5, <2>8 DEF NoTask
    <3>2. QED
      BY <2>4, <2>7, <3>1
  <2>9. CASE outcome # "done"
    <3>1. UNCHANGED state /\ task'.result = task.result
      BY <2>6, <2>9
    <3>2. \A b \in Undecided' : b.txn = txn /\ b.tp \in coPartitions'
      BY <2>2, <2>3
    <3>3. QED
      BY <2>1, <2>4, <2>7, <3>1, <3>2
  <2>10. QED
    BY <2>8, <2>9
<1> HIDE DEF DecisionInv, Undecided
<1>21. QED
  BY <1>1, <1>2, <1>3, <1>4, <1>5, <1>6, <1>7, <1>8, <1>9, <1>10, <1>11, <1>12, <1>13, <1>14,
     <1>15, <1>16, <1>17, <1>18, <1>19, <1>20, Zenon
  DEF Next, Application, SenderStep, ProduceStep, TaskStep

LEMMA VisibleStep == Unauthorized = {} /\ PInv /\ Next => OnlyCommittedVisible'
<1> SUFFICES ASSUME Unauthorized = {}, TypeOK, TaskInv, BatchInv, TxnInv, NoLeak,
                RequestInv, AddedInv, DecisionInv, ProducedOnlyIfAdded, OnlyCommittedVisible, Next PROVE OnlyCommittedVisible'
  BY DEF PInv, IInv
<1> USE DEF tmVars, accVars, coVars, histVars, taskVars, OnlyCommittedVisible
<1>1. CASE InitPID
  BY <1>1, Zenon DEF InitPID, transition_to, is_transition_valid
<1>2. CASE begin_transaction
  BY <1>2 DEF begin_transaction, transition_to, is_transition_valid
<1>3. CASE commit_transaction
  BY <1>3 DEF commit_transaction, transition_to, is_transition_valid
<1>4. CASE abort_transaction
  <2>1. state = "IN_TRANSACTION"
    BY <1>4 DEF abort_transaction, transition_to, is_transition_valid, AddedInv
  <2>2. \A b \in visible : b.txn # txn
    BY <2>1 DEF DecisionInv
  <2>3. QED
    BY <1>4, <2>2 DEF abort_transaction, TypeOK
<1>5. ASSUME NEW tp \in Partitions, send(tp) PROVE OnlyCommittedVisible'
  BY <1>5 DEF send, maybe_add_partition_to_txn, is_in_transaction
<1>6. ASSUME NEW group \in Groups, NEW tps \in (SUBSET Partitions) \ {{}},
             send_offsets_to_transaction(group, tps) PROVE OnlyCommittedVisible'
  BY <1>6 DEF send_offsets_to_transaction, is_in_transaction
<1>7. CASE sender_routine
  BY <1>7 DEF sender_routine
<1>8. CASE sender_dies
  BY <1>8 DEF sender_dies
<1>9. CASE fail_all
  BY <1>9 DEF fail_all, fatal_error, forget_transaction, transition_to, is_transition_valid
<1>10. ASSUME NEW n \in Nodes, NEW ok \in SUBSET produce[n].batches,
              NEW bad \in SUBSET produce[n].batches, NEW lostAcks \in SUBSET produce[n].batches,
              produce_answered(n, ok, bad, lostAcks) PROVE OnlyCommittedVisible'
  BY <1>10 DEF produce_answered
<1>11. ASSUME NEW n \in Nodes, produce_reenqueue(n) PROVE OnlyCommittedVisible'
  BY <1>11 DEF produce_reenqueue
<1>12. ASSUME NEW n \in Nodes, produce_close(n) PROVE OnlyCommittedVisible'
  BY <1>12 DEF produce_close
<1>13. CASE create_request
  BY <1>13 DEF create_request
<1>14. CASE backoff_over
  BY <1>14 DEF backoff_over
<1>15. ASSUME NEW added \in SUBSET task.req, NEW told \in SUBSET task.req, NEW outcome \in Outcomes,
              add_partitions_answered(added, told, outcome) PROVE OnlyCommittedVisible'
  BY <1>15 DEF add_partitions_answered, handled, partition_added, error_transaction,
     forget_transaction, transition_to, is_transition_valid
<1>16. ASSUME NEW added \in BOOLEAN, NEW outcome \in Outcomes, add_offsets_answered(added, outcome)
       PROVE OnlyCommittedVisible'
  BY <1>16 DEF add_offsets_answered, handled, consumer_group_added, error_transaction,
     forget_transaction, transition_to, is_transition_valid
<1>17. ASSUME NEW stored \in SUBSET task.req, NEW told \in SUBSET task.req, NEW outcome \in Outcomes,
              offset_commit_answered(stored, told, outcome) PROVE OnlyCommittedVisible'
  BY <1>17 DEF offset_commit_answered, handled, offset_committed, error_transaction,
     forget_transaction, transition_to, is_transition_valid
<1>18. CASE flush_for_commit
  BY <1>18 DEF flush_for_commit
<1>19. CASE do_txn_commit
  BY <1>19 DEF do_txn_commit, complete_transaction, transition_to, is_transition_valid
<1>20. ASSUME NEW processed \in BOOLEAN, NEW outcome \in Outcomes,
              end_txn_answered(processed, outcome) PROVE OnlyCommittedVisible'
  <2>1. task.result = "commit" => decision[txn] = "commit"
    BY <1>20, QuietAtEnd DEF end_txn_answered, handled, DecisionInv
  <2>2. task.result \in {"commit", "abort"}
    BY <1>20 DEF end_txn_answered, handled, DecisionInv
  <2>3. processed => visible' = IF task.result = "commit" THEN visible \cup Undecided ELSE visible
    BY <1>20, <2>2, EndTxnDecides DEF end_txn_answered, DecisionInv
  <2>4. \A b \in Undecided : b.txn = txn
    BY DEF DecisionInv
  <2>5. QED
    BY <1>20, <2>1, <2>3, <2>4 DEF end_txn_answered
<1> HIDE DEF OnlyCommittedVisible
<1>21. QED
  BY <1>1, <1>2, <1>3, <1>4, <1>5, <1>6, <1>7, <1>8, <1>9, <1>10, <1>11, <1>12, <1>13, <1>14,
     <1>15, <1>16, <1>17, <1>18, <1>19, <1>20, Zenon
  DEF Next, Application, SenderStep, ProduceStep, TaskStep

LEMMA PInvInit == Init => PInv
<1> SUFFICES ASSUME Init PROVE PInv
  OBVIOUS
<1>1. IInv
  BY IInvInit
<1>2. RequestInv /\ AddedInv /\ OnlyCommittedVisible
  BY DEF Init, RequestInv, AddedInv, OnlyCommittedVisible, NoTask
<1>3. DecisionInv /\ ProducedOnlyIfAdded
  BY DEF Init, DecisionInv, ProducedOnlyIfAdded, Undecided, NoTask, Idle
<1>4. QED
  BY <1>1, <1>2, <1>3 DEF PInv

LEMMA PInvUnchanged == PInv /\ UNCHANGED vars => PInv'
<1> SUFFICES ASSUME PInv, UNCHANGED vars PROVE PInv'
  OBVIOUS
<1>1. IInv'
  BY IInvUnchanged DEF PInv
<1>2. QED
  BY <1>1, Zenon DEF PInv, RequestInv, AddedInv, DecisionInv, ProducedOnlyIfAdded, OnlyCommittedVisible,
     Undecided, vars, tmVars, accVars, coVars, histVars

\* PInv holds in every reachable state when no broker refuses a partition or group.
THEOREM BrokerInvariance == ASSUME Unauthorized = {} PROVE Spec => []PInv
<1>1. PInv /\ [Next]_vars => PInv'
  <2>1. PInv /\ Next => PInv'
    <3> SUFFICES ASSUME PInv, Next PROVE PInv'
      OBVIOUS
    <3>1. IInv'
      BY TypeStep, TaskInvStep, BatchInvStep, TxnInvStep, NoLeakStep DEF PInv, IInv
    <3>2. QED
      BY <3>1, RequestInvStep, AddedInvStep, ProducedStep, DecisionInvStep, VisibleStep DEF PInv
  <2>2. QED
    BY <2>1, PInvUnchanged
<1>2. QED
  BY <1>1, PInvInit, PTL DEF Spec

\* _sender_routine mutes a partition until the coordinator has added it: no produce
\* request overtakes AddPartitionsToTxn.
THEOREM ProducedAfterAdded == ASSUME Unauthorized = {} PROVE Spec => []ProducedOnlyIfAdded
<1>1. PInv => ProducedOnlyIfAdded
  BY DEF PInv
<1>2. QED
  BY <1>1, BrokerInvariance, PTL

\* What a read_committed consumer sees was committed: no lost answer, retry or
\* interleaving of the sender with the application makes aborted data visible.
THEOREM AbortedNeverVisible == ASSUME Unauthorized = {} PROVE Spec => []OnlyCommittedVisible
<1>1. PInv => OnlyCommittedVisible
  BY DEF PInv
<1>2. QED
  BY <1>1, BrokerInvariance, PTL
=============================================================================

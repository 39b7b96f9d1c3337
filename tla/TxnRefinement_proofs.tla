------------------------ MODULE TxnRefinement_proofs ------------------------
(***************************************************************************)
(* The producer implements Transactions, when no authorization error is    *)
(* answered and the application names one consumer group.                  *)
(***************************************************************************)
EXTENDS TxnBroker_proofs

\* Every SMT leaf may take up to a minute.
USE SMTT(60)

-----------------------------------------------------------------------------
(* What the refinement rests on                                            *)

\* The application names one consumer group.
OneGroup == \A g, h \in Groups : g = h

Outside == {"UNINITIALIZED", "READY"}

\* What the application asked for, and what was reported to it.
HistoryInv ==
    /\ state \in Outside => completed = 1..txn
    /\ state \notin Outside => completed = 1..(txn - 1)
    /\ \A t \in 1..MaxTxn : t > txn => decision[t] = "open"
    /\ state = "IN_TRANSACTION" => decision[txn] = "open"
    /\ state = "ABORTING_TRANSACTION" => decision[txn] = "abort"
    /\ task # NoTask => state \notin Outside

\* The producer's and the coordinator's view of the group, and the offsets it holds.
OffsetInv ==
    /\ \A o \in heldOffsets : o.txn = txn /\ o.group \in coGroups
    /\ \A o \in groupOffsets : o.txn <= txn
    /\ state = "IN_TRANSACTION" => \A o \in groupOffsets : o.txn # txn
    /\ state \in Outside => coGroups = {} /\ txnGroup = NoGroup /\ pendingOffsets = <<>>
    /\ txnGroup # NoGroup /\ (state = "IN_TRANSACTION" \/ pendingOffsets # <<>>) => coGroups # {}
    /\ sender # "failed" /\ coGroups # {} => txnGroup # NoGroup \/ pendingOffsets # <<>>
    /\ task.kind = "offsetCommit" /\ task.stage \in {"start", "sent"} => txnGroup # NoGroup
    /\ task.kind = "addOffsets" /\ task.stage \in {"start", "sent"} => pendingOffsets # <<>>

\* No marker covers a batch that is not answered.
MarkInv ==
    /\ \A b \in written \cup visible \cup dropped : b.id <= created
    /\ (queued \cup pending) \cap (visible \cup dropped) = {}
    /\ \A n \in Nodes : produce[n].stage = "sent" => produce[n].batches \cap (visible \cup dropped) = {}

RInv == PInv /\ HistoryInv /\ OffsetInv /\ MarkInv

-----------------------------------------------------------------------------
(* The invariant is inductive                                              *)

LEMMA HistoryInvStep == Unauthorized = {} /\ RInv /\ Next => HistoryInv'
<1> SUFFICES ASSUME Unauthorized = {}, TypeOK, TaskInv, TxnInv, BatchInv, RequestInv, AddedInv,
                DecisionInv, HistoryInv, OffsetInv, Next PROVE HistoryInv'
  BY DEF RInv, PInv, IInv
<1> USE DEF tmVars, accVars, coVars, histVars, taskVars, HistoryInv, Outside
<1>0. task.stage # "none" => state \notin Outside
  BY DEF NoTask
<1>1. CASE InitPID
  <2>1. task = NoTask
    BY <1>1 DEF InitPID, TaskInv, TxnInv
  <2>2. QED
    BY <1>1, <2>1 DEF InitPID, transition_to
<1>2. CASE begin_transaction
  <2>1. state = "READY" /\ state' = "IN_TRANSACTION" /\ txn' = txn + 1 /\ txn < MaxTxn /\ task' = task
        /\ UNCHANGED <<completed, decision>>
    BY <1>2 DEF begin_transaction, transition_to, is_transition_valid
  <2>2. txn \in Nat /\ txn + 1 \in 1..MaxTxn
    BY <2>1, TxnProducerAssumption DEF TypeOK
  <2>3. QED
    BY <2>1, <2>2, TxnProducerAssumption
<1>3. CASE commit_transaction
  <2>1. state = "IN_TRANSACTION" /\ state' = "COMMITTING_TRANSACTION" /\ UNCHANGED <<txn, completed, task>>
        /\ decision' = [decision EXCEPT ![txn] = "commit"]
    BY <1>3 DEF commit_transaction, transition_to, is_transition_valid
  <2>2. QED
    BY <2>1 DEF TypeOK
<1>4. CASE abort_transaction
  <2>1. state = "IN_TRANSACTION" /\ state' = "ABORTING_TRANSACTION" /\ UNCHANGED <<txn, completed, task>>
        /\ decision' = [decision EXCEPT ![txn] = "abort"]
    BY <1>4 DEF abort_transaction, transition_to, is_transition_valid, AddedInv
  <2>2. txn \in 1..MaxTxn
    BY <2>1, TxnProducerAssumption DEF TxnInv, TypeOK
  <2>3. QED
    BY <2>1, <2>2 DEF TypeOK
<1>5. ASSUME NEW tp \in Partitions, send(tp) PROVE HistoryInv'
  BY <1>5 DEF send, maybe_add_partition_to_txn, is_in_transaction
<1>6. ASSUME NEW group \in Groups, NEW tps \in (SUBSET Partitions) \ {{}},
             send_offsets_to_transaction(group, tps) PROVE HistoryInv'
  BY <1>6 DEF send_offsets_to_transaction, is_in_transaction
<1>7. CASE sender_routine
  <2>1. task' = task \/ task' = maybe_do_transactional_request
    BY <1>7 DEF sender_routine
  <2>2. UNCHANGED <<state, txn, completed, decision>>
    BY <1>7 DEF sender_routine
  <2>3. state \in Outside => pendingPartitions = {} /\ pendingOffsets = <<>>
    BY DEF AddedInv, OffsetInv
  <2>4. task' # NoTask => state \notin Outside
    BY <2>1, <2>3, NextTaskShape
  <2>5. QED
    BY <2>2, <2>4
<1>8. CASE sender_dies
  BY <1>8 DEF sender_dies
<1>9. CASE fail_all
  <2>1. state \notin Outside
    BY <1>9, <1>0 DEF fail_all, TaskInv
  <2>2. QED
    BY <1>9, <2>1 DEF fail_all, fatal_error, forget_transaction, transition_to
<1>10. ASSUME NEW n \in Nodes, NEW ok \in SUBSET produce[n].batches,
              NEW bad \in SUBSET produce[n].batches, NEW lostAcks \in SUBSET produce[n].batches,
              produce_answered(n, ok, bad, lostAcks) PROVE HistoryInv'
  BY <1>10 DEF produce_answered
<1>11. ASSUME NEW n \in Nodes, produce_reenqueue(n) PROVE HistoryInv'
  BY <1>11 DEF produce_reenqueue
<1>12. ASSUME NEW n \in Nodes, produce_close(n) PROVE HistoryInv'
  BY <1>12 DEF produce_close
<1>13. CASE create_request
  BY <1>0, <1>13 DEF create_request
<1>14. CASE backoff_over
  BY <1>0, <1>14 DEF backoff_over
<1>15. ASSUME NEW added \in SUBSET task.req, NEW told \in SUBSET task.req, NEW outcome \in Outcomes,
              add_partitions_answered(added, told, outcome) PROVE HistoryInv'
  <2>1. outcome # "abortable" /\ state \notin Outside
    BY <1>0, <1>15 DEF add_partitions_answered, handled
  <2>2. QED
    BY <1>15, <2>1, Zenon DEF add_partitions_answered, partition_added
<1>16. ASSUME NEW added \in BOOLEAN, NEW outcome \in Outcomes, add_offsets_answered(added, outcome)
       PROVE HistoryInv'
  <2>1. outcome # "abortable" /\ state \notin Outside
    BY <1>0, <1>16 DEF add_offsets_answered, handled
  <2>2. UNCHANGED <<state, txn, completed, decision>>
    BY <1>16, <2>1 DEF add_offsets_answered, consumer_group_added
  <2>3. QED
    BY <2>1, <2>2
<1>17. ASSUME NEW stored \in SUBSET task.req, NEW told \in SUBSET task.req, NEW outcome \in Outcomes,
              offset_commit_answered(stored, told, outcome) PROVE HistoryInv'
  <2>1. outcome # "abortable" /\ state \notin Outside
    BY <1>0, <1>17 DEF offset_commit_answered, handled
  <2>2. UNCHANGED <<state, txn, completed, decision>>
    BY <1>17, <2>1 DEF offset_commit_answered, offset_committed
  <2>3. QED
    BY <2>1, <2>2
<1>18. CASE flush_for_commit
  BY <1>0, <1>18 DEF flush_for_commit
<1>19. CASE do_txn_commit
  <2>1. state \notin Outside /\ txn \in 1..MaxTxn
    BY <1>0, <1>19, TxnProducerAssumption DEF do_txn_commit, TxnInv, TypeOK
  <2>2. CASE is_empty_transaction
    <3>1. /\ state' = "READY" /\ completed' = completed \cup {txn} /\ task' = NoTask
          /\ UNCHANGED <<txn, decision>>
      BY <1>19, <2>2 DEF do_txn_commit, complete_transaction, transition_to
    <3>2. QED
      BY <2>1, <3>1
  <2>3. CASE ~is_empty_transaction
    BY <1>19, <2>1, <2>3 DEF do_txn_commit
  <2>4. QED
    BY <2>2, <2>3
<1>20. ASSUME NEW processed \in BOOLEAN, NEW outcome \in Outcomes,
              end_txn_answered(processed, outcome) PROVE HistoryInv'
  <2>1. state \notin Outside /\ txn \in 1..MaxTxn
    BY <1>0, <1>20, TxnProducerAssumption DEF end_txn_answered, handled, TxnInv, TypeOK
  <2>2. CASE outcome = "done"
    <3>1. /\ state' = "READY" /\ completed' = completed \cup {txn} /\ task' = NoTask
          /\ UNCHANGED <<txn, decision>>
      BY <1>20, <2>2 DEF end_txn_answered, handled, complete_transaction, transition_to
    <3>2. QED
      BY <2>1, <3>1
  <2>3. CASE outcome # "done"
    BY <1>20, <2>1, <2>3 DEF end_txn_answered
  <2>4. QED
    BY <2>2, <2>3
<1> HIDE DEF HistoryInv
<1>21. QED
  BY <1>1, <1>2, <1>3, <1>4, <1>5, <1>6, <1>7, <1>8, <1>9, <1>10, <1>11, <1>12, <1>13, <1>14,
     <1>15, <1>16, <1>17, <1>18, <1>19, <1>20, Zenon
  DEF Next, Application, SenderStep, ProduceStep, TaskStep

\* TxnOffsetCommit is sent only after the group was added.
LEMMA NextOffsetTask ==
    ASSUME NEW t, t = maybe_do_transactional_request, t.kind = "offsetCommit"
    PROVE  txnGroup # NoGroup
<1>1. ASSUME NEW kind, NEW group, NEW result
      PROVE  /\ NewTask(kind).kind = kind
             /\ [NewTask(kind) EXCEPT !.group = group].kind = kind
             /\ [NewTask(kind) EXCEPT !.result = result].kind = kind
  BY DEF NewTask, NoTask
<1>2. NoTask.kind = "none"
  BY DEF NoTask
<1>3. QED
  BY <1>1, <1>2 DEF maybe_do_transactional_request, has_offsets_to_commit

LEMMA OffsetInvStep == Unauthorized = {} /\ OneGroup /\ RInv /\ Next => OffsetInv'
<1> SUFFICES ASSUME Unauthorized = {}, OneGroup, TypeOK, TaskInv, BatchInv, TxnInv, RequestInv, AddedInv,
                DecisionInv, HistoryInv, OffsetInv, Next PROVE OffsetInv'
  BY DEF RInv, PInv, IInv
<1> USE DEF tmVars, accVars, coVars, histVars, taskVars, OffsetInv, Outside
<1>0. task.stage # "none" => state \notin Outside
  BY DEF NoTask, HistoryInv
<1>a. txn \in Nat /\ \A o \in groupOffsets : o.txn \in Nat
  BY TxnProducerAssumption DEF TypeOK, GroupOffset
<1>1. CASE InitPID
  BY <1>1 DEF InitPID, transition_to, TxnInv
<1>2. CASE begin_transaction
  <2>1. /\ state = "READY" /\ state' = "IN_TRANSACTION" /\ txn' = txn + 1
        /\ UNCHANGED <<txnGroup, pendingOffsets, coGroups, heldOffsets, groupOffsets, sender, task>>
    BY <1>2 DEF begin_transaction, transition_to, is_transition_valid
  <2>2. heldOffsets = {}
    BY <2>1
  <2>3. \A o \in groupOffsets : o.txn <= txn + 1 /\ o.txn # txn + 1
    BY <1>a
  <2>4. QED
    BY <2>1, <2>2, <2>3
<1>3. CASE commit_transaction
  BY <1>3 DEF commit_transaction, transition_to, is_transition_valid
<1>4. CASE abort_transaction
  BY <1>4 DEF abort_transaction, transition_to, is_transition_valid, AddedInv
<1>5. ASSUME NEW tp \in Partitions, send(tp) PROVE OffsetInv'
  BY <1>5 DEF send
<1>6. ASSUME NEW group \in Groups, NEW tps \in (SUBSET Partitions) \ {{}},
             send_offsets_to_transaction(group, tps) PROVE OffsetInv'
  <2>1. /\ state = "IN_TRANSACTION" /\ pendingOffsets' = Append(pendingOffsets, [group |-> group, tps |-> tps])
        /\ UNCHANGED <<state, txn, txnGroup, coGroups, heldOffsets, groupOffsets, sender, task>>
    BY <1>6 DEF send_offsets_to_transaction, is_in_transaction
  <2>2. pendingOffsets' # <<>>
    BY <2>1 DEF TypeOK
  <2>3. QED
    BY <2>1, <2>2
<1>7. CASE sender_routine
  <2>1. task' = task \/ task' = maybe_do_transactional_request
    BY <1>7 DEF sender_routine
  <2>2. UNCHANGED <<state, txn, txnGroup, pendingOffsets, coGroups, heldOffsets, groupOffsets, sender>>
    BY <1>7 DEF sender_routine
  <2>3. /\ task'.kind = "offsetCommit" /\ task'.stage \in {"start", "sent"} => txnGroup # NoGroup
        /\ task'.kind = "addOffsets" /\ task'.stage \in {"start", "sent"} => pendingOffsets # <<>>
    BY <2>1, NextTaskShape, NextOffsetTask DEF NoTask
  <2>4. QED
    BY <2>2, <2>3
<1>8. CASE sender_dies
  BY <1>8 DEF sender_dies
<1>9. CASE fail_all
  <2>1. task.stage = "raised"
    BY <1>9 DEF fail_all, TaskInv
  <2>2. QED
    BY <1>9, <2>1 DEF fail_all, fatal_error, forget_transaction, transition_to
<1>10. ASSUME NEW n \in Nodes, NEW ok \in SUBSET produce[n].batches,
              NEW bad \in SUBSET produce[n].batches, NEW lostAcks \in SUBSET produce[n].batches,
              produce_answered(n, ok, bad, lostAcks) PROVE OffsetInv'
  BY <1>10 DEF produce_answered
<1>11. ASSUME NEW n \in Nodes, produce_reenqueue(n) PROVE OffsetInv'
  BY <1>11 DEF produce_reenqueue
<1>12. ASSUME NEW n \in Nodes, produce_close(n) PROVE OffsetInv'
  BY <1>12 DEF produce_close
<1>13. CASE create_request
  <2>1. PICK req : task' = [task EXCEPT !.stage = "sent", !.req = req]
    BY <1>13, Zenon DEF create_request
  <2>2. task'.kind = task.kind /\ task.stage = "start"
    BY <1>13, <2>1 DEF Task, TypeOK, create_request
  <2>3. UNCHANGED <<state, txn, txnGroup, pendingOffsets, coGroups, heldOffsets, groupOffsets, sender>>
    BY <1>13 DEF create_request
  <2>4. QED
    BY <2>2, <2>3
<1>14. CASE backoff_over
  BY <1>14 DEF backoff_over, NoTask
<1>15. ASSUME NEW added \in SUBSET task.req, NEW told \in SUBSET task.req, NEW outcome \in Outcomes,
              add_partitions_answered(added, told, outcome) PROVE OffsetInv'
  <2>1. outcome # "abortable" /\ task'.stage \notin {"start", "sent"}
    BY <1>15, TaskFields DEF add_partitions_answered, handled, NoTask, TypeOK
  <2>2. UNCHANGED <<state, txn, txnGroup, pendingOffsets, coGroups, heldOffsets, groupOffsets, sender>>
    BY <1>15, <2>1, Zenon DEF add_partitions_answered, partition_added
  <2>3. QED
    BY <2>1, <2>2
<1>16. ASSUME NEW added \in BOOLEAN, NEW outcome \in Outcomes, add_offsets_answered(added, outcome)
       PROVE OffsetInv'
  <2>1. outcome # "abortable" /\ task'.stage \notin {"start", "sent"}
    BY <1>16, TaskFields DEF add_offsets_answered, handled, NoTask, TypeOK
  <2>2. state \notin Outside /\ pendingOffsets # <<>>
    BY <1>0, <1>16 DEF add_offsets_answered, handled
  <2>3. /\ coGroups' = IF added THEN coGroups \cup {task.group} ELSE coGroups
        /\ outcome = "done" => added
        /\ outcome # "done" => txnGroup' = txnGroup
        /\ UNCHANGED <<state, txn, pendingOffsets, heldOffsets, groupOffsets, sender>>
    BY <1>16, <2>1 DEF add_offsets_answered, consumer_group_added
  <2>4. QED
    BY <2>1, <2>2, <2>3
<1>17. ASSUME NEW stored \in SUBSET task.req, NEW told \in SUBSET task.req, NEW outcome \in Outcomes,
              offset_commit_answered(stored, told, outcome) PROVE OffsetInv'
  <2>1. outcome # "abortable" /\ task'.stage \notin {"start", "sent"}
    BY <1>17, TaskFields DEF offset_commit_answered, handled, NoTask, TypeOK
  <2>2. state \notin Outside /\ pendingOffsets # <<>> /\ txnGroup # NoGroup
    BY <1>0, <1>17 DEF offset_commit_answered, handled, TaskInv
  <2>3. coGroups # {} /\ task.group \in coGroups
    BY <1>17, <2>2 DEF OneGroup, TypeOK, TaskInv, offset_commit_answered
  <2>4. /\ heldOffsets' = heldOffsets \cup [group : {task.group}, tp : stored, txn : {txn}]
        /\ UNCHANGED <<state, txn, txnGroup, coGroups, groupOffsets, sender>>
    BY <1>17, <2>1 DEF offset_commit_answered, offset_committed
  <2>5. \A o \in heldOffsets' : o.txn = txn /\ o.group \in coGroups
    BY <2>3, <2>4
  <2>6. QED
    BY <2>1, <2>2, <2>3, <2>4, <2>5
<1>18. CASE flush_for_commit
  <2>1. task'.kind = "end"
    BY <1>18, TaskFields DEF flush_for_commit, TypeOK
  <2>2. QED
    BY <1>18, <2>1 DEF flush_for_commit
<1>19. CASE do_txn_commit
  <2>1. task.kind = "end" /\ task.stage = "flush"
    BY <1>19 DEF do_txn_commit, TaskInv
  <2>2. pendingOffsets = <<>> /\ sender = "running"
    BY <1>19, <2>1, QuietAtEnd DEF do_txn_commit
  <2>3. CASE is_empty_transaction
    <3>1. coGroups = {}
      BY <2>2, <2>3 DEF is_empty_transaction
    <3>2. /\ task' = NoTask /\ txnGroup' = NoGroup /\ state' = "READY"
          /\ UNCHANGED <<txn, pendingOffsets, coGroups, heldOffsets, groupOffsets, sender>>
      BY <1>19, <2>3 DEF do_txn_commit, complete_transaction, transition_to
    <3>3. QED
      BY <2>2, <3>1, <3>2 DEF NoTask
  <2>4. CASE ~is_empty_transaction
    <3>1. task' = [task EXCEPT !.stage = "sent"]
          /\ UNCHANGED <<state, txn, txnGroup, pendingOffsets, coGroups, heldOffsets, groupOffsets, sender>>
      BY <1>19, <2>4 DEF do_txn_commit
    <3>2. task'.kind = "end"
      BY <2>1, <3>1, TaskFields DEF TypeOK
    <3>3. QED
      BY <3>1, <3>2
  <2>5. QED
    BY <2>3, <2>4
<1>20. ASSUME NEW processed \in BOOLEAN, NEW outcome \in Outcomes,
              end_txn_answered(processed, outcome) PROVE OffsetInv'
  <2>1. /\ pendingOffsets = <<>> /\ state \in {"COMMITTING_TRANSACTION", "ABORTING_TRANSACTION"}
    BY <1>20, QuietAtEnd DEF end_txn_answered, handled
  <2>2. task'.stage \notin {"start", "sent"}
    BY <1>20, TaskFields DEF end_txn_answered, handled, NoTask, TypeOK
  <2>3. processed => /\ heldOffsets' = {} /\ coGroups' = {}
                     /\ groupOffsets' \subseteq groupOffsets \cup heldOffsets
    <3>1. {o \in heldOffsets : o.group \in coGroups} = heldOffsets
      OBVIOUS
    <3>2. QED
      BY <1>20, <3>1 DEF end_txn_answered, EndTxn
  <2>4. ~processed => UNCHANGED <<coGroups, heldOffsets, groupOffsets>>
    BY <1>20 DEF end_txn_answered
  <2>5. UNCHANGED <<txn, sender>>
    BY <1>20 DEF end_txn_answered
  <2>6. \A o \in groupOffsets' : o.txn <= txn
    BY <1>a, <2>3, <2>4
  <2>7. CASE outcome = "done"
    <3>1. processed /\ state' = "READY" /\ txnGroup' = NoGroup /\ UNCHANGED pendingOffsets
      BY <1>20, <2>7 DEF end_txn_answered, complete_transaction, transition_to
    <3>2. QED
      BY <2>1, <2>2, <2>3, <2>5, <2>6, <3>1
  <2>8. CASE outcome # "done"
    <3>1. UNCHANGED <<state, txnGroup, pendingOffsets>>
      BY <1>20, <2>8 DEF end_txn_answered
    <3>2. QED
      BY <2>1, <2>2, <2>3, <2>4, <2>5, <2>6, <3>1
  <2>9. QED
    BY <2>7, <2>8
<1> HIDE DEF OffsetInv
<1>21. QED
  BY <1>1, <1>2, <1>3, <1>4, <1>5, <1>6, <1>7, <1>8, <1>9, <1>10, <1>11, <1>12, <1>13, <1>14,
     <1>15, <1>16, <1>17, <1>18, <1>19, <1>20, Zenon
  DEF Next, Application, SenderStep, ProduceStep, TaskStep

LEMMA MarkInvStep == Unauthorized = {} /\ RInv /\ Next => MarkInv'
<1> SUFFICES ASSUME Unauthorized = {}, TypeOK, TaskInv, BatchInv, TxnInv, NoLeak, DecisionInv,
                MarkInv, Next PROVE MarkInv'
  BY DEF RInv, PInv, IInv
<1> USE DEF tmVars, accVars, coVars, histVars, taskVars, MarkInv
<1>1. CASE InitPID
  BY <1>1 DEF InitPID
<1>2. CASE begin_transaction
  BY <1>2 DEF begin_transaction
<1>3. CASE commit_transaction
  BY <1>3 DEF commit_transaction
<1>4. CASE abort_transaction
  BY <1>4 DEF abort_transaction
<1>5. ASSUME NEW tp \in Partitions, send(tp) PROVE MarkInv'
  <2> DEFINE new == [id |-> created + 1, tp |-> tp, txn |-> txn]
  <2>1. queued' = queued \cup {new} /\ created' = created + 1
        /\ UNCHANGED <<pending, produce, written, visible, dropped>>
    BY <1>5 DEF send
  <2>2. created \in Nat /\ \A b \in written \cup visible \cup dropped : b.id \in Nat
    BY TxnProducerAssumption DEF TypeOK, Batch
  <2>3. new \notin visible \cup dropped
    <3>1. new.id = created + 1
      OBVIOUS
    <3>2. QED
      BY <2>2, <3>1
  <2>4. \A b \in written \cup visible \cup dropped : b.id <= created + 1
    BY <2>2
  <2> HIDE DEF new
  <2>5. QED
    BY <2>1, <2>3, <2>4
<1>6. ASSUME NEW group \in Groups, NEW tps \in (SUBSET Partitions) \ {{}},
             send_offsets_to_transaction(group, tps) PROVE MarkInv'
  BY <1>6 DEF send_offsets_to_transaction
<1>7. CASE sender_routine
  <2>1. /\ queued' \cup pending' = queued \cup pending /\ drain_by_nodes \subseteq queued
        /\ UNCHANGED <<written, visible, dropped, created>>
    BY <1>7 DEF sender_routine, drain_by_nodes
  <2>2. ASSUME NEW n \in Nodes
        PROVE  produce'[n] = produce[n] \/ produce'[n].batches \subseteq drain_by_nodes
    BY <1>7 DEF sender_routine
  <2>3. QED
    BY <2>1, <2>2
<1>8. CASE sender_dies
  BY <1>8 DEF sender_dies
<1>9. CASE fail_all
  BY <1>9 DEF fail_all
<1>10. ASSUME NEW n \in Nodes, NEW ok \in SUBSET produce[n].batches,
              NEW bad \in SUBSET produce[n].batches, NEW lostAcks \in SUBSET produce[n].batches,
              produce_answered(n, ok, bad, lostAcks) PROVE MarkInv'
  <2>1. \A m \in Nodes \ {n} : produce'[m] = produce[m]
    BY <1>10 DEF produce_answered, TypeOK
  <2>2. produce'[n].stage # "sent"
    BY <1>10 DEF produce_answered, TypeOK, ProduceTask
  <2>3. /\ written' = written \cup ok \cup lostAcks /\ pending' \subseteq pending
        /\ UNCHANGED <<queued, visible, dropped, created>>
    BY <1>10 DEF produce_answered
  <2>4. \A b \in ok \cup lostAcks : b.id <= created
    BY DEF BatchInv
  <2>5. QED
    BY <2>1, <2>2, <2>3, <2>4
<1>11. ASSUME NEW n \in Nodes, produce_reenqueue(n) PROVE MarkInv'
  <2>1. produce[n].retry \subseteq pending
    BY <1>11 DEF produce_reenqueue, BatchInv
  <2>2. \A m \in Nodes \ {n} : produce'[m] = produce[m]
    BY <1>11 DEF produce_reenqueue, TypeOK
  <2>3. produce'[n].stage # "sent"
    BY <1>11 DEF produce_reenqueue, TypeOK, ProduceTask
  <2>4. /\ queued' = queued \cup produce[n].retry /\ pending' \subseteq pending
        /\ UNCHANGED <<written, visible, dropped, created>>
    BY <1>11 DEF produce_reenqueue
  <2>5. QED
    BY <2>1, <2>2, <2>3, <2>4
<1>12. ASSUME NEW n \in Nodes, produce_close(n) PROVE MarkInv'
  <2>1. \A m \in Nodes \ {n} : produce'[m] = produce[m]
    BY <1>12 DEF produce_close, TypeOK
  <2>2. produce'[n].stage # "sent"
    BY <1>12 DEF produce_close, TypeOK, ProduceTask, Idle
  <2>3. UNCHANGED <<queued, pending, written, visible, dropped, created>>
    BY <1>12 DEF produce_close
  <2>4. QED
    BY <2>1, <2>2, <2>3
<1>13. CASE create_request
  BY <1>13 DEF create_request
<1>14. CASE backoff_over
  BY <1>14 DEF backoff_over
<1>15. ASSUME NEW added \in SUBSET task.req, NEW told \in SUBSET task.req, NEW outcome \in Outcomes,
              add_partitions_answered(added, told, outcome) PROVE MarkInv'
  BY <1>15 DEF add_partitions_answered
<1>16. ASSUME NEW added \in BOOLEAN, NEW outcome \in Outcomes, add_offsets_answered(added, outcome)
       PROVE MarkInv'
  BY <1>16 DEF add_offsets_answered
<1>17. ASSUME NEW stored \in SUBSET task.req, NEW told \in SUBSET task.req, NEW outcome \in Outcomes,
              offset_commit_answered(stored, told, outcome) PROVE MarkInv'
  BY <1>17 DEF offset_commit_answered
<1>18. CASE flush_for_commit
  BY <1>18 DEF flush_for_commit
<1>19. CASE do_txn_commit
  BY <1>19 DEF do_txn_commit
<1>20. ASSUME NEW processed \in BOOLEAN, NEW outcome \in Outcomes,
              end_txn_answered(processed, outcome) PROVE MarkInv'
  <2>1. /\ queued = {} /\ pending = {}
        /\ \A n \in Nodes : produce[n].stage = "sent" => produce[n].batches = {}
    BY <1>20, QuietAtEnd DEF end_txn_answered, handled
  <2>2. /\ written' = written /\ visible' \subseteq visible \cup written
        /\ dropped' \subseteq dropped \cup written
    BY <1>20 DEF end_txn_answered, EndTxn
  <2>3. UNCHANGED <<queued, pending, produce, created>>
    BY <1>20 DEF end_txn_answered
  <2>4. QED
    BY <2>1, <2>2, <2>3
<1> HIDE DEF MarkInv
<1>21. QED
  BY <1>1, <1>2, <1>3, <1>4, <1>5, <1>6, <1>7, <1>8, <1>9, <1>10, <1>11, <1>12, <1>13, <1>14,
     <1>15, <1>16, <1>17, <1>18, <1>19, <1>20, Zenon
  DEF Next, Application, SenderStep, ProduceStep, TaskStep

-----------------------------------------------------------------------------
(* The refinement                                                          *)

\* A step of the producer or of the brokers, as the application sees it.
Promised == Promise!Next \/ UNCHANGED Promise!vars

LEMMA PromisedStep == Unauthorized = {} /\ OneGroup /\ RInv /\ Next => Promised
<1> SUFFICES ASSUME Unauthorized = {}, OneGroup, TypeOK, TaskInv, BatchInv, TxnInv, NoLeak, AddedInv,
                DecisionInv, HistoryInv, OffsetInv, MarkInv, Next PROVE Promised
  BY DEF RInv, PInv, IInv
<1> USE DEF tmVars, accVars, coVars, histVars, taskVars, Outside
<1>0. task.stage # "none" => state \notin Outside
  BY DEF NoTask, HistoryInv
<1>a. ASSUME state \notin Outside PROVE Promise!Running
  BY <1>a, TxnProducerAssumption DEF TypeOK, TxnInv, HistoryInv, Promise!Running
<1>s. ASSUME UNCHANGED <<txn, decision, completed, acked, written, visible, dropped,
                         heldOffsets, groupOffsets>>
      PROVE  Promised
  BY <1>s DEF Promised, Promise!vars
<1>1. CASE InitPID
  BY <1>1, <1>s DEF InitPID
<1>2. CASE begin_transaction
  <2>1. /\ state = "READY" /\ txn' = txn + 1 /\ txn < MaxTxn
        /\ UNCHANGED <<decision, completed, acked, written, visible, dropped, heldOffsets, groupOffsets>>
    BY <1>2 DEF begin_transaction, transition_to, is_transition_valid
  <2>2. completed = 1..txn
    BY <2>1 DEF HistoryInv
  <2>3. QED
    BY <2>1, <2>2 DEF Promised, Promise!Next, Promise!Begin
<1>3. CASE commit_transaction
  <2>1. /\ state = "IN_TRANSACTION" /\ decision' = [decision EXCEPT ![txn] = "commit"]
        /\ UNCHANGED <<txn, completed, acked, written, visible, dropped, heldOffsets, groupOffsets>>
    BY <1>3 DEF commit_transaction, transition_to, is_transition_valid
  <2>2. decision[txn] = "open" /\ Promise!Running
    BY <2>1, <1>a DEF HistoryInv
  <2>3. Promise!Ask("commit")
    BY <2>1, <2>2 DEF Promise!Ask
  <2>4. QED
    BY <2>3 DEF Promised, Promise!Next
<1>4. CASE abort_transaction
  <2>1. /\ state = "IN_TRANSACTION" /\ decision' = [decision EXCEPT ![txn] = "abort"]
        /\ UNCHANGED <<txn, completed, acked, written, visible, dropped, heldOffsets, groupOffsets>>
    BY <1>4 DEF abort_transaction, transition_to, is_transition_valid, AddedInv
  <2>2. Promise!Running /\ \A i \in visible \cup groupOffsets : i.txn # txn
    BY <2>1, <1>a DEF DecisionInv, OffsetInv
  <2>3. Promise!Ask("abort")
    BY <2>1, <2>2 DEF Promise!Ask
  <2>4. QED
    BY <2>3 DEF Promised, Promise!Next
<1>5. ASSUME NEW tp \in Partitions, send(tp) PROVE Promised
  BY <1>5, <1>s DEF send
<1>6. ASSUME NEW group \in Groups, NEW tps \in (SUBSET Partitions) \ {{}},
             send_offsets_to_transaction(group, tps) PROVE Promised
  BY <1>6, <1>s DEF send_offsets_to_transaction
<1>7. CASE sender_routine
  BY <1>7, <1>s DEF sender_routine
<1>8. CASE sender_dies
  BY <1>8, <1>s DEF sender_dies
<1>9. CASE fail_all
  BY <1>9, <1>s DEF fail_all
<1>10. ASSUME NEW n \in Nodes, NEW ok \in SUBSET produce[n].batches,
              NEW bad \in SUBSET produce[n].batches, NEW lostAcks \in SUBSET produce[n].batches,
              produce_answered(n, ok, bad, lostAcks) PROVE Promised
  <2>1. /\ produce[n].stage = "sent" /\ written' = written \cup ok \cup lostAcks
        /\ acked' = acked \cup (ok \ failed)
        /\ UNCHANGED <<txn, decision, completed, visible, dropped, heldOffsets, groupOffsets>>
    BY <1>10 DEF produce_answered
  <2>2. CASE ok \cup lostAcks = {}
    BY <2>1, <2>2, <1>s
  <2>3. CASE ok \cup lostAcks # {}
    <3>1. state \notin Outside
      BY <2>1, <2>3 DEF BatchInv, TxnInv, NoLeak
    <3>2. /\ \A b \in ok \cup lostAcks : b.txn = txn
          /\ ok \cap (visible \cup dropped) = {}
      BY <2>1 DEF DecisionInv, MarkInv
    <3>3. Promise!Store
      BY <1>a, <2>1, <3>1, <3>2 DEF Promise!Store
    <3>4. QED
      BY <3>3 DEF Promised, Promise!Next
  <2>4. QED
    BY <2>2, <2>3
<1>11. ASSUME NEW n \in Nodes, produce_reenqueue(n) PROVE Promised
  BY <1>11, <1>s DEF produce_reenqueue
<1>12. ASSUME NEW n \in Nodes, produce_close(n) PROVE Promised
  BY <1>12, <1>s DEF produce_close
<1>13. CASE create_request
  BY <1>13, <1>s DEF create_request
<1>14. CASE backoff_over
  BY <1>14, <1>s DEF backoff_over
<1>15. ASSUME NEW added \in SUBSET task.req, NEW told \in SUBSET task.req, NEW outcome \in Outcomes,
              add_partitions_answered(added, told, outcome) PROVE Promised
  BY <1>15, <1>s DEF add_partitions_answered
<1>16. ASSUME NEW added \in BOOLEAN, NEW outcome \in Outcomes, add_offsets_answered(added, outcome)
       PROVE Promised
  BY <1>16, <1>s DEF add_offsets_answered
<1>17. ASSUME NEW stored \in SUBSET task.req, NEW told \in SUBSET task.req, NEW outcome \in Outcomes,
              offset_commit_answered(stored, told, outcome) PROVE Promised
  <2>1. state \notin Outside
    BY <1>0, <1>17 DEF offset_commit_answered, handled
  <2>2. /\ heldOffsets' = heldOffsets \cup [group : {task.group}, tp : stored, txn : {txn}]
        /\ UNCHANGED <<txn, decision, completed, acked, written, visible, dropped, groupOffsets>>
    BY <1>17 DEF offset_commit_answered
  <2>3. \A o \in [group : {task.group}, tp : stored, txn : {txn}] : o.txn = txn
    OBVIOUS
  <2>4. Promise!Store
    BY <1>a, <2>1, <2>2, <2>3 DEF Promise!Store
  <2>5. QED
    BY <2>4 DEF Promised, Promise!Next
<1>18. CASE flush_for_commit
  BY <1>18, <1>s DEF flush_for_commit
<1>19. CASE do_txn_commit
  <2>1. UNCHANGED <<txn, decision, acked, written, visible, dropped, heldOffsets, groupOffsets>>
    BY <1>19 DEF do_txn_commit
  <2>2. CASE is_empty_transaction
    <3>1. /\ sender = "running" /\ pendingPartitions = {} /\ pendingOffsets = <<>>
          /\ state \in {"COMMITTING_TRANSACTION", "ABORTING_TRANSACTION"}
      BY <1>19, QuietAtEnd DEF do_txn_commit, TaskInv
    <3>2. coPartitions = {} /\ coGroups = {}
      BY <2>2, <3>1 DEF is_empty_transaction, AddedInv, OffsetInv
    <3>3. written \ (visible \cup dropped) = {} /\ heldOffsets = {}
      BY <3>2 DEF DecisionInv, Undecided, OffsetInv
    <3>4. decision[txn] # "open" /\ Promise!Running
      BY <1>a, <3>1 DEF DecisionInv, HistoryInv
    <3>5. completed' = completed \cup {txn}
      BY <1>19, <2>2 DEF do_txn_commit, complete_transaction
    <3>6. Promise!End
      BY <2>1, <3>3, <3>4, <3>5 DEF Promise!End
    <3>7. QED
      BY <3>6 DEF Promised, Promise!Next
  <2>3. CASE ~is_empty_transaction
    BY <1>19, <2>1, <2>3, <1>s DEF do_txn_commit
  <2>4. QED
    BY <2>2, <2>3
<1>20. ASSUME NEW processed \in BOOLEAN, NEW outcome \in Outcomes,
              end_txn_answered(processed, outcome) PROVE Promised
  <2>1. task.kind = "end" /\ task.stage = "sent" /\ UNCHANGED <<txn, decision, acked>>
    BY <1>20 DEF end_txn_answered, handled
  <2>2. state \in {"COMMITTING_TRANSACTION", "ABORTING_TRANSACTION"}
    BY <2>1, QuietAtEnd
  <2>3. completed' \in {completed, completed \cup {txn}}
    BY <1>20 DEF end_txn_answered, complete_transaction
  <2>4. CASE processed
    <3>1. decision[txn] = task.result /\ task.result \in {"commit", "abort"} /\ Promise!Running
      BY <1>a, <2>1, <2>2 DEF DecisionInv, HistoryInv
    <3> DEFINE open == {b \in written : b.tp \in coPartitions} \ (visible \cup dropped)
               held == {o \in heldOffsets : o.group \in coGroups}
    <3>2. open = written \ (visible \cup dropped) /\ held = heldOffsets
      BY DEF DecisionInv, Undecided, OffsetInv
    <3>3. /\ visible' = IF task.result = "commit" THEN visible \cup open ELSE visible
          /\ dropped' = IF task.result = "abort" THEN dropped \cup open ELSE dropped
          /\ groupOffsets' = IF task.result = "commit" THEN groupOffsets \cup held ELSE groupOffsets
          /\ heldOffsets' = heldOffsets \ held /\ written' = written
      BY <1>20, <2>4 DEF end_txn_answered, EndTxn
    <3> HIDE DEF open, held
    <3>4. /\ written' \ (visible' \cup dropped') = {} /\ heldOffsets' = {}
          /\ visible' \cup groupOffsets' =
               IF task.result = "commit"
               THEN (visible \cup groupOffsets) \cup (written \ (visible \cup dropped)) \cup heldOffsets
               ELSE visible \cup groupOffsets
      BY <3>1, <3>2, <3>3
    <3>5. Promise!End
      BY <2>1, <2>3, <3>1, <3>4 DEF Promise!End
    <3>6. QED
      BY <3>5 DEF Promised, Promise!Next
  <2>5. CASE ~processed
    BY <1>20, <2>1, <2>5, <1>s DEF end_txn_answered
  <2>6. QED
    BY <2>4, <2>5
<1>21. QED
  BY <1>1, <1>2, <1>3, <1>4, <1>5, <1>6, <1>7, <1>8, <1>9, <1>10, <1>11, <1>12, <1>13, <1>14,
     <1>15, <1>16, <1>17, <1>18, <1>19, <1>20, Zenon
  DEF Next, Application, SenderStep, ProduceStep, TaskStep

LEMMA RInvInit == Init => RInv
<1>1. ASSUME Init PROVE PInv
  BY <1>1, PInvInit
<1>2. ASSUME Init PROVE HistoryInv
  BY <1>2, TxnProducerAssumption DEF Init, HistoryInv, Outside
<1>3. ASSUME Init PROVE OffsetInv
  BY <1>3 DEF Init, OffsetInv, Outside, NoTask
<1>4. ASSUME Init PROVE MarkInv
  BY <1>4 DEF Init, MarkInv, Idle
<1>5. QED
  BY <1>1, <1>2, <1>3, <1>4 DEF RInv

LEMMA RInvUnchanged == RInv /\ UNCHANGED vars => RInv' /\ UNCHANGED Promise!vars
<1> SUFFICES ASSUME RInv, UNCHANGED vars PROVE RInv' /\ UNCHANGED Promise!vars
  OBVIOUS
<1> USE DEF vars, tmVars, accVars, coVars, histVars, RInv
<1>1. PInv'
  BY PInvUnchanged
<1>2. HistoryInv' /\ OffsetInv' /\ MarkInv'
  BY DEF HistoryInv, OffsetInv, MarkInv, Outside
<1>3. UNCHANGED Promise!vars
  BY DEF Promise!vars
<1>4. QED
  BY <1>1, <1>2, <1>3

\* RInv holds in every reachable state when no broker refuses a partition or group, and
\* the application names one group.
THEOREM RefinementInvariance ==
    ASSUME Unauthorized = {}, OneGroup
    PROVE  Spec => []RInv
<1>1. RInv /\ PInv' /\ [Next]_vars => RInv'
  <2> SUFFICES ASSUME RInv, PInv', [Next]_vars PROVE RInv'
    OBVIOUS
  <2>1. CASE Next
    BY <2>1, HistoryInvStep, OffsetInvStep, MarkInvStep DEF RInv
  <2>2. QED
    BY <2>1, RInvUnchanged
<1>2. QED
  BY <1>1, RInvInit, BrokerInvariance, PTL DEF Spec

\* Whatever requests are lost, answered late or sent again, and however the sender, its
\* tasks and the application interleave: what is sent in a transaction becomes visible in
\* one step or never, as commit_transaction or abort_transaction asked.
THEOREM Refinement ==
    ASSUME Unauthorized = {}, OneGroup
    PROVE  Spec => ImplementsTransactions
<1>1. Init => Promise!Init
  BY DEF Init, Promise!Init
<1>2. RInv /\ [Next]_vars => [Promise!Next]_(Promise!vars)
  BY PromisedStep, RInvUnchanged DEF Promised
<1>3. QED
  BY <1>1, <1>2, RefinementInvariance, PTL DEF Spec, ImplementsTransactions, Promise!Spec
=============================================================================

-------------------------- MODULE TxnOutcome_proofs -------------------------
(***************************************************************************)
(* What holds of a transaction that ended, and between transactions, when  *)
(* no authorization error is answered and there is one consumer group.     *)
(***************************************************************************)
EXTENDS TxnRefinement_proofs

\* What is reported as stored is; what a marker dropped was to be aborted.
OutcomeInv ==
    /\ acked \subseteq written
    /\ \A b \in dropped : b.txn <= txn /\ decision[b.txn] = "abort"
    /\ state = "IN_TRANSACTION" => \A b \in dropped : b.txn # txn

-----------------------------------------------------------------------------
(* The invariant is inductive                                              *)

LEMMA OutcomeInvStep == Unauthorized = {} /\ RInv /\ OutcomeInv /\ Next => OutcomeInv'
<1> SUFFICES ASSUME Unauthorized = {}, TypeOK, TaskInv, BatchInv, TxnInv, NoLeak, AddedInv,
                DecisionInv, HistoryInv, OutcomeInv, Next PROVE OutcomeInv'
  BY DEF RInv, PInv, IInv
<1> USE DEF tmVars, accVars, coVars, histVars, taskVars
<1>a. txn \in Nat /\ \A b \in dropped : b.txn \in 1..MaxTxn
  BY TxnProducerAssumption DEF TypeOK, Batch
<1>s. ASSUME UNCHANGED <<txn, decision, acked, written, dropped>>, state' # "IN_TRANSACTION" \/ state' = state
      PROVE  OutcomeInv'
  BY <1>s DEF OutcomeInv
<1>1. CASE InitPID
  BY <1>1, <1>s DEF InitPID, transition_to
<1>2. CASE begin_transaction
  <2>1. txn' = txn + 1 /\ UNCHANGED <<decision, acked, written, dropped>>
    BY <1>2 DEF begin_transaction
  <2>2. \A b \in dropped : b.txn <= txn + 1 /\ b.txn # txn + 1
    BY <1>a DEF OutcomeInv
  <2>3. QED
    BY <2>1, <2>2 DEF OutcomeInv
<1>3. CASE commit_transaction
  <2>1. /\ state = "IN_TRANSACTION" /\ state' = "COMMITTING_TRANSACTION"
        /\ decision' = [decision EXCEPT ![txn] = "commit"]
        /\ UNCHANGED <<txn, acked, written, dropped>>
    BY <1>3 DEF commit_transaction, transition_to, is_transition_valid
  <2>2. QED
    BY <1>a, <2>1 DEF OutcomeInv, TypeOK
<1>4. CASE abort_transaction
  <2>1. /\ state' = "ABORTING_TRANSACTION" /\ decision' = [decision EXCEPT ![txn] = "abort"]
        /\ UNCHANGED <<txn, acked, written, dropped>>
    BY <1>4 DEF abort_transaction, transition_to
  <2>2. QED
    BY <1>a, <2>1 DEF OutcomeInv, TypeOK
<1>5. ASSUME NEW tp \in Partitions, send(tp) PROVE OutcomeInv'
  BY <1>5, <1>s DEF send
<1>6. ASSUME NEW group \in Groups, NEW tps \in (SUBSET Partitions) \ {{}},
             send_offsets_to_transaction(group, tps) PROVE OutcomeInv'
  BY <1>6, <1>s DEF send_offsets_to_transaction
<1>7. CASE sender_routine
  BY <1>7, <1>s DEF sender_routine
<1>8. CASE sender_dies
  BY <1>8, <1>s DEF sender_dies
<1>9. CASE fail_all
  <2>1. state' # "IN_TRANSACTION" \/ state' = state
    BY <1>9 DEF fail_all, fatal_error, forget_transaction, transition_to
  <2>2. QED
    BY <1>9, <2>1, <1>s DEF fail_all
<1>10. ASSUME NEW n \in Nodes, NEW ok \in SUBSET produce[n].batches,
              NEW bad \in SUBSET produce[n].batches, NEW lostAcks \in SUBSET produce[n].batches,
              produce_answered(n, ok, bad, lostAcks) PROVE OutcomeInv'
  BY <1>10 DEF produce_answered, OutcomeInv
<1>11. ASSUME NEW n \in Nodes, produce_reenqueue(n) PROVE OutcomeInv'
  BY <1>11, <1>s DEF produce_reenqueue
<1>12. ASSUME NEW n \in Nodes, produce_close(n) PROVE OutcomeInv'
  BY <1>12, <1>s DEF produce_close
<1>13. CASE create_request
  BY <1>13, <1>s DEF create_request
<1>14. CASE backoff_over
  BY <1>14, <1>s DEF backoff_over
<1>15. ASSUME NEW added \in SUBSET task.req, NEW told \in SUBSET task.req, NEW outcome \in Outcomes,
              add_partitions_answered(added, told, outcome) PROVE OutcomeInv'
  <2>1. outcome # "abortable"
    BY <1>15 DEF add_partitions_answered
  <2>2. UNCHANGED <<state, txn, decision, acked, written, dropped>>
    BY <1>15, <2>1, Zenon DEF add_partitions_answered, partition_added
  <2>3. QED
    BY <2>2, <1>s
<1>16. ASSUME NEW added \in BOOLEAN, NEW outcome \in Outcomes, add_offsets_answered(added, outcome)
       PROVE OutcomeInv'
  <2>1. outcome # "abortable"
    BY <1>16 DEF add_offsets_answered
  <2>2. UNCHANGED <<state, txn, decision, acked, written, dropped>>
    BY <1>16, <2>1 DEF add_offsets_answered, consumer_group_added
  <2>3. QED
    BY <2>2, <1>s
<1>17. ASSUME NEW stored \in SUBSET task.req, NEW told \in SUBSET task.req, NEW outcome \in Outcomes,
              offset_commit_answered(stored, told, outcome) PROVE OutcomeInv'
  <2>1. outcome # "abortable"
    BY <1>17 DEF offset_commit_answered
  <2>2. UNCHANGED <<state, txn, decision, acked, written, dropped>>
    BY <1>17, <2>1 DEF offset_commit_answered, offset_committed
  <2>3. QED
    BY <2>2, <1>s
<1>18. CASE flush_for_commit
  BY <1>18, <1>s DEF flush_for_commit
<1>19. CASE do_txn_commit
  BY <1>19, <1>s DEF do_txn_commit, complete_transaction, transition_to
<1>20. ASSUME NEW processed \in BOOLEAN, NEW outcome \in Outcomes,
              end_txn_answered(processed, outcome) PROVE OutcomeInv'
  <2>1. task.kind = "end" /\ task.stage = "sent" /\ UNCHANGED <<txn, decision, acked>>
    BY <1>20 DEF end_txn_answered, handled
  <2>2. state \in {"COMMITTING_TRANSACTION", "ABORTING_TRANSACTION"}
    BY <2>1, QuietAtEnd
  <2>3. state' # "IN_TRANSACTION"
    BY <1>20, <2>2 DEF end_txn_answered, complete_transaction, transition_to
  <2>4. /\ written' = written
        /\ dropped' = dropped \/ (task.result = "abort" /\ dropped' \subseteq dropped \cup Undecided)
    BY <1>20 DEF end_txn_answered, EndTxn, Undecided
  <2>5. task.result = "abort" => decision[txn] = "abort"
    BY <2>1, <2>2 DEF DecisionInv, HistoryInv
  <2>6. \A b \in Undecided : b.txn = txn
    BY DEF DecisionInv
  <2>7. QED
    BY <1>a, <2>1, <2>3, <2>4, <2>5, <2>6 DEF OutcomeInv
<1>21. QED
  BY <1>1, <1>2, <1>3, <1>4, <1>5, <1>6, <1>7, <1>8, <1>9, <1>10, <1>11, <1>12, <1>13, <1>14,
     <1>15, <1>16, <1>17, <1>18, <1>19, <1>20, Zenon
  DEF Next, Application, SenderStep, ProduceStep, TaskStep

\* RInv and OutcomeInv hold in every reachable state.
THEOREM OutcomeInvariance ==
    ASSUME Unauthorized = {}, OneGroup
    PROVE  Spec => [](RInv /\ OutcomeInv)
<1>1. Init => OutcomeInv
  BY DEF Init, OutcomeInv
<1>2. RInv /\ OutcomeInv /\ [Next]_vars => OutcomeInv'
  <2> SUFFICES ASSUME RInv, OutcomeInv, [Next]_vars PROVE OutcomeInv'
    OBVIOUS
  <2>1. CASE Next
    BY <2>1, OutcomeInvStep
  <2>2. CASE UNCHANGED vars
    BY <2>2 DEF vars, tmVars, accVars, coVars, histVars, OutcomeInv
  <2>3. QED
    BY <2>1, <2>2
<1>3. QED
  BY <1>1, <1>2, RefinementInvariance, PTL DEF Spec

-----------------------------------------------------------------------------
(* The properties                                                          *)

\* commit_transaction returns only once everything acknowledged in the transaction is
\* visible, abort_transaction only once everything written in it is dropped.
THEOREM EndsAtomically ==
    ASSUME Unauthorized = {}, OneGroup
    PROVE  Spec => []EndIsAtomic
<1>1. RInv /\ OutcomeInv => EndIsAtomic
  <2> SUFFICES ASSUME TypeOK, OnlyCommittedVisible, DecisionInv, HistoryInv, OutcomeInv,
                      NEW t \in completed, NEW b \in written, b.txn = t
               PROVE  IF decision[t] = "commit" THEN b \in visible ELSE b \in dropped
    BY DEF RInv, PInv, IInv, EndIsAtomic, OutcomeInv
  <2>1. txn \in Nat
    BY TxnProducerAssumption DEF TypeOK
  <2>2. b \notin Undecided
    BY <2>1 DEF DecisionInv, HistoryInv, Outside
  <2>3. QED
    BY <2>2 DEF Undecided, OnlyCommittedVisible, OutcomeInv
<1>2. QED
  BY <1>1, OutcomeInvariance, PTL

\* Between transactions no broker holds a partition, a group, a batch or an offset of
\* one open: every reader of committed data can go on.
THEOREM NothingStaysOpen ==
    ASSUME Unauthorized = {}, OneGroup
    PROVE  Spec => []NothingHangs
<1>1. RInv => NothingHangs
  BY DEF RInv, PInv, DecisionInv, OffsetInv, Undecided, Outside, NothingHangs
<1>2. QED
  BY <1>1, RefinementInvariance, PTL

\* _maybe_do_transactional_request adds the group before it commits offsets for it.
THEOREM GroupAddedFirst ==
    ASSUME Unauthorized = {}, OneGroup
    PROVE  Spec => []GroupAddedBeforeOffsets
<1>1. RInv => GroupAddedBeforeOffsets
  <2> SUFFICES ASSUME TypeOK, TaskInv, OffsetInv, task.kind = "offsetCommit", task.stage = "sent"
               PROVE  task.group \in coGroups
    BY DEF RInv, PInv, IInv, GroupAddedBeforeOffsets
  <2>1. txnGroup # NoGroup /\ pendingOffsets # <<>>
    BY DEF OffsetInv, TaskInv
  <2>2. coGroups # {} /\ coGroups \subseteq Groups /\ task.group \in Groups
    BY <2>1 DEF OffsetInv, TypeOK, TaskInv
  <2>3. QED
    BY <2>2 DEF OneGroup
<1>2. QED
  BY <1>1, RefinementInvariance, PTL

\* The step writes nothing into transaction t and shows no more of it.
Final(t) ==
    /\ {b \in written' : b.txn = t} = {b \in written : b.txn = t}
    /\ {b \in visible' : b.txn = t} = {b \in visible : b.txn = t}

LEMMA FinalStep == Unauthorized = {} /\ OneGroup /\ RInv /\ Next => \A t \in completed : Final(t)
<1> SUFFICES ASSUME Unauthorized = {}, OneGroup, TypeOK, TaskInv, BatchInv, TxnInv, NoLeak, AddedInv,
                DecisionInv, HistoryInv, OffsetInv, Next, NEW t \in completed
             PROVE  Final(t)
  BY DEF RInv, PInv, IInv
<1> USE DEF tmVars, accVars, coVars, histVars, taskVars, Outside
<1>0. task.stage # "none" => state \notin Outside
  BY DEF NoTask, HistoryInv
<1>a. state \notin Outside => t # txn
  BY TxnProducerAssumption DEF HistoryInv, TypeOK
<1>s. ASSUME UNCHANGED <<written, visible>> PROVE Final(t)
  BY <1>s DEF Final
<1>1. CASE InitPID
  BY <1>1, <1>s DEF InitPID
<1>2. CASE begin_transaction
  BY <1>2, <1>s DEF begin_transaction
<1>3. CASE commit_transaction
  BY <1>3, <1>s DEF commit_transaction
<1>4. CASE abort_transaction
  BY <1>4, <1>s DEF abort_transaction
<1>5. ASSUME NEW tp \in Partitions, send(tp) PROVE Final(t)
  BY <1>5, <1>s DEF send
<1>6. ASSUME NEW group \in Groups, NEW tps \in (SUBSET Partitions) \ {{}},
             send_offsets_to_transaction(group, tps) PROVE Final(t)
  BY <1>6, <1>s DEF send_offsets_to_transaction
<1>7. CASE sender_routine
  BY <1>7, <1>s DEF sender_routine
<1>8. CASE sender_dies
  BY <1>8, <1>s DEF sender_dies
<1>9. CASE fail_all
  BY <1>9, <1>s DEF fail_all
<1>10. ASSUME NEW n \in Nodes, NEW ok \in SUBSET produce[n].batches,
              NEW bad \in SUBSET produce[n].batches, NEW lostAcks \in SUBSET produce[n].batches,
              produce_answered(n, ok, bad, lostAcks) PROVE Final(t)
  <2>1. produce[n].stage = "sent" /\ written' = written \cup ok \cup lostAcks /\ visible' = visible
    BY <1>10 DEF produce_answered
  <2>2. \A b \in ok \cup lostAcks : b.txn = txn /\ state \notin Outside
    BY <2>1 DEF DecisionInv, BatchInv, TxnInv, NoLeak
  <2>3. QED
    BY <1>a, <2>1, <2>2 DEF Final
<1>11. ASSUME NEW n \in Nodes, produce_reenqueue(n) PROVE Final(t)
  BY <1>11, <1>s DEF produce_reenqueue
<1>12. ASSUME NEW n \in Nodes, produce_close(n) PROVE Final(t)
  BY <1>12, <1>s DEF produce_close
<1>13. CASE create_request
  BY <1>13, <1>s DEF create_request
<1>14. CASE backoff_over
  BY <1>14, <1>s DEF backoff_over
<1>15. ASSUME NEW added \in SUBSET task.req, NEW told \in SUBSET task.req, NEW outcome \in Outcomes,
              add_partitions_answered(added, told, outcome) PROVE Final(t)
  BY <1>15, <1>s DEF add_partitions_answered
<1>16. ASSUME NEW added \in BOOLEAN, NEW outcome \in Outcomes, add_offsets_answered(added, outcome)
       PROVE Final(t)
  BY <1>16, <1>s DEF add_offsets_answered
<1>17. ASSUME NEW stored \in SUBSET task.req, NEW told \in SUBSET task.req, NEW outcome \in Outcomes,
              offset_commit_answered(stored, told, outcome) PROVE Final(t)
  BY <1>17, <1>s DEF offset_commit_answered
<1>18. CASE flush_for_commit
  BY <1>18, <1>s DEF flush_for_commit
<1>19. CASE do_txn_commit
  BY <1>19, <1>s DEF do_txn_commit
<1>20. ASSUME NEW processed \in BOOLEAN, NEW outcome \in Outcomes,
              end_txn_answered(processed, outcome) PROVE Final(t)
  <2>1. state \notin Outside
    BY <1>0, <1>20 DEF end_txn_answered, handled
  <2>2. written' = written /\ visible \subseteq visible' /\ visible' \subseteq visible \cup Undecided
    BY <1>20 DEF end_txn_answered, EndTxn, Undecided
  <2>3. \A b \in Undecided : b.txn = txn
    BY DEF DecisionInv
  <2>4. QED
    BY <1>a, <2>1, <2>2, <2>3 DEF Final
<1>21. QED
  BY <1>1, <1>2, <1>3, <1>4, <1>5, <1>6, <1>7, <1>8, <1>9, <1>10, <1>11, <1>12, <1>13, <1>14,
     <1>15, <1>16, <1>17, <1>18, <1>19, <1>20, Zenon
  DEF Next, Application, SenderStep, ProduceStep, TaskStep

\* A transaction that was ended stays ended: no later step of the sender, of its tasks or
\* of a broker that answers late writes into it or changes what readers saw of it.
THEOREM EndedStaysEnded ==
    ASSUME Unauthorized = {}, OneGroup
    PROVE  Spec => EndedIsFinal
<1>1. RInv /\ [Next]_vars =>
        [\A t \in completed :
           /\ {b \in written' : b.txn = t} = {b \in written : b.txn = t}
           /\ {b \in visible' : b.txn = t} = {b \in visible : b.txn = t}]_vars
  BY FinalStep DEF Final
<1>2. QED
  BY <1>1, RefinementInvariance, PTL DEF Spec, EndedIsFinal
=============================================================================

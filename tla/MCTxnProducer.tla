---------------------------- MODULE MCTxnProducer ----------------------------
(* Small instances of TxnProducer for TLC.                                 *)
EXTENDS TxnProducer, TLC

CONSTANTS p1, p2, n1, n2, g1, g2

\* Two partitions led by one broker, or by one broker each.
OneLeader == [p \in {p1, p2} |-> n1]
TwoLeaders == p1 :> n1 @@ p2 :> n2
=============================================================================

----------------------------- MODULE MCDelivery ------------------------------
(* Small instances of Delivery for TLC: the modes of each run.             *)
EXTENDS Delivery

CONSTANTS p1, p2, n1, n2, c1, c2, c3

Symmetric == Permutations({c1, c2, c3}) \cup Permutations({n1, n2})

Mode(kinds, number) ==
    [tps |-> {p1}, calls |-> number, kinds |-> kinds, idempotent |-> TRUE, acks |-> 1, batchSize |-> 1,
     faults |-> 1, refused |-> 0, elections |-> 1, expired |-> 0]

\* Batches that take a second message while they wait, and a leader that moves.
Ordered == [Mode({"message", "batch"}, 3) EXCEPT !.batchSize = 2]

\* Without idempotence: two partitions, expired, refused and empty batches.
Plain == [Mode({"message", "invalid"}, 2) EXCEPT !.tps = {p1, p2}, !.idempotent = FALSE,
                                                 !.refused = 1, !.expired = 1]

SafetyModes == {Ordered, Plain}

\* stop() while calls wait, and acks = 0.
Stopping == Mode({"message", "stop"}, 2)

NoAck == [Stopping EXCEPT !.idempotent = FALSE, !.acks = 0, !.elections = 0]

LiveModes == {Stopping, NoAck}

\* A partition without a leader for longer than request_timeout_ms.
Expiring == {[Mode({"message"}, 2) EXCEPT !.faults = 0, !.expired = 1]}

\* A send_batch() that waits for room while stop() closes the accumulator.
StoppingBatch == {[Mode({"batch", "stop"}, 2) EXCEPT !.faults = 0, !.elections = 0]}
=============================================================================

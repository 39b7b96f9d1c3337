--------------------------- MODULE PartitionRecords ---------------------------
(***************************************************************************)
(* consumer/fetcher.py, class PartitionRecords: which records of a fetched *)
(* range are given to the application, and how far the position moves.     *)
(*                                                                         *)
(* A log is a sequence of batches [base, next, offsets, pid, txn, kind]:   *)
(* its offsets are base .. next - 1, of which compaction has left those in *)
(* the sequence offsets; pid is NoPid before message format v2; kind is    *)
(* "data", or "commit" or "abort" for a control batch, or "corrupt" for    *)
(* one whose CRC does not match.                                           *)
(***************************************************************************)
EXTENDS Naturals, Sequences, SequencesExt

CONSTANTS NoPid

\* The state of _unpack_records: what it has yielded, next_fetch_offset, the
\* list _aborted_transactions, sorted, and the set _aborted_producers.
Unpacking(offset, aborted) ==
    [yielded |-> <<>>, next |-> offset, transactions |-> aborted, producers |-> {}, corrupt |-> FALSE]

MutConsumeBefore(u, base) ==
    LET upTo == SelectSeq(u.transactions, LAMBDA t : t.first < base)
    IN  [u EXCEPT !.producers = @ \cup {t.pid : t \in ToSet(upTo)},
                  !.transactions = SelectSeq(@, LAMBDA t : t.first >= base)]

\* _consume_aborted_up_to
consume_aborted_up_to(u, base) ==
    LET upTo == SelectSeq(u.transactions, LAMBDA t : t.first <= base)
    IN  [u EXCEPT !.producers = @ \cup {t.pid : t \in ToSet(upTo)},
                  !.transactions = SelectSeq(@, LAMBDA t : t.first > base)]

is_control_batch(batch) == batch.kind \in {"commit", "abort"}

\* What precedes the records of a batch under READ_COMMITTED.
filter_aborted(u, batch) ==
    LET seen == consume_aborted_up_to(u, batch.base)
    IN  IF batch.kind = "abort" THEN [seen EXCEPT !.producers = @ \ {batch.pid}] ELSE seen

\* One turn of the loop of _unpack_records.
unpack_batch(u, batch, committed) ==
    LET filtered == IF committed /\ batch.pid # NoPid THEN filter_aborted(u, batch) ELSE u
        skipped == \/ committed /\ batch.txn /\ batch.pid \in filtered.producers
                   \/ is_control_batch(batch)
        fresh == SelectSeq(batch.offsets, LAMBDA o : o >= u.next)
    IN  CASE u.corrupt \/ batch.kind = "corrupt" -> [u EXCEPT !.corrupt = TRUE]
          [] ~(u.corrupt \/ batch.kind = "corrupt") /\ skipped -> [filtered EXCEPT !.next = batch.next]
          [] OTHER -> [filtered EXCEPT !.yielded = @ \o fresh, !.next = batch.next]

unpack_records(batches, offset, aborted, committed) ==
    FoldLeft(LAMBDA u, batch : unpack_batch(u, batch, committed), Unpacking(offset, aborted), batches)

-----------------------------------------------------------------------------
(* The broker's side: what it returns with a range of batches              *)

\* The control batch that ends the transaction that batch i of the log is in
\* (0: it is still open).
end_of(log, i) ==
    LET ends == {j \in i + 1 .. Len(log) : is_control_batch(log[j]) /\ log[j].pid = log[i].pid}
    IN  IF ends = {} THEN 0 ELSE CHOOSE j \in ends : \A k \in ends : j <= k

transactional(log, i) == log[i].txn /\ ~is_control_batch(log[i])

\* The last stable offset: where the first open transaction begins.
last_stable_offset(log) ==
    LET open == {log[i].base : i \in {j \in DOMAIN log : transactional(log, j) /\ end_of(log, j) = 0}}
    IN  IF open = {} THEN Last(log).next ELSE CHOOSE o \in open : \A q \in open : o <= q

\* The transactions that end with an abort: the producer and the first offset,
\* with the offset of the marker.
aborted_transactions(log) ==
    LET batchesOf(j) == {i \in DOMAIN log : transactional(log, i) /\ end_of(log, i) = j}
        first(j) == CHOOSE o \in {log[i].base : i \in batchesOf(j)} : \A i \in batchesOf(j) : o <= log[i].base
    IN  {[pid |-> log[j].pid, first |-> first(j), last |-> log[j].base] :
           j \in {k \in DOMAIN log : log[k].kind = "abort" /\ batchesOf(k) # {}}}

\* Those of them that a response for the offsets from .. to - 1 lists, in order.
aborted_in(log, from, to) ==
    SetToSortSeq({t \in aborted_transactions(log) : t.first < to /\ t.last >= from},
                 LAMBDA s, t : s.first < t.first)

-----------------------------------------------------------------------------
(* The reference: what a consumer is to see                                *)

\* A record is seen when it is data and, under READ_COMMITTED, when it is not
\* part of an aborted or open transaction.
seen(log, i, committed) ==
    /\ ~is_control_batch(log[i])
    /\ committed /\ transactional(log, i) =>
         IF end_of(log, i) = 0 THEN FALSE ELSE log[end_of(log, i)].kind = "commit"

visible(log, from, to, committed) ==
    SelectSeq(FlattenSeq([i \in DOMAIN log |-> IF seen(log, i, committed) THEN log[i].offsets ELSE <<>>]),
              LAMBDA o : from <= o /\ o < to)
=============================================================================

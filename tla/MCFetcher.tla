------------------------------ MODULE MCFetcher ------------------------------
(* Instances of Fetcher for TLC: short logs with aborted, committed and open *)
(* transactions, compacted batches and a corrupt one.                        *)
EXTENDS Fetcher

CONSTANTS p1, p2, n1, n2, A, B

Batch(base, offsets, next, pid, kind) ==
    [base |-> base, next |-> next, offsets |-> offsets, pid |-> pid, txn |-> pid # NoPid, kind |-> kind]

\* B aborts what lies between two batches of A, and the last record of A's
\* second batch was compacted away.
Interleaved ==
    <<Batch(0, <<0>>, 1, A, "data"), Batch(1, <<1>>, 2, B, "data"), Batch(2, <<2>>, 4, A, "data"),
      Batch(4, <<>>, 5, B, "abort"), Batch(5, <<>>, 6, A, "commit"), Batch(6, <<6>>, 7, B, "data")>>

\* A aborts, begins again and commits.
Again ==
    <<Batch(0, <<0>>, 1, A, "data"), Batch(1, <<>>, 2, A, "abort"), Batch(2, <<2>>, 3, A, "data"),
      Batch(3, <<>>, 4, A, "commit")>>

Short == <<Batch(0, <<0>>, 1, NoPid, "data"), Batch(1, <<1>>, 3, NoPid, "data")>>

Damaged == <<Batch(0, <<0, 1>>, 2, NoPid, "data"), Batch(2, <<2>>, 3, NoPid, "corrupt")>>

Two(first, second) == p1 :> first @@ p2 :> second

Mode(logs, reads, kinds, max) ==
    [logs |-> logs, committed |-> TRUE, default |-> "earliest", stored |-> NoOffset, records |-> 0,
     reads |-> reads, assigns |-> {Partitions}, leaders |-> {Two(n1, n1)}, events |-> kinds, max |-> max]

One(md) == [md EXCEPT !.assigns = {{p1}}]

Transactions == One(Mode(Two(Interleaved, Interleaved), {"one", "many"}, {"seek"}, 1))

Many == [Mode(Two(Short, Again), {"many"}, {"pause", "parts"}, 1) EXCEPT !.records = 2, !.default = "none", !.stored = 0]

Moving == One([Mode(Two(Short, Short), {"one"}, {"leader", "lost", "seek"}, 2) EXCEPT !.leaders = {Two(n1, n2)}])

Resetting == One(Mode(Two(Short, Short), {"one"}, {"earliest", "latest", "seek", "truncate", "pause"}, 2))

Reassigned == [Mode(Two(Short, Short), {"one"}, {"rebalance", "unsubscribe", "seek"}, 2)
                 EXCEPT !.assigns = {{p1}, Partitions}]

Refused == [Mode(Two(Damaged, Short), {"one"}, {"RecordTooLarge", "TopicAuthorizationFailed", "other", "seek"}, 1)
              EXCEPT !.committed = FALSE, !.default = "none", !.stored = 0]

Closing == Mode(Two(Short, Short), {"one", "many"}, {"close", "lost"}, 2)

\* getmany() over a partition with records and one whose next batch is corrupt.
HalfDamaged == [Mode(Two(Short, Damaged), {"many"}, {}, 0) EXCEPT !.committed = FALSE]

FetchModes == {Transactions, Many, Moving, Resetting, Reassigned, Refused, Closing}

DamagedModes == {HalfDamaged}
=============================================================================

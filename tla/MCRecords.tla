----------------------------- MODULE MCRecords ------------------------------
(* Records with values at the edges of the variable-length integers: blobs of 0, 1, 63 and 64  *)
(* bytes (one and two bytes of length) and timestamps 0, 63, 64 and 2^27 apart, in any order.  *)
EXTENDS Records

blob(n, byte) == [i \in 1..n |-> byte]
rec(timestamp, key, value, headers) ==
    [timestamp |-> timestamp, key |-> key, value |-> value, headers |-> headers]

EdgeRecords ==
    {rec(64, Null, blob(64, 200), <<>>),
     rec(1, <<5>>, Null, <<[key |-> <<97>>, value |-> Null], [key |-> <<>>, value |-> <<1, 2>>]>>),
     rec(134217793, <<>>, <<>>, <<>>),
     rec(0, blob(63, 130), <<255, 0>>, <<[key |-> <<98, 99>>, value |-> <<>>]>>)}

conf(writer, reader, magics, codec, batch_size, transactional, append_time) ==
    [writer |-> writer, reader |-> reader, magics |-> magics, codec |-> codec,
     batch_size |-> batch_size, transactional |-> transactional, append_time |-> append_time]

(* Every pair of implementations, every magic, with and without a codec, in batches that the   *)
(* records fill or overfill.  A log of two magics is read by the Python implementation.        *)
Configurations ==
    {conf(w, r, <<m>>, codec, 150, FALSE, FALSE) :
        w \in {"py", "cython"}, r \in {"py", "cython"}, m \in 0..2, codec \in {0, 1}}
    \cup {conf("py", r, <<m>>, 2, 100, FALSE, TRUE) : r \in {"py", "cython"}, m \in 0..2}
    \cup {conf(w, w, <<2, 2>>, 4, 90, TRUE, FALSE) : w \in {"py", "cython"}}
    \cup {conf("py", "py", <<1, 2>>, 0, 90, FALSE, TRUE)}

(* A byte off the end of a batch, and within its length and magic fields. *)
NearHeads == {-1, 0, 1, 11, 12, 16}

(* A log whose message format was upgraded, read by the extension. *)
Upgraded == {conf("cython", "cython", <<1, 2>>, 0, 150, FALSE, FALSE)}
=============================================================================

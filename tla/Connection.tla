----------------------------- MODULE Connection -----------------------------
(***************************************************************************)
(* conn.py, class AIOKafkaConnection: one TCP connection to a broker, with *)
(* the requests that wait for a response in the order they were written.   *)
(*                                                                         *)
(* A request is identified by a tag; its entry says whether somebody still *)
(* waits for its future.  wire holds what the broker has been sent and     *)
(* will answer, in order; raw marks a SASL token, which has no header.     *)
(***************************************************************************)
EXTENDS Naturals, Sequences

CONSTANTS IdBound       \* 2^31 in the code

NewConnection(id, hooked) ==
    [id |-> id, state |-> "connecting", eof |-> FALSE, requests |-> <<>>, wire |-> <<>>,
     correlation_id |-> 0, hooked |-> hooked]

connected(l) == l.state = "open" /\ ~l.eof

next_correlation_id(l) == (l.correlation_id + 1) % IdBound

\* send() of a request that was written: without expect_response (acks=0)
\* nothing is answered and nobody is registered.
send(l, tag, expect_response) ==
    LET cid == next_correlation_id(l)
        entry == [cid |-> cid, tag |-> tag, live |-> TRUE, raw |-> FALSE]
    IN  IF expect_response
        THEN [l EXCEPT !.correlation_id = cid, !.requests = Append(@, entry), !.wire = Append(@, entry)]
        ELSE [l EXCEPT !.correlation_id = cid]

\* _send_sasl_token
send_sasl_token(l, tag) ==
    LET entry == [cid |-> 0, tag |-> tag, live |-> TRUE, raw |-> TRUE]
    IN  [l EXCEPT !.requests = Append(@, entry), !.wire = Append(@, entry)]

\* The timeout of wait_for cancels the future; its entry stays.
cancel(l, tag) ==
    [l EXCEPT !.requests = [i \in DOMAIN @ |-> IF @[i].tag = tag THEN [@[i] EXCEPT !.live = FALSE] ELSE @[i]]]

\* The futures close() fails.
pending(l) == {l.requests[i].tag : i \in {j \in DOMAIN l.requests : l.requests[j].live}}

closed(l) == [NewConnection(l.id, FALSE) EXCEPT !.state = "closed"]

MutAnyAnswer(l, frame) ==
    IF l.requests = <<>> THEN [l |-> l, to |-> {}, out |-> "broken"]
    ELSE [l |-> [l EXCEPT !.requests = Tail(@)],
          to |-> IF Head(l.requests).live THEN {Head(l.requests).tag} ELSE {}, out |-> "answer"]

\* _handle_frame: who is answered and what becomes of the connection.  A frame
\* nobody asked for raises IndexError in the reader.
handle_frame(l, frame) ==
    IF l.requests = <<>> THEN [l |-> l, to |-> {}, out |-> "broken"]
    ELSE LET first == Head(l.requests)
             to == IF first.live THEN {first.tag} ELSE {}
         IN  IF ~first.raw /\ frame.cid # first.cid THEN [l |-> l, to |-> to, out |-> "out_of_sync"]
             ELSE [l |-> [l EXCEPT !.requests = Tail(@)], to |-> to, out |-> "answer"]

\* _idle_check: a connection with requests is not idle.
may_be_idle(l) == l.state = "open" /\ l.requests = <<>>
=============================================================================

---------------------------- MODULE Transactions ----------------------------
(***************************************************************************)
(* What AIOKafkaProducer promises of transactions: they follow each other, *)
(* what is sent in one is stored unseen, and one step makes all of it seen *)
(* or none of it, as the application asked.                                *)
(***************************************************************************)
EXTENDS Naturals

CONSTANT MaxTxn      \* bound: transactions begun

VARIABLES
    current,         \* the number of the transaction last begun
    asked,           \* what the application asked for each transaction
    ended,           \* the transactions whose end was reported to it
    stored,          \* batches and offsets of the current transaction, not seen yet
    seen,            \* batches and offsets readers of committed data see
    acked            \* batches reported to the application as stored

vars == <<current, asked, ended, stored, seen, acked>>

Init ==
    /\ current = 0
    /\ asked = [t \in 1..MaxTxn |-> "open"]
    /\ ended = {} /\ stored = {} /\ seen = {} /\ acked = {}

Running == current \in (1..MaxTxn) \ ended

Begin ==
    /\ ended = 1..current
    /\ current < MaxTxn
    /\ current' = current + 1
    /\ UNCHANGED <<asked, ended, stored, seen, acked>>

\* A commit that was asked for may still be given up for an abort, until it is seen.
Ask(result) ==
    /\ Running
    /\ IF result = "commit" THEN asked[current] = "open"
                            ELSE \A i \in seen : i.txn # current
    /\ asked' = [asked EXCEPT ![current] = result]
    /\ UNCHANGED <<current, ended, stored, seen, acked>>

\* Only the running transaction is written to, and only what is stored is reported so.
Store ==
    /\ Running
    /\ stored \subseteq stored' /\ \A i \in stored' \ stored : i.txn = current
    /\ acked \subseteq acked' /\ acked' \ acked \subseteq stored'
    /\ UNCHANGED <<current, asked, ended, seen>>

\* The end is decided in one step; it is reported then or later.
End ==
    /\ Running
    /\ asked[current] # "open"
    /\ stored' = {}
    /\ seen' = IF asked[current] = "commit" THEN seen \cup stored ELSE seen
    /\ ended' \in {ended, ended \cup {current}}
    /\ UNCHANGED <<current, asked, acked>>

Next == Begin \/ (\E result \in {"commit", "abort"} : Ask(result)) \/ Store \/ End

Spec == Init /\ [][Next]_vars
=============================================================================

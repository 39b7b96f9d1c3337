------------------------------ MODULE Assignors ------------------------------
(* The range and the round robin assignor (coordinator/assignors/range.py,      *)
(* roundrobin.py): what the leader of a group computes from the metadata of the *)
(* members and of the cluster.                                                 *)
(*                                                                             *)
(* A member and a topic are numbers, in the order of their names; a topic       *)
(* partition is a pair.  cluster[topic] is the number of partitions, 0 for a    *)
(* topic without metadata; subscription[m] is a set of topics.                 *)
EXTENDS Integers, Sequences, FiniteSets, SequencesExt, FiniteSetsExt

\* partitions_for_topic().
partitions_for_topic(cluster, topic) == {<<topic, p>> : p \in 0 .. cluster[topic] - 1}

before(a, b) == a[1] < b[1] \/ (a[1] = b[1] /\ a[2] < b[2])

\* sorted(): the elements of a set in the order of less.
sorted(S, less(_, _)) ==
    <<>> \o [i \in 1 .. Cardinality(S) |-> CHOOSE e \in S : Cardinality({f \in S : less(f, e)}) = i - 1]

in_order(tps) == sorted(tps, before)

-----------------------------------------------------------------------------
(* range.py                                                                *)


slice(n, k, i) ==
    LET start == (n \div k) * i + Min({i, n % k})
        length == n \div k + (IF i + 1 > n % k THEN 0 ELSE 1)
    IN  start .. start + length - 1

range_assign(cluster, members, subscription) ==
    [m \in members |->
        UNION {LET consumers == {c \in members : topic \in subscription[c]}
                   i == Cardinality({c \in consumers : c < m})
               IN  {<<topic, p>> : p \in slice(cluster[topic], Cardinality(consumers), i)}
               : topic \in subscription[m]}]

-----------------------------------------------------------------------------
(* roundrobin.py                                                           *)

\* The next member of the cycle that is subscribed to the topic, from position at.
next_member(cycle, at, topic, subscription) ==
    LET steps == {j \in 0 .. Len(cycle) - 1 : topic \in subscription[cycle[((at + j) % Len(cycle)) + 1]]}
    IN  (at + Min(steps)) % Len(cycle)

roundrobin_assign(cluster, members, subscription) ==
    LET cycle == sorted(members, <)
        all_topics == UNION {subscription[m] : m \in members}
        all_topic_partitions == in_order(UNION {partitions_for_topic(cluster, topic) : topic \in all_topics})
        Give(acc, tp) ==
            LET i == next_member(cycle, acc.at, tp[1], subscription)
            IN  [at |-> (i + 1) % Len(cycle), got |-> [acc.got EXCEPT ![cycle[i + 1]] = @ \cup {tp}]]
    IN  FoldLeft(Give, [at |-> 0, got |-> [m \in members |-> {}]], all_topic_partitions).got
=============================================================================

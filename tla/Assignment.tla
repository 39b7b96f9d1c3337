----------------------------- MODULE Assignment -----------------------------
(* A group and its rebalances: members come, go, change their subscription, topics *)
(* get partitions or are deleted, and after each change the leader runs the        *)
(* assignor on what the members report, and each member remembers its part.        *)
EXTENDS StickyAssignor

CONSTANTS
    Members_,      \* member ids: numbers, in the order of their names
    Topics,        \* topics: numbers
    Internal,      \* the internal ones
    MaxPartitions, \* of a topic
    Descending,    \* members that list their topics in descending order
    Modes          \* configurations

VARIABLES
    mode,         \* frozen: the assignor, the members that count generations, those of one
                  \* process, the first cluster, the orders of sets, the bound on changes
    group,        \* the members of the group
    subscription, \* member -> topics
    cluster,      \* topic -> number of partitions
    memory,       \* member -> member_assignment and generation of its class
    generation,   \* number of rebalances
    changes,      \* number of changes of the group and the cluster, bounded by the mode
    changed_since, \* something changed since the last rebalance
    outcome       \* the last rebalance: its input, its assignment, what moved

vars == <<mode, group, subscription, cluster, memory, generation, changes, changed_since, outcome>>

Nothing == [partitions |-> {}, generation |-> -1]

\* _perform_assignment(): the leader runs the assignor.
assign(in) ==
    LET Result(got) == [got |-> got, raised |-> FALSE]
        Executed(x) == [got |-> [m \in Members(in) |-> ToSet(x.current_assignment[m])], raised |-> x.raised]
    IN  CASE mode.assignor = "range" -> Result(range_assign(in.cluster, Members(in), in.subscription))
          [] mode.assignor = "roundrobin" -> Result(roundrobin_assign(in.cluster, Members(in), in.subscription))
          [] OTHER -> Executed(sticky(in))

\* on_assignment() stores the partitions in the class, so that of the members of one
\* process the last one's are there.  on_generation_assignment() is called by no one:
\* only members of other clients count generations.
on_assignment(got, later) ==
    LET from(m) == IF m \in mode.shared /\ group \cap mode.shared # {} THEN later ELSE m
    IN  [m \in Members_ |->
            IF from(m) \in group
            THEN [partitions |-> got[from(m)], generation |-> IF m \in mode.counted THEN generation + 1 ELSE -1]
            ELSE memory[m]]

\* What the leader knows when the members have joined: the metadata they sent, in some
\* order, and its own view of the cluster.
known(backwards, descending) ==
    LET ids == sorted(group, <)
    IN  [members |-> IF backwards THEN Reverse(ids) ELSE ids,
         subscription |-> subscription, cluster |-> cluster, internal |-> Internal,
         listed |-> [m \in Members_ |-> m \in Descending], descending |-> descending,
         partitions |-> [m \in Members_ |-> memory[m].partitions],
         generation |-> [m \in Members_ |-> memory[m].generation]]

\* The leader assigns, and every member takes its part.
Rebalance ==
    /\ changed_since /\ group # {} /\ changed_since' = FALSE
    /\ generation' = generation + 1
    /\ \E backwards \in BOOLEAN, descending \in mode.descending :
         \E result \in {assign(known(backwards, descending))} :
            /\ outcome' = [was |-> [m \in group |-> memory[m].partitions],
                           got |-> result.got, raised |-> result.raised]
            /\ IF result.raised THEN memory' = memory
               ELSE \E later \in IF group \cap mode.shared = {} THEN {0} ELSE group \cap mode.shared :
                       memory' = on_assignment(result.got, later)
    /\ UNCHANGED <<mode, group, subscription, cluster, changes>>

\* What makes a rebalance necessary.
Change ==
    /\ changes < mode.changes /\ changes' = changes + 1 /\ changed_since' = TRUE
    /\ UNCHANGED <<mode, generation, outcome>>

\* A member joins, new or with what it remembers of an earlier generation.
Join(m) ==
    /\ Change
    /\ m \notin group /\ group' = group \cup {m}
    /\ \E topics \in SUBSET Topics \ {{}} : subscription' = [subscription EXCEPT ![m] = topics]
    /\ memory' \in {memory} \cup (IF m \in mode.shared THEN {} ELSE {[memory EXCEPT ![m] = Nothing]})
    /\ UNCHANGED cluster

Leave(m) ==
    /\ Change
    /\ m \in group /\ group # {m} /\ group' = group \ {m}
    /\ subscription' = [subscription EXCEPT ![m] = {}]
    /\ UNCHANGED <<cluster, memory>>

Subscribe(m) ==
    /\ Change
    /\ m \in group
    /\ \E topics \in SUBSET Topics \ {{}, subscription[m]} : subscription' = [subscription EXCEPT ![m] = topics]
    /\ UNCHANGED <<group, cluster, memory>>

\* The metadata of a topic change: it is created, gets partitions, or is deleted.
Repartition(topic) ==
    /\ Change
    /\ group # {}
    /\ \E n \in (cluster[topic] + 1 .. MaxPartitions) \cup ({0} \ {cluster[topic]}) :
          cluster' = [cluster EXCEPT ![topic] = n]
    /\ UNCHANGED <<group, subscription, memory>>

Init ==
    /\ mode \in Modes
    /\ group = {} /\ generation = 0 /\ changes = 0 /\ changed_since = FALSE
    /\ subscription = [m \in Members_ |-> {}] /\ memory = [m \in Members_ |-> Nothing]
    /\ cluster = mode.cluster
    /\ outcome = [was |-> <<>>, got |-> <<>>, raised |-> FALSE]

Next ==
    \/ \E m \in Members_ : Join(m) \/ Leave(m) \/ Subscribe(m)
    \/ \E topic \in Topics : Repartition(topic)
    \/ Rebalance

Spec == Init /\ [][Next]_vars

-----------------------------------------------------------------------------
(* Properties                                                              *)

held(m) == outcome.got[m]


\* The sticky assignor's balance: a consumer with two partitions fewer than another
\* can have none of the other's.
even(f) ==
    \A a, b \in group :
        Cardinality(f[a]) >= Cardinality(f[b]) + 2 => \A tp \in f[a] : tp[1] \notin subscription[b]

\* Each assignor is as even as its documentation says: the range assignor for each
\* topic, with consecutive partitions; the round robin one when the subscriptions are
\* the same; the sticky one always.
Balanced ==
  ~changed_since =>
    CASE mode.assignor = "range" ->
           \A a, b \in group : \A topic \in subscription[a] \cap subscription[b] :
               LET of(m) == {tp[2] : tp \in {p \in held(m) : p[1] = topic}}
               IN  a < b => /\ Cardinality(of(a)) - Cardinality(of(b)) \in {0, 1}
                            /\ \A p \in of(a), q \in of(b) : p < q
      [] mode.assignor = "roundrobin" ->
           (\A a, b \in group : subscription[a] = subscription[b])
           => \A a, b \in group : Cardinality(held(a)) <= Cardinality(held(b)) + 1
      [] OTHER -> even(outcome.got)

\* What a member had, could keep, and no other member says it had.
rightly_had(m) ==
    {tp \in outcome.was[m] : /\ tp[1] \in subscription[m] /\ tp[2] < cluster[tp[1]]
                             /\ \A c \in group \ {m} : tp \notin outcome.was[c]}

\* No two members exchange partitions of one topic in a rebalance of the sticky
\* assignor, and when what they had is even and complete each keeps it, unless members
\* of one process report each other's partitions.
Sticky ==
    LET had == [m \in group |-> rightly_had(m)]
        moved(a, b) == {tp[1] : tp \in had[a] \cap held(b)}
    IN  mode.assignor = "sticky" /\ mode.shared = {} /\ ~changed_since =>
            /\ \A a, b \in group : a # b => moved(a, b) \cap moved(b, a) = {}
            /\ even(had) /\ (UNION {had[m] : m \in group} = UNION {held(m) : m \in group}) => had = outcome.got
=============================================================================

--------------------------- MODULE StickyAssignor ---------------------------
(* The sticky assignor (coordinator/assignors/sticky): StickyAssignmentExecutor  *)
(* with the SortedSet and the PartitionMovements it works on, as one function   *)
(* from what the leader knows to an assignment.                                *)
(*                                                                             *)
(* What the leader knows is a record                                           *)
(*   members       the member ids in the order of the JoinGroup response        *)
(*   subscription  member -> topics;  listed: the order a member lists them in  *)
(*   cluster       topic -> number of partitions;  internal: internal topics    *)
(*   partitions, generation   member -> what its user data say                  *)
(*   descending    the order in which a Python set gives its elements           *)
(* and the executor a record with the attributes of the class.                 *)
EXTENDS Assignors, Functions, TLC

Members(in) == ToSet(in.members)

\* The same function, tabulated by TLC.
Table(f) == f @@ <<>>

\* The element a Python set gives first.
first_of(in, S) ==
    CHOOSE e \in S : \A f \in S \ {e} : IF in.descending THEN before(f, e) ELSE before(e, f)

-----------------------------------------------------------------------------
(* sorted_set.py: the set and the two cached ends; NoElement is None.       *)

NoElement == <<>>

\* subscriptions_comparator_key; an element is <<consumer, number of partitions>>.
less(a, b) == a[2] < b[2] \/ (a[2] = b[2] /\ a[1] < b[1])

SortedSet(elements) == [set |-> elements, cached_first |-> NoElement, cached_last |-> NoElement]

first(ss) ==
    IF ss.cached_first # NoElement \/ ss.set = {} THEN ss.cached_first
    ELSE CHOOSE e \in ss.set : \A f \in ss.set \ {e} : less(e, f)

last(ss) ==
    IF ss.cached_last # NoElement \/ ss.set = {} THEN ss.cached_last
    ELSE CHOOSE e \in ss.set : \A f \in ss.set \ {e} : less(f, e)

\* What first() and last() leave behind.
looked_at(ss) == [ss EXCEPT !.cached_first = first(ss), !.cached_last = last(ss)]

add(ss, e) ==
    [set |-> ss.set \cup {e},
     cached_first |-> IF ss.cached_first # NoElement /\ less(e, ss.cached_first) THEN e ELSE ss.cached_first,
     cached_last |-> IF ss.cached_last # NoElement /\ less(ss.cached_last, e) THEN e ELSE ss.cached_last]

remove(ss, e) ==
    [set |-> ss.set \ {e},
     cached_first |-> IF ss.cached_first = e THEN NoElement ELSE ss.cached_first,
     cached_last |-> IF ss.cached_last = e THEN NoElement ELSE ss.cached_last]

\* __iter__ lists the set by its key.
ascending(ss) == sorted(ss.set, less)

-----------------------------------------------------------------------------
(* partition_movements.py: movements is partition -> <<source, destination>>;  *)
(* the index by topic is derived from it.                                  *)

moved_along(movements, topic, pair) == {tp \in DOMAIN movements : tp[1] = topic /\ movements[tp] = pair}

move_partition(movements, tp, old, new) ==
    LET others == Restrict(movements, DOMAIN movements \ {tp})
    IN  IF tp \notin DOMAIN movements THEN others @@ (tp :> <<old, new>>)
        ELSE IF movements[tp][1] = new THEN others
        ELSE others @@ (tp :> <<movements[tp][1], new>>)

\* A partition of the topic that moved the other way is moved back instead.
get_partition_to_be_moved(in, movements, tp, old, new) ==
    LET source == IF tp \in DOMAIN movements THEN movements[tp][1] ELSE old
        reverse == moved_along(movements, tp[1], <<new, source>>)
    IN  IF reverse = {} THEN tp ELSE first_of(in, reverse)

-----------------------------------------------------------------------------
(* What the executor starts from: _initialize, _init_current_assignments    *)

\* _initialize() lists the partitions and who can have them.  cluster.topics()
\* leaves the internal topics out; a partition that a member lists and it does not
\* is a KeyError.
initialize(in) ==
    LET all == UNION {partitions_for_topic(in.cluster, topic) : topic \in DOMAIN in.cluster \ in.internal}
        of(m) == UNION {partitions_for_topic(in.cluster, topic) : topic \in in.subscription[m]}
    IN  in @@ [all_partitions |-> all,
               potential_partitions |-> Table([m \in Members(in) |-> of(m)]),
               potential_consumers |-> Table([tp \in all |-> {m \in Members(in) : tp[1] \in in.subscription[m]}]),
               key_error |-> \E m \in Members(in) : of(m) \ all # {}]

\* The members that say they had the partition, in the order of the response.
claimants(in, tp) == SelectSeq(in.members, LAMBDA m : tp \in in.partitions[m])

\* Of one generation the first claimant is kept; the highest generation owns the
\* partition, and the one below it is where the partition was before.
by_generation(in, tp) ==
    LET claims == claimants(in, tp)
        firsts == {i \in 1 .. Len(claims) : \A j \in 1 .. i - 1 : in.generation[claims[j]] # in.generation[claims[i]]}
    IN  sorted({claims[i] : i \in firsts}, LAMBDA a, b : in.generation[a] > in.generation[b])

\* The claimed partitions in the order in which they are met.
claimed(in) ==
    FoldLeft(LAMBDA met, m : met \o in_order(in.partitions[m] \ ToSet(met)), <<>>, in.members)

previous_assignment(in) ==
    LET twice == {tp \in ToSet(claimed(in)) : Len(by_generation(in, tp)) > 1}
    IN  Table([tp \in twice |-> by_generation(in, tp)[2]])

initial(in) ==
    [current_assignment |-> Table([m \in Members(in) |->
         SelectSeq(claimed(in), LAMBDA tp : by_generation(in, tp)[1] = m)]),
     previous_assignment |-> previous_assignment(in),
     is_fresh_assignment |-> claimed(in) = <<>>,
     revocation_required |-> FALSE, sorted_partitions |-> <<>>, unassigned_partitions |-> <<>>,
     sorted_current_subscriptions |-> SortedSet({}), partition_movements |-> <<>>,
     modified |-> FALSE, reassignment_performed |-> FALSE, raised |-> FALSE]

\* current_partition_consumer is the inverse of current_assignment.
consumer_of(x, tp) == CHOOSE m \in DOMAIN x.current_assignment : Contains(x.current_assignment[m], tp)

is_assigned(x, tp) == \E m \in DOMAIN x.current_assignment : Contains(x.current_assignment[m], tp)

count(x, m) == Len(x.current_assignment[m])

-----------------------------------------------------------------------------
(* _populate_sorted_partitions, _populate_partitions_to_reassign           *)

\* The lists are compared, so that the order in which a member lists its topics
\* matters.
are_subscriptions_identical(in) ==
    /\ \A a, b \in in.all_partitions : in.potential_consumers[a] = in.potential_consumers[b]
    /\ \A m, c \in Members(in) :
          /\ in.potential_partitions[m] = in.potential_partitions[c]
          /\ in.listed[m] = in.listed[c] \/ Cardinality({tp[1] : tp \in in.potential_partitions[m]}) <= 1

\* From the consumer with the most partitions left, one that had another consumer
\* before, else its last one, until all are listed.
RECURSIVE listed_from_most(_, _)
listed_from_most(in, left) ==
    LET m == last(SortedSet({<<c, Len(left[c])>> : c \in DOMAIN left}))[1]
        movable == {tp \in ToSet(left[m]) : tp \in DOMAIN previous_assignment(in)}
        tp == IF movable # {} THEN first_of(in, movable) ELSE Last(left[m])
    IN  IF left[m] = <<>> THEN <<>>
        ELSE <<tp>> \o listed_from_most(in, [left EXCEPT ![m] = SelectSeq(@, LAMBDA e : e # tp)])

populate_sorted_partitions(in, x) ==
    LET key(tp) == <<Cardinality(in.potential_consumers[tp]), tp>>
        fewer(a, b) == key(a)[1] < key(b)[1] \/ (key(a)[1] = key(b)[1] /\ before(a, b))
        by_consumers == sorted(in.all_partitions, fewer)
        left == [m \in Members(in) |-> SelectSeq(x.current_assignment[m], LAMBDA tp : tp \in in.all_partitions)]
        ahead == listed_from_most(in, left)
    IN  [x EXCEPT !.sorted_partitions =
            IF ~x.is_fresh_assignment /\ are_subscriptions_identical(in)
            THEN ahead \o SelectSeq(by_consumers, LAMBDA tp : ~Contains(ahead, tp))
            ELSE by_consumers]

unsubscribed(in, x) ==
    {tp \in in.all_partitions : is_assigned(x, tp) /\ tp[1] \notin in.subscription[consumer_of(x, tp)]}

MutRevokesAll(in, x) ==
    LET kept == Table([m \in Members(in) |->
                    SelectSeq(x.current_assignment[m],
                              LAMBDA tp : unsubscribed(in, x) = {} /\ tp \in in.potential_partitions[m])])
    IN  [x EXCEPT !.current_assignment = kept, !.revocation_required = unsubscribed(in, x) # {},
                  !.unassigned_partitions =
                      SelectSeq(x.sorted_partitions, LAMBDA tp : \A m \in Members(in) : ~Contains(kept[m], tp))]

\* What a consumer keeps, and what is to be assigned.
populate_partitions_to_reassign(in, x) ==
    LET kept == Table([m \in Members(in) |->
                    SelectSeq(x.current_assignment[m], LAMBDA tp : tp \in in.potential_partitions[m])])
    IN  [x EXCEPT !.current_assignment = kept, !.revocation_required = unsubscribed(in, x) # {},
                  !.unassigned_partitions =
                      SelectSeq(x.sorted_partitions, LAMBDA tp : \A m \in Members(in) : ~Contains(kept[m], tp))]
-----------------------------------------------------------------------------
(* Moving a partition                                                      *)

subscription_of(x, m) == <<m, count(x, m)>>

\* The consumers' entries of the sorted set are taken out, the lists changed, and
\* the entries put back; an entry that is not there is a KeyError.
changed(x, consumers, assignment, movements) ==
    LET out == FoldSet(LAMBDA m, ss : remove(ss, subscription_of(x, m)), x.sorted_current_subscriptions, consumers)
        y == [x EXCEPT !.current_assignment = Table(assignment), !.partition_movements = movements]
    IN  IF \E m \in consumers : subscription_of(x, m) \notin x.sorted_current_subscriptions.set
        THEN [x EXCEPT !.raised = TRUE]
        ELSE [y EXCEPT !.sorted_current_subscriptions =
                 FoldSet(LAMBDA m, ss : add(ss, subscription_of(y, m)), out, consumers)]

\* The first consumer of the sorted set that can have the partition.
least_loaded(in, x, tp) ==
    SelectSeq(ascending(x.sorted_current_subscriptions), LAMBDA e : tp \in in.potential_partitions[e[1]])[1][1]

assign_partition(in, x, tp) ==
    LET m == least_loaded(in, x, tp)
    IN  changed(x, {m}, [x.current_assignment EXCEPT ![m] = Append(@, tp)], x.partition_movements)

reassign_partition_to_consumer(in, x, tp, new) ==
    LET moving == get_partition_to_be_moved(in, x.partition_movements, tp, consumer_of(x, tp), new)
        old == consumer_of(x, moving)
    IN  changed([x EXCEPT !.modified = TRUE, !.reassignment_performed = TRUE], {old, new},
                [x.current_assignment EXCEPT ![old] = SelectSeq(@, LAMBDA e : e # moving), ![new] = Append(@, moving)],
                move_partition(x.partition_movements, moving, old, new))

-----------------------------------------------------------------------------
(* balance()                                                               *)

can_partition_participate(in, tp) == Cardinality(in.potential_consumers[tp]) >= 2

can_consumer_participate(in, x, m) ==
    \/ count(x, m) < Cardinality(in.potential_partitions[m])
    \/ \E tp \in ToSet(x.current_assignment[m]) : can_partition_participate(in, tp)

MutNearlyBalanced(in, x) ==
    LET ss == x.sorted_current_subscriptions IN count(x, first(ss)[1]) >= count(x, last(ss)[1]) - 2

is_balanced(in, x) ==
    LET ss == x.sorted_current_subscriptions
    IN  \/ count(x, first(ss)[1]) >= count(x, last(ss)[1]) - 1
        \/ \A e \in ss.set :
              LET m == e[1]
              IN  \/ count(x, m) = Cardinality(in.potential_partitions[m])
                  \/ \A tp \in in.potential_partitions[m] \ ToSet(x.current_assignment[m]) :
                        count(x, m) >= count(x, consumer_of(x, tp))

\* One partition of the list that perform_reassignments goes through.
reconsidered(in, x, tp) ==
    LET m == consumer_of(x, tp)
        was == x.previous_assignment[tp]
    IN  CASE ~is_assigned(x, tp) -> x
          [] is_assigned(x, tp) /\ tp \in DOMAIN x.previous_assignment /\ count(x, m) > count(x, was) + 1 ->
               reassign_partition_to_consumer(in, x, tp, was)
          [] OTHER ->
               IF \E c \in in.potential_consumers[tp] : count(x, m) > count(x, c) + 1
               THEN reassign_partition_to_consumer(in, x, tp, least_loaded(in, x, tp))
               ELSE x

\* The list is gone through until a pass changes nothing.
RECURSIVE perform_reassignments(_, _, _)
perform_reassignments(in, x, list) ==
    LET Look(y, tp) ==
            LET z == [y EXCEPT !.sorted_current_subscriptions = looked_at(@)]
            IN  IF y.raised \/ is_balanced(in, z) THEN z ELSE reconsidered(in, z, tp)
        after == FoldLeft(Look, [x EXCEPT !.modified = FALSE], list)
    IN  IF after.raised \/ ~after.modified THEN after
        ELSE perform_reassignments(in, after, list)

get_balance_score(assignment) ==
    LET size(m) == Len(assignment[m])
        Apart(a, b) == IF size(a) > size(b) THEN size(a) - size(b) ELSE size(b) - size(a)
    IN  MapThenSumSet(LAMBDA pair : Apart(pair[1], pair[2]),
                      {pair \in (DOMAIN assignment) \X (DOMAIN assignment) : pair[1] < pair[2]})

balance(in, x) ==
    LET subscribed == [x EXCEPT !.sorted_current_subscriptions =
                           looked_at(SortedSet({subscription_of(x, m) : m \in Members(in)}))]
        initializing == count(x, last(subscribed.sorted_current_subscriptions)[1]) = 0
        all == FoldLeft(LAMBDA y, tp : IF in.potential_consumers[tp] = {} THEN y ELSE assign_partition(in, y, tp),
                        subscribed, x.unassigned_partitions)
        movable(list) == SelectSeq(list, LAMBDA tp : can_partition_participate(in, tp))
        fixed == {m \in Members(in) : ~can_consumer_participate(in, all, m)}
        narrow == [all EXCEPT
            !.current_assignment = Table(Restrict(@, Members(in) \ fixed)),
            !.sorted_current_subscriptions =
                FoldSet(LAMBDA m, ss : remove(ss, subscription_of(all, m)), @, fixed),
            !.sorted_partitions = movable(@), !.unassigned_partitions = movable(@)]
        new_ones == IF narrow.revocation_required THEN narrow
                    ELSE perform_reassignments(in, narrow, narrow.unassigned_partitions)
        done == perform_reassignments(in, [new_ones EXCEPT !.reassignment_performed = FALSE],
                                      new_ones.sorted_partitions)
        worse == get_balance_score(done.current_assignment) >= get_balance_score(narrow.current_assignment)
    IN  [done EXCEPT !.current_assignment =
            Restrict(all.current_assignment, fixed)
                @@ (IF ~initializing /\ done.reassignment_performed /\ worse THEN narrow.current_assignment ELSE @)]

\* assign(): the executor from beginning to end.
executed(in) ==
    balance(in, populate_partitions_to_reassign(in, populate_sorted_partitions(in, initial(in))))

sticky(known) ==
    LET in == initialize(known) IN IF in.key_error THEN [initial(in) EXCEPT !.raised = TRUE] ELSE executed(in)
=============================================================================

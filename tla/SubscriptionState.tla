-------------------------- MODULE SubscriptionState --------------------------
(***************************************************************************)
(* consumer/subscription_state.py: what the application asked for and what *)
(* the group gave it, shared by the consumer, the coordinator and the      *)
(* fetcher.  A state s is a record                                         *)
(*   type, pattern  the subscription type and whether a pattern is set     *)
(*   cur            the current Subscription, an index of subs (0 is None) *)
(*   subs, asgs     every Subscription and Assignment object made so far   *)
(*   subWaiter      the future of wait_for_subscription                    *)
(*   asgWaiter      the future of wait_for_assignment                      *)
(* Objects are immutable but for the fields below, so that an object is    *)
(* active exactly when the current subscription leads to it.  A topic has  *)
(* one partition and stands for it.                                        *)
(***************************************************************************)
EXTENDS Naturals, Sequences

None == 0

Waiters == {"none", "pending", "done", "error"}

SubscriptionType == {"NONE", "AUTO_TOPICS", "AUTO_PATTERN", "USER_ASSIGNED"}

\* A Subscription: its topics, its assignment and _reassignment_in_progress.
Subscription(topics) == [topics |-> topics, asg |-> None, manual |-> FALSE, reassigning |-> TRUE]

\* An Assignment: its partitions, those with a valid position, those somebody
\* awaits the committed offset of, and the event commit_refresh_needed.
Assignment(tps) == [tps |-> tps, valid |-> {}, requesting |-> {}, refresh |-> FALSE]

InitialState ==
    [type |-> "NONE", pattern |-> FALSE, cur |-> None, subs |-> <<>>, asgs |-> <<>>,
     subWaiter |-> "none", asgWaiter |-> "none"]

active(s, i) == i # None /\ s.cur = i

\* Subscription.assignment of the current subscription, None without one.
assignment(s) == IF s.cur = None THEN None ELSE s.subs[s.cur].asg

assignment_active(s, a) == a # None /\ assignment(s) = a

assigned_partitions(s) == IF assignment(s) = None THEN {} ELSE s.asgs[assignment(s)].tps

partitions_auto_assigned(s) == s.type \in {"AUTO_TOPICS", "AUTO_PATTERN"}

reassignment_in_progress(s) == IF s.cur = None THEN TRUE ELSE s.subs[s.cur].reassigning

\* _set_subscription_type raises IllegalStateError otherwise.
type_allowed(s, type) == s.type \in {"NONE", type}

notify(waiter) == IF waiter = "pending" THEN "done" ELSE waiter

change_subscription(s, subscription) ==
    [s EXCEPT !.subs = Append(@, subscription), !.cur = Len(s.subs) + 1,
              !.subWaiter = notify(@)]

subscribe(s, topics) == [change_subscription(s, Subscription(topics)) EXCEPT !.type = "AUTO_TOPICS"]

\* Changes neither the subscription nor its waiters: the next metadata update does.
subscribe_pattern(s) == [s EXCEPT !.type = "AUTO_PATTERN", !.pattern = TRUE]

assign_from_user(s, tps) ==
    [change_subscription(s, [topics |-> tps, asg |-> Len(s.asgs) + 1, manual |-> TRUE,
                             reassigning |-> FALSE])
        EXCEPT !.type = "USER_ASSIGNED", !.asgs = Append(@, Assignment(tps)),
               !.asgWaiter = notify(@)]

\* Nobody is notified: whoever waits waits for the next subscription.
unsubscribe(s) == [s EXCEPT !.cur = None, !.pattern = FALSE, !.type = "NONE"]

subscribe_from_pattern(s, topics) == change_subscription(s, Subscription(topics))

\* The new Assignment takes the place of the old one, which becomes inactive.
assign_from_subscribed(s, tps) ==
    [s EXCEPT !.asgs = Append(@, Assignment(tps)),
              !.subs[s.cur].asg = Len(s.asgs) + 1, !.subs[s.cur].reassigning = FALSE,
              !.asgWaiter = notify(@)]

begin_reassignment(s) == IF s.cur = None THEN s ELSE [s EXCEPT !.subs[s.cur].reassigning = TRUE]

\* The waiters of a subscription are forgotten without being resolved.
abort_waiters(s) ==
    [s EXCEPT !.asgWaiter = IF @ = "pending" THEN "error" ELSE @, !.subWaiter = "none"]

wait_for_subscription(s) == [s EXCEPT !.subWaiter = "pending"]

wait_for_assignment(s) == [s EXCEPT !.asgWaiter = "pending"]

\* The positions of every assignment there has been.
MutConsumedEver(s, a) == UNION {s.asgs[i].valid : i \in DOMAIN s.asgs}

all_consumed_offsets(s, a) == s.asgs[a].valid

fetch_committed(s, a, tp) ==
    [s EXCEPT !.asgs[a].requesting = @ \cup {tp}, !.asgs[a].refresh = TRUE]

\* Whoever awaits the committed offsets of tps gets them and sets the position.
update_committed(s, a, tps) ==
    [s EXCEPT !.asgs[a].requesting = @ \ tps, !.asgs[a].valid = @ \cup (tps \cap s.asgs[a].requesting)]
=============================================================================

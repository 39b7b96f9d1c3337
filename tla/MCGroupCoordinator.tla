-------------------------- MODULE MCGroupCoordinator --------------------------
(* Instances of GroupCoordinator for TLC: the modes of each run.           *)
EXTENDS GroupCoordinator

CONSTANTS t1, t2

TwoTopics == {t1, t2}

Mode(topics, kinds, max) ==
    [group |-> TRUE, topics |-> topics, autocommit |-> FALSE, listener |-> FALSE, assignors |-> 1,
     kip394 |-> FALSE, events |-> kinds, max |-> max]

Rebalancing == [Mode({t1}, {"subscribe", "peer", "evict", "lost"}, 2) EXCEPT !.listener = TRUE]

Committing ==
    [Mode({t1}, {"peer", "await", "assignor", "lookup", "NotCoordinatorForGroup", "GroupLoadInProgress",
                 "GroupAuthorizationFailed"}, 2) EXCEPT !.autocommit = TRUE]

Pattern == [Mode({}, {"pattern", "metadata"}, 2) EXCEPT !.kip394 = TRUE]

Manual == Mode({}, {"assign", "unsubscribe"}, 2)

ManualCommit == Mode({}, {"assign", "commit"}, 2)

Groupless == [Mode({t1}, {"subscribe", "unsubscribe", "assign", "metadata", "close"}, 3) EXCEPT !.group = FALSE]

GrouplessPattern == [Mode({}, {"pattern", "metadata"}, 3) EXCEPT !.group = FALSE]

SafetyModes == {Rebalancing, Committing, Pattern, Manual, ManualCommit, Groupless, GrouplessPattern}

GrouplessLive == [Groupless EXCEPT !.events = @ \ {"close"}, !.max = 2]

Faults == Mode({t1}, {"peer", "evict", "lost"}, 2)

Resubscribing == Mode({t1}, {"subscribe"}, 1)

Idle == Mode({t1}, {"idle", "lost"}, 2)

Closing == Mode({t1}, {"peer", "close", "lost"}, 2)

LiveModes == {Faults, Resubscribing, Idle, Closing, GrouplessLive, GrouplessPattern}

\* commit() by a member of a group that rebalances while the commit is retried.
StaleCommit == {Mode({t1}, {"commit", "peer", "NotCoordinatorForGroup"}, 3)}
=============================================================================

-------------------------- MODULE GroupCoordinator --------------------------
(***************************************************************************)
(* consumer/group_coordinator.py: the coordinator of a consumer, of a      *)
(* member of a group or, without group_id, NoGroupCoordinator.  The tasks  *)
(* of a member are the coordination routine co, the heartbeat task hb, a   *)
(* commit refresh task rt[a] per assignment a, the application (with a     *)
(* pending commit() or close()) and the task of maybe_leave_group.  A step *)
(* is what one task does between two awaits; its code is written as        *)
(* operators on the record m that holds the member's whole state, so that  *)
(* a chain of calls without an await is a composition of operators.        *)
(*                                                                         *)
(* The group at the broker is b.  Requests to it travel on one connection: *)
(* they are handled in order and the answers wait in m.resp until their    *)
(* task resumes.                                                           *)
(*                                                                         *)
(* A mode is the configuration of the consumer and of the broker, and what *)
(* may happen: faults, calls of the application and changes of the group   *)
(* are events, at most max of them, of the kinds in the mode's events.     *)
(***************************************************************************)
EXTENDS SubscriptionState, Integers, TLC

CONSTANTS
    Topics,     \* topics, each standing for its partition
    Modes       \* the modes a behaviour may have

ASSUME GroupAssumption ==
    \A c \in Modes : /\ c.topics \subseteq Topics
                     /\ {c.group, c.autocommit, c.listener, c.kip394} \subseteq BOOLEAN
                     /\ c.assignors \in Nat \ {0} /\ c.max \in Nat

VARIABLES m, b, events, mode

InitialTopics == mode.topics        \* the topics given to the constructor ({}: none)

AutoCommit == mode.autocommit       \* enable_auto_commit

Listener == mode.listener           \* whether a listener with coroutines is given

NumAssignors == mode.assignors      \* the length of partition_assignment_strategy

Kip394 == mode.kip394               \* whether the broker asks for a second JoinGroup

Group == mode.group                 \* whether there is a group_id

dynamic == <<m, b, events>>

vars == <<m, b, events, mode>>

-----------------------------------------------------------------------------
(* Requests and answers                                                    *)

Procs == {"coord", "hb", "user", "leave", "close"}

NoReq == [kind |-> "none", gen |-> 0, mid |-> 0, data |-> {}, ver |-> 0]

NoResp == [err |-> "none", gen |-> 0, mid |-> 0, leader |-> FALSE, data |-> {}]

Resp(err) == [NoResp EXCEPT !.err = err]

\* What makes the client look for the coordinator again.
NotCoordinator == {"GroupCoordinatorNotAvailable", "NotCoordinatorForGroup"}

\* What tells a member that it has to join again.
GroupErrors == {"UnknownMemberId", "IllegalGeneration", "RebalanceInProgress"}

\* The retriable errors among those that a coordinator or a connection gives.
Retriable == NotCoordinator \cup {"GroupLoadInProgress", "lost"}

Request(n, kind, data) ==
    [kind |-> kind, gen |-> n.gen, mid |-> n.mid, data |-> data, ver |-> n.snap]

\* A request sent by task p with a known coordinator.
send_req(n, p, r) == [n EXCEPT !.req[p] = r, !.queue = Append(@, p)]

\* NOTE: a dead coordinator does not force a rejoin.
coordinator_dead(n) == IF n.known THEN [n EXCEPT !.known = FALSE, !.deadFut = TRUE] ELSE n

request_rejoin(n) == [n EXCEPT !.rejoin = TRUE]

reset_generation(n) == [request_rejoin(n) EXCEPT !.gen = 0, !.mid = 0]

\* Task p takes its answer; a failed request marks the coordinator dead.
received(n, p) ==
    LET taken == [n EXCEPT !.req[p] = NoReq, !.resp[p] = NoResp]
    IN  IF n.resp[p].err = "lost" THEN coordinator_dead(taken) ELSE taken

\* A task runs for the first time before anything happens that its creator
\* waits for.
started == m.hb # "new" /\ \A a \in DOMAIN m.rt : m.rt[a].pc # "new"

answered(p) == m.resp[p] # NoResp /\ started

need_rejoin(n) == n.s.subs[n.co.sub].asg = None \/ n.rejoin

at(n, pc) == [n EXCEPT !.co.pc = pc]

-----------------------------------------------------------------------------
(* commit_offsets, run by the coordination routine and by the application  *)

Commit(pc, offs) == [pc |-> pc, offs |-> offs]

commit_at(n, p, pc) == [n EXCEPT !.cm[p].pc = pc]

commit_offsets(n, p, a) == [n EXCEPT !.cm[p] = Commit("start", all_consumed_offsets(n.s, a))]

\* ensure_coordinator_known returns: with a coordinator, or because of close().
coordinator_known(n) == n.known \/ n.closing

release(n) == [n EXCEPT !.lock = "none"]

\* What an answer to an OffsetCommit does besides raising.
commit_answer(n, err) ==
    CASE err \in NotCoordinator -> coordinator_dead(n)
      [] err = "RebalanceInProgress" -> request_rejoin(n)
      [] err \in GroupErrors -> reset_generation(n)
      [] OTHER -> n

\* _do_commit_offsets up to its request: nothing to commit, or no coordinator.
commit_request(n, p) ==
    CASE n.cm[p].offs = {} -> release(commit_at(n, p, "ok"))
      [] n.cm[p].offs # {} /\ ~n.known -> release(commit_at(n, p, "backoff"))
      [] OTHER -> commit_at(send_req(n, p, Request(n, "commit", n.cm[p].offs)), p, "sent")

commit_received(n, p) ==
    LET err == n.resp[p].err
        told == release(commit_answer(received(n, p), err))
    IN  commit_at(told, p, CASE err = "ok" -> "ok"
                             [] err \in Retriable -> "backoff"
                             [] OTHER -> "error")

\* One await of commit_offsets, for p in its place.
CommitStep(p) ==
    /\ \/ /\ m.cm[p].pc = "start" /\ coordinator_known(m)
          /\ m' = commit_at(m, p, "lock")
       \/ /\ m.cm[p].pc = "lock" /\ m.lock = "none"
          /\ m' = [commit_at(m, p, "send") EXCEPT !.lock = p]
       \/ /\ m.cm[p].pc = "send"
          /\ m' = commit_request(m, p)
       \/ /\ m.cm[p].pc = "sent" /\ answered(p)
          /\ m' = commit_received(m, p)
       \/ /\ m.cm[p].pc = "backoff"
          /\ m' = commit_at(m, p, "start")
    /\ UNCHANGED <<b, events>>

-----------------------------------------------------------------------------
(* The coordination routine                                                *)

\* The routine dies of an assertion: the waiters hear of it.
fail(n, why) == [at(n, "failed") EXCEPT !.co.why = why, !.s = abort_waiters(@)]

\* _push_error_to_user: wait until the application takes the error, or close().
push_error(n, pc) == [at(n, pc) EXCEPT !.s = abort_waiters(@), !.pending = TRUE, !.unconsumed = TRUE]

\* The wait at the end of a round, for the futures of this moment.
wait(n) == [at(n, "wait") EXCEPT !.deadFut = ~n.known]

\* After the group is active: the second assertion and _maybe_do_autocommit.
active_group(n) ==
    CASE ~assignment_active(n.s, n.co.asg) -> fail(n, "assignment")
      [] assignment_active(n.s, n.co.asg) /\ AutoCommit /\ n.due -> at(n, "autocommitLock")
      [] OTHER -> wait(n)

\* perform_group_join gave nothing: at once if the subscription changed.
join_failed(n) == IF active(n.s, n.co.sub) THEN at(n, "backoff") ELSE at(n, "loop")

\* Joins with the topics of the first subscription.
MutJoinFirst(n, i) ==
    IF n.known THEN [at(send_req(n, "coord", Request(n, "join", n.s.subs[1].topics)), "join")
                        EXCEPT !.co.assignor = i]
    ELSE join_failed(n)

\* A JoinGroup for assignor number i; without a coordinator it fails at once.
send_join_group(n, i) ==
    IF n.known THEN [at(send_req(n, "coord", Request(n, "join", n.s.subs[n.co.sub].topics)), "join")
                        EXCEPT !.co.assignor = i]
    ELSE join_failed(n)

\* No rejoin of an idle consumer; otherwise one attempt.
rejoin_group(n) == IF n.co.asg # None /\ n.idle THEN at(n, "backoff") ELSE send_join_group(n, 1)

\* A running heartbeat is cancelled; before its first step and inside of
\* _maybe_leave_group it does not catch the CancelledError.
cancel_heartbeat(n) == [n EXCEPT !.hb = IF @ \in {"new", "leave"} THEN "cancelled" ELSE "ended"]

heartbeat_running(n) == n.hb \in {"new", "sleep", "lookup", "sent", "leave"}

stop_heartbeat(n) ==
    IF heartbeat_running(n) THEN at(cancel_heartbeat(n), "stopHb")
    ELSE rejoin_group([n EXCEPT !.hb = "none"])

\* on_partitions_revoked is over.
join_prepared(n) == stop_heartbeat([n EXCEPT !.prepared = TRUE])

\* The listener of now is told the partitions of the previous assignment.
on_partitions_revoked(n) ==
    IF Listener
    THEN [at(n, "revoked") EXCEPT !.told = [name |-> "revoked",
             tps |-> IF n.co.asg = None THEN {} ELSE n.s.asgs[n.co.asg].tps]]
    ELSE join_prepared(n)

\* Prepares again in every attempt of one rebalance.
MutPrepareAgain(n) ==
    LET reassigning == [n EXCEPT !.s = begin_reassignment(@), !.groupSubscription = FALSE]
    IN  CASE n.s.cur # None /\ n.s.subs[n.s.cur].manual -> fail(n, "reassign")
          [] ~(n.s.cur # None /\ n.s.subs[n.s.cur].manual) /\ n.co.asg # None /\ AutoCommit ->
               at(commit_offsets(reassigning, "coord", n.co.asg), "lastCommit")
          [] OTHER -> on_partitions_revoked(reassigning)

\* _on_join_prepare up to the last autocommit.
join_prepare(n) ==
    LET reassigning == [n EXCEPT !.s = begin_reassignment(@), !.groupSubscription = FALSE]
    IN  CASE n.prepared -> stop_heartbeat(n)
          [] ~n.prepared /\ n.s.cur # None /\ n.s.subs[n.s.cur].manual -> fail(n, "reassign")
          [] ~n.prepared /\ ~(n.s.cur # None /\ n.s.subs[n.s.cur].manual)
             /\ n.co.asg # None /\ AutoCommit ->
               at(commit_offsets(reassigning, "coord", n.co.asg), "lastCommit")
          [] OTHER -> on_partitions_revoked(reassigning)

ensure_active_group(n) == IF n.s.pattern THEN at(n, "metadata") ELSE join_prepare(n)

\* The coordinator is known.
coordinator_found(n) ==
    IF n.co.auto /\ need_rejoin(n) THEN ensure_active_group(n)
    ELSE active_group([n EXCEPT !.co.asg = n.s.subs[n.co.sub].asg])

\* The first assertion, and ensure_coordinator_known.
with_subscription(n) ==
    LET auto == [n EXCEPT !.co.auto = partitions_auto_assigned(n.s)]
    IN  CASE ~active(n.s, n.co.sub) -> fail(n, "subscription")
          [] active(n.s, n.co.sub) /\ n.known -> coordinator_found(auto)
          [] OTHER -> at(auto, "lookup")

finalize(n) ==
    IF n.co.asg # None /\ AutoCommit THEN at(commit_offsets(n, "coord", n.co.asg), "finalCommit")
    ELSE at(n, "done")

\* The top of the loop.
coordination_loop(n) ==
    LET changed == n.co.sub # None /\ ~active(n.s, n.co.sub)
        seen == IF changed THEN [request_rejoin(n) EXCEPT !.co.sub = n.s.cur] ELSE n
    IN  CASE n.closing -> finalize(n)
          [] ~n.closing /\ seen.co.sub = None ->
               [at(seen, "waitSubscription") EXCEPT !.s = wait_for_subscription(@)]
          [] OTHER -> with_subscription(seen)

-----------------------------------------------------------------------------
(* Joining                                                                 *)

\* The rejoin future is reset before the SyncGroup, so that what happens from
\* here on asks for another rejoin.
send_sync_group(n) ==
    LET reset == [n EXCEPT !.rejoin = FALSE, !.co.gen = n.gen, !.co.mid = n.mid]
    IN  IF n.known THEN at(send_req(reset, "coord", Request(n, "sync", {})), "sync")
        ELSE join_failed(request_rejoin(reset))

\* The answer to the last JoinGroup.
join_answer(n, r) ==
    CASE r.err = "ok" ->
           LET joined == [n EXCEPT !.gen = r.gen, !.mid = r.mid]
           IN  IF r.leader THEN [at(joined, "assign") EXCEPT !.groupSubscription = TRUE]
               ELSE send_sync_group(joined)
      [] r.err \in {"lost", "GroupLoadInProgress"} -> join_failed(n)
      [] r.err = "UnknownMemberId" -> join_failed(reset_generation(n))
      [] r.err \in NotCoordinator -> join_failed(coordinator_dead(n))
      [] OTHER -> push_error(n, "error")

\* Every assignor sends a JoinGroup of its own, and only the answer to the
\* last one counts.
join_received(n) ==
    LET r == n.resp["coord"]
        taken == received(n, "coord")
    IN  CASE r.err = "lost" -> join_failed(taken)
          [] r.err # "lost" /\ ~active(n.s, n.co.sub) -> at(taken, "loop")
          [] r.err = "MemberIdRequired" /\ active(n.s, n.co.sub) ->
               send_join_group([taken EXCEPT !.mid = r.mid], n.co.assignor)
          [] r.err \notin {"lost", "MemberIdRequired"} /\ active(n.s, n.co.sub)
             /\ n.co.assignor < NumAssignors -> send_join_group(taken, n.co.assignor + 1)
          [] OTHER -> join_answer(taken, r)

\* _perform_assignment after the metadata: the snapshot it worked from.
perform_assignment(n) == send_sync_group([n EXCEPT !.snap = n.md])

\* _start_heartbeat_task and the return to the routine.
rejoined(n) ==
    LET a == n.s.subs[n.co.sub].asg
        beating == [n EXCEPT !.prepared = FALSE,
                             !.hb = IF @ = "none" THEN "new" ELSE @,
                             !.resp["hb"] = NoResp]
    IN  IF assignment_active(n.s, a) THEN active_group([beating EXCEPT !.co.asg = a])
        ELSE at(beating, "loop")

rt_at(n, a, pc) == [n EXCEPT !.rt[a].pc = pc]

refresh_running(n, a) == a # None /\ n.rt[a].pc \in {"new", "run", "sent", "wait", "backoff"}

\* As with the heartbeat, a task that did not start does not catch it.
cancel_refresh(n, a) == rt_at(n, a, IF n.rt[a].pc = "new" THEN "cancelled" ELSE "ended")

\* A task that still runs is cancelled; nobody waits for it.
start_commit_offsets_refresh_task(n, a) ==
    LET old == n.refreshTask
        stopped == IF refresh_running(n, old) THEN cancel_refresh(n, old) ELSE n
    IN  [stopped EXCEPT !.rt = (a :> [pc |-> "new", need |-> {}]) @@ @, !.refreshTask = a]

on_partitions_assigned(n) ==
    LET refreshing == start_commit_offsets_refresh_task([n EXCEPT !.refreshTask = None], n.s.subs[n.co.sub].asg)
    IN  IF Listener THEN [at(refreshing, "assigned")
                             EXCEPT !.told = [name |-> "assigned", tps |-> assigned_partitions(n.s)]]
        ELSE rejoined(refreshing)

\* _on_join_complete up to the await of a cancelled refresh task.
join_complete(n, tps) ==
    LET assigned == [n EXCEPT !.s = assign_from_subscribed(@, tps)]
    IN  CASE ~(tps \subseteq n.s.subs[n.s.cur].topics) -> fail(n, "unsubscribed topic")
          [] tps \subseteq n.s.subs[n.s.cur].topics /\ refresh_running(n, n.refreshTask) ->
               at(cancel_refresh(assigned, n.refreshTask), "stopRefresh")
          [] OTHER -> on_partitions_assigned(assigned)

\* Applies an answer whatever happened to the subscription.
MutSyncUnchecked(n) ==
    LET r == n.resp["coord"]
        taken == received(n, "coord")
        again == request_rejoin(taken)
    IN  CASE r.err = "ok" -> join_complete([taken EXCEPT !.gen = n.co.gen, !.mid = n.co.mid], r.data)
          [] r.err \in NotCoordinator -> join_failed(coordinator_dead(again))
          [] OTHER -> join_failed(again)

\* Leaves the rejoin future reset when the SyncGroup fails.
MutSyncForgets(n) ==
    LET r == n.resp["coord"]
        taken == received(n, "coord")
    IN  CASE r.err = "ok" ->
               LET synced == [taken EXCEPT !.gen = n.co.gen, !.mid = n.co.mid]
               IN  IF active(n.s, n.co.sub) THEN join_complete(synced, r.data) ELSE at(synced, "loop")
          [] r.err \in {"UnknownMemberId", "IllegalGeneration"} -> join_failed(reset_generation(taken))
          [] r.err \in NotCoordinator -> join_failed(coordinator_dead(taken))
          [] OTHER -> join_failed(taken)

\* A successful answer restores the generation the request was sent with.
sync_received(n) ==
    LET r == n.resp["coord"]
        taken == received(n, "coord")
        again == request_rejoin(taken)
    IN  CASE r.err = "ok" ->
               LET synced == [taken EXCEPT !.gen = n.co.gen, !.mid = n.co.mid]
               IN  IF active(n.s, n.co.sub) THEN join_complete(synced, r.data) ELSE at(synced, "loop")
          [] r.err \in {"lost", "RebalanceInProgress"} -> join_failed(again)
          [] r.err \in {"UnknownMemberId", "IllegalGeneration"} -> join_failed(reset_generation(again))
          [] r.err \in NotCoordinator -> join_failed(coordinator_dead(again))
          [] OTHER -> push_error(again, "error")

\* The answer to an autocommit, which is not retried here.
autocommit_received(n) ==
    LET err == n.resp["coord"].err
        told == release(commit_answer(received(n, "coord"), err))
    IN  IF err \in Retriable \cup GroupErrors \cup {"ok"} THEN wait([told EXCEPT !.due = FALSE])
        ELSE push_error(told, "error")

\* _do_commit_offsets of an autocommit, under the lock.
autocommit(n) ==
    LET offs == all_consumed_offsets(n.s, n.co.asg)
    IN  IF offs = {} \/ ~n.known THEN wait([n EXCEPT !.due = FALSE])
        ELSE [at(send_req(n, "coord", Request(n, "commit", offs)), "autocommit") EXCEPT !.lock = "coord"]


\* Whether a future of the wait is done.
woken(n) ==
    \/ n.closing \/ n.deadFut \/ ~active(n.s, n.co.sub)
    \/ n.co.auto /\ n.rejoin
    \/ n.hb \in {"ended", "failed", "cancelled"}
    \/ n.refreshTask # None /\ ~refresh_running(n, n.refreshTask)
    \/ AutoCommit /\ n.due

refresh_failed(n) == n.refreshTask # None /\ n.rt[n.refreshTask].pc = "failed"

\* The exceptions of the other tasks, after the wait.
after_wait(n) ==
    CASE n.hb = "failed" -> push_error(n, "errorHb")
      [] n.hb # "failed" /\ refresh_failed(n) -> push_error(n, "error")
      [] OTHER -> at(n, "loop")

\* Assigns only once per subscription.
MutAssignOnce(n) ==
    LET tps == n.s.subs[n.s.cur].topics \cap n.match
    IN  IF assignment(n.s) = None THEN [n EXCEPT !.s = assign_from_subscribed(@, tps)] ELSE n

\* NoGroupCoordinator.assign_all_partitions, of the topics in the metadata.
assign_all_partitions(n) ==
    LET tps == n.s.subs[n.s.cur].topics \cap n.match
    IN  IF assignment(n.s) = None \/ assigned_partitions(n.s) # tps
        THEN [n EXCEPT !.s = assign_from_subscribed(@, tps)] ELSE n

\* _get_metadata_snapshot: the number of partitions of each topic subscribed to.
get_metadata_snapshot(n) ==
    [topic \in n.s.subs[n.s.cur].topics |-> IF topic \in n.match THEN 1 ELSE 0]

NoSnapshot == [topic \in {} |-> 0]

\* The topics that match the pattern replace the subscription.
match_pattern(n) ==
    IF n.s.pattern /\ (IF n.s.cur = None THEN TRUE ELSE n.s.subs[n.s.cur].topics # n.match)
    THEN [n EXCEPT !.s = subscribe_from_pattern(@, n.match)] ELSE n

\* The leader takes note of the change and does not ask for a rebalance.
MutNoted(n) ==
    LET matched == match_pattern(n)
        auto == partitions_auto_assigned(matched.s)
    IN  CASE Group /\ auto /\ n.groupSubscription /\ n.snap # n.md -> [matched EXCEPT !.snap = n.md]
          [] ~Group /\ auto /\ n.counts # get_metadata_snapshot(matched) ->
               [assign_all_partitions(matched) EXCEPT !.counts = get_metadata_snapshot(matched)]
          [] OTHER -> matched

\* BaseCoordinator._handle_metadata_update, with both _on_metadata_change.
handle_metadata_update(n) ==
    LET matched == match_pattern(n)
        auto == partitions_auto_assigned(matched.s)
    IN  CASE Group /\ auto /\ n.groupSubscription /\ n.snap # n.md ->
               [request_rejoin(matched) EXCEPT !.snap = n.md]
          [] ~Group /\ auto /\ n.counts # get_metadata_snapshot(matched) ->
               [assign_all_partitions(matched) EXCEPT !.counts = get_metadata_snapshot(matched)]
          [] OTHER -> matched

commit_over == m.cm["coord"].pc \in {"ok", "error"}

forget_commit(n) == [n EXCEPT !.cm["coord"] = Commit("none", {})]

consumed(n) == ~n.unconsumed \/ n.closing

\* The rounds of the routine outside of a rebalance.
CoordinationRound ==
    /\ \/ m.co.pc = "loop" /\ m' = coordination_loop(m)
       \/ /\ m.co.pc = "waitSubscription"
          /\ m.closing \/ m.s.subWaiter = "done"
          /\ LET n == [m EXCEPT !.s.subWaiter = "none"]
             IN  m' = IF m.closing THEN finalize(n) ELSE with_subscription([n EXCEPT !.co.sub = n.s.cur])
       \/ m.co.pc = "lookup" /\ coordinator_known(m) /\ m' = coordinator_found(m)
       \/ m.co.pc = "autocommitLock" /\ m.lock = "none" /\ m' = autocommit(m)
       \/ m.co.pc = "autocommit" /\ answered("coord") /\ m' = autocommit_received(m)
       \/ m.co.pc = "wait" /\ woken(m) /\ started /\ m' = after_wait(m)
       \/ /\ m.co.pc = "errorHb" /\ consumed(m)
          /\ m' = IF refresh_failed(m) THEN push_error(m, "error") ELSE at(m, "loop")
       \/ m.co.pc = "error" /\ consumed(m) /\ m' = at(m, "loop")
       \/ m.co.pc = "finalCommit" /\ commit_over /\ m' = at(forget_commit(m), "done")
    /\ UNCHANGED <<b, events>>

\* The steps of ensure_active_group.
CoordinationRejoin ==
    /\ \/ /\ m.co.pc = "metadata" /\ started
          /\ LET n == handle_metadata_update(m)
             IN  m' = IF active(n.s, n.co.sub) THEN join_prepare(n) ELSE at(n, "loop")
       \/ m.co.pc = "lastCommit" /\ commit_over /\ m' = on_partitions_revoked(forget_commit(m))
       \/ m.co.pc = "revoked" /\ m' = join_prepared(m)
       \/ /\ m.co.pc = "stopHb"
          /\ m' = IF m.hb = "cancelled" THEN at(m, "cancelled")
                  ELSE rejoin_group([m EXCEPT !.hb = "none"])
       \/ m.co.pc = "backoff" /\ started /\ m' = at(m, "loop")
       \/ m.co.pc = "join" /\ answered("coord") /\ m' = join_received(m)
       \/ m.co.pc = "assign" /\ m' = perform_assignment(m)
       \/ m.co.pc = "sync" /\ answered("coord") /\ m' = sync_received(m)
       \/ /\ m.co.pc = "stopRefresh"
          /\ m' = IF m.rt[m.refreshTask].pc = "cancelled" THEN at(m, "cancelled") ELSE on_partitions_assigned(m)
       \/ m.co.pc = "assigned" /\ m' = rejoined(m)
    /\ UNCHANGED <<b, events>>

-----------------------------------------------------------------------------
(* The heartbeat, leaving, and the refresh of committed offsets            *)

\* _maybe_leave_group by task p: to its request, or straight to its end.
leaves(n) == n.gen > 0 /\ n.known

hb_at(n, pc) == [n EXCEPT !.hb = pc]

\* The loop goes on as long as the member has an id.
hb_loop(n) == hb_at(n, IF n.mid = 0 THEN "ended" ELSE "sleep")

\* After a heartbeat: the session may have expired, and the consumer be idle.
hb_after(n, expired) ==
    LET seen == IF expired THEN coordinator_dead(n) ELSE n
    IN  CASE ~n.idle -> hb_loop(seen)
          [] n.idle /\ leaves(seen) -> hb_at(send_req(seen, "hb", Request(seen, "leave", {})), "leave")
          [] OTHER -> hb_loop(reset_generation(seen))

\* A rebalance of the group is ignored.
MutHeartbeatIgnores(n, err, expired) ==
    CASE err \in {"ok", "RebalanceInProgress"} -> hb_after(n, FALSE)
      [] err = "lost" -> hb_after(n, expired)
      [] err \in NotCoordinator -> hb_after(coordinator_dead(n), expired)
      [] err \in GroupErrors \ {"RebalanceInProgress"} -> hb_after(reset_generation(n), expired)
      [] OTHER -> hb_at(n, "failed")

do_heartbeat(n, err, expired) ==
    CASE err = "ok" -> hb_after(n, FALSE)
      [] err = "RebalanceInProgress" -> hb_after(request_rejoin(n), FALSE)
      [] err = "lost" -> hb_after(n, expired)
      [] err \in NotCoordinator -> hb_after(coordinator_dead(n), expired)
      [] err \in GroupErrors \ {"RebalanceInProgress"} -> hb_after(reset_generation(n), expired)
      [] OTHER -> hb_at(n, "failed")

HeartbeatStep ==
    /\ \/ m.hb = "new" /\ m' = hb_loop(m)
       \/ m.hb = "sleep" /\ m' = hb_at(m, "lookup")
       \/ /\ m.hb = "lookup" /\ coordinator_known(m)
          /\ \E expired \in BOOLEAN :
               m' = IF m.known THEN hb_at(send_req(m, "hb", Request(m, "heartbeat", {})), "sent")
                    ELSE hb_after(m, expired)
       \/ /\ m.hb = "sent" /\ answered("hb")
          /\ \E expired \in BOOLEAN : m' = do_heartbeat(received(m, "hb"), m.resp["hb"].err, expired)
       \/ m.hb = "leave" /\ answered("hb") /\ m' = hb_loop(reset_generation(received(m, "hb")))
    /\ UNCHANGED <<b, events>>

\* The task of maybe_leave_group, started by unsubscribe().
LeaveStep ==
    /\ \/ /\ m.leave = "start"
          /\ m' = IF leaves(m)
                  THEN [send_req(m, "leave", Request(m, "leave", {})) EXCEPT !.leave = "sent"]
                  ELSE [reset_generation(m) EXCEPT !.leave = "none"]
       \/ /\ m.leave = "sent" /\ answered("leave")
          /\ m' = [reset_generation(received(m, "leave")) EXCEPT !.leave = "none"]
    /\ UNCHANGED <<b, events>>

\* The event is cleared before the requests are read.
refresh(n, a) ==
    LET cleared == [n EXCEPT !.s.asgs[a].refresh = FALSE, !.rt[a].need = n.s.asgs[a].requesting]
    IN  CASE ~assignment_active(n.s, a) -> rt_at(n, a, "ended")
          [] assignment_active(n.s, a) /\ n.s.asgs[a].requesting = {} -> rt_at(cleared, a, "wait")
          [] OTHER -> rt_at(cleared, a, IF n.known THEN "sent" ELSE "backoff")

\* The event is cleared once the request is over.
MutRefreshClears(n, a, err) ==
    CASE err = "ok" -> [rt_at(n, a, "wait") EXCEPT
                          !.s = [update_committed(@, a, n.rt[a].need) EXCEPT !.asgs[a].refresh = FALSE]]
      [] err \in {"lost"} \cup NotCoordinator -> rt_at(coordinator_dead(n), a, "backoff")
      [] err = "GroupLoadInProgress" -> rt_at(n, a, "backoff")
      [] OTHER -> [rt_at(n, a, "failed") EXCEPT !.s.asgs[a].refresh = TRUE]

\* OffsetFetch changes nothing at the broker, and its answer does not depend on
\* the state of the group.
refresh_answer(n, a, err) ==
    CASE err = "ok" -> [rt_at(n, a, "wait") EXCEPT !.s = update_committed(@, a, n.rt[a].need)]
      [] err \in {"lost"} \cup NotCoordinator -> rt_at(coordinator_dead(n), a, "backoff")
      [] err = "GroupLoadInProgress" -> rt_at(n, a, "backoff")
      [] OTHER -> [rt_at(n, a, "failed") EXCEPT !.s.asgs[a].refresh = TRUE]

\* _commit_refresh_routine, between two awaits.
RefreshStep(a) ==
    /\ \/ m.rt[a].pc \in {"new", "run"} /\ m' = refresh(m, a)
       \/ /\ m.rt[a].pc = "wait"
          /\ m.s.asgs[a].refresh \/ ~assignment_active(m.s, a)
          /\ m' = rt_at(m, a, "run")
       \/ m.rt[a].pc = "backoff" /\ m' = rt_at(m, a, "run")
       \/ m.rt[a].pc = "sent" /\ m' = refresh_answer(m, a, "ok")
    /\ UNCHANGED <<b, events>>

\* One round of NoGroupCoordinator._reset_committed_routine, to its wait.
reset_committed(n) ==
    LET a == assignment(n.s)
        waits(pc) == [pc |-> pc, asg |-> a]
    IN  CASE n.s.cur = None -> [n EXCEPT !.s = wait_for_subscription(@), !.reset = waits("subscription")]
          [] n.s.cur # None /\ a = None ->
               [n EXCEPT !.s = wait_for_assignment(@), !.reset = waits("assignment")]
          [] OTHER -> [n EXCEPT !.s = [update_committed(@, a, n.s.asgs[a].requesting) EXCEPT !.asgs[a].refresh = FALSE],
                                !.reset = waits("event")]

\* What the routine waits for has happened.
reset_woken(n) ==
    CASE n.reset.pc = "new" -> TRUE
      [] n.reset.pc = "subscription" -> n.s.subWaiter = "done"
      [] n.reset.pc = "assignment" -> n.s.asgWaiter = "done"
      [] n.reset.pc = "event" -> ~assignment_active(n.s, n.reset.asg) \/ n.s.asgs[n.reset.asg].refresh
      [] OTHER -> FALSE

ResetCommitted ==
    /\ reset_woken(m)
    /\ m' = reset_committed(m)
    /\ UNCHANGED <<b, events>>

-----------------------------------------------------------------------------
(* The application                                                         *)

\* An event of the given kind, while the consumer is not closing.
Event(kind) == kind \in mode.events /\ events < mode.max /\ events' = events + 1

Subscribe ==
    /\ ~m.closing /\ Event("subscribe") /\ type_allowed(m.s, "AUTO_TOPICS")
    /\ \E topics \in SUBSET Topics \ {{}} :
         m' = [m EXCEPT !.s = subscribe(@, topics), !.counts = IF Group THEN @ ELSE NoSnapshot]
    /\ UNCHANGED b

SubscribePattern ==
    /\ ~m.closing /\ Event("pattern") /\ type_allowed(m.s, "AUTO_PATTERN")
    /\ m' = [m EXCEPT !.s = subscribe_pattern(@)]
    /\ UNCHANGED b

Assign ==
    /\ ~m.closing /\ Event("assign") /\ type_allowed(m.s, "USER_ASSIGNED")
    /\ \E tps \in SUBSET Topics \ {{}} :
         LET n == [m EXCEPT !.s = assign_from_user(@, tps)]
         IN  m' = IF Group THEN start_commit_offsets_refresh_task(n, Len(m.s.asgs) + 1) ELSE n
    /\ UNCHANGED b

Unsubscribe ==
    /\ ~m.closing /\ Event("unsubscribe") /\ m.leave = "none"
    /\ m' = [m EXCEPT !.s = unsubscribe(@), !.leave = IF Group THEN "start" ELSE "none"]
    /\ UNCHANGED b

\* consumer.commit() of the offsets consumed so far.
UserCommit ==
    /\ Group /\ ~m.closing /\ m.cm["user"].pc = "none" /\ Event("commit")
    /\ assignment(m.s) # None
    /\ m' = commit_offsets(m, "user", assignment(m.s))
    /\ UNCHANGED b

UserCommitted ==
    /\ m.cm["user"].pc \in {"ok", "error"}
    /\ m' = [m EXCEPT !.cm["user"] = Commit("none", {})]
    /\ UNCHANGED <<b, events>>

alive(n) == n.co.pc \notin {"done", "failed", "cancelled"}

\* check_errors() of getone() and getmany().
check_errors(n) == [n EXCEPT !.unconsumed = FALSE, !.pending = FALSE]

Poll ==
    /\ ~m.closing
    /\ m.unconsumed \/ m.pending \/ m.idle
    /\ m' = [check_errors(m) EXCEPT !.idle = FALSE]
    /\ UNCHANGED <<b, events>>

\* getone() without an error, during a reassignment.
AwaitAssignment ==
    /\ Group /\ ~m.closing /\ "await" \in mode.events /\ alive(m) /\ ~m.pending /\ ~m.unconsumed
    /\ reassignment_in_progress(m.s) /\ m.s.asgWaiter = "none"
    /\ m' = [m EXCEPT !.s = wait_for_assignment(@)]
    /\ UNCHANGED <<b, events>>

AssignmentAwaited ==
    /\ Group /\ m.s.asgWaiter \in {"done", "error"}
    /\ m' = [m EXCEPT !.s.asgWaiter = "none"]
    /\ UNCHANGED <<b, events>>

\* The application stops polling for max_poll_interval_ms.
GoIdle ==
    /\ Group /\ ~m.closing /\ ~m.idle /\ Event("idle")
    /\ m' = [m EXCEPT !.idle = TRUE]
    /\ UNCHANGED b

\* The fetcher asks for the committed offset of a partition without a position.
FetchCommitted ==
    /\ ~m.closing /\ assignment(m.s) # None
    /\ LET a == assignment(m.s)
       IN  \E tp \in m.s.asgs[a].tps \ (m.s.asgs[a].valid \cup m.s.asgs[a].requesting) :
             m' = [m EXCEPT !.s = fetch_committed(@, a, tp)]
    /\ UNCHANGED <<b, events>>

AutoCommitDue ==
    /\ Group /\ AutoCommit /\ ~m.due /\ ~m.closing
    /\ m' = [m EXCEPT !.due = TRUE]
    /\ UNCHANGED <<b, events>>

Stop ==
    /\ ~m.closing /\ Event("close")
    /\ m' = [m EXCEPT !.closing = TRUE, !.close = CASE ~Group -> "reset"
                                                    [] Group /\ alive(m) -> "routine"
                                                    [] OTHER -> "heartbeat"]
    /\ UNCHANGED b

close_at(n, pc) == [n EXCEPT !.close = pc]

\* close(): the routine, the heartbeat, the refresh task, then the group.
CloseStep ==
    /\ \/ /\ m.close = "reset"
          /\ m' = close_at([m EXCEPT !.reset.pc = "cancelled"],
                          IF m.reset.pc = "new" THEN "raised" ELSE "closed")
       \/ /\ m.close = "routine" /\ ~alive(m)
          /\ m' = close_at(m, IF m.co.pc = "done" THEN "heartbeat" ELSE "raised")
       \/ /\ m.close = "heartbeat"
          /\ m' = IF heartbeat_running(m) THEN close_at(cancel_heartbeat(m), "cancelling")
                  ELSE close_at(hb_at(m, "none"), "refresh")
       \/ /\ m.close = "cancelling"
          /\ m' = IF m.hb = "cancelled" THEN close_at(m, "raised") ELSE close_at(hb_at(m, "none"), "refresh")
       \/ /\ m.close = "refresh"
          /\ LET a == m.refreshTask
             IN  m' = IF refresh_running(m, a) THEN close_at(cancel_refresh(m, a), "stopRefresh")
                      ELSE close_at([m EXCEPT !.refreshTask = None], "leave")
       \/ /\ m.close = "stopRefresh"
          /\ m' = IF m.rt[m.refreshTask].pc = "cancelled" THEN close_at(m, "raised")
                  ELSE close_at([m EXCEPT !.refreshTask = None], "leave")
       \/ /\ m.close = "leave"
          /\ m' = IF leaves(m) THEN close_at(send_req(m, "close", Request(m, "leave", {})), "sent")
                  ELSE close_at(reset_generation(m), "closed")
       \/ /\ m.close = "sent" /\ answered("close")
          /\ m' = close_at(reset_generation(received(m, "close")), "closed")
    /\ UNCHANGED <<b, events>>

-----------------------------------------------------------------------------
(* The cluster                                                             *)

\* Who waits in ensure_coordinator_known.
looking(n) == {p \in {"coord", "hb", "lastCommit", "user"} :
                 \/ p = "coord" /\ n.co.pc = "lookup"
                 \/ p = "hb" /\ n.hb = "lookup"
                 \/ p = "lastCommit" /\ n.cm["coord"].pc = "start"
                 \/ p = "user" /\ n.cm["user"].pc = "start"}

CoordinatorLookup ==
    /\ ~m.known /\ ~m.closing /\ looking(m) # {} /\ started
    /\ m' = [m EXCEPT !.known = TRUE]
    /\ UNCHANGED <<b, events>>

\* The lookup of one of them raises an error that is not retriable.
LookupFailed ==
    /\ ~m.known /\ ~m.closing /\ Event("lookup")
    /\ \E p \in looking(m) :
         m' = CASE p = "coord" -> push_error(m, "error")
                [] p = "hb" -> hb_at(m, "failed")
                [] p = "lastCommit" -> commit_at(m, "coord", "error")
                [] p = "user" -> commit_at(m, "user", "error")
    /\ UNCHANGED b

\* The periodic refresh of the metadata, when it brings something.
MetadataRefresh ==
    /\ handle_metadata_update(m) # m
    /\ m' = handle_metadata_update(m)
    /\ UNCHANGED <<b, events>>

\* The number of partitions, or the topics that match the pattern, change.
MetadataChange ==
    /\ Event("metadata")
    /\ \E match \in SUBSET Topics \ {{}} :
         m' = handle_metadata_update([m EXCEPT !.md = @ + 1, !.match = match])
    /\ UNCHANGED b

\* The assignor of the leader raises.
AssignorFails ==
    /\ m.co.pc = "assign" /\ Event("assignor")
    /\ m' = push_error(m, "error")
    /\ UNCHANGED b

\* The connection to the coordinator breaks: every request on it fails.
ConnectionLost ==
    /\ m.queue # <<>> /\ Event("lost")
    /\ m' = [m EXCEPT !.queue = <<>>,
                      !.resp = [p \in Procs |-> IF \E i \in DOMAIN m.queue : m.queue[i] = p
                                                THEN Resp("lost") ELSE @[p]]]
    /\ UNCHANGED b

\* The errors with which a coordinator refuses any request, as events.
Refusals == {"NotCoordinatorForGroup", "GroupLoadInProgress", "GroupAuthorizationFailed"} \cap mode.events

RefreshRefused(a) ==
    /\ m.rt[a].pc = "sent"
    /\ \E err \in Refusals : Event(err) /\ m' = refresh_answer(m, a, err)
    /\ UNCHANGED b

known_member(r) == r.mid \in b.members

\* The member joins under the given id: a new generation begins.
GroupJoin(id, r, leader) ==
    [b |-> [b EXCEPT !.gen = @ + 1, !.phase = "Completing", !.members = @ \cup {id},
                     !.offered = @ \ {id}, !.topics = r.data],
     resp |-> [Resp("ok") EXCEPT !.gen = b.gen + 1, !.mid = id, !.leader = leader]]

Refuse(err) == [b |-> b, resp |-> Resp(err)]

\* With nobody else in the group the member is its leader and gets everything.
JoinAnswers(r) ==
    LET leaders == IF b.peer THEN BOOLEAN ELSE {TRUE}
        new == b.ids + 1
    IN  CASE r.mid = 0 /\ Kip394 ->
               {[b |-> [b EXCEPT !.ids = new, !.offered = @ \cup {new}],
                 resp |-> [Resp("MemberIdRequired") EXCEPT !.mid = new]]}
          [] r.mid = 0 /\ ~Kip394 ->
               {[a EXCEPT !.b.ids = new] : a \in {GroupJoin(new, r, leader) : leader \in leaders}}
          [] r.mid \in b.members \cup b.offered -> {GroupJoin(r.mid, r, leader) : leader \in leaders}
          [] OTHER -> {Refuse("UnknownMemberId")}

SyncAnswers(r) ==
    CASE ~known_member(r) -> {Refuse("UnknownMemberId")}
      [] known_member(r) /\ r.gen # b.gen -> {Refuse("IllegalGeneration")}
      [] known_member(r) /\ r.gen = b.gen /\ b.phase = "Preparing" -> {Refuse("RebalanceInProgress")}
      [] OTHER -> {[b |-> [b EXCEPT !.phase = "Stable", !.asg = tps, !.ver = r.ver],
                    resp |-> [Resp("ok") EXCEPT !.data = tps]] :
                     tps \in IF b.peer THEN SUBSET b.topics ELSE {b.topics}}

HeartbeatAnswers(r) ==
    CASE ~known_member(r) -> {Refuse("UnknownMemberId")}
      [] known_member(r) /\ r.gen # b.gen -> {Refuse("IllegalGeneration")}
      [] known_member(r) /\ r.gen = b.gen /\ b.phase # "Stable" -> {Refuse("RebalanceInProgress")}
      [] OTHER -> {Refuse("ok")}

LeaveAnswers(r) ==
    {[b |-> [b EXCEPT !.members = @ \ {r.mid},
                      !.phase = IF known_member(r) THEN "Preparing" ELSE @],
      resp |-> Resp(IF known_member(r) THEN "ok" ELSE "UnknownMemberId")]}

\* A commit outside of a group is taken as long as the group has no members.
CommitAnswers(r) ==
    LET accepted(owned) == {[b |-> [b EXCEPT !.commit = [offs |-> r.data, owned |-> owned]],
                             resp |-> Resp("ok")]}
    IN  CASE r.mid = 0 /\ b.members = {} /\ ~b.peer -> accepted(r.data)
          [] ~known_member(r) /\ ~(r.mid = 0 /\ b.members = {} /\ ~b.peer) -> {Refuse("UnknownMemberId")}
          [] known_member(r) /\ r.gen # b.gen -> {Refuse("IllegalGeneration")}
          [] known_member(r) /\ r.gen = b.gen /\ b.phase = "Completing" -> {Refuse("RebalanceInProgress")}
          [] OTHER -> accepted(b.asg)

Answers(r) ==
    CASE r.kind = "join" -> JoinAnswers(r)
      [] r.kind = "sync" -> SyncAnswers(r)
      [] r.kind = "heartbeat" -> HeartbeatAnswers(r)
      [] r.kind = "leave" -> LeaveAnswers(r)
      [] r.kind = "commit" -> CommitAnswers(r)

answer(resp) == [m EXCEPT !.queue = Tail(@), !.resp[Head(m.queue)] = resp]

\* The coordinator handles the next request, or refuses it.
CoordinatorAnswers ==
    /\ m.queue # <<>>
    /\ \E a \in Answers(m.req[Head(m.queue)]) : b' = a.b /\ m' = answer(a.resp)
    /\ UNCHANGED events

CoordinatorRefuses ==
    /\ m.queue # <<>> /\ m.req[Head(m.queue)].kind # "leave"
    /\ \E err \in Refusals : Event(err) /\ m' = answer(Resp(err))
    /\ UNCHANGED b

\* Another member joins or leaves the group.
PeerChange ==
    /\ Event("peer")
    /\ b' = [b EXCEPT !.peer = ~@, !.phase = IF b.members = {} THEN @ ELSE "Preparing"]
    /\ UNCHANGED m

\* The session of a member expires at the coordinator.
Evict ==
    /\ Event("evict")
    /\ \E id \in b.members : b' = [b EXCEPT !.members = @ \ {id}, !.phase = "Preparing"]
    /\ UNCHANGED m

-----------------------------------------------------------------------------
(* The specification                                                       *)

Init ==
    /\ mode \in Modes
    /\ m = [s |-> CASE InitialTopics = {} -> InitialState
                    [] InitialTopics # {} /\ Group -> subscribe(InitialState, InitialTopics)
                    [] OTHER -> assign_from_subscribed(subscribe(InitialState, InitialTopics), InitialTopics),
            counts |-> IF Group THEN NoSnapshot ELSE [topic \in InitialTopics |-> 1],
            reset |-> [pc |-> IF Group THEN "none" ELSE "new", asg |-> None],
            gen |-> 0, mid |-> 0, known |-> FALSE, deadFut |-> FALSE, rejoin |-> FALSE,
            prepared |-> FALSE, groupSubscription |-> FALSE, snap |-> 0, md |-> 0, match |-> Topics,
            due |-> FALSE, idle |-> FALSE, closing |-> FALSE, pending |-> FALSE, unconsumed |-> FALSE,
            lock |-> "none", told |-> [name |-> "assigned", tps |-> {}],
            co |-> [pc |-> IF Group THEN "loop" ELSE "done", sub |-> IF InitialTopics = {} THEN None ELSE 1, asg |-> None,
                    auto |-> FALSE, assignor |-> 0, gen |-> 0, mid |-> 0, why |-> "none"],
            hb |-> "none", rt |-> <<>>, refreshTask |-> None,
            cm |-> [p \in {"coord", "user"} |-> Commit("none", {})],
            leave |-> "none", close |-> "none", req |-> [p \in Procs |-> NoReq],
            resp |-> [p \in Procs |-> NoResp], queue |-> <<>>]
    /\ b = [gen |-> 0, phase |-> "Stable", members |-> {}, offered |-> {}, ids |-> 0, peer |-> FALSE,
            asg |-> {}, ver |-> 0, topics |-> {}, commit |-> [offs |-> {}, owned |-> {}]]
    /\ events = 0

Application ==
    \/ Subscribe \/ SubscribePattern \/ Assign \/ Unsubscribe \/ UserCommit \/ UserCommitted
    \/ Poll \/ AwaitAssignment \/ AssignmentAwaited \/ GoIdle \/ FetchCommitted \/ Stop

Cluster ==
    \/ CoordinatorLookup \/ LookupFailed \/ MetadataRefresh \/ MetadataChange \/ ConnectionLost
    \/ CoordinatorAnswers \/ CoordinatorRefuses \/ PeerChange \/ Evict

RefreshTask == \E a \in DOMAIN m.rt : RefreshStep(a)

Step ==
    \/ CoordinationRound \/ CoordinationRejoin \/ HeartbeatStep \/ LeaveStep \/ RefreshTask \/ ResetCommitted
    \/ \E p \in {"coord", "user"} : CommitStep(p)
    \/ \E a \in DOMAIN m.rt : RefreshRefused(a)
    \/ AutoCommitDue \/ AssignorFails \/ CloseStep
    \/ Application \/ Cluster

Next == Step /\ UNCHANGED mode

Spec == Init /\ [][Next]_vars

\* Every task runs, requests are answered, the coordinator is found, metadata
\* is refreshed, and the application polls and looks for positions.
Fairness ==
    /\ WF_dynamic(CoordinationRound) /\ WF_dynamic(CoordinationRejoin) /\ WF_dynamic(HeartbeatStep)
    /\ WF_dynamic(LeaveStep) /\ WF_dynamic(RefreshTask) /\ WF_dynamic(ResetCommitted) /\ WF_dynamic(CloseStep)
    /\ \A p \in {"coord", "user"} : WF_dynamic(CommitStep(p))
    /\ WF_dynamic(CoordinatorLookup) /\ WF_dynamic(CoordinatorAnswers) /\ WF_dynamic(MetadataRefresh)
    /\ WF_dynamic(Poll) /\ WF_dynamic(FetchCommitted) /\ WF_dynamic(UserCommitted) /\ WF_dynamic(AssignmentAwaited)

FairSpec == Spec /\ Fairness

-----------------------------------------------------------------------------
(* Properties                                                              *)

\* Only one task at a time uses the connection under a name, every object that
\* is referred to exists, and the commit lock is held by who uses it.
TypeOK ==
    /\ m.s.type \in SubscriptionType /\ m.s.cur \in 0 .. Len(m.s.subs)
    /\ m.s.asgWaiter \in Waiters /\ m.s.subWaiter \in Waiters
    /\ m.gen \in 0 .. b.gen /\ m.mid \in 0 .. b.ids
    /\ m.co.sub \in 0 .. Len(m.s.subs) /\ m.co.asg \in 0 .. Len(m.s.asgs)
    /\ \A i \in DOMAIN m.s.subs : m.s.subs[i].asg \in 0 .. Len(m.s.asgs)
    /\ \A i, j \in DOMAIN m.queue : i # j => m.queue[i] # m.queue[j]
    /\ m.lock \in {"none", "coord", "user"}
    /\ m.lock = "user" => m.cm["user"].pc \in {"send", "sent"}

\* The routine rests with an automatic assignment, and nothing to do.
Steady == m.co.pc = "wait" /\ m.co.auto /\ ~woken(m)

\* When the routine rests and the group is stable in its generation, its
\* assignment is the one the group made, for the topics it subscribed to:
\* no change of the subscription during JoinGroup or SyncGroup is lost.
AssignmentIsTheGroups ==
    Steady /\ m.gen = b.gen /\ b.phase = "Stable"
        => /\ m.mid \in b.members
           /\ assigned_partitions(m.s) = b.asg
           /\ m.s.subs[m.s.cur].topics = b.topics
           /\ ~reassignment_in_progress(m.s)

\* The group never assigns a topic outside of the subscription that the answer
\* is applied to (the assertion of _on_join_complete).
OnlySubscribedTopics == m.co.why # "unsubscribed topic"

\* A resting member is kept alive by a heartbeat task, and the committed offsets
\* of its assignment are fetched by a task of that same assignment.
TasksServeTheAssignment ==
    Steady => heartbeat_running(m) /\ refresh_running(m, assignment(m.s))
              /\ m.refreshTask = assignment(m.s)

\* A leader that rests gave the group an assignment made from the metadata it
\* has now: a change during the rebalance is not lost.
LeaderSeesMetadata ==
    Steady /\ m.groupSubscription /\ m.gen = b.gen /\ b.phase = "Stable" /\ b.ver # m.md
        => handle_metadata_update(m).rejoin

\* The listener hears of revoked and of assigned partitions in turn.
CallbacksAlternate ==
    [][/\ m.co.pc # "revoked" /\ m'.co.pc = "revoked" => m.told.name = "assigned"
       /\ m.co.pc # "assigned" /\ m'.co.pc = "assigned" => m.told.name = "revoked"]_vars

\* Without a group: once the metadata brings nothing new, what is assigned is
\* what is known of the topics subscribed to.
AssignsTheKnown ==
    ~Group /\ partitions_auto_assigned(m.s) /\ m.s.cur # None /\ handle_metadata_update(m) = m
        => assigned_partitions(m.s) = m.s.subs[m.s.cur].topics \cap m.match

\* An automatic commit is accepted only for partitions that the group gave to
\* this member, whatever rebalance happens around it.
CommitsItsOwn == b.commit.offs \subseteq b.commit.owned

\* Once the faults are over, a subscribed consumer ends up in the group, the
\* rebalance over, with the assignment that the group made.
EventuallyAssigned ==
    <>[](~m.closing /\ alive(m) /\ m.s.cur # None /\ partitions_auto_assigned(m.s)
         => /\ m.mid \in b.members /\ m.gen = b.gen /\ b.phase = "Stable"
            /\ m.s.subs[m.s.cur].topics = b.topics /\ assigned_partitions(m.s) = b.asg)

\* Whoever asks for the committed offset of an assigned partition gets it.
CommittedServed ==
    <>[](~m.closing /\ (Group => alive(m)) /\ assignment(m.s) # None => m.s.asgs[assignment(m.s)].valid = assigned_partitions(m.s))


-----------------------------------------------------------------------------
(* What the code or its documentation says and the code does not do        *)

\* commit() fails "if membership already changed on broker": an offset that is
\* accepted is one of a partition that the member has.
CommitFailsAfterRebalance == CommitsItsOwn

=============================================================================

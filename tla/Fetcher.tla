------------------------------- MODULE Fetcher -------------------------------
(***************************************************************************)
(* consumer/fetcher.py with the part of TopicPartitionState and of         *)
(* AIOKafkaConsumer it works with: the fetch routine, a fetch or reset     *)
(* task per node, the fetched records that wait for the application, one   *)
(* getone() or getmany() at a time, seeks, pauses, and assignments that    *)
(* change under all of it.                                                 *)
(*                                                                         *)
(* f is the state of the consumer and c that of the cluster, whose logs    *)
(* are fixed by the mode.  A step is what a task does between two awaits.  *)
(* The wait of the routine has a timeout, so that it may run at any time.  *)
(* Faults, calls other than getone() and getmany(), and changes of the     *)
(* cluster are events, at most mode.max of them.                           *)
(***************************************************************************)
EXTENDS PartitionRecords, Integers, FiniteSets, TLC

CONSTANTS
    Partitions,
    Nodes,
    Modes       \* the modes a behaviour may have

ASSUME FetcherAssumption ==
    \A md \in Modes : /\ DOMAIN md.logs = Partitions
                      /\ md.committed \in BOOLEAN /\ md.max \in Nat
                      /\ md.default \in {"earliest", "latest", "none"}

VARIABLES f, c, events, mode

dynamic == <<f, c, events>>

vars == <<f, c, events, mode>>

NoOffset == -1                          \* UNKNOWN_OFFSET, and a position that is None

ReadCommitted == mode.committed         \* isolation_level

DefaultReset == mode.default            \* auto_offset_reset

MaxRecords == mode.records              \* max_records of getmany, 0 for None

Log(tp) == mode.logs[tp]

Event(kind) == kind \in mode.events /\ events < mode.max /\ events' = events + 1

-----------------------------------------------------------------------------
(* TopicPartitionState                                                     *)

TopicPartitionState == [pos |-> NoOffset, strategy |-> "none", paused |-> FALSE]

has_valid_position(g, tp) == g.st[tp].pos # NoOffset

awaiting_reset(g, tp) == g.st[tp].strategy # "none"

await_reset(g, tp, strategy) == [g EXCEPT !.st[tp].pos = NoOffset, !.st[tp].strategy = strategy]

consumed_to(g, tp, pos) == [g EXCEPT !.st[tp].pos = pos]

\* reset_to and seek differ in the status they expect; what is read from here
\* on begins at pos.
seek(g, tp, pos) ==
    [g EXCEPT !.st[tp].pos = pos, !.st[tp].strategy = "none", !.from[tp] = pos, !.got[tp] = <<>>]

reset_to(g, tp, pos) == seek(g, tp, pos)

-----------------------------------------------------------------------------
(* The fetched records, in the order of the OrderedDict _records           *)

Result(asg, tp, u) ==
    [tp |-> tp, asg |-> asg, error |-> FALSE, todo |-> u.yielded, next |-> 0, final |-> u.next,
     corrupt |-> u.corrupt]

Error(asg, tp) ==
    [tp |-> tp, asg |-> asg, error |-> TRUE, todo |-> <<>>, next |-> 0, final |-> 0, corrupt |-> FALSE]

has_records(g, tp) == \E i \in DOMAIN g.records : g.records[i].tp = tp

put(g, e) ==
    IF has_records(g, e.tp)
    THEN [g EXCEPT !.records = [i \in DOMAIN @ |-> IF @[i].tp = e.tp THEN e ELSE @[i]]]
    ELSE [g EXCEPT !.records = Append(@, e)]

del(g, tp) == [g EXCEPT !.records = SelectSeq(@, LAMBDA e : e.tp # tp)]

assigned(g, tp) == g.asg # 0 /\ tp \in g.tps

\* FetchResult.check_assignment; the position it compares with is None when
\* check_fails, and the assertion of position is raised.
active(g, e) == g.asg = e.asg

check_fails(g, e) == active(g, e) /\ ~g.st[e.tp].paused /\ ~has_valid_position(g, e.tp)

check_assignment(g, e) == active(g, e) /\ ~g.st[e.tp].paused /\ g.st[e.tp].pos = e.next

\* The application is given the records at these offsets.
deliver(g, e, offsets) == [g EXCEPT !.got[e.tp] = @ \o offsets]

\* The generator passes the last record: at its end the position follows, and a
\* corrupt batch raises without one.
getone(g, e) ==
    CASE e.todo # <<>> ->
           LET o == Head(e.todo)
           IN  [g |-> put(consumed_to(deliver(g, e, <<o>>), e.tp, o + 1),
                          [e EXCEPT !.todo = Tail(@), !.next = o + 1]), out |-> "message"]
      [] e.todo = <<>> /\ e.corrupt ->
           [g |-> put(g, [e EXCEPT !.corrupt = FALSE, !.next = e.final]), out |-> "raised"]
      [] OTHER -> [g |-> del(consumed_to(g, e.tp, e.final), e.tp), out |-> "none"]

\* next_record for one partition of _records.
next_of(acc, e, parts) ==
    LET g == acc.g
    IN  CASE acc.out # "none" -> acc
          [] acc.out = "none" /\ e.tp \notin parts ->
               [acc EXCEPT !.g = IF assigned(g, e.tp) THEN g ELSE del(g, e.tp)]
          [] acc.out = "none" /\ e.tp \in parts /\ e.error -> [g |-> del(g, e.tp), out |-> "raised"]
          [] acc.out = "none" /\ e.tp \in parts /\ ~e.error /\ check_fails(g, e) -> [acc EXCEPT !.out = "assert"]
          [] acc.out = "none" /\ e.tp \in parts /\ ~e.error /\ ~check_fails(g, e)
             /\ ~check_assignment(g, e) -> [acc EXCEPT !.g = del(g, e.tp)]
          [] OTHER -> getone(g, e)

next_record(g, parts) ==
    FoldLeft(LAMBDA acc, e : next_of(acc, e, parts), [g |-> g, out |-> "none"], g.records)

\* getall: up to room records, 0 for no limit; a corrupt batch at the end of the
\* records raises before the position is moved.
getall(g, e, room) ==
    LET n == Len(e.todo)
        taken == SubSeq(e.todo, 1, room)
    IN  CASE room # 0 /\ n >= room ->
               [g |-> put(consumed_to(g, e.tp, Last(taken) + 1),
                          [e EXCEPT !.todo = SubSeq(@, room + 1, n), !.next = Last(taken) + 1]),
                drained |-> taken, raised |-> FALSE]
          [] ~(room # 0 /\ n >= room) /\ e.corrupt ->
               [g |-> put(g, [e EXCEPT !.todo = <<>>, !.corrupt = FALSE, !.next = e.final]),
                drained |-> <<>>, raised |-> TRUE]
          [] OTHER -> [g |-> del(consumed_to(g, e.tp, e.final), e.tp), drained |-> e.todo, raised |-> FALSE]

\* fetched_records for one partition: what was drained before is given to the
\* application only if nothing raises.
fetched_of(acc, e, parts) ==
    LET g == acc.g
        room == IF MaxRecords = 0 THEN 0 ELSE MaxRecords - acc.count
        all == getall(g, e, room)
    IN  CASE acc.out # "none" -> acc
          [] acc.out = "none" /\ e.tp \notin parts ->
               [acc EXCEPT !.g = IF assigned(g, e.tp) THEN g ELSE del(g, e.tp)]
          [] acc.out = "none" /\ e.tp \in parts /\ e.error ->
               IF acc.count > 0 THEN [acc EXCEPT !.out = "message"]
               ELSE [acc EXCEPT !.g = del(g, e.tp), !.out = "raised"]
          [] acc.out = "none" /\ e.tp \in parts /\ ~e.error /\ check_fails(g, e) -> [acc EXCEPT !.out = "assert"]
          [] acc.out = "none" /\ e.tp \in parts /\ ~e.error /\ ~check_fails(g, e)
             /\ ~check_assignment(g, e) -> [acc EXCEPT !.g = del(g, e.tp)]
          [] OTHER -> [g |-> all.g, count |-> acc.count + Len(all.drained),
                       drained |-> [acc.drained EXCEPT ![e.tp] = all.drained],
                       out |-> CASE all.raised -> "raised"
                                 [] ~all.raised /\ MaxRecords # 0 /\ acc.count + Len(all.drained) = MaxRecords -> "message"
                                 [] OTHER -> "none"]

fetched_records(g, parts) ==
    LET acc == FoldLeft(LAMBDA a, e : fetched_of(a, e, parts),
                        [g |-> g, out |-> "none", count |-> 0, drained |-> [tp \in Partitions |-> <<>>]],
                        g.records)
        out == IF acc.out = "none" /\ acc.count > 0 THEN "message" ELSE acc.out
    IN  [out |-> out,
         g |-> IF out = "message"
               THEN [acc.g EXCEPT !.got = [tp \in Partitions |-> @[tp] \o acc.drained[tp]]] ELSE acc.g]

-----------------------------------------------------------------------------
(* The tasks                                                               *)

NoTask == [kind |-> "none", stage |-> "none", asg |-> 0, at |-> <<>>, todo |-> <<>>, strategies |-> <<>>,
           led |-> {}, wakeup |-> FALSE]

in_flight(g) == {n \in Nodes : g.task[n].kind # "none" /\ g.task[n].stage \notin {"done", "raised"}}

done(g, n, wakeup) == [g EXCEPT !.task[n].stage = "done", !.task[n].wakeup = @ \/ wakeup]

\* _set_error asserts that the partition has no records.
set_error(g, n, tp) ==
    IF has_records(g, tp) THEN [g EXCEPT !.task[n].stage = "raised"]
    ELSE [put(g, Error(g.task[n].asg, tp)) EXCEPT !.task[n].wakeup = TRUE]

high(tp) == IF ReadCommitted THEN last_stable_offset(Log(tp)) ELSE Last(Log(tp)).next

\* The batches of the log from the one with the offset on.
from_offset(tp, offset) == SelectSeq(Log(tp), LAMBDA b : b.next > offset /\ b.base < high(tp))

\* PartitionRecords over so many batches, with the aborted transactions the
\* broker lists for them.
unpacked(tp, offset, count) ==
    LET batches == SubSeq(from_offset(tp, offset), 1, count)
    IN  unpack_records(batches, offset,
                       IF ReadCommitted THEN aborted_in(Log(tp), offset, Last(batches).next) ELSE <<>>,
                       ReadCommitted)

\* What _proc_fetch_request does with the answer a for one partition.
fetched_partition(g, n, tp, a) ==
    LET offset == g.task[n].at[tp]
    IN  CASE g.st[tp].pos # offset -> g
          [] g.st[tp].pos = offset /\ a.err = "ok" ->
               IF a.count = 0 THEN g
               ELSE [put(g, [Result(g.task[n].asg, tp, unpacked(tp, offset, a.count)) EXCEPT !.next = offset])
                       EXCEPT !.task[n].wakeup = TRUE]
          [] g.st[tp].pos = offset /\ a.err = "RecordTooLarge" ->
               LET set == set_error(g, n, tp)
               IN  IF set.task[n].stage = "raised" THEN set
                   ELSE [seek(set, tp, offset + 1) EXCEPT !.asked[tp] = NoOffset]
          [] g.st[tp].pos = offset /\ a.err = "NotLeaderForPartition" -> [g EXCEPT !.refresh = TRUE]
          [] g.st[tp].pos = offset /\ a.err = "OffsetOutOfRange" ->
               IF DefaultReset # "none" THEN await_reset(g, tp, DefaultReset) ELSE set_error(g, n, tp)
          [] g.st[tp].pos = offset /\ a.err = "TopicAuthorizationFailed" -> set_error(g, n, tp)
          [] OTHER -> g

\* The partitions of a response, in its order, until one of them raises.
proc_fetch_response(g, n, order, answers) ==
    LET read == FoldLeft(LAMBDA h, tp : IF h.task[n].stage = "raised" THEN h
                                        ELSE fetched_partition(h, n, tp, answers[tp]), g, order)
    IN  IF g.task[n].asg # g.asg THEN done(g, n, FALSE)
        ELSE IF read.task[n].stage = "raised" THEN read ELSE done(read, n, FALSE)

\* _update_fetch_positions: the partitions in todo are looked at in turn, up to
\* the await of a committed offset; then a request for those that need a reset.
request_offsets(g, n) ==
    LET t == g.task[n]
        needs == {tp \in t.led : awaiting_reset(g, tp)}
    IN  IF needs = {} THEN done(g, n, FALSE)
        ELSE [g EXCEPT !.task[n].stage = "offsets",
                       !.task[n].strategies = [tp \in needs |-> g.st[tp].strategy]]

unset(g, tp) == ~has_valid_position(g, tp) /\ ~awaiting_reset(g, tp)

look_at(g, n) ==
    LET rest == SelectSeq(g.task[n].todo, LAMBDA tp : unset(g, tp))
    IN  IF rest = <<>> THEN request_offsets(g, n)
        ELSE [g EXCEPT !.task[n].stage = "committed", !.task[n].todo = rest]

\* A committed offset arrives; meanwhile there may have been a seek.
committed_offset(g, n, offset) ==
    LET tp == Head(g.task[n].todo)
        next == [g EXCEPT !.task[n].todo = Tail(@)]
        set == CASE ~unset(g, tp) -> next
                 [] unset(g, tp) /\ offset # NoOffset -> reset_to(next, tp, offset)
                 [] unset(g, tp) /\ offset = NoOffset /\ DefaultReset # "none" -> await_reset(next, tp, DefaultReset)
                 [] OTHER -> set_error(next, n, tp)
    IN  IF set.task[n].stage = "raised" THEN set ELSE look_at(set, n)

MutResetAnyway(g, n, offsets) ==
    LET t == g.task[n]
    IN  IF t.asg # g.asg THEN done(g, n, FALSE)
        ELSE done(FoldLeft(LAMBDA h, tp : reset_to(h, tp, offsets[tp]), g, SetToSeq(DOMAIN t.strategies)), n, FALSE)

\* The offsets of the strategies that were sent; only partitions that still
\* await a reset take them.
offsets_received(g, n, offsets) ==
    LET t == g.task[n]
        reset == FoldLeft(LAMBDA h, tp : IF awaiting_reset(h, tp) THEN reset_to(h, tp, offsets[tp]) ELSE h,
                          g, SetToSeq(DOMAIN t.strategies))
    IN  IF t.asg # g.asg THEN done(g, n, FALSE) ELSE done(reset, n, FALSE)

retry_later(g, n) == [g EXCEPT !.task[n].stage = "backoff"]

-----------------------------------------------------------------------------
(* The routine                                                             *)

leader_for_partition(g, tp) == g.leader[tp]

\* _get_actions_per_node.  fresh are the partitions whose records are younger than
\* the prefetch backoff.
idle_tps(g) == {tp \in g.tps : ~has_records(g, tp) /\ leader_for_partition(g, tp) \notin in_flight(g)}

awaiting_reset_at(g, n) ==
    {tp \in idle_tps(g) : leader_for_partition(g, tp) = n /\ ~has_valid_position(g, tp)}

backoff_at(g, n, fresh) ==
    {tp \in g.tps : has_records(g, tp) /\ tp \in fresh /\ leader_for_partition(g, tp) = n}

fetchable_at(g, n, fresh) ==
    IF backoff_at(g, n, fresh) # {} \/ awaiting_reset_at(g, n) # {} THEN {}
    ELSE {tp \in idle_tps(g) : /\ leader_for_partition(g, tp) = n
                               /\ has_valid_position(g, tp) /\ ~g.st[tp].paused}

fetch_task(g, n, tps) ==
    [NoTask EXCEPT !.kind = "fetch", !.stage = "sent", !.asg = g.asg, !.at = [tp \in tps |-> g.st[tp].pos],
                   !.led = {tp \in tps : c.actual[tp] = n}]

reset_task(g, tps) ==
    [NoTask EXCEPT !.kind = "reset", !.stage = "new", !.asg = g.asg, !.todo = SetToSeq(tps), !.led = tps]

start_tasks(g, fresh) ==
    [g EXCEPT !.task = [n \in Nodes |->
        CASE awaiting_reset_at(g, n) # {} -> reset_task(g, awaiting_reset_at(g, n))
          [] awaiting_reset_at(g, n) = {} /\ fetchable_at(g, n, fresh) # {} -> fetch_task(g, n, fetchable_at(g, n, fresh))
          [] OTHER -> @[n]]]

notify_reader(g) == IF g.reader.pc = "fetch" THEN [g EXCEPT !.reader.woken = TRUE] ELSE g

MutNotNotified(g) ==
    [g EXCEPT !.task = [n \in Nodes |-> IF g.task[n].stage \in {"done", "raised"} THEN NoTask ELSE @[n]]]

\* The results of the tasks that are done: one that raised ends the routine,
\* unless a result with new data is looked at before it.
collect(g) ==
    LET finished == {n \in Nodes : g.task[n].stage = "done"}
        cleared == [g EXCEPT !.task = [n \in Nodes |-> IF g.task[n].stage \in {"done", "raised"} THEN NoTask ELSE @[n]]]
    IN  IF \E n \in finished : g.task[n].wakeup THEN notify_reader(cleared) ELSE cleared

raised(g) == \E n \in Nodes : g.task[n].stage = "raised"

\* One round of _fetch_requests_routine, from its wait to the next one.
Routine ==
    /\ f.pc = "run"
    /\ raised(f) => \E n \in Nodes : f.task[n].stage = "done" /\ f.task[n].wakeup
    /\ LET g == collect(f)
       IN  IF f.rasg # f.asg \/ f.asg = 0 THEN f' = [g EXCEPT !.pc = "restart"]
           ELSE \E fresh \in SUBSET {f.records[i].tp : i \in DOMAIN f.records} : f' = start_tasks(g, fresh)
    /\ UNCHANGED <<c, events>>

RoutineFails ==
    /\ f.pc \in {"run", "restart"} /\ raised(f)
    /\ f' = [f EXCEPT !.pc = "failed"]
    /\ UNCHANGED <<c, events>>

\* With no active assignment every task is cancelled and awaited, one by one.
CancelTask ==
    /\ f.pc = "restart" /\ ~raised(f)
    /\ \E n \in {k \in Nodes : f.task[k].kind # "none"} : f' = [f EXCEPT !.task[n] = NoTask]
    /\ UNCHANGED <<c, events>>

\* Then the records are dropped, and the routine waits for an assignment or
\* goes on with the one there is.
Restart ==
    /\ f.pc = "restart" /\ \A n \in Nodes : f.task[n].kind = "none"
    /\ LET g == [f EXCEPT !.records = <<>>]
       IN  f' = IF f.asg = 0 THEN [g EXCEPT !.pc = "assignment", !.asgWaiter = FALSE]
                ELSE [g EXCEPT !.pc = "run", !.rasg = f.asg]
    /\ UNCHANGED <<c, events>>

\* The waiter is done: the assignment of now is taken, if there is one.
AssignmentWaited ==
    /\ f.pc = "assignment" /\ f.asgWaiter
    /\ f' = IF f.asg = 0 THEN [f EXCEPT !.pc = "failed"] ELSE [f EXCEPT !.pc = "run", !.rasg = f.asg]
    /\ UNCHANGED <<c, events>>

-----------------------------------------------------------------------------
(* The brokers                                                             *)

Ok(count) == [err |-> "ok", count |-> count]

Refusal(err) == [err |-> err, count |-> 0]

\* What node n may answer for a partition, as many batches as it likes.
answers_for(n, tp) ==
    LET offset == f.task[n].at[tp]
        available == Len(from_offset(tp, offset))
    IN  CASE c.actual[tp] # n /\ tp \notin f.task[n].led -> {Refusal("NotLeaderForPartition")}
          [] ~(c.actual[tp] # n /\ tp \notin f.task[n].led)
             /\ (offset < c.start[tp] \/ offset > Last(Log(tp)).next) -> {Refusal("OffsetOutOfRange")}
          [] OTHER -> {Ok(k) : k \in IF available = 0 THEN {0} ELSE 1 .. available}
                      \cup (IF c.actual[tp] # n THEN {Refusal("NotLeaderForPartition")} ELSE {})

\* A getone() that waited for the assignment is resumed before the first answer
\* for it can arrive.
fetching(n) ==
    /\ f.task[n].kind = "fetch" /\ f.task[n].stage = "sent"
    /\ f.reader.pc = "assignment" /\ f.reader.woken => f.task[n].asg # f.asg

FetchAnswered(n) ==
    /\ fetching(n)
    /\ LET asked == DOMAIN f.task[n].at
           choices == [tp \in asked |-> answers_for(n, tp)]
       IN  \E answers \in {a \in [asked -> UNION Range(choices)] : \A tp \in asked : a[tp] \in choices[tp]},
              order \in SetToSeqs(asked) : f' = proc_fetch_response(f, n, order, answers)
    /\ UNCHANGED <<c, events>>

\* An error for one partition, and nothing new for the others.
FetchRefused(n) ==
    /\ fetching(n)
    /\ \E err \in {"RecordTooLarge", "TopicAuthorizationFailed", "other"}, tp \in DOMAIN f.task[n].at :
         /\ Event(err)
         /\ err = "RecordTooLarge" => Len(from_offset(tp, f.task[n].at[tp])) > 0
         /\ f' = proc_fetch_response(f, n, SetToSeq(DOMAIN f.task[n].at),
                    [q \in DOMAIN f.task[n].at |-> IF q = tp THEN Refusal(err) ELSE Ok(0)])
    /\ UNCHANGED c

\* The request fails, or ListOffsets is refused: the task ends after retry_backoff.
TaskFails(n) ==
    /\ \/ fetching(n) /\ Event("lost")
       \/ f.task[n].stage = "offsets" /\ Event("lost")
       \/ f.task[n].stage = "offsets" /\ UNCHANGED events
          /\ \E tp \in DOMAIN f.task[n].strategies : c.actual[tp] # n
    /\ f' = retry_later(f, n)
    /\ UNCHANGED c

BackoffOver(n) ==
    /\ f.task[n].stage = "backoff"
    /\ f' = done(f, n, FALSE)
    /\ UNCHANGED <<c, events>>

ResetStarts(n) ==
    /\ f.task[n].stage = "new"
    /\ f' = IF f.task[n].asg = f.asg THEN look_at(f, n) ELSE [f EXCEPT !.task[n].stage = "committed"]
    /\ UNCHANGED <<c, events>>

\* The coordinator answers for the partitions of the current assignment.
Committed(n) ==
    /\ f.task[n].stage = "committed" /\ f.task[n].asg = f.asg
    /\ f' = committed_offset(f, n, mode.stored)
    /\ UNCHANGED <<c, events>>

offset_of(tp, strategy) == IF strategy = "earliest" THEN c.start[tp] ELSE Last(Log(tp)).next

OffsetsAnswered(n) ==
    /\ f.task[n].stage = "offsets"
    /\ \A tp \in DOMAIN f.task[n].strategies : c.actual[tp] = n
    /\ LET strategies == f.task[n].strategies
       IN  f' = offsets_received(f, n, [tp \in DOMAIN strategies |-> offset_of(tp, strategies[tp])])
    /\ UNCHANGED <<c, events>>

MetadataUpdated ==
    /\ f.leader # c.actual \/ f.refresh
    /\ f' = [f EXCEPT !.leader = c.actual, !.refresh = FALSE]
    /\ UNCHANGED <<c, events>>

LeaderMoves ==
    /\ Event("leader")
    /\ \E tp \in Partitions, n \in Nodes : n # c.actual[tp] /\ c' = [c EXCEPT !.actual[tp] = n]
    /\ UNCHANGED f

\* Retention removes the first batch of a log.
LogTruncated ==
    /\ Event("truncate")
    /\ \E tp \in Partitions : /\ c.start[tp] < Log(tp)[1].next
                              /\ c' = [c EXCEPT !.start[tp] = Log(tp)[1].next]
    /\ UNCHANGED f

-----------------------------------------------------------------------------
(* The application and the coordinator                                     *)

\* Entering next_record or fetched_records, and every turn of their loops.
read(g, r) ==
    LET res == IF r.kind = "one" THEN next_record(g, r.parts) ELSE fetched_records(g, r.parts)
        to(pc) == [r EXCEPT !.pc = pc, !.woken = FALSE]
    IN  IF res.out = "none" THEN [res.g EXCEPT !.reader = to("fetch")]
        ELSE [res.g EXCEPT !.reader = [to("idle") EXCEPT !.out = res.out]]

MutReadsOn(g, r) ==
    IF g.closed /\ r.kind = "one" THEN [g EXCEPT !.reader = [r EXCEPT !.pc = "idle", !.out = "stopped"]]
    ELSE read(g, r)

\* The loop waits for an assignment while there is none, or a rebalance.
enter(g, r) ==
    CASE g.closed /\ r.kind = "one" -> [g EXCEPT !.reader = [r EXCEPT !.pc = "idle", !.out = "stopped"]]
      [] ~(g.closed /\ r.kind = "one") /\ g.reassigning ->
           [g EXCEPT !.reader = [r EXCEPT !.pc = "assignment", !.woken = FALSE]]
      [] OTHER -> read(g, r)

Get ==
    /\ f.reader.pc = "idle" /\ ~f.closed
    /\ \E kind \in mode.reads, parts \in {Partitions} \cup (IF "parts" \in mode.events THEN SUBSET Partitions \ {{}} ELSE {}) :
         f' = enter(f, [pc |-> "idle", kind |-> kind, parts |-> parts, woken |-> FALSE, out |-> "none"])
    /\ UNCHANGED <<c, events>>

GetResumes ==
    /\ f.reader.woken
    /\ f' = CASE f.reader.pc = "assignment" -> read(f, f.reader)
              [] f.reader.pc = "fetch" /\ f.reader.kind = "many" /\ f.closed ->
                   [f EXCEPT !.reader.pc = "idle", !.reader.woken = FALSE, !.reader.out = "none"]
              [] OTHER -> enter(f, f.reader)
    /\ UNCHANGED <<c, events>>

\* getmany(timeout_ms) ends without records.
GetTimesOut ==
    /\ f.reader.pc = "fetch" /\ f.reader.kind = "many" /\ ~f.reader.woken
    /\ f' = [f EXCEPT !.reader.pc = "idle", !.reader.out = "none"]
    /\ UNCHANGED <<c, events>>

\* Consumer.seek, seek_to_beginning and seek_to_end of one partition.
Seek ==
    /\ ~f.closed /\ f.asg # 0 /\ Event("seek")
    /\ \E tp \in f.tps : \E o \in 0 .. Last(Log(tp)).next :
         f' = [del(seek(f, tp, o), tp) EXCEPT !.asked[tp] = o]
    /\ UNCHANGED c

request_offset_reset(g, tp, strategy) == del(await_reset(g, tp, strategy), tp)

SeekTo ==
    /\ ~f.closed /\ f.asg # 0
    /\ \E tp \in f.tps, strategy \in {"earliest", "latest"} :
         /\ Event(strategy)
         /\ f' = [request_offset_reset(f, tp, strategy) EXCEPT !.asked[tp] = NoOffset]
    /\ UNCHANGED c

Pause ==
    /\ ~f.closed /\ f.asg # 0 /\ Event("pause")
    /\ \E tp \in f.tps : f' = [f EXCEPT !.st[tp].paused = ~@]
    /\ UNCHANGED c

\* A rebalance begins, or the application unsubscribes.
Rebalance ==
    /\ ~f.reassigning /\ ~f.closed
    /\ \/ Event("rebalance") /\ f' = [f EXCEPT !.reassigning = TRUE]
       \/ Event("unsubscribe") /\ f' = [f EXCEPT !.reassigning = TRUE, !.asg = 0]
    /\ UNCHANGED c

\* A new Assignment: whoever waits for one is notified.
Assigned ==
    /\ f.reassigning /\ ~f.closed
    /\ \E tps \in mode.assigns :
         f' = [f EXCEPT !.asg = f.made + 1, !.made = @ + 1, !.tps = tps, !.reassigning = FALSE,
                        !.st = [tp \in Partitions |-> TopicPartitionState],
                        !.from = [tp \in Partitions |-> NoOffset], !.got = [tp \in Partitions |-> <<>>],
                        !.asked = [tp \in Partitions |-> NoOffset],
                        !.asgWaiter = (f.pc = "assignment"),
                        !.reader.woken = (@ \/ f.reader.pc = "assignment")]
    /\ UNCHANGED <<c, events>>

\* close(): the routine is cancelled, the readers are notified, then the tasks
\* are cancelled; one that sleeps before its retry raises.
Close ==
    /\ ~f.closed /\ Event("close")
    /\ f' = [notify_reader(f) EXCEPT
               !.closed = TRUE, !.pc = IF @ = "failed" THEN @ ELSE "cancelled",
               !.close = IF f.pc = "failed" \/ \E n \in Nodes : f.task[n].stage = "backoff" THEN "raised" ELSE "closed",
               !.task = [n \in Nodes |-> NoTask]]
    /\ UNCHANGED c

-----------------------------------------------------------------------------
(* The specification                                                       *)

Init ==
    /\ mode \in Modes
    /\ \E leaders \in mode.leaders :
         /\ c = [actual |-> leaders, start |-> [tp \in Partitions |-> 0]]
         /\ f = [asg |-> 0, made |-> 0, tps |-> {}, reassigning |-> TRUE,
                 st |-> [tp \in Partitions |-> TopicPartitionState], records |-> <<>>,
                 task |-> [n \in Nodes |-> NoTask], pc |-> "restart", rasg |-> 0, asgWaiter |-> FALSE,
                 reader |-> [pc |-> "idle", kind |-> "one", parts |-> {}, woken |-> FALSE, out |-> "none"],
                 leader |-> leaders, refresh |-> FALSE, closed |-> FALSE, close |-> "no",
                 from |-> [tp \in Partitions |-> NoOffset], got |-> [tp \in Partitions |-> <<>>],
                 asked |-> [tp \in Partitions |-> NoOffset]]
    /\ events = 0

TaskStep(n) ==
    \/ FetchAnswered(n) \/ FetchRefused(n) \/ TaskFails(n) \/ BackoffOver(n)
    \/ ResetStarts(n) \/ Committed(n) \/ OffsetsAnswered(n)

RoutineStep == Routine \/ RoutineFails \/ CancelTask \/ Restart \/ AssignmentWaited

Application == Get \/ GetResumes \/ GetTimesOut \/ Seek \/ SeekTo \/ Pause \/ Close

Step ==
    \/ RoutineStep \/ Application \/ (\E n \in Nodes : TaskStep(n))
    \/ Rebalance \/ Assigned \/ MetadataUpdated \/ LeaderMoves \/ LogTruncated

Next == Step /\ UNCHANGED mode

Spec == Init /\ [][Next]_vars

\* When a step of the routine would change something.
routine_ready ==
    \/ f.pc = "restart"
    \/ f.pc = "assignment" /\ f.asgWaiter
    \/ f.pc = "run" /\ (raised(f) \/ f.rasg # f.asg \/ start_tasks(collect(f), {}) # f)

\* Weak fairness of the routine, of the tasks, of the brokers and coordinator
\* that answer them, and of an application that reads on.  What enables each
\* action is written out; the ones that disable themselves need no more.
Fairness ==
    /\ []<>~routine_ready \/ []<><<RoutineStep>>_dynamic
    /\ []<>(f.reader.pc # "idle" \/ f.closed \/ f.reader.out = "assert") \/ []<><<Get>>_dynamic
    /\ []<>~f.reader.woken
    /\ []<>(~f.reassigning \/ f.closed)
    /\ []<>(f.leader = c.actual /\ ~f.refresh)
    /\ \A n \in Nodes : /\ []<>~fetching(n)
                        /\ []<>(f.task[n].stage \notin {"backoff", "new"})
                        /\ []<>~(f.task[n].stage = "committed" /\ f.task[n].asg = f.asg)
                        /\ []<>~(/\ f.task[n].stage = "offsets"
                                /\ \A tp \in DOMAIN f.task[n].strategies : c.actual[tp] = n)

FairSpec == Spec /\ Fairness

-----------------------------------------------------------------------------
(* Properties                                                              *)

\* Whatever is in flight when the position moves: the application was given
\* exactly the records it is to see between where it began and the position,
\* once and in order.  The position is what a commit stores.
NothingSkipped ==
    f.asg # 0 => \A tp \in f.tps : has_valid_position(f, tp) =>
      f.got[tp] = visible(Log(tp), f.from[tp], f.st[tp].pos, ReadCommitted)

\* A seek() holds: no answer to an older fetch, reset or committed offset
\* request moves the position back, unless the offset is out of range.
SeeksHold ==
    f.asg # 0 => \A tp \in f.tps :
      f.asked[tp] # NoOffset /\ f.asked[tp] >= c.start[tp] => f.from[tp] = f.asked[tp]

\* What the application is given is of the assignment it has at that time: not
\* of a partition that is paused or was taken away, nor while a rebalance may be
\* giving it to another member.
OnlyOwned ==
    [][\A tp \in Partitions : Len(f'.got[tp]) > Len(f.got[tp]) =>
         /\ f.asg # 0 /\ tp \in f.tps
         /\ ~f.reassigning /\ ~f.st[tp].paused]_vars

\* Every record the application is to see is read in the end: no wakeup is lost
\* between the tasks, the routine and the reader.  The exceptions are a consumer
\* that was closed, and a routine that an exception has ended.
EverythingIsRead ==
    <>[](f.asg # 0 /\ ~f.closed /\ f.pc # "failed" /\ DefaultReset # "none" =>
           \A tp \in f.tps : f.st[tp].paused \/ f.st[tp].pos >= high(tp))

-----------------------------------------------------------------------------
(* What a comment says and the code does not do                            *)

\* "We already got some messages from another partition - return them": what
\* getmany() has moved the position past, it returns.
DrainedIsReturned == NothingSkipped
=============================================================================

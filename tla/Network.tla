------------------------------- MODULE Network -------------------------------
(***************************************************************************)
(* client.py over conn.py and cluster.py: tasks that send requests to      *)
(* nodes over connections made on demand under one lock, connections that  *)
(* break, fall silent or are dropped when idle, the metadata synchronizer, *)
(* and the coordinators.                                                   *)
(*                                                                         *)
(* s is the state of the client.  A task is a caller of send() or the      *)
(* synchronizer; a step is what it does between two awaits.  The wrong     *)
(* frame, the lost connection and so on are events, at most mode.max.      *)
(***************************************************************************)
EXTENDS Connection, FiniteSets, SequencesExt

CONSTANTS
    Nodes,
    Callers,
    Sync,           \* the task _md_synchronizer
    Topics,
    Purposes,       \* what a coordinator is looked up for
    MaxLinks,       \* more than the connections ever made
    Modes           \* configurations; mode.sends bounds the calls of a task

ASSUME NetworkAssumption == IdBound \in Nat \ {0} /\ Sync \notin Callers

VARIABLES s, events, mode

dynamic == <<s, events>>

vars == <<s, events, mode>>

Event(kind) == kind \in mode.events /\ events < mode.max /\ events' = events + 1

Tasks == Callers \cup {Sync}

\* A connection is kept per node and ConnectionGroup.
ConnIds == Nodes \X {"default", "coordination"}

NoNode == "none"

-----------------------------------------------------------------------------
(* cluster.py                                                              *)

broker_metadata(g, node) == node \in g.brokers

coordinator_metadata(g, node) == node \in g.coordinators

\* add_coordinator: the entry of the coordinator that had the purpose before is
\* deleted, which raises KeyError when it has gone.
add_coordinator(g, node, purpose) ==
    LET old == g.coordinator_by_key[purpose]
        known == IF old = NoNode THEN g.coordinators ELSE g.coordinators \ {old}
    IN  IF old # NoNode /\ old \notin g.coordinators
        THEN [g EXCEPT !.coordinator_by_key[purpose] = NoNode]
        ELSE [g EXCEPT !.coordinators = known \cup {node}, !.coordinator_by_key[purpose] = node]

add_raises(g, purpose) ==
    LET old == g.coordinator_by_key[purpose] IN old # NoNode /\ old \notin g.coordinators

\* update_metadata replaces everything but the coordinators.  No topic in the
\* request stands for all.
update_metadata(g, nodes) ==
    LET told == IF g.asked = {} THEN Topics ELSE g.asked
    IN  [g EXCEPT !.brokers = nodes, !.partitions = told \ mode.unauthorized,
                  !.unauthorized_topics = told \cap mode.unauthorized]

-----------------------------------------------------------------------------
(* The metadata update                                                     *)

\* A new future, and the synchronizer is woken, unless an update is under way.
force_metadata_update(g) ==
    IF g.md_update_fut THEN g ELSE [g EXCEPT !.waiter = TRUE, !.md_update_fut = TRUE]

add_topic(g, topic) ==
    [IF topic \in g.topics THEN g ELSE force_metadata_update(g) EXCEPT !.topics = @ \cup {topic}]

\* set_topics makes a new set; the synchronizer may still hold the old one.
set_topics(g, topics) ==
    LET h == IF topics = {} \/ topics \ g.topics # {} THEN force_metadata_update(g) ELSE g
    IN  [h EXCEPT !.topics = topics,
                  !.held = IF @ = "same" THEN "old" ELSE @,
                  !.old = IF g.held = "same" THEN g.topics ELSE @]

-----------------------------------------------------------------------------
(* Connections and futures                                                 *)

NoTask ==
    [pc |-> "idle", id |-> <<NoNode, "default">>, expect |-> TRUE, purpose |-> "none", link |-> 0, stage |-> 0,
     topic |-> "none", serial |-> 0, calls |-> 0, fut |-> "none", out |-> "none"]

Tag(g, t) == <<t, g.task[t].serial>>

\* The future of a tag gets its outcome, if its task still waits for it.
resolve(g, tags, outcome) ==
    [g EXCEPT !.task = [t \in Tasks |-> IF Tag(g, t) \in tags /\ @[t].fut = "pending"
                                        THEN [@[t] EXCEPT !.fut = outcome] ELSE @[t]]]

MutForgets(g, k, reason) == [g EXCEPT !.link[k] = closed(@)]

\* close(): every pending future fails, and the client is told.
close(g, k, reason) ==
    IF g.link[k].state = "closed" THEN g
    ELSE LET failed == [resolve(g, pending(g.link[k]), "error") EXCEPT !.link[k] = closed(@)]
         IN  IF g.link[k].hooked /\ reason \in {"broken", "timeout"} THEN force_metadata_update(failed) ELSE failed

\* A task is done with its request; out is what send() returns or raises.
finish(g, t, out) ==
    [g EXCEPT !.task[t] = [NoTask EXCEPT !.pc = IF t = Sync THEN "next" ELSE "idle", !.serial = g.task[t].serial,
                                         !.calls = g.task[t].calls, !.out = out]]

\* The end of a turn of _md_synchronizer; whoever waits for the future is woken.
update_done(g) ==
    LET changed == g.held = "old" /\ g.old # g.topics
        h == [finish(g, Sync, "none") EXCEPT !.task[Sync].pc = "wait", !.held = "none", !.old = {}, !.left = {}]
    IN  IF changed THEN h
        ELSE [h EXCEPT !.waiter = FALSE, !.md_update_fut = FALSE,
                       !.task = [t \in Tasks |-> IF @[t].pc = "update" THEN [@[t] EXCEPT !.pc = "updated"] ELSE @[t]]]

\* conn.send() on the connection a task was given.
send_on(g, t, k) ==
    LET tagged == [g EXCEPT !.task[t].serial = @ + 1]
        h == [tagged EXCEPT !.link[k] = send(@, Tag(tagged, t), g.task[t].expect)]
    IN  IF g.link[k].state # "open" THEN finish(g, t, "KafkaConnectionError")
        ELSE IF g.task[t].expect THEN [h EXCEPT !.task[t].pc = "sent", !.task[t].fut = "pending", !.task[t].link = k]
        ELSE finish(h, t, "sent")

\* connect() begins, by the task that has the lock.
create_conn(g, t) ==
    [g EXCEPT !.link = Append(@, NewConnection(g.task[t].id, TRUE)),
              !.task[t].pc = "connecting", !.task[t].stage = 0, !.task[t].link = Len(g.link) + 1]

unknown(g, id) == id[2] = "default" /\ ~broker_metadata(g, id[1])

unlisted(g, id) == id[2] = "coordination" /\ ~coordinator_metadata(g, id[1])

\* _get_conn up to its first await, then send() if it has a connection.
get_conn(g, t) ==
    LET id == g.task[t].id
        k == g.conns[id]
        h == [g EXCEPT !.conns[id] = 0]
    IN  IF k # 0 /\ connected(g.link[k]) THEN send_on(g, t, k)
        ELSE IF unknown(g, id) THEN finish(force_metadata_update(h), t, "NodeNotReady")
        ELSE IF unlisted(g, id) THEN finish(h, t, "AssertionError")
        ELSE IF g.lock = <<>> THEN create_conn([h EXCEPT !.lock = <<t>>], t)
        ELSE [h EXCEPT !.lock = Append(@, t), !.task[t].pc = "lock"]

release(g) == [g EXCEPT !.lock = Tail(@)]

\* create_conn failed: the metadata may be stale.
connect_failed(g, t) ==
    LET h == release(close(g, g.task[t].link, "none"))
    IN  finish(IF g.task[t].id[2] = "default" THEN force_metadata_update(h) ELSE h, t, "NodeNotReady")

\* The next request of connect(): ApiVersions, SaslHandShake, SaslAuthenticate or
\* a bare token; after the last one the connection is registered and used.
handshake(g, t) ==
    LET k == g.task[t].link
        i == g.task[t].stage + 1
        tagged == [g EXCEPT !.task[t].serial = @ + 1, !.task[t].stage = i, !.task[t].fut = "pending",
                            !.task[t].pc = "handshake"]
    IN  IF i <= Len(mode.handshake) /\ g.link[k].state # "open" THEN connect_failed(g, t)
        ELSE IF i > Len(mode.handshake)
        THEN send_on(release([g EXCEPT !.conns[g.task[t].id] = k]), t, k)
        ELSE [tagged EXCEPT !.link[k] = IF mode.handshake[i] = "token" THEN send_sasl_token(@, Tag(tagged, t))
                                        ELSE send(@, Tag(tagged, t), TRUE)]

-----------------------------------------------------------------------------
(* The steps of a task                                                     *)

idle(t) == t \in Callers /\ s.task[t].pc = "idle" /\ s.task[t].calls < mode.sends

called(g, t, id, expect, purpose) ==
    [g EXCEPT !.task[t].calls = @ + 1, !.task[t].id = id, !.task[t].expect = expect, !.task[t].purpose = purpose]

\* client.send(); expect is FALSE for a produce request with acks=0.
Send(t) ==
    /\ idle(t)
    /\ \E id \in mode.ids, expect \in mode.expects : s' = get_conn(called(s, t, id, expect, "none"), t)
    /\ UNCHANGED events

\* coordinator_lookup() asks any known broker.
Lookup(t) ==
    /\ idle(t)
    /\ \E purpose \in mode.purposes, node \in s.brokers :
         s' = get_conn(called(s, t, <<node, "default">>, TRUE, purpose), t)
    /\ UNCHANGED events

MutLockedAnew(t) ==
    /\ s.task[t].pc = "lock" /\ s.lock # <<>> /\ Head(s.lock) = t
    /\ s' = create_conn(s, t)
    /\ UNCHANGED events

\* The lock is passed on; the connection may have been made meanwhile.
Locked(t) ==
    /\ s.task[t].pc = "lock" /\ s.lock # <<>> /\ Head(s.lock) = t
    /\ LET k == s.conns[s.task[t].id]
       IN  IF k # 0 THEN s' = send_on(release(s), t, k)
           ELSE s' = create_conn(s, t)
    /\ UNCHANGED events

\* The TCP connection is made, or not.
Connected(t) ==
    /\ s.task[t].pc = "connecting"
    /\ s' = handshake([s EXCEPT !.link[s.task[t].link].state = "open"], t)
    /\ UNCHANGED events

ConnectFails(t) ==
    /\ s.task[t].pc = "connecting" /\ Event("connect")
    /\ s' = connect_failed(s, t)

\* An answer to the handshake, or the failure of the connection.
HandshakeResumes(t) ==
    /\ s.task[t].pc = "handshake" /\ s.task[t].fut # "pending"
    /\ IF s.task[t].fut = "error" THEN s' = connect_failed(s, t) /\ UNCHANGED events
       ELSE \/ s' = handshake(s, t) /\ UNCHANGED events
            \/ s' = connect_failed(s, t) /\ Event("refused")

\* send() returns or raises; a lookup has its answer added.
Resume(t) ==
    /\ t \in Callers /\ s.task[t].pc = "sent" /\ s.task[t].fut # "pending"
    /\ LET purpose == s.task[t].purpose
       IN  IF s.task[t].fut = "error" \/ purpose = "none"
           THEN s' = finish(s, t, IF s.task[t].fut = "error" THEN "KafkaConnectionError" ELSE "answer")
           ELSE \E node \in Nodes :
                  s' = finish(add_coordinator(s, node, purpose), t,
                              IF add_raises(s, purpose) THEN "KeyError" ELSE "answer")
    /\ UNCHANGED events

\* The timeout of a request: whatever connection the node has now is closed.
TimedOut(t) ==
    /\ s.task[t].pc \in {"sent", "handshake"} /\ s.task[t].fut = "pending" /\ Event("timeout")
    /\ LET g == [s EXCEPT !.link[s.task[t].link] = cancel(@, Tag(s, t)), !.task[t].fut = "cancelled"]
           k == s.conns[s.task[t].id]
       IN  s' = CASE s.task[t].pc = "handshake" -> connect_failed(g, t)
                  [] s.task[t].pc = "sent" /\ t = Sync -> finish(g, t, "timeout")
                  [] s.task[t].pc = "sent" /\ t # Sync /\ k = 0 -> finish(g, t, "KeyError")
                  [] OTHER -> finish(close(g, k, "timeout"), t, "RequestTimedOutError")

-----------------------------------------------------------------------------
(* The synchronizer                                                        *)

\* It is woken, or metadata_max_age_ms has passed.
SyncStarts ==
    /\ s.task[Sync].pc = "wait"
    /\ \/ s.waiter /\ UNCHANGED events
       \/ ~s.waiter /\ s.md_update_fut /\ UNCHANGED events
       \/ ~s.waiter /\ ~s.md_update_fut /\ Event("periodic")
    /\ s' = [s EXCEPT !.task[Sync].pc = "next", !.left = s.brokers, !.held = "same", !.asked = s.topics,
                      !.md_update_fut = TRUE]

\* _metadata_update asks the next node, in any order, or gives up.
SyncNext ==
    /\ s.task[Sync].pc = "next"
    /\ IF s.left = {} THEN s' = update_done(s)
       ELSE \E node \in s.left :
              s' = get_conn(called([s EXCEPT !.left = @ \ {node}], Sync, <<node, "default">>, TRUE, "none"), Sync)
    /\ UNCHANGED events

\* A response; one without brokers changes nothing.
SyncResumes ==
    /\ s.task[Sync].pc = "sent" /\ s.task[Sync].fut # "pending"
    /\ IF s.task[Sync].fut = "error" THEN s' = finish(s, Sync, "error") /\ UNCHANGED events
       ELSE \/ \E nodes \in mode.clusters : s' = update_done(update_metadata(s, nodes)) /\ UNCHANGED events
            \/ s' = update_done(s) /\ Event("empty")

\* _wait_on_metadata() of a topic: the first update may have begun before the
\* topic was added, so that it is looked for again after each one.
WaitOnMetadata(t) ==
    /\ idle(t)
    /\ \E topic \in mode.waits :
         LET g == [called(s, t, NoTask.id, TRUE, "none") EXCEPT !.task[t].topic = topic]
         IN  s' = IF topic \in s.partitions THEN finish(g, t, "answer")
                  ELSE [force_metadata_update(add_topic(g, topic)) EXCEPT !.task[t].pc = "update"]
    /\ UNCHANGED events

Updated(t) ==
    /\ s.task[t].pc = "updated"
    /\ LET topic == s.task[t].topic
       IN  \/ /\ topic \in s.partitions
              /\ s' = finish(s, t, "answer") /\ UNCHANGED events
           \/ /\ topic \notin s.partitions
              /\ s' = finish(s, t, "UnknownTopicOrPartition") /\ Event("expired")
           \/ /\ topic \in s.unauthorized_topics \ s.partitions
              /\ s' = finish(s, t, "TopicAuthorizationFailed") /\ UNCHANGED events
           \/ /\ topic \notin s.partitions \cup s.unauthorized_topics
              /\ s' = [s EXCEPT !.task[t].pc = "backoff"] /\ UNCHANGED events

MutWaitsForNext(t) ==
    /\ s.task[t].pc = "backoff"
    /\ s' = [s EXCEPT !.task[t].pc = "update"]
    /\ UNCHANGED events

BackoffOver(t) ==
    /\ s.task[t].pc = "backoff"
    /\ s' = [force_metadata_update(s) EXCEPT !.task[t].pc = "update"]
    /\ UNCHANGED events

-----------------------------------------------------------------------------
(* The connections                                                         *)

Open(k) == k \in DOMAIN s.link /\ s.link[k].state = "open"

\* The next frame of a connection, or one with another correlation id.
received(k, frame, g) ==
    LET h == handle_frame(g.link[k], frame)
        kept == [g EXCEPT !.link[k] = h.l]
    IN  CASE h.out = "answer" -> [resolve(kept, h.to, "answer") EXCEPT
                                    !.mixed = @ \/ \E tag \in h.to : tag # frame.tag]
          [] h.out = "out_of_sync" -> close(resolve(kept, h.to, "error"), k, "out_of_sync")
          [] OTHER -> close(kept, k, "broken")

Frame(k) ==
    /\ Open(k) /\ ~s.link[k].eof /\ s.link[k].wire # <<>>
    /\ s' = received(k, Head(s.link[k].wire), [s EXCEPT !.link[k].wire = Tail(@)])
    /\ UNCHANGED events

StrayFrame(k) ==
    /\ Open(k) /\ ~s.link[k].eof /\ Event("stray")
    /\ \E cid \in 0 .. IdBound - 1 :
         /\ s.link[k].requests # <<>> => ~Head(s.link[k].requests).raw /\ cid # Head(s.link[k].requests).cid
         /\ s' = received(k, [cid |-> cid, tag |-> <<>>], s)

\* The peer closes: first connected() is FALSE, then the reader fails.
Broken(k) ==
    /\ Open(k) /\ ~s.link[k].eof /\ Event("broken")
    /\ s' = [s EXCEPT !.link[k].eof = TRUE]

ReaderFails(k) ==
    /\ Open(k) /\ s.link[k].eof
    /\ s' = close(s, k, "broken")
    /\ UNCHANGED events

IdleDropped(k) ==
    /\ k \in DOMAIN s.link /\ may_be_idle(s.link[k]) /\ Event("idle")
    /\ s' = close(s, k, "idle")

-----------------------------------------------------------------------------
(* The application                                                         *)

AddTopic ==
    /\ Event("add_topic")
    /\ \E topic \in Topics : s' = add_topic(s, topic)

SetTopics ==
    /\ Event("set_topics")
    /\ \E topics \in SUBSET Topics : s' = set_topics(s, topics)

\* The synchronizer leaves what it waits for.
cancel_sync(g) ==
    LET task == g.task[Sync]
        left == CASE task.pc \in {"connecting", "handshake"} -> release(close(g, task.link, "none"))
                  [] task.pc = "lock" -> [g EXCEPT !.lock = SelectSeq(@, LAMBDA t : t # Sync)]
                  [] task.pc = "sent" -> [g EXCEPT !.link[task.link] = cancel(@, Tag(g, Sync))]
                  [] OTHER -> g
    IN  [finish(left, Sync, "none") EXCEPT !.task[Sync].pc = "cancelled"]

\* close(): the synchronizer is cancelled, and what is in _conns is closed.
Close ==
    /\ ~s.closed /\ Event("close")
    /\ LET registered == SetToSeq({s.conns[id] : id \in ConnIds} \ {0})
       IN  s' = [FoldLeft(LAMBDA g, k : close(g, k, "shutdown"), cancel_sync(s), registered) EXCEPT !.closed = TRUE]

-----------------------------------------------------------------------------
(* The specification                                                       *)

\* After bootstrap(): the brokers are known and no connection is kept.
Init ==
    /\ mode \in Modes
    /\ events = 0
    /\ s = [link |-> <<>>, conns |-> [id \in ConnIds |-> 0], lock |-> <<>>,
            task |-> [t \in Tasks |-> IF t = Sync THEN [NoTask EXCEPT !.pc = "wait"] ELSE NoTask],
            topics |-> mode.topics, held |-> "none", old |-> {}, asked |-> {}, partitions |-> {}, unauthorized_topics |-> {},
            brokers |-> mode.brokers, left |-> {}, waiter |-> FALSE, md_update_fut |-> FALSE,
            coordinators |-> {}, coordinator_by_key |-> [p \in Purposes |-> NoNode],
            closed |-> FALSE, mixed |-> FALSE]

TaskStep(t) ==
    \/ Send(t) \/ Lookup(t) \/ Locked(t) \/ Connected(t) \/ ConnectFails(t) \/ HandshakeResumes(t)
    \/ Resume(t) \/ TimedOut(t) \/ WaitOnMetadata(t) \/ Updated(t) \/ BackoffOver(t)

SyncStep == SyncStarts \/ SyncNext \/ SyncResumes

LinkStep(k) == Frame(k) \/ StrayFrame(k) \/ Broken(k) \/ ReaderFails(k) \/ IdleDropped(k)

Step ==
    \/ \E t \in Tasks : TaskStep(t)
    \/ \E k \in 1 .. MaxLinks : LinkStep(k)
    \/ SyncStep \/ AddTopic \/ SetTopics \/ Close

Next == Step /\ UNCHANGED mode

Spec == Init /\ [][Next]_vars

\* The event loop runs what is ready, brokers answer, and readers see that a
\* connection was lost.
Runs(t) ==
    \/ Locked(t) \/ Connected(t) \/ HandshakeResumes(t) \/ Resume(t) \/ Updated(t) \/ BackoffOver(t)
    \/ t = Sync /\ (SyncStarts \/ SyncNext \/ SyncResumes)

Fairness ==
    /\ \A t \in Tasks : WF_dynamic(Runs(t))
    /\ \A k \in 1 .. MaxLinks : WF_dynamic(Frame(k) \/ ReaderFails(k))

FairSpec == Spec /\ Fairness

-----------------------------------------------------------------------------
(* Properties                                                              *)

\* A response is given to the request it answers, whatever was timed out,
\* written without a response or lost before on the connection.
AnswersMatch == ~s.mixed

\* Nobody waits for a future that no connection will resolve: close() has failed
\* what it dropped.
WaitsOnLive ==
    \A t \in Tasks : s.task[t].fut = "pending" =>
      \E k \in DOMAIN s.link : s.link[k].state = "open" /\ Tag(s, t) \in pending(s.link[k])

\* Until close(), a connection that is up is the one _conns has for its node, or
\* the one the holder of the lock is making: none leaks and no node has two.
NoneLeaks ==
    ~s.closed => \A k \in DOMAIN s.link :
      \/ s.link[k].state = "closed" \/ s.link[k].eof
      \/ s.conns[s.link[k].id] = k
      \/ s.lock # <<>> /\ s.task[Head(s.lock)].link = k

\* A producer that waits for the metadata of a topic hears of it, though an update
\* that had begun before it added the topic does not list it, nodes fail and a
\* timeout may have started the update.
TopicsFound ==
    \A t \in Callers : []<>(s.task[t].pc \notin {"update", "updated", "backoff"} \/ s.closed)
=============================================================================

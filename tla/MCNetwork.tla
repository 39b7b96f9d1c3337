------------------------------ MODULE MCNetwork ------------------------------
(* Instances of Network for TLC. *)
EXTENDS Network

CONSTANTS n1, n2, c1, c2, group, txn

To(nodes) == nodes \X {"default"}

Mode(ids, kinds, max) ==
    [ids |-> ids, expects |-> {TRUE}, purposes |-> {}, waits |-> {}, unauthorized |-> {}, handshake |-> <<>>,
     sends |-> 2, topics |-> {}, brokers |-> Nodes, clusters |-> {Nodes}, events |-> kinds, max |-> max]

\* Requests on one connection, which breaks, falls silent or delivers a frame with
\* a wrong id.
Requests == [Mode(To({n1}), {"timeout", "stray", "broken"}, 2)
               EXCEPT !.brokers = {n1}, !.clusters = {{n1}}]

\* The handshake of a SASL connection of an old broker, with bare tokens.
Handshakes == [Mode(To({n1}), {"timeout", "refused", "connect", "broken"}, 2)
                 EXCEPT !.handshake = <<"versions", "handshake", "token">>, !.sends = 1, !.brokers = {n1},
                        !.clusters = {{n1}}]

\* Metadata that changes the brokers, and a consumer's topics that change during
\* an update.
Updates == [Mode({}, {"periodic", "set_topics", "timeout", "connect"}, 2)
              EXCEPT !.clusters = {{n1}, Nodes}]

\* Producers that wait for topics, one of which they may not see.
Waiting == [Mode({}, {"periodic", "add_topic", "timeout", "empty", "expired"}, 2)
              EXCEPT !.sends = 1, !.waits = {"a", "b"}, !.unauthorized = {"b"}, !.brokers = {n1}, !.clusters = {{n1}}]

\* Two purposes whose coordinators may be on one node.
Coordinators == [Mode(Nodes \X {"coordination"}, {"idle"}, 1) EXCEPT !.purposes = Purposes, !.brokers = {n1},
                   !.clusters = {{n1}}]

\* The client is closed among requests with and without a response.
Closing == [Mode(To({n1}), {"close", "broken", "timeout"}, 2) EXCEPT !.expects = BOOLEAN, !.sends = 1]

NetworkModes == {Requests, Handshakes, Updates, Waiting, Coordinators, Closing}
=============================================================================

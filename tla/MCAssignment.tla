---------------------------- MODULE MCAssignment ----------------------------
(* Instances of Assignment for TLC. *)
EXTENDS Assignment

Mode(assignor, sizes, bound) ==
    [assignor |-> assignor, counted |-> {}, shared |-> {}, cluster |-> sizes, descending |-> {FALSE}, changes |-> bound]

\* Changes one after the other; more partitions; members of clients that count
\* generations; two members in one process.
AssignModes ==
    {Mode("range", <<3, 2>>, 3), Mode("roundrobin", <<3, 2>>, 3), Mode("sticky", <<2, 2>>, 4),
     [Mode("sticky", <<3, 2>>, 3) EXCEPT !.shared = {1, 2}],
     [Mode("sticky", <<3, 3>>, 3) EXCEPT !.descending = BOOLEAN],
     [Mode("sticky", <<3, 2>>, 3) EXCEPT !.descending = BOOLEAN, !.counted = Members_]}
=============================================================================

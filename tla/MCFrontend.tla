----------------------------- MODULE MCFrontend -----------------------------
(***************************************************************************)
(* Two clients of a node in a cluster of three, for TLC.                   *)
(***************************************************************************)
EXTENDS Frontend

CONSTANTS n1, n2, n3, c1, c2, set1, set2, del

K1 == <<"k1">>
K2 == <<"k2">>
V1 == <<"v1">>
V2 == <<"CR", "LF">>    \* a value that holds the line separator

MCKey == {K1, K2}
MCValue == {V1, V2}
MCDecode == set1 :> [op |-> "Set", key |-> K1, value |-> V1]
            @@ set2 :> [op |-> "Set", key |-> K1, value |-> V2]
            @@ del :> [op |-> "Del", keys |-> {K1, K2}]

-----------------------------------------------------------------------------
(* Requests *)

asArray(ws) == Array([i \in DOMAIN ws |-> Bulk(ws[i])])

Request(f, wire, good) == [frame |-> f, wire |-> wire, good |-> good]
AsIs(f, good) == Request(f, encode(f), good)
AsArray(ws, good) == AsIs(asArray(ws), good)
Inline(ws, good) ==
    Request(asArray(ws),
          FlattenSeq([i \in DOMAIN ws |-> ws[i] \o <<IF i = Len(ws) THEN "CR" ELSE "SP">>])
            \o <<"LF">>,
          good)

NotTaken == {Error(<<"ERR", "CLUSTERDOWN">>)} \cup {Error(<<"ERR", "MOVED", n>>) : n \in Node}
OnSet == NotTaken \cup {Simple(<<"OK">>)}
OnDel == NotTaken \cup {Integer(1)}
OnGet == {Null, Bulk(V1), Bulk(V2)}
OnStatus == {Bulk(<<n1, r, ToString(t), l, ToString(k), "3">>) :
                r \in Role, t \in 0..2, l \in Node \cup {None}, k \in 0..2}
Fails(message) == {Error(<<"ERR">> \o message)}

Set1 == <<<<"SET">>, K1, V1>>
Set2 == <<<<"set">>, K1, V2>>
Get  == <<<<"GET">>, K1>>
Del  == <<<<"DEL">>, K1, K2>>

-----------------------------------------------------------------------------
(* Scripts *)

\* Segments of n units.
Cut(wire, n) == [i \in 1..(Len(wire) + n - 1) \div n |->
                    SubSeq(wire, n * (i - 1) + 1, Min({n * i, Len(wire)}))]

Patient(rs, n) == [requests |-> rs, segments |-> Cut(Wire(rs), n), leaves |-> FALSE]
Leaving(rs, n) == [Patient(rs, n) EXCEPT !.leaves = TRUE]

Scenario(s1, s2, t, k, foreign) ==
    [script |-> c1 :> s1 @@ c2 :> s2, max_term |-> t, max_log |-> k, foreign |-> foreign]

Silent == Patient(<<>>, 1)

\* A write and a read beside a deletion.
Race == Scenario(Patient(<<Inline(Set1, OnSet), Inline(Get, OnGet)>>, 12),
                 Patient(<<Inline(Del, OnDel)>>, 7), 2, 1, {set2})

\* A write and a read that may be cut anywhere, by a client that may hang up.
Pieces == Scenario(Leaving(<<AsArray(Set2, OnSet), Inline(<<<<"get">>, K1>>, OnGet)>>, 1),
                   Silent, 2, 1, {set2})

\* Requests of every other form, in segments that do not end where they do.
Odd == Scenario(Patient(<<Inline(<<<<"PING">>>>, {Simple(<<"PONG">>)}),
                          AsArray(<<<<"PING">>, V2>>, {Bulk(V2)}),
                          Inline(<<<<"CLUSTER">>, <<"NODES">>>>,
                                 {Array([i \in 1..3 |-> Bulk(<<SetToSeq(Node)[i]>>)])}),
                          Inline(<<<<"COMMAND">>>>, {Array(<<>>)}),
                          AsArray(<<>>, Fails(<<"Protocol">>)), AsIs(Null, Fails(<<"Protocol">>)),
                          AsIs(Array(<<Bulk(<<"GET">>), Integer(1)>>), Fails(<<"Protocol">>)),
                          Inline(Append(Set1, V1), Fails(<<"WrongArity">>)),
                          Inline(<<<<"NO">>>>, Fails(<<"UnknownCommand", "NO">>)),
                          Inline(<<<<"CLUSTER">>>>, Fails(<<"UnknownCommand", "CLUSTER">>)),
                          Inline(<<<<"CLUSTER">>, <<"status">>>>, OnStatus),
                          AsArray(<<V2>>, Fails(<<"UnknownCommand">> \o V2)),
                          Request(Invalid, <<"$", "1", "CR", "LF", "x", "y", "LF">>, {})>>, 20),
                Silent, 1, 1, {set2})

\* Peers that may do more, beside a write and a read.
Upheaval == Scenario(Patient(<<Inline(Set1, OnSet), Inline(Get, OnGet)>>, 12), Silent,
                     3, 2, {set2})

MCScenarios == {Race, Pieces, Odd, Upheaval}

=============================================================================

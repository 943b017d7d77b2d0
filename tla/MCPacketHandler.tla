--------------------------- MODULE MCPacketHandler ---------------------------
(* One zone with a wildcard, a name, a name below it and a wildcard there; a child zone    *)
(* may be hosted as well.                                                                  *)
EXTENDS PacketHandler, TLC

CONSTANT Deep   \* TRUE: delegations two labels below the apex only

z == <<"z">>
a == <<"a", "z">>
ba == <<"b", "a", "z">>
star == <<"*", "z">>
stara == <<"*", "a", "z">>
out == <<"o">>

A == [type |-> "A", to |-> <<>>]
Soa == [type |-> "SOA", to |-> <<>>]
NS(n) == [type |-> "NS", to |-> n]
CNAME(n) == [type |-> "CNAME", to |-> n]

NodesA == {{}, {A}, {NS(ba)}, {CNAME(a)}, {CNAME(ba)}, {CNAME(out)}, {A, NS(ba)}}
NodesB == {{}, {A}, {NS(ba)}, {CNAME(a)}, {A, NS(ba)}}
Wilds == {{}, {A}, {CNAME(ba)}, {CNAME(a)}}

Parent(na, nb, w, wa) == [n \in {z, a, ba, star, stara} |->
                            CASE n = z -> {Soa, NS(ba)} [] n = a -> na [] n = ba -> nb
                              [] n = star -> w [] n = stara -> wa]
Parents == {Parent(na, nb, w, wa) : na \in NodesA, nb \in NodesB, w \in Wilds, wa \in {{}, {A}, {CNAME(a)}}}
Delegating == {Parent({NS(ba)}, nb, w, {}) : nb \in NodesB, w \in Wilds}
DeepParents == {[n \in {z, a, ba} |->
                CASE n = z -> {Soa, NS(ba)} [] n = a -> {A} [] n = ba -> nb] :
                nb \in {{}, {A}, {NS(ba)}}}
Child == [n \in {a, ba} |-> IF n = a THEN {Soa, NS(ba)} ELSE {A}]

MCDatabases == IF Deep THEN {z :> d : d \in DeepParents}
               ELSE {z :> d : d \in Parents} \cup {(z :> d) @@ (a :> Child) : d \in Delegating}

MCSettings == {[rootReferral |-> "no", outOfZone |-> TRUE], [rootReferral |-> "yes", outOfZone |-> FALSE],
               [rootReferral |-> "lean", outOfZone |-> TRUE]}
MCRootServers == {<<"r">>}

MCQuestions == [opcode : {"query"}, name : {a, ba, <<"x", "b", "a", "z">>, <<"x", "z">>},
                type : {"A", "CNAME", "ANY"}]
               \cup [opcode : {"query"}, name : {z, out}, type : {"SOA", "IXFR"}]
               \cup [opcode : {"answer", "badname", "update", "other", "notify"}, name : {z}, type : {"SOA"}]
=============================================================================

----------------------------- MODULE MCSyncRes -----------------------------
(* Zones z and o below the root, in seven worlds. *)
EXTENDS SyncRes, TLC

z == <<"z">>
o == <<"o">>
In(l, d) == <<l>> \o d

NSz == In("ns", z)
NSo == In("ns", o)
NSo2 == In("ns2", o)
NSo3 == In("ns3", o)
RootNS == <<"r">>

\* addresses, of the same shape as names
rip == <<"192.0.2.1">>
zip == <<"192.0.2.2">>
oip == <<"192.0.2.3">>
w1 == <<"192.0.2.4">>
w2 == <<"192.0.2.5">>
bad == <<"192.0.2.6">>
private == <<"10.0.0.1">>

MCHints == [name |-> RootNS, ip |-> rip]

World(nsz, nso, cname, serves, careless, lies) ==
    [ns |-> (<<>> :> {RootNS}) @@ (z :> nsz) @@ (o :> nso),
     a |-> {<<RootNS, rip>>, <<NSz, zip>>, <<NSo, oip>>, <<NSo2, oip>>, <<NSo3, private>>,
            <<In("www", z), w1>>, <<In("www", o), w2>>},
     cname |-> cname, serves |-> serves, careless |-> careless, lies |-> lies]

Proper == {<<rip, <<>>>>, <<zip, z>>, <<oip, o>>}
Alias == {<<In("al", z), In("www", o)>>}

MCWorlds == {
    \* glue everywhere
    World({NSz}, {NSo}, Alias, Proper, {}, {}),
    \* z is served from o
    World({NSo}, {NSo, NSo2}, Alias, Proper \cup {<<oip, z>>}, {}, {}),
    \* both zones are served by both, and the server of o is lame for z
    World({NSz, NSo}, {NSo}, Alias, Proper, {}, {}),
    \* each zone is served from the other
    World({NSo}, {NSz}, {}, {<<rip, <<>>>>, <<zip, o>>, <<oip, z>>}, {}, {}),
    \* a server of o has an address that is not to be queried
    World({NSz}, {NSo, NSo3}, Alias, Proper \cup {<<private, o>>}, {}, {}),
    \* aliases of each other
    World({NSz}, {NSo}, {<<In("al", z), In("al", o)>>, <<In("al", o), In("al", z)>>}, Proper, {}, {}),
    \* the server of z speaks of what it has no say in
    World({NSz}, {NSo}, Alias, Proper, {zip},
          {Rec("answer", In("www", o), "A", bad), Rec("additional", NSo, "A", bad),
           Rec("authority", o, "NS", NSz), Rec("authority", <<>>, "NS", NSz)})}

MCDontQuery == {private}

MCQuestions == {In("www", z), In("www", o), In("al", z), In("no", o), o}
=============================================================================

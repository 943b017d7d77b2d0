----------------------------- MODULE Inflighter -----------------------------
(***************************************************************************)
(* Inflighter::run(), with which slaveRefresh asks the masters of many      *)
(* zones for their serials at once, and the SlaveSenderReceiver that sends  *)
(* and receives for it.  Answers come over UDP: they are lost, repeated and *)
(* reordered, and one that cannot be used makes receive() throw, after      *)
(* which slaveRefresh simply calls run() again.                             *)
(*                                                                          *)
(* A query in flight expires three seconds after it was sent, but is only   *)
(* looked for when half a second has passed without a packet.  Time itself  *)
(* is left out: such a silence may come at any moment, or never, and the    *)
(* cleanup after it removes any number of the oldest queries.               *)
(***************************************************************************)
EXTENDS Integers, Sequences, SequencesExt

CONSTANTS
    Zones,        \* the zones this server knows or may come to know
    Ids,          \* query IDs (dns_random(0xffff))
    MaxInFlight,  \* d_maxInFlight
    Burst         \* d_burst

ASSUME InflighterAssumption ==
    MaxInFlight \in Nat \ {0} /\ Burst \in Nat \ {0}

VARIABLES
    todo,     \* the zones from d_iter to the end of the container
    watch,    \* d_ttdWatch in the order of its time index
    burst,    \* queries sent in this round of the loop
    queries,  \* queries that reached, or may yet reach, a master
    net,      \* answers under way to our socket
    quiet     \* receive() has returned 0: run() is about to clean up

inflightVars == <<todo, watch, burst, queries, net, quiet>>

\* A TTDItem: its Identifier, and the master in front of the shuffled list.
TTDItem(M) == [zone : Zones, id : Ids, master : M]

InflighterIdle ==
    todo = {} /\ watch = <<>> /\ burst = 0 /\ queries = {} /\ net = {} /\ quiet = FALSE

\* A new SlaveSenderReceiver has a socket of its own: nothing that was meant for
\* the one of an earlier cycle reaches it.
InflighterStart(S) ==
    /\ todo' = S /\ watch' = <<>> /\ burst' = 0
    /\ queries' = {} /\ net' = {} /\ quiet' = FALSE

\* Mutated CanSend: the burst is counted after the comparison.
CanSendLate == todo # {} /\ Len(watch) < MaxInFlight /\ burst <= Burst

\* Condition of the sending loop, with the break at the end of a burst.
CanSend == todo # {} /\ Len(watch) < MaxInFlight /\ burst < Burst

\* d_iter++ and send(): sendResolve to the first of the (shuffled) masters.
Send(z, m, id) ==
    /\ CanSend /\ z \in todo
    /\ todo' = todo \ {z}
    /\ watch' = Append(watch, [zone |-> z, id |-> id, master |-> m])
    /\ queries' = queries \cup {[zone |-> z, id |-> id, master |-> m]}
    /\ burst' = burst + 1
    /\ UNCHANGED <<net, quiet>>

\* send() throws (no route, unusable address): d_iter is past the zone already,
\* and the next call of run() starts a new round.
SendThrows(z) ==
    /\ CanSend /\ z \in todo
    /\ todo' = todo \ {z}
    /\ burst' = 0
    /\ UNCHANGED <<watch, queries, net, quiet>>

Receiving == ~CanSend /\ watch # <<>> /\ ~quiet

\* waitForData finds nothing for half a second.
Silence ==
    /\ Receiving /\ quiet' = TRUE
    /\ UNCHANGED <<todo, watch, burst, queries, net>>

\* Mutated Matches: an answer is matched by its ID alone.
MatchesID(e, a) == e.id = a.id

\* d_ttdWatch.find(id): an Identifier is the zone's name and the query's ID.
Matches(e, a) == e.zone = a.zone /\ e.id = a.id

\* The position in watch of the query that an answer belongs to.
Found(a) == {i \in DOMAIN watch : Matches(watch[i], a)}

\* An answer that tryGetSOASerial can use and whose query is in flight: the
\* round ends, so that new questions can be sent.
ReceiveMatch(a, i) ==
    /\ Receiving /\ a \in net /\ i \in Found(a)
    /\ net' = net \ {a}
    /\ watch' = RemoveAt(watch, i)
    /\ burst' = 0
    /\ UNCHANGED <<todo, queries, quiet>>

\* d_unexpectedResponse: the answer is dropped and the next one is read.
ReceiveUnexpected(a) ==
    /\ Receiving /\ a \in net /\ Found(a) = {}
    /\ net' = net \ {a}
    /\ UNCHANGED <<todo, watch, burst, queries, quiet>>

\* tryGetSOASerial throws: a packet without an answer section, of another type or that
\* cannot be parsed, be it from a master or a stray one.  The query stays in flight;
\* run() starts again.
ReceiveThrows ==
    /\ Receiving
    /\ burst' = 0
    /\ UNCHANGED <<todo, watch, queries, net, quiet>>

\* Mutated Cleanup: a query that is given up stays in the index.
CleanupKept(n) ==
    /\ quiet /\ quiet' = FALSE /\ n \in 0..Len(watch)
    /\ burst' = 0
    /\ UNCHANGED <<todo, watch, queries, net>>

\* After half a second without a packet: the n oldest queries are past their ttd and
\* are given up.
Cleanup(n) ==
    /\ quiet /\ quiet' = FALSE /\ n \in 0..Len(watch)
    /\ watch' = SubSeq(watch, n + 1, Len(watch))
    /\ burst' = 0
    /\ UNCHANGED <<todo, queries, net>>

\* The condition under which run() returns.
InflighterDone == todo = {} /\ watch = <<>>

\* A master answers a query, now or later, and possibly again, with the serial it has.
MasterAnswers(q, serial) ==
    /\ q \in queries
    /\ net' = net \cup {[zone |-> q.zone, id |-> q.id, serial |-> serial]}
    /\ UNCHANGED <<todo, watch, burst, queries, quiet>>
=============================================================================

------------------------------ MODULE DNSProxy ------------------------------
(***************************************************************************)
(* The recursion proxy of the authoritative server (dnsproxy.cc): queries  *)
(* the server cannot answer itself are forwarded over one UDP socket to a   *)
(* recursing backend, and a connection-tracking table indexed by the DNS    *)
(* ID of the forwarded packet remembers whom the answer belongs to.         *)
(*                                                                          *)
(* A query stands for one client packet: its address, socket and original   *)
(* ID.  The network and the backend are external: they may lose, delay,     *)
(* reorder and duplicate packets.                                           *)
(***************************************************************************)
EXTENDS Integers, Sequences, FiniteSets

CONSTANTS
    Queries,     \* the recursive queries clients send during a run
    Allowed,     \* those whose source matches allow-recursion (d_ng)
    IdSpace,     \* number of values of the 16-bit DNS ID (65536 in the code)
    Timeout,     \* seconds after which an unanswered ID is stale (60)
    MaxTime,     \* bound on the clock
    XorMask(_),  \* x -> x ^ d_xor
    NoQuery      \* no query

ASSUME IdSpaceAssumption == IdSpace \in Nat \ {0}
ASSUME TimeoutAssumption == Timeout \in Nat /\ MaxTime \in Nat
ASSUME AllowedAssumption == Allowed \subseteq Queries /\ NoQuery \notin Queries
\* Exclusive-or with a fixed mask stays within the IDs and undoes itself.
ASSUME XorAssumption == \A i \in 0..(IdSpace - 1) :
                            /\ XorMask(i) \in 0..(IdSpace - 1)
                            /\ XorMask(XorMask(i)) = i

VARIABLES
    now,         \* time(0)
    conntrack,   \* d_conntrack: the entry of each ID
    pc,          \* where the thread that forwards each query is
    tracked,     \* the local variable id of sendPacket, per query
    toBackend,   \* forwarded packets on their way to the backend
    toProxy,     \* answers on their way back
    got,         \* per query, the queries whose answers its client was sent
    cached,      \* queries whose answers the proxy has put into the packet cache
    fate         \* per query, how its table entry was last given up (history)

vars == <<now, conntrack, pc, tracked, toBackend, toProxy, got, cached, fate>>

Ids == 0..(IdSpace - 1)

\* map<int,ConntrackEntry>: an absent entry has no query.  created = 0 marks an
\* entry whose answer has been relayed.
Entry == [query : Queries \cup {NoQuery}, created : 0..(Timeout + 1 + MaxTime)]
Packet == [id : Ids, query : Queries]
Absent == [query |-> NoQuery, created |-> 0]

\* The clock starts late enough for time(0)-60 to be positive, as it is in reality.
Init ==
    /\ now = Timeout + 1
    /\ conntrack = [i \in Ids |-> Absent]
    /\ pc = [q \in Queries |-> "new"]
    /\ tracked = [q \in Queries |-> 0]
    /\ toBackend = {}
    /\ toProxy = {}
    /\ got = [q \in Queries |-> <<>>]
    /\ cached = {}
    /\ fate = [q \in Queries |-> "none"]

\* The entry of ID i may not be reused: it is present and not older than the timeout.
Held(i) == conntrack[i].query # NoQuery /\ conntrack[i].created >= now - Timeout

\* getID_locked: the first n that is unused or stale.  n is an int: when every
\* ID is held the scan stops at IdSpace, which find() does not know.
getID_locked ==
    IF \E n \in Ids : ~Held(n)
    THEN CHOOSE n \in Ids : ~Held(n) /\ \A m \in 0..(n - 1) : Held(m)
    ELSE IdSpace

\* The narrowing of the int to uint16_t in sendPacket.
ToUint16(n) == IF n = IdSpace THEN 0 ELSE n

\* Why the entry of ID i is given up when another query takes the ID over.
Reason(i) ==
    IF Held(i) THEN "displaced"
    ELSE IF conntrack[i].created = 0 THEN "closed" ELSE "expired"

\* recurseFor: does the source of the packet match allow-recursion?
recurseFor(q) == q \in Allowed

\* Mutated NewEntry: the time of expiry is stored where the code stores the
\* time of creation.
NewEntryExpiry(q) == [query |-> q, created |-> now + Timeout]

\* The ConntrackEntry sendPacket fills in.
NewEntry(q) == [query |-> q, created |-> now]

\* sendPacket up to the end of the locked block: reserve an ID and record the
\* client.  A query from a disallowed source is not forwarded.
Track(q) ==
    /\ pc[q] = "new"
    /\ \/ /\ ~recurseFor(q)
          /\ pc' = [pc EXCEPT ![q] = "refused"]
          /\ UNCHANGED <<conntrack, tracked, fate>>
       \/ /\ recurseFor(q)
          /\ LET id == ToUint16(getID_locked)
                 old == conntrack[id].query
             IN  /\ conntrack' = [conntrack EXCEPT ![id] = NewEntry(q)]
                 /\ tracked' = [tracked EXCEPT ![q] = id]
                 /\ fate' = [p \in Queries |->
                                IF p = q THEN "tracked"
                                ELSE IF p = old THEN Reason(id) ELSE fate[p]]
          /\ pc' = [pc EXCEPT ![q] = "tracked"]
    /\ UNCHANGED <<now, toBackend, toProxy, got, cached>>

\* sendPacket after the lock is released: the packet leaves under the masked
\* ID; a failing send() is logged and otherwise ignored.
Transmit(q) ==
    /\ pc[q] = "tracked"
    /\ pc' = [pc EXCEPT ![q] = "sent"]
    /\ \/ toBackend' = toBackend \cup {[id |-> XorMask(tracked[q]), query |-> q]}
       \/ UNCHANGED toBackend
    /\ UNCHANGED <<now, conntrack, tracked, toProxy, got, cached, fate>>

\* External: the backend answers a packet it received.  The packet may be kept
\* (the network duplicated it) or consumed.
BackendAnswer(p) ==
    /\ p \in toBackend
    /\ toProxy' = toProxy \cup {p}
    /\ toBackend' \in {toBackend, toBackend \ {p}}
    /\ UNCHANGED <<now, conntrack, pc, tracked, got, cached, fate>>

\* Mutated Unmask: the ID on the wire is used as it is.
UnmaskNothing(p) == p.id

\* The key mainloop looks up: d.id ^ d_xor.
Unmask(p) == XorMask(p.id)

\* Mutated Answered: the entry is not marked.
AnsweredUnmarked(e) == e

\* The entry once its answer was relayed.
Answered(e) == [e EXCEPT !.created = 0]

\* mainloop on one packet of at least 12 bytes: unknown IDs and duplicates are
\* discarded; otherwise the answer, with the client's own ID put back, is sent
\* to the client of the entry, put into the packet cache under the question it
\* repeats, and the entry is marked answered.  insert() drops it when the cache is
\* locked, or when it has not one question of class IN.
Receive(p) ==
    /\ p \in toProxy
    /\ toProxy' \in {toProxy, toProxy \ {p}}
    /\ LET i == Unmask(p)
           owner == conntrack[i].query
       IN  \/ /\ owner = NoQuery \/ conntrack[i].created = 0
              /\ UNCHANGED <<conntrack, got, cached>>
           \/ /\ owner # NoQuery /\ conntrack[i].created # 0
              /\ got' = [got EXCEPT ![owner] = Append(@, p.query)]
              /\ cached' \in {cached, cached \cup {p.query}}
              /\ conntrack' = [conntrack EXCEPT ![i] = Answered(@)]
    /\ UNCHANGED <<now, pc, tracked, toBackend, fate>>

Tick ==
    /\ now < Timeout + 1 + MaxTime
    /\ now' = now + 1
    /\ UNCHANGED <<conntrack, pc, tracked, toBackend, toProxy, got, cached, fate>>

Next ==
    \/ \E q \in Queries : Track(q) \/ Transmit(q)
    \/ \E p \in toBackend : BackendAnswer(p)
    \/ \E p \in toProxy : Receive(p)
    \/ Tick

Spec == Init /\ [][Next]_vars
-----------------------------------------------------------------------------
\* The types of the proxy's state (dnsproxy.hh:68-85).
TypeOK ==
    /\ now \in (Timeout + 1)..(Timeout + 1 + MaxTime)
    /\ conntrack \in [Ids -> Entry]
    /\ pc \in [Queries -> {"new", "refused", "tracked", "sent"}]
    /\ tracked \in [Queries -> Ids]
    /\ toBackend \subseteq Packet
    /\ toProxy \subseteq Packet
    /\ got \in [Queries -> Seq(Queries)]
    /\ cached \subseteq Queries
    /\ fate \in [Queries -> {"none", "tracked", "closed", "expired", "displaced"}]

\* However often the backend or the network repeats an answer, mainloop relays
\* at most one packet to the client of each forwarded query.
AtMostOneAnswer == \A q \in Queries : Len(got[q]) <= 1

\* mainloop sends a client the answer to somebody else's query only when the
\* latter's entry was given up before its answer arrived: closed by an earlier
\* packet under the same ID, expired after Timeout seconds, or displaced
\* because no ID was left.
MisdeliveryNeedsReuse ==
    \A q \in Queries : \A k \in DOMAIN got[q] :
        got[q][k] # q => fate[got[q][k]] \in {"closed", "expired", "displaced"}

\* sendPacket takes over an ID that is still held only when every ID is held.
ReuseOnlyWhenFull ==
    [][\A i \in Ids : Held(i) /\ conntrack'[i].query # conntrack[i].query
                        => \A j \in Ids : Held(j)]_vars

\* An entry belongs to the query that took its ID last, and is marked answered
\* exactly when its client was sent something.
EntriesOwned ==
    \A i \in Ids : LET q == conntrack[i].query IN
        q # NoQuery =>
           /\ tracked[q] = i
           /\ fate[q] = "tracked"
           /\ (conntrack[i].created # 0) <=> (got[q] = <<>>)

\* A query keeps its entry until it is given up, and was let in by recurseFor.
FatesFollow ==
    \A q \in Queries :
        /\ fate[q] = "tracked" => conntrack[tracked[q]].query = q
        /\ fate[q] = "none" <=> pc[q] \in {"new", "refused"}
        /\ fate[q] = "none" => got[q] = <<>>
        /\ fate[q] # "none" => q \in Allowed

\* A packet in flight, however old, carries the masked ID of its query.
PacketsMatch ==
    \A p \in toBackend \cup toProxy :
        pc[p.query] = "sent" /\ p.id = XorMask(tracked[p.query])

\* Only an answer that some client was sent is in the packet cache: what comes for
\* an entry that is closed or unknown does not get there.
CachedWasRelayed == \A c \in cached : \E q \in Queries : got[q] = <<c>>

\* The bookkeeping that sendPacket's callers and mainloop share: the table, the
\* local IDs of the senders, the packets on the wire and the packet cache agree at
\* every step.
TableConsistent == EntriesOwned /\ FatesFollow /\ PacketsMatch /\ CachedWasRelayed
=============================================================================

--------------------------- MODULE SlaveTransfer ---------------------------
(***************************************************************************)
(* A slave keeping its zones up to date: slaveRefresh asks the masters for  *)
(* their serials (module Inflighter) and queues the zones that are behind,  *)
(* processNotify does so for a zone whose master sent a NOTIFY, and suck    *)
(* transfers the queued zones one at a time into a transaction of the       *)
(* generic SQL backend.  The process may end at any point and is restarted; *)
(* the database, which outlives it, rolls back what was not committed.      *)
(*                                                                          *)
(* How requests get in and out of the queue under its lock and semaphores   *)
(* is module Communicator; here each is one step.                           *)
(***************************************************************************)
EXTENDS Inflighter, FiniteSets

CONSTANTS
    Masters,       \* addresses of masters
    MastersOf,     \* the sequence of masters configured for each zone
    Proxies,       \* trusted-notification-proxy
    SuperMasters,  \* masters with a matching NS record in the supermasters table
    Known,         \* zones configured at the start
    Handlers,      \* packet handler threads, which run processNotify
    Body,          \* per version: what its records between the two SOAs are
    MaxVersion,    \* bound: the last version the masters of a zone publish
    SerialMod,     \* serials are numbers modulo this (2^32)
    MaxChunk,      \* bound: records in one packet of a transfer
    MaxQueue       \* bound: refreshes and notifications stop at this length

RecordKinds == {"in", "out", "unknown"}

ASSUME ZoneAssumption ==
    /\ Known \subseteq Zones
    /\ MastersOf \in [Zones -> Seq(Masters) \ {<<>>}]
    /\ Proxies \subseteq Masters /\ SuperMasters \subseteq Masters
ASSUME VersionAssumption ==
    /\ Body \in Seq(Seq(RecordKinds))
    /\ MaxVersion \in [Zones -> 1..Len(Body)]
    /\ SerialMod \in Nat \ {0}
ASSUME BoundAssumption == MaxChunk \in Nat /\ MaxQueue \in Nat

VARIABLES
    mver,    \* the version each master has of each of its zones; 0: not its zone
    zone,    \* the committed records of each zone
    txn,     \* the records inserted by the open transaction
    open,    \* whether a transaction is open
    known,   \* zones in the domains table
    fresh,   \* zones whose refresh interval has not passed since last_check
    queue,   \* d_suckdomains
    pc,      \* where the communicator's main loop is
    serials, \* SlaveSenderReceiver::d_serials
    judging, \* zones slaveRefresh has still to compare
    xfer,    \* the transfer suck() is working on
    hand,    \* per handler, the NOTIFY it is working on
    floor    \* history: during a refresh, mver as it was at its start

storeVars == <<mver, zone, txn, open, known, fresh>>
loopVars == <<queue, pc, serials, judging, xfer>>
vars == <<storeVars, loopVars, hand, floor, inflightVars>>

NoSerial == -1
NoAnswer == [serial |-> NoSerial]
NoTransfer == [zone |-> "none"]
Idle == [state |-> "idle"]
NoFloor == [m \in Masters |-> [z \in Zones |-> 0]]
MasterSet(z) == ToSet(MastersOf[z])

\* What the process has in memory when it starts.
Fresh0 ==
    /\ queue' = <<>> /\ pc' = "start"
    /\ serials' = [z \in Zones |-> NoAnswer] /\ judging' = {}
    /\ xfer' = NoTransfer
    /\ hand' = [h \in Handlers |-> Idle]
    /\ InflighterStart({})

Init ==
    /\ mver = [m \in Masters |-> [z \in Zones |-> IF m \in MasterSet(z) THEN 1 ELSE 0]]
    /\ zone = [z \in Zones |-> {}]
    /\ txn = {} /\ open = FALSE
    /\ known = Known /\ fresh = {}
    /\ queue = <<>> /\ pc = "start"
    /\ serials = [z \in Zones |-> NoAnswer] /\ judging = {}
    /\ xfer = NoTransfer
    /\ hand = [h \in Handlers |-> Idle]
    /\ floor = NoFloor
    /\ InflighterIdle
-----------------------------------------------------------------------------
(* Zones and their versions.                                                 *)

\* The serial of version v; the comparisons of the code see nothing else of it.
Serial(v) == v % SerialMod

\* Position i of the stream of version v: 0 and Len + 1 are the SOA record.
StreamLength(v) == Len(Body[v]) + 2
IsSOA(v, i) == i \in {0, Len(Body[v]) + 1}
InZone(v, i) == IsSOA(v, i) \/ Body[v][i] # "out"

Record(m, v, i) == [from |-> m, ver |-> v, idx |-> i]

\* The records of version v at m from position a up to, not including, b.
Records(m, v, a, b) ==
    {Record(m, v, i) : i \in {j \in a..(b - 1) : InZone(v, j)}}

\* The zone as the master has it: the SOA once and everything in the zone.
Content(m, z, v) == Records(m, v, 0, Len(Body[v]) + 1)

\* getSOA in the backend: serial 0 for a zone without a SOA record.
StoredVersion(z) ==
    IF \E r \in zone[z] : r.idx = 0
    THEN (CHOOSE r \in zone[z] : r.idx = 0).ver
    ELSE 0

\* A master loads a new version of a zone.
Publish(m, z) ==
    /\ m \in MasterSet(z) /\ mver[m][z] < MaxVersion[z]
    /\ mver' = [mver EXCEPT ![m][z] = @ + 1]
    /\ UNCHANGED <<zone, txn, open, known, fresh, loopVars, hand, floor, inflightVars>>

\* The refresh interval of a zone passes (getUnfreshSlaveInfos).
Expire(z) ==
    /\ z \in fresh
    /\ fresh' = fresh \ {z}
    /\ UNCHANGED <<mver, zone, txn, open, known, loopVars, hand, floor, inflightVars>>
-----------------------------------------------------------------------------
(* slaveRefresh.                                                             *)

\* getUnfreshSlaveInfos and, unless all zones are fresh, a new Inflighter.
StartRefresh ==
    /\ pc = "start"
    /\ LET sdomains == known \ fresh IN
        \/ /\ sdomains = {}
           /\ pc' = "wait"
           /\ UNCHANGED <<judging, floor, inflightVars>>
        \/ /\ sdomains # {}
           /\ pc' = "inflight"
           /\ judging' = sdomains
           /\ floor' = mver
           /\ InflighterStart(sdomains)
    /\ UNCHANGED <<storeVars, queue, serials, xfer, hand>>

InflighterOnly == UNCHANGED <<storeVars, loopVars, hand, floor>>

SendQuery(z) ==
    /\ pc = "inflight"
    /\ \/ \E m \in MasterSet(z), id \in Ids : Send(z, m, id)
       \/ SendThrows(z)
    /\ InflighterOnly

\* deliverAnswer for an answer that is awaited.
Receive(a) ==
    /\ pc = "inflight"
    /\ \E i \in Found(a) :
        /\ ReceiveMatch(a, i)
        /\ serials' = [serials EXCEPT ![watch[i].zone] =
                         [serial |-> a.serial, master |-> watch[i].master]]
    /\ UNCHANGED <<storeVars, queue, pc, judging, xfer, hand, floor>>

ReceiveOther(a) ==
    /\ pc = "inflight"
    /\ ReceiveUnexpected(a)
    /\ InflighterOnly

\* A useless packet comes from the network, or nothing for half a second.
Network ==
    /\ pc = "inflight"
    /\ Silence \/ ReceiveThrows
    /\ InflighterOnly

GiveUp(n) ==
    /\ pc = "inflight"
    /\ Cleanup(n)
    /\ InflighterOnly

\* The master's side: an answer with its serial of the moment.
Answer(q) ==
    /\ MasterAnswers(q, Serial(mver[q.master][q.zone]))
    /\ InflighterOnly

\* run() has returned.
EndInflight ==
    /\ pc = "inflight" /\ InflighterDone
    /\ pc' = "judge"
    /\ InflighterStart({})
    /\ UNCHANGED <<storeVars, queue, serials, judging, xfer, hand, floor>>

Requests == [zone : Zones, master : Masters]

\* The comparison of one zone: setFresh when the master's serial is not higher
\* than ours, else a request for a transfer from the master that was asked.
Judge(z) ==
    /\ pc = "judge" /\ z \in judging
    /\ judging' = judging \ {z}
    /\ LET ours == Serial(StoredVersion(z))
           theirs == serials[z].serial
       IN
        \/ /\ theirs = NoSerial
           /\ UNCHANGED <<fresh, queue>>
        \/ /\ theirs # NoSerial /\ theirs <= ours
           /\ fresh' = fresh \cup {z}
           /\ queue' = queue
        \/ /\ theirs # NoSerial /\ theirs > ours
           /\ queue' = Append(queue, [zone |-> z, master |-> serials[z].master])
           /\ fresh' = fresh
    /\ UNCHANGED <<mver, zone, txn, open, known, pc, serials, xfer, hand, floor,
                   inflightVars>>

\* slaveRefresh returns, and its variables are gone.
EndRefresh ==
    /\ pc = "judge" /\ judging = {}
    /\ pc' = "wait"
    /\ serials' = [z \in Zones |-> NoAnswer]
    /\ floor' = NoFloor
    /\ UNCHANGED <<storeVars, queue, judging, xfer, hand, inflightVars>>

\* The inner loop of mainloop is over.
TickOver ==
    /\ pc = "wait"
    /\ Len(queue) < MaxQueue
    /\ pc' = "start"
    /\ UNCHANGED <<storeVars, queue, serials, judging, xfer, hand, floor, inflightVars>>
-----------------------------------------------------------------------------
(* suck.                                                                     *)

Pop ==
    /\ pc = "wait" /\ queue # <<>>
    /\ pc' = "connect"
    /\ xfer' = [zone |-> Head(queue).zone, from |-> Head(queue).master, ver |-> 0, pos |-> 0]
    /\ queue' = Tail(queue)
    /\ UNCHANGED <<storeVars, serials, judging, hand, floor, inflightVars>>

\* axfr(): the connection is made, the question sent and data have arrived: the
\* master sends the version it has now.  getDomainInfo finds the zone.
Connect ==
    /\ pc = "connect" /\ xfer.zone \in known
    /\ xfer' = [xfer EXCEPT !.ver = mver[xfer.from][xfer.zone]]
    /\ pc' = "axfr"
    /\ UNCHANGED <<storeVars, queue, serials, judging, hand, floor, inflightVars>>

\* d_soacount after the first n records of version v.
SOACount(v, n) ==
    IF n = 0 THEN 0 ELSE IF n < StreamLength(v) THEN 1 ELSE 2

\* Where the records of a chunk that ends before position n end: the last one
\* is chopped off when it brought the second SOA.
Chopped(v, n) == IF SOACount(v, n) > 1 THEN n - 1 ELSE n

\* The records of the chunk that are in the zone and of a type the backend does
\* not know.
Unstorable(v, a, b) ==
    \E i \in a..(b - 1) : ~IsSOA(v, i) /\ Body[v][i] = "unknown"

\* startTransaction: begin, and delete every record of the zone.
startTransaction(z) == {}

\* axfrChunk returns k more records; startTransaction before the first chunk,
\* feedRecord for each record in the zone.
Chunk(k) ==
    /\ pc = "axfr" /\ SOACount(xfer.ver, xfer.pos) <= 1
    /\ LET next == xfer.pos + k
           end == Chopped(xfer.ver, next)
           before == IF open THEN txn ELSE startTransaction(xfer.zone)
       IN /\ next <= StreamLength(xfer.ver)
          /\ ~Unstorable(xfer.ver, xfer.pos, end)
          /\ txn' = before \cup Records(xfer.from, xfer.ver, xfer.pos, end)
          /\ xfer' = [xfer EXCEPT !.pos = next]
    /\ open' = TRUE
    /\ UNCHANGED <<mver, zone, known, fresh, queue, pc, serials, judging, hand, floor,
                   inflightVars>>

\* A ResolverException while connecting or reading (no connection, timeout, end
\* of the connection, wrong ID, error code), or a DBException for a record the
\* backend cannot store: an open transaction is aborted.  Or no backend says that
\* it has the zone (getDomainInfo), and suck returns.
Fail ==
    /\ pc \in {"connect", "axfr"}
    /\ pc = "axfr" => SOACount(xfer.ver, xfer.pos) <= 1
    /\ pc' = "wait"
    /\ txn' = {} /\ open' = FALSE
    /\ xfer' = NoTransfer
    /\ UNCHANGED <<mver, zone, known, fresh, queue, serials, judging, hand, floor,
                   inflightVars>>

\* Mutated Finished: the end of the connection ends the transfer as well.
FinishedAtEOF == open

\* axfrChunk returns 0: both SOA records have been seen.
Finished == SOACount(xfer.ver, xfer.pos) > 1

\* commitTransaction.
Commit ==
    /\ pc = "axfr" /\ Finished
    /\ zone' = [zone EXCEPT ![xfer.zone] = txn]
    /\ txn' = {} /\ open' = FALSE
    /\ pc' = "committed"
    /\ UNCHANGED <<mver, known, fresh, queue, serials, judging, xfer, hand, floor,
                   inflightVars>>

\* setFresh, and the end of suck().
SetFresh ==
    /\ pc = "committed"
    /\ fresh' = fresh \cup {xfer.zone}
    /\ xfer' = NoTransfer
    /\ pc' = "wait"
    /\ UNCHANGED <<mver, zone, txn, open, known, queue, serials, judging, hand, floor,
                   inflightVars>>
-----------------------------------------------------------------------------
(* processNotify and trySuperMaster, run by a packet handler thread.         *)

\* GSQLBackend::isMaster compares the address with the whole list of masters,
\* so a zone with several masters takes a NOTIFY from none of them.
isMaster(z, ip) == MastersOf[z] = <<ip>>

\* processNotify up to the question for the master's serial: di.serial has been
\* read.  A NOTIFY from anyone else is refused.
BeginNotify(h, z, ip) ==
    /\ hand[h] = Idle /\ z \in known
    /\ ip \in Proxies \/ isMaster(z, ip)
    /\ hand' = [hand EXCEPT ![h] =
                 [state |-> "asking", zone |-> z, serial |-> Serial(StoredVersion(z)),
                  master |-> IF ip \in Proxies THEN Head(MastersOf[z]) ELSE ip]]
    /\ UNCHANGED <<storeVars, loopVars, floor, inflightVars>>

\* An unknown zone: trySuperMaster asks the sender for the SOA and NS records.
BeginSuperMaster(h, z, ip) ==
    /\ hand[h] = Idle /\ z \notin known
    /\ ip \in SuperMasters \cap MasterSet(z)
    /\ hand' = [hand EXCEPT ![h] = [state |-> "super", zone |-> z, master |-> ip]]
    /\ UNCHANGED <<storeVars, loopVars, floor, inflightVars>>

\* The answer to the serial query: up to date, or a request with priority.  The
\* serial it is compared with was read before the question was asked.
EndNotify(h) ==
    /\ hand[h].state = "asking"
    /\ LET z == hand[h].zone
           m == hand[h].master
           theirs == Serial(mver[m][z])
       IN \/ theirs <= hand[h].serial /\ queue' = queue
          \/ /\ theirs > hand[h].serial /\ Len(queue) < MaxQueue
             /\ queue' = <<[zone |-> z, master |-> m]>> \o queue
    /\ hand' = [hand EXCEPT ![h] = Idle]
    /\ UNCHANGED <<storeVars, pc, serials, judging, xfer, floor, inflightVars>>

\* createSlaveDomain, which fails when another thread has been faster, and a
\* request without priority.
EndSuperMaster(h) ==
    /\ hand[h].state = "super" /\ hand[h].zone \notin known
    /\ Len(queue) < MaxQueue
    /\ known' = known \cup {hand[h].zone}
    /\ queue' = Append(queue, [zone |-> hand[h].zone, master |-> hand[h].master])
    /\ hand' = [hand EXCEPT ![h] = Idle]
    /\ UNCHANGED <<mver, zone, txn, open, fresh, pc, serials, judging, xfer, floor,
                   inflightVars>>

\* No usable answer (ServFail), no willing backend, or the insert failed.
NotifyFails(h) ==
    /\ hand[h] # Idle
    /\ hand' = [hand EXCEPT ![h] = Idle]
    /\ UNCHANGED <<storeVars, loopVars, floor, inflightVars>>
-----------------------------------------------------------------------------
\* The process ends: a failing statement throws an AhuException that only
\* mainloop catches, which calls exit; or it is killed.  The guardian starts it
\* again.  A commit may have reached the database without our knowing.
Crash ==
    /\ \/ zone' = zone
       \/ pc = "axfr" /\ Finished /\ zone' = [zone EXCEPT ![xfer.zone] = txn]
    /\ txn' = {} /\ open' = FALSE
    /\ Fresh0
    /\ floor' = NoFloor
    /\ UNCHANGED <<mver, known, fresh>>

RefreshStep ==
    \/ \E z \in Zones : SendQuery(z) \/ Judge(z)
    \/ \E a \in net : Receive(a) \/ ReceiveOther(a)
    \/ \E n \in 0..MaxInFlight : GiveUp(n)
    \/ Network \/ StartRefresh \/ EndInflight \/ EndRefresh \/ TickOver

SuckStep ==
    \/ Pop \/ Connect \/ Fail \/ Commit \/ SetFresh
    \/ \E k \in 0..MaxChunk : Chunk(k)

NotifyStep(h) ==
    \/ \E z \in Zones, ip \in Masters : BeginNotify(h, z, ip) \/ BeginSuperMaster(h, z, ip)
    \/ EndNotify(h) \/ EndSuperMaster(h) \/ NotifyFails(h)

Next ==
    \/ RefreshStep \/ SuckStep \/ Crash
    \/ \E h \in Handlers : NotifyStep(h)
    \/ \E m \in Masters, z \in Zones : Publish(m, z)
    \/ \E z \in Zones : Expire(z)
    \/ \E q \in queries : Answer(q)

Spec == Init /\ [][Next]_vars

\* run() keeps running: it sends, or fails to, while it may, and returns when nothing
\* is left.  Silences that come again and again last more than three seconds together,
\* so that not every cleanup finds the queries in flight too young.  Nothing is assumed
\* of masters or network, and so not that there are silences.
Fairness ==
    /\ WF_vars(\E z \in Zones : SendQuery(z))
    /\ SF_vars(\E n \in 1..MaxInFlight : GiveUp(n))
    /\ WF_vars(EndInflight)

FairSpec == Spec /\ Fairness
-----------------------------------------------------------------------------
\* The types of the slave's state (communicator.hh, resolver.hh, inflighter.cc).
TypeOK ==
    /\ mver \in [Masters -> [Zones -> 0..Len(Body)]]
    /\ open \in BOOLEAN
    /\ known \subseteq Zones /\ fresh \subseteq known
    /\ queue \in Seq(Requests)
    /\ pc \in {"start", "inflight", "judge", "wait", "connect", "axfr", "committed"}
    /\ serials \in [Zones -> [serial : 0..(SerialMod - 1), master : Masters] \cup {NoAnswer}]
    /\ judging \subseteq Zones /\ todo \subseteq judging
    /\ watch \in Seq(TTDItem(Masters)) /\ Len(watch) <= MaxInFlight
    /\ burst \in 0..Burst /\ quiet \in BOOLEAN
    /\ floor \in [Masters -> [Zones -> 0..Len(Body)]]

\* What the slave serves is at every moment one whole version of each zone, and
\* copies from one master never go back: a transfer that breaks off, fails in
\* the database, meets a crash or is asked for twice shows nothing else
\* (suck, startTransaction, commitTransaction, abortTransaction).
Store == INSTANCE ZoneStore WITH zone <- zone, mver <- mver
ImplementsZoneStore == Store!StoreSpec

\* The copy of z and the version of some master of z are on different sides of
\* a wrap of the serial.
Wrapped(z) == \E m \in MasterSet(z) :
                StoredVersion(z) \div SerialMod < mver[m][z] \div SerialMod

\* A zone is recorded as fresh only when it is at least what some master of it
\* had when the refresh began, however the answers were lost, repeated
\* or mixed up: except that serials are compared as plain numbers, so a serial
\* that has wrapped, or 0 at the master of an empty zone, passes for old
\* (slaveRefresh, slavecommunicator.cc:198-213).
JudgedFreshRight ==
    [][\A z \in fresh' \ fresh :
          Wrapped(z) \/ \E m \in MasterSet(z) : StoredVersion(z) >= floor[m][z]]_vars

\* run() is in receive(), waiting for a packet.
Waiting == pc = "inflight" /\ Receiving

\* Inflighter::run() comes to an end as long as it is, again and again, left alone for
\* half a second: neither lost, late and useless answers nor failing sends keep
\* slaveRefresh from going on.  Packets that never leave it alone do: expired queries
\* are only looked for after a silence (inflighter.cc:114, 130).
RefreshEnds ==
    []<>(~Waiting) => ((pc = "inflight") ~> (pc # "inflight"))
=============================================================================

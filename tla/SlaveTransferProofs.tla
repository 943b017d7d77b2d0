------------------------ MODULE SlaveTransferProofs ------------------------
(***************************************************************************)
(* Proofs about SlaveTransfer, for any zones, masters, versions, handlers   *)
(* and bounds: what the slave serves refines ZoneStore, and a zone is       *)
(* judged fresh for the right reason.                                       *)
(***************************************************************************)
EXTENDS SlaveTransfer, SequenceTheorems, TLAPS

-----------------------------------------------------------------------------
(* Facts about the constants and operators.                                  *)

\* The masters of a zone are masters, the first one is one of them, and so is the
\* one that isMaster accepts.
LEMMA MasterSetFacts ==
    ASSUME NEW z \in Zones
    PROVE  /\ MasterSet(z) \subseteq Masters
           /\ Head(MastersOf[z]) \in MasterSet(z)
           /\ \A ip : isMaster(z, ip) => ip \in MasterSet(z)
<1>1. MastersOf[z] \in Seq(Masters) /\ MastersOf[z] # <<>>
  BY ZoneAssumption
<1>2. 1 \in DOMAIN MastersOf[z]
  BY <1>1
<1>3. MasterSet(z) \subseteq Masters /\ Head(MastersOf[z]) \in MasterSet(z)
  BY <1>1, <1>2 DEF MasterSet, ToSet
<1>4. ASSUME NEW ip, isMaster(z, ip) PROVE ip \in MasterSet(z)
  BY <1>2, <1>4 DEF isMaster, MasterSet, ToSet
<1> QED
  BY <1>3, <1>4

\* The versions of a zone are among the bodies, and the stream of a version has
\* its two SOA records.
LEMMA VersionFacts ==
    /\ Len(Body) \in Nat
    /\ \A z \in Zones : MaxVersion[z] \in 1..Len(Body)
    /\ \A v \in 1..Len(Body) : Len(Body[v]) \in Nat
<1>1. Len(Body) \in Nat /\ \A v \in 1..Len(Body) : Body[v] \in Seq(RecordKinds)
  BY VersionAssumption
<1> QED
  BY <1>1, VersionAssumption

\* feedRecord adds the records of the next chunk to those of the earlier ones.
LEMMA RecordsJoin ==
    ASSUME NEW m, NEW v, NEW a \in Int, NEW b \in Int, NEW c \in Int, a <= b, b <= c
    PROVE  Records(m, v, a, b) \cup Records(m, v, b, c) = Records(m, v, a, c)
<1> DEFINE J(i, k) == {j \in i..(k - 1) : InZone(v, j)}
<1>1. J(a, b) \cup J(b, c) = J(a, c)
  OBVIOUS
<1>2. \A i, k : Records(m, v, i, k) = {Record(m, v, j) : j \in J(i, k)}
  BY DEF Records
<1> HIDE DEF J
<1> QED
  BY <1>1, <1>2

\* A copy tells which master and which version it is of, by its SOA record.
LEMMA ContentInjective ==
    ASSUME NEW m, NEW n, NEW z, NEW v \in 1..Len(Body), NEW w \in 1..Len(Body),
           Content(m, z, v) = Content(n, z, w)
    PROVE  m = n /\ v = w
<1>1. 0 \in 0..(Len(Body[v]) + 1 - 1) /\ InZone(v, 0)
  BY VersionFacts DEF InZone, IsSOA
<1>2. Record(m, v, 0) \in Content(m, z, v)
  BY <1>1 DEF Content, Records
<1>3. PICK i : Record(m, v, 0) = Record(n, w, i)
  BY <1>2 DEF Content, Records
<1> QED
  BY <1>3 DEF Record

\* Removing an element leaves a sequence of the elements that were there.
LEMMA RemoveAtFacts ==
    ASSUME NEW S, NEW s \in Seq(S), NEW i \in DOMAIN s
    PROVE  /\ RemoveAt(s, i) \in Seq(S)
           /\ Len(RemoveAt(s, i)) = Len(s) - 1
           /\ \A j \in DOMAIN RemoveAt(s, i) : \E k \in DOMAIN s : RemoveAt(s, i)[j] = s[k]
<1> DEFINE a == SubSeq(s, 1, i - 1)
           b == SubSeq(s, i + 1, Len(s))
<1>1. a \in Seq(S) /\ Len(a) = i - 1 /\ \A j \in 1..(i - 1) : a[j] = s[j]
  OBVIOUS
<1>2. /\ b \in Seq(S) /\ Len(b) = Len(s) - i
      /\ \A j \in 1..(Len(s) - i) : b[j] = s[i + j]
  OBVIOUS
<1>3. RemoveAt(s, i) = a \o b
  BY DEF RemoveAt
<1> HIDE DEF a, b
<1>4. /\ a \o b \in Seq(S) /\ Len(a \o b) = Len(s) - 1
      /\ \A j \in 1..(Len(s) - 1) : (a \o b)[j] = IF j < i THEN a[j] ELSE b[j - (i - 1)]
  <2>1. Len(s) \in Nat /\ i \in 1..Len(s)
    OBVIOUS
  <2>2. Len(a) + Len(b) = Len(s) - 1
    BY <1>1, <1>2, <2>1
  <2>3. /\ a \o b \in Seq(S) /\ Len(a \o b) = Len(a) + Len(b)
        /\ \A j \in 1..(Len(a) + Len(b)) :
              (a \o b)[j] = IF j <= Len(a) THEN a[j] ELSE b[j - Len(a)]
    BY <1>1, <1>2, ConcatProperties
  <2>4. \A j \in 1..(Len(s) - 1) : j <= Len(a) <=> j < i
    BY <1>1, <2>1
  <2> QED
    BY <1>1, <2>2, <2>3, <2>4
<1>5. \A j \in 1..(Len(s) - 1) : j < i => (a \o b)[j] = s[j]
  BY <1>1, <1>4
<1>6. ASSUME NEW j \in 1..(Len(s) - 1), ~(j < i) PROVE (a \o b)[j] = s[j + 1]
  <2>1. j - (i - 1) \in 1..(Len(s) - i) /\ i + (j - (i - 1)) = j + 1
    BY <1>6
  <2>2. b[j - (i - 1)] = s[i + (j - (i - 1))]
    BY <1>2, <2>1
  <2> QED
    BY <1>4, <1>6, <2>1, <2>2
<1>7. ASSUME NEW j \in 1..(Len(s) - 1) PROVE \E k \in DOMAIN s : (a \o b)[j] = s[k]
  <2>1. j \in DOMAIN s /\ j + 1 \in DOMAIN s
    OBVIOUS
  <2> QED
    BY <1>5, <1>6, <2>1
<1>8. DOMAIN (a \o b) = 1..(Len(s) - 1)
  BY <1>4
<1> QED
  BY <1>3, <1>4, <1>7, <1>8

\* A version is made of its serial and the number of turns before it.
LEMMA SerialSplit ==
    ASSUME NEW v \in Nat
    PROVE  /\ v \div SerialMod \in Nat
           /\ v = SerialMod * (v \div SerialMod) + Serial(v)
           /\ Serial(v) \in 0..(SerialMod - 1)
<1> DEFINE d == v \div SerialMod
<1>1. \A N \in Nat \ {0} : v \div N \in Int /\ v = N * (v \div N) + (v % N)
  OBVIOUS
<1>2. d \in Int /\ v = SerialMod * d + Serial(v)
  BY <1>1, VersionAssumption DEF Serial
<1>5. Serial(v) \in 0..(SerialMod - 1)
  BY VersionAssumption DEF Serial
<1> HIDE DEF d
<1>3. ASSUME d <= -1 PROVE FALSE
  <2>1. SerialMod * d <= SerialMod * (-1) /\ SerialMod * (-1) = -SerialMod
    BY <1>2, <1>3, VersionAssumption
  <2>2. SerialMod * d \in Int /\ SerialMod \in Nat
    BY <1>2, VersionAssumption
  <2> QED
    BY <1>2, <1>5, <2>1, <2>2
<1>4. d \in Nat
  BY <1>2, <1>3
<1> QED
  BY <1>2, <1>4, <1>5 DEF d

\* Within one turn of the serial numbers the order of serials is that of versions.
LEMMA SerialOrder ==
    ASSUME NEW v \in Nat, NEW w \in Nat, Serial(v) <= Serial(w),
           ~(w \div SerialMod < v \div SerialMod)
    PROVE  v <= w
<1> DEFINE dv == v \div SerialMod
           dw == w \div SerialMod
<1>1. /\ dv \in Nat /\ v = SerialMod * dv + Serial(v) /\ Serial(v) \in 0..(SerialMod - 1)
      /\ dw \in Nat /\ w = SerialMod * dw + Serial(w) /\ Serial(w) \in 0..(SerialMod - 1)
  BY SerialSplit
<1>2. dv <= dw
  BY SerialSplit
<1> HIDE DEF dv, dw
<1>3. SerialMod * dv <= SerialMod * dw
  BY <1>1, <1>2, VersionAssumption
<1>4. SerialMod * dv \in Nat /\ SerialMod * dw \in Nat
  BY <1>1, VersionAssumption
<1> QED
  BY <1>1, <1>3, <1>4

\* The turns are counted in the order of versions.
LEMMA TurnsMonotone ==
    ASSUME NEW v \in Nat, NEW w \in Nat, v <= w
    PROVE  v \div SerialMod <= w \div SerialMod
<1> DEFINE dv == v \div SerialMod
           dw == w \div SerialMod
<1>1. /\ dv \in Nat /\ v = SerialMod * dv + Serial(v) /\ Serial(v) \in 0..(SerialMod - 1)
      /\ dw \in Nat /\ w = SerialMod * dw + Serial(w) /\ Serial(w) \in 0..(SerialMod - 1)
  BY SerialSplit
<1> HIDE DEF dv, dw
<1>2. ASSUME dv > dw PROVE FALSE
  <2>1. dv >= dw + 1
    BY <1>1, <1>2
  <2>2. SerialMod * dv >= SerialMod * (dw + 1) /\ SerialMod * (dw + 1) = SerialMod * dw + SerialMod
    BY <1>1, <2>1, VersionAssumption
  <2>3. SerialMod * dv \in Nat /\ SerialMod * dw \in Nat /\ SerialMod \in Nat
    BY <1>1, VersionAssumption
  <2> QED
    BY <1>1, <2>2, <2>3
<1>3. dv <= dw
  BY <1>1, <1>2
<1> QED
  BY <1>3 DEF dv, dw

-----------------------------------------------------------------------------
(* The inductive invariant, part by part.                                    *)

\* The versions of masters lie within their bounds.
MverOK ==
    /\ mver \in [Masters -> [Zones -> 0..Len(Body)]]
    /\ \A z \in Zones : \A m \in MasterSet(z) : mver[m][z] \in 1..MaxVersion[z]

\* The versions at the start of a refresh were not newer than now.
FloorOK ==
    /\ floor \in [Masters -> [Zones -> 0..Len(Body)]]
    /\ \A m \in Masters : \A z \in Zones : floor[m][z] <= mver[m][z]
    /\ pc \notin {"inflight", "judge"} => floor = NoFloor

KnownOK ==
    /\ known \subseteq Zones /\ fresh \subseteq known
    /\ judging \subseteq known /\ todo \subseteq judging

\* A request is for a known zone and a master of it.
Own(r) == r.zone \in known /\ r.master \in MasterSet(r.zone)
QueueOK == queue \in Seq(Requests) /\ \A i \in DOMAIN queue : Own(queue[i])

HandOK ==
    /\ DOMAIN hand = Handlers
    /\ \A h \in Handlers :
          \/ hand[h] = Idle
          \/ /\ hand[h].zone \in Zones
             /\ hand[h].master \in MasterSet(hand[h].zone)
             /\ hand[h].state = "asking" => hand[h].zone \in known

\* A transfer under way: what the open transaction has inserted so far is the
\* beginning of the version that the master is sending, which is not older than
\* the copy of that master's that is being served.
Begun ==
    /\ xfer.ver \in 1..mver[xfer.from][xfer.zone]
    /\ xfer.pos \in 0..StreamLength(xfer.ver)
    /\ open => txn = Records(xfer.from, xfer.ver, 0, Chopped(xfer.ver, xfer.pos))
    /\ ~open => xfer.pos = 0
    /\ \A old \in 1..MaxVersion[xfer.zone] :
          zone[xfer.zone] = Content(xfer.from, xfer.zone, old) => old <= xfer.ver

XferOK ==
    /\ pc \in {"start", "inflight", "judge", "wait", "connect", "axfr", "committed"}
    /\ pc \in {"connect", "axfr", "committed"} =>
          /\ xfer \in [zone : known, from : Masters, ver : Nat, pos : Nat]
          /\ xfer.from \in MasterSet(xfer.zone)
    /\ pc = "connect" => xfer.pos = 0
    /\ pc = "axfr" => Begun
    /\ open \in BOOLEAN /\ (pc # "axfr" => ~open)

\* No zone holds a version that the master it is from does not have yet.
ZoneOK ==
    /\ DOMAIN zone = Zones
    /\ \A z \in Zones : \A r \in zone[z] : r.ver \in Nat
    /\ \A z \in Zones : \A m \in MasterSet(z) : \A old \in 1..MaxVersion[z] :
          zone[z] = Content(m, z, old) => old <= mver[m][z]

\* Whether receive() has returned 0.
QuietOK == quiet \in BOOLEAN

WatchOK ==
    /\ watch \in Seq(TTDItem(Masters)) /\ Len(watch) <= MaxInFlight
    /\ \A i \in DOMAIN watch : watch[i].master \in MasterSet(watch[i].zone)
    /\ burst \in 0..Burst /\ QuietOK

\* The serial s is one that m had at some point of this refresh.
Between(s, m, z) == \E v \in floor[m][z]..mver[m][z] : s = Serial(v)

Queries == [zone : Zones, id : Ids, master : Masters]

\* A zone is asked about once in a refresh, so all there is about it, in flight
\* or on the wire, comes from one master.
NetOK ==
    /\ \A z \in todo : /\ \A i \in DOMAIN watch : watch[i].zone # z
                       /\ \A q \in queries : q.zone # z
                       /\ \A a \in net : a.zone # z
    /\ queries \subseteq Queries
    /\ \A q \in queries : q.master \in MasterSet(q.zone)
    /\ \A i \in DOMAIN watch :
          /\ \A q \in queries : q.zone = watch[i].zone => q.master = watch[i].master
          /\ \A a \in net : a.zone = watch[i].zone
                              => Between(a.serial, watch[i].master, a.zone)
    /\ pc # "inflight" => todo = {} /\ watch = <<>> /\ queries = {} /\ net = {}

SerialsOK ==
    /\ serials \in [Zones -> [serial : 0..(SerialMod - 1), master : Masters] \cup {NoAnswer}]
    /\ \A z \in Zones : serials[z] # NoAnswer =>
          /\ serials[z].master \in MasterSet(z)
          /\ Between(serials[z].serial, serials[z].master, z)
    /\ pc \notin {"inflight", "judge"} => serials = [z \in Zones |-> NoAnswer]

Inv == /\ MverOK /\ FloorOK /\ KnownOK /\ QueueOK /\ HandOK
       /\ XferOK /\ ZoneOK /\ WatchOK /\ NetOK /\ SerialsOK

\* The invariant holds when the server starts.
LEMMA InitInv == Init => Inv
<1> SUFFICES ASSUME Init PROVE Inv
  OBVIOUS
<1> USE DEF Init, InflighterIdle
<1>1. MverOK
  BY MasterSetFacts, VersionFacts DEF MverOK
<1>2. FloorOK
  BY <1>1, VersionFacts DEF FloorOK, NoFloor, MverOK
<1>3. KnownOK
  BY ZoneAssumption DEF KnownOK
<1>4. QueueOK /\ HandOK
  BY DEF QueueOK, HandOK
<1>5. XferOK
  BY DEF XferOK
<1>6. ZoneOK
  <2>1. ASSUME NEW z \in Zones, NEW m \in MasterSet(z), NEW old \in 1..MaxVersion[z],
               zone[z] = Content(m, z, old)
        PROVE  FALSE
    <3>1. old \in 1..Len(Body) /\ Len(Body[old]) \in Nat
      BY VersionFacts
    <3>2. 0 \in {j \in 0..(Len(Body[old]) + 1 - 1) : InZone(old, j)}
      BY <3>1 DEF InZone, IsSOA
    <3>3. Record(m, old, 0) \in zone[z]
      BY <2>1, <3>2 DEF Content, Records
    <3> QED
      BY <3>3
  <2> QED
    BY <2>1 DEF ZoneOK
<1>7. WatchOK /\ NetOK
  <2>1. QuietOK
    BY Zenon DEF QuietOK
  <2> QED
    BY <2>1, InflighterAssumption DEF WatchOK, NetOK
<1>8. SerialsOK
  BY DEF SerialsOK
<1> QED
  BY <1>1, <1>2, <1>3, <1>4, <1>5, <1>6, <1>7, <1>8 DEF Inv

\* A new Inflighter has nothing in flight.
LEMMA StartWatch ==
    ASSUME NEW S, InflighterStart(S)
    PROVE  WatchOK'
<1>1. watch' = <<>> /\ burst' = 0 /\ quiet' = FALSE
  BY DEF InflighterStart
<1>2. <<>> \in Seq(TTDItem(Masters)) /\ Len(<<>>) = 0 /\ DOMAIN <<>> = {}
  OBVIOUS
<1>3. QuietOK'
  BY <1>1 DEF QuietOK
<1> QED
  BY <1>1, <1>2, <1>3, InflighterAssumption DEF WatchOK

\* The queries in flight are to masters of their zones.
LEMMA WatchItems ==
    ASSUME WatchOK
    PROVE  \A i \in DOMAIN watch : /\ watch[i] \in TTDItem(Masters)
                                     /\ watch[i].zone \in Zones
                                     /\ watch[i].master \in MasterSet(watch[i].zone)
                                     /\ watch[i].master \in Masters
<1>1. \A i \in DOMAIN watch : watch[i] \in TTDItem(Masters)
  BY DEF WatchOK
<1> QED
  BY <1>1 DEF WatchOK, TTDItem

\* Less in flight and on the wire is still from one master per zone.
LEMMA NetShrinks ==
    ASSUME NetOK, pc = "inflight", pc' = pc, mver' = mver, floor' = floor,
           todo' \subseteq todo, queries' = queries, net' \subseteq net,
           \A j \in DOMAIN watch' : \E k \in DOMAIN watch : watch'[j] = watch[k]
    PROVE  NetOK'
<1>1. \A z \in todo' : /\ \A j \in DOMAIN watch' : watch'[j].zone # z
                        /\ \A q \in queries' : q.zone # z
                        /\ \A a \in net' : a.zone # z
  BY DEF NetOK
<1>2. queries' \subseteq Queries /\ \A q \in queries' : q.master \in MasterSet(q.zone)
  BY DEF NetOK
<1>3. ASSUME NEW j \in DOMAIN watch'
      PROVE  /\ \A q \in queries' : q.zone = watch'[j].zone => q.master = watch'[j].master
             /\ \A a \in net' : a.zone = watch'[j].zone
                                  => Between(a.serial, watch'[j].master, a.zone)
  BY DEF NetOK
<1> QED
  BY <1>1, <1>2, <1>3 DEF NetOK, Between

\* A request for a known zone and a master of it can be queued at either end.
LEMMA QueueGrows ==
    ASSUME QueueOK, NEW r \in Requests, r.zone \in known', r.master \in MasterSet(r.zone),
           known \subseteq known',
           queue' = Append(queue, r) \/ queue' = <<r>> \o queue
    PROVE  QueueOK'
<1>1. queue \in Seq(Requests) /\ \A i \in 1..Len(queue) : Own(queue[i])
  BY DEF QueueOK
<1>2. /\ queue' \in Seq(Requests) /\ Len(queue') = Len(queue) + 1
      /\ \A i \in 1..(Len(queue) + 1) :
            queue'[i] = r \/ \E j \in 1..Len(queue) : queue'[i] = queue[j]
  <2>1. CASE queue' = Append(queue, r)
    <3>1. \A i \in 1..(Len(queue) + 1) :
             queue'[i] = IF i \in 1..Len(queue) THEN queue[i] ELSE r
      BY <1>1, <2>1
    <3> QED
      BY <1>1, <2>1, <3>1
  <2>2. CASE queue' = <<r>> \o queue
    <3>1. <<r>> \in Seq(Requests) /\ Len(<<r>>) = 1 /\ <<r>>[1] = r
      OBVIOUS
    <3>2. /\ queue' \in Seq(Requests) /\ Len(queue') = Len(queue) + 1
          /\ queue'[1] = r
          /\ \A i \in 2..(Len(queue) + 1) : queue'[i] = queue[i - 1]
      BY <1>1, <2>2, <3>1
    <3>3. \A i \in 1..(Len(queue) + 1) : i = 1 \/ (i \in 2..(Len(queue) + 1) /\ i - 1 \in 1..Len(queue))
      BY <1>1
    <3> QED
      BY <3>2, <3>3
  <2> QED
    BY <2>1, <2>2
<1>3. DOMAIN queue' = 1..(Len(queue) + 1)
  BY <1>1, <1>2
<1> QED
  BY <1>1, <1>2, <1>3 DEF QueueOK, Own

\* At the end of a transfer the transaction holds one whole version.
LEMMA FinishedTransfer ==
    ASSUME MverOK, KnownOK, XferOK, pc = "axfr", Finished
    PROVE  /\ xfer.zone \in Zones /\ xfer.from \in MasterSet(xfer.zone)
           /\ xfer.from \in Masters
           /\ xfer.ver \in 1..mver[xfer.from][xfer.zone]
           /\ xfer.ver \in 1..MaxVersion[xfer.zone] /\ xfer.ver \in 1..Len(Body)
           /\ txn = Content(xfer.from, xfer.zone, xfer.ver)
           /\ \A old \in 1..MaxVersion[xfer.zone] :
                 zone[xfer.zone] = Content(xfer.from, xfer.zone, old) => old <= xfer.ver
<1>1. /\ xfer.zone \in Zones /\ xfer.from \in MasterSet(xfer.zone) /\ xfer.from \in Masters
      /\ Begun
  BY DEF XferOK, KnownOK
<1>2. mver[xfer.from][xfer.zone] \in 1..MaxVersion[xfer.zone]
  BY <1>1 DEF MverOK
<1>3. xfer.ver \in 1..MaxVersion[xfer.zone] /\ xfer.ver \in 1..Len(Body)
  BY <1>1, <1>2, VersionFacts DEF Begun
<1>4. Len(Body[xfer.ver]) \in Nat /\ StreamLength(xfer.ver) = Len(Body[xfer.ver]) + 2
  BY <1>3, VersionFacts DEF StreamLength
<1>5. xfer.pos = StreamLength(xfer.ver) /\ xfer.pos # 0
  BY <1>1, <1>4 DEF Begun, Finished, SOACount
<1>6. Chopped(xfer.ver, xfer.pos) = Len(Body[xfer.ver]) + 1
  BY <1>4, <1>5 DEF Chopped, Finished
<1>7. open
  BY <1>1, <1>5 DEF Begun
<1> QED
  BY <1>1, <1>3, <1>6, <1>7 DEF Begun, Content

\* A commit, whether we learn of it or not, brings a version that its master has.
LEMMA CommitZone ==
    ASSUME MverOK, KnownOK, XferOK, ZoneOK, pc = "axfr", Finished,
           zone' = [zone EXCEPT ![xfer.zone] = txn], mver' = mver
    PROVE  ZoneOK'
<1>1. /\ xfer.zone \in Zones /\ xfer.from \in MasterSet(xfer.zone)
      /\ xfer.ver \in 1..mver[xfer.from][xfer.zone] /\ xfer.ver \in 1..Len(Body)
      /\ txn = Content(xfer.from, xfer.zone, xfer.ver)
  BY FinishedTransfer
<1>2. /\ DOMAIN zone' = Zones
      /\ \A z \in Zones : zone'[z] = IF z = xfer.zone THEN txn ELSE zone[z]
  BY <1>1 DEF ZoneOK
<1>3. \A r \in txn : r.ver \in Nat
  BY <1>1 DEF Content, Records, Record
<1>4. \A z \in Zones : \A r \in zone'[z] : r.ver \in Nat
  BY <1>2, <1>3 DEF ZoneOK
<1>5. ASSUME NEW z \in Zones, NEW m \in MasterSet(z), NEW old \in 1..MaxVersion[z],
             zone'[z] = Content(m, z, old)
      PROVE  old <= mver[m][z]
  <2>1. CASE z = xfer.zone
    <3>1. Content(xfer.from, z, xfer.ver) = Content(m, z, old)
      BY <1>1, <1>2, <1>5, <2>1
    <3>2. old \in 1..Len(Body)
      BY VersionFacts
    <3>3. m = xfer.from /\ old = xfer.ver
      BY <1>1, <3>1, <3>2, ContentInjective
    <3> QED
      BY <1>1, <2>1, <3>3
  <2>2. CASE z # xfer.zone
    BY <1>2, <1>5, <2>2 DEF ZoneOK
  <2> QED
    BY <2>1, <2>2
<1> QED
  BY <1>2, <1>4, <1>5 DEF ZoneOK

\* Every step of the slave, its masters and the network keeps the invariant.
LEMMA NextInv ==
    ASSUME Inv, [Next]_vars
    PROVE  Inv'
<1> SUFFICES ASSUME MverOK, FloorOK, KnownOK, QueueOK, HandOK,
                    XferOK, ZoneOK, WatchOK, NetOK, SerialsOK
             PROVE  Inv'
  BY DEF Inv
<1>1. ASSUME UNCHANGED vars PROVE Inv'
  <2>1. MverOK' /\ FloorOK' /\ KnownOK' /\ QueueOK' /\ HandOK' /\ XferOK' /\ ZoneOK' /\ WatchOK' /\ NetOK' /\ SerialsOK'
    BY <1>1 DEF MverOK, FloorOK, KnownOK, QueueOK, HandOK, XferOK, ZoneOK, WatchOK, QuietOK,
       NetOK, SerialsOK, Own, Begun, Between, vars, storeVars, loopVars, inflightVars
  <2> QED
    BY <2>1 DEF Inv
<1>2. ASSUME NEW m \in Masters, NEW z \in Zones, Publish(m, z) PROVE Inv'
  <2>1. /\ m \in MasterSet(z) /\ mver[m][z] \in 1..MaxVersion[z] /\ mver[m][z] < MaxVersion[z]
       /\ mver' = [mver EXCEPT ![m][z] = mver[m][z] + 1]
    BY <1>2 DEF Publish, MverOK
  <2>2. MverOK'
    BY <2>1, VersionFacts DEF MverOK
  <2>3. \A n \in Masters : \A y \in Zones :
          mver[n][y] \in Nat /\ mver'[n][y] \in Nat /\ mver[n][y] <= mver'[n][y]
    BY <2>1, VersionFacts DEF MverOK
  <2>4. \A n \in Masters : \A y \in Zones : floor[n][y] \in Nat
    BY VersionFacts DEF FloorOK
  <2>5. FloorOK'
    BY <1>2, <2>3, <2>4 DEF FloorOK, Publish, loopVars
  <2>6. XferOK'
    <3>1. ASSUME pc = "axfr" PROVE Begun'
      <4>1. xfer.from \in Masters /\ xfer.zone \in Zones /\ Begun
        BY <3>1 DEF XferOK, KnownOK
      <4>2. xfer.ver \in 1..mver'[xfer.from][xfer.zone]
        BY <2>3, <4>1 DEF Begun
      <4> QED
        BY <1>2, <4>1, <4>2 DEF Begun, Publish, loopVars
    <3> QED
      BY <1>2, <3>1 DEF XferOK, Publish, loopVars
  <2>7. ZoneOK'
    <3>1. ASSUME NEW y \in Zones, NEW n \in MasterSet(y), NEW old \in 1..MaxVersion[y],
                 zone[y] = Content(n, y, old)
          PROVE  old <= mver'[n][y]
      <4>1. old <= mver[n][y] /\ n \in Masters
        BY <3>1, MasterSetFacts DEF ZoneOK
      <4> QED
        BY <2>3, <4>1, VersionFacts
    <3> QED
      BY <1>2, <3>1 DEF ZoneOK, Publish
  <2>8. ASSUME NEW s, NEW n \in Masters, NEW y \in Zones, Between(s, n, y)
       PROVE  Between(s, n, y)'
    BY <1>2, <2>8, <2>3, <2>4 DEF Between, Publish, Serial
  <2>9. NetOK'
    <3>1. \A i \in DOMAIN watch :
             watch[i].master \in Masters /\ watch[i].zone \in Zones
      BY WatchItems
    <3> QED
      BY <1>2, <2>8, <3>1 DEF NetOK, Publish, loopVars, inflightVars
  <2>10. SerialsOK'
    <3>1. \A y \in Zones : serials[y] # NoAnswer => serials[y].master \in Masters
      BY MasterSetFacts DEF SerialsOK
    <3> QED
      BY <1>2, <2>8, <3>1 DEF SerialsOK, Publish, loopVars
  <2>11. KnownOK' /\ QueueOK' /\ HandOK' /\ WatchOK'
    BY <1>2 DEF KnownOK, QueueOK, HandOK, WatchOK, QuietOK, Own, Publish, loopVars, inflightVars
  <2> QED
    BY <2>1, <2>2, <2>3, <2>4, <2>5, <2>6, <2>7, <2>8, <2>9, <2>10, <2>11 DEF Inv
<1>3. ASSUME NEW z \in Zones, Expire(z) PROVE Inv'
  <2>1. KnownOK'
    BY <1>3 DEF KnownOK, Expire, loopVars, inflightVars
  <2>2. MverOK' /\ FloorOK' /\ QueueOK' /\ HandOK' /\ XferOK' /\ ZoneOK' /\ WatchOK' /\ NetOK' /\ SerialsOK'
    BY <1>3 DEF MverOK, FloorOK, QueueOK, HandOK, XferOK, ZoneOK, WatchOK, QuietOK, NetOK,
       SerialsOK, Own, Begun, Between, Expire, storeVars, loopVars, inflightVars
  <2> QED
    BY <2>1, <2>2 DEF Inv
<1>4. ASSUME StartRefresh PROVE Inv'
  <2>1. FloorOK'
    <3>1. mver' = mver /\ pc = "start"
      BY <1>4 DEF StartRefresh, storeVars
    <3>2. CASE floor' = floor /\ pc' = "wait"
      BY <3>1, <3>2 DEF FloorOK
    <3>3. CASE floor' = mver /\ pc' = "inflight"
      <4>1. \A m \in Masters : \A z \in Zones : mver[m][z] \in Nat
        BY VersionFacts DEF MverOK
      <4> QED
        BY <3>1, <3>3, <4>1 DEF FloorOK, MverOK
    <3> QED
      BY <1>4, <3>2, <3>3 DEF StartRefresh
  <2>2. KnownOK'
    BY <1>4 DEF KnownOK, NetOK, StartRefresh, InflighterStart, storeVars, inflightVars
  <2>3. XferOK'
    BY <1>4 DEF XferOK, StartRefresh, storeVars
  <2>4. WatchOK'
    <3>1. CASE UNCHANGED inflightVars
      BY <3>1 DEF WatchOK, QuietOK, inflightVars
    <3>2. CASE InflighterStart(known \ fresh)
      BY <3>2, StartWatch
    <3> QED
      BY <1>4, <3>1, <3>2 DEF StartRefresh
  <2>5. NetOK'
    BY <1>4 DEF NetOK, StartRefresh, InflighterStart, inflightVars
  <2>6. SerialsOK'
    BY <1>4 DEF SerialsOK, StartRefresh
  <2>7. MverOK' /\ QueueOK' /\ HandOK' /\ ZoneOK'
    BY <1>4 DEF MverOK, QueueOK, HandOK, ZoneOK, Own, StartRefresh, storeVars,
       loopVars, inflightVars
  <2> QED
    BY <2>1, <2>2, <2>3, <2>4, <2>5, <2>6, <2>7 DEF Inv
<1>5. ASSUME NEW z \in Zones, SendQuery(z) PROVE Inv'
  <2>1. KnownOK'
    BY <1>5 DEF KnownOK, SendQuery, Send, SendThrows, InflighterOnly, storeVars,
       loopVars
  <2>2. WatchOK' /\ NetOK'
    <3>1. CASE SendThrows(z)
      BY <1>5, <3>1, InflighterAssumption DEF WatchOK, QuietOK, NetOK, Between, SendThrows,
         SendQuery, InflighterOnly, storeVars, loopVars
    <3>2. ASSUME NEW m \in MasterSet(z), NEW id \in Ids, Send(z, m, id) PROVE WatchOK' /\ NetOK'
      <4> DEFINE e == [zone |-> z, id |-> id, master |-> m]
      <4>1. e \in TTDItem(Masters) /\ e.zone = z /\ e.master = m
        BY MasterSetFacts DEF TTDItem
      <4>2. /\ watch \in Seq(TTDItem(Masters)) /\ Len(watch) < MaxInFlight
            /\ burst < Burst /\ burst' = burst + 1
            /\ watch' = Append(watch, e) /\ z \in todo /\ todo' = todo \ {z}
            /\ queries' = queries \cup {[zone |-> z, id |-> id, master |-> m]}
            /\ net' = net /\ quiet' = quiet
        BY <3>2 DEF Send, CanSend, WatchOK, QuietOK
      <4> HIDE DEF e
      <4>3. /\ watch' \in Seq(TTDItem(Masters)) /\ Len(watch') = Len(watch) + 1
            /\ DOMAIN watch' = 1..(Len(watch) + 1) /\ DOMAIN watch = 1..Len(watch)
            /\ watch'[Len(watch) + 1] = e
            /\ \A i \in 1..Len(watch) : watch'[i] = watch[i]
        BY <4>1, <4>2
      <4>4. WatchOK'
        BY <4>1, <4>2, <4>3, InflighterAssumption DEF WatchOK, QuietOK
      <4>5. \A i \in DOMAIN watch' : watch'[i] = e \/ \E j \in DOMAIN watch : watch'[i] = watch[j]
        BY <4>2, <4>3
      <4>6. mver' = mver /\ floor' = floor /\ pc' = "inflight"
        BY <1>5 DEF SendQuery, InflighterOnly, storeVars, loopVars
      <4>7. queries' \subseteq Queries /\ \A q \in queries' \ queries : q.zone = z /\ q.master = m
        BY <4>2, MasterSetFacts, InflighterAssumption DEF NetOK, Queries
      <4>8. /\ \A i \in DOMAIN watch : watch[i].zone # z
            /\ \A q \in queries : q.zone # z
            /\ \A a \in net : a.zone # z
        BY <4>2 DEF NetOK
      <4>9. \A y \in todo' : /\ \A i \in DOMAIN watch' : watch'[i].zone # y
                             /\ \A q \in queries' : q.zone # y
                             /\ \A a \in net' : a.zone # y
        BY <4>1, <4>2, <4>5, <4>7 DEF NetOK
      <4>10. \A q \in queries' : q.master \in MasterSet(q.zone)
        BY <4>7 DEF NetOK
      <4>11. ASSUME NEW i \in DOMAIN watch'
             PROVE  /\ \A q \in queries' : q.zone = watch'[i].zone => q.master = watch'[i].master
                    /\ \A a \in net' : a.zone = watch'[i].zone
                                          => Between(a.serial, watch'[i].master, a.zone)
        BY <4>1, <4>2, <4>5, <4>7, <4>8 DEF NetOK
      <4>12. NetOK'
        BY <4>6, <4>7, <4>9, <4>10, <4>11 DEF NetOK, Between
      <4> QED
        BY <4>4, <4>12
    <3> QED
      BY <1>5, <3>1, <3>2 DEF SendQuery
  <2>3. MverOK' /\ FloorOK' /\ QueueOK' /\ HandOK' /\ XferOK' /\ ZoneOK' /\ SerialsOK'
    BY <1>5 DEF MverOK, FloorOK, QueueOK, HandOK, XferOK, ZoneOK, SerialsOK, Own,
       Begun, Between, SendQuery, Send, SendThrows, InflighterOnly, storeVars,
       loopVars, inflightVars
  <2> QED
    BY <2>1, <2>2, <2>3 DEF Inv
<1>6. ASSUME NEW a \in net, Receive(a) PROVE Inv'
  <2>1. PICK i \in Found(a) :
           /\ ReceiveMatch(a, i)
           /\ serials' = [serials EXCEPT ![watch[i].zone] =
                            [serial |-> a.serial, master |-> watch[i].master]]
    BY <1>6 DEF Receive
  <2>2. /\ i \in DOMAIN watch /\ watch[i].zone = a.zone
       /\ watch' = RemoveAt(watch, i) /\ net' = net \ {a} /\ burst' = 0
       /\ todo' = todo /\ queries' = queries /\ quiet' = quiet
    BY <2>1 DEF Found, Matches, ReceiveMatch
  <2>3. /\ watch' \in Seq(TTDItem(Masters)) /\ Len(watch') = Len(watch) - 1
       /\ \A j \in DOMAIN watch' : \E k \in DOMAIN watch : watch'[j] = watch[k]
    BY <2>2, RemoveAtFacts DEF WatchOK
  <2>4. pc = "inflight" /\ pc' = pc /\ mver' = mver /\ floor' = floor
    BY <1>6 DEF Receive, storeVars
  <2>5. WatchOK'
    <3>1. Len(watch') <= MaxInFlight /\ burst' \in 0..Burst
      BY <2>2, <2>3, InflighterAssumption DEF WatchOK
    <3>2. QuietOK'
      BY <2>2 DEF WatchOK, QuietOK
    <3> QED
      BY <2>3, <3>1, <3>2 DEF WatchOK
  <2>6. NetOK'
    BY <2>2, <2>3, <2>4, NetShrinks
  <2>7. SerialsOK'
    <3>1. /\ watch[i].zone \in Zones /\ watch[i].master \in MasterSet(watch[i].zone)
          /\ watch[i].master \in Masters
      BY <2>2, WatchItems
    <3>2. Between(a.serial, watch[i].master, watch[i].zone)
      BY <2>2 DEF NetOK
    <3>3. a.serial \in 0..(SerialMod - 1)
      <4>1. mver[watch[i].master][watch[i].zone] \in Nat /\ floor[watch[i].master][watch[i].zone] \in Nat
        BY <3>1, VersionFacts DEF MverOK, FloorOK
      <4> QED
        BY <3>2, <4>1, SerialSplit DEF Between
    <3> DEFINE answer == [serial |-> a.serial, master |-> watch[i].master]
    <3>4. answer \in [serial : 0..(SerialMod - 1), master : Masters]
      BY <3>1, <3>3
    <3>5. /\ serials' \in [Zones -> [serial : 0..(SerialMod - 1), master : Masters] \cup {NoAnswer}]
          /\ \A z \in Zones : serials'[z] = IF z = watch[i].zone THEN answer ELSE serials[z]
      BY <2>1, <3>1, <3>4 DEF SerialsOK
    <3>6. answer.serial = a.serial /\ answer.master = watch[i].master
      OBVIOUS
    <3> HIDE DEF answer
    <3>7. ASSUME NEW z \in Zones, serials'[z] # NoAnswer
          PROVE  /\ serials'[z].master \in MasterSet(z)
                 /\ Between(serials'[z].serial, serials'[z].master, z)
      BY <3>1, <3>2, <3>5, <3>6, <3>7 DEF SerialsOK
    <3> QED
      BY <2>4, <3>5, <3>7 DEF SerialsOK, Between
  <2>8. MverOK' /\ FloorOK' /\ KnownOK' /\ QueueOK' /\ HandOK' /\ XferOK' /\ ZoneOK'
    BY <1>6 DEF MverOK, FloorOK, KnownOK, QueueOK, HandOK, XferOK, ZoneOK, Own, Begun,
       Receive, ReceiveMatch, storeVars, loopVars, inflightVars
  <2> QED
    BY <2>1, <2>2, <2>3, <2>4, <2>5, <2>6, <2>7, <2>8 DEF Inv
<1>7. ASSUME NEW a \in net, ReceiveOther(a) PROVE Inv'
  <2>1. /\ net' = net \ {a}
       /\ UNCHANGED <<todo, watch, burst, queries, quiet>>
       /\ UNCHANGED <<storeVars, loopVars, hand, floor>>
    BY <1>7 DEF ReceiveOther, ReceiveUnexpected, InflighterOnly
  <2>2. WatchOK' /\ NetOK'
    BY <2>1, InflighterAssumption DEF WatchOK, QuietOK, NetOK, Between, storeVars, loopVars
  <2>3. MverOK' /\ FloorOK' /\ KnownOK' /\ QueueOK' /\ HandOK' /\ XferOK' /\ ZoneOK' /\ SerialsOK'
    BY <1>7 DEF MverOK, FloorOK, KnownOK, QueueOK, HandOK, XferOK, ZoneOK, SerialsOK,
       Own, Begun, Between, ReceiveOther, ReceiveUnexpected,
       InflighterOnly, storeVars, loopVars, inflightVars
  <2> QED
    BY <2>1, <2>2, <2>3 DEF Inv
<1>8. ASSUME NEW n \in 0..MaxInFlight, GiveUp(n) PROVE Inv'
  <2>1. /\ watch \in Seq(TTDItem(Masters)) /\ n \in 0..Len(watch)
       /\ watch' = SubSeq(watch, n + 1, Len(watch)) /\ burst' = 0 /\ quiet' = FALSE
       /\ todo' = todo /\ net' = net /\ queries' = queries
       /\ UNCHANGED <<storeVars, loopVars, hand, floor>>
    BY <1>8 DEF GiveUp, Cleanup, InflighterOnly, WatchOK
  <2>2. /\ watch' \in Seq(TTDItem(Masters)) /\ Len(watch') = Len(watch) - n
       /\ \A j \in 1..(Len(watch) - n) : watch'[j] = watch[n + j]
    BY <2>1
  <2>3. \A j \in DOMAIN watch' : \E k \in DOMAIN watch : watch'[j] = watch[k]
    <3>1. DOMAIN watch' = 1..(Len(watch) - n) /\ DOMAIN watch = 1..Len(watch)
      BY <2>1, <2>2
    <3>2. ASSUME NEW j \in 1..(Len(watch) - n) PROVE n + j \in 1..Len(watch)
      BY <2>1
    <3> QED
      BY <2>2, <3>1, <3>2
  <2>4. pc = "inflight" /\ pc' = pc /\ mver' = mver /\ floor' = floor
    BY <1>8, <2>1 DEF GiveUp, storeVars, loopVars
  <2>5. WatchOK'
    <3>1. Len(watch') <= MaxInFlight /\ burst' \in 0..Burst
      BY <2>1, <2>2, InflighterAssumption DEF WatchOK
    <3>2. QuietOK'
      BY <2>1 DEF QuietOK
    <3> QED
      BY <2>2, <2>3, <3>1, <3>2 DEF WatchOK
  <2>6. NetOK'
    BY <2>1, <2>3, <2>4, NetShrinks
  <2>7. MverOK' /\ FloorOK' /\ KnownOK' /\ QueueOK' /\ HandOK' /\ XferOK' /\ ZoneOK' /\ SerialsOK'
    BY <1>8 DEF MverOK, FloorOK, KnownOK, QueueOK, HandOK, XferOK, ZoneOK, SerialsOK,
       Own, Begun, Between, GiveUp, Cleanup, InflighterOnly, storeVars, loopVars,
       inflightVars
  <2> QED
    BY <2>1, <2>2, <2>3, <2>4, <2>5, <2>6, <2>7 DEF Inv
<1>9. ASSUME NEW q \in queries, Answer(q) PROVE Inv'
  <2> DEFINE s == Serial(mver[q.master][q.zone])
             answer == [zone |-> q.zone, id |-> q.id, serial |-> s]
  <2>1. net' = net \cup {answer} /\ UNCHANGED <<storeVars, loopVars, hand, floor, todo, watch, burst, queries, quiet>>
    BY <1>9 DEF Answer, InflighterOnly, MasterAnswers
  <2>2. q.zone \in Zones /\ q.master \in MasterSet(q.zone) /\ q.master \in Masters
    BY DEF NetOK, Queries
  <2>3. Between(s, q.master, q.zone)
    <3>1. /\ mver[q.master][q.zone] \in Nat /\ floor[q.master][q.zone] \in Nat
          /\ floor[q.master][q.zone] <= mver[q.master][q.zone]
      BY <2>2, VersionFacts DEF MverOK, FloorOK
    <3> QED
      BY <3>1 DEF Between
  <2>4. answer.zone = q.zone /\ answer.serial = s
    OBVIOUS
  <2> HIDE DEF answer, s
  <2>5. NetOK'
    <3>1. /\ watch' = watch /\ todo' = todo /\ floor' = floor /\ mver' = mver
          /\ pc' = pc /\ pc = "inflight" /\ queries' = queries
      BY <2>1 DEF storeVars, loopVars, NetOK
    <3>2. ASSUME NEW i \in DOMAIN watch, NEW b \in net', b.zone = watch[i].zone
          PROVE  Between(b.serial, watch[i].master, b.zone)
      BY <2>1, <2>3, <2>4, <3>2 DEF NetOK
    <3>3. \A i \in DOMAIN watch : \A b \in net' :
             b.zone = watch[i].zone => Between(b.serial, watch[i].master, b.zone)'
      BY <3>1, <3>2 DEF Between
    <3>4. \A z \in todo : \A b \in net' : b.zone # z
      BY <2>1, <2>4 DEF NetOK
    <3> QED
      BY <3>1, <3>3, <3>4 DEF NetOK
  <2>6. MverOK' /\ FloorOK' /\ KnownOK' /\ QueueOK' /\ HandOK' /\ XferOK' /\ ZoneOK' /\ WatchOK' /\ SerialsOK'
    BY <2>1 DEF MverOK, FloorOK, KnownOK, QueueOK, HandOK, XferOK, ZoneOK, WatchOK, QuietOK,
       SerialsOK, Own, Begun, Between, storeVars, loopVars
  <2> QED
    BY <2>5, <2>6 DEF Inv
<1>10. ASSUME EndInflight PROVE Inv'
  <2>1. FloorOK'
    BY <1>10 DEF FloorOK, EndInflight, storeVars
  <2>2. KnownOK'
    BY <1>10 DEF KnownOK, EndInflight, InflighterStart, storeVars
  <2>3. XferOK'
    BY <1>10 DEF XferOK, EndInflight, storeVars
  <2>4. WatchOK'
    BY <1>10, StartWatch DEF EndInflight
  <2>5. NetOK'
    BY <1>10 DEF NetOK, EndInflight, InflighterStart
  <2>6. SerialsOK'
    BY <1>10 DEF SerialsOK, Between, EndInflight, storeVars
  <2>7. MverOK' /\ QueueOK' /\ HandOK' /\ ZoneOK'
    BY <1>10 DEF MverOK, QueueOK, HandOK, ZoneOK, Own, EndInflight, storeVars,
       loopVars, inflightVars
  <2> QED
    BY <2>1, <2>2, <2>3, <2>4, <2>5, <2>6, <2>7 DEF Inv
<1>11. ASSUME NEW z \in Zones, Judge(z) PROVE Inv'
  <2>1. KnownOK'
    BY <1>11 DEF KnownOK, NetOK, Judge, inflightVars
  <2>2. QueueOK'
    <3>1. CASE queue' = queue
      BY <1>11, <3>1 DEF QueueOK, Own, Judge
    <3>2. CASE /\ serials[z].serial # NoSerial
               /\ queue' = Append(queue, [zone |-> z, master |-> serials[z].master])
      <4> DEFINE r == [zone |-> z, master |-> serials[z].master]
      <4>1. serials[z] # NoAnswer
        BY <3>2 DEF NoAnswer
      <4>2. r \in Requests /\ r.zone \in known /\ r.master \in MasterSet(r.zone)
        BY <1>11, <4>1, MasterSetFacts DEF SerialsOK, Requests, Judge, KnownOK
      <4>3. known' = known
        BY <1>11 DEF Judge
      <4> QED
        BY <3>2, <4>2, <4>3, QueueGrows
    <3> QED
      BY <1>11, <3>1, <3>2 DEF Judge
  <2>3. MverOK' /\ FloorOK' /\ HandOK' /\ XferOK' /\ ZoneOK' /\ WatchOK' /\ NetOK' /\ SerialsOK'
    BY <1>11 DEF MverOK, FloorOK, HandOK, XferOK, ZoneOK, WatchOK, QuietOK, NetOK, SerialsOK,
       Begun, Between, Judge, storeVars, loopVars, inflightVars
  <2> QED
    BY <2>1, <2>2, <2>3 DEF Inv
<1>12. ASSUME EndRefresh PROVE Inv'
  <2>1. FloorOK'
    <3>1. floor' = NoFloor /\ mver' = mver
      BY <1>12 DEF EndRefresh, storeVars
    <3>2. \A m \in Masters : \A z \in Zones : mver[m][z] \in Nat /\ NoFloor[m][z] = 0
      BY VersionFacts DEF MverOK, NoFloor
    <3>3. NoFloor \in [Masters -> [Zones -> 0..Len(Body)]]
      BY VersionFacts DEF NoFloor
    <3> QED
      BY <3>1, <3>2, <3>3 DEF FloorOK
  <2>2. XferOK'
    BY <1>12 DEF XferOK, EndRefresh, storeVars
  <2>3. NetOK'
    BY <1>12 DEF NetOK, EndRefresh, inflightVars
  <2>4. SerialsOK'
    BY <1>12 DEF SerialsOK, EndRefresh
  <2>5. MverOK' /\ KnownOK' /\ QueueOK' /\ HandOK' /\ ZoneOK' /\ WatchOK'
    BY <1>12 DEF MverOK, KnownOK, QueueOK, HandOK, ZoneOK, WatchOK, QuietOK, Own, EndRefresh,
       storeVars, loopVars, inflightVars
  <2> QED
    BY <2>1, <2>2, <2>3, <2>4, <2>5 DEF Inv
<1>13. ASSUME TickOver PROVE Inv'
  <2>1. FloorOK'
    BY <1>13 DEF FloorOK, TickOver, storeVars
  <2>2. XferOK'
    BY <1>13 DEF XferOK, TickOver, storeVars
  <2>3. NetOK'
    BY <1>13 DEF NetOK, TickOver, inflightVars
  <2>4. SerialsOK'
    BY <1>13 DEF SerialsOK, TickOver
  <2>5. MverOK' /\ KnownOK' /\ QueueOK' /\ HandOK' /\ ZoneOK' /\ WatchOK'
    BY <1>13 DEF MverOK, KnownOK, QueueOK, HandOK, ZoneOK, WatchOK, QuietOK, Own, TickOver,
       storeVars, loopVars, inflightVars
  <2> QED
    BY <2>1, <2>2, <2>3, <2>4, <2>5 DEF Inv
<1>14. ASSUME Pop PROVE Inv'
  <2>1. FloorOK'
    BY <1>14 DEF FloorOK, Pop, storeVars
  <2>2. NetOK'
    BY <1>14 DEF NetOK, Pop, inflightVars
  <2>3. SerialsOK'
    BY <1>14 DEF SerialsOK, Pop
  <2>4. /\ queue \in Seq(Requests) /\ queue # <<>> /\ Own(Head(queue))
       /\ Head(queue) \in Requests
    BY <1>14 DEF Pop, QueueOK
  <2>5. XferOK'
    <3>1. xfer' \in [zone : known, from : Masters, ver : Nat, pos : Nat]
      BY <1>14, <2>4 DEF Pop, Own, Requests
    <3> QED
      BY <1>14, <2>4, <3>1 DEF XferOK, Own, Pop, storeVars
  <2>6. QueueOK'
    <3>1. /\ Tail(queue) \in Seq(Requests) /\ Len(Tail(queue)) = Len(queue) - 1
          /\ \A i \in 1..(Len(queue) - 1) : Tail(queue)[i] = queue[i + 1]
      BY <2>4
    <3>2. \A i \in 1..(Len(queue) - 1) : i + 1 \in DOMAIN queue
      BY <2>4
    <3>3. DOMAIN Tail(queue) = 1..(Len(queue) - 1)
      BY <3>1
    <3> QED
      BY <1>14, <3>1, <3>2, <3>3 DEF QueueOK, Own, Pop, storeVars
  <2>7. MverOK' /\ KnownOK' /\ HandOK' /\ ZoneOK' /\ WatchOK'
    BY <1>14 DEF MverOK, KnownOK, HandOK, ZoneOK, WatchOK, QuietOK, Pop, storeVars, loopVars,
       inflightVars
  <2> QED
    BY <2>1, <2>2, <2>3, <2>4, <2>5, <2>6, <2>7 DEF Inv
<1>15. ASSUME Connect PROVE Inv'
  <2>1. FloorOK'
    BY <1>15 DEF FloorOK, Connect, storeVars
  <2>2. NetOK'
    BY <1>15 DEF NetOK, Connect, inflightVars
  <2>3. SerialsOK'
    BY <1>15 DEF SerialsOK, Connect
  <2>4. XferOK'
    <3>1. /\ xfer \in [zone : known, from : Masters, ver : Nat, pos : Nat]
          /\ xfer.from \in MasterSet(xfer.zone) /\ xfer.pos = 0 /\ ~open
          /\ xfer.zone \in Zones
      BY <1>15 DEF XferOK, KnownOK, Connect
    <3>2. mver[xfer.from][xfer.zone] \in 1..MaxVersion[xfer.zone] /\ mver[xfer.from][xfer.zone] \in Nat
      BY <3>1, VersionFacts DEF MverOK
    <3>3. /\ xfer' = [xfer EXCEPT !.ver = mver[xfer.from][xfer.zone]] /\ pc' = "axfr"
          /\ mver' = mver /\ zone' = zone /\ open' = open /\ known' = known
      BY <1>15 DEF Connect, storeVars
    <3>4. /\ xfer' \in [zone : known, from : Masters, ver : Nat, pos : Nat]
          /\ xfer'.zone = xfer.zone /\ xfer'.from = xfer.from /\ xfer'.pos = 0
          /\ xfer'.ver = mver[xfer.from][xfer.zone]
      BY <3>1, <3>2, <3>3
    <3>5. xfer'.ver \in 1..Len(Body)
      BY <3>1, <3>2, <3>4, VersionFacts
    <3>6. 0 \in 0..StreamLength(xfer'.ver)
      BY <3>5, VersionFacts DEF StreamLength
    <3>7. \A old \in 1..MaxVersion[xfer.zone] :
             zone[xfer.zone] = Content(xfer.from, xfer.zone, old) => old <= xfer'.ver
      BY <3>1, <3>4 DEF ZoneOK
    <3>8. Begun'
      BY <3>1, <3>2, <3>3, <3>4, <3>6, <3>7 DEF Begun
    <3> QED
      BY <3>1, <3>3, <3>4, <3>8 DEF XferOK
  <2>5. MverOK' /\ KnownOK' /\ QueueOK' /\ HandOK' /\ ZoneOK' /\ WatchOK'
    BY <1>15 DEF MverOK, KnownOK, QueueOK, HandOK, ZoneOK, WatchOK, QuietOK, Own, Connect,
       storeVars, loopVars, inflightVars
  <2> QED
    BY <2>1, <2>2, <2>3, <2>4, <2>5 DEF Inv
<1>16. ASSUME NEW k \in 0..MaxChunk, Chunk(k) PROVE Inv'
  <2>1. XferOK'
    <3> DEFINE v == xfer.ver
               next == xfer.pos + k
               end == Chopped(v, next)
    <3>1. /\ xfer \in [zone : known, from : Masters, ver : Nat, pos : Nat]
          /\ xfer.from \in MasterSet(xfer.zone) /\ Begun /\ xfer.zone \in Zones
      BY <1>16 DEF XferOK, KnownOK, Chunk
    <3>2. v \in 1..Len(Body) /\ StreamLength(v) \in Nat /\ StreamLength(v) >= 2
      <4>1. mver[xfer.from][xfer.zone] \in 1..MaxVersion[xfer.zone]
        BY <3>1 DEF MverOK
      <4>2. v \in 1..Len(Body)
        BY <3>1, <4>1, VersionFacts DEF Begun
      <4> QED
        BY <4>2, VersionFacts DEF StreamLength
    <3>3. /\ xfer' = [xfer EXCEPT !.pos = next] /\ next <= StreamLength(v)
          /\ txn' = (IF open THEN txn ELSE {}) \cup Records(xfer.from, v, xfer.pos, end)
          /\ SOACount(v, xfer.pos) <= 1
          /\ pc = "axfr" /\ pc' = pc /\ open' = TRUE
          /\ mver' = mver /\ zone' = zone /\ known' = known
      BY <1>16 DEF Chunk, startTransaction
    <3>4. xfer.pos \in Nat /\ next \in Nat /\ k \in Nat /\ xfer.pos < StreamLength(v)
      BY <3>1, <3>2, <3>3, BoundAssumption DEF Begun, SOACount
    <3>5. /\ xfer' \in [zone : known, from : Masters, ver : Nat, pos : Nat]
          /\ xfer'.zone = xfer.zone /\ xfer'.from = xfer.from /\ xfer'.ver = v /\ xfer'.pos = next
      BY <3>1, <3>3, <3>4
    <3>6. end \in Int /\ xfer.pos <= end /\ Chopped(v, xfer.pos) = xfer.pos
      BY <3>2, <3>3, <3>4 DEF Chopped, SOACount
    <3>7. txn' = Records(xfer.from, v, 0, end)
      <4>1. CASE open
        BY <3>1, <3>3, <3>4, <3>6, <4>1, RecordsJoin DEF Begun
      <4>2. CASE ~open
        BY <3>1, <3>3, <4>2 DEF Begun
      <4> QED
        BY <4>1, <4>2
    <3> HIDE DEF next, end
    <3>8. Begun'
      <4>1. xfer'.pos \in 0..StreamLength(xfer'.ver)
        BY <3>2, <3>3, <3>4, <3>5
      <4>2. txn' = Records(xfer'.from, xfer'.ver, 0, Chopped(xfer'.ver, xfer'.pos))
        BY <3>5, <3>7 DEF end
      <4> QED
        BY <3>1, <3>3, <3>5, <4>1, <4>2 DEF Begun
    <3> QED
      BY <3>1, <3>3, <3>5, <3>8 DEF XferOK
  <2>2. MverOK' /\ FloorOK' /\ KnownOK' /\ QueueOK' /\ HandOK' /\ ZoneOK' /\ WatchOK' /\ NetOK' /\ SerialsOK'
    BY <1>16 DEF MverOK, FloorOK, KnownOK, QueueOK, HandOK, ZoneOK, WatchOK, QuietOK, NetOK,
       SerialsOK, Own, Between, Chunk, storeVars, loopVars, inflightVars
  <2> QED
    BY <2>1, <2>2 DEF Inv
<1>17. ASSUME Fail PROVE Inv'
  <2>1. FloorOK'
    BY <1>17 DEF FloorOK, Fail, storeVars
  <2>2. NetOK'
    BY <1>17 DEF NetOK, Fail, inflightVars
  <2>3. SerialsOK'
    BY <1>17 DEF SerialsOK, Fail
  <2>4. XferOK'
    BY <1>17 DEF XferOK, Fail
  <2>5. MverOK' /\ KnownOK' /\ QueueOK' /\ HandOK' /\ ZoneOK' /\ WatchOK'
    BY <1>17 DEF MverOK, KnownOK, QueueOK, HandOK, ZoneOK, WatchOK, QuietOK, Own, Fail,
       storeVars, loopVars, inflightVars
  <2> QED
    BY <2>1, <2>2, <2>3, <2>4, <2>5 DEF Inv
<1>18. ASSUME Commit PROVE Inv'
  <2>1. FloorOK'
    BY <1>18 DEF FloorOK, Commit, storeVars
  <2>2. NetOK'
    BY <1>18 DEF NetOK, Commit, inflightVars
  <2>3. SerialsOK'
    BY <1>18 DEF SerialsOK, Commit
  <2>4. XferOK'
    BY <1>18 DEF XferOK, Commit
  <2>5. ZoneOK'
    BY <1>18, CommitZone DEF Commit
  <2>6. MverOK' /\ KnownOK' /\ QueueOK' /\ HandOK' /\ WatchOK'
    BY <1>18 DEF MverOK, KnownOK, QueueOK, HandOK, WatchOK, QuietOK, Own, Commit, storeVars,
       loopVars, inflightVars
  <2> QED
    BY <2>1, <2>2, <2>3, <2>4, <2>5, <2>6 DEF Inv
<1>19. ASSUME SetFresh PROVE Inv'
  <2>1. FloorOK'
    BY <1>19 DEF FloorOK, SetFresh, storeVars
  <2>2. NetOK'
    BY <1>19 DEF NetOK, SetFresh, inflightVars
  <2>3. SerialsOK'
    BY <1>19 DEF SerialsOK, SetFresh
  <2>4. KnownOK'
    BY <1>19 DEF KnownOK, XferOK, SetFresh, inflightVars
  <2>5. XferOK'
    BY <1>19 DEF XferOK, SetFresh
  <2>6. MverOK' /\ QueueOK' /\ HandOK' /\ ZoneOK' /\ WatchOK'
    BY <1>19 DEF MverOK, QueueOK, HandOK, ZoneOK, WatchOK, QuietOK, Own, SetFresh, storeVars,
       loopVars, inflightVars
  <2> QED
    BY <2>1, <2>2, <2>3, <2>4, <2>5, <2>6 DEF Inv
<1>20. ASSUME NEW h \in Handlers, NEW z \in Zones, NEW ip \in Masters, BeginNotify(h, z, ip) PROVE Inv'
  <2>1. HandOK'
    <3>1. PICK m, s : /\ hand' = [hand EXCEPT ![h] = [state |-> "asking", zone |-> z, serial |-> s, master |-> m]]
                      /\ m \in MasterSet(z)
      BY <1>20, MasterSetFacts DEF BeginNotify
    <3>2. known' = known /\ z \in known
      BY <1>20 DEF BeginNotify, storeVars
    <3> QED
      BY <3>1, <3>2 DEF HandOK
  <2>2. MverOK' /\ FloorOK' /\ KnownOK' /\ QueueOK' /\ XferOK' /\ ZoneOK' /\ WatchOK' /\ NetOK' /\ SerialsOK'
    BY <1>20 DEF MverOK, FloorOK, KnownOK, QueueOK, XferOK, ZoneOK, WatchOK, QuietOK, NetOK,
       SerialsOK, Own, Begun, Between, BeginNotify, storeVars, loopVars, inflightVars
  <2> QED
    BY <2>1, <2>2 DEF Inv
<1>21. ASSUME NEW h \in Handlers, NEW z \in Zones, NEW ip \in Masters, BeginSuperMaster(h, z, ip) PROVE Inv'
  <2>1. HandOK'
    BY <1>21 DEF HandOK, BeginSuperMaster, storeVars
  <2>2. MverOK' /\ FloorOK' /\ KnownOK' /\ QueueOK' /\ XferOK' /\ ZoneOK' /\ WatchOK' /\ NetOK' /\ SerialsOK'
    BY <1>21 DEF MverOK, FloorOK, KnownOK, QueueOK, XferOK, ZoneOK, WatchOK, QuietOK, NetOK,
       SerialsOK, Own, Begun, Between, BeginSuperMaster, storeVars, loopVars,
       inflightVars
  <2> QED
    BY <2>1, <2>2 DEF Inv
<1>22. ASSUME NEW h \in Handlers, EndNotify(h) PROVE Inv'
  <2>1. HandOK'
    BY <1>22 DEF HandOK, EndNotify, storeVars
  <2>2. QueueOK'
    <3> DEFINE r == [zone |-> hand[h].zone, master |-> hand[h].master]
    <3>1. hand[h] # Idle /\ hand[h].state = "asking"
      BY <1>22 DEF EndNotify, Idle
    <3>2. r \in Requests /\ r.zone \in known /\ r.master \in MasterSet(r.zone)
      BY <3>1, MasterSetFacts DEF HandOK, Requests
    <3>3. known' = known /\ (queue' = queue \/ queue' = <<r>> \o queue)
      BY <1>22 DEF EndNotify, storeVars
    <3>4. CASE queue' = queue
      BY <3>3, <3>4 DEF QueueOK, Own
    <3> HIDE DEF r
    <3>5. CASE queue' = <<r>> \o queue
      BY <3>2, <3>3, <3>5, QueueGrows
    <3> QED
      BY <3>3, <3>4, <3>5
  <2>3. MverOK' /\ FloorOK' /\ KnownOK' /\ XferOK' /\ ZoneOK' /\ WatchOK' /\ NetOK' /\ SerialsOK'
    BY <1>22 DEF MverOK, FloorOK, KnownOK, XferOK, ZoneOK, WatchOK, QuietOK, NetOK, SerialsOK,
       Begun, Between, EndNotify, storeVars, loopVars, inflightVars
  <2> QED
    BY <2>1, <2>2, <2>3 DEF Inv
<1>23. ASSUME NEW h \in Handlers, EndSuperMaster(h) PROVE Inv'
  <2>1. hand[h].zone \in Zones /\ hand[h].master \in MasterSet(hand[h].zone)
    BY <1>23 DEF EndSuperMaster, HandOK, Idle
  <2>2. KnownOK'
    BY <1>23, <2>1 DEF KnownOK, EndSuperMaster, inflightVars
  <2>3. HandOK'
    BY <1>23 DEF HandOK, EndSuperMaster
  <2>4. QueueOK'
    <3> DEFINE r == [zone |-> hand[h].zone, master |-> hand[h].master]
    <3>1. r \in Requests /\ r.zone \in known' /\ r.master \in MasterSet(r.zone)
      BY <1>23, <2>1, MasterSetFacts DEF Requests, EndSuperMaster
    <3>2. known \subseteq known' /\ queue' = Append(queue, r)
      BY <1>23 DEF EndSuperMaster
    <3> HIDE DEF r
    <3> QED
      BY <3>1, <3>2, QueueGrows
  <2>5. XferOK'
    <3>1. known \subseteq known' /\ UNCHANGED <<pc, xfer, open, txn, mver, zone>>
      BY <1>23 DEF EndSuperMaster
    <3>2. Begun => Begun'
      BY <3>1 DEF Begun
    <3>3. xfer \in [zone : known, from : Masters, ver : Nat, pos : Nat]
             => xfer' \in [zone : known', from : Masters, ver : Nat, pos : Nat]
      BY <3>1
    <3> QED
      BY <3>1, <3>2, <3>3 DEF XferOK
  <2>6. MverOK' /\ FloorOK' /\ ZoneOK' /\ WatchOK' /\ NetOK' /\ SerialsOK'
    BY <1>23 DEF MverOK, FloorOK, ZoneOK, WatchOK, QuietOK, NetOK, SerialsOK, Between,
       EndSuperMaster, storeVars, loopVars, inflightVars
  <2> QED
    BY <2>1, <2>2, <2>3, <2>4, <2>5, <2>6 DEF Inv
<1>24. ASSUME NEW h \in Handlers, NotifyFails(h) PROVE Inv'
  <2>1. HandOK'
    BY <1>24 DEF HandOK, NotifyFails, storeVars
  <2>2. MverOK' /\ FloorOK' /\ KnownOK' /\ QueueOK' /\ XferOK' /\ ZoneOK' /\ WatchOK' /\ NetOK' /\ SerialsOK'
    BY <1>24 DEF MverOK, FloorOK, KnownOK, QueueOK, XferOK, ZoneOK, WatchOK, QuietOK, NetOK,
       SerialsOK, Own, Begun, Between, NotifyFails, storeVars, loopVars, inflightVars
  <2> QED
    BY <2>1, <2>2 DEF Inv
<1>25. ASSUME Crash PROVE Inv'
  <2>1. FloorOK'
    <3>1. floor' = NoFloor /\ mver' = mver
      BY <1>25 DEF Crash
    <3>2. \A m \in Masters : \A z \in Zones : mver[m][z] \in Nat /\ NoFloor[m][z] = 0
      BY VersionFacts DEF MverOK, NoFloor
    <3>3. NoFloor \in [Masters -> [Zones -> 0..Len(Body)]]
      BY VersionFacts DEF NoFloor
    <3> QED
      BY <3>1, <3>2, <3>3 DEF FloorOK
  <2>2. KnownOK'
    BY <1>25 DEF KnownOK, Crash, Fresh0, InflighterStart
  <2>3. QueueOK' /\ HandOK'
    BY <1>25 DEF QueueOK, HandOK, Crash, Fresh0
  <2>4. XferOK'
    BY <1>25 DEF XferOK, Crash, Fresh0
  <2>5. ZoneOK'
    <3>1. CASE zone' = zone
      BY <1>25, <3>1 DEF ZoneOK, Crash
    <3>2. CASE pc = "axfr" /\ Finished /\ zone' = [zone EXCEPT ![xfer.zone] = txn]
      BY <1>25, <3>2, CommitZone DEF Crash
    <3> QED
      BY <1>25, <3>1, <3>2 DEF Crash
  <2>6. WatchOK'
    BY <1>25, StartWatch DEF Crash, Fresh0
  <2>7. NetOK'
    BY <1>25 DEF NetOK, Crash, Fresh0, InflighterStart
  <2>8. SerialsOK'
    BY <1>25 DEF SerialsOK, Crash, Fresh0
  <2>9. MverOK'
    BY <1>25 DEF MverOK, Crash, Fresh0, InflighterStart, storeVars, loopVars,
       inflightVars
  <2> QED
    BY <2>1, <2>2, <2>3, <2>4, <2>5, <2>6, <2>7, <2>8, <2>9 DEF Inv
<1>26. ASSUME Network PROVE Inv'
  <2>1. /\ UNCHANGED <<storeVars, loopVars, hand, floor, todo, watch, queries, net>>
        /\ burst' \in {0, burst} /\ quiet' \in {TRUE, quiet}
    BY <1>26 DEF Network, Silence, ReceiveThrows, InflighterOnly
  <2>2. WatchOK'
    <3>1. QuietOK'
      BY <2>1 DEF WatchOK, QuietOK
    <3>2. burst' \in 0..Burst
      BY <2>1, InflighterAssumption DEF WatchOK
    <3> QED
      BY <2>1, <3>1, <3>2 DEF WatchOK, storeVars, loopVars
  <2>3. MverOK' /\ FloorOK' /\ KnownOK' /\ QueueOK' /\ HandOK' /\ XferOK' /\ ZoneOK' /\ NetOK' /\ SerialsOK'
    BY <2>1 DEF MverOK, FloorOK, KnownOK, QueueOK, HandOK, XferOK, ZoneOK, NetOK,
       SerialsOK, Own, Begun, Between, storeVars, loopVars
  <2> QED
    BY <2>2, <2>3 DEF Inv
<1> QED
  BY <1>1, <1>2, <1>3, <1>4, <1>5, <1>6, <1>7, <1>8, <1>9, <1>10, <1>11, <1>12, <1>13,
     <1>14, <1>15, <1>16, <1>17, <1>18, <1>19, <1>20, <1>21, <1>22, <1>23, <1>24,
     <1>25, <1>26 DEF Next, RefreshStep, SuckStep, NotifyStep

\* The invariant holds at every step, for any number of zones, masters and
\* handlers and any versions.
THEOREM Invariant == Spec => []Inv
<1>1. Inv /\ [Next]_vars => Inv'
  BY NextInv
<1> QED
  BY InitInv, <1>1, PTL DEF Spec

-----------------------------------------------------------------------------
(* The theorems.                                                             *)

\* The slave's state keeps its types: among others, only known zones are fresh,
\* and Inflighter never has more in flight than its limit.
THEOREM TypeCorrect == Spec => []TypeOK
<1>1. Inv => TypeOK
  BY DEF Inv, TypeOK, MverOK, FloorOK, KnownOK, QueueOK, XferOK, WatchOK, QuietOK, SerialsOK
<1> QED
  BY <1>1, Invariant, PTL

\* Only a commit, seen or unseen, changes what is served, and it changes it to
\* one whole version that is not older than that master's copy before.
LEMMA CommitReplaces ==
    ASSUME Inv, pc = "axfr", Finished,
           zone' = [zone EXCEPT ![xfer.zone] = txn], mver' = mver
    PROVE  Store!StoreNext
<1>1. /\ xfer.zone \in Zones /\ xfer.from \in Masters
      /\ xfer.ver \in 1..mver[xfer.from][xfer.zone] /\ xfer.ver \in 1..MaxVersion[xfer.zone]
      /\ txn = Content(xfer.from, xfer.zone, xfer.ver)
      /\ \A old \in 1..MaxVersion[xfer.zone] :
            zone[xfer.zone] = Content(xfer.from, xfer.zone, old) => old <= xfer.ver
  BY FinishedTransfer DEF Inv
<1>2. Store!Replace(xfer.zone, xfer.from, xfer.ver)
  BY <1>1 DEF Store!Replace
<1> QED
  BY <1>1, <1>2 DEF Store!StoreNext

\* What the slave serves is a ZoneStore: one whole version of each zone at every
\* moment, replaced in one step, never going back within one master's versions,
\* across broken transfers, lost and repeated answers and crashes.
THEOREM Refinement == Spec => ImplementsZoneStore
<1>1. Init => Store!StoreInit
  BY DEF Init, MasterSet, ToSet, Store!StoreInit, Store!ToSet
<1>2. ASSUME Inv, [Next]_vars PROVE [Store!StoreNext]_(Store!storeVars)
  <2> USE DEF Store!storeVars
  <2>1. CASE UNCHANGED vars
    BY <2>1 DEF vars, storeVars
  <2>2. ASSUME NEW z \in Zones, SendQuery(z) \/ Judge(z) PROVE UNCHANGED <<zone, mver>>
    BY <2>2 DEF SendQuery, Judge, InflighterOnly, storeVars
  <2>3. ASSUME NEW a \in net, Receive(a) \/ ReceiveOther(a) PROVE UNCHANGED <<zone, mver>>
    BY <2>3 DEF Receive, ReceiveOther, InflighterOnly, storeVars
  <2>4. ASSUME NEW n \in 0..MaxInFlight, GiveUp(n) PROVE UNCHANGED <<zone, mver>>
    BY <2>4 DEF GiveUp, InflighterOnly, storeVars
  <2>5. CASE StartRefresh \/ EndInflight \/ EndRefresh \/ TickOver
    BY <2>5 DEF StartRefresh, EndInflight, EndRefresh, TickOver, storeVars
  <2>6. CASE Pop \/ Connect \/ Fail \/ SetFresh
    BY <2>6 DEF Pop, Connect, Fail, SetFresh, storeVars
  <2>7. ASSUME NEW k \in 0..MaxChunk, Chunk(k) PROVE UNCHANGED <<zone, mver>>
    BY <2>7 DEF Chunk
  <2>8. CASE Commit
    BY <1>2, <2>8, CommitReplaces DEF Commit
  <2>9. CASE Crash
    BY <1>2, <2>9, CommitReplaces DEF Crash
  <2>10. ASSUME NEW h \in Handlers, NotifyStep(h) PROVE UNCHANGED <<zone, mver>>
    BY <2>10 DEF NotifyStep, BeginNotify, BeginSuperMaster, EndNotify, EndSuperMaster,
       NotifyFails, storeVars
  <2>11. ASSUME NEW m \in Masters, NEW z \in Zones, Publish(m, z) PROVE Store!StoreNext
    BY <2>11 DEF Publish, MasterSet, ToSet, Store!Publish, Store!StoreNext, Store!ToSet
  <2>12. ASSUME NEW z \in Zones, Expire(z) PROVE UNCHANGED <<zone, mver>>
    BY <2>12 DEF Expire
  <2>13. ASSUME NEW q \in queries, Answer(q) PROVE UNCHANGED <<zone, mver>>
    BY <2>13 DEF Answer, InflighterOnly, storeVars
  <2>14. CASE Network
    BY <2>14 DEF Network, InflighterOnly, storeVars
  <2> QED
    BY <1>2, <2>1, <2>2, <2>3, <2>4, <2>5, <2>6, <2>7, <2>8, <2>9, <2>10, <2>11, <2>12,
       <2>13, <2>14 DEF Next, RefreshStep, SuckStep
<1> QED
  BY <1>1, <1>2, Invariant, PTL DEF Spec, ImplementsZoneStore, Store!StoreSpec

\* The version of the stored copy is a number.
LEMMA StoredVersionType ==
    ASSUME ZoneOK, NEW z \in Zones
    PROVE  StoredVersion(z) \in Nat
<1>1. CASE \E r \in zone[z] : r.idx = 0
  <2> DEFINE c == CHOOSE r \in zone[z] : r.idx = 0
  <2>1. c \in zone[z]
    BY <1>1
  <2>2. StoredVersion(z) = c.ver
    BY <1>1 DEF StoredVersion
  <2> HIDE DEF c
  <2> QED
    BY <2>1, <2>2 DEF ZoneOK
<1>2. CASE ~\E r \in zone[z] : r.idx = 0
  BY <1>2 DEF StoredVersion
<1> QED
  BY <1>1, <1>2

\* A zone is judged fresh only if it is at least what some master of it had when
\* the refresh began, or the serials have wrapped in between.
THEOREM FreshIsRight == Spec => JudgedFreshRight
<1> DEFINE Right(z) == Wrapped(z) \/ \E m \in MasterSet(z) : StoredVersion(z) >= floor[m][z]
<1>1. ASSUME Inv, [Next]_vars PROVE [\A z \in fresh' \ fresh : Right(z)]_vars
  <2> SUFFICES ASSUME MverOK, FloorOK, KnownOK, XferOK, ZoneOK, SerialsOK, Next
               PROVE  \A z \in fresh' \ fresh : Right(z)
    BY <1>1 DEF Inv
  <2> HIDE DEF Right
  <2>1. ASSUME NEW z \in Zones, Judge(z) PROVE fresh' \subseteq fresh \/ (fresh' = fresh \cup {z} /\ Right(z))
    <3> SUFFICES ASSUME serials[z].serial # NoSerial,
                        serials[z].serial <= Serial(StoredVersion(z)),
                        ~Wrapped(z)
                 PROVE  \E m \in MasterSet(z) : StoredVersion(z) >= floor[m][z]
      BY <2>1 DEF Judge, Right
    <3> DEFINE m == serials[z].master
    <3>1. serials[z] # NoAnswer
      BY DEF NoAnswer
    <3>2. m \in MasterSet(z) /\ m \in Masters /\ Between(serials[z].serial, m, z)
      BY <3>1, MasterSetFacts DEF SerialsOK
    <3>3. PICK v \in floor[m][z]..mver[m][z] : serials[z].serial = Serial(v)
      BY <3>2 DEF Between
    <3>4. /\ floor[m][z] \in Nat /\ mver[m][z] \in Nat /\ StoredVersion(z) \in Nat
          /\ v \in Nat /\ floor[m][z] <= v /\ v <= mver[m][z]
      BY <3>1, <3>2, <3>3, VersionFacts, StoredVersionType DEF MverOK, FloorOK
    <3>5. ~(StoredVersion(z) \div SerialMod < mver[m][z] \div SerialMod)
      BY <3>2 DEF Wrapped
    <3>6. v \div SerialMod <= mver[m][z] \div SerialMod
      BY <3>4, TurnsMonotone
    <3>7. ~(StoredVersion(z) \div SerialMod < v \div SerialMod)
      BY <3>4, <3>5, <3>6, VersionAssumption
    <3>8. v <= StoredVersion(z)
      BY <3>3, <3>4, <3>7, SerialOrder
    <3> QED
      BY <3>2, <3>4, <3>8
  <2>2. ASSUME SetFresh PROVE fresh' = fresh \cup {xfer.zone} /\ Right(xfer.zone)
    <3>1. /\ xfer.zone \in Zones /\ xfer.from \in MasterSet(xfer.zone) /\ xfer.from \in Masters
          /\ floor = NoFloor
      BY <2>2 DEF SetFresh, XferOK, KnownOK, FloorOK
    <3>2. floor[xfer.from][xfer.zone] = 0 /\ StoredVersion(xfer.zone) \in Nat
      BY <3>1, StoredVersionType DEF NoFloor
    <3> QED
      BY <2>2, <3>1, <3>2 DEF SetFresh, Right
  <2>3. ASSUME NEW z \in Zones, SendQuery(z) \/ Expire(z) PROVE fresh' \subseteq fresh
    BY <2>3 DEF SendQuery, Expire, InflighterOnly, storeVars
  <2>4. ASSUME NEW a \in net, Receive(a) \/ ReceiveOther(a) PROVE fresh' = fresh
    BY <2>4 DEF Receive, ReceiveOther, InflighterOnly, storeVars
  <2>5. ASSUME NEW n \in 0..MaxInFlight, GiveUp(n) PROVE fresh' = fresh
    BY <2>5 DEF GiveUp, InflighterOnly, storeVars
  <2>6. CASE StartRefresh \/ EndInflight \/ EndRefresh \/ TickOver \/ Crash
    BY <2>6 DEF StartRefresh, EndInflight, EndRefresh, TickOver, Crash, storeVars
  <2>7. CASE Pop \/ Connect \/ Fail \/ Commit
    BY <2>7 DEF Pop, Connect, Fail, Commit, storeVars
  <2>8. ASSUME NEW k \in 0..MaxChunk, Chunk(k) PROVE fresh' = fresh
    BY <2>8 DEF Chunk
  <2>9. ASSUME NEW h \in Handlers, NotifyStep(h) PROVE fresh' = fresh
    BY <2>9 DEF NotifyStep, BeginNotify, BeginSuperMaster, EndNotify, EndSuperMaster,
       NotifyFails, storeVars
  <2>10. ASSUME NEW m \in Masters, NEW z \in Zones, Publish(m, z) PROVE fresh' = fresh
    BY <2>10 DEF Publish
  <2>11. ASSUME NEW q \in queries, Answer(q) PROVE fresh' = fresh
    BY <2>11 DEF Answer, InflighterOnly, storeVars
  <2>12. CASE Network
    BY <2>12 DEF Network, InflighterOnly, storeVars
  <2> QED
    BY <2>1, <2>2, <2>3, <2>4, <2>5, <2>6, <2>7, <2>8, <2>9, <2>10, <2>11, <2>12 DEF Next,
       RefreshStep, SuckStep
<1> QED
  BY <1>1, Invariant, PTL DEF Spec, JudgedFreshRight
=============================================================================

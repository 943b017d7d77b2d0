--------------------------- MODULE DNSProxyProofs ---------------------------
(***************************************************************************)
(* Proofs about the recursion proxy, for every number of queries, every     *)
(* size of the ID space and every timeout.                                  *)
(***************************************************************************)
EXTENDS DNSProxy, TLAPS, SequenceTheorems, WellFoundedInduction

\* The scan of getID_locked ends at the first ID that is not held, or at IdSpace.
LEMMA GetIDType ==
    ASSUME TypeOK
    PROVE  /\ ToUint16(getID_locked) \in Ids
           /\ Held(ToUint16(getID_locked)) => \A j \in Ids : Held(j)
<1>1. CASE ~ \E n \in Ids : ~Held(n)
  <2>1. getID_locked = IdSpace
    BY <1>1 DEF getID_locked
  <2> QED  BY <1>1, <2>1, IdSpaceAssumption DEF ToUint16, Ids
<1>2. CASE \E n \in Ids : ~Held(n)
  <2> DEFINE Free == {n \in Ids : ~Held(n)}
  <2>1. Free # {} /\ Free \subseteq Nat
    BY <1>2, IdSpaceAssumption DEF Ids
  <2>2. PICK x \in Free : \A y \in Free : ~(<<y, x>> \in OpToRel(<, Nat))
    <3> HIDE DEF Free
    <3> QED  BY <2>1, WFMin, NatLessThanWellFounded
  <2>3. \A y \in Free : ~(y < x)
    BY <2>1, <2>2 DEF OpToRel
  <2>4. \A m \in 0..(x - 1) : Held(m)
    BY <2>3, IdSpaceAssumption DEF Ids
  <2>5. x \in Ids /\ ~Held(x)
    OBVIOUS
  <2> DEFINE n == CHOOSE n \in Ids : ~Held(n) /\ \A m \in 0..(n - 1) : Held(m)
  <2>6. n \in Ids /\ ~Held(n)
    BY <2>4, <2>5
  <2>7. getID_locked = n
    BY <1>2 DEF getID_locked
  <2>8. ToUint16(n) = n
    <3> HIDE DEF n
    <3> QED  BY <2>6, IdSpaceAssumption DEF ToUint16, Ids
  <2> QED
    <3> HIDE DEF n
    <3> QED  BY <2>6, <2>7, <2>8
<1> QED  BY <1>1, <1>2

\* The proxy's state keeps its types: the narrowed ID always names an entry of
\* the table (sendPacket, mainloop).
THEOREM TypeCorrect == Spec => []TypeOK
<1> USE IdSpaceAssumption, TimeoutAssumption, AllowedAssumption DEF Ids, Entry, Packet
<1>1. Init => TypeOK
  BY DEF Init, TypeOK, Absent
<1>2. TypeOK /\ [Next]_vars => TypeOK'
  <2> SUFFICES ASSUME TypeOK, [Next]_vars
               PROVE  TypeOK'
    OBVIOUS
  <2>1. ASSUME NEW q \in Queries, Track(q)
        PROVE  TypeOK'
    <3>1. CASE ~recurseFor(q)
      BY <2>1, <3>1 DEF Track, TypeOK
    <3>2. CASE recurseFor(q)
      <4> DEFINE id == ToUint16(getID_locked)
      <4>1. id \in Ids
        BY GetIDType
      <4>2. /\ conntrack' = [conntrack EXCEPT ![id] = NewEntry(q)]
            /\ tracked' = [tracked EXCEPT ![q] = id]
            /\ fate' = [p \in Queries |->
                            IF p = q THEN "tracked"
                            ELSE IF p = conntrack[id].query THEN Reason(id) ELSE fate[p]]
            /\ pc' = [pc EXCEPT ![q] = "tracked"]
            /\ UNCHANGED <<now, toBackend, toProxy, got, cached>>
        BY <2>1, <3>2 DEF Track
      <4> HIDE DEF id
      <4>3. NewEntry(q) \in Entry
        BY DEF NewEntry, TypeOK
      <4>4. conntrack' \in [Ids -> Entry]
        BY <4>1, <4>2, <4>3 DEF TypeOK
      <4>5. Reason(id) \in {"displaced", "closed", "expired"}
        BY DEF Reason
      <4>6. fate' \in [Queries -> {"none", "tracked", "closed", "expired", "displaced"}]
        BY <4>2, <4>5 DEF TypeOK
      <4>7. tracked' \in [Queries -> Ids] /\ pc' \in [Queries -> {"new", "refused", "tracked", "sent"}]
        BY <4>1, <4>2 DEF TypeOK
      <4> QED  BY <4>2, <4>4, <4>6, <4>7 DEF TypeOK
    <3> QED  BY <3>1, <3>2
  <2>2. ASSUME NEW q \in Queries, Transmit(q)
        PROVE  TypeOK'
    <3>1. XorMask(tracked[q]) \in Ids
      BY XorAssumption DEF TypeOK
    <3> QED  BY <2>2, <3>1 DEF Transmit, TypeOK
  <2>3. ASSUME NEW p \in toBackend, BackendAnswer(p)
        PROVE  TypeOK'
    BY <2>3 DEF BackendAnswer, TypeOK
  <2>4. ASSUME NEW p \in toProxy, Receive(p)
        PROVE  TypeOK'
    <3>1. p \in Packet /\ Unmask(p) \in Ids
      BY XorAssumption DEF TypeOK, Unmask
    <3>2. CASE UNCHANGED <<conntrack, got, cached>>
      BY <2>4, <3>2 DEF Receive, TypeOK
    <3>3. CASE ~ UNCHANGED <<conntrack, got, cached>>
      <4> DEFINE i == Unmask(p)
                 owner == conntrack[i].query
      <4>1. /\ owner # NoQuery
            /\ got' = [got EXCEPT ![owner] = Append(@, p.query)]
            /\ conntrack' = [conntrack EXCEPT ![i] = Answered(@)]
            /\ cached' \subseteq cached \cup {p.query}
            /\ UNCHANGED <<now, pc, tracked, toBackend, fate>>
            /\ toProxy' \subseteq toProxy
        BY <2>4, <3>3 DEF Receive
      <4>2. conntrack[i] \in Entry /\ p.query \in Queries
        BY <3>1 DEF TypeOK
      <4>3. Answered(conntrack[i]) \in Entry /\ owner \in Queries
        BY <4>1, <4>2 DEF Answered
      <4> HIDE DEF i, owner
      <4>4. Append(got[owner], p.query) \in Seq(Queries)
        BY <4>2, <4>3, AppendProperties DEF TypeOK
      <4> QED  BY <3>1, <4>1, <4>3, <4>4 DEF TypeOK, i
    <3> QED  BY <3>2, <3>3
  <2>5. CASE Tick
    BY <2>5 DEF Tick, TypeOK
  <2>6. CASE UNCHANGED vars
    BY <2>6 DEF vars, TypeOK
  <2> QED  BY <2>1, <2>2, <2>3, <2>4, <2>5, <2>6 DEF Next
<1> QED  BY <1>1, <1>2, PTL DEF Spec

\* What mainloop does when it does not discard the packet.
LEMMA RelayStep ==
    ASSUME TypeOK, TableConsistent, NEW p \in toProxy, Receive(p),
           ~ UNCHANGED <<conntrack, got, cached>>
    PROVE  \E i \in Ids, q \in Queries :
              /\ i = tracked[p.query] /\ q = conntrack[i].query
              /\ p.query \in Queries /\ pc[p.query] = "sent"
              /\ got[q] = <<>>
              /\ got' = [got EXCEPT ![q] = <<p.query>>]
              /\ cached' \subseteq cached \cup {p.query}
              /\ conntrack' = [conntrack EXCEPT ![i] = Answered(@)]
              /\ toProxy' \subseteq toProxy
              /\ UNCHANGED <<now, pc, tracked, toBackend, fate>>
<1> DEFINE i == Unmask(p)
           q == conntrack[i].query
<1>1. p \in Packet /\ p.query \in Queries /\ p.id \in Ids
  BY DEF TypeOK, Packet
<1>2. pc[p.query] = "sent" /\ p.id = XorMask(tracked[p.query])
  BY DEF TableConsistent, PacketsMatch
<1>3. i = tracked[p.query] /\ i \in Ids
  BY <1>1, <1>2, XorAssumption DEF TypeOK, Unmask, Ids
<1>4. /\ q # NoQuery /\ conntrack[i].created # 0
      /\ got' = [got EXCEPT ![q] = Append(@, p.query)]
      /\ cached' \subseteq cached \cup {p.query}
      /\ conntrack' = [conntrack EXCEPT ![i] = Answered(@)]
      /\ toProxy' \subseteq toProxy
      /\ UNCHANGED <<now, pc, tracked, toBackend, fate>>
  BY DEF Receive
<1>5. q \in Queries
  BY <1>3, <1>4 DEF TypeOK, Entry
<1>6. got[q] = <<>>
  BY <1>3, <1>4 DEF TableConsistent, EntriesOwned
<1>7. Append(got[q], p.query) = <<p.query>>
  BY <1>6, <1>1
<1> HIDE DEF i, q
<1>8. got' = [got EXCEPT ![q] = <<p.query>>]
  BY <1>4, <1>7, <1>5 DEF TypeOK
<1> QED  BY <1>1, <1>2, <1>3, <1>4, <1>5, <1>6, <1>8 DEF q

\* What sendPacket does to the table for an allowed query.
LEMMA TrackStep ==
    ASSUME TypeOK, TableConsistent, NEW q \in Queries, Track(q), recurseFor(q)
    PROVE  \E i \in Ids :
              /\ q \in Allowed /\ pc[q] = "new" /\ got[q] = <<>> /\ fate[q] = "none"
              /\ conntrack' = [conntrack EXCEPT ![i] = NewEntry(q)]
              /\ tracked' = [tracked EXCEPT ![q] = i]
              /\ pc' = [pc EXCEPT ![q] = "tracked"]
              /\ fate'[q] = "tracked"
              /\ \A p \in Queries \ {q} :
                    fate'[p] = IF p = conntrack[i].query THEN Reason(i) ELSE fate[p]
              /\ Reason(i) \in {"closed", "expired", "displaced"}
              /\ UNCHANGED <<now, toBackend, toProxy, got, cached>>
<1> DEFINE i == ToUint16(getID_locked)
<1>1. i \in Ids
  BY GetIDType
<1>2. q \in Allowed /\ pc[q] = "new" /\ got[q] = <<>> /\ fate[q] = "none"
  BY DEF Track, recurseFor, TableConsistent, FatesFollow
<1>3. /\ conntrack' = [conntrack EXCEPT ![i] = NewEntry(q)]
      /\ tracked' = [tracked EXCEPT ![q] = i]
      /\ pc' = [pc EXCEPT ![q] = "tracked"]
      /\ fate' = [p \in Queries |->
                      IF p = q THEN "tracked"
                      ELSE IF p = conntrack[i].query THEN Reason(i) ELSE fate[p]]
      /\ UNCHANGED <<now, toBackend, toProxy, got, cached>>
  BY DEF Track
<1>4. Reason(i) \in {"closed", "expired", "displaced"}
  BY DEF Reason
<1> HIDE DEF i
<1> QED  BY <1>1, <1>2, <1>3, <1>4

\* The inductive invariant: types, bookkeeping and what clients have received.
Inv == TypeOK /\ TableConsistent /\ AtMostOneAnswer /\ MisdeliveryNeedsReuse

\* sendPacket's locked block keeps the table consistent.
LEMMA TrackPreserves ==
    ASSUME Inv, TypeOK', NEW q \in Queries, Track(q)
    PROVE  (TableConsistent /\ AtMostOneAnswer /\ MisdeliveryNeedsReuse)'
<1> USE DEF Inv
<1>1. CASE ~recurseFor(q)
  <2>1. /\ pc[q] = "new" /\ pc' = [pc EXCEPT ![q] = "refused"]
        /\ UNCHANGED <<now, conntrack, tracked, toBackend, toProxy, got, cached, fate>>
    BY <1>1 DEF Track
  <2>2. EntriesOwned' /\ AtMostOneAnswer' /\ MisdeliveryNeedsReuse'
    BY <2>1 DEF TableConsistent, EntriesOwned, AtMostOneAnswer, MisdeliveryNeedsReuse, Ids
  <2>3. FatesFollow'
    BY <2>1 DEF TableConsistent, FatesFollow, TypeOK
  <2>4. PacketsMatch'
    BY <2>1 DEF TableConsistent, PacketsMatch, TypeOK, Packet
  <2>5. CachedWasRelayed'
    BY <2>1 DEF TableConsistent, CachedWasRelayed
  <2> QED  BY <2>2, <2>3, <2>4, <2>5 DEF TableConsistent
<1>2. CASE recurseFor(q)
  <2>1. PICK i \in Ids :
          /\ q \in Allowed /\ pc[q] = "new" /\ got[q] = <<>> /\ fate[q] = "none"
          /\ conntrack' = [conntrack EXCEPT ![i] = NewEntry(q)]
          /\ tracked' = [tracked EXCEPT ![q] = i]
          /\ pc' = [pc EXCEPT ![q] = "tracked"]
          /\ fate'[q] = "tracked"
          /\ \A p \in Queries \ {q} :
                fate'[p] = IF p = conntrack[i].query THEN Reason(i) ELSE fate[p]
          /\ Reason(i) \in {"closed", "expired", "displaced"}
          /\ UNCHANGED <<now, toBackend, toProxy, got, cached>>
    BY <1>2, TrackStep
  <2>2. q # NoQuery /\ NewEntry(q).query = q /\ NewEntry(q).created # 0
    BY AllowedAssumption, TimeoutAssumption DEF NewEntry, TypeOK
  <2>3. \A j \in Ids : conntrack[j].query # q
    BY <2>1, <2>2 DEF TableConsistent, EntriesOwned
  <2>4. EntriesOwned'
    <3> SUFFICES ASSUME NEW j \in Ids, conntrack'[j].query # NoQuery
                 PROVE  LET r == conntrack'[j].query IN
                          /\ tracked'[r] = j
                          /\ fate'[r] = "tracked"
                          /\ (conntrack'[j].created # 0) <=> (got'[r] = <<>>)
      BY DEF EntriesOwned, Ids
    <3>1. CASE j = i
      BY <2>1, <2>2, <3>1 DEF TypeOK
    <3>2. CASE j # i
      <4> DEFINE r == conntrack[j].query
      <4>1. conntrack'[j] = conntrack[j] /\ r # NoQuery /\ r # q
        BY <2>1, <2>3, <3>2 DEF TypeOK
      <4>2. r \in Queries
        BY <4>1 DEF TypeOK, Entry
      <4>3. /\ tracked[r] = j /\ fate[r] = "tracked"
            /\ (conntrack[j].created # 0) <=> (got[r] = <<>>)
        BY <4>1 DEF TableConsistent, EntriesOwned
      <4>4. r # conntrack[i].query
        BY <4>1, <4>3, <3>2 DEF TableConsistent, EntriesOwned
      <4> HIDE DEF r
      <4>5. tracked'[r] = j /\ fate'[r] = "tracked" /\ got'[r] = got[r]
        BY <2>1, <4>1, <4>2, <4>3, <4>4 DEF TypeOK
      <4> QED  BY <4>1, <4>3, <4>5 DEF r
    <3> QED  BY <3>1, <3>2
  <2>5. FatesFollow'
    <3> SUFFICES ASSUME NEW r \in Queries
                 PROVE  /\ fate'[r] = "tracked" => conntrack'[tracked'[r]].query = r
                        /\ fate'[r] = "none" <=> pc'[r] \in {"new", "refused"}
                        /\ fate'[r] = "none" => got'[r] = <<>>
                        /\ fate'[r] # "none" => r \in Allowed
      BY DEF FatesFollow
    <3>1. CASE r = q
      BY <2>1, <2>2, <3>1 DEF TypeOK
    <3>2. CASE r # q
      <4>1. pc'[r] = pc[r] /\ tracked'[r] = tracked[r] /\ got'[r] = got[r]
        BY <2>1, <3>2 DEF TypeOK
      <4>2. CASE r = conntrack[i].query
        <5>1. fate[r] = "tracked"
          BY <4>2, AllowedAssumption DEF TableConsistent, EntriesOwned
        <5> QED  BY <2>1, <3>2, <4>1, <4>2, <5>1 DEF TableConsistent, FatesFollow
      <4>3. CASE r # conntrack[i].query
        <5>1. fate'[r] = fate[r]
          BY <2>1, <3>2, <4>3
        <5>2. fate[r] = "tracked" => tracked[r] # i /\ conntrack[tracked[r]].query = r
          BY <4>3 DEF TableConsistent, FatesFollow
        <5>3. fate[r] = "tracked" => conntrack'[tracked[r]] = conntrack[tracked[r]]
          BY <2>1, <5>2 DEF TypeOK
        <5> QED  BY <4>1, <5>1, <5>2, <5>3 DEF TableConsistent, FatesFollow
      <4> QED  BY <4>2, <4>3
    <3> QED  BY <3>1, <3>2
  <2>6. PacketsMatch'
    BY <2>1 DEF TableConsistent, PacketsMatch, TypeOK, Packet
  <2>7. AtMostOneAnswer'
    BY <2>1 DEF AtMostOneAnswer
  <2>8. MisdeliveryNeedsReuse'
    <3> SUFFICES ASSUME NEW r \in Queries, NEW k \in DOMAIN got[r], got[r][k] # r
                 PROVE  fate'[got[r][k]] \in {"closed", "expired", "displaced"}
      BY <2>1 DEF MisdeliveryNeedsReuse
    <3>1. fate[got[r][k]] \in {"closed", "expired", "displaced"}
      BY DEF MisdeliveryNeedsReuse
    <3>2. got[r][k] \in Queries
      BY ElementOfSeq, LenProperties DEF TypeOK
    <3> QED  BY <2>1, <3>1, <3>2
  <2>9. CachedWasRelayed'
    BY <2>1 DEF TableConsistent, CachedWasRelayed
  <2> QED  BY <2>4, <2>5, <2>6, <2>7, <2>8, <2>9 DEF TableConsistent
<1> QED  BY <1>1, <1>2

\* Relaying or discarding a packet keeps the table consistent, and a client that
\* gets someone else's answer gets it only after that query's entry was given up.
LEMMA ReceivePreserves ==
    ASSUME Inv, TypeOK', NEW p \in toProxy, Receive(p)
    PROVE  (TableConsistent /\ AtMostOneAnswer /\ MisdeliveryNeedsReuse)'
<1> USE DEF Inv
<1>1. CASE UNCHANGED <<conntrack, got, cached>>
  <2>1. UNCHANGED <<now, conntrack, pc, tracked, toBackend, got, cached, fate>> /\ toProxy' \subseteq toProxy
    BY <1>1 DEF Receive
  <2>2. EntriesOwned' /\ FatesFollow'
    BY <2>1 DEF TableConsistent, EntriesOwned, FatesFollow
  <2>3. PacketsMatch'
    BY <2>1 DEF TableConsistent, PacketsMatch
  <2>4. AtMostOneAnswer' /\ MisdeliveryNeedsReuse'
    BY <2>1 DEF AtMostOneAnswer, MisdeliveryNeedsReuse
  <2>5. CachedWasRelayed'
    BY <2>1 DEF TableConsistent, CachedWasRelayed
  <2> QED  BY <2>2, <2>3, <2>4, <2>5 DEF TableConsistent
<1>2. CASE ~ UNCHANGED <<conntrack, got, cached>>
  <2>1. PICK i \in Ids, q \in Queries :
              /\ i = tracked[p.query] /\ q = conntrack[i].query
              /\ p.query \in Queries /\ pc[p.query] = "sent"
              /\ got[q] = <<>>
              /\ got' = [got EXCEPT ![q] = <<p.query>>]
              /\ cached' \subseteq cached \cup {p.query}
              /\ conntrack' = [conntrack EXCEPT ![i] = Answered(@)]
              /\ toProxy' \subseteq toProxy
              /\ UNCHANGED <<now, pc, tracked, toBackend, fate>>
    BY <1>2, RelayStep
  <2>2. Answered(conntrack[i]).query = q /\ Answered(conntrack[i]).created = 0
    BY <2>1 DEF Answered, TypeOK, Entry
  <2>3. \A j \in Ids : conntrack'[j].query = conntrack[j].query
    BY <2>1, <2>2 DEF TypeOK
  <2>4. EntriesOwned'
    <3> SUFFICES ASSUME NEW j \in Ids, conntrack[j].query # NoQuery
                 PROVE  LET r == conntrack[j].query IN
                          /\ tracked[r] = j
                          /\ fate[r] = "tracked"
                          /\ (conntrack'[j].created # 0) <=> (got'[r] = <<>>)
      BY <2>1, <2>3 DEF EntriesOwned, Ids
    <3> DEFINE r == conntrack[j].query
    <3>1. /\ tracked[r] = j /\ fate[r] = "tracked"
          /\ (conntrack[j].created # 0) <=> (got[r] = <<>>)
      BY DEF TableConsistent, EntriesOwned
    <3>2. r \in Queries
      BY DEF TypeOK, Entry
    <3>3. CASE j = i
      <4>1. got'[r] = <<p.query>> /\ conntrack'[j].created = 0
        BY <2>1, <2>2, <3>3 DEF TypeOK
      <4> QED  BY <3>1, <4>1
    <3>4. CASE j # i
      <4>1. r # q
        BY <2>1, <3>1, <3>4, AllowedAssumption DEF TableConsistent, EntriesOwned
      <4> HIDE DEF r
      <4>2. got'[r] = got[r] /\ conntrack'[j] = conntrack[j]
        BY <2>1, <3>2, <3>4, <4>1 DEF TypeOK
      <4> QED  BY <3>1, <4>2 DEF r
    <3> QED  BY <3>3, <3>4
  <2>5. fate[q] = "tracked"
    BY <2>1, AllowedAssumption DEF TableConsistent, EntriesOwned
  <2>6. FatesFollow'
    <3> SUFFICES ASSUME NEW r \in Queries
                 PROVE  /\ fate[r] = "tracked" => conntrack'[tracked[r]].query = r
                        /\ fate[r] = "none" <=> pc[r] \in {"new", "refused"}
                        /\ fate[r] = "none" => got'[r] = <<>>
                        /\ fate[r] # "none" => r \in Allowed
      BY <2>1 DEF FatesFollow
    <3>1. fate[r] = "none" => got'[r] = got[r]
      BY <2>1, <2>5 DEF TypeOK
    <3>2. tracked[r] \in Ids
      BY DEF TypeOK
    <3> QED  BY <2>3, <3>1, <3>2 DEF TableConsistent, FatesFollow
  <2>7. PacketsMatch'
    BY <2>1 DEF TableConsistent, PacketsMatch
  <2>8. AtMostOneAnswer'
    <3> SUFFICES ASSUME NEW r \in Queries
                 PROVE  Len(got'[r]) <= 1
      BY DEF AtMostOneAnswer
    <3>1. got'[r] = IF r = q THEN <<p.query>> ELSE got[r]
      BY <2>1 DEF TypeOK
    <3> QED  BY <3>1 DEF AtMostOneAnswer
  <2>9. MisdeliveryNeedsReuse'
    <3> SUFFICES ASSUME NEW r \in Queries, NEW k \in DOMAIN got'[r], got'[r][k] # r
                 PROVE  fate[got'[r][k]] \in {"closed", "expired", "displaced"}
      BY <2>1 DEF MisdeliveryNeedsReuse
    <3>1. CASE r = q
      <4>1. got'[r][k] = p.query /\ p.query # q
        BY <2>1, <3>1 DEF TypeOK
      <4>2. fate[p.query] # "none"
        BY <2>1 DEF TableConsistent, FatesFollow
      <4>3. fate[p.query] # "tracked"
        BY <2>1, <4>1 DEF TableConsistent, FatesFollow
      <4> QED  BY <2>1, <4>1, <4>2, <4>3 DEF TypeOK
    <3>2. CASE r # q
      <4>1. got'[r] = got[r]
        BY <2>1, <3>2 DEF TypeOK
      <4> QED  BY <4>1 DEF MisdeliveryNeedsReuse
    <3> QED  BY <3>1, <3>2
  <2>10. CachedWasRelayed'
    <3> SUFFICES ASSUME NEW c \in cached'
                 PROVE  \E r \in Queries : got'[r] = <<c>>
      BY DEF CachedWasRelayed
    <3>1. got'[q] = <<p.query>> /\ \A r \in Queries \ {q} : got'[r] = got[r]
      BY <2>1 DEF TypeOK
    <3>2. CASE c = p.query
      BY <3>1, <3>2
    <3>3. CASE c \in cached
      <4>1. PICK r \in Queries : got[r] = <<c>>
        BY <3>3 DEF TableConsistent, CachedWasRelayed
      <4>2. Len(got[r]) = 1 /\ Len(got[q]) = 0
        BY <2>1, <4>1
      <4>3. r # q
        BY <4>2
      <4> QED  BY <3>1, <4>1, <4>3
    <3> QED  BY <2>1, <3>2, <3>3
  <2> QED  BY <2>4, <2>6, <2>7, <2>8, <2>9, <2>10 DEF TableConsistent
<1> QED  BY <1>1, <1>2

\* The invariant holds initially and every step of the two threads, the network,
\* the backend and the clock keeps it.
THEOREM Invariant == Spec => []Inv
<1>1. Init => Inv
  <2> SUFFICES ASSUME Init PROVE Inv
    OBVIOUS
  <2>1. TypeOK
    BY IdSpaceAssumption, TimeoutAssumption, AllowedAssumption
       DEF Init, TypeOK, Absent, Entry, Packet, Ids
  <2>2. TableConsistent
    BY DEF Init, TableConsistent, EntriesOwned, FatesFollow, PacketsMatch, CachedWasRelayed,
               Absent
  <2>3. AtMostOneAnswer /\ MisdeliveryNeedsReuse
    BY DEF Init, AtMostOneAnswer, MisdeliveryNeedsReuse
  <2> QED  BY <2>1, <2>2, <2>3 DEF Inv
<1>2. Inv /\ TypeOK' /\ [Next]_vars => Inv'
  <2> SUFFICES ASSUME Inv, TypeOK', [Next]_vars
               PROVE  (TableConsistent /\ AtMostOneAnswer /\ MisdeliveryNeedsReuse)'
    BY DEF Inv
  <2>1. ASSUME NEW q \in Queries, Track(q)
        PROVE  (TableConsistent /\ AtMostOneAnswer /\ MisdeliveryNeedsReuse)'
    BY <2>1, TrackPreserves
  <2>2. ASSUME NEW p \in toProxy, Receive(p)
        PROVE  (TableConsistent /\ AtMostOneAnswer /\ MisdeliveryNeedsReuse)'
    BY <2>2, ReceivePreserves
  <2> USE DEF Inv
  <2>3. ASSUME NEW q \in Queries, Transmit(q)
        PROVE  (TableConsistent /\ AtMostOneAnswer /\ MisdeliveryNeedsReuse)'
    <3>1. /\ pc[q] = "tracked" /\ pc' = [pc EXCEPT ![q] = "sent"]
          /\ toBackend' \subseteq toBackend \cup {[id |-> XorMask(tracked[q]), query |-> q]}
          /\ UNCHANGED <<now, conntrack, tracked, toProxy, got, cached, fate>>
      BY <2>3 DEF Transmit
    <3>2. EntriesOwned' /\ AtMostOneAnswer' /\ MisdeliveryNeedsReuse' /\ CachedWasRelayed'
      BY <3>1 DEF TableConsistent, EntriesOwned, CachedWasRelayed, AtMostOneAnswer, MisdeliveryNeedsReuse
    <3>3. FatesFollow'
      BY <3>1 DEF TableConsistent, FatesFollow, TypeOK
    <3>4. PacketsMatch'
      BY <3>1 DEF TableConsistent, PacketsMatch, TypeOK, Packet
    <3> QED  BY <3>2, <3>3, <3>4 DEF TableConsistent
  <2>4. ASSUME NEW p \in toBackend, BackendAnswer(p)
        PROVE  (TableConsistent /\ AtMostOneAnswer /\ MisdeliveryNeedsReuse)'
    <3>1. /\ toBackend' \cup toProxy' \subseteq toBackend \cup toProxy
          /\ UNCHANGED <<now, conntrack, pc, tracked, got, cached, fate>>
      BY <2>4 DEF BackendAnswer
    <3>2. EntriesOwned' /\ FatesFollow' /\ CachedWasRelayed' /\ AtMostOneAnswer' /\ MisdeliveryNeedsReuse'
      BY <3>1 DEF TableConsistent, EntriesOwned, FatesFollow, CachedWasRelayed, AtMostOneAnswer, MisdeliveryNeedsReuse
    <3>3. PacketsMatch'
      BY <3>1 DEF TableConsistent, PacketsMatch
    <3> QED  BY <3>2, <3>3 DEF TableConsistent
  <2>5. CASE Tick \/ UNCHANGED vars
    <3>1. UNCHANGED <<conntrack, pc, tracked, toBackend, toProxy, got, cached, fate>>
      BY <2>5 DEF Tick, vars
    <3> QED
      BY <3>1 DEF TableConsistent, EntriesOwned, FatesFollow, PacketsMatch,
                  CachedWasRelayed, AtMostOneAnswer, MisdeliveryNeedsReuse
  <2> QED  BY <2>1, <2>2, <2>3, <2>4, <2>5 DEF Next
<1> QED  BY <1>1, <1>2, TypeCorrect, PTL DEF Spec

\* However often answers are repeated or delayed, mainloop relays at most one
\* packet per forwarded query.
THEOREM OneAnswer == Spec => []AtMostOneAnswer
BY Invariant, PTL DEF Inv

\* mainloop gives a client somebody else's answer only after that query's entry
\* was closed, expired or displaced.
THEOREM NoMisdeliveryWithoutReuse == Spec => []MisdeliveryNeedsReuse
BY Invariant, PTL DEF Inv

\* getID_locked takes over a held ID only when it finds every ID held.
THEOREM HeldIDsAreSafe == Spec => ReuseOnlyWhenFull
<1>1. Inv /\ [Next]_vars =>
        [\A i \in Ids : Held(i) /\ conntrack'[i].query # conntrack[i].query
                            => \A j \in Ids : Held(j)]_vars
  <2> SUFFICES ASSUME Inv, Next, NEW i \in Ids, Held(i),
                      conntrack'[i].query # conntrack[i].query
               PROVE  \A j \in Ids : Held(j)
    OBVIOUS
  <2>1. CASE \E q \in Queries : Track(q)
    <3>1. PICK q \in Queries : Track(q)
      BY <2>1
    <3>2. conntrack' = [conntrack EXCEPT ![ToUint16(getID_locked)] = NewEntry(q)]
      BY <3>1 DEF Track
    <3>3. i = ToUint16(getID_locked)
      BY <3>2 DEF Inv, TypeOK
    <3> QED  BY <3>3, GetIDType DEF Inv
  <2>2. ASSUME NEW p \in toProxy, Receive(p)
        PROVE  FALSE
    <3>1. ~ UNCHANGED <<conntrack, got, cached>>
      OBVIOUS
    <3>2. PICK k \in Ids : conntrack' = [conntrack EXCEPT ![k] = Answered(@)]
      BY <2>2, <3>1, RelayStep DEF Inv
    <3> QED  BY <3>2 DEF Answered, Inv, TypeOK, Entry
  <2> QED  BY <2>1, <2>2 DEF Next, Transmit, BackendAnswer, Tick
<1> QED  BY <1>1, Invariant, PTL DEF Spec, ReuseOnlyWhenFull
=============================================================================

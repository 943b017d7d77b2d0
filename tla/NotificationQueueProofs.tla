---------------------- MODULE NotificationQueueProofs ----------------------
(***************************************************************************)
(* Proofs about NotificationQueue, for any notifications, targets and IDs   *)
(* and any interleaving of the communicator and control threads: an entry   *)
(* is given up or acknowledged for a reason, and a notification whose       *)
(* answer was read is not sent again unless another took the credit.        *)
(***************************************************************************)
EXTENDS NotificationQueue, SequenceTheorems, WellFoundedInduction, TLAPS

InQueue(n) == \E k \in DOMAIN nqueue : nqueue[k].n = n

\* An entry is in the list once, as long as it is queued, and has counted the
\* attempts that were made.
QueueOK ==
    /\ \A i, j \in DOMAIN nqueue : i # j => nqueue[i].n # nqueue[j].n
    /\ \A i \in DOMAIN nqueue : /\ outcome[nqueue[i].n] = "queued"
                                /\ nqueue[i].n # ctl.n
                                /\ sent[nqueue[i].n] = nqueue[i].attempts

\* The notification that the control thread is adding was not sent.
CtlOK == ctl # NoAdd => /\ ctl.n \in Notifications
                        /\ outcome[ctl.n] = "queued" /\ sent[ctl.n] = 0

\* What was not added was not sent, and what was has an ID.
AddedOK ==
    \A n \in Notifications : IF outcome[n] = "new" THEN sent[n] = 0 ELSE id[n] \in Ids

\* Packets and answers are about notifications that were in the list, and carry
\* their ID.
WireOK ==
    /\ acks \subseteq wire
    /\ \A pk \in wire : /\ pk.to = Target[pk.n] /\ pk.id = id[pk.n]
                        /\ outcome[pk.n] # "new" /\ pk.n # ctl.n
    /\ \A n \in answered : outcome[n] # "new" /\ n # ctl.n

\* Another notification was credited with the answer to n.
Credited(n) ==
    \E m \in Notifications \ {n} : /\ Target[m] = Target[n] /\ id[m] = id[n]
                                   /\ outcome[m] = "acked"

AnsweredOK == \A n \in answered : InQueue(n) => Credited(n)

Inv == /\ TypeOK /\ QueueOK /\ CtlOK /\ AddedOK /\ WireOK
       /\ DroppedForAReason /\ AnsweredOK

-----------------------------------------------------------------------------
(* Facts about the operators.                                                *)

\* A set of positions that is not empty has a first one.
LEMMA LeastPosition ==
    ASSUME NEW I, I \subseteq Nat, I # {}
    PROVE  Min(I) \in I
<1>1. PICK x \in I : \A y \in I : ~(<<y, x>> \in OpToRel(<, Nat))
  BY WFMin, NatLessThanWellFounded
<1>3. \A y \in I : ~(y < x)
  BY <1>1 DEF OpToRel
<1>2. \A y \in I : x <= y
  BY <1>3
<1> QED
  BY <1>2 DEF Min

\* getOne finds an entry whose time has come, if there is one.
LEMMA DueFacts ==
    ASSUME nqueue \in Seq(Entry), Due # 0
    PROVE  Due \in DOMAIN nqueue
<1> DEFINE I == {i \in 1..Len(nqueue) : nqueue[i].wait = 0}
<1>1. Due = IF I # {} THEN Min(I) ELSE 0
  BY DEF Due, SelectInSeq
<1>2. I \subseteq Nat /\ I \subseteq DOMAIN nqueue
  OBVIOUS
<1> HIDE DEF I
<1> QED
  BY <1>1, <1>2, LeastPosition

\* removeIf finds an entry that the answer matches, if there is one.
LEMMA removeIfFacts ==
    ASSUME nqueue \in Seq(Entry), NEW p
    PROVE  \/ removeIf(p) \in DOMAIN nqueue /\ removeIf(p) # 0 /\ Matches(nqueue[removeIf(p)], p)
           \/ removeIf(p) = 0 /\ \A i \in DOMAIN nqueue : ~Matches(nqueue[i], p)
<1> DEFINE I == {i \in 1..Len(nqueue) : Matches(nqueue[i], p)}
<1>1. removeIf(p) = IF I # {} THEN Min(I) ELSE 0
  BY DEF removeIf, SelectInSeq
<1>2. I \subseteq Nat /\ 0 \notin I /\ I = {i \in DOMAIN nqueue : Matches(nqueue[i], p)}
  OBVIOUS
<1>3. CASE I = {}
  BY <1>1, <1>2, <1>3
<1>4. CASE I # {}
  <2>1. removeIf(p) \in I
    <3> HIDE DEF I
    <3> QED
      BY <1>1, <1>2, <1>4, LeastPosition
  <2> QED
    BY <1>2, <2>1
<1> QED
  BY <1>3, <1>4

\* The tail that the control thread saw is at a position of the list, or gone.
LEMMA SeenTailFacts ==
    ASSUME nqueue \in Seq(Entry)
    PROVE  SeenTail \in 0..Len(nqueue)
<1> DEFINE I == {i \in 1..Len(nqueue) : nqueue[i].n = ctl.tail}
<1>1. SeenTail = IF I # {} THEN Min(I) ELSE 0
  BY DEF SeenTail, SelectInSeq
<1>2. I \subseteq Nat /\ I \subseteq 1..Len(nqueue)
  OBVIOUS
<1> HIDE DEF I
<1>3. SeenTail \in I \/ SeenTail = 0
  BY <1>1, <1>2, LeastPosition
<1>4. 0 \in 0..Len(nqueue) /\ \A i \in 1..Len(nqueue) : i \in 0..Len(nqueue)
  OBVIOUS
<1>5. SeenTail \in I => SeenTail \in 1..Len(nqueue)
  BY <1>2, Zenon
<1> QED
  BY <1>3, <1>4, <1>5, Zenon

\* erase() leaves the other entries, in their order.
LEMMA RemoveAtPositions ==
    ASSUME NEW S, NEW s \in Seq(S), NEW k \in DOMAIN s
    PROVE  /\ RemoveAt(s, k) \in Seq(S)
           /\ Len(RemoveAt(s, k)) = Len(s) - 1
           /\ \A j \in 1..(Len(s) - 1) : RemoveAt(s, k)[j] = IF j < k THEN s[j] ELSE s[j + 1]
<1> DEFINE a == SubSeq(s, 1, k - 1)
           b == SubSeq(s, k + 1, Len(s))
<1>1. Len(s) \in Nat /\ k \in 1..Len(s)
  OBVIOUS
<1>2. a \in Seq(S) /\ Len(a) = k - 1 /\ \A j \in 1..(k - 1) : a[j] = s[j]
  OBVIOUS
<1>3. /\ b \in Seq(S) /\ Len(b) = Len(s) - k
      /\ \A j \in 1..(Len(s) - k) : b[j] = s[k + j]
  OBVIOUS
<1>4. RemoveAt(s, k) = a \o b
  BY DEF RemoveAt
<1> HIDE DEF a, b
<1>5. /\ a \o b \in Seq(S) /\ Len(a \o b) = Len(a) + Len(b)
      /\ \A j \in 1..(Len(a) + Len(b)) :
            (a \o b)[j] = IF j <= Len(a) THEN a[j] ELSE b[j - Len(a)]
  BY <1>2, <1>3, ConcatProperties
<1>6. Len(a) + Len(b) = Len(s) - 1
  BY <1>1, <1>2, <1>3
<1>7. ASSUME NEW j \in 1..(Len(s) - 1), j < k PROVE (a \o b)[j] = s[j]
  BY <1>1, <1>2, <1>5, <1>6, <1>7
<1>8. ASSUME NEW j \in 1..(Len(s) - 1), ~(j < k) PROVE (a \o b)[j] = s[j + 1]
  <2>1. /\ j - (k - 1) \in 1..(Len(s) - k) /\ k + (j - (k - 1)) = j + 1
        /\ ~(j <= Len(a))
    BY <1>1, <1>2, <1>8
  <2>2. b[j - (k - 1)] = s[k + (j - (k - 1))]
    BY <1>3, <2>1
  <2> QED
    BY <1>2, <1>5, <1>6, <2>1, <2>2
<1> QED
  BY <1>4, <1>5, <1>6, <1>7, <1>8

\* The pause grows with the attempts.
LEMMA BackoffFacts ==
    /\ Backoff(MaxAttempts) \in Nat /\ MaxAttempts = 4
    /\ \A a \in 1..MaxAttempts : Backoff(a) \in 0..Backoff(MaxAttempts)
<1>1. /\ Backoff(1) = 3 /\ Backoff(2) = 5 /\ Backoff(3) = 9 /\ Backoff(4) = 17
      /\ MaxAttempts = 4
  BY DEF Backoff, MaxAttempts
<1>2. \A a \in 1..4 : a = 1 \/ a = 2 \/ a = 3 \/ a = 4
  OBVIOUS
<1>3. \A a \in 1..4 : Backoff(a) \in 0..17
  BY <1>1, <1>2
<1> QED
  BY <1>1, <1>3

\* Entries of the list.
LEMMA EntryFacts ==
    ASSUME TypeOK
    PROVE  /\ nqueue \in Seq(Entry)
           /\ \A i \in DOMAIN nqueue : /\ nqueue[i] \in Entry /\ nqueue[i].n \in Notifications
                                       /\ nqueue[i].attempts \in 0..MaxAttempts
                                       /\ nqueue[i].wait \in 0..Backoff(MaxAttempts)
           /\ \A n \in Notifications : NewEntry(n) \in Entry /\ NewEntry(n).n = n
                                       /\ NewEntry(n).attempts = 0
<1>1. nqueue \in Seq(Entry)
  BY DEF TypeOK
<1>2. \A i \in DOMAIN nqueue : nqueue[i] \in Entry
  BY <1>1
<1>3. \A n \in Notifications : NewEntry(n) \in Entry
  BY BackoffFacts DEF NewEntry, Entry
<1> QED
  BY <1>1, <1>2, <1>3 DEF Entry, NewEntry

\* The control thread adds nothing, or a notification.
LEMMA CtlFacts ==
    ASSUME TypeOK
    PROVE  /\ ctl.n \in Notifications \cup {Nobody} /\ Nobody \notin Notifications
           /\ NoAdd.n = Nobody
           /\ NoAdd \in [n : Notifications \cup {Nobody}, tail : Notifications \cup {Nobody}]
BY NotificationAssumption DEF TypeOK, NoAdd

-----------------------------------------------------------------------------
(* Steps that leave the list alone.                                          *)

\* Nothing of the list and of its history changes.
LEMMA QuietStep ==
    ASSUME Inv, UNCHANGED <<nqueue, ctl, wire, id, sent, outcome, answered>>,
           phase' \in {"idle", "drain", "send", "drill"},
           drilling' \in Targets \cup {Nobody}, hole' \in [Targets -> 0..HoleTime],
           acks' \subseteq wire
    PROVE  Inv'
<1>1. TypeOK'
  BY DEF Inv, TypeOK
<1>2. QueueOK' /\ CtlOK' /\ AddedOK'
  BY DEF Inv, QueueOK, CtlOK, AddedOK
<1>3. WireOK' /\ DroppedForAReason'
  BY DEF Inv, WireOK, DroppedForAReason
<1>4. AnsweredOK'
  BY DEF Inv, AnsweredOK, InQueue, Credited
<1> QED
  BY <1>1, <1>2, <1>3, <1>4 DEF Inv

\* The phases of doNotifications, and a slave that answers.
LEMMA PhaseStep ==
    ASSUME Inv, Start \/ EndDrain \/ EndSend \/ Drill \/ (\E pk \in wire : SlaveAnswers(pk))
    PROVE  Inv'
<1>1. /\ phase \in {"idle", "drain", "send", "drill"} /\ drilling \in Targets \cup {Nobody}
      /\ hole \in [Targets -> 0..HoleTime] /\ acks \subseteq wire
  BY DEF Inv, TypeOK, WireOK
<1>2. CASE Start \/ EndDrain \/ EndSend
  BY <1>1, <1>2, QuietStep DEF Start, EndDrain, EndSend
<1>3. CASE Drill
  <2>1. HoleTime \in 0..HoleTime
    BY HoleAssumption
  <2>2. hole' \in [Targets -> 0..HoleTime]
    BY <1>1, <1>3, <2>1 DEF Drill
  <2> QED
    BY <1>1, <1>3, <2>2, QuietStep DEF Drill
<1>4. CASE \E pk \in wire : SlaveAnswers(pk)
  BY <1>1, <1>4, QuietStep DEF SlaveAnswers
<1> QED
  BY <1>2, <1>3, <1>4

-----------------------------------------------------------------------------
(* add().                                                                    *)

\* The history of the other notifications stays when one is added.
LEMMA BecomesQueued ==
    ASSUME Inv, NEW n \in Notifications, outcome[n] = "new", NEW i \in Ids,
           id' = [id EXCEPT ![n] = i], outcome' = [outcome EXCEPT ![n] = "queued"],
           UNCHANGED <<sent, wire, acks, answered>>,
           \A m \in answered : InQueue(m)' => InQueue(m),
           ctl' = ctl \/ ctl'.n = n
    PROVE  /\ AddedOK' /\ WireOK' /\ DroppedForAReason' /\ AnsweredOK'
           /\ id' \in [Notifications -> Ids \cup {Nobody}]
           /\ outcome' \in [Notifications -> {"new", "queued", "acked", "failed", "lost"}]
           /\ outcome'[n] = "queued" /\ sent[n] = 0
           /\ \A m \in Notifications \ {n} : outcome'[m] = outcome[m] /\ id'[m] = id[m]
<1>1. TypeOK
  BY DEF Inv
<1>2. /\ id' \in [Notifications -> Ids \cup {Nobody}] /\ id'[n] = i
      /\ outcome' \in [Notifications -> {"new", "queued", "acked", "failed", "lost"}]
      /\ outcome'[n] = "queued"
      /\ \A m \in Notifications \ {n} : outcome'[m] = outcome[m] /\ id'[m] = id[m]
  BY <1>1 DEF TypeOK
<1>3. AddedOK' /\ sent[n] = 0
  BY <1>2 DEF Inv, AddedOK
<1>4. /\ \A pk \in wire : pk.n \in Notifications \ {n}
      /\ \A m \in answered : m \in Notifications \ {n}
  BY <1>1 DEF Inv, WireOK, TypeOK, Packet
<1>5. WireOK'
  BY <1>2, <1>4 DEF Inv, WireOK
<1>6. DroppedForAReason'
  BY <1>2, <1>4 DEF Inv, DroppedForAReason
<1>7. AnsweredOK'
  <2> SUFFICES ASSUME NEW x \in answered, InQueue(x)' PROVE Credited(x)'
    BY DEF AnsweredOK
  <2>1. PICK m \in Notifications \ {x} : /\ Target[m] = Target[x] /\ id[m] = id[x]
                                         /\ outcome[m] = "acked"
    BY DEF Inv, AnsweredOK, Credited
  <2> QED
    BY <1>2, <1>4, <2>1 DEF Credited
<1> QED
  BY <1>2, <1>3, <1>5, <1>6, <1>7

\* What append does to the list.
LEMMA Appended ==
    ASSUME TypeOK, NEW n \in Notifications, nqueue' = Append(nqueue, NewEntry(n))
    PROVE  /\ nqueue' \in Seq(Entry)
           /\ DOMAIN nqueue' = DOMAIN nqueue \cup {Len(nqueue) + 1}
           /\ \A i \in DOMAIN nqueue : nqueue'[i] = nqueue[i]
           /\ nqueue'[Len(nqueue) + 1] = NewEntry(n)
           /\ \A m : InQueue(m)' <=> InQueue(m) \/ m = n
<1>1. nqueue \in Seq(Entry) /\ NewEntry(n) \in Entry /\ NewEntry(n).n = n
  BY EntryFacts
<1>2. /\ nqueue' \in Seq(Entry) /\ DOMAIN nqueue' = DOMAIN nqueue \cup {Len(nqueue) + 1}
      /\ \A i \in DOMAIN nqueue : nqueue'[i] = nqueue[i]
      /\ nqueue'[Len(nqueue) + 1] = NewEntry(n)
  BY <1>1
<1> QED
  BY <1>1, <1>2 DEF InQueue

\* add() by the communicator thread.
LEMMA AddStep ==
    ASSUME Inv, NEW n \in Notifications, Add(n)
    PROVE  Inv'
<1>1. /\ outcome[n] = "new" /\ nqueue' = Append(nqueue, NewEntry(n))
      /\ outcome' = [outcome EXCEPT ![n] = "queued"]
      /\ UNCHANGED <<phase, drilling, ctl, hole, wire, acks, sent, answered>>
  BY DEF Add
<1>2. PICK i \in Ids : id' = [id EXCEPT ![n] = i]
  BY DEF Add
<1>3. TypeOK
  BY DEF Inv
<1>4. /\ nqueue' \in Seq(Entry)
      /\ DOMAIN nqueue' = DOMAIN nqueue \cup {Len(nqueue) + 1}
      /\ \A k \in DOMAIN nqueue : nqueue'[k] = nqueue[k]
      /\ nqueue'[Len(nqueue) + 1] = NewEntry(n)
      /\ \A m : InQueue(m)' <=> InQueue(m) \/ m = n
  BY <1>1, <1>3, Appended
<1>5. n \notin answered /\ n # ctl.n
  BY <1>1, <1>3, CtlFacts DEF Inv, WireOK, CtlOK
<1>6. /\ AddedOK' /\ WireOK' /\ DroppedForAReason' /\ AnsweredOK'
      /\ id' \in [Notifications -> Ids \cup {Nobody}]
      /\ outcome' \in [Notifications -> {"new", "queued", "acked", "failed", "lost"}]
      /\ outcome'[n] = "queued" /\ sent[n] = 0
      /\ \A m \in Notifications \ {n} : outcome'[m] = outcome[m] /\ id'[m] = id[m]
  <2>1. \A m \in answered : InQueue(m)' => InQueue(m)
    BY <1>4, <1>5
  <2> QED
    BY <1>1, <1>2, <2>1, BecomesQueued
<1>7. TypeOK'
  BY <1>1, <1>3, <1>4, <1>6 DEF TypeOK
<1>8. QueueOK'
  <2>1. \A k \in DOMAIN nqueue : /\ nqueue[k].n \in Notifications \ {n}
                                 /\ outcome[nqueue[k].n] = "queued" /\ nqueue[k].n # ctl.n
                                 /\ sent[nqueue[k].n] = nqueue[k].attempts
    BY <1>1, <1>3, EntryFacts DEF Inv, QueueOK
  <2>2. NewEntry(n).n = n /\ NewEntry(n).attempts = 0
    BY <1>3, EntryFacts
  <2>3. \A j, k \in DOMAIN nqueue' : j # k => nqueue'[j].n # nqueue'[k].n
    BY <1>4, <2>1, <2>2 DEF Inv, QueueOK
  <2>4. \A k \in DOMAIN nqueue' : /\ outcome'[nqueue'[k].n] = "queued" /\ nqueue'[k].n # ctl.n
                                  /\ sent[nqueue'[k].n] = nqueue'[k].attempts
    BY <1>4, <1>5, <1>6, <2>1, <2>2
  <2> QED
    BY <1>1, <2>3, <2>4 DEF QueueOK
<1>9. CtlOK'
  BY <1>1, <1>3, <1>5, <1>6, CtlFacts DEF Inv, CtlOK
<1> QED
  BY <1>6, <1>7, <1>8, <1>9 DEF Inv

\* The control thread has read the tail of the list.
LEMMA ControlAddStep ==
    ASSUME Inv, NEW n \in Notifications, ControlAdd(n)
    PROVE  Inv'
<1>1. /\ outcome[n] = "new" /\ ctl = NoAdd /\ ctl' = [n |-> n, tail |-> LastQueued]
      /\ outcome' = [outcome EXCEPT ![n] = "queued"]
      /\ UNCHANGED <<nqueue, phase, drilling, hole, wire, acks, sent, answered>>
  BY DEF ControlAdd
<1>2. PICK i \in Ids : id' = [id EXCEPT ![n] = i]
  BY DEF ControlAdd
<1>3. TypeOK /\ ctl'.n = n
  BY <1>1 DEF Inv
<1>4. ctl' \in [n : Notifications \cup {Nobody}, tail : Notifications \cup {Nobody}]
  <2>1. nqueue \in Seq(Entry)
    BY <1>3 DEF TypeOK
  <2>2. nqueue # <<>> => Len(nqueue) \in DOMAIN nqueue
    BY <2>1
  <2>3. LastQueued \in Notifications \cup {Nobody}
    BY <1>3, <2>2, EntryFacts DEF LastQueued, Last
  <2> QED
    BY <1>1, <2>3
<1>5. /\ AddedOK' /\ WireOK' /\ DroppedForAReason' /\ AnsweredOK'
      /\ id' \in [Notifications -> Ids \cup {Nobody}]
      /\ outcome' \in [Notifications -> {"new", "queued", "acked", "failed", "lost"}]
      /\ outcome'[n] = "queued" /\ sent[n] = 0
      /\ \A m \in Notifications \ {n} : outcome'[m] = outcome[m] /\ id'[m] = id[m]
  <2>1. \A m \in answered : InQueue(m)' => InQueue(m)
    BY <1>1 DEF InQueue
  <2> QED
    BY <1>1, <1>2, <1>3, <2>1, BecomesQueued
<1>6. TypeOK'
  BY <1>1, <1>3, <1>4, <1>5 DEF TypeOK
<1>7. QueueOK'
  <2>1. \A k \in DOMAIN nqueue : /\ nqueue[k].n \in Notifications \ {n}
                                 /\ outcome[nqueue[k].n] = "queued"
                                 /\ sent[nqueue[k].n] = nqueue[k].attempts
    BY <1>1, <1>3, EntryFacts DEF Inv, QueueOK
  <2> QED
    BY <1>1, <1>3, <1>5, <2>1 DEF Inv, QueueOK
<1>8. CtlOK'
  BY <1>1, <1>3, <1>5 DEF CtlOK
<1> QED
  BY <1>5, <1>6, <1>7, <1>8 DEF Inv

\* Some queued notifications fall out of the list without being acknowledged or
\* sent: nothing else of the history changes.
LEMMA HistoryKept ==
    ASSUME Inv, UNCHANGED <<id, sent, wire, acks, answered>>,
           ctl' = NoAdd,
           outcome' \in [Notifications -> {"new", "queued", "acked", "failed", "lost"}],
           \A n \in Notifications : outcome'[n] = outcome[n]
                                    \/ (outcome[n] = "queued" /\ outcome'[n] = "lost"),
           \A n \in answered : InQueue(n)' => InQueue(n)
    PROVE  CtlOK' /\ AddedOK' /\ WireOK' /\ DroppedForAReason' /\ AnsweredOK'
<1>1. TypeOK /\ ctl'.n = Nobody /\ Nobody \notin Notifications
  BY CtlFacts DEF Inv
<1>2. (\A pk \in wire : pk.n \in Notifications) /\ answered \subseteq Notifications
  BY <1>1 DEF TypeOK, Packet
<1>3. CtlOK' /\ AddedOK'
  BY <1>1 DEF Inv, CtlOK, AddedOK
<1>4. WireOK'
  BY <1>1, <1>2 DEF Inv, WireOK
<1>5. DroppedForAReason'
  BY DEF Inv, DroppedForAReason
<1>6. AnsweredOK'
  <2> SUFFICES ASSUME NEW x \in answered, InQueue(x)' PROVE Credited(x)'
    BY DEF AnsweredOK
  <2>1. PICK m \in Notifications \ {x} : /\ Target[m] = Target[x] /\ id[m] = id[x]
                                         /\ outcome[m] = "acked"
    BY DEF Inv, AnsweredOK, Credited
  <2> QED
    BY <2>1 DEF Credited
<1> QED
  BY <1>3, <1>4, <1>5, <1>6

\* The control thread links its node: the list gets it, or it is lost, or it
\* takes the place of what the communicator thread appended.
LEMMA ControlLinkStep ==
    ASSUME Inv, ControlLink
    PROVE  Inv'
<1> DEFINE n == ctl.n
<1>1. /\ ctl # NoAdd /\ ctl' = NoAdd
      /\ UNCHANGED <<phase, drilling, hole, wire, acks, id, sent, answered>>
  BY DEF ControlLink
<1>2. /\ TypeOK /\ nqueue \in Seq(Entry) /\ ctl'.n = Nobody /\ Nobody \notin Notifications
      /\ ctl' \in [n : Notifications \cup {Nobody}, tail : Notifications \cup {Nobody}]
      /\ outcome \in [Notifications -> {"new", "queued", "acked", "failed", "lost"}]
  BY <1>1, CtlFacts DEF Inv, TypeOK
<1>3. /\ \A j, k \in DOMAIN nqueue : j # k => nqueue[j].n # nqueue[k].n
      /\ \A k \in DOMAIN nqueue : /\ nqueue[k].n \in Notifications
                                  /\ outcome[nqueue[k].n] = "queued" /\ nqueue[k].n # n
                                  /\ sent[nqueue[k].n] = nqueue[k].attempts
  BY <1>2, EntryFacts DEF Inv, QueueOK
<1>4. n \in Notifications /\ outcome[n] = "queued" /\ sent[n] = 0
  BY <1>1 DEF Inv, CtlOK
<1>5. n \notin answered
  BY DEF Inv, WireOK
<1>6. ASSUME nqueue' \in Seq(Entry), QueueOK',
             outcome' \in [Notifications -> {"new", "queued", "acked", "failed", "lost"}],
             \A m \in Notifications : outcome'[m] = outcome[m]
                                      \/ (outcome[m] = "queued" /\ outcome'[m] = "lost"),
             \A m \in answered : InQueue(m)' => InQueue(m)
      PROVE  Inv'
  <2>1. TypeOK'
    BY <1>1, <1>2, <1>6 DEF TypeOK
  <2>2. CtlOK' /\ AddedOK' /\ WireOK' /\ DroppedForAReason' /\ AnsweredOK'
    BY <1>1, <1>6, HistoryKept
  <2> QED
    BY <1>6, <2>1, <2>2 DEF Inv
<1>7. NewEntry(n) \in Entry /\ NewEntry(n).n = n /\ NewEntry(n).attempts = 0
  BY <1>2, <1>4, EntryFacts
<1> HIDE DEF n
<1>8. CASE nqueue' = Append(nqueue, NewEntry(n)) /\ UNCHANGED outcome
  <2>1. /\ nqueue' \in Seq(Entry)
        /\ DOMAIN nqueue' = DOMAIN nqueue \cup {Len(nqueue) + 1}
        /\ \A k \in DOMAIN nqueue : nqueue'[k] = nqueue[k]
        /\ nqueue'[Len(nqueue) + 1] = NewEntry(n)
        /\ \A m : InQueue(m)' <=> InQueue(m) \/ m = n
    BY <1>2, <1>4, <1>8, Appended
  <2>2. \A j, k \in DOMAIN nqueue' : j # k => nqueue'[j].n # nqueue'[k].n
    BY <1>3, <1>7, <2>1
  <2>3. \A k \in DOMAIN nqueue' : /\ nqueue'[k].n \in Notifications
                                  /\ outcome[nqueue'[k].n] = "queued"
                                  /\ sent[nqueue'[k].n] = nqueue'[k].attempts
    BY <1>3, <1>4, <1>7, <2>1
  <2>4. QueueOK'
    BY <1>1, <1>2, <1>8, <2>2, <2>3 DEF QueueOK
  <2>5. \A m \in answered : InQueue(m)' => InQueue(m)
    BY <1>5, <2>1
  <2> QED
    BY <1>2, <1>6, <1>8, <2>1, <2>4, <2>5
<1>9. CASE outcome' = [outcome EXCEPT ![n] = "lost"] /\ UNCHANGED nqueue
  <2>1. QueueOK'
    <3>1. \A k \in DOMAIN nqueue : outcome'[nqueue[k].n] = "queued"
      BY <1>2, <1>3, <1>9
    <3> QED
      BY <1>1, <1>2, <1>3, <1>9, <3>1 DEF QueueOK
  <2>2. \A m \in answered : InQueue(m)' => InQueue(m)
    BY <1>9 DEF InQueue
  <2>3. /\ outcome' \in [Notifications -> {"new", "queued", "acked", "failed", "lost"}]
        /\ \A m \in Notifications : outcome'[m] = outcome[m]
                                    \/ (outcome[m] = "queued" /\ outcome'[m] = "lost")
    BY <1>2, <1>4, <1>9
  <2> QED
    BY <1>2, <1>6, <1>9, <2>1, <2>2, <2>3
<1>10. CASE /\ nqueue' = Append(SubSeq(nqueue, 1, SeenTail), NewEntry(n))
            /\ LET unlinked == {nqueue[k].n : k \in (SeenTail + 1)..Len(nqueue)}
               IN  outcome' = [m \in Notifications |->
                                  IF m \in unlinked THEN "lost" ELSE outcome[m]]
  <2> DEFINE T == SeenTail
             pre == SubSeq(nqueue, 1, T)
             unlinked == {nqueue[k].n : k \in (T + 1)..Len(nqueue)}
  <2>1. T \in 0..Len(nqueue) /\ Len(nqueue) \in Nat /\ DOMAIN nqueue = 1..Len(nqueue)
    BY <1>2, SeenTailFacts
  <2> HIDE DEF T
  <2>2. pre \in Seq(Entry) /\ Len(pre) = T /\ \A k \in 1..T : pre[k] = nqueue[k]
    BY <1>2, <2>1
  <2>3. nqueue' = Append(pre, NewEntry(n))
    BY <1>10 DEF T
  <2> HIDE DEF pre
  <2>4. /\ nqueue' \in Seq(Entry) /\ DOMAIN nqueue' = (1..T) \cup {T + 1}
        /\ \A k \in 1..T : nqueue'[k] = nqueue[k]
        /\ nqueue'[T + 1] = NewEntry(n)
    BY <1>7, <2>1, <2>2, <2>3
  <2>5. outcome' = [m \in Notifications |-> IF m \in unlinked THEN "lost" ELSE outcome[m]]
    BY <1>10 DEF T
  <2>6. \A k \in 1..T : k \in DOMAIN nqueue /\ nqueue[k].n \notin unlinked
    <3> SUFFICES ASSUME NEW k \in 1..T, NEW j \in (T + 1)..Len(nqueue)
                 PROVE  k \in DOMAIN nqueue /\ nqueue[k].n # nqueue[j].n
      BY <2>1
    <3>1. k \in DOMAIN nqueue /\ j \in DOMAIN nqueue /\ k # j
      BY <2>1
    <3> QED
      BY <1>3, <3>1
  <2>7. \A m \in unlinked : m # n /\ outcome[m] = "queued"
    <3>1. \A j \in (T + 1)..Len(nqueue) : j \in DOMAIN nqueue
      BY <2>1
    <3> QED
      BY <1>3, <3>1
  <2> HIDE DEF unlinked
  <2>8. QueueOK'
    <3>1. \A j, k \in DOMAIN nqueue' : j # k => nqueue'[j].n # nqueue'[k].n
      BY <1>3, <1>7, <2>4, <2>6
    <3>2. \A k \in 1..T : /\ nqueue[k].n \in Notifications
                          /\ outcome'[nqueue[k].n] = "queued"
                          /\ sent[nqueue[k].n] = nqueue[k].attempts
      BY <1>3, <2>5, <2>6
    <3>3. outcome'[n] = "queued" /\ sent[n] = 0
      BY <1>4, <2>5, <2>7
    <3>4. \A k \in DOMAIN nqueue' : /\ nqueue'[k].n \in Notifications
                                    /\ outcome'[nqueue'[k].n] = "queued"
                                    /\ sent[nqueue'[k].n] = nqueue'[k].attempts
      BY <1>4, <1>7, <2>4, <3>2, <3>3
    <3> QED
      BY <1>1, <1>2, <3>1, <3>4 DEF QueueOK
  <2>9. \A m \in answered : InQueue(m)' => InQueue(m)
    BY <1>5, <1>7, <2>4, <2>6 DEF InQueue
  <2>10. /\ outcome' \in [Notifications -> {"new", "queued", "acked", "failed", "lost"}]
         /\ \A m \in Notifications : outcome'[m] = outcome[m]
                                     \/ (outcome[m] = "queued" /\ outcome'[m] = "lost")
    BY <1>2, <2>5, <2>7
  <2> QED
    BY <1>6, <2>4, <2>8, <2>9, <2>10
<1> QED
  BY <1>8, <1>9, <1>10 DEF ControlLink, n

-----------------------------------------------------------------------------
(* doNotifications.                                                          *)

\* What erase does to the list: the entry at k is gone, the others remain.
LEMMA Erased ==
    ASSUME Inv, NEW k \in DOMAIN nqueue, nqueue' = RemoveAt(nqueue, k)
    PROVE  /\ nqueue' \in Seq(Entry)
           /\ \A i, j \in DOMAIN nqueue' : i # j => nqueue'[i].n # nqueue'[j].n
           /\ \A i \in DOMAIN nqueue' : \E j \in DOMAIN nqueue \ {k} : nqueue'[i] = nqueue[j]
           /\ \A m : InQueue(m)' => InQueue(m) /\ m # nqueue[k].n
<1> DEFINE at(i) == IF i < k THEN i ELSE i + 1
<1>1. TypeOK /\ nqueue \in Seq(Entry) /\ k \in 1..Len(nqueue) /\ Len(nqueue) \in Nat
      /\ DOMAIN nqueue = 1..Len(nqueue)
  BY DEF Inv, TypeOK
<1>2. /\ nqueue' \in Seq(Entry) /\ Len(nqueue') = Len(nqueue) - 1
      /\ \A i \in 1..(Len(nqueue) - 1) : nqueue'[i] = IF i < k THEN nqueue[i] ELSE nqueue[i + 1]
  BY <1>1, RemoveAtPositions
<1>3. DOMAIN nqueue' = 1..(Len(nqueue) - 1)
  BY <1>2
<1>4. \A i \in 1..(Len(nqueue) - 1) : at(i) \in 1..Len(nqueue) /\ at(i) # k
  BY <1>1
<1>5. \A i, j \in 1..(Len(nqueue) - 1) : i # j => at(i) # at(j)
  BY <1>1
<1>6. \A i \in 1..(Len(nqueue) - 1) : nqueue'[i] = nqueue[at(i)]
  BY <1>2
<1> HIDE DEF at
<1>7. \A i, j \in DOMAIN nqueue : i # j => nqueue[i].n # nqueue[j].n
  BY DEF Inv, QueueOK
<1>8. \A i \in DOMAIN nqueue' : at(i) \in DOMAIN nqueue \ {k} /\ nqueue'[i] = nqueue[at(i)]
  BY <1>1, <1>3, <1>4, <1>6
<1>9. \A i, j \in DOMAIN nqueue' : i # j => nqueue'[i].n # nqueue'[j].n
  BY <1>3, <1>5, <1>7, <1>8
<1>10. ASSUME NEW m, InQueue(m)' PROVE InQueue(m) /\ m # nqueue[k].n
  BY <1>7, <1>8, <1>10 DEF InQueue
<1> QED
  BY <1>2, <1>8, <1>9, <1>10

\* An answer is read: the entry it is credited to leaves the list, and if the
\* notification it was for stays, that entry had its target and ID.
LEMMA DrainStep ==
    ASSUME Inv, NEW p \in acks, Drain(p)
    PROVE  Inv'
<1>1. /\ answered' = answered \cup {p.n}
      /\ UNCHANGED <<phase, drilling, ctl, hole, wire, acks, id, sent>>
  BY DEF Drain
<1>2. TypeOK /\ nqueue \in Seq(Entry)
  BY DEF Inv, TypeOK
<1>3. /\ p \in wire /\ p.n \in Notifications /\ p.to = Target[p.n] /\ p.id = id[p.n]
      /\ outcome[p.n] # "new" /\ p.n # ctl.n
  BY <1>2 DEF Inv, WireOK, TypeOK, Packet
<1>4. CASE removeIf(p) = 0
  <2>1. UNCHANGED <<nqueue, outcome>>
    BY <1>4 DEF Drain
  <2>2. ~InQueue(p.n)
    BY <1>2, <1>3, <1>4, removeIfFacts DEF InQueue, Matches
  <2>3. TypeOK'
    BY <1>1, <1>2, <1>3, <2>1 DEF TypeOK
  <2>4. QueueOK' /\ CtlOK' /\ AddedOK'
    BY <1>1, <2>1 DEF Inv, QueueOK, CtlOK, AddedOK
  <2>5. WireOK'
    BY <1>1, <1>3, <2>1 DEF Inv, WireOK
  <2>6. DroppedForAReason'
    BY <1>1, <2>1 DEF Inv, DroppedForAReason
  <2>7. AnsweredOK'
    BY <1>1, <2>1, <2>2 DEF Inv, AnsweredOK, InQueue, Credited
  <2> QED
    BY <2>3, <2>4, <2>5, <2>6, <2>7 DEF Inv
<1>5. CASE removeIf(p) # 0
  <2> DEFINE k == removeIf(p)
             e == nqueue[k]
  <2>1. k \in DOMAIN nqueue /\ Matches(e, p)
    BY <1>2, <1>5, removeIfFacts
  <2>2. nqueue' = RemoveAt(nqueue, k) /\ outcome' = [outcome EXCEPT ![e.n] = "acked"]
    BY <1>5 DEF Drain
  <2> HIDE DEF k
  <2>3. /\ nqueue' \in Seq(Entry)
        /\ \A i, j \in DOMAIN nqueue' : i # j => nqueue'[i].n # nqueue'[j].n
        /\ \A i \in DOMAIN nqueue' : \E j \in DOMAIN nqueue \ {k} : nqueue'[i] = nqueue[j]
        /\ \A m : InQueue(m)' => InQueue(m) /\ m # e.n
    BY <2>1, <2>2, Erased
  <2>4. /\ e.n \in Notifications /\ outcome[e.n] = "queued" /\ e.n # ctl.n
        /\ Target[e.n] = Target[p.n] /\ id[e.n] = id[p.n]
        /\ \A j \in DOMAIN nqueue \ {k} : nqueue[j].n \in Notifications /\ nqueue[j].n # e.n
    BY <1>2, <1>3, <2>1, EntryFacts DEF Inv, QueueOK, Matches
  <2> HIDE DEF e
  <2>5. /\ outcome' \in [Notifications -> {"new", "queued", "acked", "failed", "lost"}]
        /\ outcome'[e.n] = "acked"
        /\ \A m \in Notifications \ {e.n} : outcome'[m] = outcome[m]
    BY <1>2, <2>2, <2>4 DEF TypeOK
  <2>6. TypeOK'
    BY <1>1, <1>2, <1>3, <2>3, <2>5 DEF TypeOK
  <2>7. QueueOK'
    <3>1. \A i \in DOMAIN nqueue' : /\ outcome'[nqueue'[i].n] = "queued"
                                    /\ nqueue'[i].n # ctl.n
                                    /\ sent[nqueue'[i].n] = nqueue'[i].attempts
      BY <2>3, <2>4, <2>5 DEF Inv, QueueOK
    <3> QED
      BY <1>1, <2>3, <3>1 DEF QueueOK
  <2>8. CtlOK'
    BY <1>1, <2>4, <2>5 DEF Inv, CtlOK
  <2>9. AddedOK'
    BY <1>1, <2>4, <2>5 DEF Inv, AddedOK
  <2>10. WireOK'
    <3>1. \A m \in Notifications : outcome[m] # "new" => outcome'[m] # "new"
      BY <2>5
    <3>2. (\A pk \in wire : pk.n \in Notifications) /\ answered \subseteq Notifications
      BY <1>2 DEF TypeOK, Packet
    <3> QED
      BY <1>1, <1>3, <3>1, <3>2 DEF Inv, WireOK
  <2>11. DroppedForAReason'
    <3> SUFFICES ASSUME NEW m \in Notifications
                 PROVE  /\ outcome'[m] = "failed" => sent[m] = MaxAttempts
                        /\ outcome'[m] = "acked" =>
                               \E x \in answered' : Target[x] = Target[m] /\ id[x] = id[m]
      BY <1>1 DEF DroppedForAReason
    <3>1. CASE m = e.n
      BY <1>1, <2>4, <2>5, <3>1
    <3>2. CASE m # e.n
      BY <1>1, <2>5, <3>2 DEF Inv, DroppedForAReason
    <3> QED
      BY <3>1, <3>2
  <2>12. AnsweredOK'
    <3> SUFFICES ASSUME NEW x \in answered', InQueue(x)' PROVE Credited(x)'
      BY DEF AnsweredOK
    <3>1. InQueue(x) /\ x # e.n /\ x \in Notifications
      BY <1>1, <1>2, <1>3, <2>3 DEF TypeOK
    <3>2. CASE x = p.n
      BY <1>1, <2>4, <2>5, <3>1, <3>2 DEF Credited
    <3>3. CASE x \in answered
      <4>1. PICK m \in Notifications \ {x} : /\ Target[m] = Target[x] /\ id[m] = id[x]
                                             /\ outcome[m] = "acked"
        BY <3>1, <3>3 DEF Inv, AnsweredOK, Credited
      <4>2. outcome'[m] = "acked"
        BY <2>5, <4>1
      <4> QED
        BY <1>1, <4>1, <4>2 DEF Credited
    <3> QED
      BY <1>1, <3>2, <3>3
  <2> QED
    BY <2>6, <2>7, <2>8, <2>9, <2>10, <2>11, <2>12 DEF Inv
<1> QED
  BY <1>4, <1>5

\* The entry at k counted an attempt: the list holds the same notifications.
LEMMA Counted ==
    ASSUME Inv, NEW k \in DOMAIN nqueue, NEW e, e = nqueue[k],
           e.attempts + 1 <= MaxAttempts,
           nqueue' = [nqueue EXCEPT ![k] = [n |-> e.n, attempts |-> e.attempts + 1,
                                            wait |-> Backoff(e.attempts + 1)]]
    PROVE  /\ nqueue' \in Seq(Entry) /\ DOMAIN nqueue' = DOMAIN nqueue
           /\ \A i \in DOMAIN nqueue : nqueue'[i].n = nqueue[i].n
           /\ \A i \in DOMAIN nqueue \ {k} : nqueue'[i] = nqueue[i]
           /\ nqueue'[k].attempts = e.attempts + 1
<1> DEFINE f == [n |-> e.n, attempts |-> e.attempts + 1, wait |-> Backoff(e.attempts + 1)]
<1>1. TypeOK /\ nqueue \in Seq(Entry)
  BY DEF Inv, TypeOK
<1>2. e.n \in Notifications /\ e.attempts \in 0..MaxAttempts /\ MaxAttempts = 4
  BY <1>1, EntryFacts, BackoffFacts
<1>3. e.attempts + 1 \in 0..MaxAttempts /\ e.attempts + 1 \in 1..MaxAttempts
  BY <1>2
<1>4. Backoff(e.attempts + 1) \in 0..Backoff(MaxAttempts)
  BY <1>3, BackoffFacts
<1>5. f \in Entry
  BY <1>2, <1>3, <1>4 DEF Entry
<1>6. f.n = e.n /\ f.attempts = e.attempts + 1
  OBVIOUS
<1>7. nqueue' = [nqueue EXCEPT ![k] = f]
  OBVIOUS
<1> HIDE DEF f
<1>8. /\ nqueue' \in Seq(Entry) /\ DOMAIN nqueue' = DOMAIN nqueue /\ nqueue'[k] = f
      /\ \A i \in DOMAIN nqueue \ {k} : nqueue'[i] = nqueue[i]
  BY <1>1, <1>5, <1>7
<1> QED
  BY <1>6, <1>8

\* One round of the sending loop: the entry is given up, or counted and sent.
LEMMA SendStep ==
    ASSUME Inv, Send
    PROVE  Inv'
<1> DEFINE k == Due
           e == nqueue[k]
<1>1. /\ TypeOK /\ nqueue \in Seq(Entry) /\ phase = "send" /\ nqueue' = getOne(k)
      /\ UNCHANGED <<ctl, hole, acks, id, answered>>
  BY DEF Inv, TypeOK, Send
<1>2. k \in DOMAIN nqueue
  BY <1>1, DueFacts DEF Send
<1>3. \/ /\ Purged(e) /\ outcome' = [outcome EXCEPT ![e.n] = "failed"]
         /\ UNCHANGED <<phase, drilling, wire, sent>>
      \/ /\ ~Purged(e) /\ sent' = [sent EXCEPT ![e.n] = @ + 1]
         /\ \/ UNCHANGED <<phase, drilling, wire>>
            \/ /\ wire' = wire \cup {[to |-> Target[e.n], id |-> id[e.n], n |-> e.n]}
               /\ drilling' = Target[e.n]
               /\ phase' = "drill"
         /\ UNCHANGED outcome
  BY DEF Send
<1> HIDE DEF k
<1>4. /\ e.n \in Notifications /\ e.attempts \in 0..MaxAttempts /\ outcome[e.n] = "queued"
      /\ e.n # ctl.n /\ sent[e.n] = e.attempts /\ MaxAttempts = 4
      /\ \A j \in DOMAIN nqueue \ {k} : nqueue[j].n \in Notifications /\ nqueue[j].n # e.n
  BY <1>1, <1>2, EntryFacts, BackoffFacts DEF Inv, QueueOK
<1>5. id[e.n] \in Ids /\ Target[e.n] \in Targets
  BY <1>4, NotificationAssumption DEF Inv, AddedOK
<1>6. CASE Purged(e)
  <2>1. /\ nqueue' = RemoveAt(nqueue, k) /\ outcome' = [outcome EXCEPT ![e.n] = "failed"]
        /\ UNCHANGED <<phase, drilling, wire, sent>>
    BY <1>1, <1>3, <1>6 DEF getOne
  <2>2. sent[e.n] = MaxAttempts
    BY <1>4, <1>6 DEF Purged
  <2>3. /\ nqueue' \in Seq(Entry)
        /\ \A i, j \in DOMAIN nqueue' : i # j => nqueue'[i].n # nqueue'[j].n
        /\ \A i \in DOMAIN nqueue' : \E j \in DOMAIN nqueue \ {k} : nqueue'[i] = nqueue[j]
        /\ \A m : InQueue(m)' => InQueue(m) /\ m # e.n
    BY <1>2, <2>1, Erased
  <2> HIDE DEF e
  <2>4. /\ outcome' \in [Notifications -> {"new", "queued", "acked", "failed", "lost"}]
        /\ outcome'[e.n] = "failed"
        /\ \A m \in Notifications \ {e.n} : outcome'[m] = outcome[m]
    BY <1>1, <1>4, <2>1 DEF TypeOK
  <2>5. TypeOK'
    BY <1>1, <2>1, <2>3, <2>4 DEF TypeOK
  <2>6. QueueOK'
    <3>1. \A i \in DOMAIN nqueue' : /\ outcome'[nqueue'[i].n] = "queued"
                                    /\ nqueue'[i].n # ctl.n
                                    /\ sent[nqueue'[i].n] = nqueue'[i].attempts
      BY <1>4, <2>3, <2>4 DEF Inv, QueueOK
    <3> QED
      BY <1>1, <2>1, <2>3, <3>1 DEF QueueOK
  <2>7. CtlOK' /\ AddedOK'
    BY <1>1, <1>4, <2>1, <2>4 DEF Inv, CtlOK, AddedOK
  <2>8. WireOK'
    <3>1. \A m \in Notifications : outcome[m] # "new" => outcome'[m] # "new"
      BY <2>4
    <3>2. (\A pk \in wire : pk.n \in Notifications) /\ answered \subseteq Notifications
      BY <1>1 DEF TypeOK, Packet
    <3> QED
      BY <1>1, <2>1, <3>1, <3>2 DEF Inv, WireOK
  <2>9. DroppedForAReason'
    BY <1>1, <2>1, <2>2, <2>4 DEF Inv, DroppedForAReason
  <2>10. AnsweredOK'
    <3> SUFFICES ASSUME NEW x \in answered, InQueue(x)' PROVE Credited(x)'
      BY <1>1 DEF AnsweredOK
    <3>1. PICK m \in Notifications \ {x} : /\ Target[m] = Target[x] /\ id[m] = id[x]
                                           /\ outcome[m] = "acked"
      BY <2>3 DEF Inv, AnsweredOK, Credited
    <3>2. outcome'[m] = "acked"
      BY <1>4, <2>4, <3>1
    <3> QED
      BY <1>1, <3>1, <3>2 DEF Credited
  <2> QED
    BY <2>5, <2>6, <2>7, <2>8, <2>9, <2>10 DEF Inv
<1>7. CASE ~Purged(e)
  <2>1. e.attempts + 1 <= MaxAttempts
    BY <1>4, <1>7 DEF Purged
  <2>2. nqueue' = [nqueue EXCEPT ![k] = [n |-> e.n, attempts |-> e.attempts + 1,
                                         wait |-> Backoff(e.attempts + 1)]]
    BY <1>1, <1>7 DEF getOne
  <2>3. /\ nqueue' \in Seq(Entry) /\ DOMAIN nqueue' = DOMAIN nqueue
        /\ \A i \in DOMAIN nqueue : nqueue'[i].n = nqueue[i].n
        /\ \A i \in DOMAIN nqueue \ {k} : nqueue'[i] = nqueue[i]
        /\ nqueue'[k].attempts = e.attempts + 1
    BY <1>2, <2>1, <2>2, Counted
  <2>4. sent' = [sent EXCEPT ![e.n] = @ + 1] /\ UNCHANGED outcome
    BY <1>3, <1>7
  <2>5. nqueue[k].n = e.n
    OBVIOUS
  <2> HIDE DEF e
  <2>6. /\ sent' \in [Notifications -> 0..MaxAttempts] /\ sent'[e.n] = sent[e.n] + 1
        /\ \A m \in Notifications \ {e.n} : sent'[m] = sent[m]
    BY <1>1, <1>4, <2>1, <2>4 DEF TypeOK
  <2>7. \/ UNCHANGED <<phase, drilling, wire>>
        \/ /\ wire' = wire \cup {[to |-> Target[e.n], id |-> id[e.n], n |-> e.n]}
           /\ drilling' = Target[e.n]
           /\ phase' = "drill"
    BY <1>3, <1>7
  <2>8. [to |-> Target[e.n], id |-> id[e.n], n |-> e.n] \in Packet
    BY <1>4, <1>5 DEF Packet
  <2>9. /\ wire' \subseteq Packet /\ drilling' \in Targets \cup {Nobody}
        /\ phase' \in {"idle", "drain", "send", "drill"}
    BY <1>1, <1>5, <2>7, <2>8 DEF TypeOK
  <2>10. TypeOK'
    BY <1>1, <2>3, <2>4, <2>6, <2>9 DEF TypeOK
  <2>11. QueueOK'
    <3>1. \A i, j \in DOMAIN nqueue' : i # j => nqueue'[i].n # nqueue'[j].n
      BY <2>3 DEF Inv, QueueOK
    <3>2. \A i \in DOMAIN nqueue' : outcome'[nqueue'[i].n] = "queued" /\ nqueue'[i].n # ctl.n
      BY <2>3, <2>4 DEF Inv, QueueOK
    <3>3. \A i \in DOMAIN nqueue \ {k} : sent'[nqueue'[i].n] = nqueue'[i].attempts
      BY <1>4, <2>3, <2>6 DEF Inv, QueueOK
    <3>4. sent'[nqueue'[k].n] = nqueue'[k].attempts
      BY <1>2, <1>4, <2>3, <2>5, <2>6
    <3> QED
      BY <1>1, <2>3, <3>1, <3>2, <3>3, <3>4 DEF QueueOK
  <2>12. CtlOK' /\ AddedOK'
    BY <1>1, <1>4, <2>4, <2>6 DEF Inv, CtlOK, AddedOK
  <2>13. WireOK'
    <3>1. acks' \subseteq wire'
      BY <1>1, <2>7 DEF Inv, WireOK
    <3>2. \A pk \in wire' : /\ pk.to = Target[pk.n] /\ pk.id = id[pk.n]
                            /\ outcome[pk.n] # "new" /\ pk.n # ctl.n
      BY <1>4, <2>7 DEF Inv, WireOK
    <3> QED
      BY <1>1, <2>4, <3>1, <3>2 DEF Inv, WireOK
  <2>14. DroppedForAReason'
    BY <1>1, <1>4, <2>4, <2>6 DEF Inv, DroppedForAReason
  <2>15. AnsweredOK'
    BY <1>1, <2>3, <2>4 DEF Inv, AnsweredOK, InQueue, Credited
  <2> QED
    BY <2>10, <2>11, <2>12, <2>13, <2>14, <2>15 DEF Inv
<1> QED
  BY <1>6, <1>7

-----------------------------------------------------------------------------
(* The results.                                                              *)

\* A second passes: only the pauses and the holes get shorter.
LEMMA TickStep ==
    ASSUME Inv, Tick
    PROVE  Inv'
<1>1. /\ TypeOK /\ nqueue \in Seq(Entry)
      /\ nqueue' = [i \in DOMAIN nqueue |-> [nqueue[i] EXCEPT !.wait = Less(@)]]
      /\ hole' = [t \in Targets |-> Less(hole[t])]
      /\ UNCHANGED <<phase, drilling, ctl, wire, acks, id, sent, outcome, answered>>
  BY DEF Inv, TypeOK, Tick
<1>2. \A b \in Nat : \A w \in 0..b : Less(w) \in 0..b
  BY DEF Less
<1>3. ASSUME NEW i \in DOMAIN nqueue
      PROVE  /\ nqueue'[i] \in Entry /\ nqueue'[i].n = nqueue[i].n
             /\ nqueue'[i].attempts = nqueue[i].attempts
  <2> DEFINE e == nqueue[i]
  <2>1. nqueue'[i] = [e EXCEPT !.wait = Less(e.wait)]
    BY <1>1
  <2>2. e \in Entry /\ e.wait \in 0..Backoff(MaxAttempts)
    BY <1>1, EntryFacts
  <2>3. Less(e.wait) \in 0..Backoff(MaxAttempts)
    BY <1>2, <2>2, BackoffFacts
  <2> HIDE DEF e
  <2>4. /\ nqueue'[i] \in Entry /\ nqueue'[i].n = e.n /\ nqueue'[i].attempts = e.attempts
    BY <2>1, <2>2, <2>3 DEF Entry
  <2> QED
    BY <2>4 DEF e
<1>4. DOMAIN nqueue' = DOMAIN nqueue /\ nqueue' \in Seq(Entry)
  <2>1. Len(nqueue) \in Nat /\ DOMAIN nqueue = 1..Len(nqueue)
    BY <1>1
  <2>2. nqueue' \in [1..Len(nqueue) -> Entry]
    BY <1>1, <1>3, <2>1
  <2> QED
    BY <2>1, <2>2, SeqDef
<1>5. hole' \in [Targets -> 0..HoleTime]
  BY <1>1, <1>2, HoleAssumption DEF TypeOK
<1>6. TypeOK'
  BY <1>1, <1>4, <1>5 DEF TypeOK
<1>7. QueueOK'
  <2>1. UNCHANGED <<ctl, sent, outcome>>
    BY <1>1
  <2>2. \A i, j \in DOMAIN nqueue' : i # j => nqueue'[i].n # nqueue'[j].n
    BY <1>3, <1>4 DEF Inv, QueueOK
  <2>3. \A i \in DOMAIN nqueue' : /\ outcome[nqueue'[i].n] = "queued" /\ nqueue'[i].n # ctl.n
                                  /\ sent[nqueue'[i].n] = nqueue'[i].attempts
    BY <1>3, <1>4 DEF Inv, QueueOK
  <2> QED
    BY <2>1, <2>2, <2>3 DEF QueueOK
<1>8. CtlOK' /\ AddedOK' /\ WireOK' /\ DroppedForAReason'
  BY <1>1 DEF Inv, CtlOK, AddedOK, WireOK, DroppedForAReason
<1>9. AnsweredOK'
  BY <1>1, <1>3, <1>4 DEF Inv, AnsweredOK, InQueue, Credited
<1> QED
  BY <1>6, <1>7, <1>8, <1>9 DEF Inv

\* Nothing is in the list at the start.
LEMMA InitInv == Init => Inv
<1> SUFFICES ASSUME Init PROVE Inv
  OBVIOUS
<1>1. TypeOK
  <2>1. <<>> \in Seq(Entry)
    OBVIOUS
  <2>2. 0 \in 0..HoleTime /\ 0 \in 0..MaxAttempts
    BY HoleAssumption, BackoffFacts
  <2> QED
    BY <2>1, <2>2 DEF Init, TypeOK, NoAdd
<1>2. QueueOK /\ CtlOK /\ AddedOK
  BY DEF Init, QueueOK, CtlOK, AddedOK
<1>3. WireOK /\ DroppedForAReason /\ AnsweredOK
  BY DEF Init, WireOK, DroppedForAReason, AnsweredOK
<1> QED
  BY <1>1, <1>2, <1>3 DEF Inv

\* The invariant holds in every state, whatever the two threads, the slaves and
\* the network do.
THEOREM Invariant == Spec => []Inv
<1>1. Init => Inv
  BY InitInv
<1>2. Inv /\ [Next]_vars => Inv'
  <2> SUFFICES ASSUME Inv, [Next]_vars PROVE Inv'
    OBVIOUS
  <2>1. ASSUME NEW n \in Notifications, Add(n) PROVE Inv'
    BY <2>1, AddStep
  <2>2. ASSUME NEW n \in Notifications, ControlAdd(n) PROVE Inv'
    BY <2>2, ControlAddStep
  <2>3. CASE ControlLink
    BY <2>3, ControlLinkStep
  <2>4. CASE Start \/ EndDrain \/ EndSend \/ Drill \/ (\E pk \in wire : SlaveAnswers(pk))
    BY <2>4, PhaseStep
  <2>5. CASE Send
    BY <2>5, SendStep
  <2>6. ASSUME NEW p \in acks, Drain(p) PROVE Inv'
    BY <2>6, DrainStep
  <2>7. CASE Tick
    BY <2>7, TickStep
  <2>8. CASE UNCHANGED vars
    <3>1. /\ phase \in {"idle", "drain", "send", "drill"} /\ drilling \in Targets \cup {Nobody}
          /\ hole \in [Targets -> 0..HoleTime] /\ acks \subseteq wire
      BY DEF Inv, TypeOK, WireOK
    <3> QED
      BY <2>8, <3>1, QuietStep DEF vars
  <2> QED
    BY <2>1, <2>2, <2>3, <2>4, <2>5, <2>6, <2>7, <2>8 DEF Next
<1> QED
  BY <1>1, <1>2, PTL DEF Spec

\* The queue, the holes, the packets and the history have their types; in
\* particular no notification is sent more than MaxAttempts times (getOne).
THEOREM TypeCorrect == Spec => []TypeOK
BY Invariant, PTL DEF Inv

\* An entry leaves the list as failed only after its last attempt, and as
\* acknowledged only for an answer with its zone, address and ID (getOne,
\* removeIf), however the two threads interleave.
THEOREM DroppedOnlyForAReason == Spec => []DroppedForAReason
BY Invariant, PTL DEF Inv

\* doNotifications does not send again what it has read the answer to, unless
\* removeIf credited the answer to another entry with the same zone, address
\* and ID.
THEOREM NoResendAfterAnswer == Spec => AnsweredNotResent
<1> DEFINE Fine == \A n \in answered : sent'[n] > sent[n] =>
                      \E m \in Notifications \ {n} : /\ Target[m] = Target[n] /\ id[m] = id[n]
                                                     /\ outcome[m] = "acked"
<1>1. Inv /\ [Next]_vars => [Fine]_vars
  <2> SUFFICES ASSUME Inv, Next, NEW n \in answered, sent'[n] > sent[n] PROVE Credited(n)
    BY DEF Credited
  <2>1. TypeOK /\ n \in Notifications /\ sent \in [Notifications -> 0..4] /\ nqueue \in Seq(Entry)
    BY DEF Inv, TypeOK, MaxAttempts
  <2>2. Send
    <3>1. sent' # sent
      BY <2>1
    <3> QED
      BY <3>1 DEF Next, Add, ControlAdd, ControlLink, Start, EndDrain, Drill, EndSend,
                  Drain, SlaveAnswers, Tick
  <2>3. Due \in DOMAIN nqueue
    BY <2>1, <2>2, DueFacts DEF Send
  <2>4. nqueue[Due].n = n
    <3>1. sent' = sent \/ sent' = [sent EXCEPT ![nqueue[Due].n] = @ + 1]
      BY <2>2 DEF Send
    <3> QED
      BY <2>1, <3>1
  <2>5. InQueue(n)
    BY <2>3, <2>4 DEF InQueue
  <2> QED
    BY <2>5 DEF Inv, AnsweredOK
<1> QED
  BY <1>1, Invariant, PTL DEF Spec, AnsweredNotResent
=============================================================================

-------------------------- MODULE NotificationQueue --------------------------
(***************************************************************************)
(* The master side of the communicator: notifications to slaves wait in     *)
(* d_nq until the slave acknowledges them, and are sent up to four times    *)
(* with growing pauses (NotificationQueue, doNotifications).  A slave that  *)
(* was just notified may transfer the zone for a while (drillHole).         *)
(*                                                                          *)
(* The list has no lock.  The communicator thread uses it in                *)
(* masterUpdateCheck and doNotifications; the control thread appends to it  *)
(* for pdns_control notify and notify-host at any moment.  A notification   *)
(* is one call of add(); a target is a zone and the address of a slave.     *)
(* What the backend is told with setNotified, before anything has been      *)
(* sent, is the backend's state and not part of the model: the list does    *)
(* not depend on it.                                                        *)
(***************************************************************************)
EXTENDS Integers, Sequences, FiniteSets, SequencesExt

CONSTANTS
    Notifications,   \* the calls of add() of a run
    FromControl,     \* those made by the control thread
    Targets,         \* zone and address
    Target,          \* Target[n]: whom notification n is for
    Ids,             \* values of the random 16-bit DNS ID
    HoleTime,        \* seconds a notified slave may transfer the zone (900)
    Nobody           \* no notification, ID or target

ASSUME NotificationAssumption == /\ FromControl \subseteq Notifications
                                 /\ Target \in [Notifications -> Targets]
                                 /\ Nobody \notin Notifications \cup Targets \cup Ids
ASSUME HoleAssumption == HoleTime \in Nat \ {0}

VARIABLES
    nqueue,     \* d_nqueue
    phase,      \* where the communicator thread is in doNotifications
    drilling,   \* the target drillHole is about to be called for
    ctl,        \* control thread: the add() under way and the tail it saw
    hole,       \* seconds until the hole for a target closes; 0: no hole
    wire,       \* NOTIFY packets sent to slaves
    acks,       \* answers sent back
    id,         \* the ID each notification was given (history)
    sent,       \* how often each was picked for sending (history)
    outcome,    \* what became of each (history)
    answered    \* those whose answer doNotifications has read (history)

vars == <<nqueue, phase, drilling, ctl, hole, wire, acks, id, sent, outcome, answered>>

\* getOne gives an entry up at the attempt after this one.
MaxAttempts == 4

\* Seconds until the next attempt, after attempt a: 1+(1<<attempts).
Backoff(a) == 1 + 2^a

\* next is kept as the seconds left until it.
Entry == [n : Notifications, attempts : 0..MaxAttempts, wait : 0..Backoff(MaxAttempts)]
Packet == [to : Targets, id : Ids, n : Notifications]
NoAdd == [n |-> Nobody, tail |-> Nobody]

Init ==
    /\ nqueue = <<>>
    /\ phase = "idle"
    /\ drilling = Nobody
    /\ ctl = NoAdd
    /\ hole = [t \in Targets |-> 0]
    /\ wire = {}
    /\ acks = {}
    /\ id = [n \in Notifications |-> Nobody]
    /\ sent = [n \in Notifications |-> 0]
    /\ outcome = [n \in Notifications |-> "new"]
    /\ answered = {}

NewEntry(n) == [n |-> n, attempts |-> 0, wait |-> 0]
LastQueued == IF nqueue = <<>> THEN Nobody ELSE Last(nqueue).n
-----------------------------------------------------------------------------
(* add().                                                                    *)

\* Called by the communicator thread itself (masterUpdateCheck).
Add(n) ==
    /\ phase = "idle"
    /\ n \notin FromControl /\ outcome[n] = "new"
    /\ \E i \in Ids : id' = [id EXCEPT ![n] = i]
    /\ nqueue' = Append(nqueue, NewEntry(n))
    /\ outcome' = [outcome EXCEPT ![n] = "queued"]
    /\ UNCHANGED <<phase, drilling, ctl, hole, wire, acks, sent, answered>>

\* Called by the control thread: list::push_back reads the tail of the list ...
ControlAdd(n) ==
    /\ n \in FromControl /\ outcome[n] = "new"
    /\ ctl = NoAdd
    /\ \E i \in Ids : id' = [id EXCEPT ![n] = i]
    /\ ctl' = [n |-> n, tail |-> LastQueued]
    /\ outcome' = [outcome EXCEPT ![n] = "queued"]
    /\ UNCHANGED <<nqueue, phase, drilling, hole, wire, acks, sent, answered>>

\* The position of the node the control thread saw at the tail; the list head,
\* which is never erased, is at 0.
SeenTail == SelectInSeq(nqueue, LAMBDA e : e.n = ctl.tail)
TailErased == ctl.tail # Nobody /\ SeenTail = 0

\* ... and links the new node behind it.  When the communicator thread changed
\* the tail in between, the two updates race: either this one sees the new
\* tail, or the node hangs from one that was erased, or it takes the place of
\* those that were appended meanwhile.
ControlLink ==
    /\ ctl # NoAdd
    /\ ctl' = NoAdd
    /\ \/ /\ nqueue' = Append(nqueue, NewEntry(ctl.n))
          /\ UNCHANGED outcome
       \/ /\ TailErased
          /\ outcome' = [outcome EXCEPT ![ctl.n] = "lost"]
          /\ UNCHANGED nqueue
       \/ /\ ~TailErased /\ SeenTail < Len(nqueue)
          /\ nqueue' = Append(SubSeq(nqueue, 1, SeenTail), NewEntry(ctl.n))
          /\ LET unlinked == {nqueue[k].n : k \in (SeenTail + 1)..Len(nqueue)}
             IN  outcome' = [n \in Notifications |->
                                IF n \in unlinked THEN "lost" ELSE outcome[n]]
    /\ UNCHANGED <<phase, drilling, hole, wire, acks, id, sent, answered>>
-----------------------------------------------------------------------------
(* doNotifications.                                                          *)

Start ==
    /\ phase = "idle"
    /\ phase' = "drain"
    /\ UNCHANGED <<nqueue, drilling, ctl, hole, wire, acks, id, sent, outcome, answered>>

\* The entry an answer p is taken to be for.
Matches(e, p) == id[e.n] = p.id /\ Target[e.n] = p.to

\* Mutated removeIf: the ID is not compared.
removeIfAnyID(p) == SelectInSeq(nqueue, LAMBDA e : Target[e.n] = p.to)

\* Mutated removeIf: nothing is found.
removeIfNone(p) == 0

\* removeIf: the position of the first entry with the ID, address and zone of
\* the answer, or 0.
removeIf(p) == SelectInSeq(nqueue, LAMBDA e : Matches(e, p))

\* One answer is read from the socket, whatever its rcode.  It stays in acks:
\* the network may deliver it again, or late, or never.
Drain(p) ==
    /\ phase = "drain"
    /\ p \in acks
    /\ answered' = answered \cup {p.n}
    /\ LET k == removeIf(p)
       IN  IF k = 0
           THEN UNCHANGED <<nqueue, outcome>>
           ELSE /\ nqueue' = RemoveAt(nqueue, k)
                /\ outcome' = [outcome EXCEPT ![nqueue[k].n] = "acked"]
    /\ UNCHANGED <<phase, drilling, ctl, hole, wire, acks, id, sent>>

EndDrain ==
    /\ phase = "drain"
    /\ phase' = "send"
    /\ UNCHANGED <<nqueue, drilling, ctl, hole, wire, acks, id, sent, outcome, answered>>

\* The position of the first entry whose time has come, or 0.
Due == SelectInSeq(nqueue, LAMBDA e : e.wait = 0)

\* Mutated Purged: one attempt too many.
PurgedLate(e) == e.attempts > MaxAttempts

\* getOne gives the entry up instead of handing it out once more.
Purged(e) == e.attempts + 1 > MaxAttempts

\* Mutated getOne: an entry that is given up stays in the list.
getOneKept(k) ==
    LET e == nqueue[k] IN
    [nqueue EXCEPT ![k] = [n |-> e.n, attempts |-> IF Purged(e) THEN MaxAttempts ELSE e.attempts + 1,
                           wait |-> Backoff(IF Purged(e) THEN MaxAttempts ELSE e.attempts + 1)]]

\* getOne on the due entry k: count the attempt and set the time of the next,
\* or take the entry out of the queue.
getOne(k) ==
    LET e == nqueue[k] IN
    IF Purged(e) THEN RemoveAt(nqueue, k)
    ELSE [nqueue EXCEPT ![k] = [n |-> e.n, attempts |-> e.attempts + 1,
                                wait |-> Backoff(e.attempts + 1)]]

\* One round of the sending loop.  Resolver::notify sends the packet, or throws,
\* which is logged and counts as an attempt.
Send ==
    /\ phase = "send"
    /\ Due # 0
    /\ nqueue' = getOne(Due)
    /\ LET e == nqueue[Due] IN
       \/ /\ Purged(e)
          /\ outcome' = [outcome EXCEPT ![e.n] = "failed"]
          /\ UNCHANGED <<phase, drilling, wire, sent>>
       \/ /\ ~Purged(e)
          /\ sent' = [sent EXCEPT ![e.n] = @ + 1]
          /\ \/ UNCHANGED <<phase, drilling, wire>>
             \/ /\ wire' = wire \cup {[to |-> Target[e.n], id |-> id[e.n], n |-> e.n]}
                /\ drilling' = Target[e.n]
                /\ phase' = "drill"
          /\ UNCHANGED outcome
    /\ UNCHANGED <<ctl, hole, acks, id, answered>>

\* drillHole, right after the packet went out.
Drill ==
    /\ phase = "drill"
    /\ hole' = [hole EXCEPT ![drilling] = HoleTime]
    /\ phase' = "send"
    /\ drilling' = Nobody
    /\ UNCHANGED <<nqueue, ctl, wire, acks, id, sent, outcome, answered>>

EndSend ==
    /\ phase = "send"
    /\ Due = 0
    /\ phase' = "idle"
    /\ UNCHANGED <<nqueue, drilling, ctl, hole, wire, acks, id, sent, outcome, answered>>
-----------------------------------------------------------------------------
\* External: a slave answers a notification.  The packet stays in wire, as it
\* may be duplicated; a lost one is never answered.
SlaveAnswers(p) ==
    /\ p \in wire
    /\ acks' = acks \cup {p}
    /\ UNCHANGED <<nqueue, phase, drilling, ctl, hole, wire, id, sent, outcome, answered>>

Less(k) == IF k = 0 THEN 0 ELSE k - 1

\* A second passes.  doNotifications does not notice whether it passes during
\* the call or right after it: what became due is sent in the next call.
Tick ==
    /\ phase = "idle"
    /\ nqueue' = [k \in DOMAIN nqueue |-> [nqueue[k] EXCEPT !.wait = Less(@)]]
    /\ hole' = [t \in Targets |-> Less(hole[t])]
    /\ UNCHANGED <<phase, drilling, ctl, wire, acks, id, sent, outcome, answered>>

Next ==
    \/ \E n \in Notifications : Add(n) \/ ControlAdd(n)
    \/ ControlLink
    \/ Start \/ EndDrain \/ Send \/ Drill \/ EndSend
    \/ \E p \in acks : Drain(p)
    \/ \E p \in wire : SlaveAnswers(p)
    \/ Tick

Spec == Init /\ [][Next]_vars

\* The communicator thread calls doNotifications at least once a second and
\* leaves each of its two loops, the control thread finishes its call, and time
\* does not stop: between two calls the thread sleeps.
Fairness ==
    /\ WF_vars(Start) /\ WF_vars(EndDrain) /\ WF_vars(Send) /\ WF_vars(Drill)
    /\ WF_vars(EndSend) /\ WF_vars(ControlLink) /\ SF_vars(Tick)

FairSpec == Spec /\ Fairness
-----------------------------------------------------------------------------
\* The types of the queue and of the holes (communicator.hh:105-115, 156).
TypeOK ==
    /\ nqueue \in Seq(Entry)
    /\ phase \in {"idle", "drain", "send", "drill"}
    /\ drilling \in Targets \cup {Nobody}
    /\ ctl \in [n : Notifications \cup {Nobody}, tail : Notifications \cup {Nobody}]
    /\ hole \in [Targets -> 0..HoleTime]
    /\ wire \subseteq Packet
    /\ acks \subseteq Packet
    /\ id \in [Notifications -> Ids \cup {Nobody}]
    /\ sent \in [Notifications -> 0..MaxAttempts]
    /\ outcome \in [Notifications -> {"new", "queued", "acked", "failed", "lost"}]
    /\ answered \subseteq Notifications

\* A notification is dropped as failed only after MaxAttempts attempts, and as
\* acknowledged only when the slave answered it, or answered another one for
\* the same zone that was given the same random ID.
DroppedForAReason ==
    \A n \in Notifications :
        /\ outcome[n] = "failed" => sent[n] = MaxAttempts
        /\ outcome[n] = "acked" =>
               \E m \in answered : Target[m] = Target[n] /\ id[m] = id[n]

\* Once doNotifications has read the slave's answer, the notification is not
\* sent again, except when the answer was credited to another one with the
\* same zone, slave and ID.
AnsweredNotResent ==
    [][\A n \in answered : sent'[n] > sent[n] =>
          \E m \in Notifications \ {n} : /\ Target[m] = Target[n] /\ id[m] = id[n]
                                         /\ outcome[m] = "acked"]_vars

\* Every queued notification is eventually acknowledged or given up and leaves
\* the list, whatever the slave and the network do (a lost one is no longer in
\* the list).
EventuallyDone ==
    \A n \in Notifications :
        outcome[n] = "queued" ~> /\ outcome[n] # "queued"
                                 /\ \A k \in DOMAIN nqueue : nqueue[k].n # n
=============================================================================

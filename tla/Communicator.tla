---------------------------- MODULE Communicator ----------------------------
(***************************************************************************)
(* The slave side of the master/slave communicator: the queue of zones to   *)
(* be transferred (d_suckdomains), its lock and its two semaphores, shared  *)
(* by the threads that ask for a transfer (addSuckRequest) and by the one   *)
(* thread that carries them out (CommunicatorClass::mainloop).              *)
(*                                                                          *)
(* d_suck_sem counts requests; d_any_sem counts anything that should wake   *)
(* the main loop, outgoing notifications included.  The transfer itself is  *)
(* one step here with its three outcomes.                                   *)
(***************************************************************************)
EXTENDS Integers, Sequences, FiniteSets

CONSTANTS
    Requesters,   \* threads that call addSuckRequest: packet handlers, control
    Prioritized,  \* those among them that ask with priority (processNotify)
    Domains,      \* the slave zones
    Main,         \* the communicator thread, which also asks (slaveRefresh)
    NoThread,     \* nobody holds d_lock
    NoDomain,     \* no request is being carried out
    MaxQueue,     \* bound: requests are made only while the queue is shorter
    MaxAny        \* bound: notify() is called only while d_any_sem is smaller

ASSUME ThreadAssumption == /\ Main \notin Requesters
                           /\ NoThread \notin Requesters \cup {Main}
                           /\ Prioritized \subseteq Requesters
ASSUME DomainAssumption == NoDomain \notin Domains
ASSUME BoundAssumption == MaxQueue \in Nat \ {0} /\ MaxAny \in Nat

Threads == Requesters \cup {Main}

VARIABLES
    queue,     \* d_suckdomains
    lock,      \* the holder of d_lock
    suck,      \* value of d_suck_sem
    any,       \* value of d_any_sem
    adding,    \* per thread, how far its addSuckRequest has got
    mpc,       \* where the main loop is
    current,   \* the request being carried out
    fresh      \* zones the backend holds as fresh (setFresh)

vars == <<queue, lock, suck, any, adding, mpc, current, fresh>>

Init ==
    /\ queue = <<>>
    /\ lock = NoThread
    /\ suck = 0
    /\ any = 0
    /\ adding = [t \in Threads |-> "idle"]
    /\ mpc = "refresh"
    /\ current = NoDomain
    /\ fresh = {}
-----------------------------------------------------------------------------
(* addSuckRequest: the lock is held from the push to the second post.        *)

\* push_front for a request with priority, push_back for the others.
Enqueue(t, d) == IF t \in Prioritized THEN <<d>> \o queue ELSE Append(queue, d)

\* Who may ask for which transfer: a thread outside the communicator for any
\* zone; the communicator itself, in slaveRefresh, for a zone that is not fresh
\* and whose master has a higher serial (the answers to its serial queries are
\* arbitrary here).
MayAsk(t, d) ==
    /\ adding[t] = "idle"
    /\ mpc # "exited"
    /\ t = Main => mpc = "refresh" /\ d \notin fresh

\* addSuckRequest up to the first post.
Push(t, d) ==
    /\ MayAsk(t, d)
    /\ Len(queue) < MaxQueue
    /\ lock = NoThread
    /\ lock' = t
    /\ queue' = Enqueue(t, d)
    /\ adding' = [adding EXCEPT ![t] = "pushed"]
    /\ UNCHANGED <<suck, any, mpc, current, fresh>>

\* Mutated PostOrder: the main loop is woken before the request is counted.
PostOrderSwapped == <<"any", "suck">>

\* The order in which addSuckRequest posts the two semaphores.
PostOrder == <<"suck", "any">>

One(b) == IF b THEN 1 ELSE 0

Post(sem) ==
    /\ suck' = suck + One(sem = "suck")
    /\ any' = any + One(sem = "any")

PostFirst(t) ==
    /\ adding[t] = "pushed"
    /\ mpc # "exited"
    /\ Post(PostOrder[1])
    /\ adding' = [adding EXCEPT ![t] = "posted"]
    /\ UNCHANGED <<queue, lock, mpc, current, fresh>>

\* Mutated PostSecond: d_any_sem is not posted.
PostSecondForgotten(t) ==
    /\ adding[t] = "posted"
    /\ mpc # "exited"
    /\ lock' = NoThread
    /\ adding' = [adding EXCEPT ![t] = "idle"]
    /\ UNCHANGED <<queue, suck, any, mpc, current, fresh>>

\* The second post, and the destructor of the Lock at the end of addSuckRequest.
PostSecond(t) ==
    /\ adding[t] = "posted"
    /\ mpc # "exited"
    /\ Post(PostOrder[2])
    /\ lock' = NoThread
    /\ adding' = [adding EXCEPT ![t] = "idle"]
    /\ UNCHANGED <<queue, mpc, current, fresh>>

\* notify(), called for pdns_control notify-host: wakes the main loop for an
\* outgoing notification.
Notify ==
    /\ mpc # "exited"
    /\ any < MaxAny
    /\ any' = any + 1
    /\ UNCHANGED <<queue, lock, suck, adding, mpc, current, fresh>>
-----------------------------------------------------------------------------
(* mainloop.                                                                 *)

\* slaveRefresh found no stale zone, or has asked for all it wants; the inner
\* loop starts.  masterUpdateCheck and doNotifications do not touch this state
\* (module NotificationQueue).  A backend that throws in one of the three ends
\* the process (exit(0) in mainloop).
EndRefresh ==
    /\ mpc = "refresh" /\ adding[Main] = "idle"
    /\ mpc' \in {"wait", "exited"}
    /\ UNCHANGED <<queue, lock, suck, any, adding, current, fresh>>

\* slaveRefresh: the master's serial is not higher than ours; the zone is fresh.
ConfirmFresh(d) ==
    /\ mpc = "refresh" /\ adding[Main] = "idle"
    /\ d \notin fresh
    /\ fresh' = fresh \cup {d}
    /\ UNCHANGED <<queue, lock, suck, any, adding, mpc, current>>

\* The inner while loop ends: time(0) >= next.
TickOver ==
    /\ mpc = "wait"
    /\ mpc' = "refresh"
    /\ UNCHANGED <<queue, lock, suck, any, adding, current, fresh>>

\* Mutated TryAny: a semaphore at zero is taken as well.
TryAnyUnguarded ==
    /\ mpc = "wait"
    /\ any' = any - 1
    /\ mpc' = "trysuck"
    /\ UNCHANGED <<queue, lock, suck, adding, current, fresh>>

\* d_any_sem.tryWait(): when it is zero the loop sleeps and comes round again.
TryAny ==
    /\ mpc = "wait"
    /\ any > 0
    /\ any' = any - 1
    /\ mpc' = "trysuck"
    /\ UNCHANGED <<queue, lock, suck, adding, current, fresh>>

\* d_suck_sem.tryWait().
TrySuck ==
    /\ mpc = "trysuck"
    /\ \/ suck > 0 /\ suck' = suck - 1 /\ mpc' = "pop"
       \/ suck = 0 /\ suck' = suck /\ mpc' = "wait"
    /\ UNCHANGED <<queue, lock, any, adding, current, fresh>>

\* front() and pop_front() under d_lock.
Pop ==
    /\ mpc = "pop"
    /\ lock = NoThread
    /\ current' = Head(queue)
    /\ queue' = Tail(queue)
    /\ mpc' = "suck"
    /\ UNCHANGED <<lock, suck, any, adding, fresh>>

\* suck(): the zone was transferred and set fresh, or the transfer failed and
\* was logged; a failure of another kind ends the process (exit(0) in mainloop).
Suck ==
    /\ mpc = "suck"
    /\ current' = NoDomain
    /\ \/ fresh' = fresh \cup {current} /\ mpc' = "wait"
       \/ fresh' = fresh /\ mpc' = "wait"
       \/ fresh' = fresh /\ mpc' = "exited"
    /\ UNCHANGED <<queue, lock, suck, any, adding>>

\* The refresh interval of a zone passes.
Expire(d) ==
    /\ d \in fresh
    /\ fresh' = fresh \ {d}
    /\ UNCHANGED <<queue, lock, suck, any, adding, mpc, current>>

FinishRequest(t) == PostFirst(t) \/ PostSecond(t)

Next ==
    \/ \E t \in Threads, d \in Domains : Push(t, d)
    \/ \E t \in Threads : PostFirst(t) \/ PostSecond(t)
    \/ Notify
    \/ EndRefresh \/ TickOver \/ TryAny \/ TrySuck \/ Pop \/ Suck
    \/ \E d \in Domains : ConfirmFresh(d) \/ Expire(d)

Spec == Init /\ [][Next]_vars

\* The main loop and every thread inside addSuckRequest keep running.  Pop needs
\* d_lock, which others take again and again, and TryAny competes with the end
\* of the inner loop, which lasts at least a second: strong fairness for both.
Fairness ==
    /\ WF_vars(EndRefresh) /\ WF_vars(TrySuck) /\ WF_vars(Suck)
    /\ SF_vars(TryAny) /\ SF_vars(Pop)
    /\ \A t \in Threads : WF_vars(FinishRequest(t))

FairSpec == Spec /\ Fairness
-----------------------------------------------------------------------------
\* The types of the communicator's state (communicator.hh:40-44, 161-165).
TypeOK ==
    /\ queue \in Seq(Domains)
    /\ lock \in Threads \cup {NoThread}
    /\ suck \in Nat
    /\ any \in Nat
    /\ adding \in [Threads -> {"idle", "pushed", "posted"}]
    /\ mpc \in {"refresh", "wait", "trysuck", "pop", "suck", "exited"}
    /\ current \in Domains \cup {NoDomain}
    /\ fresh \subseteq Domains

\* d_lock is held by exactly the thread inside addSuckRequest.
LockHeld == \A t \in Threads : adding[t] # "idle" <=> lock = t

Pushed == \E t \in Threads : adding[t] = "pushed"
Posted == \E t \in Threads : adding[t] = "posted"

\* d_suck_sem counts the requests in the queue, but for the one that is pushed
\* and not yet posted and the one that is granted and not yet popped.
SemaphoreCountsQueue == Len(queue) = suck + One(Pushed) + One(mpc = "pop")

\* mainloop never calls front() on an empty deque (communicator.cc:70-75).
PopFindsRequest == mpc = "pop" => queue # <<>>

\* Every request is announced on d_any_sem too, so that none stays behind until
\* something unrelated wakes the main loop: with the two posts the other way
\* round, mainloop could use up the announcement before the request is posted.
NoRequestStranded == suck <= any + One(Posted) + One(mpc = "trysuck")

\* Every queued zone is eventually transferred or tried, unless the process ends
\* or requests with priority keep coming, each of which goes to the front
\* (mainloop, addSuckRequest and the two semaphores).
EveryRequestServed ==
    <>[](\A t \in Prioritized : adding[t] = "idle") =>
        \A d \in Domains :
            (\E i \in DOMAIN queue : queue[i] = d) ~> (current = d \/ mpc = "exited")
=============================================================================

---------------------------- MODULE Distributor ----------------------------
(***************************************************************************)
(* The distributor (distributor.hh): receivers hand questions to a pool of  *)
(* backend threads through a queue, a mutex and a counting semaphore.  A    *)
(* thread whose backend throws ends, and its question is lost; question()   *)
(* starts a new thread when it finds fewer backends than it wants, at most  *)
(* one every five seconds, and ends the process when the queue is too long. *)
(*                                                                          *)
(* The number of backends it looks at is PacketHandler::s_count, which also *)
(* counts the handlers that other parts of the server construct and drop as *)
(* they work, and which every one of them changes without a lock: of two    *)
(* updates that overlap one is lost.                                        *)
(*                                                                          *)
(* question() is called by one thread at a time (d_distributorlock when     *)
(* there are several receivers), always with a callback, and with more than *)
(* one backend thread configured: with one, question() answers in the       *)
(* calling thread and none of this is used.                                 *)
(***************************************************************************)
EXTENDS Integers, Sequences, FiniteSets

CONSTANTS
    Questions,     \* the questions of a run
    Threads,       \* identities for backend threads
    First,         \* the threads that the constructor starts
    NumThreads,    \* distributor-threads (d_num_threads), their number
    MaxOthers,     \* bound on the handlers other parts have at a time
    MaxRaces,      \* bound on the updates of s_count that are lost
    MaxQueue,      \* max-queue-length
    CheckEvery,    \* the queue is checked at every CheckEvery-th question (50)
    RespawnAfter,  \* seconds that must have passed since the last start (5)
    MaxBuild,      \* bound on the seconds it takes to construct a backend
    NoQuestion

ASSUME PoolAssumption == /\ NumThreads \in Nat \ {0, 1} /\ IsFiniteSet(Threads)
                         /\ First \subseteq Threads /\ Cardinality(First) = NumThreads
                         /\ NumThreads + 2 + MaxRaces <= Cardinality(Threads)
ASSUME CountAssumption == MaxOthers \in Nat /\ MaxRaces \in Nat
ASSUME LimitsAssumption == /\ MaxQueue \in Nat /\ CheckEvery \in Nat \ {0}
                           /\ RespawnAfter \in Nat /\ MaxBuild \in Nat
ASSUME QuestionAssumption == NoQuestion \notin Questions

VARIABLES
    questions,   \* the queue
    sem,         \* numquestions
    nextid,      \* nextid: the questions handed in
    since,       \* time(0)-d_last_started, up to RespawnAfter + 1
    asker,       \* where question() is, and with which question
    thread,      \* per thread, where it is
    item,        \* per thread, its question
    build,       \* per thread, the seconds its backend has been under construction
    others,      \* handlers of other parts of the server
    leaked,      \* handlers of threads that ended without deleting them
    missed,      \* increments of s_count that were lost
    stuck,       \* decrements of s_count that were lost
    fate,        \* per question, what became of it (history)
    running      \* the process has not ended

counts == <<others, leaked, missed, stuck>>
vars == <<questions, sem, nextid, since, asker, thread, item, build, counts, fate, running>>

AskerIdle == [pc |-> "idle", q |-> NoQuestion]

\* The constructor starts NumThreads threads.
Init ==
    /\ questions = <<>>
    /\ sem = 0
    /\ nextid = 0
    /\ since = 0
    /\ asker = AskerIdle
    /\ thread = [t \in Threads |-> IF t \in First THEN "starting" ELSE "none"]
    /\ item = [t \in Threads |-> NoQuestion]
    /\ build = [t \in Threads |-> 0]
    /\ others = 0 /\ leaked = 0 /\ missed = 0 /\ stuck = 0
    /\ fate = [q \in Questions |-> "new"]
    /\ running = TRUE

Alive == {t \in Threads : thread[t] # "none"}
\* The identity of the next thread to be started; which one does not matter.
Fresh == CHOOSE t \in Threads : t \notin Alive
\* Backend::numRunning(), s_count: the handlers there are, of the distributor and of
\* others, as far as the updates were not lost.
numRunning ==
    Cardinality({t \in Threads : thread[t] \notin {"none", "starting"}})
        + others + leaked - missed + stuck

\* s_count++ at the end of a handler's constructor, or lost to another thread's update.
CountUp == UNCHANGED missed \/ (missed + stuck < MaxRaces /\ missed' = missed + 1)

\* --s_count in its destructor, or lost.
CountDown == UNCHANGED stuck \/ (missed + stuck < MaxRaces /\ stuck' = stuck + 1)
-----------------------------------------------------------------------------
(* Other parts of the server: suck, notifyDomain, the control commands and   *)
(* the TCP server construct a handler of their own and drop it when done.    *)

OthersStart ==
    /\ running /\ others < MaxOthers
    /\ others' = others + 1
    /\ CountUp
    /\ UNCHANGED <<questions, sem, nextid, since, asker, thread, item, build, leaked, stuck,
                   fate, running>>

OthersStop ==
    /\ running /\ others > 0
    /\ others' = others - 1
    /\ CountDown
    /\ UNCHANGED <<questions, sem, nextid, since, asker, thread, item, build, leaked, missed,
                   fate, running>>
-----------------------------------------------------------------------------
(* question().                                                               *)

\* Mutated MissesThread: no pause between two starts.
MissesThreadAlways == numRunning < NumThreads + 2

\* A thread is missing and none was started in the last RespawnAfter seconds.
MissesThread == numRunning < NumThreads + 2 /\ since > RespawnAfter

\* The question that a client sends next; which one does not matter.
Arriving == CHOOSE q \in Questions : fate[q] = "new"

\* question() up to the push: start a thread when one is missing, then queue a
\* copy of the question under q_lock.
Ask(q) ==
    /\ running /\ asker = AskerIdle /\ fate[q] = "new" /\ q = Arriving
    /\ IF MissesThread
       THEN /\ since' = 0
            /\ Alive # Threads
            /\ thread' = [thread EXCEPT ![Fresh] = "starting"]
       ELSE UNCHANGED <<since, thread>>
    /\ questions' = Append(questions, q)
    /\ nextid' = nextid + 1
    /\ asker' = [pc |-> "pushed", q |-> q]
    /\ fate' = [fate EXCEPT ![q] = "queued"]
    /\ UNCHANGED <<sem, item, build, counts, running>>

\* Mutated PostQuestion: the semaphore is posted only for an empty queue.
PostFirstOnly ==
    /\ running /\ asker.pc = "pushed"
    /\ sem' = IF sem = 0 THEN 1 ELSE sem
    /\ asker' = [asker EXCEPT !.pc = "posted"]
    /\ UNCHANGED <<questions, nextid, since, thread, item, build, counts, fate, running>>

\* numquestions.post().
PostQuestion ==
    /\ running /\ asker.pc = "pushed"
    /\ sem' = sem + 1
    /\ asker' = [asker EXCEPT !.pc = "posted"]
    /\ UNCHANGED <<questions, nextid, since, thread, item, build, counts, fate, running>>

\* Every CheckEvery questions: too many waiting ends the process.
CheckQueue ==
    /\ running /\ asker.pc = "posted"
    /\ asker' = AskerIdle
    /\ running' = ~(nextid % CheckEvery = 0 /\ sem > MaxQueue)
    /\ UNCHANGED <<questions, sem, nextid, since, thread, item, build, counts, fate>>
-----------------------------------------------------------------------------
(* makeThread.                                                               *)

Step(t, from, to) == running /\ thread[t] = from /\ thread' = [thread EXCEPT ![t] = to]

\* new Backend(); a constructor that throws ends the thread.
Construct(t) ==
    /\ \/ Step(t, "starting", "waiting") /\ CountUp
       \/ Step(t, "starting", "none") /\ UNCHANGED missed
    /\ build' = [build EXCEPT ![t] = 0]
    /\ UNCHANGED <<questions, sem, nextid, since, asker, item, others, leaked, stuck, fate,
                   running>>

\* Mutated Take: wait() does not look at the count again once it was woken up.
TakeWoken(t) ==
    /\ Step(t, "waiting", "granted")
    /\ sem' = sem - 1
    /\ UNCHANGED <<questions, nextid, since, asker, item, build, counts, fate, running>>

\* numquestions.wait().
Take(t) ==
    /\ sem > 0
    /\ Step(t, "waiting", "granted")
    /\ sem' = sem - 1
    /\ UNCHANGED <<questions, nextid, since, asker, item, build, counts, fate, running>>

\* Mutated Fetch: the question is read and not taken off the queue.
FetchCopy(t) ==
    /\ Step(t, "granted", "working")
    /\ item' = [item EXCEPT ![t] = Head(questions)]
    /\ UNCHANGED <<questions, sem, nextid, since, asker, build, counts, fate, running>>

\* front() and pop() under q_lock.
Fetch(t) ==
    /\ Step(t, "granted", "working")
    /\ item' = [item EXCEPT ![t] = Head(questions)]
    /\ questions' = Tail(questions)
    /\ UNCHANGED <<sem, nextid, since, asker, build, counts, fate, running>>

\* The question is dropped (older than queue-limit), answered through the
\* callback, or lost with its thread: the backend throws and is deleted, or the
\* callback throws, which only the outer catch sees, and the backend stays.
Work(t) ==
    /\ \/ /\ Step(t, "working", "waiting")
          /\ \E end \in {"timedout", "answered"} : fate' = [fate EXCEPT ![item[t]] = end]
          /\ UNCHANGED counts
       \/ /\ Step(t, "working", "none")
          /\ fate' = [fate EXCEPT ![item[t]] = "failed"]
          /\ \/ CountDown /\ UNCHANGED leaked
             \/ leaked' = leaked + 1 /\ UNCHANGED stuck
          /\ UNCHANGED <<others, missed>>
    /\ item' = [item EXCEPT ![t] = NoQuestion]
    /\ UNCHANGED <<questions, sem, nextid, since, asker, build, running>>

\* A second passes; no backend takes longer than MaxBuild to construct.
Tick ==
    /\ running
    /\ \A t \in Threads : thread[t] = "starting" => build[t] < MaxBuild
    /\ since' = IF since > RespawnAfter THEN since ELSE since + 1
    /\ build' = [t \in Threads |-> IF thread[t] = "starting" THEN build[t] + 1 ELSE 0]
    /\ UNCHANGED <<questions, sem, nextid, asker, thread, item, counts, fate, running>>

Next ==
    \/ \E q \in Questions : Ask(q)
    \/ PostQuestion \/ CheckQueue
    \/ \E t \in Threads : Construct(t) \/ Take(t) \/ Fetch(t) \/ Work(t)
    \/ Tick \/ OthersStart \/ OthersStop

Spec == Init /\ [][Next]_vars

\* Threads and question() keep running and backends answer or throw.  Nothing
\* makes clients ask or other parts work: there is no fairness for Ask, OthersStart
\* and OthersStop.
Fairness ==
    /\ WF_vars(PostQuestion) /\ WF_vars(CheckQueue) /\ WF_vars(Tick)
    /\ \A t \in Threads : WF_vars(Construct(t)) /\ WF_vars(Take(t)) /\ WF_vars(Fetch(t))
                          /\ WF_vars(Work(t))

FairSpec == Spec /\ Fairness
-----------------------------------------------------------------------------
\* The types of the distributor's state (distributor.hh:81-111).
TypeOK ==
    /\ questions \in Seq(Questions)
    /\ sem \in Nat
    /\ nextid \in Nat
    /\ since \in 0..(RespawnAfter + 1)
    /\ asker \in [pc : {"idle", "pushed", "posted"}, q : Questions \cup {NoQuestion}]
    /\ thread \in [Threads -> {"none", "starting", "waiting", "granted", "working"}]
    /\ item \in [Threads -> Questions \cup {NoQuestion}]
    /\ build \in [Threads -> 0..MaxBuild]
    /\ others \in 0..MaxOthers /\ leaked \in Nat
    /\ missed \in Nat /\ stuck \in Nat /\ missed + stuck <= MaxRaces
    /\ fate \in [Questions -> {"new", "queued", "answered", "timedout", "failed"}]
    /\ running \in BOOLEAN

\* A question is in one place only: queued once, or with one thread, and never
\* there once it was answered, dropped or lost.
OnePlace ==
    /\ \A i, j \in DOMAIN questions : i # j => questions[i] # questions[j]
    /\ \A t \in Threads, i \in DOMAIN questions : item[t] # questions[i]
    /\ \A t, u \in Threads : t # u /\ item[t] = item[u] => item[t] = NoQuestion
    /\ \A q \in Questions :
          fate[q] = "queued" <=> \/ \E i \in DOMAIN questions : questions[i] = q
                                 \/ \E t \in Threads : item[t] = q

\* Whatever handlers other parts construct and drop between two looks at s_count:
\* while constructing a backend takes no longer than the pause between two starts,
\* question() drives the number of threads, and of backends left behind by threads
\* that ended in the callback, no more than two above the configured number, but
\* for one more with each increment of s_count that was lost (distributor.hh:275-291,
\* packethandler.cc:57).  A lost decrement, or a backend left behind, makes it
\* start fewer, never more.
ThreadsBounded ==
    MaxBuild <= RespawnAfter => Cardinality(Alive) + leaked <= NumThreads + 2 + missed

\* As long as a thread with a backend remains, every question is dealt with.
QuestionsDealtWith ==
    \A q \in Questions :
        fate[q] = "queued" ~> \/ fate[q] # "queued"
                              \/ ~running
                              \/ Alive = {}
=============================================================================

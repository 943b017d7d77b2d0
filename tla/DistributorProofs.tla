------------------------- MODULE DistributorProofs -------------------------
(***************************************************************************)
(* Proofs about Distributor, for any number of questions, threads and       *)
(* backends and any limits: a thread that was let through the semaphore     *)
(* always finds a question, each question is in one place, and question()   *)
(* does not start more threads than it means to, whatever other parts of    *)
(* the server add to its count of backends, but for the increments lost.    *)
(***************************************************************************)
EXTENDS Distributor, FiniteSetTheorems, TLAPS

Granted == {t \in Threads : thread[t] = "granted"}
Constructed == {t \in Threads : thread[t] \notin {"none", "starting"}}

\* Every question in the queue has its count: in the semaphore, with a thread on
\* its way to the queue, or not posted yet.
Counted ==
    Len(questions) = sem + Cardinality(Granted) + (IF asker.pc = "pushed" THEN 1 ELSE 0)

\* A thread has a question while it works on it.
ItemsWorked == \A t \in Threads : item[t] # NoQuestion <=> thread[t] = "working"

\* No backend is under construction for a shorter time than has passed since the
\* last start.
StartedBefore == \A t \in Threads : thread[t] = "starting" => build[t] >= since

Inv == TypeOK /\ OnePlace /\ Counted /\ ItemsWorked /\ StartedBefore /\ ThreadsBounded

-----------------------------------------------------------------------------
(* Facts about the sets of threads.                                          *)

\* The sets of threads are finite.
LEMMA Finite ==
    /\ IsFiniteSet(Threads) /\ IsFiniteSet(Granted) /\ IsFiniteSet(Constructed)
    /\ IsFiniteSet(Alive)
    /\ Cardinality(Granted) \in Nat /\ Cardinality(Constructed) \in Nat
    /\ Cardinality(Alive) \in Nat
<1>1. IsFiniteSet(Threads)
  BY PoolAssumption
<1>2. IsFiniteSet(Granted) /\ IsFiniteSet(Constructed) /\ IsFiniteSet(Alive)
  BY <1>1, FS_Subset DEF Granted, Constructed, Alive
<1> QED
  BY <1>1, <1>2, FS_CardinalityType

\* The limits are numbers.
LEMMA Limits ==
    /\ NumThreads \in Nat /\ MaxOthers \in Nat /\ MaxRaces \in Nat
    /\ CheckEvery \in Nat /\ CheckEvery > 0
    /\ RespawnAfter \in Nat /\ MaxBuild \in Nat /\ MaxQueue \in Nat
BY PoolAssumption, CountAssumption, LimitsAssumption

\* A lost update of s_count, or one that was not lost, keeps the types of the
\* history of losses (PacketHandler::PacketHandler, ~PacketHandler).
LEMMA CountTypes ==
    ASSUME TypeOK,
           \/ CountUp /\ UNCHANGED stuck
           \/ CountDown /\ UNCHANGED missed
           \/ UNCHANGED <<missed, stuck>>
    PROVE  /\ missed' \in Nat /\ stuck' \in Nat /\ missed' + stuck' <= MaxRaces
           /\ missed \in Nat /\ missed <= missed'
<1>1. missed \in Nat /\ stuck \in Nat /\ missed + stuck <= MaxRaces
  BY DEF TypeOK
<1>2. \/ missed' = missed /\ stuck' = stuck
      \/ missed + stuck < MaxRaces /\ missed' = missed + 1 /\ stuck' = stuck
      \/ missed + stuck < MaxRaces /\ missed' = missed /\ stuck' = stuck + 1
  BY DEF CountUp, CountDown
<1> QED
  BY <1>1, <1>2, Limits

\* What the step of one thread from one state to another does to the numbers of
\* threads that are alive and that were let through the semaphore (makeThread).
LEMMA CountsAfter ==
    ASSUME TypeOK, NEW t \in Threads, NEW to, thread[t] # to,
           thread' = [thread EXCEPT ![t] = to]
    PROVE  /\ Cardinality(Granted') = IF to = "granted" THEN Cardinality(Granted) + 1
                                      ELSE IF thread[t] = "granted" THEN Cardinality(Granted) - 1
                                      ELSE Cardinality(Granted)
           /\ Cardinality(Alive') = IF to = "none" THEN Cardinality(Alive) - 1
                                    ELSE IF thread[t] = "none" THEN Cardinality(Alive) + 1
                                    ELSE Cardinality(Alive)
<1>1. thread'[t] = to /\ \A u \in Threads \ {t} : thread'[u] = thread[u]
  BY DEF TypeOK
<1>2. Granted' = IF to = "granted" THEN Granted \cup {t} ELSE Granted \ {t}
  BY <1>1 DEF Granted
<1>3. Alive' = IF to = "none" THEN Alive \ {t} ELSE Alive \cup {t}
  BY <1>1 DEF Alive
<1>4. (t \in Granted <=> thread[t] = "granted") /\ (t \in Alive <=> thread[t] # "none")
  BY DEF Granted, Alive
<1>5. /\ Cardinality(Granted \cup {t}) = IF t \in Granted THEN Cardinality(Granted)
                                         ELSE Cardinality(Granted) + 1
      /\ Cardinality(Granted \ {t}) = IF t \in Granted THEN Cardinality(Granted) - 1
                                      ELSE Cardinality(Granted)
      /\ Cardinality(Alive \cup {t}) = IF t \in Alive THEN Cardinality(Alive)
                                       ELSE Cardinality(Alive) + 1
      /\ Cardinality(Alive \ {t}) = IF t \in Alive THEN Cardinality(Alive) - 1
                                    ELSE Cardinality(Alive)
  BY Finite, FS_AddElement, FS_RemoveElement
<1>6. CASE to = "granted"
  BY <1>2, <1>3, <1>4, <1>5, <1>6
<1>7. CASE to = "none"
  BY <1>2, <1>3, <1>4, <1>5, <1>7
<1>8. CASE to # "granted" /\ to # "none"
  BY <1>2, <1>3, <1>4, <1>5, <1>8
<1> QED
  BY <1>6, <1>7, <1>8

-----------------------------------------------------------------------------
(* question().                                                               *)

\* A missing thread is started only when no backend is under construction, so
\* the threads and the backends left behind are among those that numRunning
\* counts, but for the increments that were lost; what others have, and the
\* decrements that were lost, only make the count larger.
LEMMA StartKeepsBound ==
    ASSUME Inv, MissesThread, MaxBuild <= RespawnAfter, NEW t \in Threads \ Alive,
           thread' = [thread EXCEPT ![t] = "starting"]
    PROVE  Cardinality(Alive') + leaked <= NumThreads + 2 + missed
<1>1. /\ since > RespawnAfter
      /\ Cardinality(Constructed) + others + leaked - missed + stuck < NumThreads + 2
  BY DEF MissesThread, numRunning, Constructed
<1>5. others \in Nat /\ leaked \in Nat /\ missed \in Nat /\ stuck \in Nat
  BY Limits DEF Inv, TypeOK
<1>2. \A u \in Threads : thread[u] # "starting"
  <2> SUFFICES ASSUME NEW u \in Threads, thread[u] = "starting" PROVE FALSE
    OBVIOUS
  <2>1. build[u] >= since /\ build[u] \in 0..MaxBuild /\ since \in Nat
    BY Limits DEF Inv, StartedBefore, TypeOK
  <2> QED
    BY <1>1, <2>1, Limits
<1>3. Alive = Constructed
  BY <1>2 DEF Alive, Constructed
<1>4. Cardinality(Alive') = Cardinality(Alive) + 1
  <2>1. thread[t] = "none" /\ t \in Threads /\ TypeOK
    BY DEF Alive, Inv
  <2> QED
    BY <2>1, CountsAfter
<1> QED
  BY <1>1, <1>3, <1>4, <1>5, Finite, Limits

\* question() up to the push.
LEMMA AskStep ==
    ASSUME Inv, NEW q \in Questions, Ask(q)
    PROVE  Inv'
<1>1. /\ running /\ asker = AskerIdle /\ fate[q] = "new"
      /\ questions' = Append(questions, q) /\ nextid' = nextid + 1
      /\ asker' = [pc |-> "pushed", q |-> q] /\ fate' = [fate EXCEPT ![q] = "queued"]
      /\ UNCHANGED <<sem, item, build, running>> /\ UNCHANGED <<others, leaked, missed, stuck>>
  BY DEF Ask, counts
<1>2. TypeOK /\ questions \in Seq(Questions)
  BY DEF Inv, TypeOK
<1>3. /\ questions' \in Seq(Questions) /\ Len(questions') = Len(questions) + 1
      /\ \A i \in DOMAIN questions : questions'[i] = questions[i]
      /\ questions'[Len(questions) + 1] = q
      /\ DOMAIN questions' = DOMAIN questions \cup {Len(questions) + 1}
  BY <1>1, <1>2
<1>4. \/ UNCHANGED <<since, thread>>
      \/ /\ since' = 0 /\ MissesThread
         /\ \E t \in Threads \ Alive : thread' = [thread EXCEPT ![t] = "starting"]
  <2>1. Alive # Threads => Fresh \in Threads \ Alive
    BY DEF Alive, Fresh
  <2> QED
    BY <2>1 DEF Ask
<1>5. nextid' \in Nat
  BY <1>1, <1>2, Limits DEF TypeOK
<1>6. TypeOK'
  <2>1. thread' \in [Threads -> {"none", "starting", "waiting", "granted", "working"}]
    BY <1>2, <1>4 DEF TypeOK
  <2>2. since' \in 0..(RespawnAfter + 1)
    BY <1>2, <1>4, Limits DEF TypeOK
  <2>3. asker' \in [pc : {"idle", "pushed", "posted"}, q : Questions \cup {NoQuestion}]
    BY <1>1
  <2>4. fate' \in [Questions -> {"new", "queued", "answered", "timedout", "failed"}]
    BY <1>1, <1>2 DEF TypeOK
  <2> QED
    BY <1>1, <1>2, <1>3, <1>5, <2>1, <2>2, <2>3, <2>4 DEF TypeOK
<1>7. OnePlace'
  <2>1. /\ \A i \in DOMAIN questions : questions[i] # q
        /\ \A t \in Threads : item[t] # q
    BY <1>1 DEF Inv, OnePlace
  <2>2. \A i, j \in DOMAIN questions' : i # j => questions'[i] # questions'[j]
    BY <1>3, <2>1 DEF Inv, OnePlace
  <2>3. \A t \in Threads, i \in DOMAIN questions' : item'[t] # questions'[i]
    BY <1>1, <1>3, <2>1 DEF Inv, OnePlace
  <2>4. \A t, u \in Threads : t # u /\ item'[t] = item'[u] => item'[t] = NoQuestion
    BY <1>1 DEF Inv, OnePlace
  <2>5. ASSUME NEW x \in Questions
        PROVE  fate'[x] = "queued" <=> \/ \E i \in DOMAIN questions' : questions'[i] = x
                                       \/ \E t \in Threads : item'[t] = x
    <3>1. CASE x = q
      BY <1>1, <1>2, <1>3, <3>1 DEF TypeOK
    <3>2. CASE x # q
      <4>1. fate'[x] = fate[x]
        BY <1>1, <1>2, <3>2 DEF TypeOK
      <4>2. (\E i \in DOMAIN questions' : questions'[i] = x)
              <=> (\E i \in DOMAIN questions : questions[i] = x)
        BY <1>3, <3>2
      <4> QED
        BY <1>1, <4>1, <4>2 DEF Inv, OnePlace
    <3> QED
      BY <3>1, <3>2
  <2> QED
    BY <2>2, <2>3, <2>4, <2>5 DEF OnePlace
<1>8. Counted'
  <2>1. Granted' = Granted
    BY <1>2, <1>4 DEF Granted, Alive, TypeOK
  <2>2. sem \in Nat /\ Len(questions) = sem + Cardinality(Granted)
    <3>1. asker.pc = "idle"
      BY <1>1 DEF AskerIdle
    <3> QED
      BY <1>2, <3>1, Finite DEF Inv, Counted, TypeOK
  <2>3. Cardinality(Granted') = Cardinality(Granted)
    BY <2>1
  <2> QED
    BY <1>1, <1>3, <2>2, <2>3, Finite DEF Counted
<1>9. ItemsWorked'
  BY <1>1, <1>2, <1>4 DEF Inv, ItemsWorked, Alive, TypeOK
<1>10. StartedBefore'
  <2>1. CASE UNCHANGED <<since, thread>>
    BY <1>1, <2>1 DEF Inv, StartedBefore
  <2>2. CASE since' = 0
    BY <1>1, <1>2, <2>2, Limits DEF StartedBefore, TypeOK
  <2> QED
    BY <1>4, <2>1, <2>2
<1>11. ThreadsBounded'
  <2>1. CASE UNCHANGED thread
    BY <1>1, <2>1 DEF Inv, ThreadsBounded, Alive
  <2>2. CASE MissesThread /\ \E t \in Threads \ Alive : thread' = [thread EXCEPT ![t] = "starting"]
    BY <1>1, <2>2, StartKeepsBound DEF ThreadsBounded
  <2> QED
    BY <1>4, <2>1, <2>2
<1> QED
  BY <1>6, <1>7, <1>8, <1>9, <1>10, <1>11 DEF Inv

\* question() after the push.
LEMMA PostStep ==
    ASSUME Inv, PostQuestion \/ CheckQueue
    PROVE  Inv'
<1>1. /\ UNCHANGED <<questions, nextid, since, thread, item, build, fate>>
      /\ UNCHANGED <<others, leaked, missed, stuck>>
  BY DEF PostQuestion, CheckQueue, counts
<1>2. TypeOK
  BY DEF Inv
<1>3. CASE PostQuestion
  <2>1. /\ asker.pc = "pushed" /\ sem' = sem + 1 /\ asker' = [asker EXCEPT !.pc = "posted"]
        /\ UNCHANGED running
    BY <1>3 DEF PostQuestion
  <2>2. asker' \in [pc : {"idle", "pushed", "posted"}, q : Questions \cup {NoQuestion}]
        /\ asker'.pc = "posted"
    BY <1>2, <2>1 DEF TypeOK
  <2>3. TypeOK'
    BY <1>1, <1>2, <2>1, <2>2 DEF TypeOK
  <2>4. Counted'
    <3>1. sem \in Nat /\ Len(questions) = sem + Cardinality(Granted) + 1
      BY <1>2, <2>1 DEF Inv, Counted, TypeOK
    <3>2. Cardinality(Granted') = Cardinality(Granted)
      BY <1>1 DEF Granted
    <3> QED
      BY <1>1, <2>1, <2>2, <3>1, <3>2, Finite DEF Counted
  <2> QED
    BY <1>1, <2>3, <2>4 DEF Inv, OnePlace, ItemsWorked, StartedBefore, ThreadsBounded, Alive
<1>4. CASE CheckQueue
  <2>1. asker.pc = "posted" /\ asker' = AskerIdle /\ UNCHANGED sem /\ running' \in BOOLEAN
    BY <1>4 DEF CheckQueue
  <2>2. AskerIdle \in [pc : {"idle", "pushed", "posted"}, q : Questions \cup {NoQuestion}]
        /\ AskerIdle.pc = "idle"
    BY DEF AskerIdle
  <2>3. TypeOK'
    BY <1>1, <1>2, <2>1, <2>2 DEF TypeOK
  <2>4. Counted'
    BY <1>1, <2>1, <2>2 DEF Inv, Counted, Granted
  <2> QED
    BY <1>1, <2>3, <2>4 DEF Inv, OnePlace, ItemsWorked, StartedBefore, ThreadsBounded, Alive
<1> QED
  BY <1>3, <1>4

-----------------------------------------------------------------------------
(* makeThread.                                                               *)

\* What a step of one thread does, apart from the queue.
LEMMA ThreadMoved ==
    ASSUME Inv, NEW t \in Threads, NEW from, NEW to, Step(t, from, to), from # to,
           to \in {"none", "waiting", "granted", "working"}, from # "none",
           missed' \in Nat, missed <= missed',
           leaked' = leaked \/ (leaked' = leaked + 1 /\ to = "none")
    PROVE  /\ thread' \in [Threads -> {"none", "starting", "waiting", "granted", "working"}]
           /\ thread[t] = from /\ thread'[t] = to
           /\ \A u \in Threads \ {t} : thread'[u] = thread[u]
           /\ ThreadsBounded'
           /\ UNCHANGED <<since, build>> => StartedBefore'
<1>1. TypeOK /\ thread[t] = from /\ thread' = [thread EXCEPT ![t] = to]
  BY DEF Inv, Step
<1>2. /\ thread' \in [Threads -> {"none", "starting", "waiting", "granted", "working"}]
      /\ thread'[t] = to /\ \A u \in Threads \ {t} : thread'[u] = thread[u]
  BY <1>1 DEF TypeOK
<1>3. ThreadsBounded'
  <2>1. Cardinality(Alive') = IF to = "none" THEN Cardinality(Alive) - 1 ELSE Cardinality(Alive)
    BY <1>1, CountsAfter
  <2>2. leaked \in Nat /\ missed \in Nat
    BY <1>1 DEF TypeOK
  <2>3. /\ Cardinality(Alive') + leaked' <= Cardinality(Alive) + leaked
        /\ Cardinality(Alive') + leaked' \in Int
    BY <2>1, <2>2, Finite
  <2> QED
    BY <2>2, <2>3, Finite, Limits DEF Inv, ThreadsBounded
<1>4. UNCHANGED <<since, build>> => StartedBefore'
  BY <1>2 DEF Inv, StartedBefore
<1> QED
  BY <1>1, <1>2, <1>3, <1>4

\* The backend is there, or its constructor threw.
LEMMA ConstructStep ==
    ASSUME Inv, NEW t \in Threads, Construct(t)
    PROVE  Inv'
<1>1. PICK to \in {"waiting", "none"} : Step(t, "starting", to)
  BY DEF Construct
<1>2. /\ build' = [build EXCEPT ![t] = 0]
      /\ UNCHANGED <<questions, sem, nextid, since, asker, item, others, leaked, stuck, fate,
                     running>>
  BY DEF Construct
<1>8. CountUp \/ UNCHANGED missed
  BY DEF Construct
<1>9. /\ missed' \in Nat /\ stuck' \in Nat /\ missed' + stuck' <= MaxRaces
      /\ missed <= missed'
  BY <1>2, <1>8, CountTypes DEF Inv
<1>3. /\ thread' \in [Threads -> {"none", "starting", "waiting", "granted", "working"}]
      /\ thread[t] = "starting" /\ thread'[t] = to
      /\ \A u \in Threads \ {t} : thread'[u] = thread[u]
      /\ ThreadsBounded'
  BY <1>1, <1>2, <1>9, ThreadMoved
<1>4. TypeOK'
  <2>1. build' \in [Threads -> 0..MaxBuild]
    BY <1>2, Limits DEF Inv, TypeOK
  <2> QED
    BY <1>2, <1>3, <1>9, <2>1 DEF Inv, TypeOK
<1>5. StartedBefore'
  BY <1>2, <1>3 DEF Inv, StartedBefore, TypeOK
<1>6. Counted'
  <2>1. Granted' = Granted
    BY <1>3 DEF Granted
  <2> QED
    BY <1>2, <2>1 DEF Inv, Counted
<1>7. OnePlace' /\ ItemsWorked'
  BY <1>2, <1>3 DEF Inv, OnePlace, ItemsWorked
<1> QED
  BY <1>3, <1>4, <1>5, <1>6, <1>7 DEF Inv

\* numquestions.wait() returns: the count moves from the semaphore to the thread.
LEMMA TakeStep ==
    ASSUME Inv, NEW t \in Threads, Take(t)
    PROVE  Inv'
<1>1. /\ sem > 0 /\ sem' = sem - 1 /\ Step(t, "waiting", "granted")
      /\ UNCHANGED <<questions, nextid, since, asker, item, build, fate, running>>
      /\ UNCHANGED <<others, leaked, missed, stuck>>
  BY DEF Take, counts
<1>6. missed' \in Nat /\ missed <= missed'
  BY <1>1 DEF Inv, TypeOK
<1>2. /\ thread' \in [Threads -> {"none", "starting", "waiting", "granted", "working"}]
      /\ thread[t] = "waiting" /\ thread'[t] = "granted"
      /\ \A u \in Threads \ {t} : thread'[u] = thread[u]
      /\ ThreadsBounded' /\ StartedBefore'
  BY <1>1, <1>6, ThreadMoved
<1>3. TypeOK'
  BY <1>1, <1>2 DEF Inv, TypeOK
<1>4. Counted'
  <2>1. Cardinality(Granted') = Cardinality(Granted) + 1
    BY <1>1, <1>2, CountsAfter DEF Inv, Step
  <2>2. sem \in Nat
    BY DEF Inv, TypeOK
  <2> QED
    BY <1>1, <2>1, <2>2, Finite DEF Inv, Counted
<1>5. OnePlace' /\ ItemsWorked'
  BY <1>1, <1>2 DEF Inv, OnePlace, ItemsWorked
<1> QED
  BY <1>2, <1>3, <1>4, <1>5 DEF Inv

\* A thread that was let through finds a question.
LEMMA GrantedFinds ==
    ASSUME Inv, NEW t \in Threads, thread[t] = "granted"
    PROVE  questions # <<>>
<1>1. t \in Granted
  BY DEF Granted
<1>2. Cardinality(Granted) # 0
  BY <1>1, Finite, FS_EmptySet
<1>3. sem \in Nat /\ questions \in Seq(Questions)
  BY DEF Inv, TypeOK
<1>4. Len(questions) # 0
  BY <1>2, <1>3, Finite DEF Inv, Counted
<1> QED
  BY <1>3, <1>4

\* front() and pop(): the question moves from the queue to the thread.
LEMMA FetchStep ==
    ASSUME Inv, NEW t \in Threads, Fetch(t)
    PROVE  Inv'
<1>1. /\ Step(t, "granted", "working") /\ thread[t] = "granted"
      /\ item' = [item EXCEPT ![t] = Head(questions)] /\ questions' = Tail(questions)
      /\ UNCHANGED <<sem, nextid, since, asker, build, fate, running>>
      /\ UNCHANGED <<others, leaked, missed, stuck>>
  BY DEF Fetch, Step, counts
<1>10. missed' \in Nat /\ missed <= missed'
  BY <1>1 DEF Inv, TypeOK
<1>2. /\ thread' \in [Threads -> {"none", "starting", "waiting", "granted", "working"}]
      /\ thread'[t] = "working"
      /\ \A u \in Threads \ {t} : thread'[u] = thread[u]
      /\ ThreadsBounded' /\ StartedBefore'
  BY <1>1, <1>10, ThreadMoved
<1>3. TypeOK /\ questions \in Seq(Questions) /\ questions # <<>> /\ item[t] = NoQuestion
  BY <1>1, GrantedFinds DEF Inv, TypeOK, ItemsWorked
<1>4. /\ Head(questions) = questions[1] /\ questions[1] \in Questions /\ 1 \in DOMAIN questions
      /\ questions' \in Seq(Questions) /\ Len(questions') = Len(questions) - 1
      /\ \A i \in DOMAIN questions' : i + 1 \in DOMAIN questions /\ i + 1 # 1
                                      /\ questions'[i] = questions[i + 1]
      /\ \A i \in DOMAIN questions : i # 1 => i - 1 \in DOMAIN questions'
                                              /\ questions'[i - 1] = questions[i]
  BY <1>1, <1>3
<1>5. /\ item'[t] = questions[1] /\ \A u \in Threads \ {t} : item'[u] = item[u]
      /\ item' \in [Threads -> Questions \cup {NoQuestion}]
  BY <1>1, <1>3, <1>4 DEF TypeOK
<1>6. TypeOK'
  BY <1>1, <1>2, <1>3, <1>4, <1>5 DEF TypeOK
<1>7. OnePlace'
  <2>1. \A i, j \in DOMAIN questions : i # j => questions[i] # questions[j]
    BY DEF Inv, OnePlace
  <2>2. \A i, j \in DOMAIN questions' : i # j => questions'[i] # questions'[j]
    <3> SUFFICES ASSUME NEW i \in DOMAIN questions', NEW j \in DOMAIN questions', i # j
                 PROVE  questions'[i] # questions'[j]
      OBVIOUS
    <3>1. i \in Int /\ j \in Int /\ i + 1 # j + 1
      BY <1>4
    <3> QED
      BY <1>4, <2>1, <3>1
  <2>3. \A u \in Threads, i \in DOMAIN questions' : item'[u] # questions'[i]
    <3> SUFFICES ASSUME NEW u \in Threads, NEW i \in DOMAIN questions'
                 PROVE  item'[u] # questions'[i]
      OBVIOUS
    <3>1. CASE u = t
      <4>1. i + 1 \in DOMAIN questions /\ 1 \in DOMAIN questions /\ i + 1 # 1
        BY <1>4
      <4>2. questions[i + 1] # questions[1]
        BY <2>1, <4>1
      <4> QED
        BY <1>4, <1>5, <3>1, <4>2
    <3>2. CASE u # t
      BY <1>4, <1>5, <3>2 DEF Inv, OnePlace
    <3> QED
      BY <3>1, <3>2
  <2>4. \A u, v \in Threads : u # v /\ item'[u] = item'[v] => item'[u] = NoQuestion
    <3>1. \A u \in Threads : item[u] # questions[1]
      BY <1>4 DEF Inv, OnePlace
    <3> QED
      BY <1>5, <3>1 DEF Inv, OnePlace
  <2>5. ASSUME NEW q \in Questions
        PROVE  fate'[q] = "queued" <=> \/ \E i \in DOMAIN questions' : questions'[i] = q
                                       \/ \E u \in Threads : item'[u] = q
    <3>1. fate[q] = "queued" <=> \/ \E i \in DOMAIN questions : questions[i] = q
                                 \/ \E u \in Threads : item[u] = q
      BY DEF Inv, OnePlace
    <3>2. (\E i \in DOMAIN questions : questions[i] = q)
             <=> (\E i \in DOMAIN questions' : questions'[i] = q) \/ questions[1] = q
      <4>1. ASSUME NEW i \in DOMAIN questions, questions[i] = q, questions[1] # q
            PROVE  \E j \in DOMAIN questions' : questions'[j] = q
        <5>1. i - 1 \in DOMAIN questions' /\ questions'[i - 1] = questions[i]
          BY <1>4, <4>1
        <5> QED
          BY <4>1, <5>1
      <4>2. ASSUME NEW i \in DOMAIN questions', questions'[i] = q
            PROVE  \E j \in DOMAIN questions : questions[j] = q
        <5>1. i + 1 \in DOMAIN questions /\ questions'[i] = questions[i + 1]
          BY <1>4
        <5> QED
          BY <4>2, <5>1
      <4> QED
        BY <1>4, <4>1, <4>2
    <3>3. (\E u \in Threads : item'[u] = q)
             <=> (\E u \in Threads : item[u] = q) \/ questions[1] = q
      <4>1. q # NoQuestion
        BY QuestionAssumption
      <4> QED
        BY <1>3, <1>5, <4>1
    <3> QED
      BY <1>1, <3>1, <3>2, <3>3
  <2> QED
    BY <2>2, <2>3, <2>4, <2>5 DEF OnePlace
<1>8. Counted'
  <2>1. Cardinality(Granted') = Cardinality(Granted) - 1
    BY <1>1, <1>3, CountsAfter DEF Step
  <2>2. sem \in Nat /\ Len(questions) \in Nat
    BY <1>3 DEF TypeOK
  <2> QED
    BY <1>1, <1>4, <2>1, <2>2, Finite DEF Inv, Counted
<1>9. ItemsWorked'
  <2>1. item'[t] # NoQuestion
    BY <1>4, <1>5, QuestionAssumption
  <2> QED
    BY <1>2, <1>5, <2>1 DEF Inv, ItemsWorked
<1> QED
  BY <1>2, <1>6, <1>7, <1>8, <1>9 DEF Inv

\* The question is answered, dropped or lost, and leaves the thread.
LEMMA WorkStep ==
    ASSUME Inv, NEW t \in Threads, Work(t)
    PROVE  Inv'
<1>1. PICK to \in {"waiting", "none"}, end \in {"timedout", "answered", "failed"} :
         /\ Step(t, "working", to) /\ fate' = [fate EXCEPT ![item[t]] = end]
         /\ leaked' = leaked \/ (leaked' = leaked + 1 /\ to = "none")
  BY DEF Work, counts
<1>10. UNCHANGED <<others, missed>> /\ (UNCHANGED stuck \/ CountDown)
  BY DEF Work, counts
<1>11. /\ missed' \in Nat /\ stuck' \in Nat /\ missed' + stuck' <= MaxRaces
       /\ missed <= missed' /\ leaked' \in Nat
  <2>1. leaked \in Nat
    BY DEF Inv, TypeOK
  <2> QED
    BY <1>1, <1>10, <2>1, CountTypes DEF Inv
<1>2. /\ item' = [item EXCEPT ![t] = NoQuestion]
      /\ UNCHANGED <<questions, sem, nextid, since, asker, build, running>>
  BY DEF Work
<1>3. /\ thread' \in [Threads -> {"none", "starting", "waiting", "granted", "working"}]
      /\ thread[t] = "working" /\ thread'[t] = to
      /\ \A u \in Threads \ {t} : thread'[u] = thread[u]
      /\ ThreadsBounded' /\ StartedBefore'
  BY <1>1, <1>2, <1>11, ThreadMoved
<1>4. TypeOK /\ item[t] \in Questions
  BY <1>3 DEF Inv, ItemsWorked, TypeOK
<1>5. /\ fate' \in [Questions -> {"new", "queued", "answered", "timedout", "failed"}]
      /\ fate'[item[t]] = end /\ \A q \in Questions \ {item[t]} : fate'[q] = fate[q]
      /\ item' \in [Threads -> Questions \cup {NoQuestion}]
      /\ item'[t] = NoQuestion /\ \A u \in Threads \ {t} : item'[u] = item[u]
  BY <1>1, <1>2, <1>4 DEF TypeOK
<1>6. TypeOK'
  BY <1>2, <1>3, <1>4, <1>5, <1>10, <1>11 DEF TypeOK
<1>7. OnePlace'
  <2>1. \A t2 \in Threads, i \in DOMAIN questions : item'[t2] # questions'[i]
    <3>1. \A i \in DOMAIN questions : questions[i] \in Questions
      BY <1>4 DEF TypeOK
    <3> QED
      BY <1>2, <1>5, <3>1, QuestionAssumption DEF Inv, OnePlace
  <2>2. \A u, v \in Threads : u # v /\ item'[u] = item'[v] => item'[u] = NoQuestion
    BY <1>5 DEF Inv, OnePlace
  <2>3. ASSUME NEW q \in Questions
        PROVE  fate'[q] = "queued" <=> \/ \E i \in DOMAIN questions : questions[i] = q
                                       \/ \E u \in Threads : item'[u] = q
    <3>1. CASE q = item[t]
      <4>1. \A i \in DOMAIN questions : questions[i] # q
        BY <3>1 DEF Inv, OnePlace
      <4>2. \A u \in Threads : item'[u] # q
        BY <1>4, <1>5, <3>1, QuestionAssumption DEF Inv, OnePlace
      <4> QED
        BY <1>5, <3>1, <4>1, <4>2
    <3>2. CASE q # item[t]
      <4>1. (\E u \in Threads : item'[u] = q) <=> (\E u \in Threads : item[u] = q)
        BY <1>5, <3>2, QuestionAssumption
      <4> QED
        BY <1>5, <3>2, <4>1 DEF Inv, OnePlace
    <3> QED
      BY <3>1, <3>2
  <2> QED
    BY <1>2, <2>1, <2>2, <2>3 DEF Inv, OnePlace
<1>8. Counted'
  <2>1. Granted' = Granted
    BY <1>3 DEF Granted
  <2> QED
    BY <1>2, <2>1 DEF Inv, Counted
<1>9. ItemsWorked'
  BY <1>3, <1>5 DEF Inv, ItemsWorked
<1> QED
  BY <1>3, <1>6, <1>7, <1>8, <1>9 DEF Inv

\* A second passes for question() and for every backend under construction.
LEMMA TickStep ==
    ASSUME Inv, Tick
    PROVE  Inv'
<1>1. /\ \A t \in Threads : thread[t] = "starting" => build[t] < MaxBuild
      /\ since' = IF since > RespawnAfter THEN since ELSE since + 1
      /\ build' = [t \in Threads |-> IF thread[t] = "starting" THEN build[t] + 1 ELSE 0]
      /\ UNCHANGED <<questions, sem, nextid, asker, thread, item, fate, running>>
      /\ UNCHANGED <<others, leaked, missed, stuck>>
  BY DEF Tick, counts
<1>2. TypeOK
  BY DEF Inv
<1>3. build' \in [Threads -> 0..MaxBuild]
  BY <1>1, <1>2, Limits DEF TypeOK
<1>4. since' \in 0..(RespawnAfter + 1)
  BY <1>1, <1>2, Limits DEF TypeOK
<1>5. TypeOK'
  BY <1>1, <1>2, <1>3, <1>4 DEF TypeOK
<1>6. StartedBefore'
  BY <1>1, <1>2, Limits DEF Inv, StartedBefore, TypeOK
<1> QED
  BY <1>1, <1>5, <1>6 DEF Inv, OnePlace, Counted, Granted, ItemsWorked, ThreadsBounded, Alive

\* Other parts construct and drop their handlers: the count changes, the pool of
\* the distributor does not (suck, notifyDomain, DLNotifyRetrieveHandler).
LEMMA OthersStep ==
    ASSUME Inv, OthersStart \/ OthersStop
    PROVE  Inv'
<1>1. /\ UNCHANGED <<questions, sem, nextid, since, asker, thread, item, build, fate, running>>
      /\ UNCHANGED leaked
  BY DEF OthersStart, OthersStop
<1>2. TypeOK
  BY DEF Inv
<1>3. others' \in 0..MaxOthers
  BY <1>2, Limits DEF OthersStart, OthersStop, TypeOK
<1>4. /\ missed' \in Nat /\ stuck' \in Nat /\ missed' + stuck' <= MaxRaces
      /\ missed \in Nat /\ missed <= missed'
  BY <1>2, CountTypes DEF OthersStart, OthersStop
<1>5. TypeOK'
  BY <1>1, <1>2, <1>3, <1>4 DEF TypeOK
<1>6. ThreadsBounded'
  <2>1. Cardinality(Alive') = Cardinality(Alive) /\ leaked \in Nat
    BY <1>1, <1>2 DEF Alive, TypeOK
  <2> QED
    BY <1>1, <1>4, <2>1, Finite, Limits DEF Inv, ThreadsBounded
<1> QED
  BY <1>1, <1>5, <1>6 DEF Inv, OnePlace, Counted, Granted, ItemsWorked, StartedBefore

-----------------------------------------------------------------------------
(* The theorems.                                                             *)

\* The inductive invariant holds in every behaviour.
THEOREM Invariant == Spec => []Inv
<1>1. Init => Inv
  <2> SUFFICES ASSUME Init PROVE Inv
    OBVIOUS
  <2>1. /\ First \subseteq Threads /\ Cardinality(First) = NumThreads
        /\ thread = [t \in Threads |-> IF t \in First THEN "starting" ELSE "none"]
    BY PoolAssumption DEF Init
  <2>2. /\ questions = <<>> /\ sem = 0 /\ nextid = 0 /\ since = 0 /\ asker = AskerIdle
        /\ item = [t \in Threads |-> NoQuestion] /\ build = [t \in Threads |-> 0]
        /\ others = 0 /\ leaked = 0 /\ missed = 0 /\ stuck = 0
        /\ fate = [q \in Questions |-> "new"] /\ running = TRUE
    BY DEF Init
  <2>3. TypeOK
    <3>1. asker \in [pc : {"idle", "pushed", "posted"}, q : Questions \cup {NoQuestion}]
      BY <2>2 DEF AskerIdle
    <3>2. questions \in Seq(Questions) /\ build \in [Threads -> 0..MaxBuild]
          /\ since \in 0..(RespawnAfter + 1) /\ others \in 0..MaxOthers
          /\ missed + stuck <= MaxRaces
      BY <2>2, Limits
    <3> QED
      BY <2>1, <2>2, <3>1, <3>2 DEF TypeOK
  <2>4. OnePlace
    <3>1. DOMAIN questions = {}
      BY <2>2
    <3> QED
      BY <2>2, <3>1, QuestionAssumption DEF OnePlace
  <2>5. Counted
    <3>1. Granted = {}
      BY <2>1 DEF Granted
    <3>2. Cardinality(Granted) = 0
      BY <3>1, FS_EmptySet
    <3>3. asker.pc = "idle" /\ Len(questions) = 0
      BY <2>2 DEF AskerIdle
    <3> QED
      BY <2>2, <3>2, <3>3 DEF Counted
  <2>6. ItemsWorked /\ StartedBefore
    BY <2>1, <2>2 DEF ItemsWorked, StartedBefore
  <2>7. ThreadsBounded
    <3>1. Alive = First
      BY <2>1 DEF Alive
    <3> QED
      BY <2>1, <2>2, <3>1, Limits DEF ThreadsBounded
  <2> QED
    BY <2>3, <2>4, <2>5, <2>6, <2>7 DEF Inv
<1>2. ASSUME Inv, [Next]_vars PROVE Inv'
  <2>1. CASE UNCHANGED vars
    <3>1. TypeOK' /\ ItemsWorked' /\ StartedBefore'
      BY <1>2, <2>1 DEF vars, counts, Inv, TypeOK, ItemsWorked, StartedBefore
    <3>2. OnePlace'
      BY <1>2, <2>1 DEF vars, Inv, OnePlace
    <3>3. Counted' /\ ThreadsBounded'
      BY <1>2, <2>1 DEF vars, counts, Inv, Counted, Granted, ThreadsBounded, Alive
    <3> QED
      BY <3>1, <3>2, <3>3 DEF Inv
  <2> QED
    BY <1>2, <2>1, AskStep, PostStep, ConstructStep, TakeStep, FetchStep, WorkStep, TickStep,
       OthersStep
       DEF Next
<1> QED
  BY <1>1, <1>2, PTL DEF Spec

\* question() and makeThread keep the types of the distributor's state.
THEOREM TypeCorrect == Spec => []TypeOK
BY Invariant, PTL DEF Inv

\* Queue, semaphore and threads never duplicate a question or keep one that was
\* dealt with (question, makeThread).
THEOREM QuestionInOnePlace == Spec => []OnePlace
BY Invariant, PTL DEF Inv

\* question() never drives threads and backends left behind above two more than
\* configured plus the increments of s_count that were lost, whatever handlers
\* other parts of the server construct and drop, as long as a backend is
\* constructed within the pause between two starts.
THEOREM BoundedPool == Spec => []ThreadsBounded
BY Invariant, PTL DEF Inv

\* The semaphore never lets a thread through to an empty queue: front() of
\* makeThread is never undefined.
THEOREM NeverPopsEmpty == Spec => [](\A t \in Threads : thread[t] = "granted" => questions # <<>>)
<1>1. Inv => \A t \in Threads : thread[t] = "granted" => questions # <<>>
  BY GrantedFinds
<1> QED
  BY <1>1, Invariant, PTL
=============================================================================

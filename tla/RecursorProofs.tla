--------------------------- MODULE RecursorProofs ---------------------------
(***************************************************************************)
(* Proofs about the recursor: RecursorQueries, for any number of mthreads, *)
(* questions, IDs and sockets, and SyncRes, for all zones, records and     *)
(* servers that the assumptions on worlds allow.                           *)
(***************************************************************************)
EXTENDS RecursorQueries, SyncRes, SequenceTheorems, WellFoundedInduction, TLAPS

\* While the handler wakes mthreads, the waiter it has the answer for still waits,
\* and it returns the socket only once (handleUDPServerResponse).
HandlerConsistent ==
    Handling =>
        /\ kernel.key.fd # Chained
        /\ kernel.pc \in {"resend", "wake"} => \E m \in Waiting : key(m) = kernel.key
        /\ kernel.pc = "return" => ~kernel.closed

\* The inductive invariant.
Inv ==
    /\ TypeOK
    /\ OneAtATime
    /\ OneOutstanding
    /\ SocketsAccounted
    /\ ReturnIsSafe
    /\ HandlerConsistent

USE DEF key
-----------------------------------------------------------------------------
\* The types of what the handlers' steps read from the kernel's state.
LEMMA KernelType ==
    ASSUME TypeOK, Handling
    PROVE  /\ kernel \in Handler
           /\ kernel # Schedule /\ kernel # Timeouts /\ kernel # Events
  BY DEF TypeOK, Handling, Handler, Schedule, Timeouts, Events

\* A step of the kernel loop that touches neither the waiters nor the pool.
LEMMA LoopStep ==
    ASSUME Inv, ~Handling, Waiting' = Waiting,
           UNCHANGED <<waiter, socks>>,
           TypeOK', OneAtATime', ~Handling'
    PROVE  Inv'
  BY DEF Inv, OneOutstanding, SocketsAccounted, ReturnIsSafe, HandlerConsistent, Leaders,
         Severed, Returning

\* What sendEvent and the timeouts of schedule do when at most one mthread is woken.
LEMMA ResumeStep ==
    ASSUME TypeOK, OneAtATime, OneOutstanding, InKernel,
           NEW ms \in SUBSET Waiting, \A m, n \in ms : m = n,
           Resume(ms)
    PROVE  /\ state' \in [MThreads -> {"none", "ready", "running", "waiting", "zombie"}]
           /\ waiter' \in [MThreads -> Waiter \cup {NoWaiter}]
           /\ \A m \in MThreads : state'[m] = "waiting" <=> waiter'[m] # NoWaiter
           /\ Waiting' = Waiting \ ms
           /\ Leaders' = Leaders \ ms
           /\ \A m \in Waiting' : waiter'[m] = waiter[m]
           /\ OneAtATime'
           /\ OneOutstanding'
  <1>1. /\ state' \in [MThreads -> {"none", "ready", "running", "waiting", "zombie"}]
        /\ waiter' \in [MThreads -> Waiter \cup {NoWaiter}]
        /\ \A m \in MThreads : state'[m] = "waiting" <=> waiter'[m] # NoWaiter
    BY DEF TypeOK, Resume, Waiting
  <1>2. /\ Waiting' = Waiting \ ms
        /\ \A m \in Waiting' : waiter'[m] = waiter[m]
    BY DEF TypeOK, Resume, Waiting
  <1>3. Leaders' = Leaders \ ms
    BY <1>2 DEF Leaders
  <1>4. OneAtATime'
    BY <1>2 DEF OneAtATime, InKernel, Resume, TypeOK
  <1>5. OneOutstanding'
    BY <1>2, <1>3 DEF OneOutstanding, Leaders
  <1> QED BY <1>1, <1>2, <1>3, <1>4, <1>5

\* waitEvent, for a key that is new or that some mthread waits for already; g is
\* what asendto adds to the chains first.
LEMMA WaitStep ==
    ASSUME TypeOK, OneAtATime,
           NEW m \in MThreads, state[m] = "running",
           NEW k \in Key, WaitsFor(k) = {},
           NEW ws \in [MThreads -> Waiter \cup {NoWaiter}],
           \A n \in Waiting : ws[n] # NoWaiter /\ ws[n].key = waiter[n].key,
           \A n \in MThreads \ Waiting : ws[n] = waiter[n],
           WaitOn(m, k, ws)
    PROVE  /\ state' \in [MThreads -> {"none", "ready", "running", "waiting", "zombie"}]
           /\ waiter' \in [MThreads -> Waiter \cup {NoWaiter}]
           /\ \A n \in MThreads : state'[n] = "waiting" <=> waiter'[n] # NoWaiter
           /\ Waiting' = Waiting \cup {m}
           /\ \A n \in Waiting : n # m /\ waiter'[n].key = waiter[n].key
           /\ waiter'[m].key = k
           /\ OneAtATime'
  <1> DEFINE new == [key |-> k, chain |-> {}, left |-> Timeout]
  <1>1. new \in Waiter /\ new # NoWaiter
    BY BoundAssumption, NoneAssumption DEF Waiter
  <1>2. /\ state' \in [MThreads -> {"none", "ready", "running", "waiting", "zombie"}]
        /\ waiter' \in [MThreads -> Waiter \cup {NoWaiter}]
        /\ waiter'[m] = new
        /\ \A n \in MThreads : n # m => waiter'[n] = ws[n]
    BY <1>1 DEF TypeOK, WaitOn
  <1>3. Waiting' = Waiting \cup {m} /\ m \notin Waiting
    BY DEF TypeOK, WaitOn, Waiting
  <1>4. \A n \in Waiting : n # m /\ waiter'[n].key = waiter[n].key
    BY <1>2, <1>3 DEF Waiting
  <1>5. \A n \in MThreads : state'[n] = "waiting" <=> waiter'[n] # NoWaiter
    BY <1>1, <1>2, <1>3 DEF TypeOK, Waiting
  <1>6. \A n, o \in MThreads : state'[n] = "running" /\ state'[o] = "running" => n = o
    BY DEF OneAtATime, WaitOn, TypeOK
  <1>7. \A n, o \in Waiting' : waiter'[n].key = waiter'[o].key => n = o
    BY <1>2, <1>3, <1>4 DEF OneAtATime, WaitsFor
  <1> QED BY <1>2, <1>3, <1>4, <1>5, <1>6, <1>7 DEF OneAtATime
-----------------------------------------------------------------------------
\* A step that leaves the waiters with sockets, the pool and the handler alone; the
\* mthreads that start to wait are chained.
LEMMA SameLeaders ==
    ASSUME Inv, UNCHANGED <<socks, kernel>>, TypeOK', OneAtATime',
           Waiting \subseteq Waiting',
           \A n \in Waiting : waiter'[n].key = waiter[n].key,
           \A n \in Waiting' \ Waiting : waiter'[n].key.fd = Chained
    PROVE  Inv'
  <1>1. Leaders' = Leaders /\ Leaders \subseteq Waiting
    BY DEF Leaders
  <1>2. \A n \in Leaders : Severed(n)' <=> Severed(n)
    BY <1>1 DEF Severed, Handling
  <1>3. Returning' = Returning
    BY DEF Returning, Handling
  <1>4. SocketsAccounted'
    BY <1>1, <1>2, <1>3 DEF Inv, SocketsAccounted
  <1>5. OneOutstanding'
    BY <1>1 DEF Inv, OneOutstanding
  <1>6. HandlerConsistent'
    BY DEF Inv, HandlerConsistent, Handling
  <1>7. ReturnIsSafe'
    BY DEF Inv, ReturnIsSafe, HandlerConsistent, Handling
  <1> QED BY <1>4, <1>5, <1>6, <1>7 DEF Inv

\* A question that is chained onto a waiter (asendto).
LEMMA AskChainedStep ==
    ASSUME Inv, NEW m \in MThreads, NEW q \in Questions, NEW id \in Ids,
           state[m] = "running", asks' \in [MThreads -> 0..MaxAsks],
           AskChained(m, q, id), UNCHANGED kernel
    PROVE  Inv'
  <1> DEFINE k == [q |-> q, fd |-> Chained, id |-> id]
  <1>1. PICK w \in ChainsOnto(q) : waitEvent(m, k, [waiter EXCEPT ![w].chain = @ \cup {id}])
    BY DEF AskChained
  <1> DEFINE ws == [waiter EXCEPT ![w].chain = @ \cup {id}]
  <1>2. k \in Key
    BY DEF Key
  <1>3. w \in MThreads /\ w \in Waiting /\ waiter[w] \in Waiter
    BY <1>1 DEF ChainsOnto, Leaders, Waiting, Inv, TypeOK
  <1>4. [waiter[w] EXCEPT !.chain = @ \cup {id}] \in Waiter
    BY <1>3 DEF Waiter
  <1>5. /\ ws \in [MThreads -> Waiter \cup {NoWaiter}]
        /\ \A n \in Waiting : ws[n] # NoWaiter /\ ws[n].key = waiter[n].key
        /\ \A n \in MThreads \ Waiting : ws[n] = waiter[n]
    BY <1>3, <1>4, NoneAssumption DEF Inv, TypeOK, Waiting, Waiter
  <1>6. UNCHANGED <<socks, kernel>> /\ socks \subseteq Fds /\ kernel' \in {Schedule, Timeouts, Events} \cup Handler
    BY DEF AskChained, Inv, TypeOK
  <1>7. CASE WaitsFor(k) = {}
    <2>1. WaitOn(m, k, ws)
      BY <1>1, <1>7 DEF waitEvent
    <2> HIDE DEF ws, k
    <2>2. /\ state' \in [MThreads -> {"none", "ready", "running", "waiting", "zombie"}]
          /\ waiter' \in [MThreads -> Waiter \cup {NoWaiter}]
          /\ \A n \in MThreads : state'[n] = "waiting" <=> waiter'[n] # NoWaiter
          /\ Waiting' = Waiting \cup {m}
          /\ \A n \in Waiting : waiter'[n].key = waiter[n].key
          /\ waiter'[m].key = k
          /\ OneAtATime'
      BY <1>2, <1>5, <1>7, <2>1, WaitStep DEF Inv
    <2>3. TypeOK'
      BY <1>6, <2>2 DEF TypeOK
    <2> QED BY <1>6, <2>2, <2>3, SameLeaders DEF k
  <1>8. CASE WaitsFor(k) # {}
    <2>1. waiter' = ws /\ UNCHANGED state
      BY <1>1, <1>8 DEF waitEvent
    <2> HIDE DEF ws, k
    <2>2. Waiting' = Waiting /\ Waiting \subseteq MThreads
      BY <2>1 DEF Waiting
    <2>3. TypeOK'
      BY <1>5, <1>6, <2>1, <2>2 DEF Inv, TypeOK, Waiting
    <2>4. OneAtATime'
      BY <1>5, <2>1, <2>2 DEF Inv, OneAtATime
    <2> QED BY <1>5, <1>6, <2>1, <2>2, <2>3, <2>4, SameLeaders
  <1> QED BY <1>7, <1>8

\* A question that gets a socket of its own (asendto, arecvfrom).
LEMMA AskNewStep ==
    ASSUME Inv, NEW m \in MThreads, NEW q \in Questions, NEW id \in Ids,
           state[m] = "running", asks' \in [MThreads -> 0..MaxAsks],
           AskNew(m, q, id), UNCHANGED kernel
    PROVE  Inv'
  <1>1. PICK fd \in Fds \ socks :
            LET k == [q |-> q, fd |-> fd, id |-> id] IN
            /\ waitEvent(m, k, waiter)
            /\ socks' = IF WaitsFor(k) = {} THEN socks \cup {fd} ELSE socks
    BY DEF AskNew
  <1> DEFINE k == [q |-> q, fd |-> fd, id |-> id]
  <1>2. k \in Key /\ k.q = q /\ k.fd = fd /\ fd # Chained
    BY NoneAssumption DEF Key
  <1>3. waitEvent(m, k, waiter) /\ socks' = IF WaitsFor(k) = {} THEN socks \cup {fd} ELSE socks
    BY <1>1
  <1> HIDE DEF k
  <1>4. CASE WaitsFor(k) # {}
    <2>1. UNCHANGED <<state, waiter, socks>>
      BY <1>3, <1>4 DEF waitEvent
    <2>2. TypeOK' /\ OneAtATime' /\ Waiting' = Waiting
      BY <2>1 DEF Inv, TypeOK, OneAtATime, Waiting
    <2> QED BY <2>1, <2>2, SameLeaders
  <1>5. CASE WaitsFor(k) = {}
    <2>1. WaitOn(m, k, waiter) /\ socks' = socks \cup {fd}
      BY <1>3, <1>5 DEF waitEvent
    <2>2. /\ waiter \in [MThreads -> Waiter \cup {NoWaiter}]
          /\ \A n \in Waiting : waiter[n] # NoWaiter
      BY DEF Inv, TypeOK, Waiting
    <2>3. /\ state' \in [MThreads -> {"none", "ready", "running", "waiting", "zombie"}]
          /\ waiter' \in [MThreads -> Waiter \cup {NoWaiter}]
          /\ \A n \in MThreads : state'[n] = "waiting" <=> waiter'[n] # NoWaiter
          /\ Waiting' = Waiting \cup {m}
          /\ \A n \in Waiting : n # m /\ waiter'[n].key = waiter[n].key
          /\ waiter'[m].key = k
          /\ OneAtATime'
      BY <1>2, <1>5, <2>1, <2>2, WaitStep DEF Inv
    <2>4. TypeOK'
      BY <2>1, <2>3 DEF Inv, TypeOK
    <2>5. Leaders' = Leaders \cup {m} /\ Leaders \subseteq Waiting
      BY <1>2, <2>3 DEF Leaders
    <2>6. OneOutstanding'
      <3>1. \A n \in Leaders : waiter[n].key.q # q
        BY DEF AskNew, ChainsOnto
      <3> QED BY <1>2, <2>3, <2>5, <3>1 DEF Inv, OneOutstanding
    <2>7. ~Severed(m)' /\ \A n \in Leaders : Severed(n)' <=> Severed(n)
      <3>1. Handling /\ kernel.closed => \E n \in Waiting : waiter[n].key = kernel.key
        BY DEF Inv, HandlerConsistent, Handling
      <3>2. Handling /\ kernel.closed => kernel.key # k
        BY <1>5, <3>1 DEF WaitsFor
      <3> QED BY <2>3, <2>5, <3>2 DEF Severed, Handling
    <2>8. Returning' = Returning
      BY DEF Returning, Handling
    <2>9. SocketsAccounted'
      BY <1>2, <2>1, <2>3, <2>5, <2>7, <2>8 DEF Inv, SocketsAccounted
    <2>10. ReturnIsSafe'
      BY <1>2, <2>1, <2>3 DEF Inv, ReturnIsSafe, Handling
    <2>11. HandlerConsistent'
      BY <2>3 DEF Inv, HandlerConsistent, Handling
    <2> QED BY <2>3, <2>4, <2>6, <2>9, <2>10, <2>11 DEF Inv
  <1> QED BY <1>4, <1>5

\* A question of the running mthread (asyncresolve).
LEMMA AskStep ==
    ASSUME Inv, NEW m \in MThreads, NEW q \in Questions, Ask(m, q)
    PROVE  Inv'
  <1>1. asks' \in [MThreads -> 0..MaxAsks]
    BY BoundAssumption DEF Ask, Inv, TypeOK
  <1>2. CASE \E id \in Ids : AskChained(m, q, id)
    BY <1>1, <1>2, AskChainedStep DEF Ask
  <1>3. CASE \E id \in Ids : AskNew(m, q, id)
    BY <1>1, <1>3, AskNewStep DEF Ask
  <1>4. CASE AskFailed(q)
    <2>1. UNCHANGED <<state, waiter, socks, kernel>>
      BY <1>4 DEF Ask, AskFailed
    <2>2. TypeOK' /\ OneAtATime' /\ Waiting' = Waiting
      BY <1>1, <2>1 DEF Inv, TypeOK, OneAtATime, Waiting
    <2> QED BY <2>1, <2>2, SameLeaders
  <1> QED BY <1>2, <1>3, <1>4 DEF Ask

\* The steps of MTasker that wake no waiter.
LEMMA MTaskerStep ==
    ASSUME Inv, NEW m \in MThreads, Finish(m) \/ makeThread(m) \/ RunNext(m) \/ Reap(m)
    PROVE  Inv'
  <1>1. UNCHANGED <<waiter, socks, kernel>>
    BY DEF Finish, makeThread, RunNext, Reap
  <1>2. TypeOK' /\ Waiting' = Waiting
    BY BoundAssumption DEF Inv, TypeOK, Waiting, Finish, makeThread, RunNext, Reap
  <1>3. OneAtATime'
    BY <1>1, <1>2 DEF Inv, TypeOK, OneAtATime, InKernel, Finish, makeThread, RunNext, Reap
  <1> QED BY <1>1, <1>2, <1>3, SameLeaders

\* The steps of recursorThread's loop, and the clock.
LEMMA KernelStep ==
    ASSUME Inv, LookAtWaiters \/ EndSchedule \/ EndEvents
    PROVE  Inv'
  <1>1. UNCHANGED <<state, waiter, asks, socks>> /\ ~Handling /\ ~Handling'
        /\ kernel' \in {Schedule, Timeouts, Events}
    BY DEF LookAtWaiters, EndSchedule, EndEvents, Schedule, Timeouts, Events, Handling
  <1>2. TypeOK' /\ OneAtATime' /\ Waiting' = Waiting
    BY <1>1 DEF Inv, TypeOK, OneAtATime, Waiting
  <1> QED BY <1>1, <1>2, LoopStep

\* A second passes: deadlines come nearer, and nothing else changes.
LEMMA TickStep ==
    ASSUME Inv, Tick
    PROVE  Inv'
  <1>1. UNCHANGED <<state, asks, socks, kernel>> /\ Waiting' = Waiting
    BY DEF Tick, Waiting
  <1>2. \A m \in Waiting : [waiter[m] EXCEPT !.left = Less(@)] \in Waiter
    BY BoundAssumption DEF Inv, TypeOK, Waiting, Waiter, Less
  <1>3. /\ waiter' \in [MThreads -> Waiter \cup {NoWaiter}]
        /\ \A m \in Waiting : waiter'[m] \in Waiter /\ waiter'[m].key = waiter[m].key
        /\ \A m \in MThreads \ Waiting : waiter'[m] = waiter[m]
    BY <1>2 DEF Tick, Inv, TypeOK, Waiting, Waiter
  <1>4. TypeOK'
    BY <1>1, <1>3, NoneAssumption DEF Inv, TypeOK, Waiting
  <1>5. OneAtATime'
    BY <1>1, <1>3 DEF Inv, OneAtATime
  <1> QED BY <1>1, <1>3, <1>4, <1>5, SameLeaders
-----------------------------------------------------------------------------
\* A waiter whose time has come (schedule, arecvfrom).
LEMMA TimeOutStep ==
    ASSUME Inv, NEW m \in MThreads, TimeOut(m)
    PROVE  Inv'
  <1>1. m \in Waiting /\ InKernel /\ Resume({m}) /\ socks' = socks \ {waiter[m].key.fd}
        /\ UNCHANGED <<asks, kernel>> /\ ~Handling
    BY DEF TimeOut, Timeouts, Handling, Waiting, TimedOut
  <1>2. /\ state' \in [MThreads -> {"none", "ready", "running", "waiting", "zombie"}]
        /\ waiter' \in [MThreads -> Waiter \cup {NoWaiter}]
        /\ \A n \in MThreads : state'[n] = "waiting" <=> waiter'[n] # NoWaiter
        /\ Waiting' = Waiting \ {m}
        /\ Leaders' = Leaders \ {m}
        /\ \A n \in Waiting' : waiter'[n] = waiter[n]
        /\ OneAtATime'
        /\ OneOutstanding'
    BY <1>1, ResumeStep DEF Inv
  <1>3. TypeOK'
    BY <1>1, <1>2 DEF Inv, TypeOK
  <1>4. ~Handling' /\ Returning' = {} /\ Returning = {}
    BY <1>1 DEF Handling, Returning
  <1>5. (\A n \in Leaders : ~Severed(n)) /\ (\A n \in Leaders' : ~Severed(n)')
    BY <1>1, <1>4 DEF Severed
  <1>6. /\ socks = {waiter[n].key.fd : n \in Leaders}
        /\ \A n, o \in Leaders : waiter[n].key.fd = waiter[o].key.fd => n = o
    BY <1>4, <1>5 DEF Inv, SocketsAccounted
  <1>7. m \notin Leaders => waiter[m].key.fd \notin socks
    BY <1>1, NoneAssumption DEF Leaders, Inv, TypeOK
  <1>8. /\ socks' = {waiter'[n].key.fd : n \in Leaders'}
        /\ \A n, o \in Leaders' : waiter'[n].key.fd = waiter'[o].key.fd => n = o
    BY <1>1, <1>2, <1>6, <1>7 DEF Leaders
  <1>9. SocketsAccounted'
    BY <1>4, <1>5, <1>8 DEF SocketsAccounted
  <1> QED BY <1>2, <1>3, <1>4, <1>9 DEF Inv, ReturnIsSafe, HandlerConsistent

\* An error, or a packet that is too short (handleUDPServerResponse).
LEMMA ReceiveShortStep ==
    ASSUME Inv, NEW fd \in Fds, ReceiveShort(fd)
    PROVE  Inv'
  <1>1. /\ fd \in socks /\ socks' = socks \ {fd}
        /\ UNCHANGED <<state, waiter, asks>> /\ ~Handling
    BY DEF ReceiveShort, Events, Handling
  <1>2. PICK w \in Waiting : /\ waiter[w].key.fd = fd
                             /\ kernel' = Handle("resend", waiter[w].key, TRUE)
    BY DEF ReceiveShort, Registered
  <1>3. Waiting' = Waiting /\ Leaders' = Leaders /\ w \in Leaders
    BY <1>1, <1>2, NoneAssumption DEF Waiting, Leaders
  <1>4. waiter[w].key \in Key
    BY <1>2 DEF Inv, TypeOK, Waiting, Waiter
  <1>5. /\ kernel' \in Handler /\ Handling'
        /\ kernel'.key = waiter[w].key /\ kernel'.closed /\ kernel'.pc = "resend"
    BY <1>2, <1>4 DEF Handle, Handler, Handling
  <1>6. TypeOK' /\ OneAtATime'
    BY <1>1, <1>3, <1>5 DEF Inv, TypeOK, OneAtATime
  <1>7. OneOutstanding'
    BY <1>1, <1>3 DEF Inv, OneOutstanding
  <1>8. Returning' = {} /\ Returning = {}
    BY <1>1, <1>5 DEF Returning
  <1>9. \A n \in Leaders : ~Severed(n) /\ (Severed(n)' <=> n = w)
    BY <1>1, <1>2, <1>3, <1>5 DEF Severed, Inv, OneAtATime, Leaders
  <1>10. /\ socks = {waiter[n].key.fd : n \in Leaders}
         /\ \A n, o \in Leaders : waiter[n].key.fd = waiter[o].key.fd => n = o
    BY <1>8, <1>9 DEF Inv, SocketsAccounted
  <1>11. socks' = {waiter[n].key.fd : n \in Leaders \ {w}}
    BY <1>1, <1>2, <1>3, <1>10
  <1>12. SocketsAccounted'
    BY <1>1, <1>3, <1>8, <1>9, <1>10, <1>11 DEF SocketsAccounted
  <1>13. HandlerConsistent' /\ ReturnIsSafe'
    BY <1>1, <1>2, <1>3, <1>5, NoneAssumption DEF HandlerConsistent, ReturnIsSafe
  <1> QED BY <1>6, <1>7, <1>12, <1>13 DEF Inv

\* An answer somebody waits for (handleUDPServerResponse).
LEMMA ReceiveStep ==
    ASSUME Inv, NEW fd \in Fds, NEW id \in Ids, NEW q \in Questions \cup {NoQuestion},
           Receive(fd, id, q)
    PROVE  Inv'
  <1>1. UNCHANGED <<state, waiter, asks, socks>> /\ ~Handling
    BY DEF Receive, Events, Handling
  <1>2. PICK k \in PacketIDs(fd, id, q) :
            /\ WaitsFor(k) # {}
            /\ kernel' = Handle(IF q = NoQuestion THEN "wake" ELSE "resend", k, FALSE)
    BY DEF Receive
  <1>3. k.fd = fd
    BY <1>2 DEF PacketIDs
  <1>4. Waiting' = Waiting /\ Leaders' = Leaders
    BY <1>1 DEF Waiting, Leaders
  <1>5. k \in Key /\ \E m \in Waiting : waiter[m].key = k
    BY <1>2 DEF WaitsFor, Inv, TypeOK, Waiting, Waiter
  <1>6. /\ kernel' \in Handler /\ Handling'
        /\ kernel'.key = k /\ ~kernel'.closed /\ kernel'.pc \in {"resend", "wake"}
    BY <1>2, <1>5 DEF Handle, Handler, Handling
  <1>7. TypeOK' /\ OneAtATime' /\ OneOutstanding'
    BY <1>1, <1>4, <1>6 DEF Inv, TypeOK, OneAtATime, OneOutstanding
  <1>8. Returning' = Returning
    BY <1>1, <1>6 DEF Returning
  <1>9. \A n \in Leaders : Severed(n)' <=> Severed(n)
    BY <1>1, <1>6 DEF Severed
  <1>10. SocketsAccounted'
    BY <1>1, <1>4, <1>8, <1>9 DEF Inv, SocketsAccounted
  <1>11. HandlerConsistent' /\ ReturnIsSafe'
    BY <1>1, <1>3, <1>4, <1>5, <1>6, NoneAssumption DEF HandlerConsistent, ReturnIsSafe
  <1> QED BY <1>7, <1>10, <1>11 DEF Inv

\* A step of doResends: only chained mthreads are woken.
LEMMA ResendStep ==
    ASSUME Inv, Resend
    PROVE  Inv'
  <1>1. Handling /\ InKernel /\ kernel.pc = "resend" /\ UNCHANGED <<asks, socks>>
    BY DEF Resend, Handling
  <1>2. kernel \in Handler
    BY <1>1, KernelType DEF Inv
  <1>3. CASE \E id \in ToResend : /\ sendEvent(ResendKey(id))
                                  /\ kernel' = [kernel EXCEPT !.at = id]
    <2>1. PICK id \in ToResend : /\ Resume(WaitsFor(ResendKey(id)))
                                 /\ kernel' = [kernel EXCEPT !.at = id]
      BY <1>3 DEF sendEvent
    <2> DEFINE ms == WaitsFor(ResendKey(id))
    <2>2. id \in Nat
      BY IdAssumption DEF ToResend, WaitsFor, Waiting, Inv, TypeOK, Waiter
    <2>3. /\ kernel' \in Handler /\ Handling'
          /\ kernel'.key = kernel.key /\ kernel'.pc = kernel.pc /\ kernel'.closed = kernel.closed
      BY <1>1, <1>2, <2>1, <2>2 DEF Handler, Handling
    <2>4. ms \in SUBSET Waiting /\ \A m \in ms : waiter[m].key.fd = Chained
      BY DEF WaitsFor, ResendKey
    <2>5. \A m, n \in ms : m = n
      BY <2>4 DEF WaitsFor, Inv, OneAtATime
    <2> HIDE DEF ms
    <2>6. /\ state' \in [MThreads -> {"none", "ready", "running", "waiting", "zombie"}]
          /\ waiter' \in [MThreads -> Waiter \cup {NoWaiter}]
          /\ \A n \in MThreads : state'[n] = "waiting" <=> waiter'[n] # NoWaiter
          /\ Waiting' = Waiting \ ms
          /\ Leaders' = Leaders \ ms
          /\ \A n \in Waiting' : waiter'[n] = waiter[n]
          /\ OneAtATime'
          /\ OneOutstanding'
      BY <1>1, <2>1, <2>4, <2>5, ResumeStep DEF Inv, ms
    <2>7. Leaders' = Leaders /\ Leaders \subseteq Waiting'
      BY <2>4, <2>6 DEF Leaders
    <2>8. TypeOK'
      BY <1>1, <2>3, <2>6 DEF Inv, TypeOK
    <2>9. Returning' = Returning /\ \A n \in Leaders : Severed(n)' <=> Severed(n)
      BY <1>1, <2>3, <2>6, <2>7 DEF Returning, Severed
    <2>10. SocketsAccounted'
      BY <1>1, <2>6, <2>7, <2>9 DEF Inv, SocketsAccounted
    <2>11. HandlerConsistent'
      BY <1>1, <2>3, <2>4, <2>6 DEF Inv, HandlerConsistent
    <2>12. ReturnIsSafe'
      BY <1>1, <2>3 DEF ReturnIsSafe
    <2> QED BY <2>6, <2>8, <2>10, <2>11, <2>12 DEF Inv
  <1>4. CASE kernel' = [kernel EXCEPT !.pc = "wake"] /\ UNCHANGED <<state, waiter>>
    <2>1. /\ kernel' \in Handler /\ Handling'
          /\ kernel'.key = kernel.key /\ kernel'.pc = "wake" /\ kernel'.closed = kernel.closed
      BY <1>2, <1>4 DEF Handler, Handling
    <2>2. Waiting' = Waiting /\ Leaders' = Leaders
      BY <1>4 DEF Waiting, Leaders
    <2>3. TypeOK' /\ OneAtATime' /\ OneOutstanding'
      BY <1>1, <1>4, <2>1, <2>2 DEF Inv, TypeOK, OneAtATime, OneOutstanding
    <2>4. Returning' = Returning /\ \A n \in Leaders : Severed(n)' <=> Severed(n)
      BY <1>1, <1>4, <2>1 DEF Returning, Severed
    <2>5. SocketsAccounted'
      BY <1>1, <1>4, <2>2, <2>4 DEF Inv, SocketsAccounted
    <2>6. HandlerConsistent' /\ ReturnIsSafe'
      BY <1>1, <1>4, <2>1, <2>2 DEF Inv, HandlerConsistent, ReturnIsSafe
    <2> QED BY <2>3, <2>5, <2>6 DEF Inv
  <1> QED BY <1>3, <1>4 DEF Resend

\* The waiter itself is woken.
LEMMA WakeStep ==
    ASSUME Inv, Wake
    PROVE  Inv'
  <1>1. /\ Handling /\ InKernel /\ kernel.pc = "wake" /\ UNCHANGED <<asks, socks>>
        /\ kernel' = AfterWake
    BY DEF Wake, Handling
  <1>2. kernel \in Handler /\ kernel.key.fd # Chained
    BY <1>1, KernelType DEF Inv, HandlerConsistent
  <1>3. PICK w \in Waiting : waiter[w].key = kernel.key
    BY <1>1 DEF Inv, HandlerConsistent
  <1>4. WaitsFor(kernel.key) = {w} /\ w \in Leaders
    BY <1>2, <1>3 DEF WaitsFor, Leaders, Inv, OneAtATime
  <1>5. Resume({w})
    BY <1>4 DEF Wake, sendEvent
  <1>6. /\ state' \in [MThreads -> {"none", "ready", "running", "waiting", "zombie"}]
        /\ waiter' \in [MThreads -> Waiter \cup {NoWaiter}]
        /\ \A n \in MThreads : state'[n] = "waiting" <=> waiter'[n] # NoWaiter
        /\ Waiting' = Waiting \ {w}
        /\ Leaders' = Leaders \ {w}
        /\ \A n \in Waiting' : waiter'[n] = waiter[n]
        /\ OneAtATime'
        /\ OneOutstanding'
    BY <1>1, <1>3, <1>5, ResumeStep DEF Inv
  <1>7. Leaders' \subseteq Waiting' /\ \A n \in Leaders' : waiter[n].key # kernel.key
    BY <1>3, <1>6 DEF Leaders, Inv, OneAtATime
  <1>8. Returning = {}
    BY <1>1 DEF Returning
  <1>9. CASE kernel.closed
    <2>1. kernel' = Events /\ ~Handling'
      BY <1>1, <1>9 DEF AfterWake, Events, Handling
    <2>2. TypeOK'
      BY <1>1, <1>6, <2>1 DEF Inv, TypeOK
    <2>3. Returning' = {} /\ \A n \in Leaders' : ~Severed(n)'
      BY <2>1 DEF Returning, Severed
    <2>4. \A n \in Leaders : Severed(n) <=> n = w
      BY <1>1, <1>3, <1>6, <1>7, <1>9 DEF Severed
    <2>5. SocketsAccounted'
      BY <1>1, <1>6, <1>7, <1>8, <2>3, <2>4 DEF Inv, SocketsAccounted
    <2> QED BY <1>6, <2>1, <2>2, <2>5 DEF Inv, ReturnIsSafe, HandlerConsistent
  <1>10. CASE ~kernel.closed
    <2>1. /\ kernel' \in Handler /\ Handling'
          /\ kernel'.key = kernel.key /\ kernel'.pc = "return" /\ ~kernel'.closed
      BY <1>1, <1>2, <1>4, <1>10 DEF AfterWake, Handler, Handling
    <2>2. TypeOK'
      BY <1>1, <1>6, <2>1 DEF Inv, TypeOK
    <2>3. /\ Returning' = {kernel.key.fd} 
          /\ (\A n \in Leaders : ~Severed(n)) /\ (\A n \in Leaders' : ~Severed(n)')
      BY <1>10, <2>1 DEF Returning, Severed
    <2>4. /\ socks = {waiter[n].key.fd : n \in Leaders}
          /\ \A n, o \in Leaders : waiter[n].key.fd = waiter[o].key.fd => n = o
      BY <1>8, <2>3 DEF Inv, SocketsAccounted
    <2>5. socks = {waiter[n].key.fd : n \in Leaders \ {w}} \cup {waiter[w].key.fd}
      BY <1>4, <2>4
    <2>6. SocketsAccounted'
      BY <1>1, <1>3, <1>6, <1>7, <2>3, <2>4, <2>5 DEF SocketsAccounted
    <2>7. \A n \in Waiting' : waiter'[n].key.fd # kernel.key.fd
      BY <1>2, <1>3, <1>4, <1>6, <2>4 DEF Leaders
    <2>8. ReturnIsSafe'
      BY <1>1, <1>3, <2>1, <2>5, <2>7 DEF ReturnIsSafe
    <2>9. HandlerConsistent'
      BY <1>2, <2>1 DEF HandlerConsistent
    <2> QED BY <1>6, <2>2, <2>6, <2>8, <2>9 DEF Inv
  <1> QED BY <1>9, <1>10

\* The socket is returned to the pool.
LEMMA ReturnStep ==
    ASSUME Inv, Return
    PROVE  Inv'
  <1>1. /\ Handling /\ kernel.pc = "return" /\ UNCHANGED <<state, waiter, asks>>
        /\ socks' = socks \ {kernel.key.fd} /\ kernel' = Events
    BY DEF Return, Handling
  <1>2. ~Handling' /\ ~kernel.closed
    BY <1>1 DEF Handling, Events, Inv, HandlerConsistent
  <1>3. Waiting' = Waiting /\ Leaders' = Leaders /\ Leaders \subseteq Waiting
    BY <1>1 DEF Waiting, Leaders
  <1>4. TypeOK' /\ OneAtATime' /\ OneOutstanding'
    BY <1>1, <1>3 DEF Inv, TypeOK, OneAtATime, OneOutstanding
  <1>5. /\ Returning = {kernel.key.fd} /\ Returning' = {}
        /\ \A n \in Leaders : ~Severed(n) /\ ~Severed(n)'
    BY <1>1, <1>2 DEF Returning, Severed
  <1>6. \A n \in Leaders : waiter[n].key.fd # kernel.key.fd
    BY <1>1, <1>3 DEF Inv, ReturnIsSafe
  <1>7. SocketsAccounted'
    BY <1>1, <1>3, <1>5, <1>6 DEF Inv, SocketsAccounted
  <1> QED BY <1>2, <1>4, <1>7 DEF Inv, ReturnIsSafe, HandlerConsistent
-----------------------------------------------------------------------------
\* The invariant holds of every behaviour.
THEOREM Invariant == Spec => []Inv
  <1>1. Init => Inv
    BY BoundAssumption, NoneAssumption
       DEF Init, Inv, TypeOK, OneAtATime, OneOutstanding, SocketsAccounted, ReturnIsSafe,
           HandlerConsistent, Handling, Returning, Severed, Leaders, Waiting, Schedule
  <1>2. Inv /\ [Next]_vars => Inv'
    <2> SUFFICES ASSUME Inv, [Next]_vars PROVE Inv'
      OBVIOUS
    <2>1. ASSUME NEW m \in MThreads, NEW q \in Questions, Ask(m, q) PROVE Inv'
      BY <2>1, AskStep
    <2>2. ASSUME NEW m \in MThreads, Finish(m) \/ makeThread(m) \/ RunNext(m) \/ Reap(m)
          PROVE  Inv'
      BY <2>2, MTaskerStep
    <2>3. ASSUME NEW m \in MThreads, TimeOut(m) PROVE Inv'
      BY <2>3, TimeOutStep
    <2>4. ASSUME NEW fd \in Fds, ReceiveShort(fd) PROVE Inv'
      BY <2>4, ReceiveShortStep
    <2>5. ASSUME NEW fd \in Fds, NEW id \in Ids, NEW q \in Questions \cup {NoQuestion},
                 Receive(fd, id, q)
          PROVE  Inv'
      BY <2>5, ReceiveStep
    <2>6. ASSUME Resend \/ Wake \/ Return PROVE Inv'
      BY <2>6, ResendStep, WakeStep, ReturnStep
    <2>7. ASSUME LookAtWaiters \/ EndSchedule \/ EndEvents PROVE Inv'
      BY <2>7, KernelStep
    <2>8. ASSUME Tick PROVE Inv'
      BY <2>8, TickStep
    <2>9. ASSUME UNCHANGED vars PROVE Inv'
      <3>1. TypeOK' /\ OneAtATime' /\ Waiting' = Waiting
        BY <2>9 DEF vars, Inv, TypeOK, OneAtATime, Waiting
      <3> QED BY <2>9, <3>1, SameLeaders DEF vars
    <2> QED BY <2>1, <2>2, <2>3, <2>4, <2>5, <2>6, <2>7, <2>8, <2>9 DEF Next
  <1> QED BY <1>1, <1>2, PTL DEF Spec

\* The types of the mthreads' and the kernel's state.
THEOREM TypeCorrect == Spec => []TypeOK
  BY Invariant, PTL DEF Inv

\* waitEvent keeps d_waiters free of two entries with one key, whatever sendEvent,
\* the timeouts and the mthreads they wake do.
THEOREM OneWaiterPerKey == Spec => []OneAtATime
  BY Invariant, PTL DEF Inv

\* asendto never has two packets under way for a question.
THEOREM OnePacketPerQuestion == Spec => []OneOutstanding
  BY Invariant, PTL DEF Inv

\* UDPClientSocks neither leaks a socket nor loses one somebody waits on.
THEOREM NoSocketLeaks == Spec => []SocketsAccounted
  BY Invariant, PTL DEF Inv

\* returnSocket, called by handleUDPServerResponse, never throws.
THEOREM NoDoubleReturn == Spec => []ReturnIsSafe
  BY Invariant, PTL DEF Inv

-----------------------------------------------------------------------------
(***************************************************************************)
(* SyncRes: answers are right.                                             *)
(***************************************************************************)
\* Sets of zones that are in good hands: no server of theirs is careless, and the zones above
\* the names of their servers are in good hands too.
Guarded(S) ==
    \A z \in S : /\ ServedBy(z) \cap world.careless = {}
                 /\ \A ns \in world.ns[z] : Direct(ns) \subseteq S
Safe == {z \in Zones : \E S \in SUBSET Zones : z \in S /\ Guarded(S)}

\* A name of which no careless server has a say.
Sure(n) == Direct(n) \subseteq Safe

AddressesOf(n) == {x[2] : x \in {y \in world.a : y[1] = n}}

\* What may be said of a name.
TrueSet(k, recs) ==
    Sure(k.name) =>
        /\ k.type = "NS" => k.name \in Zones /\ recs \subseteq world.ns[k.name]
        /\ k.type = "A" => recs = AddressesOf(k.name)
        /\ k.type = "CNAME" => recs \subseteq Aliases(k.name)
TrueNegative(ne) ==
    Sure(ne.name) =>
        /\ AddressesOf(ne.name) = {} /\ Aliases(ne.name) = {}
        /\ Exists(ne.name) <=> ne.type = "A"
TrueReturn(n, rcode, ips) ==
    Sure(n) /\ rcode \in {"NoError", "NXDomain"} =>
        /\ Aliases(n) = {}
        /\ rcode = IF Exists(n) THEN "NoError" ELSE "NXDomain"
        /\ ips = AddressesOf(n)

\* Records as they come in answers, and the contents of those of one key.
Records == [place : Places, name : Name, type : Recs, to : Name]
Contents(recs, k) == {x.to : x \in {y \in recs : CacheKey(y.name, y.type) = k}}

\* What servers that are not careless say of n: who to ask, all there is, or that there is
\* nothing.
Refers(n, a) ==
    /\ a.rcode = "NoError"
    /\ \E c \in Zones \cap Suffixes(n) :
          /\ \A x \in a.recs :
                \/ x.type = "NS" /\ x.place = "authority" /\ x.name = c /\ x.to \in world.ns[c]
                \/ /\ x.type = "A" /\ x.place = "additional"
                   /\ Contents(a.recs, CacheKey(x.name, "A")) = AddressesOf(x.name)
          /\ \E x \in a.recs : x.type = "NS" /\ x.place = "authority" /\ x.name = c
Informs(n, a) ==
    /\ a.rcode = "NoError" /\ a.recs # {}
    /\ \A x \in a.recs : x.place = "answer" /\ x.name = n /\ x.type \in {"A", "CNAME"}
    /\ Contents(a.recs, CacheKey(n, "A")) = AddressesOf(n)
    /\ Contents(a.recs, CacheKey(n, "CNAME")) = Aliases(n)
Denies(n, a) ==
    /\ a.rcode = IF Exists(n) THEN "NoError" ELSE "NXDomain"
    /\ AddressesOf(n) = {} /\ Aliases(n) = {}
    /\ \A x \in a.recs : x.type = "SOA"
Truthful(n, a) == Refers(n, a) \/ Informs(n, a) \/ Denies(n, a)
Answers == [rcode : {"NoError", "NXDomain"}, aa : BOOLEAN, recs : SUBSET Records]

CacheType ==
    /\ DOMAIN cache \subseteq [name : Name, type : Recs]
    /\ \A k \in DOMAIN cache : /\ cache[k] \in [recs : SUBSET Name, auth : BOOLEAN]
                               /\ cache[k].recs # {}
CacheTrue == \A k \in DOMAIN cache : TrueSet(k, cache[k].recs)
NegType == \A ne \in negcache : /\ ne \in [name : Name, type : {"0", "A"}, soa : Name]
                                /\ ne.soa \in Suffixes(ne.name)

NegTrue == \A ne \in negcache : TrueNegative(ne)

BestNSs == [name : Name, zone : Name, ns : SUBSET Name]
Frames == [name : Name, depth : Nat, beenthere : SUBSET BestNSs, outer : SUBSET BestNSs,
           cnamed : BOOLEAN, phase : {"resolve", "findns", "nextns", "ask"}, auth : Name,
           nss : SUBSET Name, ips : SUBSET Name, doTCP : BOOLEAN, retry : SUBSET Name]

\* A call: it asks servers of a zone above its name, and if it can be sure of that zone they
\* are the zone's own.
FrameOK(f) ==
    /\ f.auth \in Suffixes(f.name)
    /\ f.retry \subseteq f.ips
    /\ f.depth <= MaxDepth + 2 /\ (f.phase # "resolve" => f.depth <= MaxDepth)
    /\ Sure(f.auth) => /\ f.auth \in Zones /\ f.nss \subseteq world.ns[f.auth]
                       /\ f.phase = "ask" => f.ips \subseteq ServedBy(f.auth)

\* Call f looks for the address of a name server of call g.
CalledBy(f, g) ==
    /\ g.phase = "nextns" /\ g.retry = {}
    /\ Sure(g.auth) => f.name \in world.ns[g.auth]

StackOK ==
    /\ stack \in Seq(Frames)
    /\ \A i \in 1..Len(stack) : FrameOK(stack[i])
    /\ \A i \in 1..(Len(stack) - 1) : CalledBy(stack[i], stack[i + 1])
    /\ stack # <<>> /\ Trusted(question) => stack[Len(stack)].name \in Reach(question)

\* The name that the innermost call may be about.
Called(n) ==
    /\ Len(stack) = 1 /\ Trusted(question) => n \in Reach(question)
    /\ Len(stack) > 1 /\ Sure(stack[2].auth) => n \in world.ns[stack[2].auth]

\* A call that goes on with the addresses found for one of its name servers.
Resumed(f, found, been) ==
    [f EXCEPT !.ips = found, !.beenthere = been, !.phase = IF found = {} THEN "nextns" ELSE "ask"]
Gained(rcode, ips) == IF rcode = "NoError" THEN ips ELSE {}

ResultType == result \in [rcode : {"none", "NoError", "NXDomain", "ServFail"}, ips : SUBSET Name]

ResolveInv ==
    /\ world \in Worlds /\ question \in Name
    /\ faults \in 0..MaxFaults /\ expired \in 0..MaxExpire /\ asked \in 0..MaxQuestions
    /\ CacheType /\ CacheTrue
    /\ NegType /\ NegTrue
    /\ StackOK
    /\ ResultType /\ NeverWrong

-----------------------------------------------------------------------------
(* Names and zones.                                                          *)

\* A name is one of its suffixes (chopOff), and a suffix is a name that agrees with it from
\* the right.
LEMMA SuffixFacts ==
    ASSUME NEW n \in Name
    PROVE  /\ n \in Suffixes(n) /\ Len(n) \in Nat
           /\ \A s \in Suffixes(n) :
                 /\ s \in Name /\ Len(s) \in 0..Len(n)
                 /\ \A j \in 1..Len(s) : s[j] = n[Len(n) - Len(s) + j]
<1>1. n \in Seq(STRING) /\ Len(n) \in Nat
  BY DEF Name
<1>2. SubSeq(n, 1, Len(n)) = n
  BY <1>1
<1>3. n \in Suffixes(n)
  BY <1>1, <1>2 DEF Suffixes
<1>4. ASSUME NEW s \in Suffixes(n)
      PROVE  /\ s \in Name /\ Len(s) \in 0..Len(n)
             /\ \A j \in 1..Len(s) : s[j] = n[Len(n) - Len(s) + j]
  <2>1. PICK i \in 1..(Len(n) + 1) : s = SubSeq(n, i, Len(n))
    BY DEF Suffixes
  <2>2. /\ s \in Seq(STRING) /\ Len(s) = Len(n) + 1 - i
        /\ \A j \in 1..(Len(n) + 1 - i) : s[j] = n[i + j - 1]
    BY <1>1, <2>1
  <2>3. \A j \in 1..Len(s) : Len(n) - Len(s) + j = i + j - 1
    BY <1>1, <2>2
  <2> QED
    BY <1>1, <2>2, <2>3 DEF Name
<1> QED
  BY <1>1, <1>3, <1>4

\* Two suffixes of one length are the same, and the shorter of two is a suffix of the longer.
LEMMA SuffixesNested ==
    ASSUME NEW n \in Name, NEW s \in Suffixes(n), NEW t \in Suffixes(n), Len(t) <= Len(s)
    PROVE  t \in Suffixes(s) /\ (Len(t) = Len(s) => t = s)
<1>1. /\ Len(n) \in Nat /\ s \in Seq(STRING) /\ Len(s) \in 0..Len(n)
      /\ t \in Seq(STRING) /\ Len(t) \in 0..Len(n)
      /\ n \in Seq(STRING)
  BY SuffixFacts DEF Name
<1> DEFINE i == Len(s) - Len(t) + 1
           u == SubSeq(s, i, Len(s))
<1>2. i \in 1..(Len(s) + 1)
  BY <1>1
<1>3. u \in Seq(STRING) /\ Len(u) = Len(t) /\ \A j \in 1..Len(t) : u[j] = s[i + j - 1]
  BY <1>1, <1>2
<1>4. \A j \in 1..Len(s) : s[j] = n[Len(n) - Len(s) + j]
  BY SuffixFacts
<1>5. \A j \in 1..Len(t) : t[j] = n[Len(n) - Len(t) + j]
  BY SuffixFacts
<1>6. ASSUME NEW j \in 1..Len(t) PROVE u[j] = t[j]
  <2>1. i + j - 1 \in 1..Len(s) /\ Len(n) - Len(s) + (i + j - 1) = Len(n) - Len(t) + j
    BY <1>1
  <2> QED
    BY <1>3, <1>4, <1>5, <2>1
<1>7. u = t
  BY <1>1, <1>3, <1>6, SeqEqual
<1>8. t \in Suffixes(s)
  BY <1>2, <1>7 DEF Suffixes
<1>9. ASSUME Len(t) = Len(s) PROVE t = s
  <2>1. i = 1
    BY <1>1, <1>9
  <2> QED
    BY <1>1, <1>7, <2>1
<1> QED
  BY <1>8, <1>9

\* The suffixes of a suffix are suffixes.
LEMMA SuffixesTransitive ==
    ASSUME NEW n \in Name, NEW s \in Suffixes(n), NEW t \in Suffixes(s)
    PROVE  t \in Suffixes(n)
<1>1. /\ Len(n) \in Nat /\ s \in Seq(STRING) /\ s \in Name /\ Len(s) \in 0..Len(n)
      /\ n \in Seq(STRING)
  BY SuffixFacts DEF Name
<1>2. /\ t \in Seq(STRING) /\ Len(t) \in 0..Len(s)
  BY <1>1, SuffixFacts DEF Name
<1> DEFINE i == Len(n) - Len(t) + 1
           u == SubSeq(n, i, Len(n))
<1>3. i \in 1..(Len(n) + 1)
  BY <1>1, <1>2
<1>4. u \in Seq(STRING) /\ Len(u) = Len(t) /\ \A j \in 1..Len(t) : u[j] = n[i + j - 1]
  BY <1>1, <1>2, <1>3
<1>5. \A j \in 1..Len(s) : s[j] = n[Len(n) - Len(s) + j]
  BY SuffixFacts
<1>6. \A j \in 1..Len(t) : t[j] = s[Len(s) - Len(t) + j]
  BY <1>1, SuffixFacts
<1>7. ASSUME NEW j \in 1..Len(t) PROVE u[j] = t[j]
  <2>1. /\ Len(s) - Len(t) + j \in 1..Len(s)
        /\ Len(n) - Len(s) + (Len(s) - Len(t) + j) = i + j - 1
    BY <1>1, <1>2
  <2> QED
    BY <1>4, <1>5, <1>6, <2>1
<1>8. u = t
  BY <1>2, <1>4, <1>7, SeqEqual
<1> QED
  BY <1>3, <1>8 DEF Suffixes

\* Of some names one is the shortest, and of some that are suffixes of one name one is the
\* longest.
LEMMA ExtremeNames ==
    ASSUME NEW S, S \subseteq Name, S # {}
    PROVE  /\ \E s \in S : \A t \in S : Len(t) >= Len(s)
           /\ \A n \in Name : S \subseteq Suffixes(n) => \E s \in S : \A t \in S : Len(t) <= Len(s)
<1>1. \A s \in S : Len(s) \in Nat
  BY DEF Name
<1>2. ASSUME NEW K, K \subseteq Nat, K # {} PROVE \E x \in K : \A y \in K : x <= y
  <2>1. PICK x \in K : \A y \in K : ~(<<y, x>> \in OpToRel(<, Nat))
    BY <1>2, WFMin, NatLessThanWellFounded, Zenon
  <2>2. \A y \in K : ~(y < x)
    BY <1>2, <2>1 DEF OpToRel
  <2> QED
    BY <1>2, <2>2
<1>3. \E s \in S : \A t \in S : Len(t) >= Len(s)
  <2> DEFINE K == {Len(s) : s \in S}
  <2>1. K \subseteq Nat /\ K # {}
    BY <1>1
  <2> HIDE DEF K
  <2>2. PICK x \in K : \A y \in K : x <= y
    BY <1>2, <2>1
  <2>3. PICK s \in S : x = Len(s)
    BY DEF K
  <2>4. \A t \in S : Len(t) \in K
    BY DEF K
  <2> QED
    BY <1>1, <2>2, <2>3, <2>4
<1>4. ASSUME NEW n \in Name, S \subseteq Suffixes(n)
      PROVE  \E s \in S : \A t \in S : Len(t) <= Len(s)
  <2> DEFINE K == {Len(n) - Len(s) : s \in S}
  <2>1. Len(n) \in Nat /\ \A s \in S : Len(s) \in 0..Len(n)
    BY <1>4, SuffixFacts
  <2>2. K \subseteq Nat /\ K # {}
    BY <2>1
  <2> HIDE DEF K
  <2>3. PICK x \in K : \A y \in K : x <= y
    BY <1>2, <2>2
  <2>4. PICK s \in S : x = Len(n) - Len(s)
    BY DEF K
  <2>5. \A t \in S : Len(n) - Len(t) \in K
    BY DEF K
  <2>6. \A t \in S : Len(t) <= Len(s)
    BY <2>1, <2>3, <2>4, <2>5
  <2> QED
    BY <2>6
<1> QED
  BY <1>3, <1>4

\* The root is above every name.
LEMMA RootAbove ==
    ASSUME NEW n \in Name
    PROVE  <<>> \in Suffixes(n) /\ <<>> \in Name
<1>1. n \in Seq(STRING) /\ Len(n) \in Nat
  BY DEF Name
<1>2. SubSeq(n, Len(n) + 1, Len(n)) = <<>>
  BY <1>1
<1>3. Len(n) + 1 \in 1..(Len(n) + 1)
  BY <1>1
<1>4. SubSeq(n, Len(n) + 1, Len(n)) \in Suffixes(n)
  BY <1>3 DEF Suffixes
<1>5. <<>> \in Seq(STRING)
  OBVIOUS
<1> QED
  BY <1>2, <1>4, <1>5 DEF Name

\* The shapes of what a world holds.
LEMMA WorldFacts ==
    ASSUME world \in Worlds
    PROVE  /\ <<>> \in Zones
           /\ \A z \in Zones : z \in Name /\ world.ns[z] \subseteq Name /\ world.ns[z] # {}
           /\ \A x \in world.a : x = <<x[1], x[2]>> /\ x[1] \in Name /\ x[2] \in Name
           /\ \A x \in world.cname : x = <<x[1], x[2]>> /\ x[1] \in Name /\ x[2] \in Name
           /\ \A x \in world.lies : x \in [place : Places, name : Name, type : Recs, to : Name]
           /\ \A n : AddressesOf(n) # {} => Aliases(n) = {}
           /\ \A z \in Zones : \A ns \in world.ns[z] : Aliases(ns) = {}
           /\ \A n : AddressesOf(n) \subseteq Name /\ Aliases(n) \subseteq Name
           /\ Hints.name \in world.ns[<<>>] /\ AddressesOf(Hints.name) = {Hints.ip}
           /\ Hints.name \in Name /\ Hints.ip \in Name
<1>1. /\ <<>> \in Zones
      /\ \A z \in Zones : z \in Name /\ world.ns[z] \subseteq Name /\ world.ns[z] # {}
      /\ world.a \subseteq Name \X Name /\ world.cname \subseteq Name \X Name
      /\ world.lies \subseteq [place : Places, name : Name, type : Recs, to : Name]
  BY ShapeAssumption DEF Zones
<1>2. /\ \A x \in world.cname : /\ \A y \in world.a : x[1] # y[1]
                                /\ \A z \in Zones : x[1] \notin world.ns[z]
      /\ Hints.name \in world.ns[<<>>] /\ AddressesOf(Hints.name) = {Hints.ip}
  BY DataAssumption DEF Zones, AddressesOf
<1>3. /\ \A x \in world.a : x = <<x[1], x[2]>> /\ x[1] \in Name /\ x[2] \in Name
      /\ \A x \in world.cname : x = <<x[1], x[2]>> /\ x[1] \in Name /\ x[2] \in Name
  BY <1>1
<1>4. \A n : AddressesOf(n) # {} => Aliases(n) = {}
  BY <1>2 DEF AddressesOf, Aliases
<1>5. \A z \in Zones : \A ns \in world.ns[z] : Aliases(ns) = {}
  BY <1>2 DEF Aliases
<1>6. \A n : AddressesOf(n) \subseteq Name /\ Aliases(n) \subseteq Name
  BY <1>3 DEF AddressesOf, Aliases
<1> QED
  BY <1>1, <1>2, <1>3, <1>4, <1>5, <1>6, NamesAssumption

\* Who is sure of a name is sure of what is above it, and of the name servers of the zones
\* above it, none of which is careless.
LEMMA SureFacts ==
    ASSUME world \in Worlds, NEW n \in Name, Sure(n)
    PROVE  /\ \A s \in Suffixes(n) : Sure(s)
           /\ n \in Zones =>
                 /\ ServedBy(n) \cap world.careless = {}
                 /\ \A ns \in world.ns[n] : Sure(ns)
<1>1. ASSUME NEW s \in Suffixes(n) PROVE Sure(s)
  <2>1. \A t \in Suffixes(s) : t \in Suffixes(n)
    BY SuffixesTransitive
  <2> QED
    BY <2>1 DEF Sure, Direct, EndsOn
<1>2. ASSUME n \in Zones
      PROVE  /\ ServedBy(n) \cap world.careless = {}
             /\ \A ns \in world.ns[n] : Sure(ns)
  <2>1. n \in Safe
    BY <1>2, SuffixFacts DEF Sure, Direct, EndsOn
  <2>2. PICK S \in SUBSET Zones : n \in S /\ Guarded(S)
    BY <2>1 DEF Safe
  <2>3. S \subseteq Safe
    BY <2>2 DEF Safe
  <2> QED
    BY <2>2, <2>3 DEF Guarded, Sure
<1> QED
  BY <1>1, <1>2

\* Who trusts a name is sure of all names it may be an alias of.
LEMMA TrustedFacts ==
    ASSUME world \in Worlds, NEW q \in Name, Trusted(q)
    PROVE  \A m \in Reach(q) : Sure(m)
<1>1. Say(q) \subseteq Zones /\ \A m \in Reach(q) : Direct(m) \subseteq Say(q)
  BY DEF Say, Direct
<1>2. \A z \in Say(q) : \A ns \in world.ns[z] : Direct(ns) \subseteq Say(q)
  BY DEF Say, Direct
<1>3. Guarded(Say(q))
  BY <1>2 DEF Guarded, Trusted
<1>4. Say(q) \subseteq Safe
  BY <1>1, <1>3 DEF Safe
<1> QED
  BY <1>1, <1>4 DEF Sure

\* A name reaches itself, and the aliases of what it reaches.
LEMMA ReachFacts ==
    ASSUME world \in Worlds, NEW q \in Name
    PROVE  q \in Reach(q) /\ \A m \in Reach(q) : Aliases(m) \subseteq Reach(q)
<1> DEFINE names == {q} \cup {x[2] : x \in world.cname}
<1>1. \A m : Aliases(m) \subseteq names
  BY DEF Aliases
<1>2. Reach(q) = {m \in names : \A S \in SUBSET names :
                     q \in S /\ (\A k \in S : Aliases(k) \subseteq S) => m \in S}
  BY DEF Reach
<1>3. q \in names
  OBVIOUS
<1> HIDE DEF names
<1> QED
  BY <1>1, <1>2, <1>3

-----------------------------------------------------------------------------
(* The servers.                                                              *)

\* The fields of a record.
LEMMA RecFacts ==
    ASSUME NEW place, NEW n, NEW t, NEW to
    PROVE  /\ Rec(place, n, t, to).place = place /\ Rec(place, n, t, to).name = n
           /\ Rec(place, n, t, to).type = t /\ Rec(place, n, t, to).to = to
           /\ place \in Places /\ n \in Name /\ t \in Recs /\ to \in Name =>
                 Rec(place, n, t, to) \in Records
BY DEF Rec, Records

\* The fields of a key.
LEMMA KeyFacts ==
    ASSUME NEW n, NEW t
    PROVE  /\ CacheKey(n, t).name = n /\ CacheKey(n, t).type = t
           /\ n \in Name /\ t \in Recs => CacheKey(n, t) \in [name : Name, type : Recs]
           /\ \A m, u : CacheKey(n, t) = CacheKey(m, u) => m = n /\ u = t
<1>1. /\ CacheKey(n, t).name = n /\ CacheKey(n, t).type = t
      /\ n \in Name /\ t \in Recs => CacheKey(n, t) \in [name : Name, type : Recs]
  BY DEF CacheKey
<1>2. \A m, u : CacheKey(m, u).name = m /\ CacheKey(m, u).type = u
  BY DEF CacheKey
<1>3. \A m, u : CacheKey(n, t) = CacheKey(m, u) => m = n /\ u = t
  BY <1>1, <1>2
<1> QED
  BY <1>1, <1>3

\* The contents of the records with a name and a type.
LEMMA ContentsFacts ==
    ASSUME NEW recs, NEW n, NEW t, NEW to
    PROVE  to \in Contents(recs, CacheKey(n, t)) <=>
               \E x \in recs : x.name = n /\ x.type = t /\ x.to = to
<1>1. \A x \in recs : CacheKey(x.name, x.type) = CacheKey(n, t) <=> x.name = n /\ x.type = t
  BY KeyFacts
<1> QED
  BY <1>1 DEF Contents

\* A referral names the servers of a zone above the name and all their addresses below it.
LEMMA ReferralFacts ==
    ASSUME world \in Worlds, NEW n \in Name, NEW c \in Zones \cap Suffixes(n), NEW a,
           a = [rcode |-> "NoError", aa |-> FALSE,
                recs |-> {Rec("authority", c, "NS", x) : x \in world.ns[c]} \cup Glue(c)]
    PROVE  a \in Answers /\ Refers(n, a)
<1> DEFINE N == {Rec("authority", c, "NS", x) : x \in world.ns[c]}
<1>1. c \in Name /\ world.ns[c] \subseteq Name /\ world.ns[c] # {} /\ c \in Zones
  BY WorldFacts
<1>2. \A x \in N : /\ x \in Records /\ x.type = "NS" /\ x.place = "authority" /\ x.name = c
                   /\ x.to \in world.ns[c]
  BY <1>1, RecFacts DEF Recs, Places
<1>3. N # {}
  BY <1>1
<1>4. ASSUME NEW x \in Glue(c)
      PROVE  /\ x \in Records /\ x.type = "A" /\ x.place = "additional"
             /\ x.name \in world.ns[c] /\ EndsOn(x.name, c) /\ x.to \in AddressesOf(x.name)
  <2>1. PICK y \in world.a : /\ y[1] \in world.ns[c] /\ EndsOn(y[1], c)
                             /\ x = Rec("additional", y[1], "A", y[2])
    BY DEF Glue
  <2>2. y[1] \in Name /\ y[2] \in Name
    BY WorldFacts
  <2> QED
    BY <2>1, <2>2, RecFacts DEF Recs, Places, AddressesOf
<1>5. ASSUME NEW x \in Glue(c), NEW to \in AddressesOf(x.name)
      PROVE  Rec("additional", x.name, "A", to) \in Glue(c)
  <2>1. PICK y \in world.a : y[1] = x.name /\ y[2] = to
    BY DEF AddressesOf
  <2> QED
    BY <1>4, <2>1 DEF Glue
<1>6. a.rcode = "NoError" /\ a.aa = FALSE /\ a.recs = N \cup Glue(c)
  OBVIOUS
<1>7. a \in Answers
  BY <1>2, <1>4, <1>6 DEF Answers
<1> HIDE DEF N
<1>8. ASSUME NEW x \in Glue(c)
      PROVE  Contents(a.recs, CacheKey(x.name, "A")) = AddressesOf(x.name)
  <2>1. \A y \in a.recs : y.name = x.name /\ y.type = "A" => y.to \in AddressesOf(x.name)
    BY <1>2, <1>4, <1>6
  <2>2. \A to \in AddressesOf(x.name) :
           \E y \in a.recs : y.name = x.name /\ y.type = "A" /\ y.to = to
    BY <1>5, <1>6, RecFacts
  <2>3. \A to : to \in Contents(a.recs, CacheKey(x.name, "A")) <=> to \in AddressesOf(x.name)
    BY <2>1, <2>2, ContentsFacts
  <2> QED
    BY <2>3
<1>9. Refers(n, a)
  BY <1>2, <1>3, <1>4, <1>6, <1>8 DEF Refers
<1> QED
  BY <1>7, <1>9

\* A server for a zone refers, informs or denies.
LEMMA SaysFacts ==
    ASSUME world \in Worlds, NEW z \in Name, NEW n \in Name
    PROVE  Says(z, n) \in Answers /\ Truthful(n, Says(z, n))
<1> DEFINE cuts == {y \in Zones : EndsOn(n, y) /\ Len(y) > Len(z)}
           cut == CHOOSE y \in cuts : \A x \in cuts : Len(x) >= Len(y)
           addr == {Rec("answer", n, "A", x[2]) : x \in {y \in world.a : y[1] = n}}
           alias == {Rec("answer", n, "CNAME", x[2]) : x \in {y \in world.cname : y[1] = n}}
           soa == {Rec("authority", z, "SOA", <<>>)}
           a == Says(z, n)
<1>1. CASE cuts # {}
  <2>1. cuts \subseteq Name /\ cuts \subseteq Zones \cap Suffixes(n)
    BY WorldFacts DEF EndsOn
  <2>2. \E y \in cuts : \A x \in cuts : Len(x) >= Len(y)
    <3> HIDE DEF cuts
    <3> QED
      BY <1>1, <2>1, ExtremeNames
  <2>3. cut \in Zones \cap Suffixes(n)
    BY <2>1, <2>2
  <2>4. a = [rcode |-> "NoError", aa |-> FALSE,
             recs |-> {Rec("authority", cut, "NS", x) : x \in world.ns[cut]} \cup Glue(cut)]
    BY <1>1 DEF Says
  <2> HIDE DEF a, cut
  <2> QED
    BY <2>3, <2>4, ReferralFacts DEF Truthful, a
<1>2. CASE cuts = {} /\ addr \cup alias # {}
  <2>1. a = [rcode |-> "NoError", aa |-> TRUE, recs |-> addr \cup alias]
    BY <1>2 DEF Says
  <2>2. a.rcode = "NoError" /\ a.recs = addr \cup alias
    BY <2>1
  <2>3. ASSUME NEW x \in addr
        PROVE  /\ x \in Records /\ x.place = "answer" /\ x.name = n /\ x.type = "A"
               /\ x.to \in AddressesOf(n)
    <3>1. PICK y \in world.a : y[1] = n /\ x = Rec("answer", n, "A", y[2])
      OBVIOUS
    <3>2. y[2] \in Name /\ y[2] \in AddressesOf(n)
      BY <3>1, WorldFacts DEF AddressesOf
    <3> QED
      BY <3>1, <3>2, RecFacts DEF Recs, Places
  <2>4. ASSUME NEW x \in alias
        PROVE  /\ x \in Records /\ x.place = "answer" /\ x.name = n /\ x.type = "CNAME"
               /\ x.to \in Aliases(n)
    <3>1. PICK y \in world.cname : y[1] = n /\ x = Rec("answer", n, "CNAME", y[2])
      OBVIOUS
    <3>2. y[2] \in Name /\ y[2] \in Aliases(n)
      BY <3>1, WorldFacts DEF Aliases
    <3> QED
      BY <3>1, <3>2, RecFacts DEF Recs, Places
  <2>5. ASSUME NEW to \in AddressesOf(n) PROVE \E x \in addr : x.to = to
    <3>1. PICK y \in world.a : y[1] = n /\ y[2] = to
      BY DEF AddressesOf
    <3>2. Rec("answer", n, "A", y[2]) \in addr
      BY <3>1
    <3> QED
      BY <3>1, <3>2, RecFacts
  <2>6. ASSUME NEW to \in Aliases(n) PROVE \E x \in alias : x.to = to
    <3>1. PICK y \in world.cname : y[1] = n /\ y[2] = to
      BY DEF Aliases
    <3>2. Rec("answer", n, "CNAME", y[2]) \in alias
      BY <3>1
    <3> QED
      BY <3>1, <3>2, RecFacts
  <2>7. a \in Answers
    BY <2>1, <2>3, <2>4 DEF Answers
  <2> HIDE DEF a, addr, alias
  <2>8. Contents(a.recs, CacheKey(n, "A")) = AddressesOf(n)
    <3>1. \A to : to \in Contents(a.recs, CacheKey(n, "A")) <=> to \in AddressesOf(n)
      BY <2>2, <2>3, <2>4, <2>5, ContentsFacts
    <3> QED
      BY <3>1
  <2>9. Contents(a.recs, CacheKey(n, "CNAME")) = Aliases(n)
    <3>1. \A to : to \in Contents(a.recs, CacheKey(n, "CNAME")) <=> to \in Aliases(n)
      BY <2>2, <2>3, <2>4, <2>6, ContentsFacts
    <3> QED
      BY <3>1
  <2>10. Informs(n, a)
    BY <1>2, <2>2, <2>3, <2>4, <2>8, <2>9 DEF Informs
  <2> QED
    BY <2>7, <2>10 DEF Truthful, a
<1>3. CASE cuts = {} /\ addr \cup alias = {}
  <2>1. a = [rcode |-> IF Exists(n) THEN "NoError" ELSE "NXDomain", aa |-> TRUE, recs |-> soa]
    BY <1>3 DEF Says
  <2>2. AddressesOf(n) = {} /\ Aliases(n) = {}
    BY <1>3 DEF AddressesOf, Aliases
  <2>3. \A x \in soa : x \in Records /\ x.type = "SOA"
    BY RootAbove, RecFacts DEF Recs, Places
  <2> HIDE DEF soa
  <2>4. a \in Answers
    BY <2>1, <2>3 DEF Answers
  <2>5. Denies(n, a)
    BY <2>1, <2>2, <2>3 DEF Denies
  <2> QED
    BY <2>4, <2>5 DEF Truthful
<1> QED
  BY <1>1, <1>2, <1>3

\* So does any server that is not careless, lame or not.
LEMMA HonestFacts ==
    ASSUME world \in Worlds, NEW ip, NEW n \in Name
    PROVE  Honest(ip, n) \in Answers /\ Truthful(n, Honest(ip, n))
<1> DEFINE mine == {z \in Zones : <<ip, z>> \in world.serves /\ EndsOn(n, z)}
           z == CHOOSE z \in mine : \A y \in mine : Len(y) <= Len(z)
<1>1. CASE mine = {}
  <2>1. Honest(ip, n) = Upward
    BY <1>1 DEF Honest
  <2>2. <<>> \in Zones \cap Suffixes(n) /\ <<>> \in Name
    BY WorldFacts, RootAbove
  <2>3. Hints.name \in Name /\ Hints.name \in world.ns[<<>>]
    BY WorldFacts
  <2> DEFINE x == Rec("authority", <<>>, "NS", Hints.name)
  <2>4. x \in Records /\ x.type = "NS" /\ x.place = "authority" /\ x.name = <<>> /\ x.to = Hints.name
    BY <2>2, <2>3, RecFacts DEF Recs, Places
  <2>5. Upward = [rcode |-> "NoError", aa |-> FALSE, recs |-> {x}]
    BY DEF Upward
  <2> HIDE DEF x
  <2>6. Upward \in Answers
    BY <2>4, <2>5 DEF Answers
  <2>7. Refers(n, Upward)
    BY <2>2, <2>3, <2>4, <2>5 DEF Refers
  <2> QED
    BY <2>1, <2>6, <2>7 DEF Truthful
<1>2. CASE mine # {}
  <2>1. mine \subseteq Name /\ mine \subseteq Suffixes(n)
    BY WorldFacts DEF EndsOn
  <2>2. \E s \in mine : \A y \in mine : Len(y) <= Len(s)
    <3> HIDE DEF mine
    <3> QED
      BY <1>2, <2>1, ExtremeNames
  <2>3. z \in Name
    BY <2>1, <2>2
  <2>4. Honest(ip, n) = Says(z, n)
    BY <1>2 DEF Honest
  <2> HIDE DEF z
  <2> QED
    BY <2>3, <2>4, SaysFacts
<1> QED
  BY <1>1, <1>2

\* All answers have their shape, and only careless servers say what is not so.
LEMMA TellsFacts ==
    ASSUME world \in Worlds, NEW ip, NEW n \in Name, NEW a \in Tells(ip, n)
    PROVE  a \in Answers /\ (ip \notin world.careless => Truthful(n, a))
<1>1. Honest(ip, n) \in Answers /\ Truthful(n, Honest(ip, n))
  BY HonestFacts
<1>2. CASE a = Honest(ip, n)
  BY <1>1, <1>2
<1>3. CASE ip \in world.careless /\ a # Honest(ip, n)
  <2>1. PICK lie \in {{x} : x \in world.lies}, extra \in {{}, Honest(ip, n).recs} :
           a = [rcode |-> "NoError", aa |-> TRUE, recs |-> lie \cup extra]
    BY <1>3 DEF Tells
  <2>2. lie \subseteq Records
    BY WorldFacts DEF Records
  <2>3. extra \subseteq Records
    BY <1>1 DEF Answers
  <2> QED
    BY <1>3, <2>1, <2>2, <2>3 DEF Answers
<1> QED
  BY <1>2, <1>3 DEF Tells

-----------------------------------------------------------------------------
(* The caches and the calls.                                                 *)

\* The world does not change while questions are answered, nor what is true in it.
LEMMA WorldKept ==
    ASSUME world' = world
    PROVE  /\ \A n : Sure(n)' <=> Sure(n)
           /\ \A n : AddressesOf(n)' = AddressesOf(n)
           /\ \A n : Aliases(n)' = Aliases(n)
           /\ \A n : Exists(n)' <=> Exists(n)
           /\ Zones' = Zones
           /\ \A n : ServedBy(n)' = ServedBy(n)
           /\ \A q : Trusted(q)' <=> Trusted(q)
           /\ \A q : Reach(q)' = Reach(q)
           /\ \A q : Right(q)' = Right(q)
<1>1. \A n : Sure(n)' <=> Sure(n)
  BY DEF Sure, Safe, Guarded, Direct, Zones, ServedBy
<1>2. /\ \A n : AddressesOf(n)' = AddressesOf(n)
      /\ \A n : Aliases(n)' = Aliases(n)
      /\ \A n : Exists(n)' <=> Exists(n)
      /\ Zones' = Zones
      /\ \A n : ServedBy(n)' = ServedBy(n)
  BY DEF AddressesOf, Aliases, Exists, Zones, ServedBy
<1>3. \A q : Reach(q)' = Reach(q)
  BY DEF Reach, Aliases
<1>4. \A q : Trusted(q)' <=> Trusted(q)
  BY DEF Trusted, Say, Reach, Aliases, Direct, Zones, ServedBy
<1>5. \A q : Right(q)' = Right(q)
  BY DEF Right, Reach, Aliases, Exists, Zones
<1> QED
  BY <1>1, <1>2, <1>3, <1>4, <1>5

\* What was true stays true.
LEMMA TruthKept ==
    ASSUME world' = world
    PROVE  /\ (\A k \in DOMAIN cache' : TrueSet(k, cache'[k].recs)) => CacheTrue'
           /\ (\A ne \in negcache' : TrueNegative(ne)) => NegTrue'
<1>1. ASSUME \A k \in DOMAIN cache' : TrueSet(k, cache'[k].recs) PROVE CacheTrue'
  BY <1>1, WorldKept DEF CacheTrue, TrueSet
<1>2. ASSUME \A ne \in negcache' : TrueNegative(ne) PROVE NegTrue'
  BY <1>2, WorldKept DEF NegTrue, TrueNegative
<1> QED
  BY <1>1, <1>2

\* What replace makes of true records, with what is held already, is true.
LEMMA ReplacedFacts ==
    ASSUME CacheType, CacheTrue,
           NEW k \in [name : Name, type : Recs], NEW recs \in SUBSET Name, recs # {},
           TrueSet(k, recs), NEW auth \in BOOLEAN
    PROVE  /\ Replaced(k, recs, auth) \in [recs : SUBSET Name, auth : BOOLEAN]
           /\ Replaced(k, recs, auth).recs # {}
           /\ TrueSet(k, Replaced(k, recs, auth).recs)
<1> DEFINE old == IF k.type \in {"SOA", "CNAME"} THEN [Entry(k) EXCEPT !.recs = {}] ELSE Entry(k)
<1>1. /\ Entry(k) \in [recs : SUBSET Name, auth : BOOLEAN]
      /\ Entry(k).recs # {} => TrueSet(k, Entry(k).recs)
  BY DEF Entry, CacheType, CacheTrue
<1>2. /\ old \in [recs : SUBSET Name, auth : BOOLEAN]
      /\ old.recs # {} => TrueSet(k, old.recs)
  BY <1>1
<1> HIDE DEF old
<1>3. \/ Replaced(k, recs, auth) = old /\ old.recs # {}
      \/ Replaced(k, recs, auth) = [recs |-> recs, auth |-> TRUE]
      \/ Replaced(k, recs, auth) = [recs |-> old.recs \cup recs, auth |-> auth]
  BY DEF Replaced, old
<1>4. TrueSet(k, old.recs \cup recs)
  <2>1. CASE old.recs = {}
    <3>1. old.recs \cup recs = recs
      BY <2>1
    <3> QED
      BY <3>1
  <2>2. CASE old.recs # {}
    BY <1>2, <2>2 DEF TrueSet
  <2> QED
    BY <2>1, <2>2
<1>5. ASSUME NEW S \in SUBSET Name, NEW b \in BOOLEAN, S # {}, TrueSet(k, S)
      PROVE  /\ [recs |-> S, auth |-> b] \in [recs : SUBSET Name, auth : BOOLEAN]
             /\ [recs |-> S, auth |-> b].recs # {}
             /\ TrueSet(k, [recs |-> S, auth |-> b].recs)
  BY <1>5, Zenon
<1>6. CASE Replaced(k, recs, auth) = old /\ old.recs # {}
  BY <1>2, <1>6
<1>7. CASE Replaced(k, recs, auth) = [recs |-> recs, auth |-> TRUE]
  <2>1. TRUE \in BOOLEAN
    OBVIOUS
  <2> QED
    BY <1>5, <1>7, <2>1, Zenon
<1>8. CASE Replaced(k, recs, auth) = [recs |-> old.recs \cup recs, auth |-> auth]
  <2>1. old.recs \cup recs \in SUBSET Name /\ old.recs \cup recs # {}
    BY <1>2
  <2> QED
    BY <1>4, <1>5, <1>8, <2>1, Zenon
<1> QED
  BY <1>3, <1>6, <1>7, <1>8

\* So caching records that are true where it matters keeps the cache true.
LEMMA SupplantedFacts ==
    ASSUME CacheType, CacheTrue,
           NEW recs, \A x \in recs : x.name \in Name /\ x.type \in Recs /\ x.to \in Name,
           NEW auth \in BOOLEAN,
           \A k \in Keys(recs) : TrueSet(k, Contents(recs, k)),
           cache' = Supplanted(recs, auth), world' = world
    PROVE  CacheType' /\ CacheTrue'
<1>1. ASSUME NEW k \in Keys(recs)
      PROVE  /\ k \in [name : Name, type : Recs]
             /\ Contents(recs, k) \in SUBSET Name /\ Contents(recs, k) # {}
  <2>1. PICK x \in recs : k = CacheKey(x.name, x.type)
    BY DEF Keys
  <2>2. x.name \in Name /\ x.type \in Recs
    OBVIOUS
  <2>3. Contents(recs, k) \subseteq Name
    BY DEF Contents
  <2>4. x.to \in Contents(recs, k)
    BY <2>1 DEF Contents
  <2> QED
    BY <2>1, <2>2, <2>3, <2>4, KeyFacts
<1>2. /\ DOMAIN cache' = DOMAIN cache \cup Keys(recs)
      /\ \A k \in Keys(recs) : cache'[k] = Replaced(k, Contents(recs, k), auth)
      /\ \A k \in DOMAIN cache \ Keys(recs) : cache'[k] = cache[k]
  BY DEF Supplanted, Contents
<1>3. ASSUME NEW k \in DOMAIN cache'
      PROVE  /\ k \in [name : Name, type : Recs]
             /\ cache'[k] \in [recs : SUBSET Name, auth : BOOLEAN] /\ cache'[k].recs # {}
             /\ TrueSet(k, cache'[k].recs)
  <2>1. CASE k \in Keys(recs)
    BY <1>1, <1>2, <2>1, ReplacedFacts
  <2>2. CASE k \notin Keys(recs)
    BY <1>2, <2>2 DEF CacheType, CacheTrue
  <2> QED
    BY <2>1, <2>2
<1>4. CacheType'
  BY <1>3 DEF CacheType
<1> QED
  BY <1>3, <1>4, TruthKept

\* The hints are true.
LEMMA HintFacts ==
    ASSUME world \in Worlds
    PROVE  /\ \A x \in HintRecs : x.name \in Name /\ x.type \in Recs /\ x.to \in Name
           /\ \A k \in Keys(HintRecs) : TrueSet(k, Contents(HintRecs, k))
<1> DEFINE x == [name |-> <<>>, type |-> "NS", to |-> Hints.name]
           y == [name |-> Hints.name, type |-> "A", to |-> Hints.ip]
<1>1. HintRecs = {x, y}
  BY DEF HintRecs
<1>2. /\ x.name = <<>> /\ x.type = "NS" /\ x.to = Hints.name
      /\ y.name = Hints.name /\ y.type = "A" /\ y.to = Hints.ip
  OBVIOUS
<1> HIDE DEF x, y
<1>3. /\ Hints.name \in world.ns[<<>>] /\ AddressesOf(Hints.name) = {Hints.ip}
      /\ Hints.name \in Name /\ Hints.ip \in Name /\ <<>> \in Name /\ <<>> \in Zones
  BY WorldFacts, RootAbove
<1>4. \A r \in HintRecs : r.name \in Name /\ r.type \in Recs /\ r.to \in Name
  BY <1>1, <1>2, <1>3 DEF Recs
<1>5. Keys(HintRecs) = {CacheKey(<<>>, "NS"), CacheKey(Hints.name, "A")}
  BY <1>1, <1>2 DEF Keys
<1>6. TrueSet(CacheKey(<<>>, "NS"), Contents(HintRecs, CacheKey(<<>>, "NS")))
  <2>1. \A to \in Contents(HintRecs, CacheKey(<<>>, "NS")) : to = Hints.name
    BY <1>1, <1>2, ContentsFacts
  <2> QED
    BY <1>3, <2>1, KeyFacts DEF TrueSet
<1>7. TrueSet(CacheKey(Hints.name, "A"), Contents(HintRecs, CacheKey(Hints.name, "A")))
  <2>1. \A to : to \in Contents(HintRecs, CacheKey(Hints.name, "A")) <=> to = Hints.ip
    BY <1>1, <1>2, ContentsFacts
  <2>2. Contents(HintRecs, CacheKey(Hints.name, "A")) = AddressesOf(Hints.name)
    BY <1>3, <2>1
  <2> QED
    BY <2>2, KeyFacts DEF TrueSet
<1> QED
  BY <1>4, <1>5, <1>6, <1>7

\* The innermost call.
LEMMA TopFacts ==
    ASSUME StackOK, stack # <<>>
    PROVE  /\ Len(stack) \in Nat /\ Len(stack) >= 1 /\ top = stack[1]
           /\ top \in Frames /\ FrameOK(top) /\ Called(top.name)
<1>1. stack \in Seq(Frames) /\ Len(stack) \in Nat /\ Len(stack) >= 1 /\ top = stack[1]
  BY DEF StackOK, top
<1>2. top \in Frames /\ FrameOK(top)
  BY <1>1 DEF StackOK
<1>3. Called(top.name)
  BY <1>1 DEF StackOK, Called, CalledBy
<1> QED
  BY <1>1, <1>2, <1>3

\* What an unchanged world leaves as it was of the calls.
LEMMA CallsKept ==
    ASSUME world' = world, question' = question,
           stack' \in Seq(Frames),
           \A i \in 1..Len(stack') : FrameOK(stack'[i]),
           \A i \in 1..(Len(stack') - 1) : CalledBy(stack'[i], stack'[i + 1]),
           stack' # <<>> /\ Trusted(question) => stack'[Len(stack')].name \in Reach(question)
    PROVE  StackOK'
BY WorldKept DEF StackOK, FrameOK, CalledBy

\* Replacing the innermost call.
LEMMA SetStep ==
    ASSUME StackOK, stack # <<>>, world' = world, question' = question,
           NEW f \in Frames, FrameOK(f), Called(f.name), Set(f)
    PROVE  StackOK'
<1>1. /\ stack \in Seq(Frames) /\ Len(stack) \in Nat /\ Len(stack) >= 1
  BY TopFacts DEF StackOK
<1>2. /\ stack' \in Seq(Frames) /\ Len(stack') = Len(stack) /\ stack'[1] = f
      /\ \A i \in 2..Len(stack) : stack'[i] = stack[i]
  BY <1>1 DEF Set
<1>3. \A i \in 1..Len(stack') : FrameOK(stack'[i])
  BY <1>1, <1>2 DEF StackOK
<1>4. ASSUME NEW i \in 1..(Len(stack') - 1) PROVE CalledBy(stack'[i], stack'[i + 1])
  <2>1. i + 1 \in 2..Len(stack) /\ CalledBy(stack[i], stack[i + 1])
    BY <1>1, <1>2 DEF StackOK
  <2>2. CASE i = 1
    <3>1. stack'[i] = f /\ stack'[i + 1] = stack[2] /\ Len(stack) > 1
      BY <1>1, <1>2, <2>1, <2>2
    <3>2. CalledBy(stack[1], stack[2])
      BY <2>1, <2>2
    <3>3. CalledBy(f, stack[2])
      BY <3>1, <3>2 DEF CalledBy, Called
    <3> QED
      BY <3>1, <3>3
  <2>3. CASE i # 1
    <3>1. i \in 2..Len(stack)
      BY <1>1, <1>2, <2>3
    <3> QED
      BY <1>2, <2>1, <3>1
  <2> QED
    BY <2>2, <2>3
<1>5. Trusted(question) => stack'[Len(stack')].name \in Reach(question)
  <2>1. CASE Len(stack) = 1
    BY <1>2, <2>1 DEF Called
  <2>2. CASE Len(stack) # 1
    BY <1>1, <1>2, <2>2 DEF StackOK
  <2> QED
    BY <2>1, <2>2
<1> QED
  BY <1>2, <1>3, <1>4, <1>5, CallsKept

\* Only an alias of a name that is asked for is asked for in its place, and name servers
\* have none.
LEMMA AliasCalled ==
    ASSUME world \in Worlds, question \in Name, StackOK, stack # <<>>,
           NEW n, Sure(top.name) => n \in Aliases(top.name)
    PROVE  Called(n)
<1>1. Len(stack) \in Nat /\ Len(stack) >= 1 /\ Called(top.name) /\ stack \in Seq(Frames)
  BY TopFacts DEF StackOK
<1>2. CASE Len(stack) = 1 /\ Trusted(question)
  <2>1. top.name \in Reach(question)
    BY <1>1, <1>2 DEF Called
  <2>2. n \in Reach(question)
    BY <1>2, <2>1, TrustedFacts, ReachFacts
  <2> QED
    BY <1>2, <2>2 DEF Called
<1>3. CASE Len(stack) > 1 /\ Sure(stack[2].auth)
  <2>1. top.name \in world.ns[stack[2].auth]
    BY <1>1, <1>3 DEF Called
  <2>2. stack[2] \in Frames /\ FrameOK(stack[2])
    BY <1>1, <1>3 DEF StackOK
  <2>3. stack[2].auth \in Zones /\ stack[2].auth \in Name
    BY <1>3, <2>2 DEF FrameOK, Frames
  <2>4. Sure(top.name) /\ Aliases(top.name) = {}
    BY <1>3, <2>1, <2>3, SureFacts, WorldFacts
  <2> QED
    BY <2>4
<1> QED
  BY <1>1, <1>2, <1>3 DEF Called

\* A new call.
LEMMA FrameFacts ==
    ASSUME world \in Worlds, NEW n \in Name, NEW depth \in 0..(MaxDepth + 2),
           NEW been \in SUBSET BestNSs
    PROVE  /\ Frame(n, depth, been) \in Frames /\ FrameOK(Frame(n, depth, been))
           /\ Frame(n, depth, been).name = n
<1> DEFINE f == Frame(n, depth, been)
<1>1. <<>> \in Name /\ <<>> \in Suffixes(n) /\ <<>> \in Zones /\ MaxDepth \in Nat
  BY RootAbove, WorldFacts, LimitsAssumption
<1>2. f \in Frames
  BY <1>1 DEF Frame, Frames
<1>3. /\ f.name = n /\ f.auth = <<>> /\ f.retry = {} /\ f.depth = depth /\ f.phase = "resolve"
      /\ f.nss = {}
  BY DEF Frame
<1>4. FrameOK(f)
  BY <1>1, <1>3 DEF FrameOK
<1> QED
  BY <1>2, <1>3, <1>4

\* A CNAME is followed by the same call.
LEMMA RestartStep ==
    ASSUME world \in Worlds, question \in Name, StackOK, stack # <<>>,
           world' = world, question' = question,
           ~TooDeep, NEW n \in Name, Sure(top.name) => n \in Aliases(top.name), Restart(n)
    PROVE  StackOK'
<1>1. top \in Frames /\ Called(n)
  BY TopFacts, AliasCalled
<1>2. top.depth + 1 \in 0..(MaxDepth + 2) /\ {} \in SUBSET BestNSs
  BY <1>1, LimitsAssumption DEF Frames, TooDeep
<1> DEFINE f == Frame(n, top.depth + 1, {})
           out == IF top.cnamed THEN top.outer ELSE top.beenthere
           g == [f EXCEPT !.cnamed = TRUE, !.outer = out]
<1>3. f \in Frames /\ FrameOK(f) /\ f.name = n
  BY <1>2, FrameFacts
<1>4. out \in SUBSET BestNSs
  BY <1>1 DEF Frames
<1> HIDE DEF f, out
<1>5. g \in Frames
  BY <1>3, <1>4 DEF Frames
<1>6. /\ g.name = f.name /\ g.auth = f.auth /\ g.retry = f.retry /\ g.ips = f.ips
      /\ g.depth = f.depth /\ g.phase = f.phase /\ g.nss = f.nss
  BY <1>3 DEF Frames
<1>7. Set(g)
  BY DEF Restart, f, out
<1> HIDE DEF g
<1>8. FrameOK(g) /\ Called(g.name)
  BY <1>1, <1>3, <1>6 DEF FrameOK
<1> QED
  BY <1>5, <1>7, <1>8, SetStep

\* A true answer to the question is right.
LEMMA RightAnswer ==
    ASSUME world \in Worlds, question \in Name, Trusted(question), NEW n \in Reach(question),
           NEW rcode \in {"NoError", "NXDomain"}, NEW ips, TrueReturn(n, rcode, ips)
    PROVE  [rcode |-> rcode, ips |-> ips] \in Right(question)
<1>1. Sure(n)
  BY TrustedFacts
<1>2. /\ Aliases(n) = {} /\ ips = AddressesOf(n)
      /\ rcode = IF Exists(n) THEN "NoError" ELSE "NXDomain"
  BY <1>1 DEF TrueReturn
<1>3. [rcode |-> rcode, ips |-> ips]
         = [rcode |-> IF Exists(n) THEN "NoError" ELSE "NXDomain",
            ips |-> {x[2] : x \in {y \in world.a : y[1] = n}}]
  BY <1>2 DEF AddressesOf
<1>4. n \in {k \in Reach(question) : Aliases(k) = {}}
  BY <1>2
<1> QED
  BY <1>3, <1>4 DEF Right

\* The call that gets the addresses of one of its name servers.
LEMMA CallerFacts ==
    ASSUME world \in Worlds, question \in Name, StackOK, stack # <<>>, Len(stack) > 1,
           NEW rcode, NEW ips \in SUBSET Name, TrueReturn(top.name, rcode, ips),
           NEW been \in SUBSET BestNSs
    PROVE  /\ Resumed(stack[2], Gained(rcode, ips), been) \in Frames
           /\ FrameOK(Resumed(stack[2], Gained(rcode, ips), been))
           /\ Resumed(stack[2], Gained(rcode, ips), been).name = stack[2].name
<1> DEFINE c == stack[2]
           found == Gained(rcode, ips)
           g == Resumed(c, found, been)
           ph == IF found = {} THEN "nextns" ELSE "ask"
<1>1. /\ stack \in Seq(Frames) /\ Len(stack) \in Nat /\ top = stack[1] /\ Called(top.name)
  BY TopFacts DEF StackOK
<1>2. c \in Frames /\ FrameOK(c) /\ CalledBy(stack[1], c)
  BY <1>1 DEF StackOK
<1>3. found \in SUBSET Name /\ ph \in {"resolve", "findns", "nextns", "ask"}
  BY DEF Gained
<1> HIDE DEF c
<1>4. g = [c EXCEPT !.ips = found, !.beenthere = been, !.phase = ph]
  BY DEF Resumed
<1> HIDE DEF ph, g
<1>5. /\ g \in Frames /\ g.name = c.name /\ g.auth = c.auth /\ g.nss = c.nss /\ g.depth = c.depth
      /\ g.retry = c.retry /\ g.ips = found /\ g.phase = ph
  BY <1>2, <1>3, <1>4 DEF Frames
<1>6. c.retry = {} /\ c.phase = "nextns" /\ c.depth <= MaxDepth
  BY <1>2 DEF CalledBy, FrameOK
<1>7. ASSUME Sure(c.auth) PROVE found \subseteq ServedBy(c.auth)
  <2>1. top.name \in world.ns[c.auth] /\ c.auth \in Zones /\ c.auth \in Name
    BY <1>1, <1>2, <1>7 DEF CalledBy, FrameOK, Frames
  <2>2. Sure(top.name)
    BY <1>7, <2>1, SureFacts
  <2>3. found \subseteq AddressesOf(top.name)
    BY <2>2 DEF TrueReturn, Gained
  <2>4. AddressesOf(top.name) \subseteq ServedBy(c.auth)
    BY <2>1 DEF AddressesOf, ServedBy
  <2> QED
    BY <2>3, <2>4
<1>8. FrameOK(g)
  BY <1>2, <1>5, <1>6, <1>7, LimitsAssumption DEF FrameOK, ph
<1> QED
  BY <1>5, <1>8 DEF c, g

\* The stack without its innermost call, and with its caller changed.
LEMMA PopFacts ==
    ASSUME NEW S, NEW s \in Seq(S), Len(s) > 1, NEW g \in S
    PROVE  /\ <<g>> \o SubSeq(s, 3, Len(s)) \in Seq(S)
           /\ Len(<<g>> \o SubSeq(s, 3, Len(s))) = Len(s) - 1
           /\ (<<g>> \o SubSeq(s, 3, Len(s)))[1] = g
           /\ \A i \in 2..(Len(s) - 1) : (<<g>> \o SubSeq(s, 3, Len(s)))[i] = s[i + 1]
<1> DEFINE u == SubSeq(s, 3, Len(s))
<1>1. Len(s) \in Nat
  OBVIOUS
<1>2. u \in Seq(S) /\ Len(u) = Len(s) - 2 /\ \A i \in 1..(Len(s) - 2) : u[i] = s[i + 2]
  <2>1. \A i \in 3..Len(s) : s[i] \in S
    BY <1>1
  <2>2. u \in Seq(S) /\ Len(u) = IF 3 <= Len(s) THEN Len(s) - 3 + 1 ELSE 0
    BY <1>1, <2>1, SubSeqProperties
  <2>3. \A i \in 1..(Len(s) - 3 + 1) : u[i] = s[3 + i - 1]
    BY <1>1, <2>1, SubSeqProperties
  <2>4. Len(u) = Len(s) - 2
    <3>1. ASSUME NEW k \in Nat, k > 1 PROVE (IF 3 <= k THEN k - 3 + 1 ELSE 0) = k - 2
      BY <3>1
    <3> HIDE DEF u
    <3> QED
      BY <1>1, <2>2, <3>1
  <2>5. ASSUME NEW i \in 1..(Len(s) - 2) PROVE u[i] = s[i + 2]
    <3>1. i \in 1..(Len(s) - 3 + 1) /\ 3 + i - 1 = i + 2
      BY <1>1
    <3> QED
      BY <2>3, <3>1
  <2> QED
    BY <2>2, <2>4, <2>5
<1> HIDE DEF u
<1>3. <<g>> \o u \in Seq(S) /\ Len(<<g>> \o u) = Len(s) - 1 /\ (<<g>> \o u)[1] = g
  BY <1>1, <1>2
<1>4. ASSUME NEW i \in 2..(Len(s) - 1) PROVE (<<g>> \o u)[i] = s[i + 1]
  <2>1. i - 1 \in 1..(Len(s) - 2) /\ (i - 1) + 2 = i + 1
    BY <1>1
  <2>2. (<<g>> \o u)[i] = u[i - 1]
    BY <1>1, <1>2, <2>1
  <2> QED
    BY <1>2, <2>1, <2>2
<1> QED
  BY <1>3, <1>4 DEF u

\* A number from 1 on is 1 or more.
LEMMA OneOrMore ==
    ASSUME NEW k \in Nat, k >= 1, k # 1
    PROVE  k > 1
OBVIOUS

\* A call that returns something true leaves its caller, or the result, right.
LEMMA ReturnsStep ==
    ASSUME ResolveInv, stack # <<>>, world' = world, question' = question,
           NEW rcode \in {"NoError", "NXDomain", "ServFail"}, NEW ips \in SUBSET Name,
           TrueReturn(top.name, rcode, ips), Returns(rcode, ips)
    PROVE  StackOK' /\ ResultType' /\ NeverWrong'
<1>1. world \in Worlds /\ question \in Name /\ StackOK /\ ResultType /\ NeverWrong
  BY DEF ResolveInv
<1>2. /\ stack \in Seq(Frames) /\ Len(stack) \in Nat /\ Len(stack) >= 1 /\ top = stack[1]
      /\ Called(top.name) /\ top \in Frames
  BY <1>1, TopFacts DEF StackOK
<1>3. CASE Len(stack) = 1
  <2>1. stack' = <<>> /\ result' = [rcode |-> rcode, ips |-> ips]
    BY <1>3 DEF Returns
  <2>2. StackOK'
    BY <2>1 DEF StackOK
  <2>3. ResultType'
    BY <2>1 DEF ResultType
  <2>4. ASSUME rcode \in {"NoError", "NXDomain"}, Trusted(question)
        PROVE  result' \in Right(question)
    <3>1. top.name \in Reach(question)
      BY <1>2, <1>3, <2>4 DEF Called
    <3> QED
      BY <1>1, <2>1, <2>4, <3>1, RightAnswer
  <2>5. result'.rcode = rcode
    BY <2>1
  <2>6. NeverWrong'
    BY <2>4, <2>5, WorldKept DEF NeverWrong
  <2> QED
    BY <2>2, <2>3, <2>6
<1>4. CASE Len(stack) # 1
  <2> DEFINE been == IF top.cnamed THEN top.outer ELSE top.beenthere
             g == Resumed(stack[2], Gained(rcode, ips), been)
  <2>0. Len(stack) > 1 /\ Len(stack) \in Nat
    <3>1. Len(stack) \in Nat /\ Len(stack) >= 1
      BY <1>2
    <3> QED
      BY <1>4, <3>1, OneOrMore
  <2>1. stack' = <<g>> \o SubSeq(stack, 3, Len(stack)) /\ result' = result
    BY <1>4 DEF Returns, Resumed, Gained
  <2>2. been \in SUBSET BestNSs
    BY <1>2 DEF Frames
  <2>3. g \in Frames /\ FrameOK(g) /\ g.name = stack[2].name
    BY <1>1, <2>0, <2>2, CallerFacts
  <2> HIDE DEF g
  <2>4. /\ stack' \in Seq(Frames) /\ Len(stack') = Len(stack) - 1 /\ stack'[1] = g
        /\ \A i \in 2..(Len(stack) - 1) : stack'[i] = stack[i + 1]
    BY <1>2, <2>0, <2>1, <2>3, PopFacts
  <2>5. \A i \in 1..Len(stack') : FrameOK(stack'[i])
    BY <1>1, <1>2, <2>0, <2>3, <2>4 DEF StackOK
  <2>6. ASSUME NEW i \in 1..(Len(stack') - 1) PROVE CalledBy(stack'[i], stack'[i + 1])
    <3>1. /\ CalledBy(stack[i + 1], stack[i + 2]) /\ i + 1 \in 2..(Len(stack) - 1)
          /\ stack'[i + 1] = stack[i + 2]
      <4>1. i + 1 \in 1..(Len(stack) - 1) /\ (i + 1) + 1 = i + 2 /\ i + 1 \in 2..(Len(stack) - 1)
        BY <2>0, <2>4
      <4> QED
        BY <1>1, <2>4, <4>1 DEF StackOK
    <3>2. CASE i = 1
      BY <2>3, <2>4, <3>1, <3>2 DEF CalledBy
    <3>3. CASE i # 1
      <4>1. i \in 2..(Len(stack) - 1)
        BY <2>0, <2>4, <3>3
      <4> QED
        BY <2>4, <3>1, <4>1
    <3> QED
      BY <3>2, <3>3
  <2>7. Trusted(question) => stack'[Len(stack')].name \in Reach(question)
    <3>1. CASE Len(stack) = 2
      BY <1>1, <1>2, <2>3, <2>4, <3>1 DEF StackOK
    <3>2. CASE Len(stack) # 2
      <4>1. Len(stack') \in 2..(Len(stack) - 1) /\ Len(stack') + 1 = Len(stack)
        BY <2>0, <2>4, <3>2
      <4>2. stack'[Len(stack')] = stack[Len(stack)]
        BY <2>4, <4>1
      <4> QED
        BY <1>1, <4>2 DEF StackOK
    <3> QED
      BY <3>1, <3>2
  <2>8. StackOK'
    BY <2>4, <2>5, <2>6, <2>7, CallsKept
  <2>9. ResultType' /\ NeverWrong'
    BY <1>1, <2>1, WorldKept DEF ResultType, NeverWrong
  <2> QED
    BY <2>8, <2>9
<1> QED
  BY <1>3, <1>4

-----------------------------------------------------------------------------
(* The steps.                                                                *)

\* What is cached under a key is true, and some records if there are any.
LEMMA CachedFacts ==
    ASSUME CacheType, CacheTrue, NEW n, NEW t
    PROVE  /\ Cached(n, t) \subseteq Name
           /\ Cached(n, t) # {} => TrueSet(CacheKey(n, t), Cached(n, t))
BY DEF Cached, CacheType, CacheTrue

\* A step that leaves the caches and the result alone.
LEMMA Unchanged ==
    ASSUME ResolveInv, world' = world
    PROVE  /\ UNCHANGED cache => CacheType' /\ CacheTrue'
           /\ UNCHANGED negcache => NegType' /\ NegTrue'
           /\ UNCHANGED <<question, result>> => ResultType' /\ NeverWrong'
<1>1. ASSUME UNCHANGED cache PROVE CacheType' /\ CacheTrue'
  BY <1>1, TruthKept DEF ResolveInv, CacheType, CacheTrue
<1>2. ASSUME UNCHANGED negcache PROVE NegType' /\ NegTrue'
  BY <1>2, TruthKept DEF ResolveInv, NegType, NegTrue
<1>3. ASSUME UNCHANGED <<question, result>> PROVE ResultType' /\ NeverWrong'
  BY <1>3, WorldKept DEF ResolveInv, ResultType, NeverWrong
<1> QED
  BY <1>1, <1>2, <1>3

\* A step of the call alone.
LEMMA QuietStep ==
    ASSUME ResolveInv, Quiet, StackOK', ResultType', NeverWrong'
    PROVE  ResolveInv'
<1>1. UNCHANGED <<world, question, expired, asked, cache, negcache, faults>>
  BY DEF Quiet, env
<1> QED
  BY <1>1, Unchanged DEF ResolveInv

\* A name with an address exists.
LEMMA AddressExists ==
    ASSUME world \in Worlds, NEW n, AddressesOf(n) # {}
    PROVE  n \in Name /\ Exists(n) /\ Aliases(n) = {}
<1>1. PICK x \in world.a : x[1] = n
  BY DEF AddressesOf
<1>2. n \in Name
  BY <1>1, WorldFacts
<1>3. EndsOn(n, n)
  BY <1>2, SuffixFacts DEF EndsOn
<1> QED
  BY <1>1, <1>2, <1>3, WorldFacts DEF Exists

\* The innermost call goes to another phase.
LEMMA PhaseStep ==
    ASSUME ResolveInv, stack # <<>>, world' = world, question' = question, ~TooDeep,
           NEW ph \in {"findns", "nextns"}, Set([top EXCEPT !.phase = ph])
    PROVE  StackOK'
<1> DEFINE f == [top EXCEPT !.phase = ph]
<1>1. top \in Frames /\ FrameOK(top) /\ Called(top.name) /\ StackOK
  BY TopFacts DEF ResolveInv
<1>2. /\ f \in Frames /\ f.phase = ph /\ f.name = top.name /\ f.auth = top.auth
      /\ f.retry = top.retry /\ f.ips = top.ips /\ f.depth = top.depth /\ f.nss = top.nss
  BY <1>1 DEF Frames
<1>3. top.depth <= MaxDepth
  BY <1>1, LimitsAssumption DEF TooDeep, Frames
<1>4. Set(f)
  OBVIOUS
<1> HIDE DEF f
<1>5. FrameOK(f)
  BY <1>1, <1>2, <1>3 DEF FrameOK
<1> QED
  BY <1>1, <1>2, <1>4, <1>5, SetStep

\* Past the first look in the caches the depth is within the limit.
LEMMA NotTooDeep ==
    ASSUME StackOK, stack # <<>>, top.phase # "resolve"
    PROVE  ~TooDeep
<1>1. top \in Frames /\ FrameOK(top)
  BY TopFacts
<1>2. top.depth \in Nat /\ top.depth <= MaxDepth
  BY <1>1 DEF FrameOK, Frames
<1> QED
  BY <1>2, LimitsAssumption DEF TooDeep

\* What the caches say is true.
LEMMA CacheCheckStep ==
    ASSUME ResolveInv, CacheCheck
    PROVE  ResolveInv'
<1>1. /\ stack # <<>> /\ Quiet /\ world' = world /\ question' = question
      /\ world \in Worlds /\ question \in Name /\ StackOK
  BY DEF CacheCheck, InPhase, Quiet, env, ResolveInv
<1>2. top.name \in Name
  BY <1>1, TopFacts DEF Frames
<1>3. CASE TooDeep
  <2>1. Returns("ServFail", {})
    BY <1>3 DEF CacheCheck
  <2>2. TrueReturn(top.name, "ServFail", {})
    BY DEF TrueReturn
  <2> QED
    BY <1>1, <2>1, <2>2, ReturnsStep, QuietStep
<1>4. CASE ~TooDeep /\ Cached(top.name, "CNAME") # {}
  <2>1. PICK n \in Cached(top.name, "CNAME") : Restart(n)
    BY <1>4 DEF CacheCheck
  <2>2. n \in Name /\ (Sure(top.name) => n \in Aliases(top.name))
    BY CachedFacts, KeyFacts DEF ResolveInv, TrueSet
  <2>3. StackOK'
    BY <1>1, <1>4, <2>1, <2>2, RestartStep
  <2>4. UNCHANGED result
    BY <1>4 DEF CacheCheck
  <2> QED
    BY <1>1, <2>3, <2>4, Unchanged, QuietStep
<1>5. CASE /\ ~TooDeep /\ Set([top EXCEPT !.phase = "findns"]) /\ UNCHANGED result
  <2>1. StackOK'
    BY <1>1, <1>5, PhaseStep
  <2> QED
    BY <1>1, <1>5, <2>1, Unchanged, QuietStep
<1>6. ASSUME NEW ne \in Negative(top.name),
             Returns(IF ne.type = "0" THEN "NXDomain" ELSE "NoError", {})
      PROVE  ResolveInv'
  <2> DEFINE rcode == IF ne.type = "0" THEN "NXDomain" ELSE "NoError"
  <2>1. ne \in negcache /\ ne.name = top.name /\ ne.type \in {"0", "A"}
    BY DEF Negative
  <2>2. TrueReturn(top.name, rcode, {})
    BY <2>1 DEF TrueReturn, TrueNegative, NegTrue, ResolveInv
  <2>3. rcode \in {"NoError", "NXDomain", "ServFail"} /\ Returns(rcode, {})
    BY <1>6
  <2> HIDE DEF rcode
  <2> QED
    BY <1>1, <2>2, <2>3, ReturnsStep, QuietStep
<1>7. ASSUME Cached(top.name, "A") # {}, Returns("NoError", Cached(top.name, "A"))
      PROVE  ResolveInv'
  <2> DEFINE ips == Cached(top.name, "A")
  <2>1. ips \in SUBSET Name /\ (Sure(top.name) => ips = AddressesOf(top.name))
    BY <1>7, CachedFacts, KeyFacts DEF ResolveInv, TrueSet
  <2>2. TrueReturn(top.name, "NoError", ips)
    BY <1>1, <1>7, <2>1, AddressExists DEF TrueReturn
  <2> HIDE DEF ips
  <2>3. Returns("NoError", ips)
    BY <1>7 DEF ips
  <2> QED
    BY <1>1, <2>1, <2>2, <2>3, ReturnsStep, QuietStep
<1> QED
  BY <1>3, <1>4, <1>5, <1>6, <1>7 DEF CacheCheck

\* The servers chosen are those of a zone above the name.
LEMMA FindNSStep ==
    ASSUME ResolveInv, FindNS
    PROVE  ResolveInv'
<1>1. /\ stack # <<>> /\ Quiet /\ world' = world /\ question' = question /\ UNCHANGED result
      /\ world \in Worlds /\ question \in Name /\ StackOK /\ top.phase = "findns"
  BY DEF FindNS, InPhase, Quiet, env, ResolveInv
<1>2. top \in Frames /\ FrameOK(top) /\ Called(top.name) /\ top.name \in Name
  BY <1>1, TopFacts DEF Frames
<1> DEFINE s == CHOOSE s \in Candidates : \A t \in Candidates : Len(t) <= Len(s)
           been == top.beenthere \cup {BestNS(s)}
           f == [top EXCEPT !.phase = "nextns", !.auth = s, !.nss = Useful(s), !.beenthere = been]
<1>3. s \in Candidates /\ s \in Suffixes(top.name) /\ s \in Name
  <2>1. Candidates \subseteq Suffixes(top.name) /\ Candidates \subseteq Name /\ Candidates # {}
    BY <1>2, SuffixFacts DEF Candidates, FindNS
  <2>2. \E x \in Candidates : \A t \in Candidates : Len(t) <= Len(x)
    BY <1>2, <2>1, ExtremeNames
  <2> QED
    BY <2>1, <2>2
<1>4. Set(f)
  BY DEF FindNS
<1> HIDE DEF s
<1>5. Useful(s) \subseteq Name /\ Useful(s) \subseteq Cached(s, "NS")
  BY CachedFacts DEF Useful, ResolveInv
<1>6. been \in SUBSET BestNSs
  <2>1. BestNS(s) \in BestNSs
    BY <1>2, <1>3, <1>5 DEF BestNS, BestNSs
  <2> QED
    BY <1>2, <2>1 DEF Frames
<1> HIDE DEF been
<1>7. /\ f \in Frames /\ f.phase = "nextns" /\ f.auth = s /\ f.nss = Useful(s) /\ f.name = top.name
      /\ f.retry = top.retry /\ f.ips = top.ips /\ f.depth = top.depth
  BY <1>2, <1>3, <1>5, <1>6 DEF Frames
<1> HIDE DEF f
<1>8. ASSUME Sure(s) PROVE s \in Zones /\ Useful(s) \subseteq world.ns[s]
  <2>1. Cached(s, "NS") # {}
    <3>1. Useful(s) # {}
      BY <1>3 DEF Candidates, Fresh
    <3> QED
      BY <1>5, <3>1
  <2>2. TrueSet(CacheKey(s, "NS"), Cached(s, "NS"))
    BY <2>1, CachedFacts DEF ResolveInv
  <2> QED
    BY <1>5, <1>8, <2>2, KeyFacts DEF TrueSet
<1>9. FrameOK(f)
  BY <1>1, <1>2, <1>3, <1>7, <1>8 DEF FrameOK
<1>10. StackOK'
  BY <1>1, <1>2, <1>4, <1>7, <1>9, SetStep
<1> QED
  BY <1>1, <1>10, Unchanged, QuietStep

\* The root is primed with hints that are true.
LEMMA LostRootStep ==
    ASSUME ResolveInv, LostRoot
    PROVE  ResolveInv'
<1>1. /\ stack # <<>> /\ world' = world /\ question' = question
      /\ world \in Worlds /\ question \in Name /\ StackOK
      /\ UNCHANGED <<expired, asked, negcache, faults>>
  BY DEF LostRoot, InPhase, env, ResolveInv
<1>2. CASE cache' = Primed /\ UNCHANGED <<stack, result>>
  <2>1. CacheType' /\ CacheTrue'
    <3>1. CacheType /\ CacheTrue /\ cache' = Supplanted(HintRecs, TRUE) /\ TRUE \in BOOLEAN
      BY <1>2 DEF ResolveInv, Primed
    <3> QED
      BY <1>1, <3>1, HintFacts, SupplantedFacts
  <2>2. StackOK'
    BY <1>1, <1>2, CallsKept DEF StackOK
  <2> QED
    BY <1>1, <1>2, <2>1, <2>2, Unchanged DEF ResolveInv
<1>3. CASE Returns("ServFail", {}) /\ UNCHANGED cache
  <2>1. TrueReturn(top.name, "ServFail", {})
    BY DEF TrueReturn
  <2>2. StackOK' /\ ResultType' /\ NeverWrong'
    BY <1>1, <1>3, <2>1, ReturnsStep
  <2> QED
    BY <1>1, <1>3, <2>2, Unchanged DEF ResolveInv
<1> QED
  BY <1>2, <1>3 DEF LostRoot

\* The stack with one more call on top of a changed one.
LEMMA PushFacts ==
    ASSUME NEW S, NEW s \in Seq(S), s # <<>>, NEW f \in S, NEW g \in S
    PROVE  /\ Len(s) \in Nat /\ Len(s) >= 1
           /\ <<f, g>> \o Tail(s) \in Seq(S) /\ Len(<<f, g>> \o Tail(s)) = Len(s) + 1
           /\ (<<f, g>> \o Tail(s))[1] = f /\ (<<f, g>> \o Tail(s))[2] = g
           /\ \A i \in 3..(Len(s) + 1) : (<<f, g>> \o Tail(s))[i] = s[i - 1]
<1> DEFINE u == Tail(s)
<1>1. Len(s) \in Nat /\ Len(s) >= 1
  OBVIOUS
<1>2. u \in Seq(S) /\ Len(u) = Len(s) - 1 /\ \A i \in 1..(Len(s) - 1) : u[i] = s[i + 1]
  BY <1>1
<1> HIDE DEF u
<1>3. /\ <<f, g>> \o u \in Seq(S) /\ Len(<<f, g>> \o u) = Len(s) + 1
      /\ (<<f, g>> \o u)[1] = f /\ (<<f, g>> \o u)[2] = g
  BY <1>1, <1>2
<1>4. ASSUME NEW i \in 3..(Len(s) + 1) PROVE (<<f, g>> \o u)[i] = s[i - 1]
  <2>1. i - 2 \in 1..(Len(s) - 1) /\ (i - 2) + 1 = i - 1
    BY <1>1
  <2>2. (<<f, g>> \o u)[i] = u[i - 2]
    BY <1>1, <1>2, <2>1
  <2> QED
    BY <1>2, <2>1, <2>2
<1> QED
  BY <1>1, <1>3, <1>4 DEF u

\* A new call for the address of a name server of the zone.
LEMMA PushStep ==
    ASSUME StackOK, stack # <<>>, world' = world, question' = question,
           NEW f \in Frames, NEW g \in Frames, FrameOK(f), FrameOK(g), CalledBy(f, g),
           g.name = top.name, stack' = <<f, g>> \o Tail(stack)
    PROVE  StackOK'
<1>1. stack \in Seq(Frames) /\ Called(top.name)
  BY TopFacts DEF StackOK
<1>2. /\ Len(stack) \in Nat /\ Len(stack) >= 1
      /\ stack' \in Seq(Frames) /\ Len(stack') = Len(stack) + 1
      /\ stack'[1] = f /\ stack'[2] = g
      /\ \A i \in 3..(Len(stack) + 1) : stack'[i] = stack[i - 1]
  BY <1>1, PushFacts
<1>3. ASSUME NEW i \in 1..Len(stack') PROVE FrameOK(stack'[i])
  <2>1. CASE i \in {1, 2}
    BY <1>2, <2>1
  <2>2. CASE i \notin {1, 2}
    <3>1. i \in 3..(Len(stack) + 1) /\ i - 1 \in 1..Len(stack)
      BY <1>2, <2>2
    <3> QED
      BY <1>2, <3>1 DEF StackOK
  <2> QED
    BY <2>1, <2>2
<1>4. ASSUME NEW i \in 1..(Len(stack') - 1) PROVE CalledBy(stack'[i], stack'[i + 1])
  <2>1. CASE i = 1
    BY <1>2, <2>1
  <2>2. CASE i = 2
    <3>1. Len(stack) > 1 /\ stack'[3] = stack[2] /\ CalledBy(stack[1], stack[2])
      BY <1>2, <2>2 DEF StackOK
    <3>2. CalledBy(g, stack[2])
      BY <1>1, <3>1 DEF Called, CalledBy
    <3> QED
      BY <1>2, <2>2, <3>1, <3>2
  <2>3. CASE i \notin {1, 2}
    <3>1. i \in 3..(Len(stack) + 1) /\ i + 1 \in 3..(Len(stack) + 1) /\ (i + 1) - 1 = i
          /\ i - 1 \in 1..(Len(stack) - 1) /\ (i - 1) + 1 = i
      BY <1>2, <2>3
    <3>2. CalledBy(stack[i - 1], stack[i])
      BY <3>1 DEF StackOK
    <3>3. stack'[i] = stack[i - 1] /\ stack'[i + 1] = stack[i]
      BY <1>2, <3>1
    <3> QED
      BY <3>2, <3>3
  <2> QED
    BY <2>1, <2>2, <2>3
<1>5. Trusted(question) => stack'[Len(stack')].name \in Reach(question)
  <2>1. CASE Len(stack) = 1
    BY <1>1, <1>2, <2>1 DEF Called
  <2>2. CASE Len(stack) # 1
    <3>1. Len(stack') \in 3..(Len(stack) + 1) /\ Len(stack') - 1 = Len(stack)
      <4>1. ASSUME NEW k \in Nat, k >= 1, k # 1 PROVE k + 1 \in 3..(k + 1) /\ (k + 1) - 1 = k
        BY <4>1
      <4>2. Len(stack) \in Nat /\ Len(stack) >= 1 /\ Len(stack') = Len(stack) + 1
        BY <1>2
      <4> QED
        BY <2>2, <4>1, <4>2
    <3>2. stack'[Len(stack')] = stack[Len(stack)]
      BY <1>2, <3>1
    <3> QED
      BY <3>2 DEF StackOK
  <2> QED
    BY <2>1, <2>2
<1> QED
  BY <1>2, <1>3, <1>4, <1>5, CallsKept

\* One name server after the other: their addresses are looked for, unless it is the name
\* itself.
LEMMA NextNSStep ==
    ASSUME ResolveInv, NextNS
    PROVE  ResolveInv'
<1>1. /\ stack # <<>> /\ Quiet /\ world' = world /\ question' = question
      /\ world \in Worlds /\ question \in Name /\ StackOK /\ top.phase = "nextns"
  BY DEF NextNS, InPhase, Quiet, env, ResolveInv
<1>2. top \in Frames /\ FrameOK(top) /\ Called(top.name) /\ top.name \in Name
  BY <1>1, TopFacts DEF Frames
<1>3. CASE Returns("ServFail", {})
  <2>1. TrueReturn(top.name, "ServFail", {})
    BY DEF TrueReturn
  <2> QED
    BY <1>1, <1>3, <2>1, ReturnsStep, QuietStep
<1>4. ASSUME NEW ns \in top.nss, UNCHANGED result,
             NEW rest, rest = [top EXCEPT !.nss = @ \ {ns}, !.ips = {}, !.doTCP = FALSE, !.retry = {}],
             \/ Set(rest)
             \/ stack' = <<Frame(ns, top.depth + 2, top.beenthere), rest>> \o Tail(stack)
      PROVE  ResolveInv'
  <2>1. /\ rest \in Frames /\ rest.name = top.name /\ rest.auth = top.auth /\ rest.phase = "nextns"
        /\ rest.depth = top.depth /\ rest.nss = top.nss \ {ns} /\ rest.ips = {} /\ rest.retry = {}
    <3>1. top.nss \ {ns} \in SUBSET Name
      BY <1>2 DEF Frames
    <3> QED
      BY <1>1, <1>2, <1>4, <3>1 DEF Frames
  <2>2. FrameOK(rest)
    BY <1>1, <1>2, <2>1 DEF FrameOK
  <2>3. CASE Set(rest)
    <3>1. StackOK'
      BY <1>1, <1>2, <2>1, <2>2, <2>3, SetStep
    <3> QED
      BY <1>1, <1>4, <3>1, Unchanged, QuietStep
  <2>4. CASE stack' = <<Frame(ns, top.depth + 2, top.beenthere), rest>> \o Tail(stack)
    <3> DEFINE f == Frame(ns, top.depth + 2, top.beenthere)
    <3>1. ns \in Name /\ top.depth + 2 \in 0..(MaxDepth + 2) /\ top.beenthere \in SUBSET BestNSs
      BY <1>1, <1>2, LimitsAssumption DEF Frames, FrameOK
    <3>2. f \in Frames /\ FrameOK(f) /\ f.name = ns
      BY <1>1, <3>1, FrameFacts
    <3> HIDE DEF f
    <3>3. CalledBy(f, rest)
      BY <1>2, <2>1, <3>2 DEF CalledBy, FrameOK
    <3>4. StackOK'
      BY <1>1, <2>1, <2>2, <2>4, <3>2, <3>3, PushStep DEF f
    <3> QED
      BY <1>1, <1>4, <3>4, Unchanged, QuietStep
  <2> QED
    BY <1>4, <2>3, <2>4
<1> QED
  BY <1>3, <1>4 DEF NextNS

\* All addresses of a name server were tried.
LEMMA AllTriedStep ==
    ASSUME ResolveInv, AllTried
    PROVE  ResolveInv'
<1>1. /\ stack # <<>> /\ Quiet /\ world' = world /\ question' = question /\ UNCHANGED result
      /\ StackOK /\ ~TooDeep /\ Set([top EXCEPT !.phase = "nextns"])
  BY NotTooDeep DEF AllTried, InPhase, Quiet, env, ResolveInv
<1>2. StackOK'
  BY <1>1, PhaseStep
<1> QED
  BY <1>1, <1>2, Unchanged, QuietStep

\* An address is passed over.
LEMMA WithoutStep ==
    ASSUME ResolveInv, stack # <<>>, world' = world, question' = question, NEW ip,
           Set(Without(ip))
    PROVE  StackOK'
<1> DEFINE f == Without(ip)
<1>1. top \in Frames /\ FrameOK(top) /\ Called(top.name) /\ StackOK
  BY TopFacts DEF ResolveInv
<1>2. /\ f \in Frames /\ f.phase = top.phase /\ f.name = top.name /\ f.auth = top.auth
      /\ f.retry = {} /\ f.ips = top.ips \ {ip} /\ f.depth = top.depth /\ f.nss = top.nss
  <2>1. top.ips \ {ip} \in SUBSET Name
    BY <1>1 DEF Frames
  <2> QED
    BY <1>1, <2>1 DEF Frames, Without
<1> HIDE DEF f
<1>3. FrameOK(f)
  BY <1>1, <1>2 DEF FrameOK
<1>4. Set(f)
  BY DEF f
<1> QED
  BY <1>1, <1>2, <1>3, <1>4, SetStep

\* An address that is throttled is passed over.
LEMMA ThrottledStep ==
    ASSUME ResolveInv, NEW ip, Throttled(ip)
    PROVE  ResolveInv'
<1>1. /\ stack # <<>> /\ world' = world /\ question' = question /\ Set(Without(ip))
      /\ UNCHANGED <<cache, negcache, result, faults, expired, asked>>
  BY DEF Throttled, InPhase, env
<1>2. StackOK'
  BY <1>1, WithoutStep
<1> QED
  BY <1>1, <1>2, Unchanged DEF ResolveInv

\* An address of dont-query is passed over.
LEMMA SpareStep ==
    ASSUME ResolveInv, NEW ip, Spare(ip)
    PROVE  ResolveInv'
<1>1. /\ stack # <<>> /\ world' = world /\ question' = question /\ Set(Without(ip))
      /\ UNCHANGED <<cache, negcache, result, faults, expired, asked>>
  BY DEF Spare, InPhase, Quiet, env
<1>2. StackOK'
  BY <1>1, WithoutStep
<1> QED
  BY <1>1, <1>2, Unchanged DEF ResolveInv

\* A lost answer or a refusal.
LEMMA FaultStep ==
    ASSUME ResolveInv, NEW ip, Fault(ip)
    PROVE  ResolveInv'
<1>1. /\ stack # <<>> /\ top.phase = "ask" /\ world' = world /\ question' = question
      /\ UNCHANGED <<cache, negcache, result, expired, asked>>
      /\ (Set(Without(ip)) \/ Set([top EXCEPT !.phase = "nextns"]))
  BY DEF Fault, MayAsk, InPhase, env
<1>2. faults' \in 0..MaxFaults
  BY LimitsAssumption DEF Fault, ResolveInv
<1>3. StackOK'
  <2>1. ~TooDeep
    BY <1>1, NotTooDeep DEF ResolveInv
  <2> QED
    BY <1>1, <2>1, WithoutStep, PhaseStep
<1> QED
  BY <1>1, <1>2, <1>3, Unchanged DEF ResolveInv

\* A truncated answer is asked for again over TCP, where it ends the call.
LEMMA TruncatedStep ==
    ASSUME ResolveInv, NEW ip, Truncated(ip)
    PROVE  ResolveInv'
<1>1. /\ stack # <<>> /\ top.phase = "ask" /\ world' = world /\ question' = question
      /\ UNCHANGED <<cache, negcache, expired, asked>> /\ ip \in Pending
  BY DEF Truncated, MayAsk, InPhase, env
<1>2. faults' \in 0..MaxFaults
  BY LimitsAssumption DEF Truncated, ResolveInv
<1>3. CASE Returns("ServFail", {})
  <2>1. TrueReturn(top.name, "ServFail", {})
    BY DEF TrueReturn
  <2>2. StackOK' /\ ResultType' /\ NeverWrong'
    BY <1>1, <1>3, <2>1, ReturnsStep
  <2> QED
    BY <1>1, <1>2, <2>2, Unchanged DEF ResolveInv
<1>4. CASE Set([top EXCEPT !.doTCP = TRUE, !.retry = {ip}]) /\ UNCHANGED result
  <2> DEFINE f == [top EXCEPT !.doTCP = TRUE, !.retry = {ip}]
  <2>1. top \in Frames /\ FrameOK(top) /\ Called(top.name) /\ StackOK
    BY <1>1, TopFacts DEF ResolveInv
  <2>2. ip \in top.ips /\ ip \in Name
    BY <1>1, <2>1 DEF Pending, FrameOK, Frames
  <2>3. /\ f \in Frames /\ f.phase = top.phase /\ f.name = top.name /\ f.auth = top.auth
        /\ f.retry = {ip} /\ f.ips = top.ips /\ f.depth = top.depth /\ f.nss = top.nss
    BY <2>1, <2>2 DEF Frames
  <2>4. Set(f)
    BY <1>4
  <2> HIDE DEF f
  <2>5. FrameOK(f)
    BY <2>1, <2>2, <2>3 DEF FrameOK
  <2>6. StackOK'
    BY <1>1, <2>1, <2>3, <2>4, <2>5, SetStep
  <2> QED
    BY <1>1, <1>2, <1>4, <2>6, Unchanged DEF ResolveInv
<1> QED
  BY <1>3, <1>4 DEF Truncated
\* What a server that is not careless says is true of every name it speaks of.
LEMMA TruthfulRecords ==
    ASSUME world \in Worlds, NEW n \in Name, NEW a \in Answers, Truthful(n, a),
           NEW k \in Keys(a.recs)
    PROVE  TrueSet(k, Contents(a.recs, k))
<1>1. PICK x \in a.recs : k = CacheKey(x.name, x.type)
  BY DEF Keys
<1>2. k.name = x.name /\ k.type = x.type
  BY <1>1, KeyFacts
<1>3. CASE Refers(n, a)
  <2>1. PICK c \in Zones \cap Suffixes(n) :
           \A y \in a.recs :
              \/ y.type = "NS" /\ y.place = "authority" /\ y.name = c /\ y.to \in world.ns[c]
              \/ /\ y.type = "A" /\ y.place = "additional"
                 /\ Contents(a.recs, CacheKey(y.name, "A")) = AddressesOf(y.name)
    BY <1>3 DEF Refers
  <2>2. CASE x.type = "NS"
    <3>1. x.name = c /\ c \in Zones
      BY <2>1, <2>2
    <3>2. \A to \in Contents(a.recs, CacheKey(c, "NS")) : to \in world.ns[c]
      BY <2>1, ContentsFacts
    <3> QED
      BY <1>1, <1>2, <2>2, <3>1, <3>2 DEF TrueSet
  <2>3. CASE x.type = "A"
    BY <1>1, <1>2, <2>1, <2>3 DEF TrueSet
  <2> QED
    BY <2>1, <2>2, <2>3
<1>4. CASE Informs(n, a)
  BY <1>1, <1>2, <1>4 DEF Informs, TrueSet
<1>5. CASE Denies(n, a)
  BY <1>2, <1>5 DEF Denies, TrueSet
<1> QED
  BY <1>3, <1>4, <1>5 DEF Truthful

\* Records are accepted or not by their names, so sets of records stay whole.
LEMMA AcceptableFacts ==
    ASSUME NEW recs, NEW k \in Keys(Acceptable(recs))
    PROVE  /\ k \in Keys(recs) /\ top.auth \in Suffixes(k.name)
           /\ Contents(Acceptable(recs), k) = Contents(recs, k)
<1>1. PICK x \in recs : k = CacheKey(x.name, x.type) /\ EndsOn(x.name, top.auth)
  BY DEF Keys, Acceptable
<1>2. k.name = x.name /\ k.type = x.type
  BY <1>1, KeyFacts
<1>3. \A y \in recs : CacheKey(y.name, y.type) = k => y.name = x.name
  BY <1>1, KeyFacts
<1>4. \A to : to \in Contents(Acceptable(recs), k) <=> to \in Contents(recs, k)
  BY <1>1, <1>3 DEF Contents, Acceptable
<1> QED
  BY <1>1, <1>2, <1>4 DEF Keys, EndsOn

\* If no careless server has a say in the zone that is asked, the server asked is not one.
LEMMA SureAnswer ==
    ASSUME world \in Worlds, StackOK, stack # <<>>, top.phase = "ask", Sure(top.auth),
           NEW ip \in Pending, NEW a \in Tells(ip, top.name)
    PROVE  Truthful(top.name, a)
<1>1. top \in Frames /\ FrameOK(top) /\ top.name \in Name /\ top.auth \in Name
  BY TopFacts DEF Frames
<1>2. top.auth \in Zones /\ ip \in ServedBy(top.auth)
  BY <1>1 DEF FrameOK, Pending
<1>3. ip \notin world.careless
  BY <1>1, <1>2, SureFacts
<1> QED
  BY <1>1, <1>3, TellsFacts

\* The records that are accepted keep the cache true.
LEMMA AnswerCached ==
    ASSUME ResolveInv, stack # <<>>, top.phase = "ask", world' = world,
           NEW ip \in Pending, NEW a \in Tells(ip, top.name),
           cache' = Supplanted(Acceptable(a.recs), a.aa)
    PROVE  CacheType' /\ CacheTrue'
<1>1. /\ world \in Worlds /\ StackOK /\ CacheType /\ CacheTrue /\ top.name \in Name
  BY TopFacts DEF ResolveInv, Frames
<1>2. a \in Answers
  BY <1>1, TellsFacts
<1>3. a.aa \in BOOLEAN /\ a.recs \subseteq Records
  BY <1>2 DEF Answers
<1>4. \A x \in Acceptable(a.recs) : x.name \in Name /\ x.type \in Recs /\ x.to \in Name
  BY <1>3 DEF Acceptable, Records
<1>5. ASSUME NEW k \in Keys(Acceptable(a.recs))
      PROVE  TrueSet(k, Contents(Acceptable(a.recs), k))
  <2>1. k.name \in Name
    BY <1>4, KeyFacts DEF Keys
  <2>2. CASE Sure(k.name)
    <3>1. Sure(top.auth)
      BY <1>1, <2>1, <2>2, AcceptableFacts, SureFacts
    <3>2. Truthful(top.name, a)
      BY <1>1, <3>1, SureAnswer
    <3>3. TrueSet(k, Contents(a.recs, k))
      BY <1>1, <1>2, <3>2, AcceptableFacts, TruthfulRecords
    <3> QED
      BY <3>3, AcceptableFacts
  <2>3. CASE ~Sure(k.name)
    BY <2>3 DEF TrueSet
  <2> QED
    BY <2>2, <2>3
<1> QED
  BY <1>1, <1>3, <1>4, <1>5, SupplantedFacts
\* An address in an answer comes with all the others, a CNAME is one, and what is neither of
\* them nor a referral says that there is nothing.
LEMMA TruthfulAnswer ==
    ASSUME world \in Worlds, top.name \in Name, NEW a \in Answers, Truthful(top.name, a)
    PROVE  /\ InAnswer(a.recs, "A") # {} =>
                 {x.to : x \in InAnswer(a.recs, "A")} = AddressesOf(top.name)
           /\ \A x \in InAnswer(a.recs, "CNAME") : x.to \in Aliases(top.name)
           /\ a.rcode = "NXDomain" \/ Above(a.recs, "SOA") # {} => Denies(top.name, a)
           /\ InAnswer(a.recs, "A") = {} /\ InAnswer(a.recs, "CNAME") = {} /\ Above(a.recs, "NS") = {}
                 => Denies(top.name, a)
           /\ \A x, y \in Above(a.recs, "NS") : x.name \in Zones /\ y.to \in world.ns[x.name]
<1>1. CASE Refers(top.name, a)
  <2>1. PICK c \in Zones \cap Suffixes(top.name) :
           /\ \A y \in a.recs :
                 \/ y.type = "NS" /\ y.place = "authority" /\ y.name = c /\ y.to \in world.ns[c]
                 \/ y.type = "A" /\ y.place = "additional"
           /\ \E y \in a.recs : y.type = "NS" /\ y.place = "authority" /\ y.name = c
    BY <1>1 DEF Refers
  <2>2. InAnswer(a.recs, "A") = {} /\ InAnswer(a.recs, "CNAME") = {} /\ Above(a.recs, "SOA") = {}
    BY <2>1 DEF InAnswer, Above
  <2>3. Above(a.recs, "NS") # {}
    BY <2>1 DEF Above, EndsOn
  <2>4. a.rcode # "NXDomain"
    BY <1>1 DEF Refers
  <2>5. \A x, y \in Above(a.recs, "NS") : x.name \in Zones /\ y.to \in world.ns[x.name]
    BY <2>1 DEF Above
  <2> QED
    BY <2>2, <2>3, <2>4, <2>5
<1>2. CASE Informs(top.name, a)
  <2>1. /\ a.recs # {} /\ a.rcode # "NXDomain"
        /\ \A x \in a.recs : x.place = "answer" /\ x.name = top.name /\ x.type \in {"A", "CNAME"}
    BY <1>2 DEF Informs
  <2>2. Above(a.recs, "SOA") = {} /\ Above(a.recs, "NS") = {}
    BY <2>1 DEF Above
  <2>3. InAnswer(a.recs, "A") # {} \/ InAnswer(a.recs, "CNAME") # {}
    BY <2>1 DEF InAnswer
  <2>4. ASSUME NEW t, NEW to
        PROVE  to \in {x.to : x \in InAnswer(a.recs, t)} <=> to \in Contents(a.recs, CacheKey(top.name, t))
    BY <2>1, ContentsFacts DEF InAnswer
  <2>5. {x.to : x \in InAnswer(a.recs, "A")} = AddressesOf(top.name)
    <3>1. \A to : to \in {x.to : x \in InAnswer(a.recs, "A")} <=> to \in AddressesOf(top.name)
      BY <1>2, <2>4 DEF Informs
    <3> QED
      BY <3>1
  <2>6. \A x \in InAnswer(a.recs, "CNAME") : x.to \in Aliases(top.name)
    BY <1>2, <2>4 DEF Informs
  <2> QED
    BY <2>1, <2>2, <2>3, <2>5, <2>6
<1>3. CASE Denies(top.name, a)
  <2>1. InAnswer(a.recs, "A") = {} /\ InAnswer(a.recs, "CNAME") = {} /\ Above(a.recs, "NS") = {}
    BY <1>3 DEF Denies, InAnswer, Above
  <2> QED
    BY <1>3, <2>1
<1> QED
  BY <1>1, <1>2, <1>3 DEF Truthful

\* What servers deny is cached as denied.
LEMMA DenialCached ==
    ASSUME ResolveInv, stack # <<>>, world' = world, top.name \in Name, NEW a \in Answers,
           Sure(top.name) => Truthful(top.name, a), negcache' = NegInserted(a)
    PROVE  NegType' /\ NegTrue'
<1>1. world \in Worlds /\ NegType /\ NegTrue
  BY DEF ResolveInv
<1>2. ASSUME NEW ne \in NegEntries(a)
      PROVE  /\ ne \in [name : Name, type : {"0", "A"}, soa : Name]
             /\ ne.soa \in Suffixes(ne.name) /\ TrueNegative(ne)
  <2> DEFINE type == IF a.rcode = "NXDomain" THEN "0" ELSE "A"
  <2>1. PICK x \in Above(a.recs, "SOA") : ne = [name |-> top.name, type |-> type, soa |-> x.name]
    BY DEF NegEntries
  <2>2. x.name \in Name /\ x.name \in Suffixes(top.name)
    BY DEF Above, EndsOn, Answers, Records
  <2>3. ne.name = top.name /\ ne.type = type /\ ne.soa = x.name /\ type \in {"0", "A"}
    BY <2>1
  <2>4. ne \in [name : Name, type : {"0", "A"}, soa : Name]
    BY <2>1, <2>2, <2>3
  <2>5. ASSUME Sure(top.name) PROVE Denies(top.name, a)
    BY <1>1, <2>1, <2>5, TruthfulAnswer
  <2>6. TrueNegative(ne)
    BY <2>3, <2>5 DEF TrueNegative, Denies
  <2> QED
    BY <2>2, <2>3, <2>4, <2>6
<1>3. \A ne \in negcache' : ne \in negcache \/ ne \in NegEntries(a)
  BY DEF NegInserted
<1>4. NegType'
  BY <1>1, <1>2, <1>3 DEF NegType
<1>5. \A ne \in negcache' : TrueNegative(ne)
  BY <1>1, <1>2, <1>3 DEF NegTrue
<1> QED
  BY <1>4, <1>5, TruthKept

\* A referral to a zone further down names its servers.
LEMMA ReferralStep ==
    ASSUME ResolveInv, stack # <<>>, top.phase = "ask", world' = world, question' = question,
           NEW a \in Answers, Sure(top.auth) => Truthful(top.name, a),
           NEW x \in Above(a.recs, "NS"), Len(x.name) > Len(top.auth),
           Set([top EXCEPT !.phase = "nextns", !.auth = x.name,
                           !.nss = {y.to : y \in Above(a.recs, "NS")}])
    PROVE  StackOK'
<1> DEFINE nss == {y.to : y \in Above(a.recs, "NS")}
           f == [top EXCEPT !.phase = "nextns", !.auth = x.name, !.nss = nss]
<1>1. /\ top \in Frames /\ FrameOK(top) /\ Called(top.name) /\ StackOK /\ world \in Worlds
      /\ top.name \in Name /\ top.auth \in Suffixes(top.name)
  BY TopFacts DEF ResolveInv, Frames, FrameOK
<1>2. x.name \in Name /\ x.name \in Suffixes(top.name) /\ nss \in SUBSET Name
  BY DEF Above, EndsOn, Answers, Records
<1>3. ASSUME Sure(x.name) PROVE x.name \in Zones /\ nss \subseteq world.ns[x.name]
  <2>1. top.auth \in Suffixes(x.name)
    <3>1. Len(top.auth) \in Nat /\ Len(x.name) \in Nat
      BY <1>1, <1>2, SuffixFacts DEF Name
    <3>2. Len(top.auth) <= Len(x.name)
      BY <3>1
    <3> QED
      BY <1>1, <1>2, <3>2, SuffixesNested
  <2>2. Sure(top.auth)
    BY <1>1, <1>2, <1>3, <2>1, SureFacts
  <2> QED
    BY <1>1, <2>2, TruthfulAnswer
<1>4. Set(f)
  OBVIOUS
<1> HIDE DEF nss
<1>5. /\ f \in Frames /\ f.phase = "nextns" /\ f.name = top.name /\ f.auth = x.name /\ f.nss = nss
      /\ f.retry = top.retry /\ f.ips = top.ips /\ f.depth = top.depth
  BY <1>1, <1>2 DEF Frames
<1> HIDE DEF f
<1>6. FrameOK(f)
  BY <1>1, <1>2, <1>3, <1>5 DEF FrameOK
<1> QED
  BY <1>1, <1>4, <1>5, <1>6, SetStep
\* An answer.
LEMMA AnswerStep ==
    ASSUME ResolveInv, NEW ip, Answer(ip)
    PROVE  ResolveInv'
<1>1. /\ stack # <<>> /\ top.phase = "ask" /\ world' = world /\ question' = question
      /\ UNCHANGED <<faults, expired, asked>> /\ ip \in Pending
  BY DEF Answer, MayAsk, InPhase, env
<1>2. PICK a \in Tells(ip, top.name) : Process(ip, a)
  BY DEF Answer
<1>3. /\ world \in Worlds /\ question \in Name /\ StackOK /\ ~TooDeep
      /\ top.name \in Name /\ top.auth \in Suffixes(top.name)
  BY <1>1, TopFacts, NotTooDeep DEF ResolveInv, Frames, FrameOK
<1>4. a \in Answers /\ (Sure(top.auth) => Truthful(top.name, a))
  BY <1>1, <1>3, TellsFacts, SureAnswer
<1>5. Sure(top.name) => Truthful(top.name, a)
  BY <1>3, <1>4, SureFacts
<1> DEFINE answers == {x.to : x \in InAnswer(a.recs, "A")}
           targets == {x.to : x \in InAnswer(a.recs, "CNAME")}
           ns == Above(a.recs, "NS")
           deeper == {x \in ns : Len(x.name) > Len(top.auth)}
<1>6. /\ cache' = Supplanted(Acceptable(a.recs), a.aa)
      /\ negcache' = NegInserted(a)
      /\ \/ answers # {} /\ Returns("NoError", answers)
         \/ a.rcode = "NXDomain" /\ Returns("NXDomain", {})
         \/ Returns("ServFail", {})
         \/ \E n \in targets : Restart(n) /\ UNCHANGED result
         \/ /\ answers = {} /\ targets = {} /\ a.rcode = "NoError" /\ ns = {}
            /\ Returns("NoError", {})
         \/ /\ \E x \in deeper :
                  Set([top EXCEPT !.phase = "nextns", !.auth = x.name, !.nss = {y.to : y \in ns}])
            /\ UNCHANGED result
         \/ Set(Without(ip)) /\ UNCHANGED result
  BY <1>2 DEF Process
<1>7. CacheType' /\ CacheTrue' /\ NegType' /\ NegTrue'
  BY <1>1, <1>3, <1>4, <1>5, <1>6, AnswerCached, DenialCached
<1>8. answers \in SUBSET Name /\ targets \in SUBSET Name
  BY <1>4 DEF InAnswer, Answers, Records
<1>9. ASSUME StackOK', ResultType', NeverWrong' PROVE ResolveInv'
  BY <1>1, <1>7, <1>9 DEF ResolveInv
<1>10. ASSUME StackOK', UNCHANGED result PROVE ResolveInv'
  BY <1>1, <1>9, <1>10, Unchanged
<1>11. ASSUME NEW rcode \in {"NoError", "NXDomain", "ServFail"}, NEW ips \in SUBSET Name,
              TrueReturn(top.name, rcode, ips), Returns(rcode, ips)
       PROVE  ResolveInv'
  BY <1>1, <1>9, <1>11, ReturnsStep
<1>12. CASE answers # {} /\ Returns("NoError", answers)
  <2>1. Sure(top.name) => answers = AddressesOf(top.name)
    BY <1>3, <1>4, <1>5, <1>12, TruthfulAnswer
  <2> HIDE DEF answers
  <2>2. TrueReturn(top.name, "NoError", answers)
    BY <1>3, <1>12, <2>1, AddressExists DEF TrueReturn
  <2> QED
    BY <1>8, <1>11, <1>12, <2>2
<1>13. CASE a.rcode = "NXDomain" /\ Returns("NXDomain", {})
  <2>1. Sure(top.name) => Denies(top.name, a)
    BY <1>3, <1>4, <1>5, <1>13, TruthfulAnswer
  <2>2. TrueReturn(top.name, "NXDomain", {})
    BY <1>13, <2>1 DEF TrueReturn, Denies
  <2> QED
    BY <1>11, <1>13, <2>2
<1>14. CASE Returns("ServFail", {})
  <2>1. TrueReturn(top.name, "ServFail", {})
    BY DEF TrueReturn
  <2> QED
    BY <1>11, <1>14, <2>1
<1>15. ASSUME NEW n \in targets, Restart(n), UNCHANGED result PROVE ResolveInv'
  <2>1. n \in Name /\ (Sure(top.name) => n \in Aliases(top.name))
    BY <1>3, <1>4, <1>5, <1>8, TruthfulAnswer
  <2>2. StackOK'
    BY <1>1, <1>3, <1>15, <2>1, RestartStep
  <2> QED
    BY <1>10, <1>15, <2>2
<1>16. CASE /\ answers = {} /\ targets = {} /\ a.rcode = "NoError" /\ ns = {}
            /\ Returns("NoError", {})
  <2>1. InAnswer(a.recs, "A") = {} /\ InAnswer(a.recs, "CNAME") = {}
    BY <1>16
  <2>2. Sure(top.name) => Denies(top.name, a)
    BY <1>3, <1>4, <1>5, <1>16, <2>1, TruthfulAnswer
  <2>3. TrueReturn(top.name, "NoError", {})
    BY <1>16, <2>2 DEF TrueReturn, Denies
  <2> QED
    BY <1>11, <1>16, <2>3
<1>17. ASSUME NEW x \in deeper, UNCHANGED result,
              Set([top EXCEPT !.phase = "nextns", !.auth = x.name, !.nss = {y.to : y \in ns}])
       PROVE  ResolveInv'
  <2>1. StackOK'
    BY <1>1, <1>4, <1>17, ReferralStep
  <2> QED
    BY <1>10, <1>17, <2>1
<1>18. CASE Set(Without(ip)) /\ UNCHANGED result
  BY <1>1, <1>10, <1>18, WithoutStep
<1> HIDE DEF answers, targets, ns, deeper
<1> QED
  BY <1>6, <1>12, <1>13, <1>14, <1>15, <1>16, <1>17, <1>18

\* What is left when an entry expires is as true as before.
LEMMA ExpireStep ==
    ASSUME ResolveInv, Expire
    PROVE  ResolveInv'
<1>1. world' = world /\ UNCHANGED <<stack, question, result, asked>>
  BY DEF Expire
<1>2. faults' \in 0..MaxFaults /\ expired' \in 0..MaxExpire
  BY LimitsAssumption DEF Expire, ResolveInv
<1>3. CacheType' /\ CacheTrue'
  <2>1. CASE UNCHANGED cache
    BY <1>1, <2>1, Unchanged
  <2>2. ASSUME NEW k \in DOMAIN cache, cache' = [x \in DOMAIN cache \ {k} |-> cache[x]]
        PROVE  CacheType' /\ CacheTrue'
    <3>1. /\ DOMAIN cache' \subseteq DOMAIN cache
          /\ \A x \in DOMAIN cache' : cache'[x] = cache[x]
      BY <2>2
    <3> QED
      BY <1>1, <3>1, TruthKept DEF ResolveInv, CacheType, CacheTrue
  <2> QED
    BY <2>1, <2>2 DEF Expire
<1>4. NegType' /\ NegTrue'
  <2>1. negcache' \subseteq negcache
    BY DEF Expire
  <2> QED
    BY <1>1, <2>1, TruthKept DEF ResolveInv, NegType, NegTrue
<1>5. StackOK'
  BY <1>1, CallsKept DEF ResolveInv, StackOK
<1> QED
  BY <1>1, <1>2, <1>3, <1>4, <1>5, Unchanged DEF ResolveInv

\* A new question.
LEMMA BeginResolveStep ==
    ASSUME ResolveInv, NEW n \in AskedNames, BeginResolve(n)
    PROVE  ResolveInv'
<1>1. /\ world' = world /\ UNCHANGED <<cache, negcache, faults, expired>>
      /\ world \in Worlds /\ n \in Name
      /\ question' = n /\ result' = [rcode |-> "none", ips |-> {}] /\ stack' = <<Frame(n, 0, {})>>
  BY NamesAssumption DEF BeginResolve, ResolveInv
<1>2. asked' \in 0..MaxQuestions
  BY LimitsAssumption DEF BeginResolve, ResolveInv
<1>3. ResultType' /\ NeverWrong'
  BY <1>1 DEF ResultType, NeverWrong
<1>4. StackOK'
  <2> DEFINE f == Frame(n, 0, {})
  <2>1. 0 \in 0..(MaxDepth + 2) /\ {} \in SUBSET BestNSs
    BY LimitsAssumption
  <2>2. f \in Frames /\ FrameOK(f) /\ f.name = n
    BY <1>1, <2>1, FrameFacts
  <2> HIDE DEF f
  <2>3. /\ stack' \in Seq(Frames) /\ Len(stack') = 1 /\ stack'[1] = f
    BY <1>1, <2>2 DEF f
  <2>4. f.name \in Reach(n)
    BY <1>1, <2>2, ReachFacts
  <2> QED
    BY <1>1, <2>2, <2>3, <2>4, WorldKept DEF StackOK, FrameOK
<1> QED
  BY <1>1, <1>2, <1>3, <1>4, Unchanged DEF ResolveInv

\* All is right at first, with the hints in the cache.
LEMMA ResolveInitInv ==
    ASSUME ResolveInit
    PROVE  ResolveInv
<1>1. world \in Worlds /\ DOMAIN cache = Keys(HintRecs)
  BY DEF ResolveInit
<1>2. ASSUME NEW k \in DOMAIN cache
      PROVE  /\ cache[k] = [recs |-> Contents(HintRecs, k), auth |-> TRUE]
             /\ k \in [name : Name, type : Recs] /\ Contents(HintRecs, k) \in SUBSET Name
             /\ Contents(HintRecs, k) # {} /\ TrueSet(k, Contents(HintRecs, k))
  <2>1. PICK x \in HintRecs : k = CacheKey(x.name, x.type)
    BY <1>1 DEF Keys
  <2>2. x.to \in Contents(HintRecs, k)
    BY <2>1 DEF Contents
  <2>3. Contents(HintRecs, k) \in SUBSET Name
    BY <1>1, HintFacts DEF Contents
  <2>4. cache[k] = [recs |-> Contents(HintRecs, k), auth |-> TRUE]
    BY <1>1 DEF ResolveInit, Contents
  <2> QED
    BY <1>1, <2>1, <2>2, <2>3, <2>4, HintFacts, KeyFacts
<1>3. CacheType /\ CacheTrue
  <2>1. ASSUME NEW k \in DOMAIN cache
        PROVE  /\ cache[k] \in [recs : SUBSET Name, auth : BOOLEAN] /\ cache[k].recs # {}
               /\ TrueSet(k, cache[k].recs)
    <3> DEFINE S == Contents(HintRecs, k)
    <3>1. S \in SUBSET Name /\ S # {} /\ TrueSet(k, S) /\ cache[k] = [recs |-> S, auth |-> TRUE]
      BY <1>2
    <3> HIDE DEF S
    <3>2. ASSUME NEW T \in SUBSET Name, NEW b \in BOOLEAN
          PROVE  /\ [recs |-> T, auth |-> b] \in [recs : SUBSET Name, auth : BOOLEAN]
                 /\ [recs |-> T, auth |-> b].recs = T
      BY Zenon
    <3>3. TRUE \in BOOLEAN
      OBVIOUS
    <3>4. cache[k] \in [recs : SUBSET Name, auth : BOOLEAN] /\ cache[k].recs = S
      BY <3>1, <3>2, <3>3, Zenon
    <3> QED
      BY <3>1, <3>4
  <2> QED
    BY <1>2, <2>1 DEF CacheType, CacheTrue
<1>4. NegType /\ NegTrue /\ StackOK
  BY DEF ResolveInit, NegType, NegTrue, StackOK
<1>5. ResultType /\ NeverWrong
  BY DEF ResolveInit, ResultType, NeverWrong
<1>6. question \in Name /\ faults \in 0..MaxFaults /\ expired \in 0..MaxExpire /\ asked \in 0..MaxQuestions
  BY LimitsAssumption, RootAbove, NamesAssumption DEF ResolveInit
<1> QED
  BY <1>1, <1>3, <1>4, <1>5, <1>6 DEF ResolveInv

\* Every step keeps all right.
LEMMA ResolveStep ==
    ASSUME ResolveInv, [ResolveNext]_resolveVars
    PROVE  ResolveInv'
<1>1. CASE Resolve
  BY <1>1, CacheCheckStep, FindNSStep, LostRootStep, NextNSStep, AllTriedStep, ThrottledStep,
     SpareStep, FaultStep, TruncatedStep, AnswerStep DEF Resolve
<1>2. CASE Expire
  BY <1>2, ExpireStep
<1>3. CASE \E n \in AskedNames : BeginResolve(n)
  BY <1>3, BeginResolveStep
<1>4. CASE UNCHANGED resolveVars
  <2>1. UNCHANGED <<world, cache, negcache, stack, question, result, faults, expired, asked>>
    BY <1>4 DEF resolveVars
  <2>2. StackOK'
    BY <2>1, CallsKept DEF ResolveInv, StackOK
  <2> QED
    BY <2>1, <2>2, Unchanged DEF ResolveInv
<1> QED
  BY <1>1, <1>2, <1>3, <1>4 DEF ResolveNext

\* What the caches hold of names in which no careless server has a say is what the zones
\* hold, every call asks the zone's own servers, and what a call returns is true.
THEOREM ResolveInvariant == ResolveSpec => []ResolveInv
<1>1. ResolveInit => ResolveInv
  BY ResolveInitInv
<1>2. ResolveInv /\ [ResolveNext]_resolveVars => ResolveInv'
  BY ResolveStep
<1> QED
  BY <1>1, <1>2, PTL DEF ResolveSpec

\* Only addresses that are cached are in their last seconds: what expires leaves both, and
\* what is stored stays (MemRecursorCache::replace, getBestNSFromCache).
LEMMA LateCached == ResolveSpec => [](late \subseteq DOMAIN cache)
<1>1. ResolveInit => late \subseteq DOMAIN cache
  BY DEF ResolveInit
<1>2. late \subseteq DOMAIN cache /\ [ResolveNext]_resolveVars => (late \subseteq DOMAIN cache)'
  <2> SUFFICES ASSUME late \subseteq DOMAIN cache, [ResolveNext]_resolveVars
               PROVE  late' \subseteq DOMAIN cache'
    OBVIOUS
  <2>1. ASSUME UNCHANGED <<cache, late>> PROVE late' \subseteq DOMAIN cache'
    BY <2>1
  <2>2. ASSUME NEW recs, NEW auth, cache' = Supplanted(recs, auth), late' \subseteq late
        PROVE  late' \subseteq DOMAIN cache'
    BY <2>2 DEF Supplanted
  <2>3. ASSUME NEW ip, Answer(ip) PROVE late' \subseteq DOMAIN cache'
    BY <2>2, <2>3 DEF Answer, Process
  <2>4. CASE LostRoot
    BY <2>1, <2>2, <2>4 DEF LostRoot, Primed
  <2>5. CASE Expire
    BY <2>1, <2>5 DEF Expire
  <2>6. ASSUME NEW ip, Throttled(ip) \/ Spare(ip) \/ Fault(ip) \/ Truncated(ip)
        PROVE  UNCHANGED <<cache, late>>
    BY <2>6 DEF Throttled, Spare, Fault, Truncated, Quiet
  <2>7. CacheCheck \/ FindNS \/ NextNS \/ AllTried => UNCHANGED <<cache, late>>
    BY DEF CacheCheck, FindNS, NextNS, AllTried, Quiet
  <2>8. ASSUME NEW n, BeginResolve(n) PROVE UNCHANGED <<cache, late>>
    BY <2>8 DEF BeginResolve
  <2>9. UNCHANGED resolveVars => UNCHANGED <<cache, late>>
    BY DEF resolveVars
  <2> QED
    BY <2>1, <2>3, <2>4, <2>5, <2>6, <2>7, <2>8, <2>9 DEF ResolveNext, Resolve
<1> QED
  BY <1>1, <1>2, PTL DEF ResolveSpec

\* The bounds on the depth of calls, and the shapes of the caches (syncres.cc:588).
THEOREM ResolveTypeCorrect == ResolveSpec => []ResolveTypeOK
<1>1. ResolveInv /\ late \subseteq DOMAIN cache => ResolveTypeOK
  <2> SUFFICES ASSUME ResolveInv, late \subseteq DOMAIN cache PROVE ResolveTypeOK
    OBVIOUS
  <2>1. \A k \in DOMAIN cache : k.type \in Recs /\ cache[k].recs # {} /\ cache[k].auth \in BOOLEAN
    BY DEF ResolveInv, CacheType
  <2>2. \A ne \in negcache : ne.type \in {"0", "A"} /\ ne.soa \in Suffixes(ne.name)
    BY DEF ResolveInv, NegType
  <2>3. ASSUME NEW i \in 1..Len(stack)
        PROVE  /\ stack[i].depth \in 0..(MaxDepth + 2)
               /\ stack[i].phase \in {"resolve", "findns", "nextns", "ask"}
               /\ stack[i].retry \subseteq stack[i].ips
    <3>1. stack[i] \in Frames /\ FrameOK(stack[i])
      BY DEF ResolveInv, StackOK
    <3> QED
      BY <3>1, LimitsAssumption DEF Frames, FrameOK
  <2>4. result.rcode \in {"none", "NoError", "NXDomain", "ServFail"}
    BY DEF ResolveInv, ResultType
  <2> QED
    BY <2>1, <2>2, <2>3, <2>4 DEF ResolveTypeOK, ResolveInv
<1> QED
  BY <1>1, ResolveInvariant, LateCached, PTL

\* Answers are right wherever only careful servers have a say (Acceptable, syncres.cc:967;
\* the caches, recursor_cache.cc): for every world, any number of zones, names and
\* questions, and in all orders of what is lost and what expires.
THEOREM AnswersAreRight == ResolveSpec => []NeverWrong
<1>1. ResolveInv => NeverWrong
  BY DEF ResolveInv
<1> QED
  BY <1>1, ResolveInvariant, PTL

=============================================================================

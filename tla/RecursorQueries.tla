-------------------------- MODULE RecursorQueries --------------------------
(***************************************************************************)
(* How a thread of the recursor asks other nameservers over UDP.  MThreads  *)
(* (mtasker.cc) are coroutines: one runs at a time, until it waits for an   *)
(* event or ends; the kernel - recursorThread and the handlers called from  *)
(* its multiplexer - runs in between.  An mthread that asks a question      *)
(* opens a socket and waits for the answer (asendto, arecvfrom), or, when   *)
(* another one waits for an answer to the same question already, chains     *)
(* onto it; handleUDPServerResponse wakes the mthreads chained onto a       *)
(* waiter (doResends), then the waiter itself, then closes the socket.      *)
(* Each of them runs on as soon as it is woken and may ask again before the *)
(* handler goes on.                                                         *)
(*                                                                          *)
(* A question is a server, a name and a type; all questions of a run are    *)
(* to one server.                                                           *)
(***************************************************************************)
EXTENDS Integers, FiniteSets

CONSTANTS
    MThreads,     \* identities for mthreads
    Questions,
    Ids,          \* values of the random 16-bit DNS ID
    Fds,          \* file descriptors the operating system has for sockets
    Chained,      \* the descriptor of a waiter that has no socket (-1)
    NoWaiter,     \* not in d_waiters
    NoQuestion,   \* the question of an answer with an empty question section
    MaxMThreads,  \* max-mthreads
    Timeout,      \* network-timeout, in ticks of the clock
    MaxAsks       \* bound on the questions an mthread asks

\* A PacketID, and a waiter in d_waiters: the PacketID it waits for, the IDs
\* chained onto that, and the ticks until its ttd.
Key == [q : Questions, fd : Fds \cup {Chained}, id : Ids]
Waiter == [key : Key, chain : SUBSET Ids, left : 0..Timeout]

ASSUME IdAssumption == Ids \subseteq Nat \ {0}
ASSUME NoneAssumption == /\ Chained \notin Fds
                         /\ NoQuestion \notin Questions
                         /\ NoWaiter \notin Waiter
ASSUME BoundAssumption == MaxMThreads \in Nat /\ Timeout \in Nat /\ MaxAsks \in Nat

VARIABLES
    state,    \* what each mthread is doing
    waiter,   \* d_waiters: the entry of each mthread
    asks,     \* the questions it has asked
    socks,    \* d_socks, all registered with the multiplexer
    kernel    \* what the kernel does when it gets control back

vars == <<state, waiter, asks, socks, kernel>>

\* The kernel loop of recursorThread: in schedule, in schedule's loop over the
\* waiters whose time has come, or in the multiplexer's run.
Schedule == [pc |-> "schedule"]
Timeouts == [pc |-> "timeouts"]
Events == [pc |-> "events"]

\* It is in handleUDPServerResponse with the PacketID made from the packet; at:
\* the ID doResends is at; closed: it has returned the socket already.
Handling == kernel.pc \in {"resend", "wake", "return"}
Handler == [pc : {"resend", "wake", "return"}, key : Key, at : Nat, closed : BOOLEAN]

Init ==
    /\ state = [m \in MThreads |-> "none"]
    /\ waiter = [m \in MThreads |-> NoWaiter]
    /\ asks = [m \in MThreads |-> 0]
    /\ socks = {}
    /\ kernel = Schedule

Waiting == {m \in MThreads : state[m] = "waiting"}
key(m) == waiter[m].key
Leaders == {m \in Waiting : key(m).fd # Chained}

\* d_waiters.find(): at most one mthread waits for a key.
WaitsFor(k) == {m \in Waiting : key(m) = k}

InKernel == \A m \in MThreads : state[m] # "running"
-----------------------------------------------------------------------------
(* The running mthread: asendto and arecvfrom.                               *)

\* The mthread gives up control; the others' entries are those of ws.
WaitOn(m, k, ws) ==
    /\ state' = [state EXCEPT ![m] = "waiting"]
    /\ waiter' = [ws EXCEPT ![m] = [key |-> k, chain |-> {}, left |-> Timeout]]

\* waitEvent: an error when there is a waiter with the same key.
waitEvent(m, k, ws) ==
    \/ WaitsFor(k) = {} /\ WaitOn(m, k, ws)
    \/ WaitsFor(k) # {} /\ waiter' = ws /\ UNCHANGED state

\* Mutated ChainsOnto: no look for an outstanding request.
ChainsOntoNone(q) == {}

\* The waiters a question can be chained onto: those with a socket.
ChainsOnto(q) == {w \in Leaders : key(w).q = q}

\* asendto finds a waiter for the same question.
AskChained(m, q, id) ==
    \E w \in ChainsOnto(q) :
        /\ waitEvent(m, [q |-> q, fd |-> Chained, id |-> id],
                     [waiter EXCEPT ![w].chain = @ \cup {id}])
        /\ UNCHANGED socks

\* asendto gets a socket and sends the question, which arecvfrom waits for; when
\* waitEvent fails, arecvfrom returns the socket.
AskNew(m, q, id) ==
    /\ ChainsOnto(q) = {}
    /\ \E fd \in Fds \ socks :
          LET k == [q |-> q, fd |-> fd, id |-> id] IN
          /\ waitEvent(m, k, waiter)
          /\ socks' = IF WaitsFor(k) = {} THEN socks \cup {fd} ELSE socks

\* asendto has no socket, or send() fails and the socket is returned.
AskFailed(q) ==
    /\ ChainsOnto(q) = {}
    /\ UNCHANGED <<state, waiter, socks>>

\* asyncresolve over UDP.
Ask(m, q) ==
    /\ state[m] = "running"
    /\ asks[m] < MaxAsks
    /\ asks' = [asks EXCEPT ![m] = @ + 1]
    /\ \/ \E id \in Ids : AskChained(m, q, id) \/ AskNew(m, q, id)
       \/ AskFailed(q)
    /\ UNCHANGED kernel

\* The mthread's function returns (threadWrapper).
Finish(m) ==
    /\ state[m] = "running"
    /\ state' = [state EXCEPT ![m] = "zombie"]
    /\ UNCHANGED <<waiter, asks, socks, kernel>>
-----------------------------------------------------------------------------
(* MTasker, as the kernel uses it.                                           *)

\* makeThread, for a new question of a client (doProcessUDPQuestion).
makeThread(m) ==
    /\ InKernel /\ kernel = Events
    /\ state[m] = "none"
    /\ Cardinality({n \in MThreads : state[n] # "none"}) <= MaxMThreads
    /\ state' = [state EXCEPT ![m] = "ready"]
    /\ UNCHANGED <<waiter, asks, socks, kernel>>

\* schedule: an mthread of the run queue gets control ...
RunNext(m) ==
    /\ InKernel /\ kernel = Schedule
    /\ state[m] = "ready"
    /\ state' = [state EXCEPT ![m] = "running"]
    /\ UNCHANGED <<waiter, asks, socks, kernel>>

\* ... or one that has ended is cleaned up ...
Reap(m) ==
    /\ InKernel /\ kernel = Schedule
    /\ \A n \in MThreads : state[n] # "ready"
    /\ state[m] = "zombie"
    /\ state' = [state EXCEPT ![m] = "none"]
    /\ asks' = [asks EXCEPT ![m] = 0]
    /\ UNCHANGED <<waiter, socks, kernel>>

\* ... or there are neither, and the waiters are looked at ...
LookAtWaiters ==
    /\ InKernel /\ kernel = Schedule
    /\ \A m \in MThreads : state[m] \notin {"ready", "zombie"}
    /\ kernel' = Timeouts
    /\ UNCHANGED <<state, waiter, asks, socks>>

\* Mutated TimedOut: the socket of a question without an answer is kept.
TimedOutLeak(m) == socks

\* arecvfrom returns the socket of a question that timed out.
TimedOut(m) == socks \ {key(m).fd}

\* Mutated Resume: the entry of the woken mthread stays in d_waiters.
ResumeKept(ms) ==
    /\ state' = [m \in MThreads |-> IF m \in ms THEN "running" ELSE state[m]]
    /\ UNCHANGED waiter

\* The mthreads that get control; their entries are erased.
Resume(ms) ==
    /\ state' = [m \in MThreads |-> IF m \in ms THEN "running" ELSE state[m]]
    /\ waiter' = [m \in MThreads |-> IF m \in ms THEN NoWaiter ELSE waiter[m]]

\* Mutated Expired: a chained waiter has no ttd.
ExpiredLeader(m) == waiter[m].left = 0 /\ key(m).fd # Chained

Expired(m) == waiter[m].left = 0

\* ... and those whose time has come are woken without an answer ...
TimeOut(m) ==
    /\ InKernel /\ kernel = Timeouts
    /\ state[m] = "waiting" /\ Expired(m)
    /\ Resume({m})
    /\ socks' = TimedOut(m)
    /\ UNCHANGED <<asks, kernel>>

\* ... until there are none, and the kernel waits for packets.
EndSchedule ==
    /\ InKernel /\ kernel = Timeouts
    /\ \A m \in Waiting : ~Expired(m)
    /\ kernel' = Events
    /\ UNCHANGED <<state, waiter, asks, socks>>

\* The multiplexer's run has called the handlers of what had arrived.
EndEvents ==
    /\ InKernel /\ kernel = Events
    /\ kernel' = Schedule
    /\ UNCHANGED <<state, waiter, asks, socks>>

\* sendEvent: the waiter for the key, if there is one, gets control.
sendEvent(k) == Resume(WaitsFor(k))

Less(k) == IF k = 0 THEN 0 ELSE k - 1

Tick ==
    /\ InKernel /\ kernel = Events
    /\ \E m \in Waiting : waiter[m].left > 0
    /\ waiter' = [m \in MThreads |-> IF m \in Waiting THEN [waiter[m] EXCEPT !.left = Less(@)]
                                     ELSE waiter[m]]
    /\ UNCHANGED <<state, asks, socks, kernel>>
-----------------------------------------------------------------------------
(* handleUDPServerResponse.                                                  *)

Handle(pc, k, closed) == [pc |-> pc, key |-> k, at |-> 0, closed |-> closed]

\* The PacketID the socket was registered with.
Registered(fd) == {key(m) : m \in {w \in Waiting : key(w).fd = fd}}

\* An error or a packet shorter than a DNS header: the socket is returned before
\* anybody is woken.
ReceiveShort(fd) ==
    /\ InKernel /\ kernel = Events
    /\ fd \in socks
    /\ socks' = socks \ {fd}
    /\ \E k \in Registered(fd) : kernel' = Handle("resend", k, TRUE)
    /\ UNCHANGED <<state, waiter, asks>>

\* The PacketID of an answer with the given ID and question.  One with an empty
\* question section is taken to be for the question of a waiter with the ID.
PacketIDs(fd, id, q) ==
    IF q # NoQuestion THEN {[q |-> q, fd |-> fd, id |-> id]}
    ELSE {[q |-> key(m).q, fd |-> fd, id |-> id] : m \in {w \in Waiting : key(w).id = id}}

\* An answer: those chained onto the waiter are woken first, except when the
\* question section was empty, as doResends is behind the first, failing find.
\* An answer nobody waits for is discarded (and so are questions and garbage).
Receive(fd, id, q) ==
    /\ InKernel /\ kernel = Events
    /\ fd \in socks
    /\ \E k \in PacketIDs(fd, id, q) :
          /\ WaitsFor(k) # {}
          /\ kernel' = Handle(IF q = NoQuestion THEN "wake" ELSE "resend", k, FALSE)
    /\ UNCHANGED <<state, waiter, asks, socks>>

\* The IDs doResends has not reached yet.
ToResend == UNION {{i \in waiter[m].chain : i > kernel.at} : m \in WaitsFor(kernel.key)}

\* The PacketID a chained mthread waits for.
ResendKey(id) == [q |-> kernel.key.q, fd |-> Chained, id |-> id]

\* doResends: the next ID of the chain, in the order of the std::set.
Resend ==
    /\ InKernel /\ kernel.pc = "resend"
    /\ \/ \E id \in ToResend :
             /\ \A i \in ToResend : id <= i
             /\ sendEvent(ResendKey(id))
             /\ kernel' = [kernel EXCEPT !.at = id]
       \/ /\ ToResend = {}
          /\ kernel' = [kernel EXCEPT !.pc = "wake"]
          /\ UNCHANGED <<state, waiter>>
    /\ UNCHANGED <<asks, socks>>

\* Mutated AfterWake: the socket is returned in any case.
AfterWakeReturn == [kernel EXCEPT !.pc = "return"]

\* The socket is returned once the waiter has run, if there was one, unless it
\* was returned before.
AfterWake ==
    IF kernel.closed \/ WaitsFor(kernel.key) = {} THEN Events
    ELSE [kernel EXCEPT !.pc = "return"]

\* sendEvent to the waiter itself.
Wake ==
    /\ InKernel /\ kernel.pc = "wake"
    /\ sendEvent(kernel.key)
    /\ kernel' = AfterWake
    /\ UNCHANGED <<asks, socks>>

\* returnSocket; it throws, and recursorThread ends, if the socket is not in
\* the pool.
Return ==
    /\ InKernel /\ kernel.pc = "return"
    /\ kernel.key.fd \in socks
    /\ socks' = socks \ {kernel.key.fd}
    /\ kernel' = Events
    /\ UNCHANGED <<state, waiter, asks>>
-----------------------------------------------------------------------------
Next ==
    \/ \E m \in MThreads : \/ \E q \in Questions : Ask(m, q)
                           \/ Finish(m) \/ makeThread(m) \/ RunNext(m) \/ Reap(m) \/ TimeOut(m)
    \/ \E fd \in Fds : \/ ReceiveShort(fd)
                       \/ \E id \in Ids, q \in Questions \cup {NoQuestion} : Receive(fd, id, q)
    \/ Resend \/ Wake \/ Return
    \/ LookAtWaiters \/ EndSchedule \/ EndEvents
    \/ Tick

Spec == Init /\ [][Next]_vars

\* An mthread that runs gives up control in the end, whatever it asks first; the
\* kernel goes on where it was; and time passes, though the clock is only read
\* between two calls of schedule.
Fairness ==
    /\ \A m \in MThreads : WF_vars(Finish(m) \/ \E q \in Questions : Ask(m, q))
    /\ WF_vars(\E m \in MThreads : RunNext(m) \/ Reap(m) \/ TimeOut(m))
    /\ WF_vars(LookAtWaiters \/ EndSchedule \/ EndEvents)
    /\ WF_vars(Resend \/ Wake \/ Return)
    /\ SF_vars(Tick)

FairSpec == Spec /\ Fairness
-----------------------------------------------------------------------------
\* The types of the mthreads' and the kernel's state (mtasker.hh, syncres.hh:390-412).
TypeOK ==
    /\ state \in [MThreads -> {"none", "ready", "running", "waiting", "zombie"}]
    /\ waiter \in [MThreads -> Waiter \cup {NoWaiter}]
    /\ \A m \in MThreads : state[m] = "waiting" <=> waiter[m] # NoWaiter
    /\ asks \in [MThreads -> 0..MaxAsks]
    /\ socks \subseteq Fds
    /\ kernel \in {Schedule, Timeouts, Events} \cup Handler

\* Only one mthread runs, and no two wait for the same key, so that sendEvent
\* never has to choose (waitEvent, mtasker.cc:163).
OneAtATime ==
    /\ \A m, n \in MThreads : state[m] = "running" /\ state[n] = "running" => m = n
    /\ \A m, n \in Waiting : key(m) = key(n) => m = n

\* However mthreads come and go, also while doResends wakes them one by one, the
\* recursor has at most one packet under way for a question.
OneOutstanding == \A m, n \in Leaders : key(m).q = key(n).q => m = n

\* The socket the handler is about to return.
Returning == IF Handling /\ kernel.pc = "return" THEN {kernel.key.fd} ELSE {}

\* The waiter whose socket was returned before it is woken.
Severed(m) == Handling /\ kernel.closed /\ key(m) = kernel.key

\* Sockets neither leak nor go missing: the pool holds the sockets of those who
\* wait for an answer on them and the one the handler returns next.
SocketsAccounted ==
    /\ socks = {key(m).fd : m \in {w \in Leaders : ~Severed(w)}} \cup Returning
    /\ \A m, n \in {w \in Leaders : ~Severed(w)} : key(m).fd = key(n).fd => m = n

\* returnSocket never throws: the handler returns a socket only while it is in
\* the pool and nobody waits for an answer on it any more.
ReturnIsSafe ==
    Handling /\ kernel.pc = "return" =>
        /\ kernel.key.fd \in socks
        /\ \A m \in Waiting : key(m).fd # kernel.key.fd

\* Every mthread that waits goes on, whatever the servers send or do not send,
\* and in the end gives its place to another one.
EveryWaiterGoesOn == \A m \in MThreads : state[m] = "waiting" ~> state[m] = "none"
=============================================================================

------------------------- MODULE CommunicatorProofs -------------------------
(***************************************************************************)
(* Proofs about the communicator's queue and semaphores, for any number of  *)
(* requesting threads, zones and queued requests.                           *)
(***************************************************************************)
EXTENDS Communicator, TLAPS, SequenceTheorems

\* The inductive invariant.  A transfer being carried out names a zone.
Inv == /\ TypeOK /\ LockHeld /\ SemaphoreCountsQueue /\ NoRequestStranded
       /\ mpc = "suck" => current \in Domains

\* The counts seen by the main loop change only with the stages of the holder.
LEMMA StageCounts ==
    ASSUME TypeOK, LockHeld, NEW t \in Threads,
           NEW s \in {"idle", "pushed", "posted"},
           adding[t] # "idle" \/ lock = NoThread,
           adding' = [adding EXCEPT ![t] = s]
    PROVE  /\ Pushed <=> adding[t] = "pushed"
           /\ Posted <=> adding[t] = "posted"
           /\ Pushed' <=> s = "pushed"
           /\ Posted' <=> s = "posted"
<1>1. \A u \in Threads \ {t} : adding[u] = "idle" /\ adding'[u] = "idle"
  BY ThreadAssumption DEF TypeOK, LockHeld, Threads
<1>2. adding'[t] = s
  BY DEF TypeOK
<1> QED  BY <1>1, <1>2 DEF Pushed, Posted

\* The lock, the queue and the semaphores agree at every step.
THEOREM Invariant == Spec => []Inv
<1>1. Init => Inv
  <2> SUFFICES ASSUME Init PROVE Inv
    OBVIOUS
  <2>1. TypeOK /\ LockHeld
    BY ThreadAssumption DEF Init, TypeOK, LockHeld, Threads
  <2>2. ~Pushed /\ ~Posted /\ Len(queue) = 0
    BY DEF Init, Pushed, Posted
  <2> QED  BY <2>1, <2>2 DEF Inv, Init, SemaphoreCountsQueue, NoRequestStranded, One
<1>2. Inv /\ [Next]_vars => Inv'
  <2> SUFFICES ASSUME Inv, [Next]_vars
               PROVE  Inv'
    OBVIOUS
  <2> USE DEF Inv
  <2>1. ASSUME NEW t \in Threads, NEW d \in Domains, Push(t, d)
        PROVE  Inv'
    <3>1. /\ adding[t] = "idle" /\ lock = NoThread /\ lock' = t
          /\ adding' = [adding EXCEPT ![t] = "pushed"]
          /\ UNCHANGED <<suck, any, mpc, current, fresh>>
      BY <2>1 DEF Push, MayAsk
    <3>2. /\ Len(queue') = Len(queue) + 1 /\ queue' \in Seq(Domains)
      BY <2>1 DEF Push, Enqueue, TypeOK
    <3>3. ~Pushed /\ ~Posted /\ Pushed' /\ ~Posted'
      BY <3>1, StageCounts
    <3>4. TypeOK' /\ LockHeld'
      BY <3>1, <3>2, ThreadAssumption DEF TypeOK, LockHeld, Threads
    <3> QED  BY <3>1, <3>2, <3>3, <3>4 DEF SemaphoreCountsQueue, NoRequestStranded, One, TypeOK
  <2>2. ASSUME NEW t \in Threads, PostFirst(t)
        PROVE  Inv'
    <3>1. /\ adding[t] = "pushed" /\ adding' = [adding EXCEPT ![t] = "posted"]
          /\ suck' = suck + 1 /\ any' = any
          /\ UNCHANGED <<queue, lock, mpc, current, fresh>>
      BY <2>2 DEF PostFirst, Post, PostOrder, One, TypeOK
    <3>2. Pushed /\ ~Posted /\ ~Pushed' /\ Posted'
      BY <3>1, StageCounts
    <3>3. TypeOK' /\ LockHeld'
      BY <3>1 DEF TypeOK, LockHeld
    <3> QED  BY <3>1, <3>2, <3>3 DEF SemaphoreCountsQueue, NoRequestStranded, One, TypeOK
  <2>3. ASSUME NEW t \in Threads, PostSecond(t)
        PROVE  Inv'
    <3>1. /\ adding[t] = "posted" /\ adding' = [adding EXCEPT ![t] = "idle"]
          /\ suck' = suck /\ any' = any + 1 /\ lock' = NoThread
          /\ UNCHANGED <<queue, mpc, current, fresh>>
      BY <2>3 DEF PostSecond, Post, PostOrder, One, TypeOK
    <3>2. ~Pushed /\ Posted /\ ~Pushed' /\ ~Posted'
      BY <3>1, StageCounts
    <3>3. TypeOK' /\ LockHeld'
      BY <3>1, ThreadAssumption DEF TypeOK, LockHeld, Threads
    <3> QED  BY <3>1, <3>2, <3>3 DEF SemaphoreCountsQueue, NoRequestStranded, One, TypeOK
  <2>4. ASSUME UNCHANGED adding
        PROVE  (Pushed' <=> Pushed) /\ (Posted' <=> Posted)
    BY <2>4 DEF Pushed, Posted
  <2>5. CASE Notify
    BY <2>4, <2>5 DEF Notify, TypeOK, LockHeld, SemaphoreCountsQueue, NoRequestStranded, One
  <2>6. CASE EndRefresh \/ TickOver
    BY <2>4, <2>6 DEF EndRefresh, TickOver, TypeOK, LockHeld, SemaphoreCountsQueue,
                      NoRequestStranded, One
  <2>7. CASE TryAny
    BY <2>4, <2>7 DEF TryAny, TypeOK, LockHeld, SemaphoreCountsQueue, NoRequestStranded, One
  <2>8. CASE TrySuck
    <3>1. /\ mpc = "trysuck" /\ UNCHANGED <<queue, lock, any, adding, current, fresh>>
          /\ (Pushed' <=> Pushed) /\ (Posted' <=> Posted)
      BY <2>4, <2>8 DEF TrySuck
    <3>2. CASE suck > 0 /\ suck' = suck - 1 /\ mpc' = "pop"
      BY <3>1, <3>2 DEF TypeOK, LockHeld, SemaphoreCountsQueue, NoRequestStranded, One
    <3>3. CASE suck = 0 /\ suck' = suck /\ mpc' = "wait"
      BY <3>1, <3>3 DEF TypeOK, LockHeld, SemaphoreCountsQueue, NoRequestStranded, One
    <3> QED  BY <2>8, <3>2, <3>3 DEF TrySuck
  <2>9. CASE Pop
    <3>1. queue # <<>> /\ queue \in Seq(Domains)
      BY <2>9 DEF Pop, TypeOK, SemaphoreCountsQueue, One
    <3>2. /\ Head(queue) \in Domains /\ Tail(queue) \in Seq(Domains)
          /\ Len(Tail(queue)) = Len(queue) - 1
      BY <3>1, HeadTailProperties
    <3> QED  BY <2>4, <2>9, <3>2 DEF Pop, TypeOK, LockHeld, SemaphoreCountsQueue,
                                     NoRequestStranded, One
  <2>10. CASE Suck
    <3>1. /\ mpc = "suck" /\ mpc' \in {"wait", "exited"} /\ current' = NoDomain
          /\ UNCHANGED <<queue, lock, suck, any, adding>>
      BY <2>10 DEF Suck
    <3>2. fresh' \subseteq Domains
      <4>1. current \in Domains
        BY <2>10 DEF Suck
      <4> QED  BY <2>10, <4>1 DEF Suck, TypeOK
    <3> QED  BY <2>4, <3>1, <3>2 DEF TypeOK, LockHeld, SemaphoreCountsQueue,
                                     NoRequestStranded, One
  <2>11. ASSUME NEW d \in Domains, ConfirmFresh(d) \/ Expire(d)
         PROVE  Inv'
    BY <2>4, <2>11 DEF ConfirmFresh, Expire, TypeOK, LockHeld, SemaphoreCountsQueue,
                       NoRequestStranded, One
  <2>12. CASE UNCHANGED vars
    BY <2>4, <2>12 DEF vars, TypeOK, LockHeld, SemaphoreCountsQueue, NoRequestStranded, One
  <2> QED
    BY <2>1, <2>2, <2>3, <2>5, <2>6, <2>7, <2>8, <2>9, <2>10, <2>11, <2>12 DEF Next
<1> QED  BY <1>1, <1>2, PTL DEF Spec

\* addSuckRequest and mainloop keep the types of the shared state.
THEOREM TypeCorrect == Spec => []TypeOK
BY Invariant, PTL DEF Inv

\* d_suck_sem counts the requests in d_suckdomains, but for one that
\* addSuckRequest has half added and one that mainloop has half taken.
THEOREM CountsAgree == Spec => []SemaphoreCountsQueue
BY Invariant, PTL DEF Inv

\* mainloop never pops an empty deque.
THEOREM PopIsSafe == Spec => []PopFindsRequest
<1>1. Inv => PopFindsRequest
  BY DEF Inv, PopFindsRequest, SemaphoreCountsQueue, One, TypeOK
<1> QED  BY <1>1, Invariant, PTL

\* No request is left in the queue without a pending wake-up of mainloop.
THEOREM NoneStranded == Spec => []NoRequestStranded
BY Invariant, PTL DEF Inv
=============================================================================

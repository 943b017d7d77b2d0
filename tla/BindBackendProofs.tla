------------------------- MODULE BindBackendProofs -------------------------
(***************************************************************************)
(* Proofs about BindBackend, for any number of resolving threads, versions  *)
(* of the zone file and States: s_state_lock protects what it has to, a     *)
(* reload or a rediscovery never brings back an older version, a committed  *)
(* transfer is not lost to one that overlaps, and a lookup in the State that *)
(* s_state points to finds an empty zone only when a reload emptied the entry *)
(* after the lookup had seen it loaded.                                      *)
(***************************************************************************)
EXTENDS BindBackend, TLAPS

Pcs == {"idle", "check", "take", "retake", "answer", "list", "reload", "parse", "move",
        "reparse", "mark", "swap", "feed", "done"}
Thread == [pc : Pcs, st : States, stage : Entries, got : Records,
           disturbed : BOOLEAN, committed : 0..MaxVersion]

\* Steps taken with s_state_lock held.
LockedPcs == {"parse", "move", "reparse", "mark", "swap"}

\* An entry that is loaded has records.
Usable(recs) == recs.kind \notin {"none", "freed"}
Filled(e) == e.loaded => Usable(e.recs)

\* Which steps are whose, and the room rediscover has for another State.
RoleOK(t, th) ==
    /\ th.pc \in {"reparse", "mark", "swap"} => t = Control /\ cur < MaxState
    /\ th.pc \in {"check", "take", "retake", "answer"} => t \in Resolvers
    /\ th.st <= cur

\* What is staged or was committed is not newer than the file; what is staged to
\* be put in place is not older than what s_state has nor than what was committed.
VersionOK(th) ==
    /\ th.stage.recs.ver <= file.ver /\ th.committed <= file.ver
    /\ th.pc \in {"move", "reparse", "mark", "swap"} =>
           th.stage.recs.ver >= state[cur].recs.ver
    /\ th.pc = "move" => th.stage.recs.ver >= th.committed

\* What is staged may be put in place, and a lookup in s_state's own State that
\* was not disturbed has records in front of it.
FilledOK(th) ==
    /\ th.pc \in {"move", "mark"} => th.stage.recs.kind = "whole"
    /\ th.pc = "swap" => Filled(th.stage)
    /\ ~th.disturbed /\ th.st = cur =>
           /\ th.pc \in {"take", "retake"} => Usable(state[cur].recs)
           /\ th.pc = "answer" => Usable(th.got)

\* The inductive invariant: besides what each thread may rely on, no records are
\* newer than the file and what s_state says is loaded has records.
Inv ==
    /\ TypeOK
    /\ \A s \in States : state[s].recs.ver <= file.ver
    /\ Filled(state[cur])
    /\ \A t \in Threads : RoleOK(t, thr[t]) /\ VersionOK(thr[t]) /\ FilledOK(thr[t])

-----------------------------------------------------------------------------
(* Facts about the types.                                                    *)

\* The thread records of TypeOK, and the parts of one.
LEMMA ThreadType ==
    ASSUME TypeOK
    PROVE  /\ thr \in [Threads -> Thread]
           /\ \A t \in Threads : /\ thr[t] \in Thread /\ thr[t].st \in States
                                 /\ thr[t].stage \in Entries /\ thr[t].pc \in Pcs
                                 /\ thr[t].disturbed \in BOOLEAN
                                 /\ thr[t].committed \in 0..MaxVersion
                                 /\ thr[t].got \in Records
BY DEF TypeOK, Thread, Pcs

\* Bounds, and the thread the constructor leaves.
LEMMA Constants ==
    /\ MaxVersion \in Nat /\ MaxState \in Nat /\ MaxVersion >= 1 /\ MaxState >= 1
    /\ 1 \in States
    /\ NoRecords \in Records /\ Freed \in Records /\ Unmade \in Entries /\ Idle \in Thread
    /\ Control \in Threads /\ Transfer \in Threads /\ NoThread \notin Threads
<1>1. MaxVersion \in Nat /\ MaxState \in Nat /\ MaxVersion >= 1 /\ MaxState >= 1
  BY BoundAssumption
<1>2. 1 \in States /\ NoRecords \in Records /\ Freed \in Records
  BY <1>1 DEF States, NoRecords, Freed, Records
<1>3. Unmade \in Entries
  BY <1>1, <1>2 DEF Unmade, Entries
<1>4. Idle \in Thread
  BY <1>1, <1>2, <1>3 DEF Idle, Thread, Pcs
<1> QED
  BY <1>1, <1>2, <1>3, <1>4, ThreadAssumption DEF Threads

\* The entries and threads that the code's assignments make.
LEMMA UpdatedTypes ==
    /\ \A v \in 0..MaxVersion : Whole(v) \in Records /\ Part(v) \in Records
    /\ \A e \in Entries, c \in 0..MaxVersion, l, k \in BOOLEAN, rs \in Records :
          /\ nukeZoneRecords(e) \in Entries
          /\ [e EXCEPT !.recs = rs] \in Entries
          /\ [e EXCEPT !.ctime = c] \in Entries
          /\ [e EXCEPT !.loaded = l] \in Entries
          /\ [e EXCEPT !.checknow = k] \in Entries
BY DEF Entries, Records, Whole, Part, nukeZoneRecords

\* Setting the marks that the properties use.
LEMMA MarkedThread ==
    ASSUME NEW th \in Thread, NEW b \in BOOLEAN, NEW c \in 0..MaxVersion
    PROVE  LET md == [th EXCEPT !.committed = c, !.disturbed = b]
           IN  /\ md \in Thread /\ md.committed = c /\ md.disturbed = b /\ md.pc = th.pc
               /\ md.st = th.st /\ md.stage = th.stage /\ md.got = th.got
BY DEF Thread

\* A thread whose queueReload returns goes on to take the records or is done.
LEMMA ReturnFacts ==
    ASSUME NEW t, NEW th \in Thread
    PROVE  LET rt == Return(t, th)
           IN  /\ rt \in Thread /\ rt.stage = Unmade /\ rt.committed = th.committed
               /\ rt.disturbed = th.disturbed /\ rt.st = th.st /\ rt.got = th.got
               /\ rt.pc = IF t \in Resolvers THEN "retake" ELSE "done"
BY Constants DEF Return, Thread, Pcs

-----------------------------------------------------------------------------
(* Steps of one thread.                                                      *)

\* A step that changes one thread, and takes or gives back s_state_lock, keeps
\* the invariant when the thread's new state is sound.
LEMMA ThreadStep ==
    ASSUME Inv, NEW t \in Threads, NEW th \in Thread,
           thr' = [thr EXCEPT ![t] = th], UNCHANGED <<file, state, cur>>,
           \/ lock' = lock /\ (th.pc \in LockedPcs <=> thr[t].pc \in LockedPcs)
           \/ lock = NoThread /\ lock' = t /\ th.pc \in LockedPcs
           \/ lock = t /\ lock' = NoThread /\ th.pc \notin LockedPcs,
           RoleOK(t, th), VersionOK(th), FilledOK(th)
    PROVE  Inv'
<1>1. TypeOK /\ thr \in [Threads -> Thread]
  BY ThreadType DEF Inv
<1>2. /\ thr' \in [Threads -> Thread] /\ thr'[t] = th
      /\ \A u \in Threads : u # t => thr'[u] = thr[u]
  BY <1>1
<1>3. TypeOK'
  <2>1. \A u \in Threads : lock = u <=> thr[u].pc \in LockedPcs
    BY <1>1 DEF TypeOK, LockedPcs
  <2>2. \A u \in Threads : lock' = u <=> thr'[u].pc \in LockedPcs
    BY <1>2, <2>1, Constants
  <2>3. lock' \in Threads \cup {NoThread}
    BY <1>1 DEF TypeOK
  <2> QED
    BY <1>1, <1>2, <2>2, <2>3 DEF TypeOK, LockedPcs, Thread, Pcs
<1>4. ASSUME NEW u \in Threads
      PROVE  (RoleOK(u, thr[u]) /\ VersionOK(thr[u]) /\ FilledOK(thr[u]))'
  <2>1. CASE u = t
    BY <1>2, <2>1 DEF RoleOK, VersionOK, FilledOK
  <2>2. CASE u # t
    BY <1>2, <2>2 DEF Inv, RoleOK, VersionOK, FilledOK
  <2> QED
    BY <2>1, <2>2
<1>5. (\A s \in States : state[s].recs.ver <= file.ver)' /\ Filled(state[cur])'
  BY DEF Inv
<1> QED
  BY <1>3, <1>4, <1>5 DEF Inv

\* The thread goes back to idle, with s_state_lock free or another's.
LEMMA ToIdle ==
    ASSUME Inv, NEW t \in Threads, thr[t].pc \notin LockedPcs,
           thr' = [thr EXCEPT ![t] = Idle], UNCHANGED <<file, state, cur, lock>>
    PROVE  Inv'
<1>1. /\ Idle.pc = "idle" /\ Idle.st = 1 /\ Idle.stage = Unmade /\ Idle.committed = 0
      /\ Idle.stage.recs.ver = 0
  BY DEF Idle, Unmade, NoRecords
<1>2. 1 <= cur /\ 0 <= file.ver
  BY DEF Inv, TypeOK, States
<1>3. RoleOK(t, Idle) /\ VersionOK(Idle) /\ FilledOK(Idle)
  BY <1>1, <1>2 DEF RoleOK, VersionOK, FilledOK
<1>4. Idle.pc \notin LockedPcs
  BY <1>1 DEF LockedPcs
<1> QED
  BY <1>1, <1>3, <1>4, Constants, ThreadStep

\* queueReload without the steps that change s_state: a failed parse and a
\* successful one.
LEMMA ParseFailsStep ==
    ASSUME Inv, NEW t \in Threads, ParseFails(t)
    PROVE  Inv'
<1> DEFINE th == [thr[t] EXCEPT !.committed = 0, !.disturbed = TRUE]
           rt == Return(t, th)
<1>1. /\ thr[t].pc = "parse" /\ lock' = NoThread /\ UNCHANGED <<file, state, cur>>
      /\ thr' = [thr EXCEPT ![t] = rt]
  BY DEF ParseFails, At, Return
<1>2. TypeOK /\ thr[t] \in Thread
  BY ThreadType DEF Inv
<1>8. 0 \in 0..MaxVersion
  BY Constants
<1>9. th \in Thread /\ th.committed = 0 /\ th.st = thr[t].st /\ th.disturbed = TRUE
  BY <1>2, <1>8, MarkedThread
<1> HIDE DEF th
<1>3. /\ rt \in Thread /\ rt.stage = Unmade /\ rt.committed = 0 /\ rt.disturbed
      /\ rt.st = thr[t].st /\ rt.pc \in {"retake", "done"}
      /\ rt.pc = "retake" => t \in Resolvers
  BY <1>9, ReturnFacts
<1>4. lock = t
  BY <1>1 DEF Inv, TypeOK
<1>5. 0 <= file.ver /\ Unmade.recs.ver = 0
  BY DEF Inv, TypeOK, Unmade, NoRecords
<1> HIDE DEF rt
<1>6. rt.pc \notin LockedPcs
  BY <1>3 DEF LockedPcs
<1>7. RoleOK(t, rt) /\ VersionOK(rt) /\ FilledOK(rt)
  BY <1>3, <1>5 DEF RoleOK, VersionOK, FilledOK, Inv
<1> QED
  BY <1>1, <1>3, <1>4, <1>6, <1>7, ThreadStep

LEMMA ParseStep ==
    ASSUME Inv, NEW t \in Threads, Parse(t)
    PROVE  Inv'
<1> DEFINE th == [thr[t] EXCEPT !.pc = "move", !.stage.recs = Whole(file.ver)]
<1>1. TypeOK /\ thr[t] \in Thread /\ thr[t].stage \in Entries /\ file.ver \in 0..MaxVersion
  BY ThreadType DEF Inv, TypeOK
<1>2. /\ thr[t].pc = "parse" /\ UNCHANGED <<file, state, cur, lock>>
      /\ thr' = [thr EXCEPT ![t] = th]
  BY DEF Parse, At, Inv, TypeOK
<1>3. th \in Thread
  BY <1>1, UpdatedTypes DEF Thread, Pcs
<1>4. /\ th.pc = "move" /\ th.stage.recs = Whole(file.ver) /\ th.st = thr[t].st
      /\ th.committed = thr[t].committed
  BY <1>1 DEF Thread, Entries
<1> HIDE DEF th
<1>5. RoleOK(t, th) /\ VersionOK(th) /\ FilledOK(th)
  BY <1>1, <1>4 DEF RoleOK, VersionOK, FilledOK, Inv, Whole, TypeOK
<1>6. th.pc \in LockedPcs /\ thr[t].pc \in LockedPcs
  BY <1>2, <1>4 DEF LockedPcs
<1> QED
  BY <1>2, <1>3, <1>4, <1>5, <1>6, ThreadStep

\* lookup and list.
LEMMA LookupStep ==
    ASSUME Inv, NEW t \in Resolvers, Lookup(t) \/ Check(t) \/ Take(t) \/ List(t)
    PROVE  Inv'
<1>1. t \in Threads
  BY DEF Threads
<1>2. /\ TypeOK /\ thr[t] \in Thread /\ cur \in States /\ state[cur] \in Entries
      /\ state[cur].recs \in Records /\ Entry(t).recs \in Records /\ file.ver \in Nat
  BY <1>1, ThreadType DEF Inv, TypeOK, Entry, Entries
<1>3. RoleOK(t, thr[t]) /\ VersionOK(thr[t]) /\ FilledOK(thr[t])
  BY <1>1 DEF Inv
<1>4. Unmade.recs.ver = 0
  BY DEF Unmade, NoRecords
<1>5. CASE Lookup(t)
  <2> DEFINE th == [Idle EXCEPT !.pc = "check", !.st = cur]
  <2>1. /\ thr[t].pc = "idle" /\ UNCHANGED <<file, state, cur, lock>>
        /\ thr' = [thr EXCEPT ![t] = th]
    BY <1>5 DEF Lookup, At
  <2>2. th \in Thread
    BY <1>2, Constants DEF Thread, Pcs
  <2>3. th.pc = "check" /\ th.st = cur /\ th.stage = Unmade /\ th.committed = 0
    BY DEF Idle
  <2> HIDE DEF th
  <2>4. RoleOK(t, th) /\ VersionOK(th) /\ FilledOK(th)
    BY <1>2, <1>4, <2>3 DEF RoleOK, VersionOK, FilledOK, Inv, States
  <2>5. th.pc \notin LockedPcs /\ thr[t].pc \notin LockedPcs
    BY <2>1, <2>3 DEF LockedPcs
  <2> QED
    BY <1>1, <2>1, <2>2, <2>3, <2>4, <2>5, ThreadStep
<1>6. CASE Check(t)
  <2>1. thr[t].pc = "check" /\ UNCHANGED <<file, state, cur, lock>>
    BY <1>6 DEF Check, At
  <2>2. thr[t].pc \notin LockedPcs
    BY <2>1 DEF LockedPcs
  <2>3. CASE thr' = [thr EXCEPT ![t] = Idle]
    BY <1>1, <2>1, <2>2, <2>3, ToIdle
  <2>4. ASSUME NEW pc \in {"take", "reload"}, Entry(t).loaded,
               thr' = [thr EXCEPT ![t].pc = pc]
        PROVE  Inv'
    <3> DEFINE th == [thr[t] EXCEPT !.pc = pc]
    <3>1. thr' = [thr EXCEPT ![t] = th]
      BY <2>4, <1>2 DEF TypeOK
    <3>2. th \in Thread
      BY <1>2 DEF Thread, Pcs
    <3>3. /\ th.pc = pc /\ th.st = thr[t].st /\ th.stage = thr[t].stage
          /\ th.committed = thr[t].committed /\ th.disturbed = thr[t].disturbed
      BY <1>2 DEF Thread
    <3> HIDE DEF th
    <3>4. RoleOK(t, th) /\ VersionOK(th) /\ FilledOK(th)
      <4>1. thr[t].st = cur => Usable(state[cur].recs)
        BY <2>4 DEF Inv, Filled, Entry
      <4> QED
        BY <1>3, <2>1, <3>3, <4>1 DEF RoleOK, VersionOK, FilledOK
    <3>5. th.pc \notin LockedPcs
      BY <3>3 DEF LockedPcs
    <3> QED
      BY <1>1, <2>1, <2>2, <3>1, <3>2, <3>3, <3>4, <3>5, ThreadStep
  <2> QED
    BY <1>6, <2>3, <2>4 DEF Check
<1>7. CASE Take(t)
  <2>0. /\ thr[t].pc \in {"take", "retake"} /\ UNCHANGED <<file, state, cur, lock>>
    BY <1>7 DEF Take
  <2>1. PICK recs \in {Entry(t).recs, Freed} :
           /\ recs = Freed => At(t, "retake") /\ ~Referenced(thr[t].st)
           /\ thr' = [thr EXCEPT ![t].pc = "answer", ![t].got = recs]
    BY <1>7 DEF Take
  <2>2. recs \in Records
    BY <1>2, Constants
  <2> DEFINE th == [thr[t] EXCEPT !.pc = "answer", !.got = recs]
  <2>3. thr' = [thr EXCEPT ![t] = th]
    BY <1>2, <2>1 DEF TypeOK
  <2>4. th \in Thread
    BY <1>2, <2>2 DEF Thread, Pcs
  <2>5. /\ th.pc = "answer" /\ th.st = thr[t].st /\ th.stage = thr[t].stage
        /\ th.committed = thr[t].committed /\ th.disturbed = thr[t].disturbed
        /\ th.got = recs
    BY <1>2 DEF Thread
  <2> HIDE DEF th
  <2>6. thr[t].st = cur => recs = state[cur].recs
    BY <2>1 DEF Referenced, Entry
  <2>7. RoleOK(t, th) /\ VersionOK(th) /\ FilledOK(th)
    BY <1>3, <2>0, <2>5, <2>6 DEF RoleOK, VersionOK, FilledOK
  <2>8. th.pc \notin LockedPcs /\ thr[t].pc \notin LockedPcs
    BY <2>0, <2>5 DEF LockedPcs
  <2> QED
    BY <1>1, <2>0, <2>3, <2>4, <2>5, <2>7, <2>8, ThreadStep
<1>8. CASE List(t)
  <2> DEFINE th == [Idle EXCEPT !.pc = "list", !.got = state[cur].recs]
  <2>1. /\ thr[t].pc = "idle" /\ UNCHANGED <<file, state, cur, lock>>
        /\ thr' = [thr EXCEPT ![t] = th]
    BY <1>8 DEF List, At
  <2>2. th \in Thread
    BY <1>2, Constants DEF Thread, Pcs
  <2>3. th.pc = "list" /\ th.st = 1 /\ th.stage = Unmade /\ th.committed = 0
    BY DEF Idle
  <2> HIDE DEF th
  <2>4. RoleOK(t, th) /\ VersionOK(th) /\ FilledOK(th)
    BY <1>2, <1>4, <2>3 DEF RoleOK, VersionOK, FilledOK, States
  <2>5. th.pc \notin LockedPcs /\ thr[t].pc \notin LockedPcs
    BY <2>1, <2>3 DEF LockedPcs
  <2> QED
    BY <1>1, <2>1, <2>2, <2>3, <2>4, <2>5, ThreadStep
<1> QED
  BY <1>5, <1>6, <1>7, <1>8

\* A thread that starts from idle at a step outside s_state_lock.
LEMMA Begins ==
    ASSUME Inv, NEW t \in Threads, NEW pc \in {"reload", "feed"}, NEW s \in {1, cur},
           thr[t].pc = "idle", UNCHANGED <<file, state, cur, lock>>,
           thr' = [thr EXCEPT ![t] = [Idle EXCEPT !.pc = pc, !.st = s]]
    PROVE  Inv'
<1> DEFINE th == [Idle EXCEPT !.pc = pc, !.st = s]
<1>1. s \in States /\ s <= cur /\ 0 <= file.ver /\ Unmade.recs.ver = 0
  BY Constants DEF Inv, TypeOK, States, Unmade, NoRecords
<1>2. th \in Thread /\ th.pc = pc /\ th.st = s /\ th.stage = Unmade /\ th.committed = 0
  BY <1>1, Constants DEF Thread, Pcs, Idle
<1> HIDE DEF th
<1>3. RoleOK(t, th) /\ VersionOK(th) /\ FilledOK(th)
  BY <1>1, <1>2 DEF RoleOK, VersionOK, FilledOK
<1>4. th.pc \notin LockedPcs /\ thr[t].pc \notin LockedPcs
  BY <1>2 DEF LockedPcs
<1>5. thr' = [thr EXCEPT ![t] = th]
  BY DEF th
<1> QED
  BY <1>2, <1>3, <1>4, <1>5, ThreadStep

\* loadConfig up to the parsing of the file.
LEMMA RediscoverStep ==
    ASSUME Inv, Rediscover
    PROVE  Inv'
<1>1. /\ thr[Control].pc = "idle" /\ lock = NoThread /\ lock' = Control /\ cur < MaxState
      /\ UNCHANGED <<file, state, cur>>
  BY DEF Rediscover, At
<1>2. state[cur] \in Entries /\ Control \in Threads /\ cur \in States
      /\ state[cur].recs.ver <= file.ver /\ file.ver \in Nat /\ state[cur].recs.ver \in Nat
  BY Constants DEF Inv, TypeOK, Entries, Records
<1>3. ASSUME NEW pc \in {"swap", "reparse"}, pc = "swap" => state[cur].loaded,
             thr' = [thr EXCEPT ![Control] = [Idle EXCEPT !.pc = pc, !.stage = state[cur]]]
      PROVE  Inv'
  <2> DEFINE th == [Idle EXCEPT !.pc = pc, !.stage = state[cur]]
  <2>1. th \in Thread
    BY <1>2, Constants DEF Thread, Pcs
  <2>2. th.pc = pc /\ th.st = 1 /\ th.stage = state[cur] /\ th.committed = 0
    BY DEF Idle
  <2>3. thr' = [thr EXCEPT ![Control] = th]
    BY <1>3
  <2> HIDE DEF th
  <2>4. RoleOK(Control, th) /\ VersionOK(th) /\ FilledOK(th)
    BY <1>1, <1>2, <2>2 DEF RoleOK, VersionOK, FilledOK, Inv, States
  <2>5. th.pc \in LockedPcs
    BY <2>2 DEF LockedPcs
  <2> QED
    BY <1>1, <1>2, <2>1, <2>2, <2>3, <2>4, <2>5, ThreadStep
<1> QED
  BY <1>3 DEF Rediscover

\* The zone file is read into the new State, or an error cuts it short.
LEMMA ReparseStep ==
    ASSUME Inv, Reparse
    PROVE  Inv'
<1>1. /\ thr[Control].pc = "reparse" /\ UNCHANGED <<file, state, cur, lock>>
  BY DEF Reparse, At
<1>2. /\ Control \in Threads /\ TypeOK /\ thr[Control] \in Thread
      /\ thr[Control].stage \in Entries /\ file.ver \in 0..MaxVersion
      /\ state[cur].recs.ver <= file.ver
      /\ RoleOK(Control, thr[Control]) /\ VersionOK(thr[Control])
  BY Constants, ThreadType DEF Inv, TypeOK
<1>3. ASSUME NEW pc \in {"mark", "swap"}, NEW rs \in Records, rs.ver = file.ver,
             rs.kind = IF pc = "mark" THEN "whole" ELSE "part",
             thr' = [thr EXCEPT ![Control].pc = pc, ![Control].stage.recs = rs]
      PROVE  Inv'
  <2> DEFINE th == [thr[Control] EXCEPT !.pc = pc, !.stage.recs = rs]
  <2>1. thr' = [thr EXCEPT ![Control] = th]
    BY <1>2, <1>3 DEF TypeOK
  <2>2. th \in Thread
    BY <1>2, UpdatedTypes DEF Thread, Pcs
  <2>3. /\ th.pc = pc /\ th.stage.recs = rs /\ th.st = thr[Control].st
        /\ th.committed = thr[Control].committed
    BY <1>2 DEF Thread, Entries
  <2> HIDE DEF th
  <2>4. RoleOK(Control, th) /\ VersionOK(th) /\ FilledOK(th)
    BY <1>1, <1>2, <1>3, <2>3 DEF RoleOK, VersionOK, FilledOK, Filled, Usable
  <2>5. th.pc \in LockedPcs /\ thr[Control].pc \in LockedPcs
    BY <1>1, <2>3 DEF LockedPcs
  <2> QED
    BY <1>1, <1>2, <2>1, <2>2, <2>3, <2>4, <2>5, ThreadStep
<1>4. /\ Whole(file.ver) \in Records /\ Part(file.ver) \in Records
      /\ Whole(file.ver).ver = file.ver /\ Whole(file.ver).kind = "whole"
      /\ Part(file.ver).ver = file.ver /\ Part(file.ver).kind = "part"
  BY <1>2, UpdatedTypes DEF Whole, Part
<1> QED
  BY <1>3, <1>4 DEF Reparse

\* setCtime and d_loaded of the new State's entry.
LEMMA MarkStep ==
    ASSUME Inv, Mark
    PROVE  Inv'
<1>1. thr[Control].pc = "mark" /\ UNCHANGED <<file, state, cur, lock>>
  BY DEF Mark, At
<1>2. /\ Control \in Threads /\ TypeOK /\ thr[Control] \in Thread
      /\ thr[Control].stage \in Entries /\ file.ver \in 0..MaxVersion
      /\ RoleOK(Control, thr[Control]) /\ VersionOK(thr[Control]) /\ FilledOK(thr[Control])
  BY Constants, ThreadType DEF Inv, TypeOK
<1> DEFINE th == [thr[Control] EXCEPT !.pc = "swap", !.stage.ctime = file.ver,
                                      !.stage.loaded = TRUE]
           e == th.stage
<1>3. thr' = [thr EXCEPT ![Control] = th]
  BY <1>2 DEF Mark, TypeOK
<1>4. th \in [pc : Pcs, st : States, stage : Entries, got : Records,
              disturbed : BOOLEAN, committed : 0..MaxVersion]
  BY <1>2 DEF Thread, Pcs, Entries
<1>5. th \in Thread
  BY <1>4 DEF Thread
<1>6. /\ th.pc = "swap" /\ e.recs = thr[Control].stage.recs /\ th.st = thr[Control].st
      /\ th.committed = thr[Control].committed
  BY <1>2 DEF Thread, Entries
<1> HIDE DEF th
<1>7. RoleOK(Control, th) /\ VersionOK(th) /\ FilledOK(th)
  <2>1. VersionOK(th)
    BY <1>1, <1>2, <1>6 DEF VersionOK
  <2>2. FilledOK(th)
    BY <1>1, <1>2, <1>6 DEF FilledOK, Filled, Usable
  <2> QED
    BY <1>1, <1>2, <1>6, <2>1, <2>2 DEF RoleOK
<1>8. th.pc \in LockedPcs /\ thr[Control].pc \in LockedPcs
  BY <1>1, <1>6 DEF LockedPcs
<1> QED
  BY <1>1, <1>2, <1>3, <1>5, <1>6, <1>7, <1>8, ThreadStep

-----------------------------------------------------------------------------
(* Steps that change the file or s_state.                                    *)

\* A new version of the file is newer than everything.
LEMMA EditStep ==
    ASSUME Inv, NEW ok \in BOOLEAN, Edit(ok)
    PROVE  Inv'
<1>1. /\ file.ver \in 1..MaxVersion /\ file.ver < MaxVersion
      /\ file' = [ver |-> file.ver + 1, ok |-> ok]
      /\ UNCHANGED <<state, cur, lock, thr>>
  BY DEF Edit, Inv, TypeOK
<1>2. file' \in [ver : 1..MaxVersion, ok : BOOLEAN] /\ file'.ver = file.ver + 1
  BY <1>1, Constants
<1>3. TypeOK'
  BY <1>1, <1>2 DEF Inv, TypeOK
<1>4. \A s \in States : state[s].recs.ver \in Nat
  BY DEF Inv, TypeOK, Entries, Records
<1>5. ASSUME NEW t \in Threads PROVE VersionOK(thr[t])'
  <2>1. /\ thr[t].stage.recs.ver \in Nat /\ thr[t].committed \in Nat /\ file.ver \in Nat
        /\ thr[t].stage.recs.ver <= file.ver /\ thr[t].committed <= file.ver
    BY <1>1, ThreadType DEF Inv, VersionOK, Entries, Records
  <2> QED
    BY <1>1, <1>2, <2>1 DEF Inv, VersionOK
<1>6. ASSUME NEW t \in Threads PROVE RoleOK(t, thr[t])' /\ FilledOK(thr[t])'
  BY <1>1 DEF Inv, RoleOK, FilledOK, Filled, Usable
<1>7. (\A s \in States : state[s].recs.ver <= file.ver)'
  BY <1>1, <1>2, <1>4 DEF Inv
<1> QED
  BY <1>1, <1>3, <1>5, <1>6, <1>7 DEF Inv, Filled, Usable

\* commitTransaction renames the file, and remembers the State it looked up.
LEMMA CommitStep ==
    ASSUME Inv, CommitTransaction
    PROVE  Inv'
<1> DEFINE th == [Idle EXCEPT !.pc = "reload", !.st = cur, !.committed = file.ver + 1]
<1>1. /\ thr[Transfer].pc = "feed" /\ file.ver < MaxVersion
      /\ file' = [ver |-> file.ver + 1, ok |-> TRUE]
      /\ thr' = [thr EXCEPT ![Transfer] = th]
      /\ UNCHANGED <<state, cur, lock>>
  BY DEF CommitTransaction, At
<1>2. /\ TypeOK /\ thr \in [Threads -> Thread] /\ cur \in States
      /\ file.ver \in 1..MaxVersion /\ Transfer \in Threads
  BY Constants, ThreadType DEF Inv, TypeOK
<1>3. file' \in [ver : 1..MaxVersion, ok : BOOLEAN] /\ file'.ver = file.ver + 1
  BY <1>1, <1>2, Constants
<1>4. file.ver + 1 \in 0..MaxVersion
  BY <1>1, <1>2, Constants
<1>5. /\ th \in Thread /\ th.pc = "reload" /\ th.st = cur /\ th.stage = Unmade
      /\ th.committed = file.ver + 1
  BY <1>2, <1>4, Constants DEF Thread, Pcs, Idle
<1> HIDE DEF th
<1>6. /\ thr' \in [Threads -> Thread] /\ thr'[Transfer] = th
      /\ \A u \in Threads : u # Transfer => thr'[u] = thr[u]
  BY <1>1, <1>2, <1>5
<1>7. TypeOK'
  <2>1. \A u \in Threads : lock' = u <=>
           thr'[u].pc \in {"parse", "move", "reparse", "mark", "swap"}
    BY <1>1, <1>2, <1>5, <1>6 DEF TypeOK
  <2> QED
    BY <1>1, <1>2, <1>3, <1>6, <2>1 DEF TypeOK, Thread, Pcs
<1>8. ASSUME NEW u \in Threads
      PROVE  (RoleOK(u, thr[u]) /\ VersionOK(thr[u]) /\ FilledOK(thr[u]))'
  <2>1. CASE u = Transfer
    <3>1. Unmade.recs.ver = 0 /\ cur \in Nat
      BY <1>2 DEF Unmade, NoRecords, States
    <3> QED
      BY <1>1, <1>2, <1>3, <1>5, <1>6, <2>1, <3>1 DEF RoleOK, VersionOK, FilledOK
  <2>2. CASE u # Transfer
    <3>1. /\ thr[u].stage.recs.ver \in Nat /\ thr[u].committed \in Nat /\ file.ver \in Nat
          /\ thr[u].stage.recs.ver <= file.ver /\ thr[u].committed <= file.ver
      BY <1>2, ThreadType DEF Inv, VersionOK, Entries, Records
    <3>2. VersionOK(thr[u])'
      BY <1>1, <1>3, <1>6, <2>2, <3>1 DEF Inv, VersionOK
    <3> QED
      BY <1>1, <1>6, <2>2, <3>2 DEF Inv, RoleOK, FilledOK
  <2> QED
    BY <2>1, <2>2
<1>9. (\A s \in States : state[s].recs.ver <= file.ver)'
  <2>1. \A s \in States : state[s].recs.ver \in Nat
    BY <1>2 DEF TypeOK, Entries, Records
  <2> QED
    BY <1>1, <1>2, <1>3, <2>1 DEF Inv
<1> QED
  BY <1>1, <1>7, <1>8, <1>9 DEF Inv

\* reload(): only d_checknow is set.
LEMMA SetCheckNowStep ==
    ASSUME Inv, SetCheckNow
    PROVE  Inv'
<1>1. /\ UNCHANGED <<file, cur, lock, thr>>
      /\ state' = [state EXCEPT ![cur] = [state[cur] EXCEPT !.checknow = TRUE]]
  BY DEF SetCheckNow, Inv, TypeOK
<1>2. TypeOK /\ state \in [States -> Entries] /\ cur \in States
  BY DEF Inv, TypeOK
<1>3. \A e \in Entries : LET f == [e EXCEPT !.checknow = TRUE]
                         IN  f \in Entries /\ f.recs = e.recs /\ f.loaded = e.loaded
  BY DEF Entries
<1>4. /\ state' \in [States -> Entries]
      /\ \A s \in States : state'[s].recs = state[s].recs /\ state'[s].loaded = state[s].loaded
  BY <1>1, <1>2, <1>3
<1>5. TypeOK'
  BY <1>1, <1>4, <1>2 DEF TypeOK
<1>6. ASSUME NEW t \in Threads
      PROVE  (RoleOK(t, thr[t]) /\ VersionOK(thr[t]) /\ FilledOK(thr[t]))'
  <2>1. thr[t].st \in States
    BY <1>2, ThreadType
  <2> QED
    BY <1>1, <1>2, <1>4, <2>1 DEF Inv, RoleOK, VersionOK, FilledOK, Filled, Usable
<1> QED
  BY <1>1, <1>2, <1>4, <1>5, <1>6 DEF Inv, Filled, Usable

\* queueReload takes s_state_lock and empties the caller's entry: those who look
\* at it are disturbed, and nobody is putting anything in place.
LEMMA LockAndNukeStep ==
    ASSUME Inv, NEW t \in Threads, LockAndNuke(t)
    PROVE  Inv'
<1> DEFINE s == thr[t].st
           nuked == [state EXCEPT ![s] = nukeZoneRecords(@)]
           th == [thr[t] EXCEPT !.pc = "parse", !.stage = nuked[cur]]
<1>1. /\ thr[t].pc = "reload" /\ lock = NoThread /\ lock' = t /\ state' = nuked
      /\ UNCHANGED <<file, cur>>
      /\ thr' = [u \in Threads |-> IF u = t THEN th
                                   ELSE IF Holds(u, s) THEN [thr[u] EXCEPT !.disturbed = TRUE]
                                   ELSE thr[u]]
  BY DEF LockAndNuke, At
<1>2. /\ TypeOK /\ state \in [States -> Entries] /\ cur \in States /\ s \in States
      /\ thr \in [Threads -> Thread] /\ thr[t] \in Thread
  BY ThreadType DEF Inv, TypeOK
<1>3. \A e \in Entries : LET f == nukeZoneRecords(e)
                         IN  /\ f \in Entries /\ f.recs.ver = e.recs.ver
                             /\ f.loaded = FALSE /\ f.recs.kind = "none"
  BY DEF Entries, Records, nukeZoneRecords
<1>4. /\ nuked \in [States -> Entries]
      /\ \A x \in States : x # s => nuked[x] = state[x]
      /\ nuked[s].loaded = FALSE /\ nuked[s].recs.kind = "none"
      /\ \A x \in States : nuked[x].recs.ver = state[x].recs.ver
  BY <1>2, <1>3
<1> HIDE DEF nuked
<1>5. /\ th \in Thread /\ th.pc = "parse" /\ th.stage = nuked[cur] /\ th.st = s
      /\ th.committed = thr[t].committed
  BY <1>2, <1>4 DEF Thread, Pcs
<1>6. \A u \in Threads : LET f == [thr[u] EXCEPT !.disturbed = TRUE]
                         IN  /\ f \in Thread /\ f.disturbed = TRUE /\ f.pc = thr[u].pc
                             /\ f.st = thr[u].st /\ f.stage = thr[u].stage
                             /\ f.committed = thr[u].committed /\ f.got = thr[u].got
  BY <1>2 DEF Thread
<1> HIDE DEF th
<1>7. /\ thr' \in [Threads -> Thread] /\ thr'[t] = th
      /\ \A u \in Threads \ {t} :
            /\ thr'[u].pc = thr[u].pc /\ thr'[u].st = thr[u].st
            /\ thr'[u].stage = thr[u].stage /\ thr'[u].committed = thr[u].committed
            /\ thr'[u].got = thr[u].got
  BY <1>1, <1>2, <1>5, <1>6
<1>8. \A u \in Threads \ {t} : thr'[u].disturbed = (thr[u].disturbed \/ Holds(u, s))
  <2> SUFFICES ASSUME NEW u \in Threads \ {t}
               PROVE  thr'[u].disturbed = (thr[u].disturbed \/ Holds(u, s))
    OBVIOUS
  <2>1. thr[u].disturbed \in BOOLEAN
    BY <1>2, ThreadType
  <2>2. CASE Holds(u, s)
    BY <1>1, <1>6, <2>2
  <2>3. CASE ~Holds(u, s)
    BY <1>1, <2>1, <2>3
  <2> QED
    BY <2>2, <2>3
<1>9. \A u \in Threads : thr[u].pc \notin LockedPcs
  BY <1>1, <1>2, Constants DEF TypeOK, LockedPcs
<1>10. TypeOK'
  <2>1. \A u \in Threads : lock' = u <=>
           thr'[u].pc \in {"parse", "move", "reparse", "mark", "swap"}
    BY <1>1, <1>5, <1>7, <1>9 DEF LockedPcs
  <2> QED
    BY <1>1, <1>2, <1>4, <1>7, <2>1 DEF TypeOK, Thread, Pcs
<1>11. ASSUME NEW u \in Threads
       PROVE  (RoleOK(u, thr[u]) /\ VersionOK(thr[u]) /\ FilledOK(thr[u]))'
  <2>1. RoleOK(u, thr[u]) /\ VersionOK(thr[u]) /\ FilledOK(thr[u]) /\ thr[u].st \in States
    BY <1>2, ThreadType DEF Inv
  <2>2. CASE u = t
    <3>1. th.stage.recs.ver <= file.ver
      BY <1>2, <1>4, <1>5 DEF Inv
    <3> QED
      BY <1>1, <1>5, <1>7, <2>1, <2>2, <3>1 DEF RoleOK, VersionOK, FilledOK
  <2>3. CASE u # t
    <3>1. RoleOK(u, thr[u])' /\ VersionOK(thr[u])'
      BY <1>1, <1>2, <1>4, <1>7, <2>1, <2>3 DEF RoleOK, VersionOK
    <3>2. thr[u].pc \notin {"move", "mark", "swap"}
      BY <1>9 DEF LockedPcs
    <3>3. ~thr'[u].disturbed => ~thr[u].disturbed /\ ~Holds(u, s)
      BY <1>8, <2>3
    <3>4. thr[u].pc \in {"take", "retake"} /\ ~Holds(u, s) /\ thr[u].st = cur
            => state'[cur] = state[cur]
      BY <1>1, <1>2, <1>4 DEF Holds
    <3>5. FilledOK(thr[u])'
      BY <1>1, <1>7, <2>1, <2>3, <3>2, <3>3, <3>4 DEF FilledOK
    <3> QED
      BY <3>1, <3>5
  <2> QED
    BY <2>2, <2>3
<1>12. (\A x \in States : state[x].recs.ver <= file.ver)' /\ Filled(state[cur])'
  <2>1. \A x \in States : state'[x].recs.ver <= file'.ver
    BY <1>1, <1>4 DEF Inv
  <2>2. Filled(state'[cur])
    BY <1>1, <1>2, <1>4 DEF Inv, Filled, Usable
  <2> QED
    BY <1>1, <2>1, <2>2
<1> QED
  BY <1>10, <1>11, <1>12 DEF Inv

\* "Move over": s_state gets what was read, and the caller's entry is marked as
\* loaded, which may be the empty one of a State that was swapped out.
LEMMA MoveOverState ==
    ASSUME Inv, NEW t \in Threads, MoveOver(t)
    PROVE  /\ thr[t].pc = "move" /\ lock = t /\ lock' = NoThread /\ UNCHANGED <<file, cur>>
           /\ state' \in [States -> Entries]
           /\ state'[cur].recs = thr[t].stage.recs
           /\ \A x \in States \ {cur} : state'[x].recs = state[x].recs
           /\ \A x \in States \ {cur, thr[t].st} : state'[x] = state[x]
<1> DEFINE s == thr[t].st
           put == [thr[t].stage EXCEPT !.ctime = file.ver]
           moved == [state EXCEPT ![cur] = put]
           loaded(e) == [e EXCEPT !.ctime = file.ver, !.loaded = TRUE, !.checknow = FALSE]
<1>1. /\ TypeOK /\ state \in [States -> Entries] /\ cur \in States /\ s \in States
      /\ thr[t].stage \in Entries /\ file.ver \in 0..MaxVersion
  BY ThreadType DEF Inv, TypeOK
<1>2. put \in Entries /\ put.recs = thr[t].stage.recs
  BY <1>1 DEF Entries
<1>3. \A e \in Entries : loaded(e) \in Entries /\ loaded(e).recs = e.recs
  BY <1>1 DEF Entries
<1> HIDE DEF put
<1>4. /\ moved \in [States -> Entries] /\ moved[cur] = put
      /\ \A x \in States \ {cur} : moved[x] = state[x]
  BY <1>1, <1>2
<1>5. MovedOver(t) = [moved EXCEPT ![s].ctime = file.ver, ![s].loaded = TRUE,
                                   ![s].checknow = FALSE]
  BY DEF MovedOver, put
<1> HIDE DEF moved
<1>6. MovedOver(t) = [moved EXCEPT ![s] = loaded(moved[s])]
  BY <1>1, <1>4, <1>5
<1> HIDE DEF loaded
<1>7. /\ MovedOver(t) \in [States -> Entries]
      /\ MovedOver(t)[s] = loaded(moved[s])
      /\ \A x \in States \ {s} : MovedOver(t)[x] = moved[x]
      /\ \A x \in States : MovedOver(t)[x].recs = moved[x].recs
  BY <1>1, <1>3, <1>4, <1>6
<1>8. /\ thr[t].pc = "move" /\ lock' = NoThread /\ UNCHANGED <<file, cur>>
      /\ state' = MovedOver(t)
  BY DEF MoveOver, At
<1>9. lock = t
  BY <1>1, <1>8 DEF TypeOK
<1> QED
  BY <1>1, <1>2, <1>4, <1>7, <1>8, <1>9

LEMMA MoveOverStep ==
    ASSUME Inv, NEW t \in Threads, MoveOver(t)
    PROVE  Inv'
<1> DEFINE s == thr[t].st
           th == [thr[t] EXCEPT !.disturbed = FALSE]
           rt == Return(t, th)
<1>1. /\ thr[t].pc = "move" /\ lock = t /\ lock' = NoThread /\ UNCHANGED <<file, cur>>
      /\ state' \in [States -> Entries]
      /\ state'[cur].recs = thr[t].stage.recs
      /\ \A x \in States \ {cur} : state'[x].recs = state[x].recs
      /\ \A x \in States \ {cur, s} : state'[x] = state[x]
  BY MoveOverState
<1>2. /\ TypeOK /\ thr \in [Threads -> Thread] /\ thr[t] \in Thread /\ cur \in States
      /\ s \in States /\ thr[t].disturbed \in BOOLEAN
  BY ThreadType DEF Inv, TypeOK
<1>3. th \in Thread /\ th.st = s /\ th.committed = thr[t].committed
  BY <1>2 DEF Thread
<1>5. thr' = [thr EXCEPT ![t] = rt]
  BY DEF MoveOver
<1> HIDE DEF th
<1>6. /\ rt \in Thread /\ rt.stage = Unmade /\ rt.committed = thr[t].committed
      /\ rt.st = s /\ rt.pc = IF t \in Resolvers THEN "retake" ELSE "done"
  BY <1>3, ReturnFacts
<1> HIDE DEF rt
<1>7. /\ thr' \in [Threads -> Thread] /\ thr'[t] = rt
      /\ \A u \in Threads \ {t} : thr'[u] = thr[u]
  BY <1>2, <1>5, <1>6
<1>8. \A u \in Threads \ {t} : thr[u].pc \notin LockedPcs
  BY <1>1, <1>2 DEF TypeOK, LockedPcs
<1>9. TypeOK'
  <2>1. \A u \in Threads : lock' = u <=>
           thr'[u].pc \in {"parse", "move", "reparse", "mark", "swap"}
    BY <1>1, <1>6, <1>7, <1>8, Constants DEF LockedPcs
  <2> QED
    BY <1>1, <1>2, <1>7, <2>1 DEF TypeOK, Thread, Pcs
<1>10. thr[t].stage.recs.kind = "whole" /\ thr[t].stage.recs.ver <= file.ver
  BY <1>1 DEF Inv, FilledOK, VersionOK
<1>11. (\A x \in States : state[x].recs.ver <= file.ver)' /\ Filled(state[cur])'
  BY <1>1, <1>2, <1>10 DEF Inv, Filled, Usable
<1>12. ASSUME NEW u \in Threads
       PROVE  (RoleOK(u, thr[u]) /\ VersionOK(thr[u]) /\ FilledOK(thr[u]))'
  <2>1. /\ RoleOK(u, thr[u]) /\ VersionOK(thr[u]) /\ FilledOK(thr[u]) /\ thr[u].st \in States
    BY <1>2, ThreadType DEF Inv
  <2>2. CASE u = t
    <3>1. Unmade.recs.ver = 0 /\ 0 <= file.ver
      BY <1>2 DEF Unmade, NoRecords, TypeOK
    <3>2. RoleOK(u, thr[u])' /\ VersionOK(thr[u])'
      BY <1>1, <1>6, <1>7, <2>1, <2>2, <3>1 DEF RoleOK, VersionOK
    <3>3. Usable(state'[cur].recs) /\ rt.pc \in {"retake", "done"}
      BY <1>1, <1>6, <1>10 DEF Usable
    <3>4. FilledOK(thr[u])'
      BY <1>1, <1>6, <1>7, <2>2, <3>3 DEF FilledOK
    <3> QED
      BY <3>2, <3>4
  <2>3. CASE u # t
    <3>1. thr'[u] = thr[u] /\ thr[u].pc \notin {"move", "reparse", "mark", "swap"}
      BY <1>7, <1>8, <2>3 DEF LockedPcs
    <3>2. RoleOK(u, thr[u])' /\ VersionOK(thr[u])'
      BY <1>1, <2>1, <3>1 DEF RoleOK, VersionOK
    <3>3. Usable(state'[cur].recs)
      BY <1>1, <1>10 DEF Usable
    <3>4. FilledOK(thr[u])'
      BY <1>1, <2>1, <3>1, <3>3 DEF FilledOK
    <3> QED
      BY <3>2, <3>4
  <2> QED
    BY <2>2, <2>3
<1> QED
  BY <1>9, <1>11, <1>12 DEF Inv

\* s_state.swap(staging): no thread works on the new State yet, and nobody else
\* holds s_state_lock.
LEMMA SwapStep ==
    ASSUME Inv, Swap
    PROVE  Inv'
<1> DEFINE e == thr[Control].stage
<1>1. /\ thr[Control].pc = "swap" /\ cur' = cur + 1 /\ lock' = NoThread /\ UNCHANGED file
      /\ state' = [state EXCEPT ![cur + 1] = e]
      /\ thr' = [thr EXCEPT ![Control] = Idle]
  BY DEF Swap, At
<1>2. /\ TypeOK /\ thr \in [Threads -> Thread] /\ cur \in States /\ e \in Entries
      /\ state \in [States -> Entries] /\ Control \in Threads
  BY Constants, ThreadType DEF Inv, TypeOK
<1>3. /\ RoleOK(Control, thr[Control]) /\ VersionOK(thr[Control]) /\ FilledOK(thr[Control])
  BY <1>2 DEF Inv
<1>4. cur < MaxState /\ e.recs.ver <= file.ver /\ Filled(e)
  BY <1>1, <1>3 DEF RoleOK, VersionOK, FilledOK
<1>5. cur + 1 \in States /\ cur \in Nat
  BY <1>2, <1>4, Constants DEF States
<1>6. /\ state' \in [States -> Entries] /\ state'[cur'] = e
      /\ \A x \in States : x <= cur => state'[x] = state[x]
      /\ \A x \in States : state'[x].recs.ver <= file.ver
  <2>1. \A x \in States : x <= cur => x # cur + 1
    BY <1>5 DEF States
  <2> QED
    BY <1>1, <1>2, <1>4, <1>5, <2>1 DEF Inv
<1>7. /\ thr' \in [Threads -> Thread] /\ thr'[Control] = Idle
      /\ \A u \in Threads \ {Control} : thr'[u] = thr[u]
  BY <1>1, <1>2, Constants
<1>8. \A u \in Threads \ {Control} : thr[u].pc \notin LockedPcs
  BY <1>1, <1>2 DEF TypeOK, LockedPcs
<1>9. Idle.pc = "idle" /\ Idle.st = 1 /\ Idle.stage.recs.ver = 0 /\ Idle.committed = 0
  BY DEF Idle, Unmade, NoRecords
<1>10. TypeOK'
  <2>1. \A u \in Threads : lock' = u <=>
           thr'[u].pc \in {"parse", "move", "reparse", "mark", "swap"}
    BY <1>1, <1>7, <1>8, <1>9, Constants DEF LockedPcs
  <2> QED
    BY <1>1, <1>2, <1>5, <1>6, <1>7, <2>1 DEF TypeOK, Thread, Pcs
<1>11. ASSUME NEW u \in Threads
       PROVE  (RoleOK(u, thr[u]) /\ VersionOK(thr[u]) /\ FilledOK(thr[u]))'
  <2>1. CASE u = Control
    <3>1. 1 <= cur + 1 /\ 0 <= file.ver
      BY <1>2, <1>5 DEF TypeOK
    <3> QED
      BY <1>1, <1>7, <1>9, <2>1, <3>1 DEF RoleOK, VersionOK, FilledOK
  <2>2. CASE u # Control
    <3>1. /\ thr'[u] = thr[u] /\ thr[u].pc \notin {"move", "reparse", "mark", "swap"}
          /\ RoleOK(u, thr[u]) /\ VersionOK(thr[u]) /\ FilledOK(thr[u]) /\ thr[u].st \in States
      BY <1>2, <1>7, <1>8, <2>2, ThreadType DEF Inv, LockedPcs
    <3>2. thr[u].st <= cur /\ thr[u].st \in Nat
      BY <3>1 DEF RoleOK, States
    <3>3. thr[u].st # cur'
      BY <1>1, <1>5, <3>2
    <3>4. RoleOK(u, thr[u])' /\ VersionOK(thr[u])'
      BY <1>1, <1>5, <3>1, <3>2 DEF RoleOK, VersionOK
    <3>5. FilledOK(thr[u])'
      BY <3>1, <3>3 DEF FilledOK
    <3> QED
      BY <3>4, <3>5
  <2> QED
    BY <2>1, <2>2
<1>13. (\A x \in States : state[x].recs.ver <= file.ver)' /\ Filled(state[cur])'
  <2>1. Filled(state'[cur'])
    BY <1>4, <1>6
  <2> QED
    BY <1>1, <1>6, <2>1 DEF Filled, Usable
<1> QED
  BY <1>10, <1>11, <1>13 DEF Inv

-----------------------------------------------------------------------------
(* The theorems.                                                             *)

\* Every step of the backend keeps the invariant.
LEMMA NextInv ==
    ASSUME Inv, [Next]_vars
    PROVE  Inv'
<1>1. CASE UNCHANGED vars
  BY <1>1 DEF vars, Inv, TypeOK, RoleOK, VersionOK, FilledOK, Filled, Usable
<1>2. ASSUME NEW ok \in BOOLEAN, Edit(ok) PROVE Inv'
  BY <1>2, EditStep
<1>3. ASSUME NEW t \in Threads, Reload(t) PROVE Inv'
  BY <1>3, LockAndNukeStep, ParseFailsStep, ParseStep, MoveOverStep DEF Reload
<1>4. ASSUME NEW t \in Threads, Finish(t) PROVE Inv'
  BY <1>4, ToIdle DEF Finish, LockedPcs
<1>5. ASSUME NEW r \in Resolvers, Lookup(r) \/ Check(r) \/ Take(r) \/ List(r) PROVE Inv'
  BY <1>5, LookupStep
<1>6. CASE SetCheckNow
  BY <1>6, SetCheckNowStep
<1>7. CASE ReloadNow
  BY <1>7, Begins, Constants DEF ReloadNow, At
<1>8. CASE Rediscover \/ Reparse \/ Mark \/ Swap
  BY <1>8, RediscoverStep, ReparseStep, MarkStep, SwapStep
<1>9. CASE StartTransaction
  <2>3. \A i \in Thread : i.st = 1 =>
           [i EXCEPT !.pc = "feed"] = [i EXCEPT !.pc = "feed", !.st = 1]
    BY DEF Thread
  <2>1. [Idle EXCEPT !.pc = "feed"] = [Idle EXCEPT !.pc = "feed", !.st = 1]
    BY <2>3, Constants DEF Idle
  <2>2. /\ thr[Transfer].pc = "idle" /\ UNCHANGED <<file, state, cur, lock>>
        /\ thr' = [thr EXCEPT ![Transfer] = [Idle EXCEPT !.pc = "feed", !.st = 1]]
    BY <1>9, <2>1 DEF StartTransaction, At
  <2> QED
    BY <2>2, Begins, Constants
<1>10. CASE AbortTransaction
  BY <1>10, ToIdle, Constants DEF AbortTransaction, At, LockedPcs
<1>11. CASE CommitTransaction
  BY <1>11, CommitStep
<1> QED
  BY <1>1, <1>2, <1>3, <1>4, <1>5, <1>6, <1>7, <1>8, <1>9, <1>10, <1>11 DEF Next

\* The inductive invariant holds in every behaviour.
THEOREM Invariant == Spec => []Inv
<1>1. Init => Inv
  <2> SUFFICES ASSUME Init PROVE Inv
    OBVIOUS
  <2> DEFINE first == [loaded |-> TRUE, checknow |-> FALSE, recs |-> Whole(1), ctime |-> 1]
  <2>1. 1 \in 0..MaxVersion
    BY Constants
  <2>2. Whole(1) \in Records /\ Whole(1).ver = 1 /\ Whole(1).kind = "whole"
    BY <2>1, UpdatedTypes DEF Whole
  <2>3. first \in Entries /\ first.recs = Whole(1)
    BY <2>1, <2>2 DEF Entries
  <2> HIDE DEF first
  <2>4. /\ file = [ver |-> 1, ok |-> TRUE] /\ cur = 1 /\ lock = NoThread
        /\ state = [s \in States |-> IF s = 1 THEN first ELSE Unmade]
        /\ thr = [t \in Threads |-> Idle]
    BY DEF Init, first
  <2>5. file \in [ver : 1..MaxVersion, ok : BOOLEAN] /\ file.ver = 1
    BY <2>4, Constants
  <2>6. state \in [States -> Entries] /\ thr \in [Threads -> Thread]
    BY <2>3, <2>4, Constants
  <2>7. Idle.pc = "idle" /\ Idle.st = 1 /\ Idle.stage.recs.ver = 0 /\ Idle.committed = 0
    BY DEF Idle, Unmade, NoRecords
  <2>8. \A t \in Threads : thr[t] = Idle
    BY <2>4
  <2>9. TypeOK
    BY <2>4, <2>5, <2>6, <2>7, <2>8, Constants DEF TypeOK, Thread, Pcs
  <2>10. (\A s \in States : state[s].recs.ver <= file.ver) /\ Filled(state[cur])
    <3>1. Unmade.recs.ver = 0
      BY DEF Unmade, NoRecords
    <3> QED
      BY <2>2, <2>3, <2>4, <2>5, <3>1, Constants DEF Filled, Usable
  <2>11. \A t \in Threads : RoleOK(t, thr[t]) /\ VersionOK(thr[t]) /\ FilledOK(thr[t])
    BY <2>4, <2>5, <2>7, <2>8 DEF RoleOK, VersionOK, FilledOK
  <2> QED
    BY <2>9, <2>10, <2>11 DEF Inv
<1> QED
  BY <1>1, NextInv, PTL DEF Spec

\* The backend's state keeps its types, and at every moment at most one thread
\* is between taking and giving back s_state_lock (the last conjunct of TypeOK).
THEOREM TypeCorrect == Spec => []TypeOK
BY Invariant, PTL DEF Inv

\* A lookup answers from an empty zone only when a reload emptied its entry after
\* it had seen that loaded, or when its State was swapped out meanwhile
\* (nukeZoneRecords, lookup, bindbackend2.cc:761-765).
THEOREM EmptyOnlyAfterReload == Spec => []EmptyOnlyByReload
<1>1. Inv => EmptyOnlyByReload
  BY DEF Inv, EmptyOnlyByReload, FilledOK, Usable, At, Threads
<1> QED
  BY <1>1, Invariant, PTL

\* What a step makes s_state point to is not older than what it pointed to.
LEMMA StepNeverOlder ==
    ASSUME Inv, [Next]_vars
    PROVE  state'[cur'].recs.ver >= state[cur].recs.ver
<1>1. /\ TypeOK /\ cur \in States /\ state \in [States -> Entries]
      /\ state[cur] \in Entries /\ state[cur].recs.ver \in Nat
  BY DEF Inv, TypeOK, Entries, Records
<1>2. CASE UNCHANGED <<state, cur>>
  BY <1>1, <1>2
<1>3. ASSUME NEW t \in Threads, LockAndNuke(t)
      PROVE  cur' = cur /\ state'[cur].recs.ver = state[cur].recs.ver
  <2>1. thr[t].st \in States
    BY <1>1, ThreadType
  <2>2. nukeZoneRecords(state[cur]).recs.ver = state[cur].recs.ver
    BY <1>1 DEF nukeZoneRecords, Entries, Records
  <2> QED
    BY <1>1, <1>3, <2>1, <2>2 DEF LockAndNuke
<1>4. ASSUME NEW t \in Threads, MoveOver(t)
      PROVE  cur' = cur /\ state'[cur].recs.ver >= state[cur].recs.ver
  BY <1>4, MoveOverState DEF Inv, VersionOK
<1>5. CASE SetCheckNow
  <2>1. [state[cur] EXCEPT !.checknow = TRUE].recs = state[cur].recs
    BY <1>1 DEF Entries
  <2> QED
    BY <1>1, <1>5, <2>1 DEF SetCheckNow
<1>6. CASE Swap
  <2>1. RoleOK(Control, thr[Control]) /\ VersionOK(thr[Control]) /\ thr[Control].pc = "swap"
    BY <1>6, Constants DEF Inv, Swap, At
  <2>2. cur + 1 \in States
    BY <1>1, <2>1, Constants DEF RoleOK, States
  <2>3. state'[cur'] = thr[Control].stage
    BY <1>1, <1>6, <2>2 DEF Swap
  <2> QED
    BY <2>1, <2>3 DEF VersionOK
<1>7. [Next]_vars => \/ UNCHANGED <<state, cur>> \/ SetCheckNow \/ Swap
                     \/ \E t \in Threads : LockAndNuke(t) \/ MoveOver(t)
  BY DEF Next, vars, Edit, Reload, ParseFails, Parse, Finish, Lookup, Check, Take, List,
         ReloadNow, Rediscover, Reparse, Mark, StartTransaction, AbortTransaction,
         CommitTransaction
<1> QED
  BY <1>1, <1>2, <1>3, <1>4, <1>5, <1>6, <1>7

\* Reloads, rediscoveries and transfers that overlap never bring back an older
\* version of the zone (s_state_lock, loadConfig).
THEOREM NeverBackToOlder == Spec => NeverOlder
<1>1. Inv /\ [Next]_vars => [state'[cur'].recs.ver >= state[cur].recs.ver]_vars
  BY StepNeverOlder
<1> QED
  BY <1>1, Invariant, PTL DEF Spec, NeverOlder

\* A transfer that was read back is in s_state, even when rediscover swapped the
\* pointer between the commit and the reload (commitTransaction).
THEOREM CommittedNotLost == Spec => TransferNotLost
<1> DEFINE Kept == At(Transfer, "move") /\ At(Transfer, "done")'
                      => state'[cur'].recs.ver >= thr[Transfer].committed
<1>1. ASSUME Inv, [Next]_vars PROVE [Kept]_vars
  <2> SUFFICES ASSUME thr[Transfer].pc = "move", thr'[Transfer].pc = "done"
               PROVE  state'[cur'].recs.ver >= thr[Transfer].committed
    BY DEF At
  <2>1. /\ Transfer \in Threads /\ Transfer \notin Resolvers /\ Transfer # Control
        /\ thr \in [Threads -> Thread]
    BY <1>1, Constants, ThreadAssumption, ThreadType DEF Inv
  <2>2. thr'[Transfer] # thr[Transfer]
    OBVIOUS
  <2>3. MoveOver(Transfer)
    <3>1. CASE UNCHANGED thr
      BY <2>2, <3>1
    <3>2. ASSUME NEW t \in Threads \ {Transfer}, NEW th, thr' = [thr EXCEPT ![t] = th]
          PROVE  FALSE
      BY <2>1, <2>2, <3>2
    <3>3. ASSUME NEW t \in Threads, Reload(t) PROVE MoveOver(Transfer)
      <4>1. CASE t = Transfer
        BY <3>3, <4>1 DEF Reload, LockAndNuke, ParseFails, Parse, At
      <4>2. CASE t # Transfer
        <5>1. CASE LockAndNuke(t)
          <6>1. thr'[Transfer].pc = thr[Transfer].pc
            BY <2>1, <4>2, <5>1 DEF LockAndNuke, Thread
          <6> QED
            BY <6>1
        <5>2. CASE Parse(t)
          <6>1. thr'[Transfer] = thr[Transfer]
            BY <2>1, <4>2, <5>2 DEF Parse
          <6> QED
            BY <2>2, <6>1
        <5>3. CASE ParseFails(t) \/ MoveOver(t)
          BY <3>2, <4>2, <5>3 DEF ParseFails, MoveOver
        <5> QED
          BY <3>3, <5>1, <5>2, <5>3 DEF Reload
      <4> QED
        BY <4>1, <4>2
    <3>4. ASSUME NEW t \in Threads, Finish(t) PROVE FALSE
      BY <2>1, <3>2, <3>4 DEF Finish
    <3>5. ASSUME NEW r \in Resolvers, Lookup(r) \/ Check(r) \/ Take(r) \/ List(r)
          PROVE  FALSE
      <4>1. r \in Threads \ {Transfer}
        BY <2>1 DEF Threads
      <4>2. thr'[Transfer] = thr[Transfer]
        BY <2>1, <3>5, <4>1 DEF Lookup, Check, Take, List
      <4> QED
        BY <2>2, <4>2
    <3>6. CASE ReloadNow \/ Rediscover \/ Reparse \/ Mark \/ Swap
      <4>1. thr'[Transfer] = thr[Transfer]
        BY <2>1, <3>6, Constants DEF ReloadNow, Rediscover, Reparse, Mark, Swap
      <4> QED
        BY <2>2, <4>1
    <3>7. CASE StartTransaction \/ AbortTransaction \/ CommitTransaction
      BY <3>7 DEF StartTransaction, AbortTransaction, CommitTransaction, At
    <3>8. ASSUME NEW ok \in BOOLEAN, Edit(ok) PROVE UNCHANGED thr
      BY <3>8 DEF Edit
    <3>9. SetCheckNow \/ UNCHANGED vars => UNCHANGED thr
      BY DEF SetCheckNow, vars
    <3> QED
      BY <1>1, <3>1, <3>3, <3>4, <3>5, <3>6, <3>7, <3>8, <3>9 DEF Next
  <2>4. cur' = cur /\ state'[cur].recs = thr[Transfer].stage.recs
    BY <1>1, <2>1, <2>3, MoveOverState
  <2> QED
    BY <1>1, <2>1, <2>4 DEF Inv, VersionOK
<1> QED
  BY <1>1, Invariant, PTL DEF Spec, TransferNotLost
=============================================================================

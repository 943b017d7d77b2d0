---------------------------- MODULE BindBackend ----------------------------
(***************************************************************************)
(* The BIND backend: zone files are parsed into vectors of records that are *)
(* shared by all threads through s_state.  Lookups follow the pointer       *)
(* without a lock; a reload of one zone changes the entry in place under    *)
(* s_state_lock; rediscover builds a new State and swaps the pointer, while *)
(* those at work keep the old one.                                          *)
(*                                                                          *)
(* One zone stands for all: an operation touches the entry of its own zone  *)
(* only, and the configuration keeps listing it.  A version of the zone     *)
(* file also stands for its ctime.                                          *)
(***************************************************************************)
EXTENDS Integers

CONSTANTS
    Resolvers,      \* threads that call lookup and list
    Control,        \* the control channel's thread
    Transfer,       \* the communicator, which commits transfers into the file
    NoThread,
    CheckInterval,  \* bind-check-interval is set: files are looked at by lookup
    CanBreak,       \* whether the operator may leave an unparsable file
    MaxVersion,     \* bound: versions of the zone file
    MaxState        \* bound: States made by rediscover

Threads == Resolvers \cup {Control, Transfer}

ASSUME ThreadAssumption ==
    /\ Control # Transfer /\ {Control, Transfer} \cap Resolvers = {}
    /\ NoThread \notin Threads
ASSUME BoundAssumption ==
    /\ MaxVersion \in Nat \ {0} /\ MaxState \in Nat \ {0}
    /\ CheckInterval \in BOOLEAN /\ CanBreak \in BOOLEAN

VARIABLES
    file,   \* the zone file: its version and whether it can be parsed
    state,  \* the zone's BB2DomainInfo in each State that was made
    cur,    \* the State s_state points to
    lock,   \* the holder of s_state_lock
    thr     \* what each thread is doing

vars == <<file, state, cur, lock, thr>>

States == 1..MaxState

\* What a vector of records holds: a whole version, the part of one that was
\* read before an error, or nothing; ver of an emptied entry remains, for the
\* properties, the version that was there last.  Or it is not a vector, but memory
\* that was released.
Records == [ver : 0..MaxVersion, kind : {"whole", "part", "none", "freed"}]
NoRecords == [ver |-> 0, kind |-> "none"]
Freed == [ver |-> 0, kind |-> "freed"]
Whole(v) == [ver |-> v, kind |-> "whole"]
Part(v) == [ver |-> v, kind |-> "part"]

\* BB2DomainInfo: d_loaded, d_checknow, d_records and d_ctime.
Entries == [loaded : BOOLEAN, checknow : BOOLEAN, recs : Records, ctime : 0..MaxVersion]

Unmade == [loaded |-> FALSE, checknow |-> FALSE, recs |-> NoRecords, ctime |-> 0]

\* A thread: where it is, the State it works on, the entry it is staging, and,
\* for the properties, what a lookup got, whether its entry was emptied after it
\* had looked at d_loaded and the version a transfer committed.
Idle == [pc |-> "idle", st |-> 1, stage |-> Unmade, got |-> NoRecords,
         disturbed |-> FALSE, committed |-> 0]

\* The constructor has loaded the configuration and the first version.
Init ==
    /\ file = [ver |-> 1, ok |-> TRUE]
    /\ state = [s \in States |->
                  IF s = 1 THEN [loaded |-> TRUE, checknow |-> FALSE,
                                 recs |-> Whole(1), ctime |-> 1]
                  ELSE Unmade]
    /\ cur = 1
    /\ lock = NoThread
    /\ thr = [t \in Threads |-> Idle]

At(t, pc) == thr[t].pc = pc
Entry(t) == state[thr[t].st]
-----------------------------------------------------------------------------
(* The zone file.                                                            *)

\* The operator puts a new version in place, possibly one with an error.
Edit(ok) ==
    /\ file.ver < MaxVersion
    /\ ok \/ CanBreak
    /\ file' = [ver |-> file.ver + 1, ok |-> ok]
    /\ UNCHANGED <<state, cur, lock, thr>>

\* BB2DomainInfo::current(): the interval may not have passed since the last
\* look at the file, in which case the entry counts as current.
MayBeCurrent(e) == ~e.checknow
MayBeStale(e) == e.checknow \/ (CheckInterval /\ e.ctime # file.ver)
-----------------------------------------------------------------------------
(* queueReload, called by lookup, bind-reload-now and commitTransaction.     *)

\* Mutated nukeZoneRecords: d_loaded is not lowered.
nukeOpen(e) == [e EXCEPT !.recs.kind = "none"]

\* d_loaded=0 and a new, empty vector.
nukeZoneRecords(e) == [e EXCEPT !.loaded = FALSE, !.recs.kind = "none"]

\* Threads inside lookup that have seen the entry of State s loaded and are about
\* to copy its records.
Holds(t, s) == thr[t].st = s /\ thr[t].pc \in {"take", "retake"}

\* s_state_lock is taken, the caller's entry is emptied, and the entry of s_state
\* is copied to the staging area.
LockAndNuke(t) ==
    LET s == thr[t].st
        nuked == [state EXCEPT ![s] = nukeZoneRecords(@)]
    IN /\ At(t, "reload") /\ lock = NoThread
       /\ lock' = t
       /\ state' = nuked
       /\ thr' = [u \in Threads |->
                    IF u = t THEN [thr[t] EXCEPT !.pc = "parse", !.stage = nuked[cur]]
                    ELSE IF Holds(u, s) THEN [thr[u] EXCEPT !.disturbed = TRUE]
                    ELSE thr[u]]
       /\ UNCHANGED <<file, cur>>

\* What the caller does when queueReload returns: lookup goes on to take the
\* records, the others are done.
Return(t, th) ==
    IF t \in Resolvers THEN [th EXCEPT !.pc = "retake", !.stage = Unmade]
    ELSE [th EXCEPT !.pc = "done", !.stage = Unmade]

\* The file has an error: the exception is caught, and the caller's entry stays
\* empty and not loaded, which lookup does not look at again.
ParseFails(t) ==
    /\ At(t, "parse") /\ ~file.ok
    /\ lock' = NoThread
    /\ thr' = [thr EXCEPT ![t] = Return(t, [@ EXCEPT !.committed = 0, !.disturbed = TRUE])]
    /\ UNCHANGED <<file, state, cur>>

Parse(t) ==
    /\ At(t, "parse") /\ file.ok
    /\ thr' = [thr EXCEPT ![t].pc = "move", ![t].stage.recs = Whole(file.ver)]
    /\ UNCHANGED <<file, state, cur, lock>>

\* Mutated MovedOver: the records go to the caller's entry.
MovedToCaller(t) ==
    [state EXCEPT ![thr[t].st] = [thr[t].stage EXCEPT !.ctime = file.ver,
                                                     !.loaded = TRUE, !.checknow = FALSE]]

\* setCtime and "move over" to the entry of s_state; then the caller's entry is
\* marked as loaded, which is another one when s_state was swapped meanwhile.
MovedOver(t) ==
    LET moved == [state EXCEPT ![cur] = [thr[t].stage EXCEPT !.ctime = file.ver]]
    IN [moved EXCEPT ![thr[t].st].ctime = file.ver, ![thr[t].st].loaded = TRUE,
                     ![thr[t].st].checknow = FALSE]

MoveOver(t) ==
    /\ At(t, "move")
    /\ state' = MovedOver(t)
    /\ lock' = NoThread
    /\ thr' = [thr EXCEPT ![t] =
                 Return(t, [thr[t] EXCEPT !.disturbed = FALSE])]
    /\ UNCHANGED <<file, cur>>
-----------------------------------------------------------------------------
(* lookup and list.                                                          *)

\* The copy of s_state, made without s_state_swap_lock.
Lookup(r) ==
    /\ At(r, "idle") /\ r \in Resolvers
    /\ thr' = [thr EXCEPT ![r] = [Idle EXCEPT !.pc = "check", !.st = cur]]
    /\ UNCHANGED <<file, state, cur, lock>>

\* d_loaded and current().  A zone that is not loaded throws a DBException.
Check(r) ==
    /\ At(r, "check")
    /\ \/ ~Entry(r).loaded /\ thr' = [thr EXCEPT ![r] = Idle]
       \/ Entry(r).loaded /\ MayBeCurrent(Entry(r)) /\ thr' = [thr EXCEPT ![r].pc = "take"]
       \/ Entry(r).loaded /\ MayBeStale(Entry(r)) /\ thr' = [thr EXCEPT ![r].pc = "reload"]
    /\ UNCHANGED <<file, state, cur, lock>>

\* Those with a reference to State s, which is released with the last one: s_state,
\* and the threads with a copy of it in a local variable.
Referenced(s) ==
    s = cur \/ \E t \in Threads :
        thr[t].st = s /\ thr[t].pc \in {"check", "take", "reload", "parse", "move", "done"}

\* d_handle.d_records = bbd.d_records: the answer comes from this vector, which
\* nobody changes any more.  After a reload of its own, lookup first replaces its
\* reference by one to the State that s_state has now, while bbd stays in the old
\* one: that may be gone, or the memory be as it was.
Take(r) ==
    /\ thr[r].pc \in {"take", "retake"}
    /\ \E recs \in {Entry(r).recs, Freed} :
        /\ recs = Freed => At(r, "retake") /\ ~Referenced(thr[r].st)
        /\ thr' = [thr EXCEPT ![r].pc = "answer", ![r].got = recs]
    /\ UNCHANGED <<file, state, cur, lock>>

\* list() for an outgoing transfer looks at neither d_loaded nor current().
List(r) ==
    /\ At(r, "idle") /\ r \in Resolvers
    /\ thr' = [thr EXCEPT ![r] = [Idle EXCEPT !.pc = "list", !.got = state[cur].recs]]
    /\ UNCHANGED <<file, state, cur, lock>>

\* get() until the records are exhausted.
Finish(t) ==
    /\ thr[t].pc \in {"answer", "list", "done"}
    /\ thr' = [thr EXCEPT ![t] = Idle]
    /\ UNCHANGED <<file, state, cur, lock>>
-----------------------------------------------------------------------------
(* The control channel.                                                      *)

\* reload(): every zone of s_state is to be looked at.
SetCheckNow ==
    /\ At(Control, "idle") /\ lock = NoThread
    /\ state' = [state EXCEPT ![cur].checknow = TRUE]
    /\ UNCHANGED <<file, cur, lock, thr>>

\* DLReloadNowHandler.
ReloadNow ==
    /\ At(Control, "idle")
    /\ thr' = [thr EXCEPT ![Control] = [Idle EXCEPT !.pc = "reload", !.st = cur]]
    /\ UNCHANGED <<file, state, cur, lock>>

\* Mutated Rediscover: s_state_lock is not taken.
RediscoverUnlocked ==
    /\ At(Control, "idle") /\ cur < MaxState
    /\ LET e == state[cur]
       IN \/ /\ e.loaded /\ MayBeCurrent(e)
             /\ thr' = [thr EXCEPT ![Control] = [Idle EXCEPT !.pc = "swap", !.stage = e]]
          \/ /\ ~e.loaded \/ MayBeStale(e)
             /\ thr' = [thr EXCEPT ![Control] = [Idle EXCEPT !.pc = "reparse", !.stage = e]]
    /\ UNCHANGED <<file, state, cur, lock>>

\* loadConfig up to the parsing of the file: under s_state_lock the entry of
\* s_state is copied to a new State; a zone that is loaded and current is kept.
Rediscover ==
    /\ At(Control, "idle") /\ lock = NoThread /\ cur < MaxState
    /\ lock' = Control
    /\ LET e == state[cur]
       IN \/ /\ e.loaded /\ MayBeCurrent(e)
             /\ thr' = [thr EXCEPT ![Control] = [Idle EXCEPT !.pc = "swap", !.stage = e]]
          \/ /\ ~e.loaded \/ MayBeStale(e)
             /\ thr' = [thr EXCEPT ![Control] = [Idle EXCEPT !.pc = "reparse", !.stage = e]]
    /\ UNCHANGED <<file, state, cur>>

\* A new vector is filled and sorted; an error leaves what was read so far, and
\* d_loaded and d_ctime as they were.
Reparse ==
    /\ At(Control, "reparse")
    /\ \/ /\ file.ok
          /\ thr' = [thr EXCEPT ![Control].pc = "mark", ![Control].stage.recs = Whole(file.ver)]
       \/ /\ ~file.ok
          /\ thr' = [thr EXCEPT ![Control].pc = "swap", ![Control].stage.recs = Part(file.ver)]
    /\ UNCHANGED <<file, state, cur, lock>>

\* setCtime and d_loaded.
Mark ==
    /\ At(Control, "mark")
    /\ thr' = [thr EXCEPT ![Control].pc = "swap", ![Control].stage.ctime = file.ver,
                          ![Control].stage.loaded = TRUE]
    /\ UNCHANGED <<file, state, cur, lock>>

\* s_state.swap(staging), and the end of loadConfig.
Swap ==
    /\ At(Control, "swap")
    /\ cur' = cur + 1
    /\ state' = [state EXCEPT ![cur + 1] = thr[Control].stage]
    /\ lock' = NoThread
    /\ thr' = [thr EXCEPT ![Control] = Idle]
    /\ UNCHANGED file
-----------------------------------------------------------------------------
(* A transfer into the zone file.                                            *)

\* startTransaction and feedRecord write to a temporary file.
StartTransaction ==
    /\ At(Transfer, "idle")
    /\ thr' = [thr EXCEPT ![Transfer] = [Idle EXCEPT !.pc = "feed"]]
    /\ UNCHANGED <<file, state, cur, lock>>

\* abortTransaction unlinks it.
AbortTransaction ==
    /\ At(Transfer, "feed")
    /\ thr' = [thr EXCEPT ![Transfer] = Idle]
    /\ UNCHANGED <<file, state, cur, lock>>

\* commitTransaction: the State is looked up, the file is renamed, and then
\* queueReload is called for the entry of that State.
CommitTransaction ==
    /\ At(Transfer, "feed") /\ file.ver < MaxVersion
    /\ file' = [ver |-> file.ver + 1, ok |-> TRUE]
    /\ thr' = [thr EXCEPT ![Transfer] = [Idle EXCEPT !.pc = "reload", !.st = cur,
                                                     !.committed = file.ver + 1]]
    /\ UNCHANGED <<state, cur, lock>>
-----------------------------------------------------------------------------
Reload(t) == LockAndNuke(t) \/ ParseFails(t) \/ Parse(t) \/ MoveOver(t)

Next ==
    \/ \E ok \in BOOLEAN : Edit(ok)
    \/ \E t \in Threads : Reload(t) \/ Finish(t)
    \/ \E r \in Resolvers : Lookup(r) \/ Check(r) \/ Take(r) \/ List(r)
    \/ SetCheckNow \/ ReloadNow \/ Rediscover \/ Reparse \/ Mark \/ Swap
    \/ StartTransaction \/ AbortTransaction \/ CommitTransaction

Spec == Init /\ [][Next]_vars

-----------------------------------------------------------------------------
\* The types of the backend's state (bindbackend2.hh:70-136).
TypeOK ==
    /\ file \in [ver : 1..MaxVersion, ok : BOOLEAN]
    /\ state \in [States -> Entries]
    /\ cur \in States
    /\ lock \in Threads \cup {NoThread}
    /\ thr \in [Threads ->
                  [pc : {"idle", "check", "take", "retake", "answer", "list", "reload", "parse", "move",
                         "reparse", "mark", "swap", "feed", "done"},
                   st : States, stage : Entries, got : Records,
                   disturbed : BOOLEAN, committed : 0..MaxVersion]]
    /\ \A t \in Threads :
        lock = t <=> thr[t].pc \in {"parse", "move", "reparse", "mark", "swap"}

\* A lookup finds an empty zone, or memory that was released, only in two ways.  A
\* reload emptied its entry between its look at d_loaded and its copy of d_records:
\* another thread's, or its own that failed.  Or its State had been swapped out: a
\* reload raises d_loaded on the entry there, but moves the records to the entry of
\* s_state (bindbackend2.cc:761-765).  Any other lookup during a reload is told that
\* the zone is not available (nukeZoneRecords).
EmptyOnlyByReload ==
    \A r \in Resolvers :
        At(r, "answer") /\ thr[r].got.kind \in {"none", "freed"}
            => thr[r].disturbed \/ thr[r].st # cur

\* Reloads, rediscoveries and transfers that overlap never bring back an older
\* version of the zone than the one s_state had (s_state_lock, loadConfig's copy).
NeverOlder ==
    [][state'[cur'].recs.ver >= state[cur].recs.ver]_vars

\* A transfer that was committed and read back is in s_state, even when the
\* pointer was swapped between the commit and the reload (commitTransaction,
\* whose comment expects trouble "if s_state was cycled during the AXFR").
TransferNotLost ==
    [][At(Transfer, "move") /\ At(Transfer, "done")'
         => state'[cur'].recs.ver >= thr[Transfer].committed]_vars

\* What the comments say of lookup's unlocked access: "everybody should have
\* their own reference counted copy of 'records'" (bindbackend2.cc:879), so a
\* lookup answers from a whole version of the zone.
LookupSeesWholeZone ==
    \A r \in Resolvers : At(r, "answer") => thr[r].got.kind = "whole"
=============================================================================

---------------------------- MODULE PacketCache ----------------------------
(***************************************************************************)
(* The cache of the authoritative server (packetcache.cc).  One container   *)
(* holds whole answers (PACKETCACHE) and answers of the backends to single  *)
(* queries (QUERYCACHE, used by UeberBackend); handler threads look in the  *)
(* first, then in the second, then ask the backend, and fill both.  The     *)
(* operator purges it by name, by domain or entirely (pdns_control purge),  *)
(* and the communicator purges a zone before it notifies its slaves.        *)
(*                                                                          *)
(* A value is the version of the backend's data an answer was made from.    *)
(* Every operation runs under the read/write lock and is one step; a        *)
(* TryReadLock or TryWriteLock that finds the lock taken is a choice.  The  *)
(* server runs without a recursor: no answer merits recursion, and the DNS  *)
(* proxy, which inserts what the recursor says, is not there.               *)
(***************************************************************************)
EXTENDS Integers, Sequences, FiniteSets, SequencesExt

CONSTANTS
    Handlers,      \* threads that answer questions
    Names,         \* cached names, each the character codes of the name from
                   \* its last character to its first
    Purges,        \* arguments of pdns_control purge: see Match
    Updated,       \* zones masterUpdateCheck may find updated
    PacketTTL,     \* cache-ttl
    QueryTTL,      \* query-cache-ttl
    MaxEntries,    \* max-cache-entries; 0: no maximum
    CleanupEvery,  \* operations between two cleanups (300000)
    UintWidth,     \* number of values of an unsigned int (2^32)
    MaxBusy,       \* bound on the seconds a handler takes from reading to inserting
    MaxVersion     \* bound on the number of changes of the backend's data

ASSUME TTLAssumption == PacketTTL \in Nat /\ QueryTTL \in Nat
ASSUME LimitAssumption == MaxEntries \in Nat /\ CleanupEvery \in Nat \ {0}
                         /\ UintWidth \in Nat \ {0}
ASSUME NameAssumption == Names # {} /\ Names \subseteq Seq(Nat)
ASSUME PurgeAssumption ==
    \A match \in Purges : /\ match.kind \in {"all", "exact", "suffix"}
                          /\ match.kind # "all" => match.name \in Seq(Nat)
ASSUME MaxAssumption == MaxBusy \in Nat /\ MaxVersion \in Nat

VARIABLES
    cache,       \* d_map in the order of its sequenced index
    ops,         \* d_ops, an unsigned int
    handler,     \* per handler, the question and what it has found so far
    version,     \* the backend's data
    superseded,  \* per version, the seconds since it was replaced
    last         \* the answer given in the last step (history)

cacheVars == <<cache, ops, handler, version, superseded, last>>

Dot == 46

\* No answer to report.
Nothing == [op |-> "nothing"]

\* left: seconds until ttd; at 0 the entry is no longer returned, below 0 it may
\* be cleaned up.
MaxTTL == IF PacketTTL > QueryTTL THEN PacketTTL ELSE QueryTTL
Versions == 0..MaxVersion
Entry == [qname : Names, ctype : {"PACKET", "QUERY"}, value : Versions, left : -1..MaxTTL]
Handler == [pc : {"idle", "asked", "missed", "read", "answer"},
            qname : Names, value : Versions, busy : 0..MaxBusy]
\* The longest an answer may lag behind the backend.
MaxLag == LET Lived(ttl) == IF ttl = 0 THEN 0 ELSE ttl - 1
          IN  2 * MaxBusy + Lived(QueryTTL) + Lived(PacketTTL)
-----------------------------------------------------------------------------
(* Names and their order.                                                    *)

\* CIBackwardsStringCompare: character by character from the end of the name; a
\* name that is the end of another one comes first.
Before(a, b) ==
    \E k \in 1..Len(b) :
        /\ \A j \in 1..(k - 1) : j <= Len(a) /\ a[j] = b[j]
        /\ k = Len(a) + 1 \/ (k <= Len(a) /\ a[k] < b[k])

\* Mutated InZone: the dot before the suffix is forgotten.
InZoneNoDot(n, zone) == IsPrefix(zone, n)

\* The name is the zone itself or ends on a dot and the zone.
InZone(n, zone) == n = zone \/ IsPrefix(zone \o <<Dot>>, n)
-----------------------------------------------------------------------------
(* Operations on the container.                                              *)

Find(n, type) == SelectInSeq(cache, LAMBDA e : e.qname = n /\ e.ctype = type)

\* Mutated Hit: time to live is not looked at.
HitAny(n, type) == Find(n, type) # 0

\* getEntryLocked returns the entry found while ttd > now.
Hit(n, type) == LET i == Find(n, type) IN i # 0 /\ cache[i].left > 0

\* insert, then replace when the key exists, which keeps the entry's place in
\* the sequenced index.
With(c, e) ==
    LET same == SelectInSeq(c, LAMBDA x : x.qname = e.qname /\ x.ctype = e.ctype)
    IN  IF same = 0 THEN Append(c, e) ELSE [c EXCEPT ![same] = e]

Expired(e) == e.left < 0

\* The entries that are erased are taken out; the others keep their order.
Without(c, gone) ==
    LET kept[i \in 0..Len(c)] ==
            IF i = 0 THEN <<>>
            ELSE IF c[i] \in gone THEN kept[i - 1] ELSE Append(kept[i - 1], c[i])
    IN  kept[Len(c)]

\* cleanup: walk along the sequenced index, erasing what has expired, until more
\* than toTrim entries are erased or more than lookAt + 1 have been looked at.
Trimmed(c) ==
    LET toTrim == IF MaxEntries # 0 /\ Len(c) > MaxEntries THEN Len(c) - MaxEntries ELSE 0
        lookAt == IF toTrim # 0 THEN 5 * toTrim ELSE Len(c) \div 10
        Stop(n) == \/ n = Len(c)
                   \/ n - 1 > lookAt
                   \/ /\ toTrim # 0
                      /\ Cardinality({i \in 1..n : Expired(c[i])}) > toTrim
        seen == CHOOSE n \in 1..Len(c) : Stop(n) /\ \A m \in 1..(n - 1) : ~Stop(m)
    IN  IF c = <<>> THEN c
        ELSE Without(SubSeq(c, 1, seen), {e \in ToSet(c) : Expired(e)})
             \o SubSeq(c, seen + 1, Len(c))

\* Every operation counts, within the width of d_ops; the first one and every
\* CleanupEvery-th cleans up.
Counted == (ops + 1) % UintWidth
Cleaned == IF ops % CleanupEvery = 0 THEN Trimmed(cache) ELSE cache
-----------------------------------------------------------------------------
(* Purging.  Match is [kind |-> "exact" or "suffix", name |-> ...].          *)

\* lower_bound finds the first entry not before the suffix; entries are erased
\* from there until the first that is not in the zone.
Run(c, zone) ==
    {e \in ToSet(c) :
        /\ ~Before(e.qname, zone)
        /\ \A x \in ToSet(c) :
              ~Before(x.qname, zone) /\ ~Before(e.qname, x.qname) => InZone(x.qname, zone)}

\* One match: all entries of the name, or of the zone when it ends on $.
Erase(c, match) ==
    LET gone == IF match.kind = "suffix" THEN Run(c, match.name)
                ELSE {e \in ToSet(c) : e.qname = match.name}
    IN  Without(c, gone)

\* purge: no argument at all clears the cache; otherwise the first element of
\* the vector is skipped (for pdns_control it is the word "purge").
purge(matches) ==
    IF matches = <<>> THEN <<>>
    ELSE LET left[i \in 1..Len(matches)] ==
                 IF i = 1 THEN cache ELSE Erase(left[i - 1], matches[i])
         IN  left[Len(matches)]
-----------------------------------------------------------------------------
CacheInit ==
    /\ cache = <<>>
    /\ ops = 0
    /\ handler \in [Handlers -> [pc : {"idle"}, qname : {CHOOSE n \in Names : TRUE},
                                 value : {0}, busy : {0}]]
    /\ version = 0
    /\ superseded = [v \in Versions |-> 0]
    /\ last = Nothing

\* get(): a question for n is answered from the cache, or missed: it is not
\* there, it has expired, or the lock was taken (deferred-cache-lookup).
Get(h, n) ==
    /\ handler[h].pc = "idle"
    /\ ops' = Counted
    /\ cache' = Cleaned
    /\ \/ /\ Hit(n, "PACKET")
          /\ last' = [op |-> "served", value |-> cache[Find(n, "PACKET")].value]
          /\ UNCHANGED handler
       \/ /\ handler' = [handler EXCEPT ![h] = [@ EXCEPT !.pc = "asked", !.qname = n]]
          /\ last' = Nothing
    /\ UNCHANGED <<version, superseded>>

\* UeberBackend::lookup: cacheHas looks for the backend's answer to the query.
CacheHas(h) ==
    /\ handler[h].pc = "asked"
    /\ IF QueryTTL = 0 THEN UNCHANGED <<ops, cache>> ELSE ops' = Counted /\ cache' = Cleaned
    /\ LET n == handler[h].qname IN
       \/ /\ Hit(n, "QUERY")
          /\ handler' = [handler EXCEPT ![h] =
                [@ EXCEPT !.pc = "answer", !.value = cache[Find(n, "QUERY")].value]]
       \/ handler' = [handler EXCEPT ![h].pc = "missed"]
    /\ last' = Nothing
    /\ UNCHANGED <<version, superseded>>

\* External: the backend answers the query with its current data.
ReadBackend(h) ==
    /\ handler[h].pc = "missed"
    /\ handler' = [handler EXCEPT ![h] = [@ EXCEPT !.pc = "read", !.value = version]]
    /\ last' = Nothing
    /\ UNCHANGED <<cache, ops, version, superseded>>

\* Mutated Insert: the times to live are used before getTTLS has read them, when
\* d_ttl is still -1.
InsertUnread(h, type, ttl) ==
    LET e == [qname |-> handler[h].qname, ctype |-> type, value |-> handler[h].value,
              left |-> (-1) % UintWidth]
    IN  /\ ops' = Counted
        /\ cache' \in {Cleaned, With(Cleaned, e)}

\* insert(): nothing is stored when the time to live is zero or the lock is
\* taken (deferred-cache-inserts).
Insert(h, type, ttl) ==
    LET e == [qname |-> handler[h].qname, ctype |-> type, value |-> handler[h].value,
              left |-> ttl]
    IN  /\ ops' = Counted
        /\ cache' \in {Cleaned} \cup (IF ttl = 0 THEN {} ELSE {With(Cleaned, e)})

\* UeberBackend::get at the end of the answers: addOneCache or addNegCache, or
\* neither when there was more than one record.  The two times to live
\* (query-cache-ttl, negquery-cache-ttl) are one here.
AddQuery(h) ==
    /\ handler[h].pc = "read"
    /\ \/ UNCHANGED <<ops, cache>>
       \/ QueryTTL # 0 /\ Insert(h, "QUERY", QueryTTL)
    /\ handler' = [handler EXCEPT ![h].pc = "answer"]
    /\ last' = Nothing
    /\ UNCHANGED <<version, superseded>>

\* The handler's answer is stored, unless it may not be cached, and sent
\* (PacketHandler::questionOrRecurse).
AddPacket(h) ==
    /\ handler[h].pc = "answer"
    /\ Insert(h, "PACKET", PacketTTL) \/ UNCHANGED <<ops, cache>>
    /\ handler' = [handler EXCEPT ![h] = [@ EXCEPT !.pc = "idle", !.value = 0, !.busy = 0]]
    /\ last' = [op |-> "served", value |-> handler[h].value]
    /\ UNCHANGED <<version, superseded>>

\* DLPurgeHandler: a bare "purge" becomes an empty vector, otherwise the vector
\* still starts with the word itself.
ControlArgs(match) == IF match.kind = "all" THEN <<>> ELSE <<[kind |-> "purge"], match>>

ControlPurge(match) ==
    /\ cache' = purge(ControlArgs(match))
    /\ last' = Nothing
    /\ UNCHANGED <<ops, handler, version, superseded>>

\* masterUpdateCheck, for a zone the backend reports as updated: purge is called
\* before its slaves are notified, with the zone as the vector's only element.
UpdateArgs(zone) == <<[kind |-> "exact", name |-> zone]>>

MasterUpdateCheck(zone) ==
    /\ cache' = purge(UpdateArgs(zone))
    /\ last' = Nothing
    /\ UNCHANGED <<ops, handler, version, superseded>>

\* External: the data in the backend change.
Change ==
    /\ version < MaxVersion
    /\ version' = version + 1
    /\ last' = Nothing
    /\ UNCHANGED <<cache, ops, handler, superseded>>

Working(h) == handler[h].pc # "idle"

\* A second passes; no handler takes longer than MaxBusy.
Tick ==
    /\ \A h \in Handlers : Working(h) => handler[h].busy < MaxBusy
    /\ cache' = [i \in DOMAIN cache |->
                    [cache[i] EXCEPT !.left = IF @ < 0 THEN @ ELSE @ - 1]]
    /\ handler' = [h \in Handlers |->
                      IF Working(h) THEN [handler[h] EXCEPT !.busy = @ + 1] ELSE handler[h]]
    /\ superseded' = [v \in Versions |->
                         IF v >= version \/ superseded[v] > MaxLag THEN superseded[v]
                         ELSE superseded[v] + 1]
    /\ last' = Nothing
    /\ UNCHANGED <<ops, version>>

CacheNext ==
    \/ \E h \in Handlers : \/ \E n \in Names : Get(h, n)
                           \/ CacheHas(h) \/ ReadBackend(h) \/ AddQuery(h) \/ AddPacket(h)
    \/ \E match \in Purges : ControlPurge(match)
    \/ \E zone \in Updated : MasterUpdateCheck(zone)
    \/ Change
    \/ Tick

CacheSpec == CacheInit /\ [][CacheNext]_cacheVars
-----------------------------------------------------------------------------
\* The types of the cache and of the questions under way (packetcache.hh:86-117).
CacheTypeOK ==
    /\ cache \in Seq(Entry)
    /\ ops \in 0..(UintWidth - 1)
    /\ handler \in [Handlers -> Handler]
    /\ version \in Versions
    /\ superseded \in [Versions -> 0..(MaxLag + 1)]

\* The two layers add up: an answer is never further behind the backend than
\* both times to live and twice the time a handler needs, though the packet may
\* be made from a cached query and be cached anew (get, insert, cacheHas).
BoundedStaleness == last.op = "served" => superseded[last.value] <= MaxLag

\* The domains a name belongs to, label by label.
Belongs(n, zone) ==
    \/ n = zone
    \/ Len(n) > Len(zone) /\ SubSeq(n, 1, Len(zone)) = zone /\ n[Len(zone) + 1] = Dot

\* A name that is no domain's but ends on its characters, after one that sorts before
\* the dot: 'x-powerdns.com' for 'powerdns.com'.
Hides(n, zone) ==
    /\ Len(n) > Len(zone)
    /\ SubSeq(n, 1, Len(zone)) = zone
    /\ n[Len(zone) + 1] < Dot

\* What is left of the cache after a purge.
Spared(c, match) ==
    CASE match.kind = "all" -> {}
      [] match.kind = "exact" -> {e \in ToSet(c) : e.qname # match.name}
      [] match.kind = "suffix" ->
            LET hidden == \E x \in ToSet(c) : Hides(x.qname, match.name)
            IN  {e \in ToSet(c) : ~Belongs(e.qname, match.name)
                                  \/ (hidden /\ e.qname # match.name)}

\* What purge leaves behind, exactly, whenever it is called.  A purge of a domain erases
\* "everything in the powerdns.com zone" and not 'usepowerdns.com' (packetcache.cc:176-180),
\* unless some name like 'x-powerdns.com' is cached: the names below the domain then sort
\* after it in the backwards order, the scan stops there (packetcache.cc:230) and every one
\* of them stays; the domain's own name goes in any case.  A purge of a name erases its
\* entries of both kinds and no others.  The purge of masterUpdateCheck, which is to erase
\* the updated zone (mastercommunicator.cc:147), leaves everything: purge skips the only
\* element it is given (packetcache.cc:219).
PurgeIsExact ==
    /\ \A match \in Purges : ToSet(purge(ControlArgs(match))) = Spared(cache, match)
    /\ \A zone \in Updated : purge(UpdateArgs(zone)) = cache
=============================================================================

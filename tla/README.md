# TLA+ models of PowerDNS

This directory holds a verification project for the PowerDNS sources in
`src/pdns`: TLA+ modules translated from the C++ code, TLC configurations that
check them on small instances, and TLAPS proofs of the properties that matter
most for instances of any size. Paths below are relative to `src/pdns/pdns`.

## 1. The system

The repository contains two programs that share a library.

**The authoritative server** (`pdns_server`) answers questions from backends
(databases, BIND zone files, a coprocess). *Receiver* threads read UDP packets,
look in the *packet cache* and hand the rest to the *distributor*, whose threads
each own a *packet handler* and a set of backends joined by *UeberBackend*, which
uses the cache for single backend queries. Questions that need recursion go to
the *DNS proxy*. The *communicator* thread transfers slave zones, looks for
updated master zones and notifies slaves; a *TCP nameserver* serves AXFR; a
*control channel* lets the operator purge, notify and retrieve.

**The recursor** (`pdns_recursor`) resolves by asking other servers. Each of its
threads runs *mthreads* (coroutines of *MTasker*) under an event multiplexer;
`SyncRes` is the resolution algorithm, with record, negative and packet caches.

### Inventory

| Part | State | Operations | Interacts with | What is hard | Correct when |
|---|---|---|---|---|---|
| DNS proxy (`dnsproxy.cc`) | `d_conntrack`, `d_xor`, one socket, `d_lock` | `sendPacket`, `getID_locked`, `mainloop` | handlers call it; answers go to clients and into the packet cache | answers lost, late, repeated; ID reserved before the packet leaves; IDs run out | each client is sent at most one answer, and the right one unless an ID was reused |
| Slave communicator (`communicator.cc`, `slavecommunicator.cc`) | `d_suckdomains`, `d_lock`, `d_suck_sem`, `d_any_sem`; a backend transaction | `addSuckRequest`, `mainloop`, `slaveRefresh`, `suck` | packet handler (NOTIFY), control channel, resolver, backends | two semaphores and a lock used in an order; priorities; transfers that break off; crashes; wrapping serials | no `front()` of an empty deque, no request left behind; a zone is always one whole version and fresh for a reason |
| Master communicator (`mastercommunicator.cc`, `communicator.hh`) | `d_nqueue`, `d_holes` | `add`, `removeIf`, `getOne`, `doNotifications`, `drillHole` | control thread adds to it, packet cache is purged, TCP nameserver reads the holes | a list without a lock; retries racing late answers; ID collisions | a notification leaves the queue only acknowledged or after four attempts |
| Packet and query cache (`packetcache.cc`) | `d_map` (hashed, sequenced, ordered), `d_ops`, rwlock | `get`, `getEntry`, `insert`, `purge`, `cleanup` | receivers, packet handlers, UeberBackend, control, communicator | insertion after a purge; two layers; partial cleanup; order of names | one entry per key; a purge erases what it names and nothing else; bounded age |
| Distributor (`distributor.hh`) | `questions`, `numquestions`, `nextid`, `d_last_started` | `question`, `makeThread` | receivers, packet handler, `numRunning` | semaphore and queue in two steps; dying threads; a count shared with others and changed without a lock; overload exit | each question handed to one thread; bounded threads and queue |
| Recursor UDP queries (`pdns_recursor.cc`, `lwres.cc`) | `d_waiters`, `d_socks`, chains, registered descriptors | `asendto`, `arecvfrom`, `handleUDPServerResponse`, `doResends`, `returnSocket` | MTasker, multiplexer, SyncRes | a woken mthread runs at once, in the middle of the handler | one packet per question, no leaked or doubly returned socket, nobody waits for ever |
| MTasker (`mtasker.cc`) | run queue, `d_waiters`, zombies | `makeThread`, `schedule`, `waitEvent`, `sendEvent` | everything in the recursor | control passes inside calls | one waiter per key; timeouts fire |
| Recursor TCP queries | `TCPConnection`s | `asendtcp`, `arecvtcp` | MTasker | partial reads and writes, timeouts | descriptors removed once |
| SyncRes (`syncres.cc`) | throttle map, negative cache, nameserver speeds, depth, `beenthere` | `doResolve`, `doResolveAt`, `getBestNSFromCache`, cache checks | record cache, `asyncresolve` | servers that need each other, lame servers, data nobody vouches for, entries that expire under way | ends; right answers unless a server with a say lies; found when nothing fails |
| Recursor caches (`recursor_cache.cc`, `recpacketcache.cc`) | record and packet maps | `get`, `replace`, `doWipeCache`, `doPrune`, `doAgeCache` | SyncRes, control | authoritative against other data, TTLs | never returns expired data |
| Packet handler, UeberBackend (`packethandler.cc`, `ueberbackend.cc`) | the question, the target after CNAMEs, the reply | `questionOrRecurse`, `processNotify`, `trySuperMaster`, `lookup`, `get` | cache, backends, communicator | CNAME loops, wildcards, delegations, lookups that throw, auth flags of different origin | ends; denies only what does not exist; refers at delegations |
| TCP nameserver (`tcpreceiver.cc`) | connection semaphore | `doConnection`, `doAXFR`, `canDoAXFR` | holes of the master communicator | connection limit, exceptions | slots are given back |
| Resolver, Inflighter (`resolver.cc`, `inflighter.cc`) | queries in flight | `axfrChunk`, `run`, `tryGetSOASerial` | slave communicator | retries, late, repeated and useless answers | every refresh ends; answers belong to their questions |
| Guardian (`receiver.cc`) | child process | restart loop | the operator | crash and restart | the server is restarted unless told to stop |
| BIND backend (`bindbackend2.cc`) | `s_state` with a vector of records per zone, `s_state_lock` | `lookup`, `list`, `queueReload`, `loadConfig`, `commitTransaction` | control, communicator | a zone reloaded or swapped while it is read; broken files | no version lost or brought back; readers see one whole zone |
| Generic SQL, pipe backends | transaction, coprocess | `startTransaction`, `feedRecord`, `commit` | slave transfer | failure in the middle | all or nothing |
| Control channel, statistics, web server, DNS encoding, zone parser, DNSSEC tools, multiplexers, Lua hooks | | | | I/O, sequential or external | see `PROJECT.json` |

The hazards at their lines, and the properties aimed at them, are listed in
`PROJECT.json`.

## 2. Modules and how they correspond to the code

Every model keeps the control of its code and abstracts the data: a query, a
notification, a question or a zone is a model value. Time is a counter that a
`Tick` action advances; where only the distance to a deadline matters, the state
holds the seconds left. The names of variables and operators follow the code;
`PROJECT.json` gives the lines of every definition. A definition that no
specification uses and that is named after another one (`AcceptableAll` beside
`Acceptable`) is a variant of the code's behaviour that a property must reject.

| Module | Models | Composes with |
|---|---|---|
| DNSProxy | the proxy's ID table | |
| Communicator | the request queue, its lock and semaphores | abstracts SlaveTransfer's `suck` |
| Inflighter | serial queries in flight | extended by SlaveTransfer |
| SlaveTransfer | refresh, NOTIFY, transfers and their transaction, crashes | extends Inflighter, implements ZoneStore |
| ZoneStore | the abstract specification: what a slave promises | |
| NotificationQueue | outgoing notifications | |
| PacketCache | packet and query cache, with the handlers that fill it | |
| PacketHandler | the answering algorithm | |
| BindBackend | zones of the BIND backend shared by threads | |
| Distributor | the queue of questions and its threads | |
| RecursorQueries | MTasker and the recursor's UDP queries | |
| SyncRes | the resolution algorithm and its caches | |

**DNSProxy.** `conntrack` is `d_conntrack`, with `created = 0` for an entry whose
answer was relayed, as in the code. `Track` is `sendPacket` while it holds the
lock, `Transmit` is what follows the unlock, `Receive` is one round of
`mainloop`. `getID_locked` returns the first ID that is absent or older than the
timeout; when there is none, its `int` counter runs to 65536, which `sendPacket`
narrows to 0 (`ToUint16`). The network keeps, loses, delays and repeats packets.
`fate` is a history variable: how a query's entry was last given up. `cached` is
the set of answers that `mainloop` put into the packet cache, which it does with
whatever it relays. Packets shorter than a header are dropped before they touch
any state.

**Communicator.** `addSuckRequest` is three steps (`Push`, `PostFirst`,
`PostSecond`) between which the main loop and other threads run, the main loop is
one action per call that touches shared state (`TryAny`, `TrySuck`, `Pop`,
`Suck`). A transfer is one step with three outcomes: done, failed and logged, or
an exception nobody catches, after which the process exits.

**Inflighter, SlaveTransfer, ZoneStore.** `slaveRefresh` takes the zones whose
interval has passed (`StartRefresh`), asks one master of each through
`Inflighter::run` (`SendQuery`, `Receive`, `Network`, `GiveUp`, `EndInflight`), compares
serials (`Judge`) and queues what is behind; `suck` connects, inserts the chunks
of a transfer into an open transaction and commits or rolls back (`Connect`,
`Chunk`, `Commit`, `Fail`, `SetFresh`); `processNotify` and `trySuperMaster` read
the zone's serial, ask the master and queue, in two steps, as a transfer may end
in between. A version is a number whose serial is taken modulo `SerialMod`; a
record is known by its master, version and position, so that a mixture of
versions would be visible. Answers may be repeated as often as the network likes;
a packet that `tryGetSOASerial` cannot use makes `receive` throw and `run` start
again (`ReceiveThrows`). Queries that have expired are given up only after
`Silence`, half a second in which no packet came (`quiet`). `Crash` ends the process at any point: memory is lost,
the database rolls back, and a commit that was sent may have happened. Masters
publish when they like and may lag behind each other. `floor` is a history
variable, the versions at the start of the refresh. ZoneStore, instantiated with
the same `zone` and `mver` (`INSTANCE ZoneStore WITH`), has two actions only: a master publishes, a zone is
replaced by one whole version that is not older than a copy of the same master.
Left out: presigned zones, the Lua filter, TSIG, the bytes of messages.

**NotificationQueue.** `doNotifications` is two loops: read answers (`Drain`) and
send what is due (`Send`, then `Drill`, as the hole is drilled after the packet
has left). The control thread's `list::push_back` is two steps, `ControlAdd` and
`ControlLink`, because the list has no lock. Two unsynchronised updates of a
linked list are a data race; the outcomes modelled are: in sequence, the new node
linked to an erased one (lost), or the nodes appended meanwhile unlinked (lost).
A crash is a further outcome of the race in a real build and is not modelled.
The backend is told that a zone was notified (`setNotified`), before any
notification is sent; no other part reads that here, so it is left out.

**PacketCache.** One sequence in the order of the sequenced index holds both
layers. A handler goes through `Get`, `CacheHas`, `ReadBackend`, `AddQuery`,
`AddPacket`; purges, cleanups and changes of the backend come in between. Names
are sequences of character codes from the last character to the first, since the
suffix purge depends on `CIBackwardsStringCompare`. `TryReadLock`/`TryWriteLock`
failures are choices. `d_ops` has the width of an unsigned int (`UintWidth`).
`ControlArgs` and `UpdateArgs` are the vectors that `pdns_control purge` and
`masterUpdateCheck` call `purge` with; `purge` skips the first element, which only
the first of them puts there for it. Question type, recursion flag and zone ID of
the key are left out, and so is the DNS proxy, which inserts the answers of a
recursor when there is one.

**PacketHandler.** `questionOrRecurse` for one question: `TurnAway` for what it
does not answer, then per target `FindAuth` or `NoAuth` (SERVFAIL, or a referral to
the root if `send-root-referral` is set), `LookupANY` with its
CNAME, answer and NODATA branches, `TryWildcard`, `TryReferral` with NXDOMAIN,
and `Send` with the additional processing (from the same zone only, or from any with
`out-of-zone-additional-processing`) and the cache. Each lookup may throw
(`BackendFails`, `AnswerFails`). Names are sequences of labels. The auth flag of a
record comes from one of three sources: the `auth` column of an SQL backend,
assumed right; `loadConfig` of the BIND backend (`LoadedUnauth`, with its search
in the wrong label order); or nowhere, as after `queueReload`. Left out: DNSSEC,
URL and MBOXFW records, CHAOS questions, the class ANY, recursion of foreign
names.

**BindBackend.** A State made by the constructor or `rediscover` holds an entry
(`d_loaded`, `d_checknow`, `d_records`, `d_ctime`); `s_state` points to one of
them. `lookup` is `Lookup` (copy of the pointer), `Check` (`d_loaded`,
`current()`, perhaps a reload), `Take`; after a reload of its own it has replaced
its reference to the State by the current one, so the entry it reads from may have
been released (`Freed`) unless another reference is left (`Referenced`). `queueReload` is `LockAndNuke`, `Parse` or
`ParseFails`, `MoveOver`; `loadConfig` is `Rediscover`, `Reparse`, `Mark`, `Swap`;
a transfer writes a temporary file, renames it and calls `queueReload`. One zone
stands for all.

**Distributor.** `question()` is `Ask`, `PostQuestion`, `CheckQueue`; a backend
thread is `Construct`, `Take` (the semaphore), `Fetch` (the queue, under its own
lock), `Work`. A throwing backend ends the thread, which only a later `Ask`
replaces; a callback that throws ends it too, and the outer `catch` leaves its
backend behind (`leaked`). `numRunning` is `PacketHandler::s_count`, which counts
every packet handler of the server: `OthersStart` and `OthersStop` are those that
transfers, notifications, control commands and TCP connections construct and drop
(`others`). It is changed without a lock, so an update may be lost to another one
(`CountUp`, `CountDown`; `missed` and `stuck` count the lost ones). `nextid` is
never reduced.

**RecursorQueries.** One thread of the recursor with its mthreads. At most one
mthread is "running"; otherwise the kernel has control and goes through
`schedule` (run queue, zombies, waiters whose time has come), then the
multiplexer, whose handler for an answer is `Receive` or `ReceiveShort`, a
`Resend` per chained ID, `Wake`, `Return`. Each wake-up lets the mthread run at
once, and it may ask again before the handler goes on. The socket pool is
`socks`. Abstracted: near misses only count statistics; among several waiters
that match an answer with an empty question section any may be taken, where the
code takes the first in its order; the housekeeping mthread, which is started
without regard to `max-mthreads`, is left out.

**SyncRes.** `doResolve`, `doResolveAt` and `getAs` call each other, so the state
has a stack of frames. `CacheCheck` is `doCNAMECacheCheck` and `doCacheCheck`,
`FindNS` is `getBestNSFromCache` with `beenthere`, `NextNS` and `Answer` walk the
name servers and their addresses, `Process` is what is done with an answer: which
records are accepted, how they replace cached ones, and whether it is an answer,
a denial, a CNAME, a referral or lame. `Fault`, `Truncated`, `Throttled` and
`Spare` (an address of `dont-query`) are the error paths. An entry's age matters at
three points: it is there, it is there with five seconds or less to live (`late`),
when `getBestNSFromCache` does not count on an address any more, or it is gone. The servers are external: a world gives zones, records and which
address serves what, and a careless server may put any of the world's stray
records into its answers. One question is resolved at a time. Left out: forwarded
and own zones, delegation-only, ANY and AAAA, EDNS modes; name servers are tried
in any order.

The MC modules give names to model values and small data; they add nothing to the
behaviour.

## 3. Runs

| Run | Instance | States | Shows |
|---|---|---|---|
| `dnsproxy` | 3 allowed and 1 refused query, 2 IDs, timeout 2, 4 ticks; symmetric in the allowed queries | 188,990 | at most one answer per client; wrong answers only after a reuse |
| `communicator` | 2 requesters (1 with priority), 2 zones, queue of 3 | 10,068 | wake-ups cover requests; every request gets its turn |
| `notifications` | 2 notifications to one slave, one by the control thread, 2 IDs | 250,741 | dropped only for a reason, answered ones are not sent again, all of them end |
| `packetcache` | 1 handler, names `b.a` and `b-a`, zone `a`, both TTLs 1, 1 change, cleanup every 2 operations, unsigned ints modulo 3 | 938,752 | an answer is at most 2·busy + both TTLs behind; what a purge leaves, exactly |
| `distributor` | 3 questions, 2 configured threads of 5, queue limit 1, 1 handler of another part at a time, 1 lost update of the count | 243,950 | one place per question; respawn limit; questions are dealt with |
| `recursor_queries` | 3 mthreads (limit 2), 1 question, 2 IDs, 2 sockets, 2 questions asked each | 118,413 | one packet per question, sockets accounted for, safe return, nobody waits for ever |
| `slave_transfer` | a zone with 2 masters and 2 versions, a zone only a supermaster knows, 1 handler, serials modulo 3, chunks of at most 2 records | 402,300 | SlaveTransfer implements ZoneStore; a zone is judged fresh for a reason; a refresh ends if left alone |
| `bind_backend` | 2 lookup threads, control, transfer, 2 versions, 2 States, files may be broken | 378,829 | when a lookup can find the zone empty or released; no version lost or brought back |
| `bind_race` | the same, files never broken | violated | a lookup answers from the vector that a reload emptied |
| `answering` | 440 databases over 5 names, a hosted child zone in some, 3 sources of auth flags, 3 settings of root referral and additional processing, 3 CNAMEs at most | 744,852 | termination, loops, NXDOMAIN, NODATA and referrals, the chain in the answer |
| `answering_cut` | zone files with a name two labels below the apex | violated | a delegation there is not honoured |
| `syncres` | 7 worlds of 3 zones, 5 names asked for, 2 questions, 1 fault, 1 expired entry, depth limit 10 as in the code | 180,007 | right answers, answers found when nothing fails, every question ends |

Why these bounds reach the interesting cases: two IDs for three queries make
every ID held and then reused within the clock's range, and late packets meet new
owners; a queue of three lets priority overtake; two notifications to one target
with two IDs collide and do not collide; four attempts are the code's own bound;
in the cache one name is in the zone purged and the other only ends on its last
character and hides the first, and a stale query becomes a fresh packet; the count
of operations comes round; three questions exceed a
queue limit of one at a check of every second question while two threads are busy
or dead, and there is a fifth thread to start when an increment was lost; two mthreads chained onto a third is the smallest chain of which a part
is woken while another part asks again; the two versions of the first zone lie within one turn of the serials, so that what
is judged there is not excepted, and a second master that lags gives an older
version than the first; two
States let a reload finish in a State that was swapped out; the worlds of
`syncres` have glue, none, a lame server, an address not to be queried, zones and aliases
that need each other, and a server that speaks of others' names. `recursor_queries` also passes for
safety with two questions (1,481,199 states); the run uses one to stay short.

What the bounds do not reach: `packetcache` has one handler, so two handlers that
insert the same question do not meet; `answering` has one CNAME limit (3 for the
code's 10); `slave_transfer` has one query ID, so that IDs always collide, no
serial that wraps, and no record type that the database refuses;
`recursor_queries` has one question, so a descriptor is reused for the same
question only. The theorems of section 5 have none of these limits.

Deadlock checking is off in five modules: DNSProxy and SyncRes, whose clock or
number of questions is bounded; PacketHandler, which ends when it has answered;
Communicator and Distributor, where the process may exit. It is on elsewhere.

### What the properties except

Some properties name a state in which the code does not keep the promise.
`MisdeliveryNeedsReuse`: an ID given to another query, be it free, stale or, when
all are held, held. `EveryRequestServed`: the end of the process, and a stream of
priority requests. `DroppedForAReason` says nothing of a notification that the
unlocked list loses. `PurgeIsExact`: names below a domain stay when a name like
`x-powerdns.com` is cached for `powerdns.com`, and `masterUpdateCheck` purges
nothing; the property says so. `ThreadsBounded`: one thread more with each lost
increment of the count, and nothing if constructing a backend may take longer than
the pause between two starts. `QuestionsDealtWith`: no thread is left.
`JudgedFreshRight`: the serial has wrapped. `RefreshEnds`: packets keep coming less
than half a second apart for ever. `EmptyOnlyByReload`: a reload of the very entry
between the look at `d_loaded` and the copy, and a lookup in a State that was
swapped out, where a reload raises `d_loaded` on an entry that stays empty.
`FoundWhenHealthy`: the root servers' addresses have expired, or glue was lost next
to a lame server. `NotLame`: the auth flags are unset.

### Fairness

Weak fairness stands for "a running thread continues" and is assumed only for
steps of the program. *Communicator*: strong fairness for `Pop`, whose mutex
others take repeatedly (mutexes are assumed not to starve), and for `TryAny`,
which competes with the end of an inner loop that polls for at least a second. A
stream of priority requests may starve the others, and the property says so.
*NotificationQueue*: `Tick` is strongly fair because it is enabled between two
calls only, and time does pass there (the thread sleeps). *Distributor*: backends
answer or throw; nothing makes clients ask. *RecursorQueries*: mthreads give up
control in the end (their questions are bounded), the kernel goes on, and time
passes, read as the code does between two calls of `schedule`. *SlaveTransfer*:
`run()` sends while it may and returns when nothing is left. `GiveUp` of at least
one query is strongly fair: the cleanup after a silence finds the queries in flight
too young only for three seconds, and silences that come again and again last
longer than that together. That there are silences is not assumed by the fairness
but by the property: `RefreshEnds` is about behaviours in which `receive` is left
waiting for ever by no stream of packets (`[]<>(~Waiting)`), since nothing in the
code ends `run()` under such a stream. *PacketHandler* and *SyncRes*: the one thread goes
on; in SyncRes a query gives an answer, an error or a timeout, which
RecursorQueries shows. No fairness is assumed for any network, slave, master or
server.

## 4. Findings

Two have a run that shows them:

1. `bindbackend2.cc:883` (`bind_race`): the check of `d_loaded` and the copy of
   `d_records` are two steps without a lock; a reload in between makes the lookup
   answer from an empty zone, against the comment at line 879.
2. `bindbackend2.cc:632` (`answering_cut`): the auth flags are computed with names
   in the wrong label order, so a delegation two or more labels below the apex is
   answered with authority.

Further behaviours were met while modelling. They are part of the models but no
run of the project checks a statement against them:

- `dnsproxy.cc:130`: with all IDs held `getID_locked` returns 65536, i.e. 0, which
  is neither unused nor stale, against its comment.
- `mastercommunicator.cc:269`: a notification reported as "Added to queue"
  (`dynhandler.cc:215`) can vanish from the unlocked list.
- `mastercommunicator.cc:147`: the purge ("fixes cvstrac ticket #30") before notifying passes the zone as the
  element that `purge` skips (`packetcache.cc:219`), so nothing is purged.
- `pdns_recursor.cc:1424`: mthreads chained onto a waiter that is answered by a
  packet without a question are not woken and wait until they time out.
- `packetcache.cc:230`: the suffix purge stops at the first name outside the
  domain, and `-` sorts before `.`, so with `x-powerdns.com` cached a purge of
  `powerdns.com$` leaves every name below the domain, against the comment at line
  176.
- `inflighter.cc:114`, `resolver.cc:181`: queries in flight expire only after half a
  second without a packet, so a steady stream of unexpected or useless packets
  keeps a refresh going for ever.
- `distributor.hh:227`: a callback that throws ends its thread without deleting the
  backend, which stays counted, so that the thread is not replaced.
- `slavecommunicator.cc:203`: a wrapped serial passes for an old one; a zone with
  several masters may go back to the version of one that lags, as ZoneStore says
  "never back" of one master's copies only.
- `bindbackend2.cc:761-765`: a reload in a State that was swapped out raises
  `d_loaded` on an entry whose records went elsewhere, and a lookup there answers
  from an empty zone; `bindbackend2.cc:880`: after its own reload a lookup reads
  through a reference to an entry whose State it may have been the last to hold.
- `bindbackend2.cc:770`: after a reload that fails, the lookup that caused it
  answers from the empty vector; after a rediscover that fails half way, the part
  that was read is served.
- `packethandler.cc:1204-1272`: a wildcard is tried before a referral, and with
  flags unset an NS record is answered with nothing ("Should not get here!!").
- `recursor_cache.cc:204`: an SOA or CNAME record without authority replaces one
  with it.
- `syncres.cc:419`: the hints are loaded again only when the root's NS records are
  gone, so while only the addresses have expired every question fails; and a name
  that is the only server of its zone is not resolved through its glue.

## 5. Proofs

Eight modules hold theorems, each from the named assumptions on the constants of
the module it extends, and for every value of them: any number of queries, IDs,
threads, zones, masters, versions, mthreads, questions, sockets, notifications,
databases, cache entries and worlds. PacketHandler and PacketCache, and
RecursorQueries and SyncRes, share a proof module each; PacketCache and SyncRes
name their specifications `CacheSpec` and `ResolveSpec` for that reason.

**DNSProxyProofs.** `Inv` is `TypeOK`, `TableConsistent`, `AtMostOneAnswer` and
`MisdeliveryNeedsReuse`. Neither of the last two is inductive alone: to see that a
second packet under an ID finds the entry marked, one must know that an entry's
owner was sent something exactly when it is marked (`EntriesOwned`), that every
query still tracked owns the entry of its local ID (`FatesFollow`), and that
every packet on the wire carries the masked ID of its query (`PacketsMatch`); what
is in the packet cache was relayed to somebody (`CachedWasRelayed`). A
packet for `p` that reaches another owner at `p`'s ID then shows that `p` is no
longer tracked. `HeldIDsAreSafe` is an action property and follows from what
`getID_locked` returns: if any ID is free, one that is not held. The only fact
about the exclusive-or is that it is its own inverse on the IDs.

**CommunicatorProofs.** `Inv` adds to the types that the lock is held by exactly
the thread inside `addSuckRequest` (so that at most one request is half added),
and the two counting relations (`CountsAgree`, `NoneStranded`). `PopIsSafe` follows: a granted semaphore leaves
at least one request in the deque.

**RecursorProofs, RecursorQueries.** `Inv` is `TypeOK`, `OneAtATime`, `OneOutstanding`,
`SocketsAccounted`, `ReturnIsSafe` and `HandlerConsistent`. The last says
what survives while mthreads run in the middle of the handler: until the waiter
for the handler's key is woken it is still waiting, the key has a real
descriptor, and a handler about to return a socket has not returned it before.
`SocketsAccounted` needs it because of the severed waiter, whose socket was
returned before it is woken (`ReceiveShort`): a woken mthread may get that very
descriptor for another question, and only knowing which waiter is severed tells
that from a double return. There is one lemma per action; asking and waiting,
which occur in several of them, have their own.

**SlaveTransferProofs.** `Refinement` shows that SlaveTransfer implements
ZoneStore, `FreshIsRight` that a zone is judged fresh for the right reason. `Inv`
is a conjunction of ten parts. `XferOK` carries the refinement: while a transfer
is under way the open transaction holds exactly the beginning of the version being
sent, and that version is not older than the copy of the same master that is
served, so a commit is a `Replace` of ZoneStore and every other step leaves `zone`
alone. It needs `ZoneOK` (no zone holds a version its master does not have yet)
for a transfer that begins, and `QueueOK` and `HandOK` (requests name known zones
and masters of theirs) for its master. `NetOK` carries `FreshIsRight`: a zone is
asked about once in a refresh, so all that is in flight or on the wire about it
comes from one master, and `SerialsOK` says that a serial received is one that this
master had since the refresh began. That holds however often an answer is repeated, since repeating adds nothing that
was not said. Within one turn of the serial numbers the order of serials is the order of versions (`SerialOrder`), and the theorem
follows. The invariant was checked with TLC on the instance of the run before it
was proved.

**BindBackendProofs.** `Inv` adds to the types (one holder of `s_state_lock` among
them) what each thread may rely on. `VersionOK` carries `NeverBackToOlder` and
`CommittedNotLost`: what the holder of the lock has parsed and not yet put in
place is not older than what `s_state` has, nor than what the same thread
committed; it is inductive because the file only gets newer and nobody else
replaces the zone while the lock is held. `FilledOK` carries
`EmptyOnlyAfterReload`: a lookup that was not disturbed, in the State that `s_state`
points to, has records in front of it at each of its steps. The invariant asks it of that State
only, and `Swap`, which makes another State the current one, moves every lookup
under way to the excepted ones.

**DistributorProofs.** `Counted` says that the semaphore, the threads it has let
through and a question pushed but not posted account for every question in the
queue, so that `NeverPopsEmpty` and, with `ItemsWorked`, `QuestionInOnePlace`
follow. `BoundedPool` needs `StartedBefore`: a backend under construction is at
least as old as the last start. If construction takes no longer than the pause
between two starts, a thread that `question()` starts finds all others counted by
`numRunning`. What other parts start and stop only raises that count while it is
there, and backends left behind and lost decrements raise it for good, so of all
that makes it differ from the number of threads only a lost increment lets
`question()` start one more. `ThreadsBounded` states the condition on the
constants, without which threads that are not counted yet could add up.

**NotificationQueueProofs.** `QueueOK` says that an entry is in the list once and
counts the attempts that were made, also through the data race of the two
threads, `WireOK` that a packet carries the ID its notification was given. From
these, an entry erased by `getOne` has used its attempts and one erased by
`removeIf` was answered (`DroppedOnlyForAReason`). `AnsweredOK` makes
`NoResendAfterAnswer` inductive: an answered notification that is still in the
list shares target and ID with another one that was acknowledged in its place.
The removal of an element from a sequence is described once, by its positions,
and used by all actions.

**AnsweringProofs, PacketHandler.** The theorems are for any databases, questions and limit.
Their reference is `Path`, the names a question leads to by the CNAMEs in the
zones, computed without the handler's bookkeeping; `SearchOK` says that the target
is `Path[retargetcount]`, that a search for wildcards has found no record at the
target, and that a search for a referral has found neither a CNAME nor a wildcard
or, if there are records, that some of them are delegated. `ReplyOK` says that
only CNAMEs are in the reply until the search ends, that they form a chain, and
that a reply on its way to the cache is right (`Settled`). `LoopsAreBrokenOff` then
needs that `Path` stays where it is once no CNAME leads on (`PathStays`). That
`Path` is defined at all, a function by recursion, is shown from well-founded
induction on the naturals, in the form that a set of numbers that is not empty has
a least member, which needs no operator parameter. Three assumptions are about
the data: names are sequences of labels and every zone has a SOA record at its
apex, since `getAuth` finds zones by it (`DataAssumption`); a name with a CNAME
has no other record (`CNAMEAssumption`, RFC 1034), which the
handler does not check and relies on, since it follows the first CNAME it meets
(`packethandler.cc:1240-1248`); and the auth flags come from one of the three
sources (`SourceAssumption`). TLC evaluates all of them on the databases of the
runs. For zones that break `CNAMEAssumption` nothing is claimed.

**AnsweringProofs, PacketCache.** `StalenessBounded` is for any number of names,
handlers, purges and limits. `CacheInv` bounds what a value lags behind wherever
it is kept. `EntryOK`: an entry of the query cache that is still returned lags by
at most the time a handler needs and the part of its time to live that has passed;
one of the packet cache by what its handler had accumulated (`HandlerLag`), the
handler's own time and the part that has passed. `HandlerOK`: a value read from
the backend lags by the time its handler has been busy, one from the query cache
by its time to live more. The two layers add up because a handler that takes a
value from the query cache takes with it what that value lags behind, and its
packet starts a new time to live from there; `BoundedStaleness` alone says nothing
about what is still in the cache. The container is a sequence: `WithoutFacts`,
`TrimmedFacts`, `WithFacts` and `HitFacts` say which entries erasing, the limit of
a cleanup, inserting and looking up leave or find. What the recursive function of
`Without` yields is described position by position with a least counterexample,
as no induction theorem can be used. `PurgesAreExact` says what each purge leaves.
The model's purge scans names in the backwards order from the domain on until one
is not in it; the property speaks of labels. Names in the domain follow the domain
itself with only names between them that end on its characters, and of these
those come first that go on with a character below the dot (`Hides`): so the scan
takes the whole domain, or stops before its first name but the domain's own.

**RecursorProofs, SyncRes.** `AnswersAreRight` states `NeverWrong` for every world
that satisfies the assumptions, any questions, limits, losses and expiries. A
name's answer depends on the caches and on calls for other names, so the invariant
is not about the question but about all names in which no careless server has a
say (`Sure`): the zones above them belong to a set of zones without careless
servers that contains the zones above the names of its own servers (`Guarded`).
A trusted question is sure, and so are the aliases and the name servers resolved
on its way (`TrustedFacts`, `SureFacts`). For these names `ResolveInv` says that
the cache holds the zone's data (`CacheTrue`: name servers and aliases are some of
the zone's, addresses are all of them), that a cached denial is true (`NegTrue`),
that a call asks a zone above its name, with name servers and addresses of that
zone (`FrameOK`), and that a call is about a name server of its caller's zone
(`CalledBy`) or a name the question is an alias of. An answer of a careless server
cannot spoil it: if a record is accepted, its name is below the zone that was asked
(`Acceptable`); were the name sure, that zone would be too, the server would be
one of its own, and so not careless (`SureAnswer`). A server that is not careless
refers, informs or denies (`Truthful`, `TellsFacts`), and `TruthfulAnswer` says
what each branch of `doResolveAt` may conclude from that. The depth in
`ResolveTypeCorrect` needs to know that a call past its first look in the caches is
within the limit, since one for a name server's address is two deeper than its
caller. The assumptions on worlds are that names and addresses have their shapes
and every zone has servers (`ShapeAssumption`), that a name with a CNAME has no
address and is no name server (RFC 1034 and RFC 2181), and that the hints are
right (`DataAssumption`). The code checks none of these: `getAs` follows the CNAME of
a name server too, to servers that `Say` does not count, so nothing is claimed of
such data. Servers may be lame and careless in any number.

The inductive invariants of these modules, too, were checked with TLC on the
instances of the runs.

Only model-checked:

- all liveness properties (`EveryRequestServed`, `RefreshEnds`, `EventuallyDone`,
  `QuestionsDealtWith`, `EveryWaiterGoesOn`, `Terminates`, `EveryQuestionEnds`):
  fairness and ENABLED are out of the prover's reach;
- `FoundWhenHealthy` of SyncRes: it does not hold for all constants, since a world
  in which name servers are deep enough in each other's zones exceeds any limit on
  the depth, and to bound the depth by the world takes an induction over the
  zones;
- the two statements that the code does not keep (`LookupSeesWholeZone`,
  `DelegationHonoured`) are refuted by runs.

## 6. Plan

Done: the modules of section 2, the refinement of ZoneStore, and the theorems of
section 5, which state every invariant and action property of the passing runs but
`FoundWhenHealthy`. Next, in this order:

1. **TCPServer**: connection slots, `canDoAXFR` with the holes; composed with
   NotificationQueue. Properties: slots are given back on every path; a slave
   that was notified may transfer for the time of the hole.
2. **UeberBackend**: iteration over several backends, negative entries, the zone
   ID that `insert` never stores (`packetcache.cc:141`).
3. **RecursorTCP** (`asendtcp`, `arecvtcp`) and the recursor's packet cache;
   several questions at once in SyncRes, sharing the caches.
4. **RecursorThreads**: pipes between threads, reloads through them; the guardian;
   the pipe backend.

## 7. Not modelled

The implementation has some 79,000 lines. A large part is vendored cryptography
(`ext/polarssl`, `aes`), ports to other platforms, client code of databases
(`modules/`), option parsing and the encoding of packets, records and zone files
byte by byte, DNSSEC signing, statistics and the web server: sequential data
transformation or I/O, without state whose order of changes other parts depend on.
The map therefore covers a small share of all lines, and a larger share of the
files named in section 2. Lua hooks run arbitrary scripts. The event multiplexers
wrap system calls and are represented by the handlers they call. The TCP
nameserver, the guardian and the recursor's threads are left for later, as the
plan says. The components list in `PROJECT.json` gives the status of every part.

------------------------------- MODULE SyncRes -------------------------------
(***************************************************************************)
(* How the recursor resolves a question (syncres.cc) with its record cache *)
(* (recursor_cache.cc) and negative cache: follow referrals from the best  *)
(* name servers in the cache, resolve the name servers' own names on the   *)
(* way, take from each answer what the server may speak of, throttle       *)
(* servers that fail.                                                      *)
(*                                                                         *)
(* doResolve, doResolveAt and getAs call each other, so there is a stack;  *)
(* a CNAME is a call in tail position and reuses its frame.  d_now moves   *)
(* on with every query sent, so that what is cached may expire while a     *)
(* question is resolved.  One question is resolved at a time.  Names are   *)
(* sequences of labels, the root is <<>>; the order in which name servers  *)
(* are tried depends on measured speeds and is any order.  A set of        *)
(* records has the same time to live in every answer.  Left out: forwarded *)
(* and own zones, zones that are delegation-only, the types ANY and AAAA,  *)
(* EDNS modes, and the ageing of flawed sets of name servers, which Expire *)
(* subsumes.                                                               *)
(***************************************************************************)
EXTENDS Naturals, Sequences, FiniteSets

CONSTANTS Worlds,       \* what the servers of the Internet hold and how they behave
          AskedNames,   \* the names asked for, of type A
          Hints,        \* the root name server's name and address
          DontQuery,    \* the addresses of dont-query
          MaxDepth,     \* the limit on depth; 10 in the code
          MaxFaults,    \* bound: answers lost or refused, entries that expire under way
          MaxExpire,    \* bound: cache entries that expire between questions
          MaxQuestions  \* bound: questions asked

\* A name, its labels from the left; an address has the same shape.
Name == Seq(STRING)
Recs == {"NS", "A", "CNAME", "SOA"}
Places == {"answer", "authority", "additional"}

ASSUME LimitsAssumption ==
    MaxDepth \in Nat /\ MaxFaults \in Nat /\ MaxExpire \in Nat /\ MaxQuestions \in Nat
ASSUME NamesAssumption == AskedNames \subseteq Name /\ Hints.name \in Name /\ Hints.ip \in Name

\* Names and addresses have their shapes and every zone, the root among them, has servers.
ASSUME ShapeAssumption ==
    \A w \in Worlds :
        /\ <<>> \in DOMAIN w.ns
        /\ \A z \in DOMAIN w.ns : z \in Name /\ w.ns[z] \subseteq Name /\ w.ns[z] # {}
        /\ w.a \subseteq Name \X Name /\ w.cname \subseteq Name \X Name
        /\ w.lies \subseteq [place : Places, name : Name, type : Recs, to : Name]

\* A name with a CNAME has no address (RFC 1034, 3.6.2) and serves no zone (RFC 2181, 10.3),
\* and the hints are a name server of the root and its only address.
ASSUME DataAssumption ==
    \A w \in Worlds :
        /\ \A x \in w.cname : /\ \A y \in w.a : x[1] # y[1]
                              /\ \A z \in DOMAIN w.ns : x[1] \notin w.ns[z]
        /\ Hints.name \in w.ns[<<>>]
        /\ {x[2] : x \in {y \in w.a : y[1] = Hints.name}} = {Hints.ip}

VARIABLES world,      \* a member of Worlds
          cache,      \* MemRecursorCache: [name, type] -> [recs, auth]
          negcache,   \* [name, type, soa]; type "0" is the whole name
          late,       \* addresses in the cache with five seconds or less to live
          throttle,   \* [ip, name] not to be asked for now
          stack,      \* the calls in progress, the innermost first
          question,   \* the name asked for last
          result,     \* what doResolve returned for it
          faults, expired, asked

resolveVars == <<world, cache, late, negcache, throttle, stack, question, result, faults, expired, asked>>
env == <<world, question, expired, asked>>

Suffixes(n) == {SubSeq(n, i, Len(n)) : i \in 1..(Len(n) + 1)}
EndsOn(n, s) == s \in Suffixes(n)
CacheKey(n, t) == [name |-> n, type |-> t]
Cached(n, t) == IF CacheKey(n, t) \in DOMAIN cache THEN cache[CacheKey(n, t)].recs ELSE {}

-----------------------------------------------------------------------------
(***************************************************************************)
(* MemRecursorCache::replace.  Records without authority do not replace    *)
(* ones with it, except SOA and CNAME records, of which there is only one; *)
(* name servers with authority are added to as many that were already held *)
(* with authority, so that an answer does not prolong the set.             *)
(***************************************************************************)
Entry(k) == IF k \in DOMAIN cache THEN cache[k] ELSE [recs |-> {}, auth |-> FALSE]

\* attemptToRefreshNSTTL
RefreshOfNS(k, recs, old) ==
    k.type = "NS" /\ old.auth /\ old.recs # {} /\ Cardinality(recs) = Cardinality(old.recs)

Replaced(k, recs, auth) ==
    LET old == IF k.type \in {"SOA", "CNAME"} THEN [Entry(k) EXCEPT !.recs = {}] ELSE Entry(k)
    IN  CASE ~auth /\ old.auth /\ old.recs # {} -> old
          [] auth /\ ~RefreshOfNS(k, recs, old) -> [recs |-> recs, auth |-> TRUE]
          [] OTHER -> [recs |-> old.recs \cup recs, auth |-> auth]

Keys(recs) == {CacheKey(x.name, x.type) : x \in recs}
Supplanted(recs, auth) ==
    [k \in DOMAIN cache \cup Keys(recs) |->
        IF k \in Keys(recs)
          THEN Replaced(k, {x.to : x \in {y \in recs : CacheKey(y.name, y.type) = k}}, auth)
          ELSE cache[k]]

\* The entries whose time to live starts anew with these records.
Renewed(recs, auth) == {k \in Keys(recs) : auth \/ ~Entry(k).auth}

HintRecs == {[name |-> <<>>, type |-> "NS", to |-> Hints.name],
             [name |-> Hints.name, type |-> "A", to |-> Hints.ip]}

\* primeHints
Primed == Supplanted(HintRecs, TRUE)

-----------------------------------------------------------------------------
(***************************************************************************)
(* Calls.                                                                  *)
(***************************************************************************)
Frame(n, depth, been) ==
    [name |-> n, depth |-> depth, beenthere |-> been, outer |-> been, cnamed |-> FALSE,
     phase |-> "resolve", auth |-> <<>>, nss |-> {}, ips |-> {},
     doTCP |-> FALSE, retry |-> {}]

top == Head(stack)
Set(f) == stack' = <<f>> \o Tail(stack)

RestartSameDepth(n) == Set([Frame(n, top.depth, {}) EXCEPT
                              !.cnamed = TRUE,
                              !.outer = IF top.cnamed THEN top.outer ELSE top.beenthere])

\* doResolve with another name: the caller's set of answers seen so far is left alone.
Restart(n) == Set([Frame(n, top.depth + 1, {}) EXCEPT
                     !.cnamed = TRUE,
                     !.outer = IF top.cnamed THEN top.outer ELSE top.beenthere])

\* The frame returns rcode and addresses.  A caller in getAs goes on with the addresses.
Returns(rcode, ips) ==
    IF Len(stack) = 1
      THEN /\ stack' = <<>>
           /\ result' = [rcode |-> rcode, ips |-> ips]
      ELSE /\ LET caller == stack[2]
                  found == IF rcode = "NoError" THEN ips ELSE {}
                  been == IF top.cnamed THEN top.outer ELSE top.beenthere
              IN  stack' = <<[caller EXCEPT !.ips = found, !.beenthere = been,
                                            !.phase = IF found = {} THEN "nextns" ELSE "ask"]>>
                           \o SubSeq(stack, 3, Len(stack))
           /\ UNCHANGED result

BeginResolve(n) ==
    /\ stack = <<>> /\ asked < MaxQuestions
    /\ asked' = asked + 1
    /\ question' = n /\ result' = [rcode |-> "none", ips |-> {}]
    /\ stack' = <<Frame(n, 0, {})>>
    /\ UNCHANGED <<world, cache, late, negcache, throttle, faults, expired>>

-----------------------------------------------------------------------------
(***************************************************************************)
(* doResolve: the caches first, then the best name servers.                *)
(***************************************************************************)
InPhase(ph) == stack # <<>> /\ top.phase = ph
Quiet == UNCHANGED <<env, cache, late, negcache, throttle, faults>>

TooDeepLate == top.depth > MaxDepth + 2

TooDeep == top.depth > MaxDepth

Negative(n) == {ne \in negcache : ne.name = n /\ ne.type \in {"0", "A"}}

CacheCheck ==
    /\ InPhase("resolve")
    /\ IF TooDeep THEN Returns("ServFail", {})
       ELSE IF Cached(top.name, "CNAME") # {}
         THEN /\ \E n \in Cached(top.name, "CNAME") : Restart(n)
              /\ UNCHANGED result
       ELSE IF Negative(top.name) # {}
         THEN \E ne \in Negative(top.name) :
                 IF Cached(ne.soa, "SOA") # {}
                   THEN Returns(IF ne.type = "0" THEN "NXDomain" ELSE "NoError", {})
                   ELSE Set([top EXCEPT !.phase = "findns"]) /\ UNCHANGED result
       ELSE IF Cached(top.name, "A") # {} THEN Returns("NoError", Cached(top.name, "A"))
       ELSE Set([top EXCEPT !.phase = "findns"]) /\ UNCHANGED result
    /\ Quiet

UsefulAll(s) == Cached(s, "NS")

\* The NS records of zone s that help: those whose servers are not below s, where the
\* answer we need would be needed first, or whose address we have for a while yet.
Useful(s) ==
    {ns \in Cached(s, "NS") :
        EndsOn(ns, s) => Cached(ns, "A") # {} /\ CacheKey(ns, "A") \notin late}
BestNS(s) == [name |-> top.name, zone |-> s, ns |-> Useful(s)]
Fresh(s) == Useful(s) # {} /\ BestNS(s) \notin top.beenthere
Candidates == {s \in Suffixes(top.name) : Fresh(s)}

\* getBestNSFromCache: the nearest enclosing zone with such records, unless this very
\* choice was made before on the way here.
FindNS ==
    /\ InPhase("findns") /\ Candidates # {}
    /\ LET s == CHOOSE s \in Candidates : \A t \in Candidates : Len(t) <= Len(s)
       IN  Set([top EXCEPT !.phase = "nextns", !.auth = s, !.nss = Useful(s),
                           !.beenthere = @ \cup {BestNS(s)}])
    /\ UNCHANGED result /\ Quiet

\* Nothing found: the root is primed again if it has expired, and otherwise there is no
\* server to ask.
LostRoot ==
    /\ InPhase("findns") /\ Candidates = {}
    /\ IF Cached(<<>>, "NS") = {}
         THEN cache' = Primed /\ late' = late \ Keys(HintRecs) /\ UNCHANGED <<stack, result>>
         ELSE Returns("ServFail", {}) /\ UNCHANGED <<cache, late>>
    /\ UNCHANGED <<env, negcache, throttle, faults>>

-----------------------------------------------------------------------------
(***************************************************************************)
(* doResolveAt: one name server after the other, one address after the     *)
(* other.                                                                  *)
(***************************************************************************)
NextNS ==
    /\ InPhase("nextns")
    /\ \/ /\ top.nss = {}
          /\ Returns("ServFail", {})
       \/ \E ns \in top.nss :
             LET rest == [top EXCEPT !.nss = @ \ {ns}, !.ips = {}, !.doTCP = FALSE, !.retry = {}]
             IN  IF ns = top.name   \* not using NS to resolve itself
                   THEN Set(rest) /\ UNCHANGED result
                   ELSE /\ stack' = <<Frame(ns, top.depth + 2, top.beenthere), rest>> \o Tail(stack)
                        /\ UNCHANGED result
    /\ Quiet

AllTried ==
    /\ InPhase("ask") /\ top.ips = {}
    /\ Set([top EXCEPT !.phase = "nextns"])
    /\ UNCHANGED result /\ Quiet

Line(ip) == [ip |-> ip, name |-> top.name]
Without(ip) == [top EXCEPT !.ips = @ \ {ip}, !.retry = {}]
Pending == IF top.retry = {} THEN top.ips ELSE top.retry

\* shouldThrottle also counts, and takes an entry out when it was met often enough.
Throttled(ip) ==
    /\ InPhase("ask") /\ top.retry = {} /\ ip \in top.ips
    /\ Line(ip) \in throttle
    /\ Set(Without(ip))
    /\ throttle' \in {throttle, throttle \ {Line(ip)}}
    /\ UNCHANGED <<env, cache, late, negcache, result, faults>>

\* An address the operator wants left alone.
Spare(ip) ==
    /\ InPhase("ask") /\ top.retry = {} /\ ip \in top.ips
    /\ Line(ip) \notin throttle /\ ip \in DontQuery
    /\ Set(Without(ip))
    /\ UNCHANGED result /\ Quiet

MayAsk(ip) ==
    /\ InPhase("ask") /\ ip \in Pending
    /\ top.retry # {} \/ (Line(ip) \notin throttle /\ ip \notin DontQuery)

\* asyncresolveWrapper gives a timeout or an error, after which the next address is tried,
\* or the server says SERVFAIL, after which the next name server is.  A shortage of our
\* own (sockets) is not held against the server.
Fault(ip) ==
    /\ MayAsk(ip) /\ faults < MaxFaults
    /\ faults' = faults + 1
    /\ \/ Set(Without(ip)) /\ throttle' \in {throttle, throttle \cup {Line(ip)}}
       \/ Set([top EXCEPT !.phase = "nextns"]) /\ throttle' = throttle \cup {Line(ip)}
    /\ UNCHANGED <<env, cache, late, negcache, result>>

\* A truncated answer: once more over TCP, and an answer truncated even there ends it all.
Truncated(ip) ==
    /\ MayAsk(ip) /\ (top.doTCP \/ faults < MaxFaults)
    /\ faults' = IF top.doTCP THEN faults ELSE faults + 1
    /\ IF top.doTCP THEN Returns("ServFail", {})
                    ELSE Set([top EXCEPT !.doTCP = TRUE, !.retry = {ip}]) /\ UNCHANGED result
    /\ UNCHANGED <<env, cache, late, negcache, throttle>>

AcceptableAll(recs) == recs

\* What a server for zone `auth` may speak of.
Acceptable(recs) == {x \in recs : EndsOn(x.name, top.auth)}

Above(recs, t) == {x \in recs : x.place = "authority" /\ x.type = t /\ EndsOn(top.name, x.name)}
InAnswer(recs, t) == {x \in recs : x.place = "answer" /\ x.type = t /\ x.name = top.name}

NegEntries(a) ==
    {[name |-> top.name, type |-> IF a.rcode = "NXDomain" THEN "0" ELSE "A", soa |-> x.name] :
        x \in IF a.rcode = "NXDomain" \/ InAnswer(a.recs, "A") \cup InAnswer(a.recs, "CNAME") = {}
                THEN Above(a.recs, "SOA") ELSE {}}

NegInserted(a) == {ne \in negcache : \A e \in NegEntries(a) : <<ne.name, ne.type>> # <<e.name, e.type>>}
                  \cup NegEntries(a)

\* An answer to the question top.name: its records go to the cache, and then it is an
\* answer, a denial, a CNAME, a referral, or a sign that the server is lame.
Process(ip, a) ==
    LET answers == {x.to : x \in InAnswer(a.recs, "A")}
        targets == {x.to : x \in InAnswer(a.recs, "CNAME")}
        ns == Above(a.recs, "NS")
        deeper == {x \in ns : Len(x.name) > Len(top.auth)}
    IN  /\ cache' = Supplanted(Acceptable(a.recs), a.aa)
        /\ late' = late \ Renewed(Acceptable(a.recs), a.aa)
        /\ negcache' = NegInserted(a)
        /\ \/ /\ answers # {}
              /\ Returns("NoError", answers) /\ UNCHANGED throttle
           \/ /\ answers = {} /\ a.rcode = "NXDomain"
              /\ Returns("NXDomain", {}) /\ UNCHANGED throttle
           \/ /\ answers = {} /\ a.rcode = "NoError"
              /\ \E n \in targets : IF n = top.name \/ TooDeep
                                      THEN Returns("ServFail", {})
                                      ELSE Restart(n) /\ UNCHANGED result
              /\ UNCHANGED throttle
           \/ /\ answers = {} /\ targets = {} /\ a.rcode = "NoError" /\ ns = {}
              /\ Returns("NoError", {}) /\ UNCHANGED throttle
           \/ /\ answers = {} /\ targets = {} /\ a.rcode = "NoError"
              /\ \E x \in deeper :
                    Set([top EXCEPT !.phase = "nextns", !.auth = x.name, !.nss = {y.to : y \in ns}])
              /\ UNCHANGED <<throttle, result>>
           \/ /\ answers = {} /\ targets = {} /\ a.rcode = "NoError" /\ ns # {} /\ deeper = {}
              /\ Set(Without(ip))
              /\ throttle' = throttle \cup {Line(ip)}
              /\ UNCHANGED result

-----------------------------------------------------------------------------
(***************************************************************************)
(* The servers.  A world has its zones, with the names of their servers;   *)
(* the records of type A and CNAME; the zones that each address serves;    *)
(* and the addresses whose servers are careless: they add to their answers *)
(* records that they have no say in.                                       *)
(***************************************************************************)
Zones == DOMAIN world.ns
ZoneOf(n) == CHOOSE z \in Zones \cap Suffixes(n) : \A y \in Zones \cap Suffixes(n) : Len(y) <= Len(z)
Rec(place, n, t, to) == [place |-> place, name |-> n, type |-> t, to |-> to]
Glue(z) == {Rec("additional", x[1], "A", x[2]) : x \in {y \in world.a : y[1] \in world.ns[z] /\ EndsOn(y[1], z)}}
Exists(n) == \E m \in {x[1] : x \in world.a \cup world.cname} \cup Zones : EndsOn(m, n)

\* What a server for zone z says of n.
Says(z, n) ==
    LET cuts == {y \in Zones : EndsOn(n, y) /\ Len(y) > Len(z)}
        cut == CHOOSE y \in cuts : \A x \in cuts : Len(x) >= Len(y)
        data == {Rec("answer", n, "A", x[2]) : x \in {y \in world.a : y[1] = n}}
                \cup {Rec("answer", n, "CNAME", x[2]) : x \in {y \in world.cname : y[1] = n}}
        soa == {Rec("authority", z, "SOA", <<>>)}
    IN  IF cuts # {}
          THEN [rcode |-> "NoError", aa |-> FALSE,
                recs |-> {Rec("authority", cut, "NS", x) : x \in world.ns[cut]} \cup Glue(cut)]
        ELSE IF data # {} THEN [rcode |-> "NoError", aa |-> TRUE, recs |-> data]
        ELSE [rcode |-> IF Exists(n) THEN "NoError" ELSE "NXDomain", aa |-> TRUE, recs |-> soa]

\* A server asked about what it does not serve points at the root.
Upward == [rcode |-> "NoError", aa |-> FALSE, recs |-> {Rec("authority", <<>>, "NS", Hints.name)}]

Honest(ip, n) ==
    LET mine == {z \in Zones : <<ip, z>> \in world.serves /\ EndsOn(n, z)}
    IN  IF mine = {} THEN Upward
        ELSE Says(CHOOSE z \in mine : \A y \in mine : Len(y) <= Len(z), n)

Tells(ip, n) ==
    {Honest(ip, n)} \cup
    (IF ip \in world.careless
       THEN {[rcode |-> "NoError", aa |-> TRUE, recs |-> lie \cup extra] :
               lie \in {{x} : x \in world.lies}, extra \in {{}, Honest(ip, n).recs}}
       ELSE {})

Answer(ip) ==
    /\ MayAsk(ip)
    /\ \E a \in Tells(ip, top.name) : Process(ip, a)
    /\ UNCHANGED <<env, faults>>

\* Time passes: between questions, and while a server is being asked (d_now is set by
\* asyncresolve only).  What expires under way counts as a fault.  An address goes
\* through five last seconds; a line of the throttle that has expired is cleaned out
\* by shouldThrottle every 300 seconds, and met once more before that.
Expire ==
    /\ \/ stack = <<>> /\ expired < MaxExpire /\ expired' = expired + 1 /\ UNCHANGED faults
       \/ InPhase("ask") /\ faults < MaxFaults /\ faults' = faults + 1 /\ UNCHANGED expired
    /\ \/ /\ \E k \in DOMAIN cache : /\ cache' = [x \in DOMAIN cache \ {k} |-> cache[x]]
                                    /\ late' = late \ {k}
          /\ UNCHANGED <<negcache, throttle>>
       \/ /\ \E k \in DOMAIN cache \ late : k.type = "A" /\ late' = late \cup {k}
          /\ UNCHANGED <<cache, negcache, throttle>>
       \/ /\ \E ne \in negcache : negcache' = negcache \ {ne}
          /\ UNCHANGED <<cache, late, throttle>>
       \/ /\ \E line \in throttle : throttle' = throttle \ {line}
          /\ UNCHANGED <<cache, late, negcache>>
    /\ UNCHANGED <<world, stack, question, result, asked>>

ResolveInit ==
    /\ world \in Worlds
    /\ cache = [k \in Keys(HintRecs) |->
                  [recs |-> {x.to : x \in {y \in HintRecs : CacheKey(y.name, y.type) = k}}, auth |-> TRUE]]
    /\ late = {} /\ negcache = {} /\ throttle = {}
    /\ stack = <<>> /\ question = <<>> /\ result = [rcode |-> "none", ips |-> {}]
    /\ faults = 0 /\ expired = 0 /\ asked = 0

Addresses == {x[2] : x \in world.a} \cup {x.to : x \in {y \in world.lies : y.type = "A"}} \cup {Hints.ip}

Resolve == \/ CacheCheck \/ FindNS \/ LostRoot \/ NextNS \/ AllTried
           \/ \E ip \in Addresses : Throttled(ip)
           \/ \E ip \in Addresses : Spare(ip)
           \/ \E ip \in Addresses : Fault(ip)
           \/ \E ip \in Addresses : Truncated(ip)
           \/ \E ip \in Addresses : Answer(ip)

ResolveNext == Resolve \/ Expire \/ \E n \in AskedNames : BeginResolve(n)

ResolveSpec == ResolveInit /\ [][ResolveNext]_resolveVars
FairResolveSpec == ResolveSpec /\ WF_resolveVars(Resolve)

-----------------------------------------------------------------------------
(***************************************************************************)
(* What is right.                                                          *)
(***************************************************************************)
Aliases(n) == {x[2] : x \in {y \in world.cname : y[1] = n}}

\* The names that can be reached from n by CNAME records, n included: those in every set
\* that holds n and the aliases of its members.
Reach(n) ==
    LET names == {n} \cup {x[2] : x \in world.cname}
    IN  {m \in names : \A S \in SUBSET names :
            n \in S /\ (\A k \in S : Aliases(k) \subseteq S) => m \in S}

Right(n) == {[rcode |-> IF Exists(m) THEN "NoError" ELSE "NXDomain",
              ips |-> {x[2] : x \in {y \in world.a : y[1] = m}}] :
                m \in {k \in Reach(n) : Aliases(k) = {}}}

\* The zones that have a say in n: those above it, those above the names of their
\* servers, those above the names it is an alias of, and so on.
Direct(n) == {z \in Zones : EndsOn(n, z)}
Say(n) ==
    {z \in Zones : \A S \in SUBSET Zones :
        /\ \A m \in Reach(n) : Direct(m) \subseteq S
        /\ \A y \in S : \A ns \in world.ns[y] : Direct(ns) \subseteq S
        => z \in S}

ServedBy(z) == {x[2] : x \in {y \in world.a : y[1] \in world.ns[z]}}
Trusted(n) == \A z \in Say(n) : ServedBy(z) \cap world.careless = {}

\* The zones that can be found from the root: their parent can, and some server of theirs
\* has glue or a name in a zone that can be found.  A name that is the only server of its
\* own zone cannot, even if its address came as glue: "Not using NS to resolve itself!"
Serves(ns, z) ==
    \E x \in world.a : x[1] = ns /\ <<x[2], z>> \in world.serves /\ x[2] \notin DontQuery
NotAlone(n) == \E ns \in world.ns[ZoneOf(n)] \ {n} : Serves(ns, ZoneOf(n))
Found ==
    LET Step(zs) == {z \in Zones \ {<<>>} :
                        /\ ZoneOf(Tail(z)) \in zs
                        /\ \E ns \in world.ns[z] :
                              /\ Serves(ns, z)
                              /\ \/ EndsOn(ns, z)
                                 \/ ZoneOf(ns) \in zs /\ NotAlone(ns)}
        f[i \in 0..Cardinality(Zones)] == IF i = 0 THEN {<<>>} ELSE f[i - 1] \cup Step(f[i - 1])
    IN  f[Cardinality(Zones)]

NoneLame == \A z \in Zones : \A ns \in world.ns[z] : Serves(ns, z)
Findable(n) == Right(n) # {} /\ \A m \in Reach(n) : ZoneOf(m) \in Found /\ NotAlone(m)

-----------------------------------------------------------------------------
(***************************************************************************)
(* Properties.                                                             *)
(***************************************************************************)
\* Type invariant.  The depth of a call is at most two more than the limit that
\* doCNAMECacheCheck puts on the calls that do anything (syncres.cc:588).
ResolveTypeOK ==
    /\ world \in Worlds
    /\ \A k \in DOMAIN cache : k.type \in Recs /\ cache[k].recs # {} /\ cache[k].auth \in BOOLEAN
    /\ late \subseteq DOMAIN cache
    /\ \A ne \in negcache : ne.type \in {"0", "A"} /\ ne.soa \in Suffixes(ne.name)
    /\ \A i \in 1..Len(stack) :
          /\ stack[i].depth \in 0..(MaxDepth + 2)
          /\ stack[i].phase \in {"resolve", "findns", "nextns", "ask"}
          /\ stack[i].retry \subseteq stack[i].ips
    /\ result.rcode \in {"none", "NoError", "NXDomain", "ServFail"}
    /\ faults \in 0..MaxFaults /\ expired \in 0..MaxExpire /\ asked \in 0..MaxQuestions

\* An answer is the one that the zones with a say in the name hold, however the caches
\* were filled, and whatever servers of other zones put in their answers: only records
\* below the zone asked are accepted (syncres.cc:967).
NeverWrong ==
    result.rcode \in {"NoError", "NXDomain"} /\ Trusted(question) => result \in Right(question)

\* When no query fails and nothing expires under way, a name that has an answer and whose
\* servers can be found gets it: lame servers are passed over, and lost glue is fetched again from above
\* (getBestNSFromCache, syncres.cc:501).  Lost glue next to a lame server is not: the set
\* of name servers is then only made to expire sooner (syncres.cc:798).  Excepted is the
\* state in which the root's servers are known by name but not, or not for more than five
\* seconds, by address: the hints are loaded only when the names have expired too
\* (syncres.cc:419), and until then every question fails.
FoundWhenHealthy ==
    faults = 0 /\ Trusted(question) /\ Findable(question) /\ (expired = 0 \/ NoneLame)
      => result.rcode # "ServFail" \/ Useful(<<>>) = {}

\* Every question is answered in the end, for all loops of CNAMEs and of name servers that
\* need each other (beenthere and depth, syncres.cc:522 and 588).
EveryQuestionEnds == stack # <<>> ~> stack = <<>>

=============================================================================

---------------------------- MODULE PacketHandler ----------------------------
(***************************************************************************)
(* How the authoritative server answers one question                       *)
(* (packethandler.cc, PacketHandler::questionOrRecurse): find the zone,    *)
(* look the name up, follow CNAMEs, try wildcards, refer or deny, add the  *)
(* addresses of name servers, and put the reply in the packet cache.  The  *)
(* lookups are steps, because each may throw.                              *)
(*                                                                         *)
(* A name is the sequence of its labels, the leftmost first: chopOff is    *)
(* Tail, and "*." + n is <<"*">> \o n.  A record has a type and, for CNAME *)
(* and NS, the name it points to.  `data` is what the backends hold: for   *)
(* every zone, by the name of its apex, the records at each name.  DNSSEC, *)
(* URL and MBOXFW records, CHAOS version questions and the class ANY are   *)
(* left out.                                                               *)
(***************************************************************************)
EXTENDS Naturals, Sequences, FiniteSets

CONSTANTS Databases,    \* what the backends may hold: zone -> name -> records
          Questions,    \* records [opcode, name, type]
          AuthSources,  \* where DNSResourceRecord::auth may come from
          Settings,     \* how the server may be configured
          RootServers,  \* the names addRootReferral knows: a to m
          MaxRetargets  \* the limit on CNAMEs followed; 10 in the code

ASSUME RetargetAssumption == MaxRetargets \in Nat

\* A domain name, its labels from the left; chopOff takes off the first.
Name == Seq(STRING)

\* Names are sequences of labels; getAuth finds a zone by the SOA record at its apex.
ASSUME DataAssumption ==
    \A d \in Databases : \A z \in DOMAIN d :
        /\ z \in Name
        /\ \A n \in DOMAIN d[z] : d[z][n] \subseteq [type : STRING, to : Name]
        /\ z \in DOMAIN d[z] /\ \E rr \in d[z][z] : rr.type = "SOA"

\* A name with a CNAME has no other record (RFC 1034, 3.6.2).  The handler relies on it: it
\* follows the first CNAME it meets and leaves the rest of the set.
ASSUME CNAMEAssumption ==
    \A d \in Databases : \A z \in DOMAIN d : \A n \in DOMAIN d[z] :
        \A rr, other \in d[z][n] : rr.type = "CNAME" => other = rr

ASSUME QuestionAssumption == \A q \in Questions : q.name \in Name
ASSUME SourceAssumption == AuthSources \subseteq {"column", "loaded", "unset"}
\* The settings send-root-referral and out-of-zone-additional-processing.
ASSUME SettingsAssumption ==
    Settings \subseteq [rootReferral : {"no", "yes", "lean"}, outOfZone : BOOLEAN]
ASSUME RootAssumption == RootServers \subseteq Name /\ RootServers # {}

VARIABLES data,       \* the backends' contents
          source,     \* where the auth flags come from, a member of AuthSources
          conf,       \* the settings, a member of Settings
          p,          \* the question
          pc,         \* the step the handler is at
          target,     \* the name looked for, after the CNAMEs so far
          retargetcount,
          sd,         \* the apex of the zone that serves target
          r,          \* the reply, or NoReply
          cached,     \* what PC.insert was given, or NoReply
          failed      \* history: a lookup or the building of the reply threw

vars == <<data, source, conf, p, pc, target, retargetcount, sd, r, cached, failed>>

NoReply == [rcode |-> "none"]
Ancestors(n) == {SubSeq(n, i, Len(n)) : i \in 1..(Len(n) + 1)}
At(z, n) == IF z \in DOMAIN data /\ n \in DOMAIN data[z] THEN data[z][n] ELSE {}
OfType(rrs, t) == {rr \in rrs : rr.type = t}
Longest(S) == CHOOSE s \in S : \A t \in S : Len(t) <= Len(s)

(***************************************************************************)
(* The auth flag of a record.  "column": the backend stores it, set as it  *)
(* should be, which is that only data at or below an NS record under the   *)
(* apex is not authoritative.  "loaded": loadConfig of the BIND backend    *)
(* computes it, but compares names whose labels are in normal order with   *)
(* stored ones in reverse order, so only NS records one label below the    *)
(* apex are seen.  "unset": nobody assigns it (queueReload of the BIND     *)
(* backend, and the SQL backends without their DNSSEC queries), and any    *)
(* value may be read.                                                      *)
(***************************************************************************)
Cuts(z, n) == {s \in Ancestors(n) : Len(s) > Len(z) /\ OfType(At(z, s), "NS") # {}}

LoadedUnauth(z, n) == \E s \in Cuts(z, n) : Len(s) = Len(z) + 1

MaybeUnauth(z, n, rrs) ==
    LET NotDS == {rr \in rrs : rr.type # "DS"}
    IN  CASE source = "column" -> {IF Cuts(z, n) # {} THEN NotDS ELSE {}}
          [] source = "loaded" -> {IF LoadedUnauth(z, n) THEN NotDS ELSE {}}
          [] source = "unset"  -> SUBSET rrs

-----------------------------------------------------------------------------
(***************************************************************************)
(* The reply.  addRecord drops a record that is there already, in whatever *)
(* section.                                                                *)
(***************************************************************************)
Sections == {"answer", "authority", "additional"}
Record(z, n, rr) == [name |-> n, type |-> rr.type, to |-> rr.to, zone |-> z]
Same(a, b) == a.name = b.name /\ a.type = b.type /\ a.to = b.to

replyPacket == [rcode |-> "NoError", aa |-> TRUE, answer |-> {}, authority |-> {},
                additional |-> {}]

addRecordsAgain(reply, section, recs) == [reply EXCEPT ![section] = @ \cup recs]

addRecords(reply, section, recs) ==
    [reply EXCEPT ![section] = @ \cup
        {a \in recs : ~ \E s \in Sections : \E b \in reply[s] : Same(a, b)}]

SOA(z) == {Record(z, z, rr) : rr \in OfType(At(z, z), "SOA")}

-----------------------------------------------------------------------------
(***************************************************************************)
(* Searches.                                                               *)
(***************************************************************************)
getAuth(n) == {z \in DOMAIN data \cap Ancestors(n) :
                  \A y \in DOMAIN data \cap Ancestors(n) : Len(y) <= Len(z)}

BelowApexParent(z, n) == {s \in Ancestors(n) \ {n} : Len(s) > Len(z)}

\* The names getBestReferralNS looks at: from the target to below the apex.
BelowApex(z, n) == {s \in Ancestors(n) : Len(s) > Len(z)}

\* The possible results of getBestReferralNS: of the lowest name with NS records that are
\* not authoritative, those records; {} if there are none.
getBestReferralNS(z, n) ==
    LET Unauth(s) == MaybeUnauth(z, s, OfType(At(z, s), "NS"))
        Found(s) == {ns \in Unauth(s) : ns # {}}
        Stop(s) == \A t \in BelowApex(z, n) : Len(t) > Len(s) => {} \in Unauth(t)
    IN  UNION {{ {Record(z, s, rr) : rr \in ns} : ns \in Found(s)} :
                  s \in {s \in BelowApex(z, n) : Stop(s)}}
        \cup (IF \A s \in BelowApex(z, n) : {} \in Unauth(s) THEN {{}} ELSE {})

getBestWildcardFirst(z, n, type) ==
    IF Len(n) > Len(z) THEN {rr \in At(z, <<"*">> \o Tail(n)) : rr.type \in {type, "CNAME"}}
                       ELSE {}

\* The records of the lowest wildcard above n, up to the apex, that has the type asked for
\* or a CNAME; {} if there is none.  Wildcards with other types are passed over.
getBestWildcard(z, n, type) ==
    LET Match(s) == {rr \in At(z, <<"*">> \o s) : rr.type \in {type, "CNAME"}}
        Hits == {s \in Ancestors(n) \ {n} : Len(s) >= Len(z) /\ Match(s) # {}}
    IN  IF Hits = {} THEN {} ELSE Match(Longest(Hits))

-----------------------------------------------------------------------------
Init == /\ data \in Databases
        /\ source \in AuthSources
        /\ conf \in Settings
        /\ p \in Questions
        /\ pc = "asked"
        /\ target = <<>>
        /\ retargetcount = 0
        /\ sd = <<>>
        /\ r = NoReply
        /\ cached = NoReply
        /\ failed = FALSE

world == <<data, source, conf, p>>

\* Returning r without passing by sendit: neither additional processing nor cache.
Return(reply) == /\ pc' = "done"
                 /\ r' = reply
                 /\ UNCHANGED <<world, target, retargetcount, sd, cached>>

\* Answers to questions are dropped; opcodes other than QUERY and NOTIFY are not done, and
\* neither is IXFR; a name with odd characters fails.  What processNotify (see
\* SlaveTransfer) says is the reply to a NOTIFY, and nothing is sent when it queued a
\* transfer.
TurnAway ==
    /\ pc = "asked" /\ UNCHANGED failed
    /\ \/ p.opcode = "answer" /\ Return(NoReply)
       \/ p.opcode = "badname" /\ Return([replyPacket EXCEPT !.rcode = "ServFail"])
       \/ p.opcode \in {"update", "other"} /\ Return([replyPacket EXCEPT !.rcode = "NotImp"])
       \/ /\ p.opcode = "notify"
          /\ \/ Return(NoReply)
             \/ \E rcode \in {"NoError", "NotImp", "Refused", "ServFail"} :
                    Return([replyPacket EXCEPT !.rcode = rcode])
       \/ /\ p.opcode = "query" /\ p.type = "IXFR"
          /\ Return([replyPacket EXCEPT !.rcode = "NotImp"])

Start ==
    /\ pc = "asked" /\ p.opcode = "query" /\ p.type # "IXFR"
    /\ pc' = "retargeted" /\ target' = p.name /\ r' = replyPacket
    /\ UNCHANGED <<world, retargetcount, sd, cached, failed>>

TooManyRetargets ==
    /\ pc = "retargeted" /\ retargetcount > MaxRetargets /\ UNCHANGED failed
    /\ Return([r EXCEPT !.rcode = "ServFail"])

Goto(step, reply) == /\ pc' = step /\ r' = reply
                     /\ UNCHANGED <<world, target, retargetcount, sd, cached, failed>>

RetargetUncounted(n, reply) == /\ pc' = "retargeted" /\ r' = reply
                               /\ target' = n
                               /\ UNCHANGED <<world, retargetcount, sd, cached, failed>>

RetargetCleared(n, reply) == /\ pc' = "retargeted" /\ r' = replyPacket
                             /\ target' = n
                             /\ retargetcount' = retargetcount + 1
                             /\ UNCHANGED <<world, sd, cached, failed>>

\* Back to the label retargeted with another target.
Retarget(n, reply) == /\ pc' = "retargeted" /\ r' = reply
                      /\ target' = n
                      /\ retargetcount' = retargetcount + 1
                      /\ UNCHANGED <<world, sd, cached, failed>>

\* The name servers of the root and, unless lean, their addresses.  Their domain_id is never
\* assigned: z may be the ID of any zone, or of none.
RootNS(z) == {[name |-> <<>>, type |-> "NS", to |-> n, zone |-> z] : n \in RootServers}
RootGlue(z) == {[name |-> n, type |-> "A", to |-> <<>>, zone |-> z] : n \in RootServers}
addRootReferral(reply, z) ==
    LET referral == addRecords(reply, "authority", RootNS(z))
    IN  IF conf.rootReferral = "lean" THEN referral
        ELSE addRecords(referral, "additional", RootGlue(z))

\* No zone of ours: a referral to the root, or 'sorry'.
NoAuth ==
    /\ pc = "retargeted" /\ retargetcount <= MaxRetargets
    /\ getAuth(target) = {}
    /\ \/ /\ conf.rootReferral # "no"
          /\ \E z \in DOMAIN data \cup {<<>>} :
                Goto("sendit", addRootReferral([r EXCEPT !.aa = FALSE], z))
       \/ /\ conf.rootReferral = "no"
          /\ Goto("sendit", [r EXCEPT !.aa = FALSE, !.rcode = "ServFail"])

FindAuth ==
    /\ pc = "retargeted" /\ retargetcount <= MaxRetargets
    /\ \E z \in getAuth(target) :
          /\ sd' = z
          /\ IF p.type = "SOA" /\ z = p.name
                THEN pc' = "sendit" /\ r' = addRecords(r, "answer", SOA(z))
                ELSE pc' = "lookup" /\ r' = r
    /\ UNCHANGED <<world, target, retargetcount, cached, failed>>

\* The records asked for that may be given as an answer.
Wanted(rrs, unauth) == {rr \in rrs \ unauth : p.type \in {"ANY", rr.type}}
HaveUnauth(unauth) == \E rr \in unauth : rr.type \in {p.type, "NS"}

LookupANY ==
    /\ pc = "lookup"
    /\ LET rrset == At(sd, target)
           cnames == IF p.type = "CNAME" THEN {} ELSE OfType(rrset, "CNAME")
       IN  \/ rrset = {} /\ Goto("wildcard", r)
           \/ \E rr \in cnames :
                 Retarget(rr.to, addRecords(r, "answer", {Record(sd, target, rr)}))
           \/ /\ rrset # {} /\ cnames = {}
              /\ \E unauth \in MaybeUnauth(sd, target, rrset) :
                    LET wanted == Wanted(rrset, unauth)
                    IN  IF wanted # {}
                          THEN Goto("sendit", addRecords(r, "answer",
                                                {Record(sd, target, rr) : rr \in wanted}))
                        ELSE IF HaveUnauth(unauth) THEN Goto("refer", r)
                        ELSE Goto("sendit", addRecords(r, "authority", SOA(sd)))

\* tryWildcard names what it found after the question, not after the target.
TryWildcard ==
    /\ pc = "wildcard"
    /\ LET found == getBestWildcard(sd, target, p.type)
           reply == addRecords(r, "answer", {Record(sd, p.name, rr) : rr \in found})
       IN  \/ found = {} /\ Goto("refer", r)
           \/ \E rr \in OfType(found, "CNAME") : Retarget(rr.to, reply)
           \/ found # {} /\ OfType(found, "CNAME") = {} /\ Goto("sendit", reply)

addDSforNS(ns) == UNION {{Record(sd, a.name, rr) : rr \in OfType(At(sd, a.name), "DS")} : a \in ns}

makeNXDomain(reply) == [addRecords(reply, "authority", SOA(sd)) EXCEPT !.rcode = "NXDomain"]

\* Without name servers to refer to: NXDOMAIN if there was nothing at the target, and nothing
\* at all if there was ("Should not get here!!").
TryReferral ==
    /\ pc = "refer"
    /\ \E ns \in getBestReferralNS(sd, target) :
          \/ /\ ns # {}
             /\ Goto("sendit", addRecords(addRecords([r EXCEPT !.aa = FALSE], "authority", ns),
                                          "authority", addDSforNS(ns)))
          \/ /\ ns = {}
             /\ Goto("sendit", IF At(sd, target) = {} THEN makeNXDomain(r) ELSE r)

\* What a lookup of n without a zone ID gives from zone z: the BIND backend looks only in
\* the zone nearest to n.
Anywhere(z, n) == IF source = "loaded" /\ z \notin getAuth(n) THEN {} ELSE At(z, n)

\* The records at the name server n of zone z that may be added: of that zone or, unless
\* the server is set to leave those out, of any zone.
Addresses(z, n) ==
    UNION {OfType(Anywhere(y, n), "A") : y \in {y \in DOMAIN data : conf.outOfZone \/ y = z}}

\* doAdditionalProcessingAndDropAA: the addresses of the name servers in the reply, booked
\* under the zone these are of.  Name servers of anything but a zone of ours are no
\* authoritative answer.
Additional(reply) ==
    LET nss == {a \in reply.answer \cup reply.authority : a.type = "NS"}
        glue == UNION {{Record(a.zone, a.to, rr) : rr \in Addresses(a.zone, a.to)} : a \in nss}
    IN  [addRecords(reply, "additional", glue)
            EXCEPT !.aa = @ /\ \A a \in nss : a.name = <<>> \/ a.name \in DOMAIN data]

Send ==
    /\ pc = "sendit"
    /\ pc' = "done"
    /\ r' = Additional(r)
    /\ cached' = r'
    /\ UNCHANGED <<world, target, retargetcount, sd, failed>>

BackendFailsCached ==
    /\ pc \in {"retargeted", "lookup", "wildcard", "refer", "sendit"}
    /\ pc = "retargeted" => retargetcount <= MaxRetargets
    /\ pc' = "sendit" /\ r' = [r EXCEPT !.rcode = "ServFail"] /\ failed' = TRUE
    /\ UNCHANGED <<world, target, retargetcount, sd, cached>>

\* A lookup throws a DBException: what has been put together goes out as SERVFAIL.
BackendFails ==
    /\ pc \in {"retargeted", "lookup", "wildcard", "refer", "sendit"}
    /\ pc = "retargeted" => retargetcount <= MaxRetargets
    /\ failed' = TRUE
    /\ Return([r EXCEPT !.rcode = "ServFail"])

\* Another exception, as of content that cannot be encoded: a new, empty reply.
AnswerFails ==
    /\ pc \in {"lookup", "wildcard", "refer", "sendit"}
    /\ failed' = TRUE
    /\ Return([replyPacket EXCEPT !.rcode = "ServFail"])

Next == \/ TurnAway \/ Start \/ TooManyRetargets \/ NoAuth \/ FindAuth \/ LookupANY
        \/ TryWildcard \/ TryReferral \/ Send \/ BackendFails \/ AnswerFails

Spec == Init /\ [][Next]_vars
FairSpec == Spec /\ WF_vars(Next)

-----------------------------------------------------------------------------
(***************************************************************************)
(* Properties.                                                             *)
(***************************************************************************)
ReplyType(a) == \/ a = NoReply
                \/ /\ a.rcode \in {"NoError", "ServFail", "NXDomain", "NotImp", "Refused"}
                   /\ a.aa \in BOOLEAN
                   /\ \A s, t \in Sections : \A x \in a[s], y \in a[t] :
                         Same(x, y) => s = t /\ x = y

\* Types; and a reply never holds a record twice, in one section or in two.
TypeOK == /\ pc \in {"asked", "retargeted", "lookup", "wildcard", "refer", "sendit", "done"}
          /\ retargetcount \in 0..(MaxRetargets + 1)
          /\ sd \in DOMAIN data \cup {<<>>}
          /\ ReplyType(r) /\ ReplyType(cached)
          /\ failed \in BOOLEAN

(***************************************************************************)
(* The reference: the names a question leads to, by the CNAMEs that are in *)
(* the zones, whatever the handler's own bookkeeping.                      *)
(***************************************************************************)
ZoneOf(n) == CHOOSE z \in getAuth(n) : TRUE
Covering(n) == {s \in Ancestors(n) \ {n} : /\ ZoneOf(n) \in Ancestors(s)
                                          /\ \E rr \in At(ZoneOf(n), <<"*">> \o s) : rr.type \in {p.type, "CNAME"}}
Wild(n) == IF Covering(n) = {} THEN {} ELSE At(ZoneOf(n), <<"*">> \o Longest(Covering(n)))
LeadsTo(n) ==
    IF getAuth(n) = {} THEN {}
    ELSE {rr.to : rr \in OfType(IF At(ZoneOf(n), n) = {} THEN Wild(n)
                                ELSE IF p.type = "CNAME" THEN {}
                                ELSE At(ZoneOf(n), n), "CNAME")}
Path[i \in 0..(MaxRetargets + 1)] ==
    IF i = 0 THEN p.name
    ELSE LET n == Path[i - 1]
         IN  IF LeadsTo(n) = {} THEN n ELSE CHOOSE m \in LeadsTo(n) : TRUE
End == Path[MaxRetargets]
Ends == LeadsTo(End) = {}

\* Where on its way a query was answered: replies that went through sendit.
Answered == pc = "done" /\ cached # NoReply

\* A question whose CNAMEs never end, or only after more than the limit, is answered with
\* SERVFAIL and not cached; one whose CNAMEs end in time is answered for the name they end
\* at, or with SERVFAIL.  The reply is put in the cache only when no lookup has failed.
LoopsBrokenOff ==
    /\ Answered => Ends /\ target = End /\ ~failed
    /\ pc = "done" /\ p.opcode = "query" /\ p.type # "IXFR" /\ ~Answered => r.rcode = "ServFail"

\* NXDOMAIN is said only of a name, at the end of the CNAMEs, that is in one of our zones
\* and has no records there, that no wildcard with a matching type covers and, when the
\* auth flags are right, that has not been delegated.
NXDomainRight ==
    Answered /\ cached.rcode = "NXDomain" =>
        /\ getAuth(End) # {}
        /\ At(ZoneOf(End), End) = {} /\ Covering(End) = {}
        /\ source = "column" => Cuts(ZoneOf(End), End) = {}
        /\ cached.authority = SOA(ZoneOf(End))

\* As long as the auth flags are set, a NOERROR reply says something: it has an answer for
\* the name the CNAMEs end at, or the SOA record of its zone, or refers to other servers, to
\* those of the root only if the name is in no zone of ours; the handler never gets where it
\* "should not get".
NotLame ==
    Answered /\ source # "unset" /\ cached.rcode = "NoError" =>
        \/ \E a \in cached.answer : p.type \in {"ANY", a.type} /\ a.name \in {End, p.name}
        \/ /\ getAuth(End) # {} /\ SOA(ZoneOf(End)) # {}
           /\ SOA(ZoneOf(End)) \subseteq cached.authority
        \/ /\ ~cached.aa
           /\ \E a \in cached.authority : a.type = "NS" /\ (a.name = <<>> => getAuth(End) = {})

\* The answer section is one chain: apart from the question's own name, a name that owns a
\* record in it is what a CNAME in it points to, and unless a wildcard was used on the way a
\* name with a CNAME there owns nothing else.
ChainUnbroken ==
    r # NoReply =>
        /\ \A a \in r.answer : a.name = p.name \/ \E c \in r.answer : c.type = "CNAME" /\ c.to = a.name
        /\ (\A i \in 0..MaxRetargets : getAuth(Path[i]) # {} => At(ZoneOf(Path[i]), Path[i]) # {}) =>
              \A a, c \in r.answer : c.type = "CNAME" /\ a.name = c.name => a = c

\* Every question is dealt with, however the CNAMEs in the zones point at each other.
Terminates == <>(pc = "done")

\* What the regression tests say of delegations: a question for a name at or below one is
\* answered with its NS records in the authority section and without authority.
DelegationHonoured ==
    Answered /\ p.type = "A" /\ getAuth(End) # {} /\ Cuts(ZoneOf(End), End) # {} =>
        ~cached.aa /\ \E a \in cached.authority : a.type = "NS"

=============================================================================

-------------------------- MODULE AnsweringProofs --------------------------
(***************************************************************************)
(* Proofs about how the authoritative server answers.                      *)
(*                                                                         *)
(* PacketHandler, for any zones, questions and limit on the CNAMEs         *)
(* followed: a reply that reaches the cache is about the name the CNAMEs   *)
(* end at, denies a name only when nothing is there, always says           *)
(* something, and its answer section is one chain.                         *)
(*                                                                         *)
(* PacketCache, for any names, purges, times to live and limits: how far   *)
(* an answer may lag behind the backend, and what a purge erases.          *)
(***************************************************************************)
EXTENDS PacketHandler, PacketCache, SequenceTheorems, WellFoundedInduction, TLAPS

Types == STRING \cup {"NS", "A"}
Rec == [name : Name, type : Types, to : Name, zone : Name]
Rcodes == {"NoError", "ServFail", "NXDomain", "NotImp", "Refused"}
Reply == [rcode : Rcodes, aa : BOOLEAN, answer : SUBSET Rec, authority : SUBSET Rec,
          additional : SUBSET Rec]

Searching == pc \in {"lookup", "wildcard", "refer"}
Looking == pc = "retargeted" \/ Searching

\* Until the search is over there are only CNAMEs in the reply.
Plain(a) == /\ a.rcode = "NoError" /\ a.authority = {} /\ a.additional = {}
            /\ \A x \in a.answer : x.type = "CNAME"

\* All records but the CNAMEs come from one zone.
FromZone(a, z) == \A x \in a.answer \cup a.authority : x.type # "CNAME" => x.zone = z
OneZone(a) == \E z : FromZone(a, z)

\* Records of zone z, with the name n in the reply.
Recs(z, n, rrs) == {Record(z, n, rr) : rr \in rrs}

\* The records of recs that addRecord does not drop, and a reply without doubles.
New(a, recs) ==
    {x \in recs : \A y \in a.answer \cup a.authority \cup a.additional : ~Same(x, y)}
OneOfEach(recs) == \A x, y \in recs : Same(x, y) => x = y
Distinct(a) ==
    /\ OneOfEach(a.answer) /\ OneOfEach(a.authority) /\ OneOfEach(a.additional)
    /\ \A x \in a.answer, y \in a.authority : ~Same(x, y)
    /\ \A x \in a.answer, y \in a.additional : ~Same(x, y)
    /\ \A x \in a.authority, y \in a.additional : ~Same(x, y)

\* Some name from n up to the apex has NS records that are not authoritative.
Delegated(z, n) ==
    \E s \in BelowApex(z, n) : {} \notin MaybeUnauth(z, s, OfType(At(z, s), "NS"))

\* NXDomainRight and NotLame for the name looked for and the reply a.
Denies(a, n) ==
    a.rcode = "NXDomain" =>
        /\ getAuth(n) # {}
        /\ At(ZoneOf(n), n) = {} /\ Covering(n) = {}
        /\ source = "column" => Cuts(ZoneOf(n), n) = {}
        /\ a.authority = SOA(ZoneOf(n))
Says(a, n) ==
    source # "unset" /\ a.rcode = "NoError" =>
        \/ \E x \in a.answer : p.type \in {"ANY", x.type} /\ x.name \in {n, p.name}
        \/ /\ getAuth(n) # {} /\ SOA(ZoneOf(n)) # {}
           /\ SOA(ZoneOf(n)) \subseteq a.authority
        \/ /\ ~a.aa
           /\ \E x \in a.authority : x.type = "NS" /\ (x.name = <<>> => getAuth(n) = {})
Settled(a) ==
    /\ retargetcount <= MaxRetargets /\ target = Path[retargetcount] /\ LeadsTo(target) = {}
    /\ Denies(a, target) /\ Says(a, target)

\* Every name in the answer section is the question's or one a CNAME there points to.
Chain(a) ==
    \A x \in a.answer : x.name = p.name \/ \E c \in a.answer : c.type = "CNAME" /\ c.to = x.name
Linked == target = p.name \/ \E c \in r.answer : c.type = "CNAME" /\ c.to = target

\* No wildcard is used on the way, and then every record is in the zone it was found in.
NoWildcards ==
    \A i \in 0..MaxRetargets : getAuth(Path[i]) # {} => At(ZoneOf(Path[i]), Path[i]) # {}
Own(a) ==
    \A x \in a.answer : \E z \in getAuth(x.name) : \E rr \in At(z, x.name) : x = Record(z, x.name, rr)

FieldsOK ==
    /\ data \in Databases /\ source \in AuthSources /\ conf \in Settings /\ p \in Questions
    /\ target \in Name
    /\ r \in Reply \cup {NoReply} /\ cached \in Reply \cup {NoReply}

\* Where the handler is, and what it knows of the name it looks for.
SearchOK ==
    /\ pc = "asked" => r = NoReply /\ cached = NoReply /\ retargetcount = 0
    /\ Looking => r # NoReply /\ cached = NoReply /\ target = Path[retargetcount]
    /\ Searching => /\ sd \in getAuth(target) /\ retargetcount <= MaxRetargets
                    /\ p.type = "SOA" => sd # p.name
    /\ pc = "wildcard" => At(sd, target) = {}
    /\ pc = "refer" => /\ LeadsTo(target) = {}
                       /\ At(sd, target) = {} => Covering(target) = {}
                       /\ At(sd, target) # {} /\ source # "unset" => Delegated(sd, target)
    /\ retargetcount > 0 /\ p.type = "SOA" => p.name \notin DOMAIN data

\* What is in the reply.
ReplyOK ==
    /\ Looking => Plain(r) /\ Linked
    /\ pc = "sendit" => r # NoReply /\ cached = NoReply /\ OneZone(r) /\ Settled(r)
    /\ cached # NoReply => pc = "done" /\ Settled(cached)
    /\ r # NoReply => Chain(r) /\ (NoWildcards => Own(r))

\* A question that is looked up, and why it may end without reaching the cache.
Looked == p.opcode = "query" /\ p.type # "IXFR"
FailOK ==
    /\ pc # "done" \/ cached # NoReply => failed = FALSE
    /\ pc = "done" /\ Looked /\ cached = NoReply => r.rcode = "ServFail"

\* The name the CNAME at n leads to, if there is one.
NextName(n) == IF LeadsTo(n) = {} THEN n ELSE CHOOSE m \in LeadsTo(n) : TRUE

Inv == TypeOK /\ FieldsOK /\ SearchOK /\ ReplyOK /\ FailOK
-----------------------------------------------------------------------------
(* Names.                                                                    *)

\* A name is in its own suffixes; the suffixes of a suffix are suffixes.
LEMMA SuffixFacts ==
    ASSUME NEW n \in Name
    PROVE  /\ n \in Ancestors(n) /\ Len(n) \in Nat
           /\ \A s \in Ancestors(n) :
                 /\ s \in Name /\ Len(s) \in 0..Len(n)
                 /\ \A j \in 1..Len(s) : s[j] = n[Len(n) - Len(s) + j]
<1>1. n \in Seq(STRING) /\ Len(n) \in Nat
  BY DEF Name
<1>2. SubSeq(n, 1, Len(n)) = n
  BY <1>1
<1>3. n \in Ancestors(n)
  BY <1>1, <1>2 DEF Ancestors
<1>4. ASSUME NEW s \in Ancestors(n)
      PROVE  /\ s \in Name /\ Len(s) \in 0..Len(n)
             /\ \A j \in 1..Len(s) : s[j] = n[Len(n) - Len(s) + j]
  <2>1. PICK i \in 1..(Len(n) + 1) : s = SubSeq(n, i, Len(n))
    BY DEF Ancestors
  <2>2. /\ s \in Seq(STRING) /\ Len(s) = Len(n) + 1 - i
        /\ \A j \in 1..(Len(n) + 1 - i) : s[j] = n[i + j - 1]
    BY <1>1, <2>1
  <2>3. \A j \in 1..Len(s) : Len(n) - Len(s) + j = i + j - 1
    BY <1>1, <2>2
  <2> QED
    BY <1>1, <2>2, <2>3 DEF Name
<1> QED
  BY <1>1, <1>3, <1>4

\* Two suffixes of one length are the same, and the shorter of two is a suffix of the longer.
LEMMA SuffixesNested ==
    ASSUME NEW n \in Name, NEW s \in Ancestors(n), NEW t \in Ancestors(n), Len(t) <= Len(s)
    PROVE  t \in Ancestors(s) /\ (Len(t) = Len(s) => t = s)
<1>1. /\ Len(n) \in Nat /\ s \in Seq(STRING) /\ Len(s) \in 0..Len(n)
      /\ t \in Seq(STRING) /\ Len(t) \in 0..Len(n)
      /\ n \in Seq(STRING)
  BY SuffixFacts DEF Name
<1> DEFINE i == Len(s) - Len(t) + 1
           u == SubSeq(s, i, Len(s))
<1>2. i \in 1..(Len(s) + 1)
  BY <1>1
<1>3. u \in Seq(STRING) /\ Len(u) = Len(t) /\ \A j \in 1..Len(t) : u[j] = s[i + j - 1]
  BY <1>1, <1>2
<1>4. \A j \in 1..Len(s) : s[j] = n[Len(n) - Len(s) + j]
  BY SuffixFacts
<1>5. \A j \in 1..Len(t) : t[j] = n[Len(n) - Len(t) + j]
  BY SuffixFacts
<1>6. ASSUME NEW j \in 1..Len(t) PROVE u[j] = t[j]
  <2>1. i + j - 1 \in 1..Len(s) /\ Len(n) - Len(s) + (i + j - 1) = Len(n) - Len(t) + j
    BY <1>1
  <2> QED
    BY <1>3, <1>4, <1>5, <2>1
<1>7. u = t
  BY <1>1, <1>3, <1>6, SeqEqual
<1>8. t \in Ancestors(s)
  BY <1>2, <1>7 DEF Ancestors
<1>9. ASSUME Len(t) = Len(s) PROVE t = s
  <2>1. i = 1
    BY <1>1, <1>9
  <2> QED
    BY <1>1, <1>7, <2>1
<1> QED
  BY <1>8, <1>9

\* The suffixes of a suffix are suffixes.
LEMMA SuffixesTransitive ==
    ASSUME NEW n \in Name, NEW s \in Ancestors(n), NEW t \in Ancestors(s)
    PROVE  t \in Ancestors(n)
<1>1. /\ Len(n) \in Nat /\ s \in Seq(STRING) /\ s \in Name /\ Len(s) \in 0..Len(n)
      /\ n \in Seq(STRING)
  BY SuffixFacts DEF Name
<1>2. /\ t \in Seq(STRING) /\ Len(t) \in 0..Len(s)
  BY <1>1, SuffixFacts DEF Name
<1> DEFINE i == Len(n) - Len(t) + 1
           u == SubSeq(n, i, Len(n))
<1>3. i \in 1..(Len(n) + 1)
  BY <1>1, <1>2
<1>4. u \in Seq(STRING) /\ Len(u) = Len(t) /\ \A j \in 1..Len(t) : u[j] = n[i + j - 1]
  BY <1>1, <1>2, <1>3
<1>5. \A j \in 1..Len(s) : s[j] = n[Len(n) - Len(s) + j]
  BY SuffixFacts
<1>6. \A j \in 1..Len(t) : t[j] = s[Len(s) - Len(t) + j]
  BY <1>1, SuffixFacts
<1>7. ASSUME NEW j \in 1..Len(t) PROVE u[j] = t[j]
  <2>1. /\ Len(s) - Len(t) + j \in 1..Len(s)
        /\ Len(n) - Len(s) + (Len(s) - Len(t) + j) = i + j - 1
    BY <1>1, <1>2
  <2> QED
    BY <1>4, <1>5, <1>6, <2>1
<1>8. u = t
  BY <1>2, <1>4, <1>7, SeqEqual
<1> QED
  BY <1>3, <1>8 DEF Ancestors

\* Of some suffixes of a name one is the longest.
LEMMA LongestFacts ==
    ASSUME NEW n \in Name, NEW S, S \subseteq Ancestors(n), S # {}
    PROVE  Longest(S) \in S /\ \A t \in S : Len(t) <= Len(Longest(S))
<1> DEFINE K == {Len(n) - Len(s) : s \in S}
<1>1. Len(n) \in Nat /\ \A s \in S : Len(s) \in 0..Len(n)
  BY SuffixFacts
<1>2. K \subseteq Nat /\ K # {}
  BY <1>1
<1> HIDE DEF K
<1>3. PICK x \in K : \A y \in K : ~(<<y, x>> \in OpToRel(<, Nat))
  BY <1>2, WFMin, NatLessThanWellFounded
<1>4. \A y \in K : ~(y < x)
  BY <1>2, <1>3 DEF OpToRel
<1>5. PICK s \in S : x = Len(n) - Len(s)
  BY DEF K
<1>6. \A t \in S : Len(t) <= Len(s)
  <2> SUFFICES ASSUME NEW t \in S PROVE Len(t) <= Len(s)
    OBVIOUS
  <2>1. ~(Len(n) - Len(t) < x)
    BY <1>4 DEF K
  <2> QED
    BY <1>1, <1>5, <2>1
<1> QED
  BY <1>6 DEF Longest
-----------------------------------------------------------------------------
(* The zones.                                                                *)

\* The zones and the question do not change while the question is answered.
LEMMA WorldKept ==
    ASSUME UNCHANGED world
    PROVE  /\ UNCHANGED <<data, source, conf, p>> /\ Path' = Path
           /\ \A n : LeadsTo(n)' = LeadsTo(n)
           /\ \A n : getAuth(n)' = getAuth(n) /\ ZoneOf(n)' = ZoneOf(n)
           /\ \A n : Covering(n)' = Covering(n)
           /\ \A z, n : At(z, n)' = At(z, n) /\ Cuts(z, n)' = Cuts(z, n)
           /\ \A z : SOA(z)' = SOA(z)
           /\ \A z, n : Delegated(z, n)' = Delegated(z, n)
<1>1. UNCHANGED <<data, source, conf, p>>
  BY DEF world
<1>2. Path' = Path
  BY <1>1 DEF Path, LeadsTo, Wild, Covering, ZoneOf, getAuth, At
<1>3. \A n : LeadsTo(n)' = LeadsTo(n)
  BY <1>1 DEF LeadsTo, Wild, Covering, ZoneOf, getAuth, At
<1>4. \A n : getAuth(n)' = getAuth(n) /\ ZoneOf(n)' = ZoneOf(n)
  BY <1>1 DEF ZoneOf, getAuth
<1>5. \A n : Covering(n)' = Covering(n)
  BY <1>1 DEF Covering, ZoneOf, getAuth, At
<1>6. \A z, n : At(z, n)' = At(z, n) /\ Cuts(z, n)' = Cuts(z, n)
  BY <1>1 DEF At, Cuts
<1>7. \A z : SOA(z)' = SOA(z)
  BY <1>1 DEF SOA, At
<1>8. \A z, n : Delegated(z, n)' = Delegated(z, n)
  BY <1>1 DEF Delegated, MaybeUnauth, LoadedUnauth, Cuts, At
<1> QED
  BY <1>1, <1>2, <1>3, <1>4, <1>5, <1>6, <1>7, <1>8

\* getAuth finds one zone, if any, and finds the zone whose apex is asked for.
LEMMA AuthFacts ==
    ASSUME NEW n \in Name
    PROVE  /\ \A z \in getAuth(n) : /\ z \in DOMAIN data /\ z \in Ancestors(n) /\ z \in Name
                                    /\ ZoneOf(n) = z /\ getAuth(n) = {z}
           /\ n \in DOMAIN data => n \in getAuth(n)
<1>1. ASSUME NEW z \in getAuth(n)
      PROVE  /\ z \in DOMAIN data /\ z \in Ancestors(n) /\ z \in Name
             /\ ZoneOf(n) = z /\ getAuth(n) = {z}
  <2>1. z \in DOMAIN data /\ z \in Ancestors(n)
    BY DEF getAuth
  <2>2. ASSUME NEW y \in getAuth(n) PROVE y = z
    <3>1. y \in Ancestors(n) /\ Len(y) <= Len(z) /\ Len(z) <= Len(y)
      BY <2>1 DEF getAuth
    <3>2. Len(y) \in Nat /\ Len(z) \in Nat
      BY <2>1, <3>1, SuffixFacts
    <3> QED
      BY <2>1, <3>1, <3>2, SuffixesNested
  <2>3. getAuth(n) = {z}
    BY <2>2
  <2> QED
    BY <2>1, <2>3, SuffixFacts DEF ZoneOf
<1>2. ASSUME n \in DOMAIN data PROVE n \in getAuth(n)
  BY <1>2, SuffixFacts DEF getAuth
<1> QED
  BY <1>1, <1>2

\* What the zones hold.
LEMMA AtFacts ==
    ASSUME FieldsOK
    PROVE  /\ \A z, n : /\ At(z, n) \subseteq [type : STRING, to : Name]
                        /\ \A rr, other \in At(z, n) : rr.type = "CNAME" => other = rr
           /\ \A z \in DOMAIN data : z \in Name /\ \E rr \in At(z, z) : rr.type = "SOA"
<1>1. data \in Databases
  BY DEF FieldsOK
<1> QED
  BY <1>1, DataAssumption, CNAMEAssumption DEF At

\* The CNAMEs the handler sees at a name are those that lead on from it.
LEMMA LeadsFromRecords ==
    ASSUME NEW n \in Name, NEW z \in getAuth(n), At(z, n) # {}
    PROVE  LeadsTo(n) = {rr.to : rr \in (IF p.type = "CNAME" THEN {}
                                         ELSE OfType(At(z, n), "CNAME"))}
<1>1. ZoneOf(n) = z /\ getAuth(n) # {}
  BY AuthFacts
<1> QED
  BY <1>1 DEF LeadsTo, OfType

\* getBestWildcard finds the wildcard that covers a name, and its CNAME leads on.
LEMMA LeadsFromWildcard ==
    ASSUME FieldsOK, NEW n \in Name, NEW z \in getAuth(n), At(z, n) = {},
           NEW found, found = getBestWildcard(z, n, p.type)
    PROVE  /\ LeadsTo(n) = {rr.to : rr \in OfType(found, "CNAME")}
           /\ found = {} => Covering(n) = {}
           /\ found \subseteq [type : STRING, to : Name]
           /\ \A rr \in found : rr.type \in {p.type, "CNAME"}
           /\ \A rr, other \in found : rr.type = "CNAME" => other = rr
<1> DEFINE Match(s) == {rr \in At(z, <<"*">> \o s) : rr.type \in {p.type, "CNAME"}}
           Hits == {s \in Ancestors(n) \ {n} : Len(s) >= Len(z) /\ Match(s) # {}}
<1>1. /\ ZoneOf(n) = z /\ getAuth(n) # {} /\ z \in Ancestors(n) /\ Len(z) \in Nat
      /\ \A s \in Ancestors(n) : Len(s) \in Nat /\ s \in Name
  BY AuthFacts, SuffixFacts
<1>2. \A s \in Ancestors(n) : Len(s) >= Len(z) <=> z \in Ancestors(s)
  BY <1>1, SuffixFacts, SuffixesNested
<1>3. Covering(n) = Hits
  BY <1>1, <1>2 DEF Covering
<1>4. found = IF Hits = {} THEN {} ELSE Match(Longest(Hits))
  BY DEF getBestWildcard
<1>5. Hits # {} => Match(Longest(Hits)) # {}
  <2>1. Hits \subseteq Ancestors(n)
    OBVIOUS
  <2>2. Hits # {} => Longest(Hits) \in Hits
    <3> HIDE DEF Hits
    <3> QED
      BY <2>1, LongestFacts
  <2> QED
    BY <2>2
<1>6. Wild(n) = IF Hits = {} THEN {} ELSE At(z, <<"*">> \o Longest(Hits))
  BY <1>1, <1>3 DEF Wild
<1> HIDE DEF Hits
<1>7. OfType(Wild(n), "CNAME") = OfType(found, "CNAME")
  BY <1>4, <1>6 DEF OfType
<1>8. LeadsTo(n) = {rr.to : rr \in OfType(found, "CNAME")}
  BY <1>1, <1>7 DEF LeadsTo
<1> QED
  BY <1>3, <1>4, <1>5, <1>8, AtFacts

-----------------------------------------------------------------------------
(* The path of CNAMEs.                                                       *)

\* CNAMEs point to names.
LEMMA NextIsName ==
    ASSUME FieldsOK, NEW n \in Name
    PROVE  NextName(n) \in Name
<1>1. LeadsTo(n) \subseteq Name
  <2>1. \A z, m : \A rr \in At(z, m) : rr.to \in Name
    BY AtFacts
  <2> QED
    BY <2>1 DEF LeadsTo, Wild, OfType
<1> QED
  BY <1>1 DEF NextName

\* Induction over the natural numbers, for a set.
LEMMA SetInduction ==
    ASSUME NEW S, 0 \in S, \A k \in Nat : k \in S => k + 1 \in S
    PROVE  Nat \subseteq S
<1> DEFINE B == Nat \ S
<1>1. ASSUME B # {} PROVE FALSE
  <2>1. PICK k \in B : \A j \in B : ~(<<j, k>> \in OpToRel(<, Nat))
    BY <1>1, WFMin, NatLessThanWellFounded
  <2>2. k \in Nat /\ k \notin S /\ k # 0
    OBVIOUS
  <2>3. k - 1 \in Nat /\ <<k - 1, k>> \in OpToRel(<, Nat) /\ (k - 1) + 1 = k
    BY <2>2 DEF OpToRel
  <2>4. k - 1 \in S
    BY <2>1, <2>3
  <2> QED
    BY <2>2, <2>3, <2>4
<1> QED
  BY <1>1

\* There is a path of any length.
LEMMA PathExists ==
    ASSUME FieldsOK
    PROVE  \A k \in Nat : \E f \in [0..k -> Name] :
              f[0] = p.name /\ \A i \in 1..k : f[i] = NextName(f[i - 1])
<1> DEFINE P(k) == \E f \in [0..k -> Name] :
                      f[0] = p.name /\ \A i \in 1..k : f[i] = NextName(f[i - 1])
           S == {k \in Nat : P(k)}
<1>1. p.name \in Name
  BY QuestionAssumption DEF FieldsOK
<1>2. P(0)
  <2> DEFINE f == [i \in 0..0 |-> p.name]
  <2>1. f \in [0..0 -> Name] /\ f[0] = p.name
    BY <1>1
  <2>2. \A i \in 1..0 : FALSE
    OBVIOUS
  <2> HIDE DEF f
  <2> QED
    BY <2>1, <2>2
<1>3. ASSUME NEW k \in Nat, P(k) PROVE P(k + 1)
  <2>1. PICK f \in [0..k -> Name] :
            f[0] = p.name /\ \A i \in 1..k : f[i] = NextName(f[i - 1])
    BY <1>3
  <2> DEFINE g == [i \in 0..(k + 1) |-> IF i = k + 1 THEN NextName(f[k]) ELSE f[i]]
  <2>2. f[k] \in Name /\ NextName(f[k]) \in Name
    BY NextIsName
  <2>3. g \in [0..(k + 1) -> Name] /\ g[0] = p.name
    BY <2>1, <2>2
  <2>4. ASSUME NEW i \in 1..(k + 1) PROVE g[i] = NextName(g[i - 1])
    <3>1. CASE i = k + 1
      BY <3>1
    <3>2. CASE i \in 1..k
      BY <2>1, <3>2
    <3> QED
      BY <3>1, <3>2
  <2> HIDE DEF g
  <2> QED
    BY <2>3, <2>4
<1> HIDE DEF P
<1>4. Nat \subseteq S
  <2>1. 0 \in S /\ \A k \in Nat : k \in S => k + 1 \in S
    BY <1>2, <1>3
  <2> HIDE DEF S
  <2> QED
    BY <2>1, SetInduction
<1> QED
  BY <1>4 DEF P

\* What Path is.
LEMMA PathFacts ==
    ASSUME FieldsOK
    PROVE  /\ Path \in [0..(MaxRetargets + 1) -> Name] /\ Path[0] = p.name
           /\ \A i \in 1..(MaxRetargets + 1) : Path[i] = NextName(Path[i - 1])
<1> DEFINE Body(f) == [i \in 0..(MaxRetargets + 1) |->
                          IF i = 0 THEN p.name ELSE NextName(f[i - 1])]
           C == CHOOSE f : f = Body(f)
<1>1. MaxRetargets + 1 \in Nat
  BY RetargetAssumption
<1>2. PICK f \in [0..(MaxRetargets + 1) -> Name] :
          f[0] = p.name /\ \A i \in 1..(MaxRetargets + 1) : f[i] = NextName(f[i - 1])
  BY <1>1, PathExists
<1>3. f = Body(f)
  BY <1>1, <1>2
<1>4. C = Body(C)
  BY <1>3
<1>5. Path = C
  BY DEF Path, NextName
<1>6. Path = Body(Path)
  BY <1>4, <1>5
<1> HIDE DEF C
<1>7. /\ Path[0] = p.name
      /\ \A i \in 1..(MaxRetargets + 1) : Path[i] = NextName(Path[i - 1])
  BY <1>1, <1>6
<1> DEFINE S == {k \in Nat : k <= MaxRetargets + 1 => Path[k] \in Name}
<1>8. 0 \in S
  BY <1>7, QuestionAssumption DEF FieldsOK
<1>9. ASSUME NEW k \in Nat, k \in S PROVE k + 1 \in S
  <2> SUFFICES ASSUME k + 1 <= MaxRetargets + 1 PROVE Path[k + 1] \in Name
    OBVIOUS
  <2>1. k + 1 \in 1..(MaxRetargets + 1) /\ (k + 1) - 1 = k /\ k <= MaxRetargets + 1
    BY <1>1
  <2>2. Path[k + 1] = NextName(Path[k])
    BY <1>7, <2>1
  <2> QED
    BY <1>9, <2>1, <2>2, NextIsName
<1>10. Nat \subseteq S
  <2> HIDE DEF S
  <2> QED
    BY <1>8, <1>9, SetInduction
<1>11. \A i \in 0..(MaxRetargets + 1) : Path[i] \in Name
  BY <1>1, <1>10
<1>12. Path \in [0..(MaxRetargets + 1) -> Name]
  <2>1. Body(Path) \in [0..(MaxRetargets + 1) -> Name]
    <3>1. \A i \in 0..(MaxRetargets + 1) : (IF i = 0 THEN p.name ELSE NextName(Path[i - 1])) \in Name
      BY <1>1, <1>7, <1>11
    <3> QED
      BY <3>1
  <2> HIDE DEF Body
  <2> QED
    BY <1>6, <2>1
<1> QED
  BY <1>7, <1>12

\* Where the CNAMEs end, the path stays.
LEMMA PathStays ==
    ASSUME FieldsOK, NEW i \in 0..MaxRetargets, LeadsTo(Path[i]) = {}
    PROVE  End = Path[i]
<1>1. /\ MaxRetargets \in Nat
      /\ \A j \in 1..(MaxRetargets + 1) : Path[j] = NextName(Path[j - 1])
  BY RetargetAssumption, PathFacts
<1> DEFINE S == {k \in Nat : i + k <= MaxRetargets => Path[i + k] = Path[i]}
<1>2. 0 \in S
  BY <1>1
<1>3. ASSUME NEW k \in Nat, k \in S PROVE k + 1 \in S
  <2> SUFFICES ASSUME i + (k + 1) <= MaxRetargets PROVE Path[i + (k + 1)] = Path[i]
    OBVIOUS
  <2>1. /\ i + (k + 1) \in 1..(MaxRetargets + 1) /\ (i + (k + 1)) - 1 = i + k
        /\ i + k <= MaxRetargets
    BY <1>1
  <2>2. Path[i + (k + 1)] = NextName(Path[i + k])
    BY <1>1, <2>1
  <2> QED
    BY <1>3, <2>1, <2>2 DEF NextName
<1>4. Nat \subseteq S
  <2> HIDE DEF S
  <2> QED
    BY <1>2, <1>3, SetInduction
<1>5. MaxRetargets - i \in Nat /\ i + (MaxRetargets - i) = MaxRetargets
  BY <1>1
<1>6. Path[i + (MaxRetargets - i)] = Path[i]
  BY <1>4, <1>5
<1> QED
  BY <1>5, <1>6 DEF End
-----------------------------------------------------------------------------
(* Replies.                                                                  *)

\* An empty reply is a reply, and none is no reply.
LEMMA ReplyFacts ==
    /\ replyPacket \in Reply /\ replyPacket.rcode = "NoError"
    /\ replyPacket.answer = {} /\ replyPacket.authority = {} /\ replyPacket.additional = {}
    /\ NoReply \notin Reply
<1>1. replyPacket \in Reply
  BY DEF replyPacket, Reply, Rcodes
<1>2. NoReply \notin Reply
  <2>1. NoReply.rcode = "none" /\ "none" \notin Rcodes
    BY DEF NoReply, Rcodes
  <2>2. \A a \in Reply : a.rcode \in Rcodes
    BY DEF Reply
  <2> QED
    BY <2>1, <2>2
<1> QED
  BY <1>1, <1>2 DEF replyPacket

\* Setting the header of a reply leaves its records.
LEMMA Headers ==
    ASSUME NEW a \in Reply, NEW c \in Rcodes
    PROVE  /\ LET x == [a EXCEPT !.rcode = c]
              IN  /\ x \in Reply /\ x.rcode = c /\ x.answer = a.answer
                  /\ x.authority = a.authority /\ x.additional = a.additional
           /\ LET x == [a EXCEPT !.aa = FALSE]
              IN  /\ x \in Reply /\ x.rcode = a.rcode /\ x.aa = FALSE /\ x.answer = a.answer
                  /\ x.authority = a.authority /\ x.additional = a.additional
           /\ LET x == [a EXCEPT !.aa = FALSE, !.rcode = c]
              IN  /\ x \in Reply /\ x.rcode = c /\ x.answer = a.answer
                  /\ x.authority = a.authority /\ x.additional = a.additional
BY DEF Reply

\* What addRecord does to each section.
LEMMA AddFacts ==
    ASSUME NEW a \in Reply, NEW recs \in SUBSET Rec
    PROVE  /\ LET b == addRecords(a, "answer", recs)
              IN  /\ b \in Reply /\ b.rcode = a.rcode /\ b.aa = a.aa
                  /\ b.answer = a.answer \cup New(a, recs)
                  /\ b.authority = a.authority /\ b.additional = a.additional
           /\ LET b == addRecords(a, "authority", recs)
              IN  /\ b \in Reply /\ b.rcode = a.rcode /\ b.aa = a.aa
                  /\ b.authority = a.authority \cup New(a, recs)
                  /\ b.answer = a.answer /\ b.additional = a.additional
           /\ LET b == addRecords(a, "additional", recs)
              IN  /\ b \in Reply /\ b.rcode = a.rcode /\ b.aa = a.aa
                  /\ b.additional = a.additional \cup New(a, recs)
                  /\ b.answer = a.answer /\ b.authority = a.authority
<1> DEFINE N == New(a, recs)
<1>1. \A x \in recs : (\E s \in Sections : \E b \in a[s] : Same(x, b))
                      <=> \E y \in a.answer \cup a.authority \cup a.additional : Same(x, y)
  BY DEF Sections
<1>2. {x \in recs : ~ \E s \in Sections : \E b \in a[s] : Same(x, b)} = N
  BY <1>1 DEF New
<1>3. N \in SUBSET Rec
  BY DEF New
<1>4. \A s : addRecords(a, s, recs) = [a EXCEPT ![s] = a[s] \cup N]
  BY <1>2 DEF addRecords
<1> HIDE DEF N
<1>5. LET b == [a EXCEPT !["answer"] = a["answer"] \cup N]
      IN  /\ b \in Reply /\ b.rcode = a.rcode /\ b.aa = a.aa
          /\ b.answer = a.answer \cup N
          /\ b.authority = a.authority /\ b.additional = a.additional
  BY <1>3 DEF Reply
<1>6. LET b == [a EXCEPT !["authority"] = a["authority"] \cup N]
      IN  /\ b \in Reply /\ b.rcode = a.rcode /\ b.aa = a.aa
          /\ b.authority = a.authority \cup N
          /\ b.answer = a.answer /\ b.additional = a.additional
  BY <1>3 DEF Reply
<1>7. LET b == [a EXCEPT !["additional"] = a["additional"] \cup N]
      IN  /\ b \in Reply /\ b.rcode = a.rcode /\ b.aa = a.aa
          /\ b.additional = a.additional \cup N
          /\ b.answer = a.answer /\ b.authority = a.authority
  BY <1>3 DEF Reply
<1> QED
  BY <1>4, <1>5, <1>6, <1>7 DEF N

\* ReplyType, section by section.
LEMMA ReplyTypeFacts ==
    ASSUME NEW a \in Reply
    PROVE  ReplyType(a) <=> Distinct(a)
<1>1. \A x, y : Same(x, y) <=> Same(y, x)
  BY DEF Same
<1>2. a # NoReply /\ a.rcode \in Rcodes /\ a.aa \in BOOLEAN
  BY ReplyFacts DEF Reply
<1>3. ReplyType(a) <=> \A s, t \in Sections : \A x \in a[s], y \in a[t] :
                          Same(x, y) => s = t /\ x = y
  BY <1>2 DEF ReplyType, Rcodes
<1>4. (\A s, t \in Sections : \A x \in a[s], y \in a[t] : Same(x, y) => s = t /\ x = y)
      => Distinct(a)
  BY DEF Sections, Distinct, OneOfEach
<1>5. Distinct(a) =>
      \A s, t \in Sections : \A x \in a[s], y \in a[t] : Same(x, y) => s = t /\ x = y
  BY <1>1 DEF Sections, Distinct, OneOfEach
<1> QED
  BY <1>3, <1>4, <1>5

\* addRecord keeps a reply without doubles.
LEMMA StaysDistinct ==
    ASSUME NEW a \in Reply, Distinct(a), NEW recs \in SUBSET Rec, OneOfEach(recs)
    PROVE  /\ Distinct(addRecords(a, "answer", recs))
           /\ Distinct(addRecords(a, "authority", recs))
           /\ Distinct(addRecords(a, "additional", recs))
<1>1. \A x, y : Same(x, y) <=> Same(y, x)
  BY DEF Same
<1>2. /\ OneOfEach(New(a, recs))
      /\ \A x \in New(a, recs) : \A y \in a.answer \cup a.authority \cup a.additional :
            ~Same(x, y) /\ ~Same(y, x)
  BY <1>1 DEF New, OneOfEach
<1>3. Distinct(addRecords(a, "answer", recs))
  BY <1>2, AddFacts DEF Distinct, OneOfEach
<1>4. Distinct(addRecords(a, "authority", recs))
  BY <1>2, AddFacts DEF Distinct, OneOfEach
<1>5. Distinct(addRecords(a, "additional", recs))
  BY <1>2, AddFacts DEF Distinct, OneOfEach
<1> QED
  BY <1>3, <1>4, <1>5

\* The records of one zone.
LEMMA RecordFacts ==
    ASSUME NEW z \in Name, NEW n \in Name, NEW rrs, rrs \subseteq [type : STRING, to : Name]
    PROVE  /\ Recs(z, n, rrs) \in SUBSET Rec /\ OneOfEach(Recs(z, n, rrs))
           /\ \A rr \in rrs : /\ Record(z, n, rr).name = n /\ Record(z, n, rr).type = rr.type
                              /\ Record(z, n, rr).to = rr.to /\ Record(z, n, rr).zone = z
<1>1. \A rr \in rrs : Record(z, n, rr) \in Rec
  BY DEF Record, Rec, Types
<1>2. ASSUME NEW x \in rrs, NEW y \in rrs, Same(Record(z, n, x), Record(z, n, y))
      PROVE  Record(z, n, x) = Record(z, n, y)
  BY <1>2 DEF Record, Same
<1> QED
  BY <1>1, <1>2 DEF OneOfEach, Record, Recs
-----------------------------------------------------------------------------
(* How the handler moves.                                                    *)

\* What is said of a reply does not depend on how far the handler is.
LEMMA SaidKept ==
    ASSUME UNCHANGED world
    PROVE  /\ \A a, n : Denies(a, n)' = Denies(a, n) /\ Says(a, n)' = Says(a, n)
           /\ \A a : Chain(a)' = Chain(a) /\ Own(a)' = Own(a)
           /\ NoWildcards' = NoWildcards
<1>1. \A a, n : Denies(a, n)' = Denies(a, n)
  BY WorldKept DEF Denies
<1>2. \A a, n : Says(a, n)' = Says(a, n)
  BY WorldKept DEF Says
<1>3. \A a : Chain(a)' = Chain(a) /\ Own(a)' = Own(a)
  BY WorldKept DEF Chain, Own
<1>4. NoWildcards' = NoWildcards
  BY WorldKept DEF NoWildcards
<1> QED
  BY <1>1, <1>2, <1>3, <1>4

\* Until the reply went through sendit nothing is cached.
LEMMA NotCachedYet ==
    ASSUME Inv, pc # "done"
    PROVE  cached = NoReply /\ (pc # "asked" => r \in Reply /\ ReplyType(r))
BY DEF Inv, FieldsOK, SearchOK, ReplyOK, TypeOK, Looking, Searching

\* The handler returns.
LEMMA ReturnStep ==
    ASSUME Inv, pc # "done", NEW a, Return(a), failed' \in BOOLEAN,
           Looked => a # NoReply /\ a.rcode = "ServFail",
           a = NoReply \/ (/\ a \in Reply /\ ReplyType(a) /\ Chain(a)
                           /\ NoWildcards => Own(a))
    PROVE  Inv'
<1>1. /\ pc' = "done" /\ r' = a /\ UNCHANGED world
      /\ UNCHANGED <<target, retargetcount, sd, cached>>
  BY DEF Return
<1>2. cached = NoReply
  BY NotCachedYet
<1>3. UNCHANGED <<data, source, conf, p>>
  BY <1>1, WorldKept
<1>4. TypeOK'
  BY <1>1, <1>3 DEF Inv, TypeOK, ReplyType, Same
<1>5. FieldsOK'
  BY <1>1, <1>3 DEF Inv, FieldsOK
<1>6. SearchOK'
  BY <1>1, <1>3 DEF Inv, SearchOK, Looking, Searching
<1>7. ReplyOK'
  BY <1>1, <1>2, SaidKept DEF ReplyOK, Looking, Searching
<1>8. FailOK'
  BY <1>1, <1>2, <1>3 DEF FailOK, Looked
<1> QED
  BY <1>4, <1>5, <1>6, <1>7, <1>8 DEF Inv

\* The search goes on in another place; the reply stays.
LEMMA SearchStep ==
    ASSUME Inv, Searching, NEW step \in {"wildcard", "refer"}, Goto(step, r),
           step = "wildcard" => At(sd, target) = {},
           step = "refer" => /\ LeadsTo(target) = {}
                             /\ At(sd, target) = {} => Covering(target) = {}
                             /\ At(sd, target) # {} /\ source # "unset" => Delegated(sd, target)
    PROVE  Inv'
<1>1. /\ pc' = step /\ r' = r /\ UNCHANGED world
      /\ UNCHANGED <<target, retargetcount, sd, cached, failed>>
  BY DEF Goto
<1>2. UNCHANGED <<data, source, conf, p>>
  BY <1>1, WorldKept
<1>3. Looking /\ Looking' /\ Searching' /\ pc' # "asked" /\ pc' # "sendit" /\ pc' # "done"
  BY <1>1 DEF Looking, Searching
<1>4. TypeOK'
  BY <1>1, <1>2 DEF Inv, TypeOK, ReplyType, Same
<1>5. FieldsOK'
  BY <1>1, <1>2 DEF Inv, FieldsOK
<1>6. SearchOK'
  BY <1>1, <1>2, <1>3, WorldKept DEF Inv, SearchOK
<1>7. ReplyOK'
  <2>1. cached = NoReply /\ Plain(r) /\ Linked /\ r # NoReply
        /\ Chain(r) /\ (NoWildcards => Own(r))
    BY <1>3 DEF Inv, SearchOK, ReplyOK
  <2>2. Plain(r)' /\ Linked'
    BY <1>1, <1>2, <2>1 DEF Plain, Linked
  <2> QED
    BY <1>1, <1>3, <2>1, <2>2, SaidKept DEF ReplyOK
<1>8. FailOK'
  BY <1>1, <1>3 DEF Inv, FailOK, Looking, Searching
<1> QED
  BY <1>4, <1>5, <1>6, <1>7, <1>8 DEF Inv

\* The search is over, with reply a.
LEMMA SettleStep ==
    ASSUME Inv, Looking, NEW a \in Reply, NEW z, pc' = "sendit", r' = a,
           UNCHANGED world, UNCHANGED <<target, retargetcount, cached, failed>>,
           sd' \in DOMAIN data \cup {<<>>}, retargetcount <= MaxRetargets,
           LeadsTo(target) = {}, Denies(a, target), Says(a, target), ReplyType(a),
           Chain(a), NoWildcards => Own(a), FromZone(a, z)
    PROVE  Inv'
<1>1. UNCHANGED <<data, source, conf, p>>
  BY WorldKept
<1>2. cached = NoReply /\ target = Path[retargetcount] /\ a # NoReply
  BY ReplyFacts DEF Inv, SearchOK
<1>3. TypeOK'
  BY <1>1 DEF Inv, TypeOK, ReplyType, Same
<1>4. FieldsOK'
  BY <1>1 DEF Inv, FieldsOK
<1>5. SearchOK'
  BY <1>1 DEF Inv, SearchOK, Looking, Searching
<1>6. Settled(r)'
  BY <1>2, WorldKept, SaidKept DEF Settled
<1>7. OneZone(r)'
  BY DEF OneZone, FromZone
<1>8. ReplyOK'
  BY <1>2, <1>6, <1>7, SaidKept DEF ReplyOK, Looking, Searching
<1>9. FailOK'
  BY DEF Inv, FailOK, Looking, Searching
<1> QED
  BY <1>3, <1>4, <1>5, <1>8, <1>9 DEF Inv

\* A CNAME is followed to n.
LEMMA RetargetStep ==
    ASSUME Inv, Searching, NEW n \in Name, NEW a \in Reply, Retarget(n, a),
           LeadsTo(target) = {n}, ReplyType(a), Plain(a), Chain(a), NoWildcards => Own(a),
           \E c \in a.answer : c.type = "CNAME" /\ c.to = n
    PROVE  Inv'
<1>1. /\ pc' = "retargeted" /\ r' = a /\ target' = n /\ retargetcount' = retargetcount + 1
      /\ UNCHANGED world /\ UNCHANGED <<sd, cached, failed>>
  BY DEF Retarget
<1>2. UNCHANGED <<data, source, conf, p>>
  BY <1>1, WorldKept
<1>3. /\ MaxRetargets \in Nat /\ retargetcount \in 0..MaxRetargets
      /\ target = Path[retargetcount] /\ FieldsOK /\ target \in Name /\ cached = NoReply
  BY RetargetAssumption DEF Inv, TypeOK, SearchOK, FieldsOK, Looking, Searching
<1>4. Path[retargetcount + 1] = n
  <2>1. retargetcount + 1 \in 1..(MaxRetargets + 1) /\ (retargetcount + 1) - 1 = retargetcount
    BY <1>3
  <2>2. Path[retargetcount + 1] = NextName(target)
    BY <1>3, <2>1, PathFacts
  <2> QED
    BY <2>2 DEF NextName
<1>5. TypeOK'
  BY <1>1, <1>2, <1>3 DEF Inv, TypeOK, ReplyType, Same
<1>6. FieldsOK'
  BY <1>1, <1>2 DEF Inv, FieldsOK
<1>7. p.type = "SOA" => p.name \notin DOMAIN data
  <2> SUFFICES ASSUME p.type = "SOA", p.name \in DOMAIN data PROVE FALSE
    OBVIOUS
  <2>1. ~(retargetcount > 0)
    BY DEF Inv, SearchOK
  <2>2. target = p.name
    BY <1>3, <2>1, PathFacts
  <2>3. p.name \in getAuth(target)
    BY <1>3, <2>2, AuthFacts
  <2>4. sd \in getAuth(target) /\ sd # p.name
    BY DEF Inv, SearchOK
  <2> QED
    BY <1>3, <2>3, <2>4, AuthFacts
<1>8. SearchOK'
  <2>1. r' # NoReply /\ target' = Path'[retargetcount']
    BY <1>1, <1>4, ReplyFacts, WorldKept
  <2> QED
    BY <1>1, <1>2, <1>3, <1>7, <2>1 DEF SearchOK, Looking, Searching
<1>9. ReplyOK'
  <2>1. Plain(r)' /\ Linked'
    BY <1>1, <1>2 DEF Plain, Linked
  <2> QED
    BY <1>1, <1>3, <2>1, SaidKept DEF ReplyOK, Looking, Searching
<1>10. FailOK'
  BY <1>1 DEF Inv, FailOK, Searching
<1> QED
  BY <1>5, <1>6, <1>8, <1>9, <1>10 DEF Inv
-----------------------------------------------------------------------------
(* The ways out that build no reply of their own.                            *)

\* A new reply with just a code.
LEMMA EmptyReply ==
    ASSUME NEW c \in Rcodes
    PROVE  LET a == [replyPacket EXCEPT !.rcode = c]
           IN  a \in Reply /\ a.rcode = c /\ ReplyType(a) /\ Chain(a) /\ Own(a)
<1> DEFINE a == [replyPacket EXCEPT !.rcode = c]
<1>1. /\ a \in Reply /\ a.rcode = c
      /\ a.answer = {} /\ a.authority = {} /\ a.additional = {}
  BY ReplyFacts, Headers
<1> HIDE DEF a
<1>2. Distinct(a)
  BY <1>1 DEF Distinct, OneOfEach
<1>3. ReplyType(a) /\ Chain(a) /\ Own(a)
  BY <1>1, <1>2, ReplyTypeFacts DEF Chain, Own
<1> QED
  BY <1>1, <1>3 DEF a

\* The reply so far with another code.
LEMMA Recoded ==
    ASSUME Inv, pc \notin {"asked", "done"}, NEW c \in Rcodes
    PROVE  LET a == [r EXCEPT !.rcode = c]
           IN  /\ a \in Reply /\ a.rcode = c /\ ReplyType(a) /\ Chain(a)
               /\ NoWildcards => Own(a)
<1> DEFINE a == [r EXCEPT !.rcode = c]
<1>1. r \in Reply /\ ReplyType(r) /\ Chain(r) /\ (NoWildcards => Own(r))
  BY NotCachedYet, ReplyFacts DEF Inv, ReplyOK
<1>2. /\ a \in Reply /\ a.rcode = c /\ a.answer = r.answer
      /\ a.authority = r.authority /\ a.additional = r.additional
  BY <1>1, Headers
<1> HIDE DEF a
<1>3. ReplyType(a)
  BY <1>1, <1>2, ReplyTypeFacts DEF Distinct
<1>4. Chain(a) /\ (NoWildcards => Own(a))
  BY <1>1, <1>2 DEF Chain, Own
<1> QED
  BY <1>2, <1>3, <1>4 DEF a

\* Questions that are not looked up.
LEMMA TurnAwayStep ==
    ASSUME Inv, TurnAway
    PROVE  Inv'
<1>1. pc = "asked" /\ ~Looked /\ failed' \in BOOLEAN
  BY DEF TurnAway, Looked, Inv, TypeOK
<1>2. Return(NoReply) \/ \E c \in Rcodes : Return([replyPacket EXCEPT !.rcode = c])
  BY DEF TurnAway, Rcodes
<1>3. CASE Return(NoReply)
  BY <1>1, <1>3, ReturnStep
<1>4. ASSUME NEW c \in Rcodes, Return([replyPacket EXCEPT !.rcode = c]) PROVE Inv'
  BY <1>1, <1>4, EmptyReply, ReturnStep
<1> QED
  BY <1>2, <1>3, <1>4

\* Too many CNAMEs, a lookup that throws, and content that cannot be encoded.
LEMMA FailStep ==
    ASSUME Inv, TooManyRetargets \/ BackendFails \/ AnswerFails
    PROVE  Inv'
<1>1. pc \notin {"asked", "done"} /\ "ServFail" \in Rcodes /\ failed' \in BOOLEAN
  BY DEF TooManyRetargets, BackendFails, AnswerFails, Rcodes, Inv, TypeOK
<1>2. CASE TooManyRetargets \/ BackendFails
  <2>1. Return([r EXCEPT !.rcode = "ServFail"])
    BY <1>2 DEF TooManyRetargets, BackendFails
  <2> QED
    BY <1>1, <2>1, Recoded, ReturnStep, ReplyFacts
<1>3. CASE AnswerFails
  <2>1. Return([replyPacket EXCEPT !.rcode = "ServFail"])
    BY <1>3 DEF AnswerFails
  <2> QED
    BY <1>1, <2>1, EmptyReply, ReturnStep, ReplyFacts
<1> QED
  BY <1>2, <1>3

\* A query begins with its own name and an empty reply.
LEMMA StartStep ==
    ASSUME Inv, Start
    PROVE  Inv'
<1>1. /\ pc = "asked" /\ pc' = "retargeted" /\ target' = p.name /\ r' = replyPacket
      /\ UNCHANGED world /\ UNCHANGED <<retargetcount, sd, cached, failed>>
  BY DEF Start
<1>2. UNCHANGED <<data, source, conf, p>>
  BY <1>1, WorldKept
<1>3. FieldsOK /\ cached = NoReply /\ retargetcount = 0 /\ p.name \in Name
  BY <1>1, QuestionAssumption DEF Inv, SearchOK, FieldsOK
<1>4. /\ replyPacket \in Reply /\ replyPacket # NoReply /\ replyPacket.answer = {}
      /\ replyPacket.authority = {} /\ replyPacket.additional = {}
      /\ replyPacket.rcode = "NoError"
  BY ReplyFacts
<1>5. ReplyType(replyPacket)
  BY <1>4, ReplyTypeFacts DEF Distinct, OneOfEach
<1>6. TypeOK'
  BY <1>1, <1>2, <1>5 DEF Inv, TypeOK, ReplyType, Same
<1>7. FieldsOK'
  BY <1>1, <1>2, <1>3, <1>4 DEF FieldsOK
<1>8. SearchOK'
  <2>1. target' = Path'[retargetcount']
    BY <1>1, <1>3, PathFacts, WorldKept
  <2> QED
    BY <1>1, <1>3, <1>4, <2>1 DEF SearchOK, Looking, Searching
<1>9. ReplyOK'
  <2>1. Plain(r)' /\ Linked' /\ Chain(r)' /\ Own(r)'
    BY <1>1, <1>2, <1>4 DEF Plain, Linked, Chain, Own
  <2> QED
    BY <1>1, <1>3, <2>1 DEF ReplyOK, Looking, Searching
<1>10. FailOK'
  BY <1>1 DEF Inv, FailOK
<1> QED
  BY <1>6, <1>7, <1>8, <1>9, <1>10 DEF Inv

\* The records of addRootReferral.
LEMMA RootFacts ==
    ASSUME NEW z \in Name
    PROVE  /\ RootNS(z) \in SUBSET Rec /\ RootGlue(z) \in SUBSET Rec
           /\ RootNS(z) # {} /\ OneOfEach(RootNS(z)) /\ OneOfEach(RootGlue(z))
           /\ \A x \in RootNS(z) : x.type = "NS" /\ x.name = <<>> /\ x.zone = z
<1>1. <<>> \in Name
  BY DEF Name
<1>2. RootServers \subseteq Name /\ RootServers # {}
  BY RootAssumption
<1>3. RootNS(z) \in SUBSET Rec /\ RootGlue(z) \in SUBSET Rec
  <2>1. \A n \in RootServers :
           /\ [name |-> <<>>, type |-> "NS", to |-> n, zone |-> z] \in Rec
           /\ [name |-> n, type |-> "A", to |-> <<>>, zone |-> z] \in Rec
    BY <1>1, <1>2 DEF Rec, Types
  <2>2. ASSUME NEW x \in RootNS(z) PROVE x \in Rec
    BY <2>1, Zenon DEF RootNS
  <2>3. ASSUME NEW x \in RootGlue(z) PROVE x \in Rec
    BY <2>1, Zenon DEF RootGlue
  <2> QED
    BY <2>2, <2>3
<1>4. RootNS(z) # {} /\ \A x \in RootNS(z) : x.type = "NS" /\ x.name = <<>> /\ x.zone = z
  <2> DEFINE NSof(n) == [name |-> <<>>, type |-> "NS", to |-> n, zone |-> z]
  <2>1. RootNS(z) = {NSof(n) : n \in RootServers}
    BY DEF RootNS
  <2>2. \A n : NSof(n).type = "NS" /\ NSof(n).name = <<>> /\ NSof(n).zone = z
    OBVIOUS
  <2> HIDE DEF NSof
  <2> QED
    BY <1>2, <2>1, <2>2
<1>5. OneOfEach(RootNS(z)) /\ OneOfEach(RootGlue(z))
  BY DEF RootNS, RootGlue, OneOfEach, Same
<1> QED
  BY <1>3, <1>4, <1>5

\* addRootReferral puts the name servers of the root in the authority section.
LEMMA RootReferralFacts ==
    ASSUME NEW a \in Reply, Distinct(a), Plain(a), NEW z \in Name,
           NEW b, b = addRootReferral(a, z)
    PROVE  /\ b \in Reply /\ Distinct(b) /\ b.rcode = "NoError" /\ b.aa = a.aa
           /\ b.answer = a.answer /\ b.authority = RootNS(z)
<1> DEFINE c == addRecords(a, "authority", RootNS(z))
           d == addRecords(c, "additional", RootGlue(z))
<1>1. b = c \/ b = d
  BY DEF addRootReferral
<1>2. New(a, RootNS(z)) = RootNS(z)
  BY RootFacts DEF New, Plain, Same
<1>3. /\ c \in Reply /\ Distinct(c) /\ c.rcode = "NoError" /\ c.aa = a.aa
      /\ c.answer = a.answer /\ c.authority = RootNS(z)
  <2>1. RootNS(z) \in SUBSET Rec /\ OneOfEach(RootNS(z))
    BY RootFacts
  <2>2. Distinct(c)
    BY <2>1, StaysDistinct
  <2>3. /\ c \in Reply /\ c.rcode = a.rcode /\ c.aa = a.aa
        /\ c.authority = a.authority \cup New(a, RootNS(z)) /\ c.answer = a.answer
    BY <2>1, AddFacts
  <2> QED
    BY <1>2, <2>2, <2>3 DEF Plain
<1> HIDE DEF c
<1>4. /\ d \in Reply /\ Distinct(d) /\ d.rcode = "NoError" /\ d.aa = a.aa
      /\ d.answer = a.answer /\ d.authority = RootNS(z)
  <2>1. RootGlue(z) \in SUBSET Rec /\ OneOfEach(RootGlue(z))
    BY RootFacts
  <2>2. Distinct(d)
    BY <1>3, <2>1, StaysDistinct
  <2>3. /\ d \in Reply /\ d.rcode = c.rcode /\ d.aa = c.aa
        /\ d.authority = c.authority /\ d.answer = c.answer
    BY <1>3, <2>1, AddFacts
  <2> QED
    BY <1>3, <2>2, <2>3
<1> HIDE DEF d
<1> QED
  BY <1>1, <1>3, <1>4

\* No zone of ours: SERVFAIL, or a referral to the root.
LEMMA NoAuthStep ==
    ASSUME Inv, NoAuth
    PROVE  Inv'
<1>1. pc = "retargeted" /\ retargetcount <= MaxRetargets /\ getAuth(target) = {}
  BY DEF NoAuth
<1>2. /\ r \in Reply /\ Distinct(r) /\ Chain(r) /\ (NoWildcards => Own(r)) /\ Plain(r)
      /\ Looking /\ sd \in DOMAIN data \cup {<<>>}
  BY <1>1, NotCachedYet, ReplyTypeFacts, ReplyFacts DEF Inv, ReplyOK, TypeOK, Looking
<1>3. LeadsTo(target) = {}
  BY <1>1 DEF LeadsTo
<1>4. ASSUME NEW a \in Reply, NEW z, Goto("sendit", a), a.answer = r.answer, Distinct(a),
             \A x \in a.authority : x.zone = z,
             Denies(a, target), Says(a, target)
      PROVE  Inv'
  <2>1. ReplyType(a) /\ Chain(a) /\ (NoWildcards => Own(a))
    BY <1>2, <1>4, ReplyTypeFacts DEF Chain, Own
  <2>2. FromZone(a, z)
    BY <1>2, <1>4 DEF Plain, FromZone
  <2> QED
    BY <1>1, <1>2, <1>3, <1>4, <2>1, <2>2, SettleStep DEF Goto
<1>5. ASSUME NEW z \in DOMAIN data \cup {<<>>},
             Goto("sendit", addRootReferral([r EXCEPT !.aa = FALSE], z))
      PROVE  Inv'
  <2> DEFINE a == [r EXCEPT !.aa = FALSE]
             b == addRootReferral(a, z)
  <2>1. z \in Name
    <3>1. <<>> \in Name /\ FieldsOK
      BY DEF Name, Inv
    <3> QED
      BY <3>1, AtFacts
  <2>2. /\ a \in Reply /\ a.rcode = r.rcode /\ a.aa = FALSE /\ a.answer = r.answer
        /\ a.authority = r.authority /\ a.additional = r.additional
    <3>1. r.rcode \in Rcodes
      BY <1>2 DEF Reply
    <3> QED
      BY <1>2, <3>1, Headers
  <2>3. Goto("sendit", b)
    BY <1>5
  <2> HIDE DEF a
  <2>4. Distinct(a) /\ Plain(a)
    BY <1>2, <2>2 DEF Distinct, Plain
  <2>5. /\ b \in Reply /\ Distinct(b) /\ b.rcode = "NoError" /\ b.aa = FALSE
        /\ b.answer = r.answer /\ b.authority = RootNS(z)
    BY <2>1, <2>2, <2>4, RootReferralFacts
  <2> HIDE DEF b
  <2>6. Denies(b, target) /\ Says(b, target)
    BY <1>1, <2>1, <2>5, RootFacts DEF Denies, Says
  <2> QED
    BY <1>4, <2>1, <2>3, <2>5, <2>6, RootFacts
<1>6. ASSUME Goto("sendit", [r EXCEPT !.aa = FALSE, !.rcode = "ServFail"])
      PROVE  Inv'
  <2> DEFINE a == [r EXCEPT !.aa = FALSE, !.rcode = "ServFail"]
  <2>1. /\ a \in Reply /\ a.rcode = "ServFail" /\ a.answer = r.answer
        /\ a.authority = r.authority /\ a.additional = r.additional
    <3>1. "ServFail" \in Rcodes
      BY DEF Rcodes
    <3> QED
      BY <1>2, <3>1, Headers
  <2>2. Goto("sendit", a)
    BY <1>6
  <2> HIDE DEF a
  <2>3. Distinct(a) /\ a.authority = {}
    BY <1>2, <2>1 DEF Distinct, Plain
  <2>4. Denies(a, target) /\ Says(a, target)
    BY <2>1 DEF Denies, Says
  <2> QED
    BY <1>4, <2>1, <2>2, <2>3, <2>4
<1> QED
  BY <1>5, <1>6 DEF NoAuth

-----------------------------------------------------------------------------
(* The search.                                                               *)

\* Records of one zone are added to the answer while there are only CNAMEs in it.
LEMMA Answering ==
    ASSUME Inv, Looking, NEW z \in Name, NEW n \in Name, n = p.name \/ n = target,
           NEW rrs, rrs \subseteq [type : STRING, to : Name],
           NEW a, a = addRecords(r, "answer", Recs(z, n, rrs))
    PROVE  /\ a \in Reply /\ ReplyType(a) /\ Chain(a) /\ a.rcode = "NoError"
           /\ a.authority = {} /\ a.additional = {}
           /\ \A rr \in rrs : \E x \in a.answer : x.name = n /\ x.type = rr.type /\ x.to = rr.to
           /\ \A x \in a.answer : x \in r.answer \/ \E rr \in rrs : x = Record(z, n, rr)
<1> DEFINE recs == Recs(z, n, rrs)
<1>1. r \in Reply /\ Distinct(r) /\ Chain(r) /\ Plain(r) /\ Linked
  BY NotCachedYet, ReplyTypeFacts, ReplyFacts
     DEF Inv, ReplyOK, Looking, Searching
<1>2. recs \in SUBSET Rec /\ OneOfEach(recs)
  BY RecordFacts
<1>3. /\ a \in Reply /\ a.rcode = r.rcode /\ a.answer = r.answer \cup New(r, recs)
      /\ a.authority = r.authority /\ a.additional = r.additional
  BY <1>1, <1>2, AddFacts
<1>4. ReplyType(a)
  BY <1>1, <1>2, <1>3, StaysDistinct, ReplyTypeFacts
<1>5. a.rcode = "NoError" /\ a.authority = {} /\ a.additional = {}
  BY <1>1, <1>3 DEF Plain
<1>6. New(r, recs) \subseteq recs
  BY DEF New
<1>7. ASSUME NEW rr \in rrs
      PROVE  \E x \in a.answer : x.name = n /\ x.type = rr.type /\ x.to = rr.to
  <2> DEFINE y == Record(z, n, rr)
  <2>1. y \in recs /\ y.name = n /\ y.type = rr.type /\ y.to = rr.to
    BY DEF Record, Recs
  <2> HIDE DEF y, recs
  <2>2. CASE y \in New(r, recs)
    BY <1>3, <2>1, <2>2
  <2>3. CASE y \notin New(r, recs)
    <3>1. PICK x \in r.answer : Same(y, x)
      BY <1>1, <2>1, <2>3 DEF New, Plain
    <3> QED
      BY <1>3, <2>1, <3>1 DEF Same
  <2> QED
    BY <2>2, <2>3
<1>8. \A x \in a.answer : x \in r.answer \/ \E rr \in rrs : x = Record(z, n, rr)
  BY <1>3, <1>6 DEF Recs
<1>9. Chain(a)
  <2>1. \A x \in recs : x.name = n
    BY DEF Record, Recs
  <2>2. n = p.name \/ \E c \in r.answer : c.type = "CNAME" /\ c.to = n
    BY <1>1 DEF Linked
  <2> HIDE DEF recs
  <2> QED
    BY <1>1, <1>3, <1>6, <2>1, <2>2 DEF Chain
<1> QED
  BY <1>3, <1>4, <1>5, <1>7, <1>8, <1>9

\* A zone is found: the question is answered with its SOA record, or looked up there.
LEMMA FindAuthStep ==
    ASSUME Inv, FindAuth
    PROVE  Inv'
<1>1. PICK z \in getAuth(target) :
          /\ sd' = z
          /\ IF p.type = "SOA" /\ z = p.name
                THEN pc' = "sendit" /\ r' = addRecords(r, "answer", SOA(z))
                ELSE pc' = "lookup" /\ r' = r
  BY DEF FindAuth
<1>2. /\ pc = "retargeted" /\ retargetcount <= MaxRetargets
      /\ UNCHANGED world /\ UNCHANGED <<target, retargetcount, cached, failed>>
  BY DEF FindAuth
<1>3. /\ Looking /\ FieldsOK /\ target \in Name /\ target = Path[retargetcount]
      /\ retargetcount \in Nat /\ cached = NoReply /\ r # NoReply /\ Plain(r) /\ Linked
      /\ Chain(r) /\ (NoWildcards => Own(r))
  BY <1>2, RetargetAssumption DEF Inv, TypeOK, FieldsOK, SearchOK, ReplyOK, Looking
<1>4. z \in DOMAIN data /\ z \in Name /\ ZoneOf(target) = z
  BY <1>3, AuthFacts
<1>5. UNCHANGED <<data, source, conf, p>>
  BY <1>2, WorldKept
<1>6. CASE p.type = "SOA" /\ z = p.name
  <2> DEFINE rrs == OfType(At(z, z), "SOA")
             a == addRecords(r, "answer", Recs(z, z, rrs))
  <2>1. r' = a /\ pc' = "sendit"
    BY <1>1, <1>6 DEF SOA, Recs
  <2>2. retargetcount = 0 /\ target = z
    <3>1. retargetcount = 0
      BY <1>3, <1>4, <1>6 DEF Inv, SearchOK
    <3> QED
      BY <1>3, <1>6, <3>1, PathFacts
  <2>3. PICK soa \in At(z, z) : soa.type = "SOA"
    BY <1>3, <1>4, AtFacts
  <2>4. rrs \subseteq At(z, z) /\ rrs \subseteq [type : STRING, to : Name] /\ soa \in rrs
    BY <1>3, <2>3, AtFacts DEF OfType
  <2>5. LeadsTo(target) = {}
    <3>1. OfType(At(z, z), "CNAME") = {}
      BY <1>3, <2>3, AtFacts DEF OfType
    <3> QED
      BY <1>1, <1>3, <2>2, <2>3, <3>1, LeadsFromRecords
  <2> HIDE DEF rrs
  <2>6. /\ a \in Reply /\ ReplyType(a) /\ Chain(a) /\ a.rcode = "NoError"
        /\ a.authority = {}
        /\ \A rr \in rrs : \E x \in a.answer : x.name = z /\ x.type = rr.type /\ x.to = rr.to
        /\ \A x \in a.answer : x \in r.answer \/ \E rr \in rrs : x = Record(z, z, rr)
    BY <1>3, <1>4, <1>6, <2>4, Answering
  <2> HIDE DEF a
  <2>7. Denies(a, target) /\ Says(a, target)
    BY <1>6, <2>3, <2>4, <2>6 DEF Denies, Says
  <2>8. NoWildcards => Own(a)
    <3> SUFFICES ASSUME NEW x \in a.answer, x \notin r.answer
                 PROVE  \E y \in getAuth(x.name) : \E rr \in At(y, x.name) : x = Record(y, x.name, rr)
      BY <1>3 DEF Own
    <3>1. PICK rr \in rrs : x = Record(z, z, rr)
      BY <2>6
    <3>2. x.name = z
      BY <3>1 DEF Record
    <3> QED
      BY <1>1, <2>2, <2>4, <3>1, <3>2
  <2>9. FromZone(a, z)
    BY <1>3, <2>6 DEF Plain, Record, FromZone
  <2> QED
    BY <1>1, <1>2, <1>3, <1>4, <2>1, <2>5, <2>6, <2>7, <2>8, <2>9, SettleStep
<1>7. CASE ~(p.type = "SOA" /\ z = p.name)
  <2>1. pc' = "lookup" /\ r' = r /\ sd' = z
    BY <1>1, <1>7
  <2>2. TypeOK'
    BY <1>2, <1>4, <1>5, <2>1 DEF Inv, TypeOK, ReplyType, Same
  <2>3. FieldsOK'
    BY <1>2, <1>5, <2>1 DEF Inv, FieldsOK
  <2>4. SearchOK'
    <3>1. sd' \in getAuth(target)' /\ target' = Path'[retargetcount']
      BY <1>1, <1>2, <1>3, WorldKept
    <3> QED
      BY <1>2, <1>3, <1>5, <1>7, <2>1, <3>1 DEF Inv, SearchOK, Looking, Searching
  <2>5. ReplyOK'
    <3>1. Plain(r)' /\ Linked'
      BY <1>2, <1>3, <1>5, <2>1 DEF Plain, Linked
    <3> QED
      BY <1>2, <1>3, <2>1, <3>1, SaidKept DEF ReplyOK
  <2>6. FailOK'
    BY <1>2, <2>1 DEF Inv, FailOK
  <2> QED
    BY <2>2, <2>3, <2>4, <2>5, <2>6 DEF Inv
<1> QED
  BY <1>6, <1>7
\* With the auth flags set, records that are not authoritative are below a delegation.
LEMMA UnauthFacts ==
    ASSUME FieldsOK, NEW z, NEW n \in Name
    PROVE  /\ \A rrs : \A unauth \in MaybeUnauth(z, n, rrs) :
                 unauth \subseteq rrs /\ (unauth # {} /\ source # "unset" => Delegated(z, n))
           /\ source = "column" /\ Cuts(z, n) # {} => Delegated(z, n)
<1>1. source \in {"column", "loaded", "unset"}
  BY SourceAssumption DEF FieldsOK
<1>2. \A rrs : \A unauth \in MaybeUnauth(z, n, rrs) : unauth \subseteq rrs
  BY <1>1 DEF MaybeUnauth
<1>3. ASSUME NEW s \in Cuts(z, n), source = "column" \/ (source = "loaded" /\ Len(s) = Len(z) + 1)
      PROVE  Delegated(z, n)
  <2> DEFINE ns == OfType(At(z, s), "NS")
  <2>1. s \in Ancestors(n) /\ Len(s) > Len(z) /\ ns # {}
    BY DEF Cuts
  <2>2. s \in BelowApex(z, n) /\ s \in Ancestors(s)
    BY <2>1, SuffixFacts DEF BelowApex
  <2>3. s \in Cuts(z, s)
    BY <2>1, <2>2 DEF Cuts
  <2>4. {rr \in ns : rr.type # "DS"} = ns
    BY DEF OfType
  <2>5. MaybeUnauth(z, s, ns) = {ns}
    <3>1. CASE source = "column"
      BY <2>3, <2>4, <3>1 DEF MaybeUnauth
    <3>2. CASE source = "loaded" /\ Len(s) = Len(z) + 1
      BY <2>3, <2>4, <3>2 DEF MaybeUnauth, LoadedUnauth
    <3> QED
      BY <1>3, <3>1, <3>2
  <2> QED
    BY <2>1, <2>2, <2>5 DEF Delegated
<1>4. source = "column" /\ Cuts(z, n) # {} => Delegated(z, n)
  BY <1>3
<1>5. ASSUME NEW rrs, NEW unauth \in MaybeUnauth(z, n, rrs), unauth # {}, source # "unset"
      PROVE  Delegated(z, n)
  <2>1. CASE source = "column"
    BY <1>4, <1>5, <2>1 DEF MaybeUnauth
  <2>2. CASE source = "loaded"
    <3>1. LoadedUnauth(z, n)
      BY <1>5, <2>2 DEF MaybeUnauth
    <3> QED
      BY <1>3, <2>2, <3>1 DEF LoadedUnauth
  <2> QED
    BY <1>1, <1>5, <2>1, <2>2
<1> QED
  BY <1>2, <1>4, <1>5

\* getBestReferralNS finds NS records of one zone, and nothing only without a delegation.
LEMMA ReferralFacts ==
    ASSUME FieldsOK, NEW z \in Name, NEW n \in Name, NEW ns \in getBestReferralNS(z, n)
    PROVE  /\ ns \in SUBSET Rec
           /\ \A x \in ns : x.type = "NS" /\ x.zone = z /\ x.name # <<>>
           /\ ns = {} => ~Delegated(z, n)
<1> DEFINE Unauth(s) == MaybeUnauth(z, s, OfType(At(z, s), "NS"))
           Found(s) == {f \in Unauth(s) : f # {}}
           Stop(s) == \A t \in BelowApex(z, n) : Len(t) > Len(s) => {} \in Unauth(t)
<1>1. \/ \E s \in BelowApex(z, n) : \E f \in Found(s) : ns = {Record(z, s, rr) : rr \in f}
      \/ ns = {} /\ \A s \in BelowApex(z, n) : {} \in Unauth(s)
  BY DEF getBestReferralNS
<1>2. ASSUME NEW s \in BelowApex(z, n), NEW f \in Found(s), ns = {Record(z, s, rr) : rr \in f}
      PROVE  /\ ns \in SUBSET Rec /\ ns # {}
             /\ \A x \in ns : x.type = "NS" /\ x.zone = z /\ x.name # <<>>
  <2>1. s \in Name
    BY SuffixFacts DEF BelowApex
  <2>7. s # <<>>
    <3>1. s \in Name /\ Len(s) > Len(z) /\ Len(z) \in Nat
      BY SuffixFacts DEF BelowApex, Name
    <3> QED
      BY <3>1
  <2>2. f \subseteq OfType(At(z, s), "NS") /\ f # {}
    BY <2>1, UnauthFacts
  <2>3. f \subseteq [type : STRING, to : Name] /\ \A rr \in f : rr.type = "NS"
    BY <2>2, AtFacts DEF OfType
  <2>4. ns \in SUBSET Rec
    <3>1. ns = Recs(z, s, f)
      BY <1>2 DEF Recs
    <3>2. Recs(z, s, f) \in SUBSET Rec
      BY <2>1, <2>3, RecordFacts
    <3> QED
      BY <3>1, <3>2
  <2>5. \A rr \in f : /\ Record(z, s, rr).type = rr.type /\ Record(z, s, rr).zone = z
                       /\ Record(z, s, rr).name = s
    BY DEF Record
  <2>6. ns # {} /\ \A x \in ns : x.type = "NS" /\ x.zone = z /\ x.name # <<>>
    BY <1>2, <2>7, <2>2, <2>3, <2>5
  <2> QED
    BY <2>4, <2>6
<1> QED
  BY <1>1, <1>2 DEF Delegated

\* Records of one zone are no doubles.
LEMMA OneZoneOneEach ==
    ASSUME NEW z, NEW recs \in SUBSET Rec, \A x \in recs : x.zone = z
    PROVE  OneOfEach(recs)
<1> SUFFICES ASSUME NEW x \in recs, NEW y \in recs, Same(x, y) PROVE x = y
  BY DEF OneOfEach
<1>1. x \in Rec /\ y \in Rec /\ x.zone = y.zone /\ x.name = y.name /\ x.type = y.type /\ x.to = y.to
  BY DEF Same
<1> QED
  BY <1>1 DEF Rec

\* Records that are no CNAMEs are added to the authority section of a plain reply.
LEMMA Authorising ==
    ASSUME NEW a \in Reply, Distinct(a), Plain(a), NEW recs \in SUBSET Rec,
           \A x \in recs : x.type # "CNAME" /\ x.zone = sd,
           NEW b, b = addRecords(a, "authority", recs)
    PROVE  /\ b \in Reply /\ Distinct(b) /\ b.rcode = "NoError" /\ b.aa = a.aa
           /\ b.answer = a.answer /\ b.authority = recs /\ b.additional = {}
<1>1. OneOfEach(recs)
  BY OneZoneOneEach
<1>2. New(a, recs) = recs
  BY DEF New, Plain, Same
<1>3. Distinct(b)
  BY <1>1, StaysDistinct
<1>4. /\ b \in Reply /\ b.rcode = a.rcode /\ b.aa = a.aa
      /\ b.authority = a.authority \cup New(a, recs)
      /\ b.answer = a.answer /\ b.additional = a.additional
  BY AddFacts
<1> QED
  BY <1>2, <1>3, <1>4 DEF Plain

\* What the handler knows when it searches a zone.
LEMMA SearchingFacts ==
    ASSUME Inv, Searching
    PROVE  /\ FieldsOK /\ target \in Name /\ p.name \in Name /\ sd \in Name
           /\ sd \in getAuth(target) /\ ZoneOf(target) = sd /\ sd \in DOMAIN data
           /\ retargetcount \in 0..MaxRetargets /\ target = Path[retargetcount]
           /\ Looking /\ pc # "asked" /\ pc # "done"
           /\ r \in Reply /\ ReplyType(r) /\ Distinct(r) /\ Chain(r) /\ Plain(r)
           /\ NoWildcards => Own(r)
<1>1. Looking /\ pc # "asked" /\ pc # "done"
  BY DEF Looking, Searching
<1>2. FieldsOK /\ target \in Name /\ p.name \in Name
  BY QuestionAssumption DEF Inv, FieldsOK
<1>3. sd \in getAuth(target) /\ retargetcount \in 0..MaxRetargets /\ target = Path[retargetcount]
  BY <1>1, RetargetAssumption DEF Inv, SearchOK, TypeOK
<1>4. r \in Reply /\ ReplyType(r)
  BY <1>1, NotCachedYet
<1>5. Chain(r) /\ Plain(r) /\ (NoWildcards => Own(r))
  BY <1>1, <1>4, ReplyFacts DEF Inv, ReplyOK
<1> QED
  BY <1>1, <1>2, <1>3, <1>4, <1>5, AuthFacts, ReplyTypeFacts

\* The SOA record of the zone that is searched.
LEMMA SOAFacts ==
    ASSUME FieldsOK, NEW z \in DOMAIN data
    PROVE  SOA(z) \in SUBSET Rec /\ SOA(z) # {} /\ \A x \in SOA(z) : x.type = "SOA" /\ x.zone = z
<1>1. z \in Name /\ At(z, z) \subseteq [type : STRING, to : Name]
  BY AtFacts
<1>2. PICK soa \in At(z, z) : soa.type = "SOA"
  BY AtFacts
<1> DEFINE rrs == OfType(At(z, z), "SOA")
<1>3. rrs \subseteq [type : STRING, to : Name] /\ soa \in rrs /\ \A rr \in rrs : rr.type = "SOA"
  BY <1>1, <1>2 DEF OfType
<1>4. SOA(z) = Recs(z, z, rrs)
  BY DEF SOA, Recs
<1> HIDE DEF rrs
<1>5. Recs(z, z, rrs) \in SUBSET Rec
  BY <1>1, <1>3, RecordFacts
<1>6. \A rr \in rrs : Record(z, z, rr).type = rr.type /\ Record(z, z, rr).zone = z
  BY DEF Record
<1>7. Recs(z, z, rrs) # {} /\ \A x \in Recs(z, z, rrs) : x.type = "SOA" /\ x.zone = z
  BY <1>3, <1>6 DEF Recs
<1> QED
  BY <1>4, <1>5, <1>7

\* Records of the zone at the target answer the question.
LEMMA OwnFacts ==
    ASSUME Inv, Searching, NEW rrs, rrs \subseteq At(sd, target),
           NEW a, \A x \in a.answer : x \in r.answer \/ \E rr \in rrs : x = Record(sd, target, rr)
    PROVE  NoWildcards => Own(a)
<1>1. sd \in getAuth(target) /\ (NoWildcards => Own(r))
  BY SearchingFacts
<1> SUFFICES ASSUME NoWildcards, NEW x \in a.answer, x \notin r.answer
             PROVE  \E y \in getAuth(x.name) : \E rr \in At(y, x.name) : x = Record(y, x.name, rr)
  BY <1>1 DEF Own
<1>2. PICK rr \in rrs : x = Record(sd, target, rr)
  OBVIOUS
<1>3. x.name = target
  BY <1>2 DEF Record
<1> QED
  BY <1>1, <1>2, <1>3
\* The records at the target: none, a CNAME to follow, an answer, a delegation or another type.
LEMMA LookupStep ==
    ASSUME Inv, LookupANY
    PROVE  Inv'
<1> DEFINE rrset == At(sd, target)
           cnames == IF p.type = "CNAME" THEN {} ELSE OfType(rrset, "CNAME")
<1>1. pc = "lookup" /\ Searching
  BY DEF LookupANY, Searching
<1>2. /\ FieldsOK /\ target \in Name /\ p.name \in Name /\ sd \in Name
      /\ sd \in getAuth(target) /\ ZoneOf(target) = sd /\ sd \in DOMAIN data
      /\ retargetcount \in 0..MaxRetargets /\ target = Path[retargetcount] /\ Looking
      /\ r \in Reply /\ ReplyType(r) /\ Distinct(r) /\ Chain(r) /\ Plain(r)
      /\ NoWildcards => Own(r)
  BY <1>1, SearchingFacts
<1>3. /\ rrset \subseteq [type : STRING, to : Name]
      /\ \A rr, other \in rrset : rr.type = "CNAME" => other = rr
  BY <1>2, AtFacts
<1>4. CASE rrset = {} /\ Goto("wildcard", r)
  BY <1>1, <1>4, SearchStep
<1>5. ASSUME NEW rr \in cnames,
             Retarget(rr.to, addRecords(r, "answer", {Record(sd, target, rr)}))
      PROVE  Inv'
  <2> DEFINE a == addRecords(r, "answer", Recs(sd, target, {rr}))
  <2>1. Retarget(rr.to, a)
    <3>1. Recs(sd, target, {rr}) = {Record(sd, target, rr)}
      BY DEF Recs
    <3> QED
      BY <1>5, <3>1
  <2>2. rr \in rrset /\ rr.type = "CNAME" /\ rr.to \in Name /\ {rr} \subseteq [type : STRING, to : Name]
    BY <1>3 DEF OfType
  <2>3. cnames = {rr}
    BY <1>3, <2>2 DEF OfType
  <2>4. LeadsTo(target) = {rr.to}
    BY <1>2, <2>2, <2>3, LeadsFromRecords
  <2>5. /\ a \in Reply /\ ReplyType(a) /\ Chain(a) /\ a.rcode = "NoError"
        /\ a.authority = {} /\ a.additional = {}
        /\ \A q \in {rr} : \E x \in a.answer : x.name = target /\ x.type = q.type /\ x.to = q.to
        /\ \A x \in a.answer : x \in r.answer \/ \E q \in {rr} : x = Record(sd, target, q)
    BY <1>2, <2>2, Answering
  <2> HIDE DEF a
  <2>6. Plain(a)
    BY <1>2, <2>2, <2>5 DEF Plain, Record
  <2>7. NoWildcards => Own(a)
    BY <1>1, <2>2, <2>5, OwnFacts
  <2>8. \E c \in a.answer : c.type = "CNAME" /\ c.to = rr.to
    BY <2>2, <2>5
  <2> QED
    BY <1>1, <2>1, <2>2, <2>4, <2>5, <2>6, <2>7, <2>8, RetargetStep
<1>6. ASSUME rrset # {}, cnames = {}, NEW unauth \in MaybeUnauth(sd, target, rrset),
             LET wanted == Wanted(rrset, unauth)
             IN  IF wanted # {}
                   THEN Goto("sendit", addRecords(r, "answer",
                                         {Record(sd, target, rr) : rr \in wanted}))
                 ELSE IF HaveUnauth(unauth) THEN Goto("refer", r)
                 ELSE Goto("sendit", addRecords(r, "authority", SOA(sd)))
      PROVE  Inv'
  <2> DEFINE wanted == Wanted(rrset, unauth)
  <2>1. LeadsTo(target) = {}
    BY <1>2, <1>6, LeadsFromRecords
  <2>2. CASE wanted # {}
    <3> DEFINE a == addRecords(r, "answer", Recs(sd, target, wanted))
    <3>1. Goto("sendit", a)
      BY <1>6, <2>2 DEF Recs
    <3>2. /\ wanted \subseteq rrset /\ wanted \subseteq [type : STRING, to : Name]
          /\ \A rr \in wanted : p.type \in {"ANY", rr.type}
      BY <1>3 DEF Wanted
    <3> HIDE DEF wanted
    <3>3. /\ a \in Reply /\ ReplyType(a) /\ Chain(a) /\ a.rcode = "NoError"
          /\ a.authority = {} /\ a.additional = {}
          /\ \A q \in wanted : \E x \in a.answer : x.name = target /\ x.type = q.type /\ x.to = q.to
          /\ \A x \in a.answer : x \in r.answer \/ \E q \in wanted : x = Record(sd, target, q)
      BY <1>2, <3>2, Answering
    <3> HIDE DEF a
    <3>4. NoWildcards => Own(a)
      BY <1>1, <3>2, <3>3, OwnFacts
    <3>5. Denies(a, target) /\ Says(a, target)
      BY <2>2, <3>2, <3>3 DEF Denies, Says
    <3>6. FromZone(a, sd)
      BY <1>2, <3>3 DEF Plain, Record, FromZone
    <3> QED
      BY <1>2, <2>1, <3>1, <3>3, <3>4, <3>5, <3>6, SettleStep DEF Goto
  <2>3. CASE wanted = {} /\ HaveUnauth(unauth)
    <3>1. Goto("refer", r)
      BY <1>6, <2>3
    <3>2. unauth # {}
      BY <2>3 DEF HaveUnauth
    <3>3. source # "unset" => Delegated(sd, target)
      BY <1>2, <3>2, UnauthFacts
    <3> QED
      BY <1>1, <1>6, <2>1, <3>1, <3>3, SearchStep
  <2>4. CASE wanted = {} /\ ~HaveUnauth(unauth)
    <3> DEFINE a == addRecords(r, "authority", SOA(sd))
    <3>1. Goto("sendit", a)
      BY <1>6, <2>4
    <3>2. /\ SOA(sd) \in SUBSET Rec /\ SOA(sd) # {}
          /\ \A x \in SOA(sd) : x.type = "SOA" /\ x.zone = sd
      BY <1>2, SOAFacts
    <3>3. /\ a \in Reply /\ Distinct(a) /\ a.rcode = "NoError"
          /\ a.answer = r.answer /\ a.authority = SOA(sd)
      BY <1>2, <3>2, Authorising
    <3> HIDE DEF a
    <3>4. ReplyType(a) /\ Chain(a) /\ (NoWildcards => Own(a))
      BY <1>2, <3>3, ReplyTypeFacts DEF Chain, Own
    <3>5. Denies(a, target) /\ Says(a, target)
      BY <1>2, <3>2, <3>3 DEF Denies, Says
    <3>6. FromZone(a, sd)
      BY <1>2, <3>2, <3>3 DEF Plain, FromZone
    <3> QED
      BY <1>2, <2>1, <3>1, <3>3, <3>4, <3>5, <3>6, SettleStep DEF Goto
  <2> QED
    BY <2>2, <2>3, <2>4
<1> QED
  BY <1>4, <1>5, <1>6 DEF LookupANY
\* Nothing is at the target: a wildcard answers, leads on, or does not exist.
LEMMA WildcardStep ==
    ASSUME Inv, TryWildcard
    PROVE  Inv'
<1> DEFINE found == getBestWildcard(sd, target, p.type)
           a == addRecords(r, "answer", Recs(sd, p.name, found))
<1>1. pc = "wildcard" /\ Searching
  BY DEF TryWildcard, Searching
<1>2. /\ FieldsOK /\ target \in Name /\ p.name \in Name /\ sd \in Name
      /\ sd \in getAuth(target) /\ ZoneOf(target) = sd /\ sd \in DOMAIN data
      /\ retargetcount \in 0..MaxRetargets /\ target = Path[retargetcount] /\ Looking
      /\ r \in Reply /\ ReplyType(r) /\ Distinct(r) /\ Chain(r) /\ Plain(r)
  BY <1>1, SearchingFacts
<1>3. At(sd, target) = {}
  BY <1>1 DEF Inv, SearchOK
<1>4. ~NoWildcards
  BY <1>2, <1>3 DEF NoWildcards
<1>5. \/ found = {} /\ Goto("refer", r)
      \/ \E rr \in OfType(found, "CNAME") : Retarget(rr.to, a)
      \/ found # {} /\ OfType(found, "CNAME") = {} /\ Goto("sendit", a)
  BY <1>1 DEF TryWildcard, Recs
<1> HIDE DEF found
<1>6. /\ LeadsTo(target) = {rr.to : rr \in OfType(found, "CNAME")}
      /\ found = {} => Covering(target) = {}
      /\ found \subseteq [type : STRING, to : Name]
      /\ \A rr \in found : rr.type \in {p.type, "CNAME"}
      /\ \A rr, other \in found : rr.type = "CNAME" => other = rr
  BY <1>2, <1>3, LeadsFromWildcard DEF found
<1>7. /\ a \in Reply /\ ReplyType(a) /\ Chain(a) /\ a.rcode = "NoError"
      /\ a.authority = {} /\ a.additional = {}
      /\ \A q \in found : \E x \in a.answer : x.name = p.name /\ x.type = q.type /\ x.to = q.to
      /\ \A x \in a.answer : x \in r.answer \/ \E q \in found : x = Record(sd, p.name, q)
  BY <1>2, <1>6, Answering
<1> HIDE DEF a
<1>8. CASE found = {} /\ Goto("refer", r)
  <2>1. LeadsTo(target) = {} /\ Covering(target) = {}
    BY <1>6, <1>8 DEF OfType
  <2> QED
    BY <1>1, <1>3, <1>8, <2>1, SearchStep
<1>9. ASSUME NEW rr \in OfType(found, "CNAME"), Retarget(rr.to, a) PROVE Inv'
  <2>1. rr \in found /\ rr.type = "CNAME" /\ rr.to \in Name /\ \A q \in found : q = rr
    BY <1>6 DEF OfType
  <2>2. OfType(found, "CNAME") = {rr}
    BY <2>1 DEF OfType
  <2>3. LeadsTo(target) = {rr.to}
    BY <1>6, <2>2
  <2>4. Plain(a)
    BY <1>2, <1>7, <2>1 DEF Plain, Record
  <2>5. \E c \in a.answer : c.type = "CNAME" /\ c.to = rr.to
    BY <1>7, <2>1
  <2> QED
    BY <1>1, <1>4, <1>7, <1>9, <2>1, <2>3, <2>4, <2>5, RetargetStep
<1>10. CASE found # {} /\ OfType(found, "CNAME") = {} /\ Goto("sendit", a)
  <2>1. LeadsTo(target) = {}
    BY <1>6, <1>10
  <2>2. \A rr \in found : rr.type = p.type
    BY <1>6, <1>10 DEF OfType
  <2>3. Denies(a, target) /\ Says(a, target)
    BY <1>7, <1>10, <2>2 DEF Denies, Says
  <2>4. FromZone(a, sd)
    BY <1>2, <1>7 DEF Plain, Record, FromZone
  <2> QED
    BY <1>2, <1>4, <1>7, <1>10, <2>1, <2>3, <2>4, SettleStep DEF Goto
<1> QED
  BY <1>5, <1>8, <1>9, <1>10

\* A referral, NXDOMAIN, or the place where the handler should not get.
LEMMA ReferralStep ==
    ASSUME Inv, TryReferral
    PROVE  Inv'
<1>1. pc = "refer" /\ Searching
  BY DEF TryReferral, Searching
<1>2. /\ FieldsOK /\ target \in Name /\ p.name \in Name /\ sd \in Name
      /\ sd \in getAuth(target) /\ ZoneOf(target) = sd /\ sd \in DOMAIN data
      /\ retargetcount \in 0..MaxRetargets /\ target = Path[retargetcount] /\ Looking
      /\ r \in Reply /\ ReplyType(r) /\ Distinct(r) /\ Chain(r) /\ Plain(r)
      /\ NoWildcards => Own(r)
  BY <1>1, SearchingFacts
<1>3. /\ LeadsTo(target) = {} /\ (At(sd, target) = {} => Covering(target) = {})
      /\ At(sd, target) # {} /\ source # "unset" => Delegated(sd, target)
  BY <1>1 DEF Inv, SearchOK
<1>4. ASSUME NEW a \in Reply, Goto("sendit", a), a.answer = r.answer, Distinct(a),
             \A x \in a.authority : x.type # "CNAME" => x.zone = sd,
             Denies(a, target), Says(a, target)
      PROVE  Inv'
  <2>1. ReplyType(a) /\ Chain(a) /\ (NoWildcards => Own(a))
    BY <1>2, <1>4, ReplyTypeFacts DEF Chain, Own
  <2>2. FromZone(a, sd)
    BY <1>2, <1>4 DEF Plain, FromZone
  <2> QED
    BY <1>2, <1>3, <1>4, <2>1, <2>2, SettleStep DEF Goto
<1>5. ASSUME NEW ns \in getBestReferralNS(sd, target), ns # {},
             Goto("sendit", addRecords(addRecords([r EXCEPT !.aa = FALSE], "authority", ns),
                                       "authority", addDSforNS(ns)))
      PROVE  Inv'
  <2> DEFINE b == [r EXCEPT !.aa = FALSE]
             c == addRecords(b, "authority", ns)
             a == addRecords(c, "authority", addDSforNS(ns))
  <2>1. Goto("sendit", a)
    BY <1>5
  <2>2. /\ ns \in SUBSET Rec
        /\ \A x \in ns : x.type = "NS" /\ x.zone = sd /\ x.name # <<>>
    BY <1>2, ReferralFacts
  <2>3. addDSforNS(ns) \in SUBSET Rec /\ \A x \in addDSforNS(ns) : x.zone = sd
    <3> SUFFICES ASSUME NEW y \in ns, NEW rr \in OfType(At(sd, y.name), "DS")
                 PROVE  Record(sd, y.name, rr) \in Rec /\ Record(sd, y.name, rr).zone = sd
      BY DEF addDSforNS
    <3>1. y.name \in Name /\ rr \in [type : STRING, to : Name]
      BY <1>2, <2>2, AtFacts DEF Rec, OfType
    <3> QED
      BY <1>2, <3>1 DEF Record, Rec, Types
  <2>4. /\ b \in Reply /\ b.rcode = r.rcode /\ b.aa = FALSE /\ b.answer = r.answer
        /\ b.authority = r.authority /\ b.additional = r.additional
    <3>1. r.rcode \in Rcodes
      BY <1>2 DEF Reply
    <3> QED
      BY <1>2, <3>1, Headers
  <2> HIDE DEF b
  <2>5. Distinct(b) /\ Plain(b)
    BY <1>2, <2>4 DEF Distinct, Plain
  <2>6. /\ c \in Reply /\ Distinct(c) /\ c.rcode = "NoError" /\ c.aa = FALSE
        /\ c.answer = r.answer /\ c.authority = ns
    BY <2>2, <2>4, <2>5, Authorising
  <2> HIDE DEF c
  <2>7. Distinct(a)
    BY <2>3, <2>6, OneZoneOneEach, StaysDistinct
  <2>8. /\ a \in Reply /\ a.rcode = "NoError" /\ a.aa = FALSE /\ a.answer = r.answer
        /\ a.authority = ns \cup New(c, addDSforNS(ns))
    BY <2>3, <2>6, AddFacts
  <2> HIDE DEF a
  <2>9. \A x \in a.authority : x.zone = sd
    BY <2>2, <2>3, <2>8 DEF New
  <2>10. Denies(a, target) /\ Says(a, target)
    BY <1>5, <2>2, <2>8 DEF Denies, Says
  <2> QED
    BY <1>4, <2>1, <2>7, <2>8, <2>9, <2>10
<1>6. ASSUME NEW ns \in getBestReferralNS(sd, target), ns = {},
             Goto("sendit", IF At(sd, target) = {} THEN makeNXDomain(r) ELSE r)
      PROVE  Inv'
  <2>1. ~Delegated(sd, target)
    BY <1>2, <1>6, ReferralFacts
  <2>2. CASE At(sd, target) # {}
    <3>1. Denies(r, target) /\ Says(r, target)
      BY <1>2, <1>3, <2>1, <2>2 DEF Denies, Says, Plain
    <3>2. \A x \in r.authority : x.zone = sd
      BY <1>2 DEF Plain
    <3> QED
      BY <1>2, <1>4, <1>6, <2>2, <3>1, <3>2
  <2>3. CASE At(sd, target) = {}
    <3> DEFINE b == addRecords(r, "authority", SOA(sd))
               a == [b EXCEPT !.rcode = "NXDomain"]
    <3>1. Goto("sendit", a)
      BY <1>6, <2>3 DEF makeNXDomain
    <3>2. SOA(sd) \in SUBSET Rec /\ \A x \in SOA(sd) : x.type = "SOA" /\ x.zone = sd
      BY <1>2, SOAFacts
    <3>3. b \in Reply /\ Distinct(b) /\ b.answer = r.answer /\ b.authority = SOA(sd)
      BY <1>2, <3>2, Authorising
    <3> HIDE DEF b
    <3>4. /\ a \in Reply /\ a.rcode = "NXDomain" /\ a.answer = r.answer
          /\ a.authority = SOA(sd) /\ a.additional = b.additional
      <4>1. "NXDomain" \in Rcodes
        BY DEF Rcodes
      <4> QED
        BY <3>3, <4>1, Headers
    <3> HIDE DEF a
    <3>5. Distinct(a)
      BY <3>3, <3>4 DEF Distinct
    <3>6. source = "column" => Cuts(sd, target) = {}
      BY <1>2, <2>1, UnauthFacts
    <3>7. Denies(a, target) /\ Says(a, target)
      BY <1>2, <1>3, <2>3, <3>4, <3>6 DEF Denies, Says
    <3> QED
      BY <1>4, <3>1, <3>2, <3>4, <3>5, <3>7
  <2> QED
    BY <2>2, <2>3
<1> QED
  BY <1>5, <1>6 DEF TryReferral

\* The reply gets its additional section and goes to the cache.
LEMMA SendStep ==
    ASSUME Inv, Send
    PROVE  Inv'
<1> DEFINE nss == {x \in r.answer \cup r.authority : x.type = "NS"}
           glue == UNION {{Record(x.zone, x.to, rr) : rr \in Addresses(x.zone, x.to)} : x \in nss}
           b == addRecords(r, "additional", glue)
           ours == \A x \in nss : x.name = <<>> \/ x.name \in DOMAIN data
           a == [b EXCEPT !.aa = b.aa /\ ours]
<1>1. /\ pc = "sendit" /\ pc' = "done" /\ r' = a /\ cached' = a
      /\ UNCHANGED world /\ UNCHANGED <<target, retargetcount, sd, failed>>
  BY DEF Send, Additional
<1>2. /\ FieldsOK /\ r \in Reply /\ Distinct(r) /\ OneZone(r) /\ Settled(r)
      /\ Chain(r) /\ (NoWildcards => Own(r))
  BY <1>1, NotCachedYet, ReplyTypeFacts, ReplyFacts DEF Inv, ReplyOK
<1>3. PICK z : FromZone(r, z)
  BY <1>2 DEF OneZone
<1>18. nss \subseteq Rec /\ \A x \in nss : x.zone = z
  BY <1>2, <1>3 DEF Reply, FromZone
<1> HIDE DEF nss
<1>4. glue \in SUBSET Rec /\ \A x \in glue : x.zone = z
  <2> SUFFICES ASSUME NEW x \in nss, NEW rr \in Addresses(x.zone, x.to)
               PROVE  /\ Record(x.zone, x.to, rr) \in Rec
                      /\ Record(x.zone, x.to, rr).zone = z
    OBVIOUS
  <2>1. x.zone \in Name /\ x.to \in Name /\ x.zone = z
    BY <1>18 DEF Rec
  <2>2. PICK y : rr \in OfType(Anywhere(y, x.to), "A")
    BY DEF Addresses
  <2>3. rr \in [type : STRING, to : Name]
    BY <1>2, <2>2, AtFacts DEF OfType, Anywhere
  <2> QED
    BY <2>1, <2>3 DEF Record, Rec, Types
<1> HIDE DEF glue
<1>5. Distinct(b)
  BY <1>2, <1>4, OneZoneOneEach, StaysDistinct
<1>6. /\ b \in Reply /\ b.rcode = r.rcode /\ b.aa = r.aa
      /\ b.answer = r.answer /\ b.authority = r.authority
  BY <1>2, <1>4, AddFacts
<1> HIDE DEF b, ours
<1>7. /\ a \in Reply /\ a.rcode = b.rcode /\ a.answer = b.answer
      /\ a.authority = b.authority /\ a.additional = b.additional /\ a.aa = (b.aa /\ ours)
  BY <1>6 DEF Reply
<1> HIDE DEF a
<1>8. ReplyType(a) /\ a # NoReply
  BY <1>5, <1>7, ReplyTypeFacts, ReplyFacts DEF Distinct
<1>9. Chain(a) /\ (NoWildcards => Own(a))
  BY <1>2, <1>6, <1>7 DEF Chain, Own
<1>10. Settled(a)
  <2>1. ~r.aa => ~a.aa
    BY <1>6, <1>7, Zenon
  <2>2. Denies(a, target)
    BY <1>2, <1>6, <1>7 DEF Settled, Denies
  <2>3. Says(a, target)
    BY <1>2, <1>6, <1>7, <2>1 DEF Settled, Says
  <2> QED
    BY <1>2, <2>2, <2>3 DEF Settled
<1>11. UNCHANGED <<data, source, conf, p>>
  BY <1>1, WorldKept
<1>12. TypeOK'
  BY <1>1, <1>8, <1>11 DEF Inv, TypeOK, ReplyType, Same
<1>13. FieldsOK'
  BY <1>1, <1>7, <1>11 DEF Inv, FieldsOK
<1>14. SearchOK'
  BY <1>1, <1>11 DEF Inv, SearchOK, Looking, Searching
<1>15. Settled(cached)'
  BY <1>1, <1>10, WorldKept, SaidKept DEF Settled
<1>16. ReplyOK'
  BY <1>1, <1>8, <1>9, <1>15, SaidKept DEF ReplyOK, Looking, Searching
<1>17. FailOK'
  BY <1>1, <1>8 DEF Inv, FailOK
<1> QED
  BY <1>12, <1>13, <1>14, <1>16, <1>17 DEF Inv

-----------------------------------------------------------------------------
(* The results.                                                              *)

\* Before the question is looked at there is no reply.
LEMMA InitInv == Init => Inv
<1> SUFFICES ASSUME Init PROVE Inv
  OBVIOUS
<1>1. TypeOK
  <2>1. failed \in BOOLEAN
    BY Zenon DEF Init
  <2>2. /\ pc = "asked" /\ retargetcount \in 0..(MaxRetargets + 1) /\ sd = <<>>
        /\ r = NoReply /\ cached = NoReply
    BY RetargetAssumption DEF Init
  <2> QED
    BY <2>1, <2>2 DEF TypeOK, ReplyType
<1>2. FieldsOK
  <2>1. <<>> \in Name
    BY DEF Name
  <2> QED
    BY <2>1 DEF Init, FieldsOK
<1>3. SearchOK /\ ReplyOK /\ FailOK
  BY DEF Init, SearchOK, ReplyOK, FailOK, Looking, Searching
<1> QED
  BY <1>1, <1>2, <1>3 DEF Inv

\* The invariant holds whatever the zones hold and whichever lookup fails.
THEOREM Invariant == Spec => []Inv
<1>1. Init => Inv
  BY InitInv
<1>2. Inv /\ [Next]_vars => Inv'
  <2> SUFFICES ASSUME Inv, [Next]_vars PROVE Inv'
    OBVIOUS
  <2>1. CASE TurnAway
    BY <2>1, TurnAwayStep
  <2>2. CASE Start
    BY <2>2, StartStep
  <2>3. CASE TooManyRetargets \/ BackendFails \/ AnswerFails
    BY <2>3, FailStep
  <2>4. CASE NoAuth
    BY <2>4, NoAuthStep
  <2>5. CASE FindAuth
    BY <2>5, FindAuthStep
  <2>6. CASE LookupANY
    BY <2>6, LookupStep
  <2>7. CASE TryWildcard
    BY <2>7, WildcardStep
  <2>8. CASE TryReferral
    BY <2>8, ReferralStep
  <2>9. CASE Send
    BY <2>9, SendStep
  <2>10. CASE UNCHANGED vars
    <3>1. UNCHANGED world /\ UNCHANGED <<pc, target, retargetcount, sd, r, cached, failed>>
      BY <2>10 DEF vars, world
    <3>2. UNCHANGED <<data, source, conf, p>>
      BY <3>1, WorldKept
    <3>3. TypeOK' /\ FieldsOK'
      BY <3>1, <3>2 DEF Inv, TypeOK, ReplyType, Same, FieldsOK
    <3>4. SearchOK'
      BY <3>1, <3>2, WorldKept DEF Inv, SearchOK, Looking, Searching
    <3>5. ReplyOK'
      BY <3>1, <3>2, WorldKept, SaidKept
         DEF Inv, ReplyOK, Looking, Searching, Plain, Linked, OneZone, FromZone, Settled
    <3>6. FailOK'
      BY <3>1, <3>2 DEF Inv, FailOK, Looked
    <3> QED
      BY <3>3, <3>4, <3>5, <3>6 DEF Inv
  <2> QED
    BY <2>1, <2>2, <2>3, <2>4, <2>5, <2>6, <2>7, <2>8, <2>9, <2>10 DEF Next
<1> QED
  BY <1>1, <1>2, PTL DEF Spec

\* A reply never holds a record twice, in one section or in two (addRecord), and the
\* handler gives up after MaxRetargets CNAMEs.
THEOREM TypeCorrect == Spec => []TypeOK
BY Invariant, PTL DEF Inv

\* What the cache holds is about the name the CNAMEs end at.
LEMMA AnsweredAtEnd ==
    ASSUME Inv, Answered
    PROVE  target = End /\ LeadsTo(End) = {} /\ Denies(cached, End) /\ Says(cached, End)
<1>1. FieldsOK /\ Settled(cached)
  BY DEF Inv, ReplyOK, Answered
<1>2. retargetcount \in 0..MaxRetargets
  BY <1>1, RetargetAssumption DEF Inv, TypeOK, Settled
<1>3. target = End
  BY <1>1, <1>2, PathStays DEF Settled
<1> QED
  BY <1>1, <1>3 DEF Settled

\* A question whose CNAMEs do not end within the limit (retargetcount) gets SERVFAIL and is
\* not cached; nor is one of whose lookups one has failed; the others are answered for the
\* name they end at.
THEOREM LoopsAreBrokenOff == Spec => []LoopsBrokenOff
<1>1. Inv => LoopsBrokenOff
  BY AnsweredAtEnd DEF LoopsBrokenOff, Ends, Answered, Inv, FailOK, Looked
<1> QED
  BY <1>1, Invariant, PTL

\* NXDOMAIN is only said of a name without records, wildcard and delegation, and carries the
\* SOA record of its zone (makeNXDomain).
THEOREM NXDomainIsRight == Spec => []NXDomainRight
<1>1. Inv => NXDomainRight
  BY AnsweredAtEnd DEF NXDomainRight, Denies
<1> QED
  BY <1>1, Invariant, PTL

\* With the auth flags set, a NOERROR reply answers, denies the type or refers: the handler
\* does not get where it "should not get" (packethandler.cc:1264-1268).
THEOREM NeverLame == Spec => []NotLame
<1>1. Inv => NotLame
  BY AnsweredAtEnd DEF NotLame, Says
<1> QED
  BY <1>1, Invariant, PTL

\* The answer section is one chain of CNAMEs from the question to the target, and without
\* wildcards a name with a CNAME owns nothing else.
THEOREM ChainIsUnbroken == Spec => []ChainUnbroken
<1>1. Inv => ChainUnbroken
  <2> SUFFICES ASSUME Inv, r # NoReply PROVE ChainUnbroken
    BY DEF ChainUnbroken
  <2>1. FieldsOK /\ r \in Reply /\ Chain(r) /\ (NoWildcards => Own(r))
    BY DEF Inv, FieldsOK, ReplyOK
  <2>2. ASSUME NoWildcards, NEW a \in r.answer, NEW c \in r.answer,
               c.type = "CNAME", a.name = c.name
        PROVE  a = c
    <3>1. PICK y \in getAuth(a.name) : \E rr \in At(y, a.name) : a = Record(y, a.name, rr)
      BY <2>1, <2>2 DEF Own
    <3>2. PICK z \in getAuth(c.name) : \E rr \in At(z, c.name) : c = Record(z, c.name, rr)
      BY <2>1, <2>2 DEF Own
    <3>3. PICK ra \in At(y, a.name) : a = Record(y, a.name, ra)
      BY <3>1
    <3>4. PICK rc \in At(z, c.name) : c = Record(z, c.name, rc)
      BY <3>2
    <3>5. a.name \in Name
      BY <2>1 DEF Reply, Rec
    <3>6. y = z
      BY <2>2, <3>5, AuthFacts
    <3>7. rc.type = "CNAME"
      BY <2>2, <3>4 DEF Record
    <3>8. ra = rc
      BY <2>1, <2>2, <3>6, <3>7, AtFacts
    <3> QED
      BY <2>2, <3>3, <3>4, <3>6, <3>8
  <2> QED
    BY <2>1, <2>2 DEF ChainUnbroken, Chain, NoWildcards
<1> QED
  BY <1>1, Invariant, PTL

-----------------------------------------------------------------------------
(***************************************************************************)
(* The cache in front of the handler.                                       *)
(***************************************************************************)
Lived(ttl) == IF ttl = 0 THEN 0 ELSE ttl - 1

\* How far what a handler got from the caches or the backend may lag behind.
HandlerLag == MaxBusy + Lived(QueryTTL)

\* An entry that is still returned has aged since it was inserted no more than its time to
\* live has run down, and lagged behind when it was inserted no more than its handler did.
EntryOK(e) ==
    /\ e.ctype = "QUERY" =>
           /\ e.left <= QueryTTL
           /\ e.left > 0 => superseded[e.value] <= MaxBusy + QueryTTL - e.left
    /\ e.ctype = "PACKET" =>
           /\ e.left <= PacketTTL
           /\ e.left > 0 => superseded[e.value] <= HandlerLag + MaxBusy + PacketTTL - e.left

\* What a handler has read was current when it began, or in the cache of queries.
HandlerOK(th) ==
    /\ th.pc = "read" => superseded[th.value] <= th.busy
    /\ th.pc = "answer" => superseded[th.value] <= HandlerLag + th.busy

\* One step of Without.
Keep(s, x, gone) == IF x \in gone THEN s ELSE Append(s, x)
HasKept(S, c, gone, k) ==
    \E f \in [0..k -> Seq(S)] :
        f[0] = <<>> /\ \A i \in 1..k : f[i] = Keep(f[i - 1], c[i], gone)

CacheInv ==
    /\ CacheTypeOK
    /\ \A v \in Versions : v >= version => superseded[v] = 0
    /\ \A e \in ToSet(cache) : EntryOK(e)
    /\ \A h \in Handlers : HandlerOK(handler[h])
    /\ BoundedStaleness

-----------------------------------------------------------------------------
(* The container.                                                            *)

\* A set of positions that is not empty has a first one.
LEMMA LeastPosition ==
    ASSUME NEW I, I \subseteq Nat, I # {}
    PROVE  \E x \in I : \A y \in I : x <= y
<1>1. PICK x \in I : \A y \in I : ~(<<y, x>> \in OpToRel(<, Nat))
  BY WFMin, NatLessThanWellFounded
<1>2. \A y \in I : ~(y < x)
  BY <1>1 DEF OpToRel
<1> QED
  BY <1>2

\* The sequence of entries kept so far, after each of the first k.
LEMMA KeptExists ==
    ASSUME NEW S, NEW c \in Seq(S), NEW gone
    PROVE  \A k \in Nat : k <= Len(c) => HasKept(S, c, gone, k)
<1> DEFINE Step(f, i) == Keep(f[i - 1], c[i], gone)
           P(k) == \E f \in [0..k -> Seq(S)] : f[0] = <<>> /\ \A i \in 1..k : f[i] = Step(f, i)
           N == {k \in Nat : k <= Len(c) => P(k)}
<1>1. P(0)
  <2> DEFINE f == [i \in 0..0 |-> <<>>]
  <2>1. f \in [0..0 -> Seq(S)] /\ f[0] = <<>>
    OBVIOUS
  <2>2. \A i \in 1..0 : FALSE
    OBVIOUS
  <2> HIDE DEF f
  <2> QED
    BY <2>1, <2>2
<1>2. ASSUME NEW k \in Nat, k + 1 <= Len(c), P(k) PROVE P(k + 1)
  <2>1. PICK f \in [0..k -> Seq(S)] : f[0] = <<>> /\ \A i \in 1..k : f[i] = Step(f, i)
    BY <1>2
  <2> DEFINE last1 == Keep(f[k], c[k + 1], gone)
             g == [i \in 0..(k + 1) |-> IF i = k + 1 THEN last1 ELSE f[i]]
  <2>2. last1 \in Seq(S)
    <3>1. f[k] \in Seq(S) /\ c[k + 1] \in S
      BY <1>2
    <3> QED
      BY <3>1 DEF Keep
  <2> HIDE DEF last1
  <2>3. g \in [0..(k + 1) -> Seq(S)] /\ g[0] = <<>>
    BY <2>1, <2>2
  <2>4. ASSUME NEW i \in 1..(k + 1) PROVE g[i] = Step(g, i)
    <3>1. CASE i = k + 1
      BY <3>1 DEF last1
    <3>2. CASE i \in 1..k
      <4>1. g[i] = f[i] /\ g[i - 1] = f[i - 1]
        BY <3>2
      <4> QED
        BY <2>1, <3>2, <4>1
    <3> QED
      BY <3>1, <3>2
  <2> HIDE DEF g
  <2> QED
    BY <2>3, <2>4
<1> HIDE DEF P
<1>3. Nat \subseteq N
  <2>1. 0 \in N /\ \A k \in Nat : k \in N => k + 1 \in N
    BY <1>1, <1>2
  <2> HIDE DEF N
  <2> QED
    BY <2>1, SetInduction
<1> QED
  BY <1>3 DEF P, HasKept

\* Erasing entries leaves the others.
LEMMA WithoutFacts ==
    ASSUME NEW S, NEW c \in Seq(S), NEW gone
    PROVE  /\ Without(c, gone) \in Seq(S)
           /\ ToSet(Without(c, gone)) = ToSet(c) \ gone
<1> DEFINE Body(f) == [i \in 0..Len(c) |->
                          IF i = 0 THEN <<>>
                          ELSE Keep(f[i - 1], c[i], gone)]
           kept == CHOOSE f : f = Body(f)
<1>1. Len(c) \in Nat
  OBVIOUS
<1>2. PICK f \in [0..Len(c) -> Seq(S)] :
         /\ f[0] = <<>>
         /\ \A i \in 1..Len(c) : f[i] = Keep(f[i - 1], c[i], gone)
  <2>1. HasKept(S, c, gone, Len(c))
    BY <1>1, KeptExists
  <2> QED
    BY <2>1 DEF HasKept
<1>3. f = Body(f)
  BY <1>1, <1>2
<1>4. kept = Body(kept)
  BY <1>3
<1>5. Without(c, gone) = kept[Len(c)]
  BY DEF Without, Keep
<1> HIDE DEF kept
<1>6. /\ kept[0] = <<>>
      /\ \A i \in 1..Len(c) : kept[i] = Keep(kept[i - 1], c[i], gone)
  BY <1>1, <1>4
<1> DEFINE Q(k) == /\ kept[k] \in Seq(S)
                   /\ ToSet(kept[k]) = {c[j] : j \in 1..k} \ gone
           N == {k \in Nat : k <= Len(c) => Q(k)}
<1>7. Q(0)
  BY <1>6 DEF ToSet
<1>8. ASSUME NEW k \in Nat, k + 1 <= Len(c), Q(k) PROVE Q(k + 1)
  <2>1. k + 1 \in 1..Len(c) /\ (k + 1) - 1 = k /\ c[k + 1] \in S
    BY <1>8
  <2>2. kept[k + 1] = IF c[k + 1] \in gone THEN kept[k] ELSE Append(kept[k], c[k + 1])
    BY <1>6, <2>1 DEF Keep
  <2>3. {c[j] : j \in 1..(k + 1)} = {c[j] : j \in 1..k} \cup {c[k + 1]}
    OBVIOUS
  <2>4. ASSUME NEW s \in Seq(S), NEW x \in S
        PROVE  Append(s, x) \in Seq(S) /\ ToSet(Append(s, x)) = ToSet(s) \cup {x}
    <3>1. /\ DOMAIN Append(s, x) = 1..(Len(s) + 1) /\ DOMAIN s = 1..Len(s)
          /\ \A j \in 1..Len(s) : Append(s, x)[j] = s[j]
          /\ Append(s, x)[Len(s) + 1] = x
      OBVIOUS
    <3> QED
      BY <3>1 DEF ToSet
  <2>5. CASE c[k + 1] \in gone
    BY <1>8, <2>2, <2>3, <2>5
  <2>6. CASE c[k + 1] \notin gone
    BY <1>8, <2>1, <2>2, <2>3, <2>4, <2>6
  <2> QED
    BY <2>5, <2>6
<1> HIDE DEF Q
<1>9. Nat \subseteq N
  <2>1. 0 \in N /\ \A k \in Nat : k \in N => k + 1 \in N
    BY <1>7, <1>8
  <2> HIDE DEF N
  <2> QED
    BY <2>1, SetInduction
<1>10. Q(Len(c))
  BY <1>1, <1>9
<1>11. ToSet(c) = {c[j] : j \in 1..Len(c)}
  BY DEF ToSet
<1> QED
  BY <1>5, <1>10, <1>11 DEF Q

\* cleanup erases entries and adds none.
LEMMA TrimmedFacts ==
    ASSUME NEW c \in Seq(Entry)
    PROVE  Trimmed(c) \in Seq(Entry) /\ ToSet(Trimmed(c)) \subseteq ToSet(c)
<1> DEFINE toTrim == IF MaxEntries # 0 /\ Len(c) > MaxEntries THEN Len(c) - MaxEntries ELSE 0
           lookAt == IF toTrim # 0 THEN 5 * toTrim ELSE Len(c) \div 10
           Stop(n) == \/ n = Len(c)
                      \/ n - 1 > lookAt
                      \/ /\ toTrim # 0
                         /\ Cardinality({i \in 1..n : Expired(c[i])}) > toTrim
           seen == CHOOSE n \in 1..Len(c) : Stop(n) /\ \A m \in 1..(n - 1) : ~Stop(m)
           a == SubSeq(c, 1, seen)
           b == SubSeq(c, seen + 1, Len(c))
           old == {e \in ToSet(c) : Expired(e)}
<1>1. CASE c = <<>>
  BY <1>1 DEF Trimmed
<1>2. CASE c # <<>>
  <2>1. Trimmed(c) = Without(a, old) \o b
    BY <1>2 DEF Trimmed
  <2>2. Len(c) \in Nat /\ Len(c) \in 1..Len(c) /\ Stop(Len(c))
    BY <1>2
  <2> HIDE DEF Stop
  <2>3. seen \in 1..Len(c)
    <3> DEFINE I == {n \in 1..Len(c) : Stop(n)}
    <3>1. I \subseteq Nat /\ I # {}
      BY <2>2
    <3>2. PICK x \in I : \A y \in I : x <= y
      <4> HIDE DEF I
      <4> QED
        BY <3>1, LeastPosition
    <3>3. x \in 1..Len(c) /\ Stop(x) /\ \A m \in 1..(x - 1) : ~Stop(m)
      BY <3>2
    <3> QED
      BY <3>3
  <2> HIDE DEF seen
  <2>4. a \in Seq(Entry) /\ DOMAIN a = 1..seen /\ \A j \in 1..seen : a[j] = c[j]
    BY <2>3
  <2>5. /\ b \in Seq(Entry) /\ DOMAIN b = 1..(Len(c) - seen)
        /\ \A j \in 1..(Len(c) - seen) : b[j] = c[seen + j]
    BY <2>3
  <2>6. ToSet(a) \subseteq ToSet(c) /\ ToSet(b) \subseteq ToSet(c)
    BY <2>3, <2>4, <2>5 DEF ToSet
  <2> HIDE DEF a, b, old
  <2>7. Without(a, old) \in Seq(Entry) /\ ToSet(Without(a, old)) \subseteq ToSet(c)
    BY <2>4, <2>6, WithoutFacts
  <2>8. ASSUME NEW s \in Seq(Entry), NEW t \in Seq(Entry)
        PROVE  s \o t \in Seq(Entry) /\ ToSet(s \o t) \subseteq ToSet(s) \cup ToSet(t)
    <3>1. /\ s \o t \in Seq(Entry) /\ DOMAIN (s \o t) = 1..(Len(s) + Len(t))
          /\ \A j \in 1..Len(s) : (s \o t)[j] = s[j]
          /\ \A j \in 1..Len(t) : (s \o t)[Len(s) + j] = t[j]
          /\ DOMAIN s = 1..Len(s) /\ DOMAIN t = 1..Len(t) /\ Len(s) \in Nat /\ Len(t) \in Nat
      OBVIOUS
    <3>2. ASSUME NEW j \in 1..(Len(s) + Len(t)) PROVE (s \o t)[j] \in ToSet(s) \cup ToSet(t)
      <4>1. CASE j <= Len(s)
        BY <3>1, <4>1 DEF ToSet
      <4>2. CASE j > Len(s)
        <5>1. j - Len(s) \in 1..Len(t) /\ Len(s) + (j - Len(s)) = j
          BY <3>1, <4>2
        <5> QED
          BY <3>1, <5>1 DEF ToSet
      <4> QED
        BY <3>1, <4>1, <4>2
    <3>3. ToSet(s \o t) = {(s \o t)[j] : j \in 1..(Len(s) + Len(t))}
      BY <3>1 DEF ToSet
    <3> QED
      BY <3>1, <3>2, <3>3
  <2> QED
    BY <2>1, <2>5, <2>6, <2>7, <2>8
<1> QED
  BY <1>1, <1>2

\* insert puts one entry in, at the end or in the place of another.
LEMMA WithFacts ==
    ASSUME NEW c \in Seq(Entry), NEW e \in Entry
    PROVE  With(c, e) \in Seq(Entry) /\ ToSet(With(c, e)) \subseteq ToSet(c) \cup {e}
<1> DEFINE I == {i \in 1..Len(c) : c[i].qname = e.qname /\ c[i].ctype = e.ctype}
           same == IF I # {} THEN Min(I) ELSE 0
<1>1. With(c, e) = IF same = 0 THEN Append(c, e) ELSE [c EXCEPT ![same] = e]
  BY DEF With, SelectInSeq
<1>2. same \in 0..Len(c)
  <2>1. I \subseteq Nat /\ I \subseteq 1..Len(c)
    OBVIOUS
  <2>2. CASE I = {}
    BY <2>2
  <2>3. CASE I # {}
    <3>1. PICK x \in I : \A y \in I : x <= y
      <4> HIDE DEF I
      <4> QED
        BY <2>1, <2>3, LeastPosition
    <3>2. Min(I) \in I
      BY <3>1 DEF Min
    <3> QED
      BY <2>1, <2>3, <3>2
  <2> QED
    BY <2>2, <2>3
<1> HIDE DEF same
<1>3. CASE same = 0
  <2>1. /\ Append(c, e) \in Seq(Entry) /\ DOMAIN Append(c, e) = 1..(Len(c) + 1)
        /\ \A j \in 1..Len(c) : Append(c, e)[j] = c[j] /\ c[j] \in ToSet(c)
        /\ Append(c, e)[Len(c) + 1] = e /\ Len(c) \in Nat
    BY DEF ToSet
  <2> QED
    BY <1>1, <1>3, <2>1 DEF ToSet
<1>4. CASE same # 0
  <2> DEFINE d == [c EXCEPT ![same] = e]
  <2>1. d \in Seq(Entry) /\ DOMAIN d = DOMAIN c /\ \A j \in DOMAIN c : d[j] \in {c[j], e}
    BY <1>2, <1>4
  <2> HIDE DEF d
  <2>2. With(c, e) = d
    BY <1>1, <1>4 DEF d
  <2> QED
    BY <2>1, <2>2 DEF ToSet
<1> QED
  BY <1>3, <1>4

\* What getEntryLocked finds is in the container, has the key asked for and is alive.
LEMMA HitFacts ==
    ASSUME cache \in Seq(Entry), NEW n, NEW type, Hit(n, type)
    PROVE  /\ cache[Find(n, type)] \in ToSet(cache) /\ cache[Find(n, type)] \in Entry
           /\ cache[Find(n, type)].ctype = type /\ cache[Find(n, type)].left > 0
<1> DEFINE I == {i \in 1..Len(cache) : cache[i].qname = n /\ cache[i].ctype = type}
<1>1. Find(n, type) = IF I # {} THEN Min(I) ELSE 0
  BY DEF Find, SelectInSeq
<1>2. Find(n, type) # 0 /\ cache[Find(n, type)].left > 0
  BY DEF Hit
<1>3. Find(n, type) \in I
  <2>1. I \subseteq Nat /\ I # {}
    BY <1>1, <1>2
  <2> HIDE DEF I
  <2>2. PICK x \in I : \A y \in I : x <= y
    BY <2>1, LeastPosition
  <2>3. Min(I) \in I
    BY <2>2 DEF Min
  <2> QED
    BY <1>1, <2>1, <2>3
<1> QED
  BY <1>2, <1>3 DEF ToSet

\* purge skips the first element of the vector; one more is a match.
LEMMA PurgeFacts ==
    ASSUME NEW x, NEW m
    PROVE  /\ purge(<<>>) = <<>>
           /\ purge(<<x>>) = cache
           /\ purge(<<x, m>>) = Erase(cache, m)
<1>1. purge(<<>>) = <<>>
  BY DEF purge
<1>2. purge(<<x>>) = cache
  <2> DEFINE Body(f) == [i \in 1..1 |-> IF i = 1 THEN cache ELSE Erase(f[i - 1], (<<x>>)[i])]
             left == CHOOSE f : f = Body(f)
             g == [i \in 1..1 |-> cache]
  <2>1. purge(<<x>>) = left[1]
    <3>1. Len(<<x>>) = 1 /\ <<x>> # <<>>
      OBVIOUS
    <3> QED
      BY <3>1 DEF purge
  <2>2. g = Body(g)
    OBVIOUS
  <2>3. left = Body(left)
    BY <2>2
  <2> HIDE DEF left
  <2>4. left[1] = cache
    BY <2>3
  <2> QED
    BY <2>1, <2>4
<1>3. purge(<<x, m>>) = Erase(cache, m)
  <2> DEFINE Body(f) == [i \in 1..2 |-> IF i = 1 THEN cache ELSE Erase(f[i - 1], (<<x, m>>)[i])]
             left == CHOOSE f : f = Body(f)
             g == [i \in 1..2 |-> IF i = 1 THEN cache ELSE Erase(cache, m)]
  <2>1. purge(<<x, m>>) = left[2]
    <3>1. Len(<<x, m>>) = 2 /\ <<x, m>> # <<>>
      OBVIOUS
    <3> QED
      BY <3>1 DEF purge
  <2>2. g = Body(g)
    <3>1. 1..2 = {1, 2} /\ 2 - 1 = 1 /\ (<<x, m>>)[2] = m
      OBVIOUS
    <3> QED
      BY <3>1
  <2>3. left = Body(left)
    BY <2>2
  <2> HIDE DEF left
  <2>4. left[1] = cache /\ left[2] = Erase(left[1], m)
    BY <2>3
  <2> QED
    BY <2>1, <2>4
<1> QED
  BY <1>1, <1>2, <1>3

\* A name that has all the characters of another one, from the end.
Extends(n, zone) == Len(zone) <= Len(n) /\ \A i \in 1..Len(zone) : n[i] = zone[i]

\* Belonging to a domain, being taken for one of its names by purge, and hiding its names,
\* in terms of characters.
LEMMA ZoneFacts ==
    ASSUME NEW n \in Seq(Nat), NEW zone \in Seq(Nat)
    PROVE  /\ Belongs(n, zone) <=> Extends(n, zone) /\ (n = zone \/ (Len(n) > Len(zone)
                                                                    /\ n[Len(zone) + 1] = Dot))
           /\ Hides(n, zone) <=> Extends(n, zone) /\ Len(n) > Len(zone)
                                 /\ n[Len(zone) + 1] < Dot
           /\ InZone(n, zone) <=> Belongs(n, zone)
           /\ Extends(n, zone) /\ Len(n) = Len(zone) => n = zone
<1>1. Len(n) \in Nat /\ Len(zone) \in Nat /\ Extends(zone, zone)
  BY DEF Extends
<1>2. ASSUME Len(n) > Len(zone)
      PROVE  SubSeq(n, 1, Len(zone)) = zone <=> Extends(n, zone)
  <2> DEFINE t == SubSeq(n, 1, Len(zone))
  <2>1. t \in Seq(Nat) /\ Len(t) = Len(zone) /\ \A i \in 1..Len(zone) : t[i] = n[i]
    BY <1>1, <1>2
  <2> HIDE DEF t
  <2>2. t = zone <=> \A i \in 1..Len(zone) : t[i] = zone[i]
    <3>1. ASSUME \A i \in 1..Len(zone) : t[i] = zone[i] PROVE t = zone
      <4>1. DOMAIN t = 1..Len(zone) /\ DOMAIN zone = 1..Len(zone)
        BY <2>1
      <4>2. t = [i \in DOMAIN t |-> t[i]] /\ zone = [i \in DOMAIN zone |-> zone[i]]
        BY <2>1
      <4> QED
        BY <3>1, <4>1, <4>2
    <3> QED
      BY <3>1
  <2>3. t = zone <=> Extends(n, zone)
    BY <1>1, <1>2, <2>1, <2>2 DEF Extends
  <2> QED
    BY <2>3 DEF t
<1>3. Extends(n, zone) /\ Len(n) = Len(zone) => n = zone
  BY <1>1 DEF Extends
<1>4. InZone(n, zone) <=> n = zone \/ (Extends(n, zone) /\ Len(n) > Len(zone)
                                       /\ n[Len(zone) + 1] = Dot)
  <2> DEFINE dotted == zone \o <<Dot>>
  <2>1. /\ dotted \in Seq(Nat) /\ Len(dotted) = Len(zone) + 1 /\ dotted[Len(zone) + 1] = Dot
        /\ \A i \in 1..Len(zone) : dotted[i] = zone[i]
    BY DEF Dot
  <2>2. InZone(n, zone) <=> n = zone \/ IsPrefix(dotted, n)
    BY DEF InZone
  <2> HIDE DEF dotted
  <2>3. IsPrefix(dotted, n) <=> Len(dotted) <= Len(n) /\ \A i \in 1..Len(dotted) : dotted[i] = n[i]
    BY <1>1, <2>1 DEF IsPrefix
  <2>4. IsPrefix(dotted, n) <=> Extends(n, zone) /\ Len(n) > Len(zone) /\ n[Len(zone) + 1] = Dot
    <3>1. ASSUME Extends(n, zone), Len(n) > Len(zone), n[Len(zone) + 1] = Dot
          PROVE  IsPrefix(dotted, n)
      <4>1. ASSUME NEW i \in 1..(Len(zone) + 1) PROVE dotted[i] = n[i]
        <5>1. CASE i = Len(zone) + 1
          BY <2>1, <3>1, <5>1
        <5>2. CASE i # Len(zone) + 1
          <6>1. i \in 1..Len(zone)
            BY <1>1, <5>2
          <6> QED
            BY <2>1, <3>1, <6>1 DEF Extends
        <5> QED
          BY <5>1, <5>2
      <4>2. Len(dotted) <= Len(n)
        BY <1>1, <2>1, <3>1
      <4>3. \A i \in 1..Len(dotted) : dotted[i] = n[i]
        BY <2>1, <4>1
      <4> QED
        BY <2>3, <4>2, <4>3
    <3>2. ASSUME IsPrefix(dotted, n)
          PROVE  Extends(n, zone) /\ Len(n) > Len(zone) /\ n[Len(zone) + 1] = Dot
      <4>1. Len(zone) + 1 <= Len(n) /\ \A i \in 1..(Len(zone) + 1) : dotted[i] = n[i]
        BY <2>1, <2>3, <3>2
      <4>2. Len(zone) + 1 \in 1..(Len(zone) + 1) /\ \A i \in 1..Len(zone) : i \in 1..(Len(zone) + 1)
        BY <1>1
      <4> QED
        BY <1>1, <2>1, <4>1, <4>2 DEF Extends
    <3> QED
      BY <3>1, <3>2
  <2> QED
    BY <2>2, <2>4
<1> QED
  BY <1>1, <1>2, <1>3, <1>4 DEF Belongs, Hides

\* A name comes after every end of it (CIBackwardsStringCompare).
LEMMA EndsComeFirst ==
    ASSUME NEW n \in Seq(Nat), NEW zone \in Seq(Nat), Extends(n, zone)
    PROVE  ~Before(n, zone) /\ (Len(n) > Len(zone) => Before(zone, n))
<1>1. Len(n) \in Nat /\ Len(zone) \in Nat /\ Len(zone) <= Len(n)
      /\ \A i \in 1..Len(zone) : n[i] = zone[i]
  BY DEF Extends
<1>2. ~Before(n, zone)
  BY <1>1 DEF Before
<1>3. ASSUME Len(n) > Len(zone) PROVE Before(zone, n)
  <2>1. /\ Len(zone) + 1 \in 1..Len(n)
        /\ \A j \in 1..((Len(zone) + 1) - 1) : j <= Len(zone) /\ zone[j] = n[j]
    BY <1>1, <1>3
  <2> QED
    BY <2>1 DEF Before
<1> QED
  BY <1>2, <1>3

\* A name that hides those of a domain comes before each name below the domain, so that
\* the scan meets it first.
LEMMA HidesBefore ==
    ASSUME NEW n \in Seq(Nat), NEW zone \in Seq(Nat), NEW x \in Seq(Nat),
           Belongs(n, zone), n # zone, Hides(x, zone)
    PROVE  ~Before(n, x) /\ ~Before(x, zone) /\ ~InZone(x, zone)
<1>1. /\ Len(n) \in Nat /\ Len(zone) \in Nat /\ Len(x) \in Nat
      /\ Len(n) > Len(zone) /\ Len(x) > Len(zone)
      /\ \A i \in 1..Len(zone) : n[i] = zone[i] /\ x[i] = zone[i]
      /\ n[Len(zone) + 1] = Dot /\ x[Len(zone) + 1] < Dot
  BY ZoneFacts DEF Extends
<1>2. ~Before(n, x)
  <2> SUFFICES ASSUME NEW k \in 1..Len(x),
                      \A j \in 1..(k - 1) : j <= Len(n) /\ n[j] = x[j],
                      k = Len(n) + 1 \/ (k <= Len(n) /\ n[k] < x[k])
               PROVE  FALSE
    BY DEF Before
  <2>0. x[Len(zone) + 1] \in Int /\ Dot \in Int
    BY <1>1 DEF Dot
  <2>1. CASE k <= Len(zone)
    <3>1. k \in 1..Len(zone) /\ k <= Len(n) /\ k # Len(n) + 1
      <4>1. Len(n) \in Nat /\ Len(zone) \in Nat /\ Len(x) \in Nat /\ Len(n) > Len(zone)
        BY <1>1
      <4>2. ASSUME NEW a \in Nat, NEW b \in Nat, NEW i \in Int, i >= 1, a > b, i <= b
            PROVE  i \in 1..b /\ i <= a /\ i # a + 1
        BY <4>2
      <4>3. k \in Int /\ k >= 1
        BY <4>1
      <4> QED
        BY <2>1, <4>1, <4>2, <4>3
    <3>2. n[k] = zone[k] /\ x[k] = zone[k] /\ zone[k] \in Nat
      <4>1. \A i \in 1..Len(zone) : n[i] = zone[i] /\ x[i] = zone[i]
        BY <1>1
      <4>2. k \in 1..Len(zone)
        BY <3>1
      <4>3. zone[k] \in Nat
        BY <4>2
      <4> QED
        BY <4>1, <4>2, <4>3
    <3> QED
      BY <3>1, <3>2
  <2>2. CASE k = Len(zone) + 1
    BY <1>1, <2>0, <2>2
  <2>3. CASE k > Len(zone) + 1
    <3>1. Len(zone) + 1 \in 1..(k - 1)
      BY <1>1, <2>3
    <3>2. n[Len(zone) + 1] = x[Len(zone) + 1]
      BY <3>1
    <3> QED
      BY <1>1, <2>0, <3>2
  <2> QED
    BY <1>1, <2>1, <2>2, <2>3
<1>3. ~Before(x, zone)
  BY ZoneFacts, EndsComeFirst
<1>4. ~InZone(x, zone)
  <2>1. x[Len(zone) + 1] # Dot /\ x # zone
    <3>1. x[Len(zone) + 1] \in Int /\ Dot \in Int
      BY <1>1 DEF Dot
    <3> QED
      BY <1>1, <3>1
  <2> QED
    BY <2>1, ZoneFacts
<1> QED
  BY <1>2, <1>3, <1>4

\* Between the domain's own name and one of its names there are, in the backwards order,
\* only names of the domain and names that hide them.
LEMMA BetweenNames ==
    ASSUME NEW n \in Seq(Nat), NEW zone \in Seq(Nat), NEW x \in Seq(Nat),
           Belongs(n, zone), ~Before(x, zone), ~Before(n, x)
    PROVE  InZone(x, zone) \/ (Hides(x, zone) /\ n # zone)
<1>1. /\ Len(n) \in Nat /\ Len(zone) \in Nat /\ Len(x) \in Nat /\ Len(zone) <= Len(n)
      /\ \A i \in 1..Len(zone) : n[i] = zone[i]
      /\ n = zone \/ (Len(n) > Len(zone) /\ n[Len(zone) + 1] = Dot)
  BY ZoneFacts DEF Extends
<1>2. Extends(x, zone)
  <2> DEFINE D == {i \in 1..Len(zone) : i > Len(x) \/ x[i] # zone[i]}
  <2>1. CASE D = {}
    <3>1. \A i \in 1..Len(zone) : i <= Len(x) /\ x[i] = zone[i]
      BY <1>1, <2>1
    <3>2. Len(zone) <= Len(x)
      <4>1. CASE Len(zone) = 0
        BY <1>1, <4>1
      <4>2. CASE Len(zone) # 0
        <5>1. Len(zone) \in 1..Len(zone)
          BY <1>1, <4>2
        <5> QED
          BY <3>1, <5>1
      <4> QED
        BY <4>1, <4>2
    <3> QED
      BY <3>1, <3>2 DEF Extends
  <2>2. CASE D # {}
    <3>1. D \subseteq Nat
      OBVIOUS
    <3>2. PICK k \in D : \A y \in D : k <= y
      <4> HIDE DEF D
      <4> QED
        BY <2>2, <3>1, LeastPosition
    <3>3. k \in 1..Len(zone) /\ (k > Len(x) \/ x[k] # zone[k])
      OBVIOUS
    <3>4. \A j \in 1..(k - 1) : j <= Len(x) /\ x[j] = zone[j]
      <4> SUFFICES ASSUME NEW j \in 1..(k - 1) PROVE j \notin D
        BY <1>1, <3>3
      <4> HIDE DEF D
      <4> QED
        BY <3>2, <3>3
    <3> HIDE DEF D
    <3>5. CASE k > Len(x)
      <4>1. k = Len(x) + 1
        <5>1. CASE k = 1
          BY <1>1, <3>5, <5>1
        <5>2. CASE k # 1
          <6>1. k - 1 \in 1..(k - 1)
            BY <3>3, <5>2
          <6> QED
            BY <1>1, <3>3, <3>4, <3>5, <6>1
        <5> QED
          BY <5>1, <5>2
      <4> QED
        BY <3>3, <3>4, <4>1 DEF Before
    <3>6. CASE k <= Len(x) /\ x[k] # zone[k]
      <4>0. k \in 1..Len(x) /\ k \in 1..Len(zone) /\ k <= Len(n)
        BY <1>1, <3>3, <3>6
      <4>1. x[k] \in Nat /\ zone[k] \in Nat /\ n[k] = zone[k] /\ k <= Len(n)
        BY <1>1, <4>0
      <4>2. ~(x[k] < zone[k])
        BY <3>3, <3>4, <3>6 DEF Before
      <4>3. n[k] < x[k]
        BY <3>6, <4>1, <4>2
      <4>4. k \in 1..Len(x) /\ \A j \in 1..(k - 1) : j <= Len(n) /\ n[j] = x[j]
        <5>1. \A j \in 1..(k - 1) : j \in 1..Len(zone)
          BY <3>3
        <5> QED
          BY <1>1, <3>3, <3>4, <3>6, <5>1
      <4> QED
        BY <4>1, <4>3, <4>4 DEF Before
    <3> QED
      BY <1>1, <3>3, <3>5, <3>6
  <2> QED
    BY <2>1, <2>2
<1>3. CASE Len(x) = Len(zone)
  BY <1>2, <1>3, ZoneFacts
<1>4. CASE Len(x) > Len(zone)
  <2>1. x[Len(zone) + 1] \in Nat /\ Dot \in Nat
    BY <1>1, <1>4 DEF Dot
  <2>2. CASE n = zone
    BY <1>2, <1>4, <2>2, EndsComeFirst
  <2>3. CASE n # zone /\ x[Len(zone) + 1] > Dot
    <3>1. /\ Len(zone) + 1 \in 1..Len(x) /\ Len(zone) + 1 <= Len(n)
          /\ \A j \in 1..((Len(zone) + 1) - 1) : j <= Len(n) /\ n[j] = x[j]
          /\ n[Len(zone) + 1] < x[Len(zone) + 1]
      BY <1>1, <1>2, <1>4, <2>1, <2>3 DEF Extends
    <3> QED
      BY <3>1 DEF Before
  <2>4. CASE n # zone /\ x[Len(zone) + 1] <= Dot
    BY <1>2, <1>4, <2>1, <2>4, ZoneFacts
  <2> QED
    BY <2>1, <2>2, <2>3, <2>4
<1> QED
  BY <1>1, <1>2, <1>3, <1>4 DEF Extends

\* What the scan of a suffix purge takes: the domain's own name, and the others unless a name
\* that hides them is in the cache.
LEMMA RunFacts ==
    ASSUME NEW c \in Seq(Entry), NEW zone \in Seq(Nat), NEW e \in ToSet(c)
    PROVE  e \in Run(c, zone)
              <=> /\ Belongs(e.qname, zone)
                  /\ e.qname = zone \/ ~\E x \in ToSet(c) : Hides(x.qname, zone)
<1>1. \A x \in ToSet(c) : x.qname \in Seq(Nat)
  <2>1. \A x \in ToSet(c) : x \in Entry
    BY DEF ToSet
  <2> QED
    BY <2>1, NameAssumption DEF Entry
<1>2. ASSUME e \in Run(c, zone)
      PROVE  /\ Belongs(e.qname, zone)
             /\ e.qname = zone \/ ~\E x \in ToSet(c) : Hides(x.qname, zone)
  <2>1. /\ ~Before(e.qname, zone)
        /\ \A x \in ToSet(c) :
              ~Before(x.qname, zone) /\ ~Before(e.qname, x.qname) => InZone(x.qname, zone)
    BY <1>2 DEF Run
  <2>2. ~Before(e.qname, e.qname)
    <3>1. Extends(e.qname, e.qname)
      BY <1>1 DEF Extends
    <3> QED
      BY <1>1, <3>1, EndsComeFirst
  <2>3. Belongs(e.qname, zone)
    BY <1>1, <2>1, <2>2, ZoneFacts
  <2>4. ASSUME NEW x \in ToSet(c), Hides(x.qname, zone), e.qname # zone PROVE FALSE
    BY <1>1, <2>1, <2>3, <2>4, HidesBefore
  <2> QED
    BY <2>3, <2>4
<1>3. ASSUME Belongs(e.qname, zone),
             e.qname = zone \/ ~\E x \in ToSet(c) : Hides(x.qname, zone)
      PROVE  e \in Run(c, zone)
  <2>1. ~Before(e.qname, zone)
    BY <1>1, <1>3, ZoneFacts, EndsComeFirst
  <2>2. ASSUME NEW x \in ToSet(c), ~Before(x.qname, zone), ~Before(e.qname, x.qname)
        PROVE  InZone(x.qname, zone)
    BY <1>1, <1>3, <2>2, BetweenNames
  <2> QED
    BY <2>1, <2>2 DEF Run
<1> QED
  BY <1>2, <1>3

\* What one match of a purge leaves (Erase).
LEMMA EraseFacts ==
    ASSUME NEW c \in Seq(Entry), NEW match \in Purges, match.kind # "all"
    PROVE  /\ Erase(c, match) \in Seq(Entry) /\ ToSet(Erase(c, match)) \subseteq ToSet(c)
           /\ ToSet(Erase(c, match)) = Spared(c, match)
<1>1. match.kind \in {"exact", "suffix"} /\ match.name \in Seq(Nat)
  BY PurgeAssumption
<1>2. CASE match.kind = "suffix"
  <2>1. Erase(c, match) = Without(c, Run(c, match.name))
    BY <1>2 DEF Erase
  <2>2. /\ Erase(c, match) \in Seq(Entry)
        /\ ToSet(Erase(c, match)) = ToSet(c) \ Run(c, match.name)
    BY <2>1, WithoutFacts
  <2> DEFINE hidden == \E x \in ToSet(c) : Hides(x.qname, match.name)
             spared == {e \in ToSet(c) : ~Belongs(e.qname, match.name)
                                         \/ (hidden /\ e.qname # match.name)}
  <2>3. Spared(c, match) = spared
    BY <1>2 DEF Spared
  <2>4. \A e \in ToSet(c) : e \in spared <=> e \notin Run(c, match.name)
    <3>1. \A e \in ToSet(c) : e \in Run(c, match.name)
                                 <=> Belongs(e.qname, match.name) /\ (e.qname = match.name \/ ~hidden)
      BY <1>1, RunFacts
    <3> HIDE DEF hidden
    <3> QED
      BY <3>1
  <2>5. spared \subseteq ToSet(c)
    OBVIOUS
  <2> HIDE DEF spared
  <2>6. \A e : e \in spared <=> e \in ToSet(c) \ Run(c, match.name)
    BY <2>4, <2>5
  <2> QED
    BY <2>2, <2>3, <2>6
<1>3. CASE match.kind = "exact"
  <2>1. Erase(c, match) = Without(c, {e \in ToSet(c) : e.qname = match.name})
    BY <1>3 DEF Erase
  <2> DEFINE gone == {e \in ToSet(c) : e.qname = match.name}
  <2>2. /\ Without(c, gone) \in Seq(Entry)
        /\ ToSet(Without(c, gone)) = ToSet(c) \ gone
    <3> HIDE DEF gone
    <3> QED
      BY WithoutFacts
  <2>3. Spared(c, match) = {e \in ToSet(c) : e.qname # match.name}
    BY <1>3 DEF Spared
  <2> QED
    BY <2>1, <2>2, <2>3
<1> QED
  BY <1>1, <1>2, <1>3

-----------------------------------------------------------------------------
(* The steps.                                                                *)

\* The bounds are numbers.
LEMMA Bounds ==
    /\ PacketTTL \in Nat /\ QueryTTL \in Nat /\ MaxBusy \in Nat /\ MaxVersion \in Nat
    /\ UintWidth \in Nat /\ UintWidth > 0 /\ MaxTTL \in Nat
    /\ Lived(QueryTTL) \in Nat /\ Lived(PacketTTL) \in Nat
    /\ PacketTTL <= MaxTTL /\ QueryTTL <= MaxTTL
    /\ HandlerLag = MaxBusy + Lived(QueryTTL)
    /\ MaxLag = HandlerLag + MaxBusy + Lived(PacketTTL)
<1>1. PacketTTL \in Nat /\ QueryTTL \in Nat /\ MaxBusy \in Nat /\ MaxVersion \in Nat
      /\ UintWidth \in Nat /\ UintWidth > 0
  BY TTLAssumption, LimitAssumption, MaxAssumption
<1> QED
  BY <1>1 DEF MaxTTL, Lived, HandlerLag, MaxLag

\* The handlers' records have their types.
LEMMA HandlerFacts ==
    ASSUME CacheTypeOK, NEW h \in Handlers
    PROVE  /\ handler[h] \in Handler
           /\ handler[h].qname \in Names /\ handler[h].value \in Versions
           /\ handler[h].busy \in 0..MaxBusy
           /\ superseded[handler[h].value] \in 0..(MaxLag + 1)
BY DEF CacheTypeOK, Handler

\* Every operation may clean up, which leaves nothing new.
LEMMA CleanedFacts ==
    ASSUME CacheInv
    PROVE  /\ Cleaned \in Seq(Entry) /\ \A e \in ToSet(Cleaned) : EntryOK(e)
           /\ Counted \in 0..(UintWidth - 1)
<1>1. cache \in Seq(Entry) /\ \A e \in ToSet(cache) : EntryOK(e)
  BY DEF CacheInv, CacheTypeOK
<1>2. Cleaned \in Seq(Entry) /\ \A e \in ToSet(Cleaned) : EntryOK(e)
  BY <1>1, TrimmedFacts DEF Cleaned
<1>3. Counted \in 0..(UintWidth - 1)
  <2>1. ops + 1 \in Nat /\ UintWidth \in Nat /\ UintWidth > 0
    BY Bounds DEF CacheInv, CacheTypeOK
  <2> QED
    BY <2>1 DEF Counted
<1> QED
  BY <1>2, <1>3

\* A step that leaves the data and their age alone keeps the invariant, if what it puts in
\* the container, gives the handlers and serves does.
LEMMA SameAge ==
    ASSUME CacheInv, UNCHANGED <<version, superseded>>,
           cache' \in Seq(Entry), \A e \in ToSet(cache') : EntryOK(e),
           ops' \in 0..(UintWidth - 1),
           handler' \in [Handlers -> Handler], \A h \in Handlers : HandlerOK(handler'[h]),
           last'.op = "served" => superseded[last'.value] <= MaxLag
    PROVE  CacheInv'
BY DEF CacheInv, CacheTypeOK, BoundedStaleness, EntryOK, HandlerOK

\* An answer from the cache is as old as its time to live allows.
LEMMA GetStep ==
    ASSUME CacheInv, NEW h \in Handlers, NEW n \in Names, Get(h, n)
    PROVE  CacheInv'
<1>1. /\ cache' \in Seq(Entry) /\ (\A e \in ToSet(cache') : EntryOK(e))
      /\ ops' \in 0..(UintWidth - 1) /\ UNCHANGED <<version, superseded>>
  BY CleanedFacts DEF Get
<1>2. cache \in Seq(Entry) /\ handler \in [Handlers -> Handler] /\ handler[h] \in Handler
  BY DEF CacheInv, CacheTypeOK
<1>3. \A t \in Handlers : HandlerOK(handler[t])
  BY DEF CacheInv
<1>4. CASE Hit(n, "PACKET") /\ UNCHANGED handler
           /\ last' = [op |-> "served", value |-> cache[Find(n, "PACKET")].value]
  <2> DEFINE e == cache[Find(n, "PACKET")]
  <2>1. e \in ToSet(cache) /\ e \in Entry /\ e.ctype = "PACKET" /\ e.left > 0
    BY <1>2, <1>4, HitFacts
  <2> HIDE DEF e
  <2>2. e.left \in Int /\ superseded[e.value] \in 0..(MaxLag + 1)
    BY <2>1 DEF CacheInv, CacheTypeOK, Entry
  <2>3. e.left <= PacketTTL /\ superseded[e.value] <= HandlerLag + MaxBusy + PacketTTL - e.left
    BY <2>1 DEF CacheInv, EntryOK
  <2>4. superseded[e.value] <= MaxLag
    <3>1. Lived(PacketTTL) = PacketTTL - 1
      BY <2>1, <2>2, <2>3, Bounds DEF Lived
    <3>2. HandlerLag \in Int
      BY Bounds
    <3> QED
      BY <2>1, <2>2, <2>3, <3>1, <3>2, Bounds
  <2>5. last'.value = e.value
    BY <1>4 DEF e
  <2> QED
    BY <1>1, <1>2, <1>3, <1>4, <2>4, <2>5, SameAge
<1>5. CASE /\ handler' = [handler EXCEPT ![h] = [@ EXCEPT !.pc = "asked", !.qname = n]]
           /\ last' = Nothing
  <2>1. handler' \in [Handlers -> Handler]
    BY <1>2, <1>5 DEF Handler
  <2>2. handler'[h].pc = "asked" /\ \A t \in Handlers : t # h => handler'[t] = handler[t]
    BY <1>2, <1>5 DEF Handler
  <2>3. \A t \in Handlers : HandlerOK(handler'[t])
    BY <1>3, <2>2 DEF HandlerOK
  <2>4. last'.op # "served"
    BY <1>5 DEF Nothing
  <2> QED
    BY <1>1, <2>1, <2>3, <2>4, SameAge
<1> QED
  BY <1>4, <1>5 DEF Get

\* What comes from the cache of queries lags behind by their time to live.
LEMMA CacheHasStep ==
    ASSUME CacheInv, NEW h \in Handlers, CacheHas(h)
    PROVE  CacheInv'
<1>1. /\ cache' \in Seq(Entry) /\ (\A e \in ToSet(cache') : EntryOK(e))
      /\ ops' \in 0..(UintWidth - 1) /\ UNCHANGED <<version, superseded>>
  BY CleanedFacts DEF CacheHas, CacheInv, CacheTypeOK
<1>2. cache \in Seq(Entry) /\ handler \in [Handlers -> Handler] /\ handler[h] \in Handler
  BY DEF CacheInv, CacheTypeOK
<1>3. \A t \in Handlers : HandlerOK(handler[t])
  BY DEF CacheInv
<1>4. last'.op # "served"
  BY DEF CacheHas, Nothing
<1>5. CASE handler' = [handler EXCEPT ![h].pc = "missed"]
  <2>1. handler' \in [Handlers -> Handler]
    BY <1>2, <1>5 DEF Handler
  <2>2. handler'[h].pc = "missed" /\ \A t \in Handlers : t # h => handler'[t] = handler[t]
    BY <1>2, <1>5 DEF Handler
  <2>3. \A t \in Handlers : HandlerOK(handler'[t])
    BY <1>3, <2>2 DEF HandlerOK
  <2> QED
    BY <1>1, <1>4, <2>1, <2>3, SameAge
<1>6. CASE /\ Hit(handler[h].qname, "QUERY")
           /\ handler' = [handler EXCEPT ![h] =
                 [@ EXCEPT !.pc = "answer",
                           !.value = cache[Find(handler[h].qname, "QUERY")].value]]
  <2> DEFINE e == cache[Find(handler[h].qname, "QUERY")]
  <2>1. e \in ToSet(cache) /\ e \in Entry /\ e.ctype = "QUERY" /\ e.left > 0
    BY <1>2, <1>6, HitFacts
  <2> HIDE DEF e
  <2>2. e.left \in Int /\ e.value \in Versions /\ superseded[e.value] \in 0..(MaxLag + 1)
    BY <2>1 DEF CacheInv, CacheTypeOK, Entry
  <2>3. e.left <= QueryTTL /\ superseded[e.value] <= MaxBusy + QueryTTL - e.left
    BY <2>1 DEF CacheInv, EntryOK
  <2>4. superseded[e.value] <= HandlerLag
    <3>1. Lived(QueryTTL) = QueryTTL - 1
      BY <2>1, <2>2, <2>3, Bounds DEF Lived
    <3> QED
      BY <2>1, <2>2, <2>3, <3>1, Bounds
  <2>5. handler' = [handler EXCEPT ![h] = [@ EXCEPT !.pc = "answer", !.value = e.value]]
    BY <1>6 DEF e
  <2>6. handler' \in [Handlers -> Handler]
    BY <1>2, <2>2, <2>5 DEF Handler
  <2>7. /\ handler'[h].pc = "answer" /\ handler'[h].value = e.value
        /\ handler'[h].busy = handler[h].busy
        /\ \A t \in Handlers : t # h => handler'[t] = handler[t]
    BY <1>2, <2>5 DEF Handler
  <2>8. HandlerOK(handler'[h])
    <3>1. handler[h].busy \in Nat /\ HandlerLag \in Int
      BY <1>2, Bounds DEF Handler
    <3> QED
      BY <2>2, <2>4, <2>7, <3>1 DEF HandlerOK
  <2>9. \A t \in Handlers : HandlerOK(handler'[t])
    BY <1>3, <2>7, <2>8
  <2> QED
    BY <1>1, <1>4, <2>6, <2>9, SameAge
<1> QED
  BY <1>5, <1>6 DEF CacheHas

\* What the backend says is current.
LEMMA ReadBackendStep ==
    ASSUME CacheInv, NEW h \in Handlers, ReadBackend(h)
    PROVE  CacheInv'
<1>1. handler \in [Handlers -> Handler] /\ handler[h] \in Handler /\ version \in Versions
  BY DEF CacheInv, CacheTypeOK
<1>2. handler' = [handler EXCEPT ![h] = [@ EXCEPT !.pc = "read", !.value = version]]
  BY DEF ReadBackend
<1>3. handler' \in [Handlers -> Handler]
  BY <1>1, <1>2 DEF Handler
<1>4. /\ handler'[h].pc = "read" /\ handler'[h].value = version
      /\ handler'[h].busy = handler[h].busy
      /\ \A t \in Handlers : t # h => handler'[t] = handler[t]
  BY <1>1, <1>2 DEF Handler
<1>5. superseded[version] = 0 /\ handler[h].busy >= 0
  BY <1>1 DEF CacheInv, Versions, Handler
<1>6. \A t \in Handlers : HandlerOK(handler'[t])
  BY <1>4, <1>5 DEF HandlerOK, CacheInv
<1> QED
  BY <1>3, <1>6, SameAge DEF ReadBackend, Nothing, CacheInv, CacheTypeOK

\* An entry is put in the cache with its whole time to live ahead of it.
LEMMA InsertFacts ==
    ASSUME CacheInv, NEW h \in Handlers, NEW type \in {"PACKET", "QUERY"}, NEW ttl \in 0..MaxTTL,
           EntryOK([qname |-> handler[h].qname, ctype |-> type, value |-> handler[h].value,
                    left |-> ttl]),
           Insert(h, type, ttl)
    PROVE  /\ cache' \in Seq(Entry) /\ (\A e \in ToSet(cache') : EntryOK(e))
           /\ ops' \in 0..(UintWidth - 1)
<1> DEFINE e == [qname |-> handler[h].qname, ctype |-> type, value |-> handler[h].value,
                 left |-> ttl]
<1>1. e \in Entry
  <2>1. handler[h].qname \in Names /\ handler[h].value \in Versions /\ ttl \in -1..MaxTTL
    BY HandlerFacts, Bounds DEF CacheInv
  <2> QED
    BY <2>1 DEF Entry
<1>2. cache' = Cleaned \/ cache' = With(Cleaned, e)
  BY DEF Insert
<1>3. EntryOK(e) /\ ops' = Counted
  BY DEF Insert
<1> HIDE DEF e
<1> QED
  BY <1>1, <1>2, <1>3, CleanedFacts, WithFacts

\* The answer of the backend goes to the cache of queries.
LEMMA AddQueryStep ==
    ASSUME CacheInv, NEW h \in Handlers, AddQuery(h)
    PROVE  CacheInv'
<1>1. handler \in [Handlers -> Handler] /\ handler[h] \in Handler
  BY DEF CacheInv, CacheTypeOK
<1>2. /\ superseded[handler[h].value] <= handler[h].busy
      /\ superseded[handler[h].value] \in Int /\ handler[h].busy \in 0..MaxBusy
  BY HandlerFacts, Bounds DEF CacheInv, HandlerOK, AddQuery
<1>3. EntryOK([qname |-> handler[h].qname, ctype |-> "QUERY", value |-> handler[h].value,
               left |-> QueryTTL])
  BY <1>2, Bounds DEF EntryOK
<1>4. QueryTTL \in 0..MaxTTL
  BY Bounds
<1>5. /\ cache' \in Seq(Entry) /\ (\A e \in ToSet(cache') : EntryOK(e))
      /\ ops' \in 0..(UintWidth - 1)
  BY <1>3, <1>4, InsertFacts DEF AddQuery, CacheInv, CacheTypeOK
<1>6. handler' = [handler EXCEPT ![h].pc = "answer"]
  BY DEF AddQuery
<1>7. handler' \in [Handlers -> Handler]
  BY <1>1, <1>6 DEF Handler
<1>8. /\ handler'[h].pc = "answer" /\ handler'[h].value = handler[h].value
      /\ handler'[h].busy = handler[h].busy
      /\ \A t \in Handlers : t # h => handler'[t] = handler[t]
  BY <1>1, <1>6 DEF Handler
<1>9. HandlerOK(handler'[h])
  <2>1. HandlerLag \in Nat
    BY Bounds
  <2> QED
    BY <1>2, <1>8, <2>1 DEF HandlerOK
<1>10. \A t \in Handlers : HandlerOK(handler'[t])
  BY <1>8, <1>9 DEF CacheInv
<1> QED
  BY <1>5, <1>7, <1>10, SameAge DEF AddQuery, Nothing

\* The answer goes to the cache of packets and to the client.
LEMMA AddPacketStep ==
    ASSUME CacheInv, NEW h \in Handlers, AddPacket(h)
    PROVE  CacheInv'
<1>1. handler \in [Handlers -> Handler] /\ handler[h] \in Handler
  BY DEF CacheInv, CacheTypeOK
<1>2. /\ superseded[handler[h].value] <= HandlerLag + handler[h].busy
      /\ superseded[handler[h].value] \in Int /\ handler[h].busy \in 0..MaxBusy
      /\ HandlerLag \in Nat
  BY HandlerFacts, Bounds DEF CacheInv, HandlerOK, AddPacket
<1>3. EntryOK([qname |-> handler[h].qname, ctype |-> "PACKET", value |-> handler[h].value,
               left |-> PacketTTL])
  BY <1>2, Bounds DEF EntryOK
<1>4. PacketTTL \in 0..MaxTTL
  BY Bounds
<1>5. /\ cache' \in Seq(Entry) /\ (\A e \in ToSet(cache') : EntryOK(e))
      /\ ops' \in 0..(UintWidth - 1)
  BY <1>3, <1>4, InsertFacts DEF AddPacket, CacheInv, CacheTypeOK
<1>6. handler' = [handler EXCEPT ![h] = [@ EXCEPT !.pc = "idle", !.value = 0, !.busy = 0]]
  BY DEF AddPacket
<1>7. handler' \in [Handlers -> Handler]
  <2>1. 0 \in Versions /\ 0 \in 0..MaxBusy
    BY Bounds DEF Versions
  <2> QED
    BY <1>1, <1>6, <2>1 DEF Handler
<1>8. handler'[h].pc = "idle" /\ \A t \in Handlers : t # h => handler'[t] = handler[t]
  BY <1>1, <1>6 DEF Handler
<1>9. \A t \in Handlers : HandlerOK(handler'[t])
  BY <1>8 DEF CacheInv, HandlerOK
<1>10. superseded[last'.value] <= MaxLag
  <2>1. last'.value = handler[h].value
    BY DEF AddPacket
  <2> QED
    BY <1>2, <2>1, Bounds
<1> QED
  BY <1>5, <1>7, <1>9, <1>10, SameAge DEF AddPacket

\* The operator's purge only erases.
LEMMA ControlPurgeStep ==
    ASSUME CacheInv, NEW match \in Purges, ControlPurge(match)
    PROVE  CacheInv'
<1>1. cache \in Seq(Entry) /\ \A e \in ToSet(cache) : EntryOK(e)
  BY DEF CacheInv, CacheTypeOK
<1>2. cache' = <<>> \/ (cache' = Erase(cache, match) /\ match.kind # "all")
  BY PurgeFacts DEF ControlPurge, ControlArgs
<1>3. cache' \in Seq(Entry) /\ \A e \in ToSet(cache') : EntryOK(e)
  <2>1. CASE cache' = <<>>
    BY <2>1 DEF ToSet
  <2>2. CASE cache' = Erase(cache, match) /\ match.kind # "all"
    BY <1>1, <2>2, EraseFacts
  <2> QED
    BY <1>2, <2>1, <2>2
<1> QED
  BY <1>3, SameAge DEF ControlPurge, Nothing, CacheInv, CacheTypeOK

\* The purge before a notification erases nothing: the vector holds one name, which purge
\* takes for the word before the names.
LEMMA MasterUpdateCheckStep ==
    ASSUME CacheInv, NEW zone, MasterUpdateCheck(zone)
    PROVE  CacheInv'
<1>1. cache' = cache
  BY PurgeFacts DEF MasterUpdateCheck, UpdateArgs
<1> QED
  BY <1>1, SameAge DEF MasterUpdateCheck, Nothing, CacheInv, CacheTypeOK

\* A change of the data makes a version that is not superseded.
LEMMA ChangeStep ==
    ASSUME CacheInv, Change
    PROVE  CacheInv'
<1>1. version \in Nat /\ version' = version + 1 /\ version' \in Versions
  BY Bounds DEF CacheInv, CacheTypeOK, Change, Versions
<1>2. UNCHANGED <<cache, ops, handler, superseded>> /\ last'.op # "served"
  BY DEF Change, Nothing
<1>3. \A v \in Versions : v >= version' => superseded'[v] = 0
  BY <1>1, <1>2 DEF CacheInv, Versions
<1> QED
  BY <1>1, <1>2, <1>3 DEF CacheInv, CacheTypeOK, BoundedStaleness, EntryOK, HandlerOK

\* As an entry loses a second of its time to live, its data age by at most one, and so does
\* what a handler holds while it works.
LEMMA TickStep ==
    ASSUME CacheInv, Tick
    PROVE  CacheInv'
<1>1. /\ cache \in Seq(Entry) /\ handler \in [Handlers -> Handler] /\ version \in Versions
      /\ superseded \in [Versions -> 0..(MaxLag + 1)] /\ ops \in 0..(UintWidth - 1)
  BY DEF CacheInv, CacheTypeOK
<1>2. /\ superseded' \in [Versions -> 0..(MaxLag + 1)]
      /\ \A v \in Versions : superseded'[v] <= superseded[v] + 1
      /\ \A v \in Versions : v >= version' => superseded'[v] = 0
  <2>1. MaxLag \in Nat
    BY Bounds
  <2> QED
    BY <1>1, <2>1 DEF Tick, CacheInv, Versions
<1>3. /\ DOMAIN cache' = DOMAIN cache
      /\ cache' \in Seq(Entry)
      /\ \A i \in DOMAIN cache :
            /\ cache'[i].ctype = cache[i].ctype /\ cache'[i].value = cache[i].value
            /\ cache'[i].left = IF cache[i].left < 0 THEN cache[i].left ELSE cache[i].left - 1
  <2> DEFINE aged(i) == [cache[i] EXCEPT !.left = IF @ < 0 THEN @ ELSE @ - 1]
  <2>1. DOMAIN cache = 1..Len(cache) /\ Len(cache) \in Nat /\ cache' = [i \in 1..Len(cache) |-> aged(i)]
    BY <1>1 DEF Tick
  <2>2. ASSUME NEW i \in 1..Len(cache)
        PROVE  /\ aged(i) \in Entry
               /\ aged(i).ctype = cache[i].ctype /\ aged(i).value = cache[i].value
               /\ aged(i).left = IF cache[i].left < 0 THEN cache[i].left ELSE cache[i].left - 1
    <3>1. cache[i] \in Entry
      BY <1>1, <2>1
    <3>2. cache[i].left \in Int /\ cache[i].left \in -1..MaxTTL /\ MaxTTL \in Nat
      BY <3>1, Bounds DEF Entry
    <3> QED
      BY <3>1, <3>2 DEF Entry
  <2> HIDE DEF aged
  <2> QED
    BY <2>1, <2>2
<1>4. \A e \in ToSet(cache') : EntryOK(e)'
  <2> SUFFICES ASSUME NEW i \in DOMAIN cache PROVE EntryOK(cache[i])'
    BY <1>3 DEF ToSet
  <2>1. cache[i] \in Entry /\ EntryOK(cache[i])
    BY <1>1 DEF CacheInv, ToSet
  <2>2. /\ cache[i].left \in Int /\ cache[i].value \in Versions
        /\ superseded[cache[i].value] \in Int /\ superseded'[cache[i].value] \in Int
        /\ PacketTTL \in Int /\ QueryTTL \in Int /\ MaxBusy \in Int /\ HandlerLag \in Int
    <3>1. /\ cache[i].left \in -1..MaxTTL /\ cache[i].value \in Versions
      BY <2>1 DEF Entry
    <3>2. superseded[cache[i].value] \in 0..(MaxLag + 1) /\ superseded'[cache[i].value] \in 0..(MaxLag + 1)
      BY <1>1, <1>2, <3>1
    <3> QED
      BY <3>1, <3>2, Bounds
  <2>3. superseded'[cache[i].value] <= superseded[cache[i].value] + 1
    BY <1>2, <2>2
  <2> DEFINE x == cache'[i]
  <2>4. /\ x.ctype = cache[i].ctype /\ x.value = cache[i].value
        /\ x.left = IF cache[i].left < 0 THEN cache[i].left ELSE cache[i].left - 1
    BY <1>3
  <2> HIDE DEF x
  <2>5. x.ctype = "QUERY" =>
           /\ x.left <= QueryTTL
           /\ x.left > 0 => superseded'[x.value] <= MaxBusy + QueryTTL - x.left
    BY <2>1, <2>2, <2>3, <2>4 DEF EntryOK
  <2>6. x.ctype = "PACKET" =>
           /\ x.left <= PacketTTL
           /\ x.left > 0 => superseded'[x.value] <= HandlerLag + MaxBusy + PacketTTL - x.left
    BY <2>1, <2>2, <2>3, <2>4 DEF EntryOK
  <2> QED
    BY <2>5, <2>6 DEF EntryOK, x
<1>5. ASSUME NEW h \in Handlers
      PROVE  handler'[h] \in Handler /\ HandlerOK(handler[h])'
  <2>1. handler[h] \in Handler /\ HandlerOK(handler[h])
    BY <1>1 DEF CacheInv
  <2>2. /\ handler[h].busy \in 0..MaxBusy /\ handler[h].value \in Versions
        /\ superseded[handler[h].value] \in Int /\ superseded'[handler[h].value] \in Int
        /\ superseded'[handler[h].value] <= superseded[handler[h].value] + 1
        /\ HandlerLag \in Int /\ MaxBusy \in Nat
    <3>1. handler[h].busy \in 0..MaxBusy /\ handler[h].value \in Versions
      BY <2>1 DEF Handler
    <3>2. /\ superseded[handler[h].value] \in 0..(MaxLag + 1)
          /\ superseded'[handler[h].value] \in 0..(MaxLag + 1)
          /\ superseded'[handler[h].value] <= superseded[handler[h].value] + 1
      BY <1>1, <1>2, <3>1
    <3> QED
      BY <3>1, <3>2, Bounds
  <2>3. CASE Working(h)
    <3>1. handler[h].busy < MaxBusy /\ handler'[h] = [handler[h] EXCEPT !.busy = @ + 1]
      BY <2>3 DEF Tick
    <3>2. /\ handler'[h] \in Handler /\ handler'[h].pc = handler[h].pc
          /\ handler'[h].value = handler[h].value /\ handler'[h].busy = handler[h].busy + 1
      BY <2>1, <2>2, <3>1 DEF Handler
    <3> QED
      BY <2>1, <2>2, <3>2 DEF HandlerOK
  <2>4. CASE ~Working(h)
    <3>1. handler'[h] = handler[h] /\ handler[h].pc = "idle"
      BY <2>4 DEF Tick, Working
    <3> QED
      BY <2>1, <3>1 DEF HandlerOK
  <2> QED
    BY <2>3, <2>4
<1>6. handler' \in [Handlers -> Handler]
  <2>1. DOMAIN handler' = Handlers /\ handler' = [h \in Handlers |-> handler'[h]]
    BY DEF Tick
  <2> QED
    BY <1>5, <2>1
<1>7. UNCHANGED <<ops, version>> /\ last'.op # "served"
  BY DEF Tick, Nothing
<1> QED
  BY <1>1, <1>2, <1>3, <1>4, <1>5, <1>6, <1>7 DEF CacheInv, CacheTypeOK, BoundedStaleness

\* The cache starts empty.
LEMMA CacheInitInv ==
    ASSUME CacheInit
    PROVE  CacheInv
<1>1. (CHOOSE n \in Names : TRUE) \in Names
  BY NameAssumption
<1>2. 0 \in Versions /\ 0 \in 0..MaxBusy /\ 0 \in 0..(MaxLag + 1) /\ 0 \in 0..(UintWidth - 1)
  BY Bounds DEF Versions
<1>3. handler \in [Handlers -> Handler] /\ \A h \in Handlers : handler[h].pc = "idle"
  BY <1>1, <1>2 DEF CacheInit, Handler
<1>4. cache \in Seq(Entry) /\ ToSet(cache) = {}
  BY DEF CacheInit, ToSet
<1> QED
  BY <1>2, <1>3, <1>4 DEF CacheInit, CacheInv, CacheTypeOK, BoundedStaleness, HandlerOK, Nothing

\* Every step keeps the invariant.
LEMMA CacheStep ==
    ASSUME CacheInv, [CacheNext]_cacheVars
    PROVE  CacheInv'
<1>1. CASE UNCHANGED cacheVars
  <2>1. UNCHANGED <<cache, ops, handler, version, superseded, last>>
    BY <1>1 DEF cacheVars
  <2> QED
    BY <2>1 DEF CacheInv, CacheTypeOK, BoundedStaleness, EntryOK, HandlerOK
<1>2. CASE CacheNext
  BY <1>2, GetStep, CacheHasStep, ReadBackendStep, AddQueryStep, AddPacketStep,
     ControlPurgeStep, MasterUpdateCheckStep, ChangeStep, TickStep DEF CacheNext
<1> QED
  BY <1>1, <1>2
-----------------------------------------------------------------------------
(* The theorems.                                                             *)

\* What the cache returns lags behind by its time to live and its handler (the inductive
\* invariant).
THEOREM CacheInvariant == CacheSpec => []CacheInv
<1>1. CacheInit => CacheInv
  BY CacheInitInv
<1>2. CacheInv /\ [CacheNext]_cacheVars => CacheInv'
  BY CacheStep
<1> QED
  BY <1>1, <1>2, PTL DEF CacheSpec

\* The cache and the questions under way keep their types.
THEOREM CacheTypeCorrect == CacheSpec => []CacheTypeOK
<1>1. CacheInv => CacheTypeOK
  BY DEF CacheInv
<1> QED
  BY <1>1, CacheInvariant, PTL

\* However many layers of caching an answer went through, it lags behind the backend by no
\* more than both times to live and twice the time a handler needs.
THEOREM StalenessBounded == CacheSpec => []BoundedStaleness
<1>1. CacheInv => BoundedStaleness
  BY DEF CacheInv
<1> QED
  BY <1>1, CacheInvariant, PTL

\* Whenever purge is called, what it leaves is exactly this: the names below a domain stay
\* when a name that hides them is cached, everything stays in masterUpdateCheck's purge, and
\* otherwise what was asked for goes and nothing else.
THEOREM PurgesAreExact == CacheSpec => []PurgeIsExact
<1>1. ASSUME CacheInv PROVE PurgeIsExact
  <2>1. cache \in Seq(Entry)
    BY <1>1 DEF CacheInv, CacheTypeOK
  <2>2. ASSUME NEW match \in Purges
        PROVE  ToSet(purge(ControlArgs(match))) = Spared(cache, match)
    <3>1. CASE match.kind = "all"
      <4>1. purge(ControlArgs(match)) = <<>>
        BY <3>1, PurgeFacts DEF ControlArgs
      <4>2. ToSet(<<>>) = {}
        BY DEF ToSet
      <4>3. Spared(cache, match) = {}
        BY <3>1 DEF Spared
      <4> QED
        BY <4>1, <4>2, <4>3
    <3>2. CASE match.kind # "all"
      <4>1. purge(ControlArgs(match)) = Erase(cache, match)
        BY <3>2, PurgeFacts DEF ControlArgs
      <4> QED
        BY <2>1, <3>2, <4>1, EraseFacts
    <3> QED
      BY <3>1, <3>2
  <2>3. \A zone \in Updated : purge(UpdateArgs(zone)) = cache
    BY PurgeFacts DEF UpdateArgs
  <2> QED
    BY <2>2, <2>3 DEF PurgeIsExact
<1> QED
  BY <1>1, CacheInvariant, PTL

=============================================================================

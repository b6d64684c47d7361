----------------------------- MODULE ResolverSteps ----------------------------
(* The resolver tells the truth, in every world and for every question: what *)
(* it caches, whom it asks and what it replies.  The invariant speaks of one *)
(* run of Change at a time (Sound), of one cache entry at a time (EntryOK),  *)
(* and of what ties a request to its sub-queries (Crew).                     *)
EXTENDS Resolver, Integers, TLAPS

Machines == [state : States, iterations : 0 .. MaxIterations, qname : AllNames, response : Message,
             cnameChain : Seq([name : Names, type : {"CNAME"}, data : Names]), ipList : SUBSET AllNames]

-----------------------------------------------------------------------------
(* What may be said of a name *)

ServeAll(S, name) == \A n \in S : Serving(n, name) # {}

\* An alias of the name leads nowhere, or the name itself does not exist.
Dead(name, type) ==
    \/ ~Exists(name)
    \/ type # "CNAME" /\ \E r \in At(name, "CNAME") : ~Exists(r.data)
NoData(name, type) == Exists(name) /\ At(name, type) = {} /\ At(name, "CNAME") = {}
Denied(name, type, rcode) ==
    \/ rcode = "NXDOMAIN" /\ Dead(name, type)
    \/ rcode = "NOERROR" /\ NoData(name, type)

\* Records of the world that lead from the name towards data of the type.
GoodAnswer(name, type, answer) ==
    /\ \A i \in DOMAIN answer : answer[i] \in Records /\ answer[i].type \in {type, "CNAME"}
    /\ Linked(name, answer)
    /\ type = "CNAME" => Len(answer) <= 1

\* The addresses at hand are those of servers of the zone at hand.
GlueFits(resp) ==
    /\ Len(resp.ns) <= 1
    /\ resp.extra \subseteq IF resp.ns = <<>> THEN {} ELSE NSNames[resp.ns[1].zone]

-----------------------------------------------------------------------------
(* The invariant *)

Active(m) == m.state \notin {"off", "blocked", "done"}
Early == {"STATE_INIT", "HOSTS_LOOKUP", "FORWARD_LOOKUP"}
Awaiting == {"AWAIT_NS", "AWAIT_REST"}
Late == {"CACHE_LOOKUP", "CLASSIFY_RESP", "EXTRACT_GLUE", "LOOKUP_NS_CACHE", "QUERY_UPSTREAM", "EXCHANGE"} \cup Awaiting

\* The chain of a run with question q has led to the name it asks for now.
Chained(m, q) ==
    /\ \A i \in DOMAIN m.cnameChain : m.cnameChain[i] \in Records /\ m.cnameChain[i].type = "CNAME"
    /\ Linked(q.name, m.cnameChain)
    /\ m.qname = IF Len(m.cnameChain) = 0 THEN q.name ELSE m.cnameChain[Len(m.cnameChain)].data
    /\ \A i, j \in 1 .. Len(m.cnameChain) : m.cnameChain[i].data = m.cnameChain[j].data => i = j
    /\ q.type = "CNAME" => m.cnameChain = <<>>

\* What a run that looks for an answer has in its response.
Looking(m, q) ==
    /\ m.response.rcode \in {"NOERROR", "NXDOMAIN"}
    /\ m.response.rcode = "NXDOMAIN" => Dead(m.qname, q.type)
    /\ ServeAll(m.response.extra, m.qname)
    /\ m.state # "CLASSIFY_RESP" => m.response.answer = <<>>

Classifiable(m, q) ==
    /\ GoodAnswer(m.qname, q.type, m.response.answer)
    /\ m.response.answer # <<>> => GlueFits(m.response)
    /\ m.response.answer = <<>> => IF HasSOA(m.response) THEN Denied(m.qname, q.type, m.response.rcode)
                                   ELSE Len(m.response.ns) <= 1

Returnable(m, q) ==
    /\ \/ Local(q.name) /\ m.cnameChain = <<>>
       \/ /\ m.response.rcode = "NOERROR" /\ Matches(m.response, q.type)
          /\ GoodAnswer(m.qname, q.type, m.response.answer)
       \/ m.response.answer = <<>> /\ Denied(m.qname, q.type, m.response.rcode)
    /\ q.type = "A" /\ q.name \in Hosts =>
          \A i \in DOMAIN m.response.answer : m.response.answer[i].type = "A" => m.response.answer[i].data = q.name

Sound(m, q) ==
    /\ Active(m) => Chained(m, q)
    /\ m.state \in Early => m.cnameChain = <<>> /\ m.response = Empty
    /\ m.state \in Late => Looking(m, q)
    /\ m.state = "CACHE_LOOKUP" => GlueFits(m.response)
    /\ m.state = "CLASSIFY_RESP" => Classifiable(m, q)
    /\ m.state = "EXTRACT_GLUE" => Len(m.response.ns) <= 1
    /\ m.state = "LOOKUP_NS_CACHE" => m.response.ns = <<>>
    /\ m.state \in {"QUERY_UPSTREAM"} \cup Awaiting => ServeAll(getNSNames(m.response), m.qname)
    /\ m.state = "EXCHANGE" => ServeAll(m.ipList, m.qname)
    /\ m.state \in {"EXCHANGE"} \cup Awaiting => m.iterations < MaxIterations
    /\ m.state = "RETURN_RESP" => Returnable(m, q)

EntryOK(k, msg) ==
    /\ k \in Keys /\ msg \in Message
    /\ IF k[2] = "delegation"
       THEN k[1] \in Zones /\ msg.ns = <<NS(k[1])>> /\ msg.extra \subseteq NSNames[k[1]]
       ELSE /\ GoodAnswer(k[1], k[2], msg.answer)
            /\ msg.answer = <<>> => Denied(k[1], k[2], msg.rcode)

ResultOK(x) ==
    /\ x \in [name : Hosts, ips : Seq(AllNames)] /\ x.ips # <<>>
    /\ \A i \in DOMAIN x.ips : x.ips[i] = x.name

\* A request's sub-queries run while it waits for them, and only for servers
\* it was referred to.
Crew(r) ==
    LET c == machine[Client(r)]
    IN  /\ c.state # "blocked"
        /\ \A w \in Workers : w[1] = r =>
              /\ machine[w].state \notin Awaiting
              /\ question[w] = [name |-> w[2], type |-> "A"]
              /\ machine[w].state \notin {"off", "done"} => c.state \in Awaiting /\ w[2] \in getNSNames(c.response)
        /\ \A i \in DOMAIN nsResults[r] :
              /\ ResultOK(nsResults[r][i])
              /\ c.state \in Awaiting => nsResults[r][i].name \in getNSNames(c.response)
        /\ c.state = "AWAIT_REST" => nsResults[r] # <<>>

\* A positive or negative reply to q is what the world says.
Right(q, msg) ==
    msg.rcode \in {"NOERROR", "NXDOMAIN"} /\ ~Local(q.name) =>
        /\ Resolvable(q.name, q.type)
        /\ msg.rcode = TrueRcode(q.name, q.type)
        /\ Linked(q.name, msg.answer)
        /\ \A i \in DOMAIN msg.answer : msg.answer[i] \in Records
        /\ TrueData(q.name, q.type) # {} =>
             msg.answer # <<>> /\ msg.answer[Len(msg.answer)] \in TrueData(q.name, q.type)

ReplyOK(r) ==
    /\ reply[r] # NoReply => machine[Client(r)].state = "done"
    /\ Right(question[Client(r)], reply[r])

RunsSound == machine \in [Procs -> Machines] /\ \A p \in Procs : Sound(machine[p], question[p])
CacheSound == \A k \in DOMAIN cache : EntryOK(k, cache[k])
ResultsSound == \A x \in background : ResultOK(x)

TruthInv ==
    /\ TypeOK /\ RunsSound /\ CacheSound /\ ResultsSound
    /\ \A r \in Requests : Crew(r) /\ ReplyOK(r)

-----------------------------------------------------------------------------
(* Sequences *)

LEMMA EmptySeq ==
    ASSUME NEW S
    PROVE  <<>> \in Seq(S) /\ Len(<<>>) = 0 /\ \A s \in Seq(S) : s # <<>> => Len(s) \in Nat \ {0}
OBVIOUS

LEMMA LenProperties ==
    ASSUME NEW S, NEW s \in Seq(S)
    PROVE  Len(s) \in Nat /\ DOMAIN s = 1 .. Len(s) /\ s \in [1 .. Len(s) -> S]
OBVIOUS

LEMMA ElementOfSeq ==
    ASSUME NEW S, NEW s \in Seq(S), NEW i \in 1 .. Len(s)
    PROVE  s[i] \in S
OBVIOUS

LEMMA SeqDef ==
    ASSUME NEW S, NEW n \in Nat, NEW f \in [1 .. n -> S]
    PROVE  f \in Seq(S) /\ Len(f) = n
OBVIOUS

LEMMA AppendProperties ==
    ASSUME NEW S, NEW s \in Seq(S), NEW e \in S
    PROVE  /\ Append(s, e) \in Seq(S) /\ Append(s, e) # <<>> /\ Len(Append(s, e)) = Len(s) + 1
           /\ Append(s, e)[Len(s) + 1] = e /\ \A i \in 1 .. Len(s) : Append(s, e)[i] = s[i]
OBVIOUS

LEMMA ConcatProperties ==
    ASSUME NEW S, NEW s \in Seq(S), NEW t \in Seq(S)
    PROVE  /\ s \o t \in Seq(S) /\ Len(s \o t) = Len(s) + Len(t)
           /\ \A i \in 1 .. Len(s) + Len(t) :
                (s \o t)[i] = IF i <= Len(s) THEN s[i] ELSE t[i - Len(s)]
OBVIOUS

LEMMA ConcatEmptySeq ==
    ASSUME NEW S, NEW s \in Seq(S)
    PROVE  s \o <<>> = s /\ <<>> \o s = s
OBVIOUS

LEMMA PrefixProperties ==
    ASSUME NEW S, NEW s \in Seq(S), NEW n \in 0 .. Len(s)
    PROVE  /\ SubSeq(s, 1, n) \in Seq(S) /\ Len(SubSeq(s, 1, n)) = n
           /\ \A i \in 1 .. n : SubSeq(s, 1, n)[i] = s[i]
           /\ n = Len(s) => SubSeq(s, 1, n) = s
OBVIOUS

-----------------------------------------------------------------------------
(* The world *)

LEMMA Prefixes ==
    ASSUME NEW s \in Seq(STRING)
    PROVE  IsSubDomain(s, s) /\ IsSubDomain(<<>>, s)
<1>1. Len(s) \in Nat /\ SubSeq(s, 1, Len(s)) = s
  BY LenProperties, PrefixProperties
<1>2. SubSeq(s, 1, 0) = <<>> /\ Len(<<>>) = 0
  BY <1>1
<1> QED BY <1>1, <1>2 DEF IsSubDomain

LEMMA ZoneListPrefixes ==
    ASSUME NEW name \in Seq(STRING), NEW z \in ZoneList(name)
    PROVE  z \in Seq(STRING) /\ IsSubDomain(z, name)
<1>1. CASE z = name
  BY <1>1, Prefixes, Zenon
<1>2. ASSUME NEW n \in 1 .. Len(name), z = SubSeq(name, 1, n)
      PROVE  z \in Seq(STRING) /\ IsSubDomain(z, name)
  <2>1. Len(name) \in Nat /\ n \in Nat /\ n <= Len(name)
    BY LenProperties
  <2>2. z \in Seq(STRING) /\ Len(z) = n
    BY <1>2, <2>1, PrefixProperties
  <2> QED BY <1>2, <2>1, <2>2, Zenon DEF IsSubDomain
<1> QED BY <1>1, <1>2, Zenon DEF ZoneList

LEMMA ZoneFacts ==
    /\ <<>> \in Zones /\ Zones \subseteq Seq(STRING) /\ Zones \subseteq Names
    /\ \A z \in Zones : NSNames[z] \subseteq Hosts /\ NSNames[z] # {}
    /\ Hosts \subseteq Names /\ Names \subseteq AllNames /\ AllNames \subseteq Seq(STRING)
    /\ <<>> \notin Hosts
BY WorldAssumption, ResolverAssumption DEF Hosts, Names, AllNames

LEMMA RecordFacts ==
    ASSUME NEW r \in Records
    PROVE  /\ r = [name |-> r.name, type |-> r.type, data |-> r.data]
           /\ r.name \in Seq(STRING) /\ r.data \in Seq(STRING) /\ r.type \in {"A", "CNAME"}
           /\ r.name \in Names /\ r.data \in Names
           /\ r \in AllRecords
           /\ r.type = "CNAME" => r \in [name : Names, type : {"CNAME"}, data : Names]
           /\ Exists(r.name)
<1>1. r \in [name : Seq(STRING), type : {"A", "CNAME"}, data : Seq(STRING)]
  BY WorldAssumption, Zenon
<1>2. r.name \in Names
  BY Zenon DEF Names
<1>3. r.data \in Names
  <2>1. CASE r.type = "A"
    BY <1>2, <2>1, WorldAssumption, Zenon
  <2>2. CASE r.type = "CNAME"
    BY <2>2, Zenon DEF Names, Targets
  <2> QED BY <1>1, <2>1, <2>2, Zenon
<1>4. Exists(r.name)
  BY <1>1, Prefixes, Zenon DEF Exists
<1>5. r \in AllRecords
  BY <1>1, <1>2, <1>3, ZoneFacts, Zenon DEF AllRecords, Types
<1> QED BY <1>1, <1>2, <1>3, <1>4, <1>5, Zenon

\* A name has one alias or one address.
LEMMA OneRecord ==
    ASSUME NEW r \in Records, NEW s \in Records, r.name = s.name
    PROVE  /\ r.type = s.type /\ r = s
           /\ r.name \in Hosts => r.type = "A"
<1>1. r.type \in {"A", "CNAME"} /\ s.type \in {"A", "CNAME"}
  BY RecordFacts, Zenon
<1>2. r.type = s.type /\ (r.name \in Hosts => r.type = "A")
  BY <1>1, WorldAssumption, Zenon DEF At
<1> QED BY <1>2, WorldAssumption, Zenon

-----------------------------------------------------------------------------
(* What servers answer *)

\* The sections of a reply besides the answer name servers of zone z only.
From(z, msg) ==
    /\ msg.ns \in {<<>>, <<SOA(z)>>, <<NS(z)>>}
    /\ msg.extra \subseteq NSNames[z]
    /\ msg.extra # {} => msg.ns = <<NS(z)>>

LEMMA PlainShape ==
    ASSUME NEW z \in Zones, NEW name \in Seq(STRING), NEW type \in Types, NEW style
    PROVE  LET msg == Plain(z, name, type, style)
           IN  /\ msg = [rcode |-> msg.rcode, answer |-> msg.answer, ns |-> msg.ns, extra |-> msg.extra]
               /\ msg.rcode = IF Exists(name) THEN "NOERROR" ELSE "NXDOMAIN"
               /\ From(z, msg)
               /\ \/ /\ msg.answer = <<>>
                     /\ At(name, type) = {} /\ At(name, "CNAME") = {}
                  \/ /\ Exists(name) /\ msg.ns # <<SOA(z)>>
                     /\ \E r \in Records : /\ msg.answer = <<r>>
                                           /\ r.name = name /\ r.type \in {type, "CNAME"}
<1> DEFINE found == At(name, type) \cup At(name, "CNAME")
           msg == Plain(z, name, type, style)
<1>1. /\ msg = [rcode |-> msg.rcode, answer |-> msg.answer, ns |-> msg.ns, extra |-> msg.extra]
      /\ msg.rcode = IF Exists(name) THEN "NOERROR" ELSE "NXDOMAIN"
      /\ msg.answer = IF found = {} THEN <<>> ELSE <<CHOOSE r \in found : TRUE>>
      /\ msg.ns = IF found = {} THEN Negative(z, style) ELSE Authority(z, style)
      /\ msg.extra = IF found = {} THEN {} ELSE Additional(z, style)
  BY Zenon DEF Plain
<1>2. NS(z) # SOA(z) /\ <<NS(z)>> # <<SOA(z)>>
  BY Zenon DEF NS, SOA
<1> HIDE DEF msg
<1>3. CASE found = {}
  <2>1. msg.answer = <<>> /\ msg.ns = Negative(z, style) /\ msg.extra = {}
    BY <1>1, <1>3, Zenon
  <2>2. From(z, msg)
    BY <2>1, Zenon DEF From, Negative
  <2>3. At(name, type) = {} /\ At(name, "CNAME") = {}
    BY <1>3, Zenon
  <2> QED BY <1>1, <2>1, <2>2, <2>3, Zenon DEF msg
<1>4. CASE found # {}
  <2> DEFINE r == CHOOSE rr \in found : TRUE
  <2>1. r \in found
    BY <1>4, Zenon
  <2>2. r \in Records /\ r.name = name /\ r.type \in {type, "CNAME"}
    BY <2>1, Zenon DEF At
  <2>3. Exists(name)
    BY <2>2, RecordFacts, Zenon
  <2>4. msg.answer = <<r>> /\ msg.ns = Authority(z, style) /\ msg.extra = Additional(z, style)
    BY <1>1, <1>4, Zenon
  <2>5. From(z, msg) /\ msg.ns # <<SOA(z)>>
    BY <1>2, <2>4 DEF From, Authority, Additional
  <2> HIDE DEF r, found
  <2> QED BY <1>1, <2>2, <2>3, <2>4, <2>5, Zenon DEF msg
<1> QED BY <1>3, <1>4, Zenon

\* What a reply from zone z may say of the name.
Says(z, name, type, msg) ==
    /\ msg = [rcode |-> msg.rcode, answer |-> msg.answer, ns |-> msg.ns, extra |-> msg.extra]
    /\ msg.rcode \in {"NOERROR", "NXDOMAIN"}
    /\ From(z, msg) /\ IsSubDomain(z, name)
    /\ msg.answer \in Seq(Records) /\ GoodAnswer(name, type, msg.answer)
    /\ msg.rcode = "NXDOMAIN" => Dead(name, type)
    /\ msg.rcode = "NOERROR" /\ msg.answer = <<>> /\ msg.ns = <<SOA(z)>> => NoData(name, type)

LEMMA SingleAnswer ==
    ASSUME NEW r \in Records, NEW type, r.type \in {type, "CNAME"}
    PROVE  <<r>> \in Seq(Records) /\ GoodAnswer(r.name, type, <<r>>) /\ <<r>> # <<>>
<1>1. <<r>> \in Seq(Records) /\ Len(<<r>>) = 1 /\ DOMAIN <<r>> = {1} /\ <<r>>[1] = r
  OBVIOUS
<1> QED BY <1>1 DEF GoodAnswer, Linked

LEMMA PairAnswer ==
    ASSUME NEW c \in Records, c.type = "CNAME", NEW r \in Records, r.name = c.data,
           NEW type, type # "CNAME", r.type \in {type, "CNAME"}
    PROVE  LET rrs == <<c>> \o <<r>>
           IN  rrs \in Seq(Records) /\ GoodAnswer(c.name, type, rrs) /\ rrs # <<>>
<1> DEFINE rrs == <<c>> \o <<r>>
<1>1. <<c>> \in Seq(Records) /\ <<r>> \in Seq(Records) /\ Len(<<c>>) = 1 /\ Len(<<r>>) = 1
      /\ <<c>>[1] = c /\ <<r>>[1] = r
  OBVIOUS
<1>2. /\ rrs \in Seq(Records) /\ Len(rrs) = 2
      /\ rrs[1] = c /\ rrs[2] = r
  BY <1>1, ConcatProperties
<1> HIDE DEF rrs
<1>3. DOMAIN rrs = {1, 2} /\ rrs # <<>>
  <2>1. DOMAIN rrs = 1 .. 2
    BY <1>2, LenProperties, Zenon
  <2>2. 1 .. 2 = {1, 2}
    OBVIOUS
  <2>3. Len(rrs) # Len(<<>>)
    BY <1>2, EmptySeq
  <2>4. rrs # <<>>
    BY <2>3, Zenon
  <2> QED BY <2>1, <2>2, <2>4, Zenon
<1> QED BY <1>2, <1>3 DEF GoodAnswer, Linked, rrs

LEMMA PlainSays ==
    ASSUME NEW z \in Zones, NEW name \in Seq(STRING), NEW type \in Types, NEW style, IsSubDomain(z, name)
    PROVE  Says(z, name, type, Plain(z, name, type, style))
<1> DEFINE msg == Plain(z, name, type, style)
<1>1. /\ msg = [rcode |-> msg.rcode, answer |-> msg.answer, ns |-> msg.ns, extra |-> msg.extra]
      /\ msg.rcode = IF Exists(name) THEN "NOERROR" ELSE "NXDOMAIN"
      /\ From(z, msg)
      /\ \/ /\ msg.answer = <<>>
            /\ At(name, type) = {} /\ At(name, "CNAME") = {}
         \/ /\ Exists(name) /\ msg.ns # <<SOA(z)>>
            /\ \E r \in Records : /\ msg.answer = <<r>>
                                  /\ r.name = name /\ r.type \in {type, "CNAME"}
  BY PlainShape
<1> HIDE DEF msg
<1>2. msg.answer \in Seq(Records) /\ GoodAnswer(name, type, msg.answer)
  <2>1. CASE msg.answer = <<>>
    BY <2>1 DEF GoodAnswer, Linked
  <2>2. CASE msg.answer # <<>>
    <3>1. PICK r \in Records : msg.answer = <<r>> /\ r.name = name /\ r.type \in {type, "CNAME"}
      BY <1>1, <2>2, Zenon
    <3> QED BY <3>1, SingleAnswer
  <2> QED BY <2>1, <2>2, Zenon
<1>3. msg.answer = <<>> /\ msg.ns = <<SOA(z)>> => At(name, type) = {} /\ At(name, "CNAME") = {}
  BY <1>1, Zenon
<1>4. msg.rcode = "NXDOMAIN" => Dead(name, type)
  BY <1>1, Zenon DEF Dead
<1>5. msg.rcode = "NOERROR" => Exists(name)
  BY <1>1, Zenon
<1> QED BY <1>1, <1>2, <1>3, <1>4, <1>5, Zenon DEF Says, NoData, msg

LEMMA InZoneSays ==
    ASSUME NEW z \in Zones, NEW name \in Seq(STRING), NEW type \in Types, NEW style, IsSubDomain(z, name)
    PROVE  Says(z, name, type, InZone(z, name, type, style))
<1> DEFINE first == Plain(z, name, type, style)
           alias == At(name, "CNAME")
           target == AliasOf(name)
           rest == Plain(z, target, type, style)
           chased == "chase" \in style /\ type # "CNAME" /\ alias # {}
                        /\ IsSubDomain(z, target) /\ Cuts(z, target) = {}
           msg == InZone(z, name, type, style)
<1>1. CASE ~chased
  <2>1. msg = first
    BY <1>1, Zenon DEF InZone
  <2> QED BY <2>1, PlainSays, Zenon
<1>2. CASE chased
  <2>1. msg = [rest EXCEPT !.answer = first.answer \o rest.answer]
    BY <1>2, Zenon DEF InZone
  <2>2. PICK c \in Records : c = (CHOOSE r \in alias : TRUE) /\ c.name = name /\ c.type = "CNAME"
    BY <1>2, Zenon DEF At
  <2>3. target = c.data /\ c.data \in Seq(STRING)
    BY <2>2, RecordFacts, Zenon DEF AliasOf
  <2>4. first.answer = <<c>>
    <3>1. c \in At(name, "CNAME")
      BY <2>2, Zenon DEF At
    <3>2. PICK r \in Records : first.answer = <<r>> /\ r.name = name
      BY <3>1, PlainShape
    <3> QED BY <2>2, <3>2, OneRecord, Zenon
  <2>5. /\ rest = [rcode |-> rest.rcode, answer |-> rest.answer, ns |-> rest.ns, extra |-> rest.extra]
        /\ rest.rcode = IF Exists(c.data) THEN "NOERROR" ELSE "NXDOMAIN"
        /\ From(z, rest)
        /\ \/ rest.answer = <<>>
           \/ \E r \in Records : rest.answer = <<r>> /\ r.name = c.data /\ r.type \in {type, "CNAME"}
    <3>1. rest = Plain(z, c.data, type, style)
      BY <2>3, Zenon
    <3> HIDE DEF rest
    <3> QED BY <2>3, <3>1, PlainShape
  <2> HIDE DEF first, rest, target
  <2>6. /\ msg = [rcode |-> msg.rcode, answer |-> msg.answer, ns |-> msg.ns, extra |-> msg.extra]
        /\ msg.rcode = rest.rcode /\ msg.ns = rest.ns /\ msg.extra = rest.extra
        /\ msg.answer = <<c>> \o rest.answer
    <3> HIDE DEF msg
    <3> QED BY <2>1, <2>4, <2>5, Zenon
  <2>7. msg.answer # <<>> /\ msg.answer \in Seq(Records) /\ GoodAnswer(name, type, msg.answer)
    <3> HIDE DEF msg
    <3>1. CASE rest.answer = <<>>
      <4>1. msg.answer = <<c>>
        BY <2>6, <3>1
      <4>2. c.type \in {type, "CNAME"}
        BY <2>2, Zenon
      <4>3. <<c>> \in Seq(Records) /\ GoodAnswer(c.name, type, <<c>>) /\ <<c>> # <<>>
        <5> HIDE DEF chased
        <5> QED BY <4>2, SingleAnswer
      <4> QED BY <4>1, <4>3, <2>2, Zenon
    <3>2. CASE rest.answer # <<>>
      <4>1. PICK r \in Records : rest.answer = <<r>> /\ r.name = c.data /\ r.type \in {type, "CNAME"}
        BY <2>5, <3>2, Zenon
      <4>2. type # "CNAME"
        BY <1>2, Zenon
      <4>3. msg.answer = <<c>> \o <<r>>
        BY <2>6, <4>1, Zenon
      <4> HIDE DEF chased
      <4> QED BY <2>2, <4>1, <4>2, <4>3, PairAnswer, Zenon
    <3> QED BY <3>1, <3>2, Zenon
  <2>8. msg.rcode = "NXDOMAIN" => Dead(name, type)
    <3>1. c \in At(name, "CNAME") /\ type # "CNAME"
      BY <1>2, <2>2, Zenon DEF At
    <3> HIDE DEF msg
    <3> QED BY <2>5, <2>6, <3>1, Zenon DEF Dead
  <2>9. From(z, msg) /\ msg.rcode \in {"NOERROR", "NXDOMAIN"}
    <3> HIDE DEF msg
    <3> QED BY <2>5, <2>6, Zenon DEF From
  <2> HIDE DEF msg
  <2> QED BY <2>6, <2>7, <2>8, <2>9, Zenon DEF Says, msg
<1> QED BY <1>1, <1>2, Zenon

-----------------------------------------------------------------------------
(* The end of the aliases *)

\* Aliases of the world that lead from a name to another.
Path(name, end, rrs) ==
    /\ rrs \in Seq(Records) /\ \A i \in 1 .. Len(rrs) : rrs[i].type = "CNAME"
    /\ Linked(name, rrs)
    /\ end = IF Len(rrs) = 0 THEN name ELSE rrs[Len(rrs)].data

LEMMA PathFacts ==
    ASSUME NEW name, NEW end, NEW rrs, Path(name, end, rrs)
    PROVE  /\ Len(rrs) \in Nat
           /\ \A i \in 1 .. Len(rrs) : rrs[i] \in Records /\ rrs[i].type = "CNAME"
           /\ Len(rrs) = 0 => end = name
           /\ Len(rrs) > 0 => rrs[1].name = name /\ rrs[Len(rrs)].data = end
           /\ \A i \in 1 .. Len(rrs) : i < Len(rrs) => rrs[i + 1].name = rrs[i].data
<1>1. rrs \in Seq(Records) /\ Len(rrs) \in Nat /\ DOMAIN rrs = 1 .. Len(rrs)
  BY LenProperties, Zenon DEF Path
<1>2. \A i \in 1 .. Len(rrs) : rrs[i] \in Records /\ rrs[i].type = "CNAME"
  BY <1>1, ElementOfSeq, Zenon DEF Path
<1>3. \A i \in 1 .. Len(rrs) : rrs[i].name = IF i = 1 THEN name ELSE rrs[i - 1].data
  BY <1>1, Zenon DEF Path, Linked
<1>4. ASSUME NEW i \in 1 .. Len(rrs), i < Len(rrs) PROVE rrs[i + 1].name = rrs[i].data
  <2>1. i + 1 \in 1 .. Len(rrs) /\ i + 1 # 1 /\ (i + 1) - 1 = i
    BY <1>1, <1>4
  <2>2. rrs[i + 1].name = IF i + 1 = 1 THEN name ELSE rrs[(i + 1) - 1].data
    BY <1>3, <2>1, Zenon
  <2> QED BY <2>1, <2>2, Zenon
<1>5. Len(rrs) > 0 => 1 \in 1 .. Len(rrs)
  BY <1>1
<1> QED BY <1>1, <1>2, <1>3, <1>4, <1>5 DEF Path

LEMMA PathConcat ==
    ASSUME NEW a, NEW b, NEW c, NEW s, NEW t, Path(a, b, s), Path(b, c, t)
    PROVE  Path(a, c, s \o t)
<1> DEFINE u == s \o t
<1>1. /\ s \in Seq(Records) /\ t \in Seq(Records)
      /\ Len(s) \in Nat /\ Len(t) \in Nat
      /\ \A i \in 1 .. Len(s) : s[i].type = "CNAME" /\ s[i].name = IF i = 1 THEN a ELSE s[i - 1].data
      /\ \A i \in 1 .. Len(t) : t[i].type = "CNAME" /\ t[i].name = IF i = 1 THEN b ELSE t[i - 1].data
      /\ b = IF Len(s) = 0 THEN a ELSE s[Len(s)].data
      /\ c = IF Len(t) = 0 THEN b ELSE t[Len(t)].data
  BY LenProperties, Zenon DEF Path, Linked
<1>2. /\ u \in Seq(Records) /\ Len(u) = Len(s) + Len(t) /\ DOMAIN u = 1 .. Len(u)
      /\ \A i \in 1 .. Len(s) : u[i] = s[i]
      /\ \A i \in 1 .. Len(u) : i > Len(s) => i - Len(s) \in 1 .. Len(t) /\ u[i] = t[i - Len(s)]
  <2>1. /\ u \in Seq(Records) /\ Len(u) = Len(s) + Len(t)
        /\ \A i \in 1 .. Len(s) + Len(t) : u[i] = IF i <= Len(s) THEN s[i] ELSE t[i - Len(s)]
    BY <1>1, ConcatProperties
  <2> HIDE DEF u
  <2> QED BY <1>1, <2>1, LenProperties
<1> HIDE DEF u
<1>3. ASSUME NEW i \in 1 .. Len(u)
      PROVE  u[i].type = "CNAME" /\ u[i].name = IF i = 1 THEN a ELSE u[i - 1].data
  <2>1. CASE i <= Len(s)
    <3>1. i \in 1 .. Len(s) /\ (i # 1 => i - 1 \in 1 .. Len(s))
      BY <1>1, <2>1
    <3> QED BY <1>1, <1>2, <3>1, Zenon
  <2>2. CASE i = Len(s) + 1
    <3>1. i > Len(s) /\ i - Len(s) = 1 /\ 1 \in 1 .. Len(t)
      BY <1>1, <1>2, <2>2
    <3>2. u[i] = t[1] /\ u[i].name = b /\ u[i].type = "CNAME"
      BY <1>1, <1>2, <3>1
    <3>3. Len(s) # 0 => i # 1 /\ i - 1 = Len(s) /\ Len(s) \in 1 .. Len(s)
      BY <1>1, <2>2
    <3> QED BY <1>1, <1>2, <2>2, <3>2, <3>3
  <2>3. CASE i > Len(s) + 1
    <3>1. /\ i > Len(s) /\ i - 1 > Len(s) /\ i - 1 \in 1 .. Len(u) /\ i # 1
          /\ i - Len(s) # 1 /\ (i - 1) - Len(s) = (i - Len(s)) - 1
      BY <1>1, <1>2, <2>3
    <3>2. u[i] = t[i - Len(s)] /\ u[i - 1] = t[(i - Len(s)) - 1] /\ i - Len(s) \in 1 .. Len(t)
      BY <1>2, <3>1, Zenon
    <3> QED BY <1>1, <3>1, <3>2
  <2> QED BY <1>1, <1>2, <2>1, <2>2, <2>3
<1>4. c = IF Len(u) = 0 THEN a ELSE u[Len(u)].data
  <2>1. CASE Len(t) = 0
    <3>1. Len(u) = Len(s) /\ (Len(s) # 0 => Len(s) \in 1 .. Len(s))
      BY <1>1, <1>2, <2>1
    <3> QED BY <1>1, <1>2, <2>1, <3>1
  <2>2. CASE Len(t) # 0
    <3>1. /\ Len(u) > Len(s) /\ Len(u) \in 1 .. Len(u) /\ Len(u) - Len(s) = Len(t) /\ Len(u) # 0
          /\ Len(t) \in 1 .. Len(t)
      BY <1>1, <1>2, <2>2
    <3>2. u[Len(u)] = t[Len(t)]
      BY <1>2, <3>1, Zenon
    <3> QED BY <1>1, <2>2, <3>1, <3>2, Zenon
  <2> QED BY <2>1, <2>2, Zenon
<1>5. Linked(a, u)
  BY <1>2, <1>3, Zenon DEF Linked
<1> QED BY <1>2, <1>3, <1>4, <1>5, Zenon DEF Path, u

-----------------------------------------------------------------------------
(* What answers and denials mean *)

LEMMA AnswerFacts ==
    ASSUME NEW X, NEW name, NEW type, NEW ans \in Seq(X), GoodAnswer(name, type, ans)
    PROVE  /\ Len(ans) \in Nat /\ DOMAIN ans = 1 .. Len(ans) /\ ans \in Seq(Records)
           /\ (ans = <<>>) = (Len(ans) = 0)
           /\ \A i \in 1 .. Len(ans) : ans[i] \in Records /\ ans[i].type \in {type, "CNAME"}
           /\ ans # <<>> => ans[1].name = name /\ ans[1] \in Records
           /\ \A i \in 1 .. Len(ans) : i + 1 <= Len(ans) => ans[i + 1].name = ans[i].data
<1>1. /\ Len(ans) \in Nat /\ DOMAIN ans = 1 .. Len(ans) /\ ans \in [1 .. Len(ans) -> X]
      /\ (ans = <<>>) = (Len(ans) = 0)
  BY LenProperties, EmptySeq, Zenon
<1>2. \A i \in 1 .. Len(ans) : ans[i] \in Records /\ ans[i].type \in {type, "CNAME"}
  BY <1>1, Zenon DEF GoodAnswer
<1>3. ans \in Seq(Records)
  <2>1. ans \in [1 .. Len(ans) -> Records]
    BY <1>1, <1>2, Zenon
  <2> QED BY <1>1, <2>1, SeqDef, Zenon
<1>4. \A i \in 1 .. Len(ans) : ans[i].name = IF i = 1 THEN name ELSE ans[i - 1].data
  BY <1>1, Zenon DEF GoodAnswer, Linked
<1>5. ASSUME NEW i \in 1 .. Len(ans), i + 1 <= Len(ans) PROVE ans[i + 1].name = ans[i].data
  <2>1. i + 1 \in 1 .. Len(ans) /\ i + 1 # 1 /\ (i + 1) - 1 = i
    BY <1>1, <1>5
  <2>2. ans[i + 1].name = IF i + 1 = 1 THEN name ELSE ans[(i + 1) - 1].data
    BY <1>4, <2>1, Zenon
  <2> QED BY <2>1, <2>2, Zenon
<1>6. ans # <<>> => 1 \in 1 .. Len(ans)
  BY <1>1
<1> QED BY <1>1, <1>2, <1>3, <1>4, <1>5, <1>6, Zenon

LEMMA NoRecordAtDead ==
    ASSUME NEW name, ~Exists(name)
    PROVE  \A type : At(name, type) = {}
BY RecordFacts, Zenon DEF At

LEMMA EmptyPath ==
    ASSUME NEW name
    PROVE  Path(name, name, <<>>)
BY EmptySeq DEF Path, Linked

\* A name with an answer of the type asked for is not dead.
LEMMA AnswerLives ==
    ASSUME NEW name, NEW type \in Types, NEW X, NEW ans \in Seq(X), GoodAnswer(name, type, ans),
           \E i \in DOMAIN ans : ans[i].type = type
    PROVE  ~Dead(name, type)
<1>1. /\ Len(ans) \in Nat /\ DOMAIN ans = 1 .. Len(ans) /\ (ans = <<>>) = (Len(ans) = 0)
      /\ \A i \in 1 .. Len(ans) : ans[i] \in Records
      /\ ans # <<>> => ans[1].name = name /\ ans[1] \in Records
      /\ \A i \in 1 .. Len(ans) : i + 1 <= Len(ans) => ans[i + 1].name = ans[i].data
  BY AnswerFacts
<1>2. PICK i \in 1 .. Len(ans) : ans[i].type = type
  BY <1>1, Zenon
<1>3. ans[1].name = name /\ ans[1] \in Records /\ 1 \in 1 .. Len(ans)
  BY <1>1, <1>2
<1>4. Exists(name)
  BY <1>3, RecordFacts, Zenon
<1> SUFFICES ASSUME type # "CNAME", NEW r \in At(name, "CNAME"), ~Exists(r.data) PROVE FALSE
  BY <1>4, Zenon DEF Dead
<1>5. r \in Records /\ r.name = name /\ r.type = "CNAME"
  BY Zenon DEF At
<1>6. ans[1] = r
  BY <1>3, <1>5, OneRecord, Zenon
<1>7. i # 1 /\ 1 + 1 <= Len(ans) /\ 1 + 1 \in 1 .. Len(ans)
  BY <1>1, <1>2, <1>5, <1>6
<1>8. ans[1 + 1] \in Records /\ ans[1 + 1].name = r.data
  BY <1>1, <1>3, <1>6, <1>7, Zenon
<1> QED BY <1>8, RecordFacts, Zenon

\* The alias of a dead name leads to a dead one.
LEMMA AliasDead ==
    ASSUME NEW c \in Records, c.type = "CNAME", NEW type, Dead(c.name, type)
    PROVE  Dead(c.data, type)
<1>1. Exists(c.name)
  BY RecordFacts, Zenon
<1>2. PICK r \in Records : r.name = c.name /\ ~Exists(r.data)
  BY <1>1, Zenon DEF Dead, At
<1> QED BY <1>2, OneRecord, Zenon DEF Dead

-----------------------------------------------------------------------------
(* Steps of one run that leave its request's sub-queries alone *)

LEMMA ProcFacts ==
    /\ \A r \in Requests : Client(r) \in Procs /\ ~IsWorker(Client(r)) /\ Client(r)[1] = r
                           /\ Client(r) \notin Workers
    /\ \A w \in Workers : w \in Procs /\ IsWorker(w) /\ w[1] \in Requests /\ w[2] \in Hosts
                          /\ \A r \in Requests : w # Client(r)
    /\ \A p \in Procs : /\ p[1] \in Requests
                        /\ IsWorker(p) => p \in Workers
                        /\ ~IsWorker(p) => p = Client(p[1])
BY ZoneFacts DEF Procs, Workers, Client, IsWorker

LEMMA TypeFacts ==
    ASSUME TruthInv, NEW p \in Procs
    PROVE  /\ machine \in [Procs -> Machines] /\ machine[p] \in Machines
           /\ question[p] \in [name : AllNames, type : Types]
           /\ Sound(machine[p], question[p])
BY Zenon DEF TruthInv, RunsSound, TypeOK

\* The parts of the type invariant that few steps touch.
LEMMA TypeKept ==
    ASSUME TypeOK, machine' \in [Procs -> Machines], CacheSound',
           UNCHANGED <<question, nsLimit, nsResults, reply, expiries>>
    PROVE  TypeOK'
BY Zenon DEF TypeOK, Machines, CacheSound, EntryOK

LEMMA LocalStep ==
    ASSUME TruthInv, NEW p \in Procs, NEW m \in Machines, machine' = [machine EXCEPT ![p] = m],
           machine[p].state \notin {"off", "done"} \cup Awaiting,
           m.state \notin {"off", "blocked"} \cup Awaiting,
           Sound(m, question[p]), CacheSound',
           UNCHANGED <<question, nsLimit, nsResults, background, reply, expiries>>
    PROVE  TruthInv'
<1>1. /\ machine \in [Procs -> Machines] /\ machine' \in [Procs -> Machines]
      /\ machine'[p] = m /\ \A o \in Procs : o # p => machine'[o] = machine[o]
  BY TypeFacts, Zenon
<1>2. TypeOK' /\ RunsSound' /\ ResultsSound'
  <2>1. TypeOK'
    BY <1>1, TypeKept, Zenon DEF TruthInv
  <2>2. ASSUME NEW o \in Procs PROVE Sound(machine'[o], question'[o])
    BY <1>1, TypeFacts, Zenon
  <2> QED BY <1>1, <2>1, <2>2, Zenon DEF TruthInv, RunsSound, ResultsSound
<1>3. ASSUME NEW r \in Requests PROVE Crew(r)'
  <2> DEFINE c == Client(r)
  <2>1. c \in Procs /\ Crew(r)
    BY ProcFacts, Zenon DEF TruthInv
  <2>2. ASSUME NEW w \in Workers, w[1] = r
        PROVE  /\ machine'[w].state \notin Awaiting
               /\ question'[w] = [name |-> w[2], type |-> "A"]
               /\ machine'[w].state \notin {"off", "done"} =>
                     machine'[c].state \in Awaiting /\ w[2] \in getNSNames(machine'[c].response)
    <3>1. w \in Procs /\ w # c
      BY ProcFacts, Zenon
    <3>2. /\ machine[w].state \notin Awaiting
          /\ question[w] = [name |-> w[2], type |-> "A"]
          /\ machine[w].state \notin {"off", "done"} =>
                machine[c].state \in Awaiting /\ w[2] \in getNSNames(machine[c].response)
      BY <2>1, <2>2, Zenon DEF Crew
    <3>3. CASE p = w
      BY <1>1, <2>1, <3>1, <3>2, <3>3, Zenon
    <3>4. CASE p = c
      BY <1>1, <2>1, <3>1, <3>2, <3>4, Zenon
    <3>5. CASE p # w /\ p # c
      BY <1>1, <2>1, <3>1, <3>2, <3>5, Zenon
    <3> QED BY <3>3, <3>4, <3>5, Zenon
  <2>3. /\ machine'[c].state \in Awaiting => machine'[c] = machine[c]
        /\ machine'[c].state \notin Awaiting => machine'[c].state # "AWAIT_REST"
    BY <1>1, <2>1, Zenon DEF Awaiting
  <2>4. ASSUME NEW i \in DOMAIN nsResults'[r]
        PROVE  /\ ResultOK(nsResults'[r][i])
               /\ machine'[c].state \in Awaiting => nsResults'[r][i].name \in getNSNames(machine'[c].response)
    BY <2>1, <2>3, Zenon DEF Crew
  <2>5. machine'[c].state = "AWAIT_REST" => nsResults'[r] # <<>>
    BY <2>1, <2>3, Zenon DEF Crew
  <2>6. machine'[c].state # "blocked"
    BY <1>1, <2>1, Zenon DEF Crew
  <2> QED BY <2>2, <2>4, <2>5, <2>6, Zenon DEF Crew
<1>4. ASSUME NEW r \in Requests PROVE ReplyOK(r)'
  <2>1. Client(r) \in Procs /\ ReplyOK(r)
    BY ProcFacts, Zenon DEF TruthInv
  <2>2. reply'[r] # NoReply => machine'[Client(r)].state = "done"
    BY <1>1, <2>1, Zenon DEF ReplyOK
  <2>3. Right(question'[Client(r)], reply'[r])
    BY <2>1, Zenon DEF ReplyOK
  <2> QED BY <2>2, <2>3, Zenon DEF ReplyOK
<1> QED BY <1>2, <1>3, <1>4, Zenon DEF TruthInv

LEMMA GoToMoves ==
    ASSUME TruthInv, NEW p \in Procs, machine[p].iterations < MaxIterations,
           NEW s \in States, NEW resp \in Message, GoTo(p, s, resp)
    PROVE  \E m \in Machines :
              /\ machine' = [machine EXCEPT ![p] = m]
              /\ m.state = s /\ m.response = resp
              /\ m.qname = machine[p].qname /\ m.cnameChain = machine[p].cnameChain
<1> DEFINE m == [machine[p] EXCEPT !.state = s, !.response = resp, !.iterations = @ + 1]
<1>1. machine \in [Procs -> Machines] /\ machine[p] \in Machines
  BY TypeFacts, Zenon
<1>2. machine[p].iterations + 1 \in 0 .. MaxIterations
  BY <1>1, ResolverAssumption DEF Machines
<1>3. m \in Machines
  BY <1>1, <1>2, Zenon DEF Machines
<1>4. machine' = [machine EXCEPT ![p] = m]
  BY <1>1, Zenon DEF GoTo
<1>5. /\ m.state = s /\ m.response = resp
      /\ m.qname = machine[p].qname /\ m.cnameChain = machine[p].cnameChain
  BY <1>1, Zenon DEF Machines
<1> HIDE DEF m
<1> QED BY <1>3, <1>4, <1>5, Zenon

\* The fields of a message, and of one with some fields replaced.
LEMMA MessageFacts ==
    ASSUME NEW msg \in Message
    PROVE  /\ msg = [rcode |-> msg.rcode, answer |-> msg.answer, ns |-> msg.ns, extra |-> msg.extra]
           /\ msg.rcode \in Rcodes /\ msg.answer \in Seq(AllRecords)
           /\ msg.ns \in Seq([type : {"NS", "SOA"}, zone : Zones]) /\ msg.extra \subseteq Hosts
BY Zenon DEF Message, Answers

LEMMA MessageMade ==
    ASSUME NEW rcode \in Rcodes, NEW answer \in Seq(AllRecords),
           NEW ns \in Seq([type : {"NS", "SOA"}, zone : Zones]), NEW extra \in SUBSET Hosts
    PROVE  [rcode |-> rcode, answer |-> answer, ns |-> ns, extra |-> extra] \in Message
BY Zenon DEF Message, Answers

LEMMA EmptyMessage ==
    /\ Empty \in Message /\ Empty.rcode = "NOERROR" /\ Empty.answer = <<>> /\ Empty.ns = <<>>
    /\ Empty.extra = {} /\ GlueFits(Empty)
<1>1. Empty.rcode = "NOERROR" /\ Empty.answer = <<>> /\ Empty.ns = <<>> /\ Empty.extra = {}
  BY Zenon DEF Empty
<1>2. Empty \in Message
  <2>1. "NOERROR" \in Rcodes /\ <<>> \in Seq(AllRecords) /\ <<>> \in Seq([type : {"NS", "SOA"}, zone : Zones])
    BY EmptySeq, Zenon DEF Rcodes
  <2> QED BY <2>1, MessageMade, Zenon DEF Empty
<1>3. GlueFits(Empty)
  BY <1>1, EmptySeq DEF GlueFits
<1> QED BY <1>1, <1>2, <1>3, Zenon

LEMMA CacheKept ==
    ASSUME TruthInv, UNCHANGED cache
    PROVE  CacheSound'
BY Zenon DEF TruthInv, CacheSound

LEMMA EarlyFacts ==
    ASSUME TruthInv, NEW p \in Procs, machine[p].state \in Early
    PROVE  /\ Chained(machine[p], question[p]) /\ machine[p].cnameChain = <<>>
           /\ machine[p].qname = question[p].name /\ machine[p].response = Empty
<1>1. /\ Chained(machine[p], question[p]) /\ machine[p].cnameChain = <<>> /\ machine[p].response = Empty
  BY TypeFacts, Zenon DEF Sound, Active, Early
<1> QED BY <1>1, EmptySeq, Zenon DEF Chained

LEMMA StateInitStep ==
    ASSUME TruthInv, NEW p \in Procs, StateInit(p)
    PROVE  TruthInv'
<1>1. machine[p].state = "STATE_INIT" /\ machine[p].iterations < MaxIterations
  BY Zenon DEF StateInit, In
<1>2. PICK m \in Machines :
          /\ machine' = [machine EXCEPT ![p] = m]
          /\ m.state = "HOSTS_LOOKUP" /\ m.response = Empty
          /\ m.qname = machine[p].qname /\ m.cnameChain = machine[p].cnameChain
  <2>1. "HOSTS_LOOKUP" \in States /\ GoTo(p, "HOSTS_LOOKUP", Empty)
    BY Zenon DEF States, StateInit
  <2> QED BY <1>1, <2>1, EmptyMessage, GoToMoves
<1>3. Sound(m, question[p])
  <2>1. Chained(m, question[p]) /\ m.cnameChain = <<>>
    BY <1>1, <1>2, EarlyFacts DEF Chained, Early
  <2> QED BY <1>2, <2>1, Zenon DEF Sound, Active, Early, Late, Awaiting
<1>4. CacheSound' /\ UNCHANGED <<question, nsLimit, nsResults, background, reply, expiries>>
  BY CacheKept, Zenon DEF StateInit, aside
<1> QED BY <1>1, <1>2, <1>3, <1>4, LocalStep, Zenon DEF Awaiting

\* What the local configuration has for a name may be returned.
LEMMA LocalSound ==
    ASSUME TruthInv, NEW p \in Procs, machine[p].state \in Early, Local(machine[p].qname),
           NEW m \in Machines, m.state = "RETURN_RESP",
           m.qname = machine[p].qname, m.cnameChain = machine[p].cnameChain,
           \A i \in DOMAIN m.response.answer :
              m.response.answer[i] \in Configured /\ m.response.answer[i].name = m.qname
    PROVE  Sound(m, question[p])
<1>1. /\ Chained(m, question[p]) /\ m.cnameChain = <<>> /\ m.qname = question[p].name
  BY EarlyFacts DEF Chained
<1>2. Returnable(m, question[p])
  BY <1>1, ResolverAssumption, Zenon DEF Returnable
<1> QED BY <1>1, <1>2, Zenon DEF Sound, Active, Early, Late, Awaiting

LEMMA ForwardMissStep ==
    ASSUME TruthInv, NEW p \in Procs, ForwardMiss(p)
    PROVE  TruthInv'
<1>1. machine[p].state = "FORWARD_LOOKUP" /\ machine[p].iterations < MaxIterations
  BY Zenon DEF ForwardMiss, In
<1>2. machine[p].response = Empty
  BY <1>1, EarlyFacts, Zenon DEF Early
<1>3. PICK m \in Machines :
          /\ machine' = [machine EXCEPT ![p] = m]
          /\ m.state = "CACHE_LOOKUP" /\ m.response = Empty
          /\ m.qname = machine[p].qname /\ m.cnameChain = machine[p].cnameChain
  <2>1. "CACHE_LOOKUP" \in States /\ GoTo(p, "CACHE_LOOKUP", Empty)
    BY <1>2, Zenon DEF States, ForwardMiss
  <2> QED BY <1>1, <2>1, EmptyMessage, GoToMoves
<1>4. Sound(m, question[p])
  <2>1. Chained(m, question[p])
    BY <1>1, <1>3, EarlyFacts DEF Chained, Early
  <2>2. Looking(m, question[p]) /\ GlueFits(m.response)
    BY <1>3, EmptyMessage, Zenon DEF Looking, ServeAll
  <2> QED BY <1>3, <2>1, <2>2, Zenon DEF Sound, Active, Early, Late, Awaiting
<1>5. CacheSound' /\ UNCHANGED <<question, nsLimit, nsResults, background, reply, expiries>>
  BY CacheKept, Zenon DEF ForwardMiss, aside
<1> QED BY <1>1, <1>3, <1>4, <1>5, LocalStep, Zenon DEF Awaiting

LEMMA ForwardHitStep ==
    ASSUME TruthInv, NEW p \in Procs, ForwardHit(p)
    PROVE  TruthInv'
<1> DEFINE qname == machine[p].qname
           resp == ForwardReply(qname, QType(p))
           found == {rr \in ForwardRecords : rr.name = qname /\ rr.type = QType(p)}
<1>1. machine[p].state = "FORWARD_LOOKUP" /\ machine[p].iterations < MaxIterations
  BY Zenon DEF ForwardHit, In
<1>2. resp \in Message /\ \A i \in DOMAIN resp.answer : resp.answer[i] \in Configured /\ resp.answer[i].name = qname
  <2>1. CASE found = {}
    <3>1. resp = [rcode |-> "NXDOMAIN", answer |-> <<>>, ns |-> <<>>, extra |-> {}]
      BY <2>1, Zenon DEF ForwardReply, WithRcode, Empty
    <3>2. /\ "NXDOMAIN" \in Rcodes /\ <<>> \in Seq(AllRecords)
          /\ <<>> \in Seq([type : {"NS", "SOA"}, zone : Zones])
      BY EmptySeq, Zenon DEF Rcodes
    <3> HIDE DEF resp
    <3>3. resp \in Message /\ resp.answer = <<>>
      BY <3>1, <3>2, MessageMade, Zenon
    <3> QED BY <3>3
  <2>2. CASE found # {}
    <3>1. PICK rr \in ForwardRecords : rr.name = qname /\ resp = [Empty EXCEPT !.answer = <<rr>>]
      BY <2>2, Zenon DEF ForwardReply
    <3> HIDE DEF resp
    <3>2. rr \in AllRecords /\ rr \in Configured
      BY ResolverAssumption, Zenon DEF Configured
    <3>3. resp = [rcode |-> "NOERROR", answer |-> <<rr>>, ns |-> <<>>, extra |-> {}]
      BY <3>1, Zenon DEF Empty
    <3>4. /\ "NOERROR" \in Rcodes /\ <<rr>> \in Seq(AllRecords)
          /\ <<>> \in Seq([type : {"NS", "SOA"}, zone : Zones])
      BY <3>2, EmptySeq DEF Rcodes
    <3>5. resp \in Message /\ resp.answer = <<rr>>
      BY <3>3, <3>4, MessageMade, Zenon
    <3>6. DOMAIN <<rr>> = {1} /\ <<rr>>[1] = rr
      OBVIOUS
    <3> QED BY <3>1, <3>2, <3>5, <3>6, Zenon
  <2> QED BY <2>1, <2>2, Zenon
<1>3. GoTo(p, "RETURN_RESP", resp) /\ Local(qname) /\ machine[p].state \in Early
  BY <1>1, Zenon DEF ForwardHit, Local, Early
<1> HIDE DEF resp
<1>4. PICK m \in Machines :
          /\ machine' = [machine EXCEPT ![p] = m]
          /\ m.state = "RETURN_RESP" /\ m.response = resp
          /\ m.qname = machine[p].qname /\ m.cnameChain = machine[p].cnameChain
  <2>1. "RETURN_RESP" \in States
    BY Zenon DEF States
  <2> QED BY <1>1, <1>2, <1>3, <2>1, GoToMoves
<1>5. Sound(m, question[p])
  BY <1>2, <1>3, <1>4, LocalSound, Zenon
<1>6. CacheSound' /\ UNCHANGED <<question, nsLimit, nsResults, background, reply, expiries>>
  BY CacheKept, Zenon DEF ForwardHit, aside
<1> QED BY <1>1, <1>4, <1>5, <1>6, LocalStep, Zenon DEF Awaiting

-----------------------------------------------------------------------------
(* Reading the cache, and what to make of a response *)

\* A message with some of its fields replaced.
LEMMA AnswerReplaced ==
    ASSUME NEW msg \in Message, NEW answer
    PROVE  [msg EXCEPT !.answer = answer]
             = [rcode |-> msg.rcode, answer |-> answer, ns |-> msg.ns, extra |-> msg.extra]
<1> DEFINE e == [msg EXCEPT !.answer = answer]
<1>1. e \in [rcode : Rcodes, answer : {answer}, ns : Seq([type : {"NS", "SOA"}, zone : Zones]), extra : SUBSET Hosts]
  BY Zenon DEF Message
<1>2. e.rcode = msg.rcode /\ e.ns = msg.ns /\ e.extra = msg.extra
  BY Zenon DEF Message
<1> HIDE DEF e
<1>3. e = [rcode |-> msg.rcode, answer |-> answer, ns |-> msg.ns, extra |-> msg.extra]
  BY <1>1, <1>2, Zenon
<1> QED BY <1>3, Zenon DEF e

LEMMA RcodeReplaced ==
    ASSUME NEW msg \in Message, NEW rcode
    PROVE  [msg EXCEPT !.rcode = rcode]
             = [rcode |-> rcode, answer |-> msg.answer, ns |-> msg.ns, extra |-> msg.extra]
<1> DEFINE e == [msg EXCEPT !.rcode = rcode]
<1>1. e \in [rcode : {rcode}, answer : Answers, ns : Seq([type : {"NS", "SOA"}, zone : Zones]), extra : SUBSET Hosts]
  BY Zenon DEF Message
<1>2. e.answer = msg.answer /\ e.ns = msg.ns /\ e.extra = msg.extra
  BY Zenon DEF Message
<1> HIDE DEF e
<1>3. e = [rcode |-> rcode, answer |-> msg.answer, ns |-> msg.ns, extra |-> msg.extra]
  BY <1>1, <1>2, Zenon
<1> QED BY <1>3, Zenon DEF e

LEMMA DenialReplaced ==
    ASSUME NEW msg \in Message, NEW rcode, NEW ns
    PROVE  [msg EXCEPT !.rcode = rcode, !.ns = ns]
             = [rcode |-> rcode, answer |-> msg.answer, ns |-> ns, extra |-> msg.extra]
<1> DEFINE e == [msg EXCEPT !.rcode = rcode, !.ns = ns]
<1>1. e \in [rcode : {rcode}, answer : Answers, ns : {ns}, extra : SUBSET Hosts]
  BY Zenon DEF Message
<1>2. e.answer = msg.answer /\ e.extra = msg.extra
  BY Zenon DEF Message
<1> HIDE DEF e
<1>3. e = [rcode |-> rcode, answer |-> msg.answer, ns |-> ns, extra |-> msg.extra]
  BY <1>1, <1>2, Zenon
<1> QED BY <1>3, Zenon DEF e

LEMMA ServersReplaced ==
    ASSUME NEW msg \in Message, NEW ns, NEW extra
    PROVE  [msg EXCEPT !.ns = ns, !.extra = extra]
             = [rcode |-> msg.rcode, answer |-> msg.answer, ns |-> ns, extra |-> extra]
<1> DEFINE e == [msg EXCEPT !.ns = ns, !.extra = extra]
<1>1. e \in [rcode : Rcodes, answer : Answers, ns : {ns}, extra : {extra}]
  BY Zenon DEF Message
<1>2. e.rcode = msg.rcode /\ e.answer = msg.answer
  BY Zenon DEF Message
<1> HIDE DEF e
<1>3. e = [rcode |-> msg.rcode, answer |-> msg.answer, ns |-> ns, extra |-> extra]
  BY <1>1, <1>2, Zenon
<1> QED BY <1>3, Zenon DEF e

LEMMA ReplyReplaced ==
    ASSUME NEW msg \in Message, NEW rcode, NEW answer
    PROVE  [msg EXCEPT !.rcode = rcode, !.answer = answer]
             = [rcode |-> rcode, answer |-> answer, ns |-> msg.ns, extra |-> msg.extra]
<1> DEFINE e == [msg EXCEPT !.rcode = rcode, !.answer = answer]
<1>1. e \in [rcode : {rcode}, answer : {answer}, ns : Seq([type : {"NS", "SOA"}, zone : Zones]), extra : SUBSET Hosts]
  BY Zenon DEF Message
<1>2. e.ns = msg.ns /\ e.extra = msg.extra
  BY Zenon DEF Message
<1> HIDE DEF e
<1>3. e = [rcode |-> rcode, answer |-> answer, ns |-> msg.ns, extra |-> msg.extra]
  BY <1>1, <1>2, Zenon
<1> QED BY <1>3, Zenon DEF e

LEMMA LateFacts ==
    ASSUME TruthInv, NEW p \in Procs, machine[p].state \in Late
    PROVE  /\ Chained(machine[p], question[p]) /\ Looking(machine[p], question[p])
           /\ machine[p].response \in Message /\ machine[p].qname \in AllNames
           /\ machine[p].qname \in Seq(STRING) /\ QType(p) \in Types /\ QType(p) = question[p].type
BY TypeFacts, ZoneFacts, Zenon DEF Sound, Active, Late, Awaiting, Machines, QType

LEMMA GetFacts ==
    ASSUME TruthInv, NEW k
    PROVE  /\ k \in DOMAIN cache => EntryOK(k, Get(k)) /\ Get(k) \in Message
           /\ k \notin DOMAIN cache => Get(k) = Empty
BY Zenon DEF TruthInv, CacheSound, EntryOK, Get

LEMMA NoAnswer ==
    ASSUME NEW name, NEW type
    PROVE  GoodAnswer(name, type, <<>>) /\ Len(<<>>) = 0
BY EmptySeq DEF GoodAnswer, Linked

LEMMA CacheHitStep ==
    ASSUME TruthInv, NEW p \in Procs, CacheHit(p)
    PROVE  TruthInv'
<1> DEFINE old == machine[p].response
           k == CacheKey(p)
           msg == Get(k)
           resp1 == [old EXCEPT !.answer = old.answer \o msg.answer]
           resp2 == [old EXCEPT !.rcode = msg.rcode, !.ns = old.ns \o msg.ns]
<1>1. /\ machine[p].state = "CACHE_LOOKUP" /\ machine[p].iterations < MaxIterations
      /\ machine[p].state \in Late
  BY Zenon DEF CacheHit, In, Late
<1>2. CacheSound' /\ UNCHANGED <<question, nsLimit, nsResults, background, reply, expiries>>
  BY CacheKept, Zenon DEF CacheHit, aside
<1>3. /\ Looking(machine[p], question[p]) /\ Chained(machine[p], question[p])
      /\ old \in Message /\ old.answer = <<>> /\ GlueFits(old)
      /\ ServeAll(old.extra, machine[p].qname)
  <2>1. GlueFits(old)
    BY <1>1, TypeFacts, Zenon DEF Sound
  <2> QED BY <1>1, <2>1, LateFacts, Zenon DEF Looking
<1>4. k[1] = machine[p].qname /\ k[2] = question[p].type /\ k[2] # "delegation" /\ "CLASSIFY_RESP" \in States
  BY <1>1, LateFacts, Zenon DEF CacheKey, Types, States
<1>5. \/ msg.answer # <<>> /\ GoTo(p, "CLASSIFY_RESP", resp1)
      \/ msg.answer = <<>> /\ HasSOA(msg) /\ GoTo(p, "CLASSIFY_RESP", resp2)
  BY Zenon DEF CacheHit
<1>6. EntryOK(k, msg) /\ msg \in Message
  <2>1. Get(k) # Empty
    BY <1>5, EmptyMessage, EmptySeq DEF HasSOA
  <2> QED BY <2>1, GetFacts, Zenon
<1> HIDE DEF msg, k, old
<1>7. ASSUME NEW resp \in Message, GoTo(p, "CLASSIFY_RESP", resp),
             resp.rcode \in {"NOERROR", "NXDOMAIN"},
             resp.rcode = "NXDOMAIN" => Dead(machine[p].qname, question[p].type),
             resp.extra = old.extra,
             GoodAnswer(machine[p].qname, question[p].type, resp.answer),
             resp.answer # <<>> => GlueFits(resp),
             resp.answer = <<>> => HasSOA(resp) /\ Denied(machine[p].qname, question[p].type, resp.rcode)
      PROVE  TruthInv'
  <2>1. PICK m \in Machines :
            /\ machine' = [machine EXCEPT ![p] = m]
            /\ m.state = "CLASSIFY_RESP" /\ m.response = resp
            /\ m.qname = machine[p].qname /\ m.cnameChain = machine[p].cnameChain
    BY <1>1, <1>4, <1>7, GoToMoves
  <2>2. Chained(m, question[p])
    BY <1>3, <2>1, Zenon DEF Chained
  <2>3. Looking(m, question[p])
    BY <1>3, <1>7, <2>1, Zenon DEF Looking
  <2>4. Classifiable(m, question[p])
    BY <1>7, <2>1, Zenon DEF Classifiable
  <2>5. Sound(m, question[p])
    BY <2>1, <2>2, <2>3, <2>4, Zenon DEF Sound, Active, Early, Late, Awaiting
  <2> QED BY <1>1, <1>2, <2>1, <2>5, LocalStep, Zenon DEF Awaiting
<1>8. CASE msg.answer # <<>> /\ GoTo(p, "CLASSIFY_RESP", resp1)
  <2>1. <<>> \o msg.answer = msg.answer /\ msg.answer \in Seq(AllRecords)
    BY <1>6, MessageFacts, ConcatEmptySeq, Zenon
  <2>2. resp1 = [rcode |-> old.rcode, answer |-> msg.answer, ns |-> old.ns, extra |-> old.extra]
    BY <1>3, <2>1, AnswerReplaced, Zenon
  <2> HIDE DEF resp1
  <2>3. resp1 \in Message
    <3>1. /\ old.rcode \in Rcodes /\ old.ns \in Seq([type : {"NS", "SOA"}, zone : Zones])
          /\ old.extra \in SUBSET Hosts
      BY <1>3, MessageFacts, Zenon
    <3> QED BY <2>1, <2>2, <3>1, MessageMade, Zenon
  <2>4. /\ resp1.rcode = old.rcode /\ resp1.answer = msg.answer /\ resp1.ns = old.ns /\ resp1.extra = old.extra
    BY <2>2, Zenon
  <2>5. GoodAnswer(machine[p].qname, question[p].type, resp1.answer)
    BY <1>4, <1>6, <2>4, Zenon DEF EntryOK
  <2>6. GlueFits(resp1)
    BY <1>3, <2>4, Zenon DEF GlueFits
  <2>7. /\ resp1.rcode \in {"NOERROR", "NXDOMAIN"}
        /\ resp1.rcode = "NXDOMAIN" => Dead(machine[p].qname, question[p].type)
    BY <1>3, <2>4, Zenon DEF Looking, old
  <2> QED BY <1>7, <1>8, <2>3, <2>4, <2>5, <2>6, <2>7, Zenon
<1>9. CASE msg.answer = <<>> /\ HasSOA(msg) /\ GoTo(p, "CLASSIFY_RESP", resp2)
  <2> DEFINE ns == old.ns \o msg.ns
  <2>1. /\ old.ns \in Seq([type : {"NS", "SOA"}, zone : Zones]) /\ msg.ns \in Seq([type : {"NS", "SOA"}, zone : Zones])
        /\ old.answer \in Seq(AllRecords) /\ old.extra \subseteq Hosts
    BY <1>3, <1>6, MessageFacts, Zenon
  <2>2. /\ ns \in Seq([type : {"NS", "SOA"}, zone : Zones])
        /\ \E i \in DOMAIN ns : ns[i].type = "SOA"
    <3>1. PICK i \in DOMAIN msg.ns : msg.ns[i].type = "SOA"
      BY <1>9, Zenon DEF HasSOA
    <3>2. /\ Len(old.ns) \in Nat /\ Len(msg.ns) \in Nat /\ i \in 1 .. Len(msg.ns)
      BY <2>1, LenProperties, Zenon
    <3>3. /\ ns \in Seq([type : {"NS", "SOA"}, zone : Zones])
          /\ Len(ns) = Len(old.ns) + Len(msg.ns) /\ DOMAIN ns = 1 .. Len(ns)
          /\ \A j \in 1 .. Len(old.ns) + Len(msg.ns) :
                ns[j] = IF j <= Len(old.ns) THEN old.ns[j] ELSE msg.ns[j - Len(old.ns)]
      BY <2>1, ConcatProperties, LenProperties, ZenonT(60)
    <3> DEFINE a == Len(old.ns)
               b == Len(msg.ns)
    <3> HIDE DEF ns, a, b
    <3>4. a + i \in 1 .. a + b /\ ~(a + i <= a) /\ (a + i) - a = i
      <4>1. a \in Nat /\ b \in Nat /\ i \in 1 .. b
        BY <3>2, Zenon DEF a, b
      <4> QED BY <4>1
    <3>5. ns[a + i] = msg.ns[i] /\ a + i \in DOMAIN ns
      BY <3>3, <3>4, Zenon DEF a, b
    <3> QED BY <3>1, <3>3, <3>5, Zenon
  <2>3. resp2 = [rcode |-> msg.rcode, answer |-> <<>>, ns |-> ns, extra |-> old.extra]
    <3>1. resp2 = [rcode |-> msg.rcode, answer |-> old.answer, ns |-> ns, extra |-> old.extra]
      BY <1>3, DenialReplaced, Zenon
    <3> QED BY <1>3, <3>1, Zenon
  <2> HIDE DEF ns, resp2
  <2>4. Denied(machine[p].qname, question[p].type, msg.rcode)
    BY <1>4, <1>6, <1>9, Zenon DEF EntryOK
  <2>5. resp2 \in Message
    <3>1. msg.rcode \in Rcodes /\ <<>> \in Seq(AllRecords) /\ old.extra \in SUBSET Hosts
      BY <1>6, <2>1, MessageFacts, EmptySeq, Zenon
    <3> QED BY <2>2, <2>3, <3>1, MessageMade, Zenon
  <2>6. resp2.rcode = msg.rcode /\ resp2.answer = <<>> /\ resp2.ns = ns /\ resp2.extra = old.extra
    BY <2>3, Zenon
  <2>7. HasSOA(resp2)
    BY <2>2, <2>6, Zenon DEF HasSOA
  <2>8. /\ resp2.rcode \in {"NOERROR", "NXDOMAIN"}
        /\ resp2.rcode = "NXDOMAIN" => Dead(machine[p].qname, question[p].type)
        /\ GoodAnswer(machine[p].qname, question[p].type, resp2.answer)
    BY <2>4, <2>6, NoAnswer, Zenon DEF Denied
  <2> QED BY <1>7, <1>9, <2>4, <2>5, <2>6, <2>7, <2>8, Zenon
<1> QED BY <1>5, <1>8, <1>9, Zenon

LEMMA CacheMissStep ==
    ASSUME TruthInv, NEW p \in Procs, CacheMiss(p)
    PROVE  TruthInv'
<1>1. /\ machine[p].state = "CACHE_LOOKUP" /\ machine[p].iterations < MaxIterations
      /\ machine[p].state \in Late
  BY Zenon DEF CacheMiss, Missed, In, Late
<1>2. PICK m \in Machines :
          /\ machine' = [machine EXCEPT ![p] = m]
          /\ m.state = "EXTRACT_GLUE" /\ m.response = machine[p].response
          /\ m.qname = machine[p].qname /\ m.cnameChain = machine[p].cnameChain
  <2>1. "EXTRACT_GLUE" \in States /\ GoTo(p, "EXTRACT_GLUE", machine[p].response)
    BY Zenon DEF States, CacheMiss
  <2> QED BY <1>1, <2>1, LateFacts, GoToMoves
<1>3. Sound(m, question[p])
  <2>1. Chained(m, question[p]) /\ Looking(m, question[p])
    BY <1>1, <1>2, LateFacts DEF Chained, Looking
  <2>2. Len(m.response.ns) <= 1
    BY <1>1, <1>2, TypeFacts, Zenon DEF Sound, GlueFits
  <2> QED BY <1>2, <2>1, <2>2, Zenon DEF Sound, Active, Early, Late, Awaiting
<1>4. CacheSound' /\ UNCHANGED <<question, nsLimit, nsResults, background, reply, expiries>>
  BY CacheKept, Zenon DEF CacheMiss, aside
<1> QED BY <1>1, <1>2, <1>3, <1>4, LocalStep, Zenon DEF Awaiting

LEMMA PutSound ==
    ASSUME TruthInv, NEW keys, NEW msg, \A k \in keys : EntryOK(k, msg), cache' = Put(keys, msg)
    PROVE  CacheSound'
<1>1. DOMAIN cache' = DOMAIN cache \cup keys
  BY Zenon DEF Put
<1>2. ASSUME NEW k \in DOMAIN cache' PROVE EntryOK(k, cache'[k])
  <2>1. cache'[k] = IF k \in keys THEN msg ELSE cache[k]
    BY <1>1, Zenon DEF Put
  <2> QED BY <1>1, <2>1, Zenon DEF TruthInv, CacheSound
<1> QED BY <1>2, Zenon DEF CacheSound

LEMMA ClassifyFacts ==
    ASSUME TruthInv, NEW p \in Procs, machine[p].state = "CLASSIFY_RESP"
    PROVE  LET resp == machine[p].response
               qname == machine[p].qname
           IN  /\ Chained(machine[p], question[p]) /\ Looking(machine[p], question[p])
               /\ qname \in AllNames /\ QType(p) = question[p].type /\ QType(p) \in Types
               /\ resp \in Message /\ resp.answer \in Seq(AllRecords)
               /\ resp.rcode \in {"NOERROR", "NXDOMAIN"}
               /\ resp.rcode = "NXDOMAIN" => Dead(qname, QType(p))
               /\ GoodAnswer(qname, QType(p), resp.answer)
               /\ resp.answer # <<>> => GlueFits(resp)
               /\ resp.answer = <<>> => IF HasSOA(resp) THEN Denied(qname, QType(p), resp.rcode)
                                        ELSE Len(resp.ns) <= 1
<1>1. machine[p].state \in Late /\ Classifiable(machine[p], question[p])
  BY TypeFacts, Zenon DEF Late, Sound
<1> QED BY <1>1, LateFacts, MessageFacts, Zenon DEF Looking, Classifiable

LEMMA ClassifyNegativeStep ==
    ASSUME TruthInv, NEW p \in Procs, ClassifyNegative(p)
    PROVE  TruthInv'
<1> DEFINE resp == machine[p].response
<1>1. machine[p].state = "CLASSIFY_RESP" /\ machine[p].iterations < MaxIterations
  BY Zenon DEF ClassifyNegative, In
<1>2. resp.answer = <<>> /\ HasSOA(resp) /\ cache' = Put({CacheKey(p)}, resp)
      /\ GoTo(p, "RETURN_RESP", resp)
  BY Zenon DEF ClassifyNegative, IsNegative
<1>3. resp \in Message /\ Denied(machine[p].qname, question[p].type, resp.rcode) /\ Chained(machine[p], question[p])
  BY <1>1, <1>2, ClassifyFacts, Zenon
<1>4. CacheSound'
  <2>1. EntryOK(CacheKey(p), resp)
    <3>1. /\ CacheKey(p) \in Keys /\ CacheKey(p)[1] = machine[p].qname
          /\ CacheKey(p)[2] = question[p].type /\ CacheKey(p)[2] # "delegation"
      BY <1>1, ClassifyFacts, Zenon DEF CacheKey, Keys, Types
    <3> QED BY <1>2, <1>3, <3>1, NoAnswer, Zenon DEF EntryOK
  <2> QED BY <1>2, <2>1, PutSound
<1> HIDE DEF resp
<1>5. PICK m \in Machines :
          /\ machine' = [machine EXCEPT ![p] = m]
          /\ m.state = "RETURN_RESP" /\ m.response = resp
          /\ m.qname = machine[p].qname /\ m.cnameChain = machine[p].cnameChain
  <2>1. "RETURN_RESP" \in States
    BY DEF States
  <2> QED BY <1>1, <1>2, <1>3, <2>1, GoToMoves
<1>6. Sound(m, question[p])
  <2>1. Chained(m, question[p])
    BY <1>3, <1>5, Zenon DEF Chained
  <2>2. Returnable(m, question[p])
    BY <1>2, <1>3, <1>5 DEF Returnable
  <2> QED BY <1>5, <2>1, <2>2, Zenon DEF Sound, Active, Early, Late, Awaiting
<1>7. UNCHANGED <<question, nsLimit, nsResults, background, reply, expiries>>
  BY Zenon DEF ClassifyNegative, aside
<1> QED BY <1>1, <1>4, <1>5, <1>6, <1>7, LocalStep, Zenon DEF Awaiting

\* A server's name has no alias: its sub-query follows none.
LEMMA HostUnchained ==
    ASSUME NEW m \in Machines, NEW q, Chained(m, q), q.name \in Hosts
    PROVE  m.cnameChain = <<>> /\ m.qname = q.name
<1>1. m.cnameChain \in Seq([name : Names, type : {"CNAME"}, data : Names])
  BY Zenon DEF Machines
<1>2. m.cnameChain = <<>>
  <2> SUFFICES ASSUME m.cnameChain # <<>> PROVE FALSE
    BY Zenon
  <2>1. 1 \in DOMAIN m.cnameChain
    BY <1>1
  <2>2. m.cnameChain[1] \in Records /\ m.cnameChain[1].type = "CNAME" /\ m.cnameChain[1].name = q.name
    BY <2>1, Zenon DEF Chained, Linked
  <2> QED BY <2>2, OneRecord, Zenon
<1> QED BY <1>2, EmptySeq, Zenon DEF Chained

LEMMA ChainExtended ==
    ASSUME NEW m \in Machines, NEW q, Chained(m, q), q.type # "CNAME",
           NEW c \in Records, c.type = "CNAME", c.name = m.qname,
           \A i \in DOMAIN m.cnameChain : m.cnameChain[i].data # c.data,
           NEW n, n.cnameChain = Append(m.cnameChain, c), n.qname = c.data
    PROVE  Chained(n, q)
<1> DEFINE s == m.cnameChain
           t == Append(s, c)
           L == Len(s)
           C == [name : Names, type : {"CNAME"}, data : Names]
<1>1. s \in Seq(C) /\ L \in Nat /\ DOMAIN s = 1 .. L /\ c \in C
  BY RecordFacts, LenProperties, Zenon DEF Machines
<1>2. /\ Len(t) = L + 1 /\ DOMAIN t = 1 .. (L + 1) /\ t \in Seq(C)
      /\ t[L + 1] = c /\ \A i \in 1 .. L : t[i] = s[i]
  BY <1>1, AppendProperties, LenProperties
<1> HIDE DEF t, L, s, C
<1>3. /\ \A i \in 1 .. L : s[i] \in Records /\ s[i].type = "CNAME"
      /\ \A i \in 1 .. L : s[i].name = IF i = 1 THEN q.name ELSE s[i - 1].data
      /\ m.qname = IF L = 0 THEN q.name ELSE s[L].data
      /\ \A i, j \in 1 .. L : s[i].data = s[j].data => i = j
      /\ \A i \in 1 .. L : s[i].data # c.data
  BY <1>1, Zenon DEF Chained, Linked, s, L
<1>4. \A i \in 1 .. (L + 1) : i = L + 1 \/ i \in 1 .. L
  BY <1>1
<1>5. ASSUME NEW i \in 1 .. (L + 1) PROVE t[i] \in Records /\ t[i].type = "CNAME"
  BY <1>2, <1>3, <1>4
<1>6. ASSUME NEW i \in 1 .. (L + 1) PROVE t[i].name = IF i = 1 THEN q.name ELSE t[i - 1].data
  <2>1. CASE i = L + 1
    <3>1. L # 0 => i # 1 /\ i - 1 = L /\ L \in 1 .. L
      BY <1>1, <2>1
    <3>2. L = 0 => i = 1
      BY <2>1
    <3> QED BY <1>2, <1>3, <2>1, <3>1, <3>2
  <2>2. CASE i \in 1 .. L
    <3>1. i # 1 => i - 1 \in 1 .. L
      BY <1>1, <2>2
    <3> QED BY <1>2, <1>3, <2>2, <3>1, Zenon
  <2> QED BY <1>4, <2>1, <2>2, Zenon
<1>7. ASSUME NEW i \in 1 .. (L + 1), NEW j \in 1 .. (L + 1), t[i].data = t[j].data PROVE i = j
  BY <1>2, <1>3, <1>4, <1>7
<1>8. c.data = IF L + 1 = 0 THEN q.name ELSE t[L + 1].data
  BY <1>1, <1>2
<1>9. n.cnameChain = t /\ n.qname = c.data
  BY Zenon DEF t, s
<1> QED BY <1>2, <1>5, <1>6, <1>7, <1>8, <1>9 DEF Chained, Linked

-----------------------------------------------------------------------------
(* Whom to ask *)

\* The servers of a zone of the name serve the name.
LEMMA ZoneServes ==
    ASSUME NEW z \in Zones, NEW name, IsSubDomain(z, name), NEW S \in SUBSET NSNames[z]
    PROVE  ServeAll(S, name)
BY Zenon DEF ServeAll, Serving

\* One delegation names the servers of one zone.
LEMMA OneDelegation ==
    ASSUME NEW msg, msg.ns \in Seq([type : {"NS", "SOA"}, zone : Zones]), Len(msg.ns) <= 1
    PROVE  /\ msg.ns = <<>> => getNSNames(msg) = {}
           /\ msg.ns # <<>> => /\ msg.ns[1].zone \in Zones /\ Len(msg.ns) = 1
                               /\ getNSNames(msg) \subseteq NSNames[msg.ns[1].zone]
<1>1. Len(msg.ns) \in Nat /\ DOMAIN msg.ns = 1 .. Len(msg.ns)
  BY LenProperties, Zenon
<1>2. CASE msg.ns = <<>>
  <2>1. DOMAIN msg.ns = {}
    BY <1>2
  <2> QED BY <1>2, <2>1, Zenon DEF getNSNames
<1>3. CASE msg.ns # <<>>
  <2>1. Len(msg.ns) # 0
    BY <1>3, EmptySeq, Zenon
  <2>2. Len(msg.ns) = 1 /\ DOMAIN msg.ns = {1} /\ 1 \in 1 .. Len(msg.ns)
    <3> DEFINE n == Len(msg.ns)
    <3>0. n \in Nat /\ n <= 1 /\ n # 0
      BY <1>1, <2>1, Zenon
    <3> HIDE DEF n
    <3>1. n = 1
      BY <3>0
    <3>2. 1 .. 1 = {1}
      OBVIOUS
    <3> QED BY <1>1, <3>1, <3>2, Zenon DEF n
  <2>3. msg.ns[1] \in [type : {"NS", "SOA"}, zone : Zones]
    BY <2>2, ElementOfSeq, Zenon
  <2> QED BY <1>3, <2>2, <2>3, Zenon DEF getNSNames
<1> QED BY <1>2, <1>3, Zenon

LEMMA ExtractGlueStep ==
    ASSUME TruthInv, NEW p \in Procs, ExtractGlue(p)
    PROVE  TruthInv'
<1> DEFINE resp == machine[p].response
           qname == machine[p].qname
           usable == IsDelegation(resp) /\ IsSubDomain(resp.ns[1].zone, qname)
           bare == [resp EXCEPT !.ns = <<>>, !.extra = {}]
<1>1. machine[p].state = "EXTRACT_GLUE" /\ machine[p].iterations < MaxIterations /\ machine[p].state \in Late
  BY Zenon DEF ExtractGlue, In, Late
<1>2. /\ Chained(machine[p], question[p]) /\ Looking(machine[p], question[p])
      /\ resp \in Message /\ resp.answer = <<>>
      /\ resp.ns \in Seq([type : {"NS", "SOA"}, zone : Zones])
  BY <1>1, LateFacts, MessageFacts, Zenon DEF Looking
<1>3. Len(resp.ns) <= 1
  BY <1>1, TypeFacts, Zenon DEF Sound
<1>4. CacheSound' /\ UNCHANGED <<question, nsLimit, nsResults, background, reply, expiries>>
  BY CacheKept, Zenon DEF ExtractGlue, aside
<1>5. "QUERY_UPSTREAM" \in States /\ "LOOKUP_NS_CACHE" \in States
  BY Zenon DEF States
<1>6. CASE usable /\ GoTo(p, "QUERY_UPSTREAM", resp)
  <2>1. PICK m \in Machines :
            /\ machine' = [machine EXCEPT ![p] = m]
            /\ m.state = "QUERY_UPSTREAM" /\ m.response = resp
            /\ m.qname = machine[p].qname /\ m.cnameChain = machine[p].cnameChain
    BY <1>1, <1>2, <1>5, <1>6, GoToMoves
  <2>2. Chained(m, question[p]) /\ Looking(m, question[p])
    BY <1>2, <2>1, Zenon DEF Chained, Looking
  <2>3. ServeAll(getNSNames(resp), qname)
    <3>1. resp.ns # <<>> /\ IsSubDomain(resp.ns[1].zone, qname)
      BY <1>6, Zenon DEF IsDelegation
    <3>2. resp.ns[1].zone \in Zones /\ getNSNames(resp) \subseteq NSNames[resp.ns[1].zone]
      BY <1>2, <1>3, <3>1, OneDelegation, Zenon
    <3> QED BY <3>1, <3>2, ZoneServes, Zenon
  <2>4. Sound(m, question[p])
    BY <2>1, <2>2, <2>3, Zenon DEF Sound, Active, Early, Late, Awaiting
  <2> QED BY <1>1, <1>4, <2>1, <2>4, LocalStep, Zenon DEF Awaiting
<1>7. ASSUME NEW msg \in Message, GoTo(p, "LOOKUP_NS_CACHE", msg), msg.ns = <<>>, msg.answer = <<>>,
             msg.rcode = resp.rcode, msg.extra \in {{}, resp.extra}
      PROVE  TruthInv'
  <2>1. PICK m \in Machines :
            /\ machine' = [machine EXCEPT ![p] = m]
            /\ m.state = "LOOKUP_NS_CACHE" /\ m.response = msg
            /\ m.qname = machine[p].qname /\ m.cnameChain = machine[p].cnameChain
    BY <1>1, <1>5, <1>7, GoToMoves
  <2>2. Chained(m, question[p])
    BY <1>2, <2>1, Zenon DEF Chained
  <2>3. Looking(m, question[p])
    BY <1>2, <1>7, <2>1, Zenon DEF Looking, ServeAll
  <2>4. Sound(m, question[p])
    BY <1>7, <2>1, <2>2, <2>3, Zenon DEF Sound, Active, Early, Late, Awaiting
  <2> QED BY <1>1, <1>4, <2>1, <2>4, LocalStep, Zenon DEF Awaiting
<1>8. CASE resp.ns = <<>> /\ GoTo(p, "LOOKUP_NS_CACHE", resp)
  BY <1>2, <1>7, <1>8, Zenon
<1>9. CASE GoTo(p, "LOOKUP_NS_CACHE", bare)
  <2>1. bare = [rcode |-> resp.rcode, answer |-> <<>>, ns |-> <<>>, extra |-> {}]
    BY <1>2, ServersReplaced, Zenon
  <2>2. resp.rcode \in Rcodes /\ <<>> \in Seq(AllRecords) /\ <<>> \in Seq([type : {"NS", "SOA"}, zone : Zones])
    BY <1>2, MessageFacts, EmptySeq, Zenon
  <2> HIDE DEF bare
  <2>3. bare \in Message
    BY <2>1, <2>2, MessageMade, Zenon
  <2>4. bare.ns = <<>> /\ bare.answer = <<>> /\ bare.rcode = resp.rcode /\ bare.extra = {}
    BY <2>1, Zenon
  <2> QED BY <1>7, <1>9, <2>3, <2>4, Zenon
<1> QED BY <1>6, <1>8, <1>9, Zenon DEF ExtractGlue

LEMMA NSNamesAreHosts ==
    ASSUME NEW msg, msg.ns \in Seq([type : {"NS", "SOA"}, zone : Zones])
    PROVE  getNSNames(msg) \subseteq Hosts
<1>1. ASSUME NEW i \in DOMAIN msg.ns PROVE msg.ns[i].zone \in Zones
  <2>1. i \in 1 .. Len(msg.ns)
    BY LenProperties, Zenon
  <2>2. msg.ns[i] \in [type : {"NS", "SOA"}, zone : Zones]
    BY <2>1, ElementOfSeq, Zenon
  <2> QED BY <2>2, Zenon
<1> QED BY <1>1, ZoneFacts, Zenon DEF getNSNames

LEMMA OffFacts ==
    ASSUME NEW s \in {"off", "blocked", "done"}
    PROVE  Off(s) \in Machines /\ Off(s).state = s /\ \A q : Sound(Off(s), q)
<1>1. Off(s).state = s /\ Off(s).response = Empty
  BY Zenon DEF Off
<1>2. <<>> \in AllNames /\ <<>> \in Seq([name : Names, type : {"CNAME"}, data : Names]) /\ 0 \in 0 .. MaxIterations
      /\ s \in States
  BY ZoneFacts, EmptySeq, ResolverAssumption DEF States
<1>3. Off(s) \in Machines
  BY <1>2, EmptyMessage, Zenon DEF Off, Machines
<1> QED BY <1>1, <1>3, Zenon DEF Sound, Active, Early, Late, Awaiting

\* A run starts with the name it was asked for.
LEMMA StartFacts ==
    ASSUME NEW name \in AllNames
    PROVE  LET m == [Off("STATE_INIT") EXCEPT !.qname = name]
           IN  m \in Machines /\ m.state = "STATE_INIT" /\ \A q : q.name = name => Sound(m, q)
<1> DEFINE m == [Off("STATE_INIT") EXCEPT !.qname = name]
<1>1. m = [state |-> "STATE_INIT", iterations |-> 0, qname |-> name, response |-> Empty,
           cnameChain |-> <<>>, ipList |-> {}]
  <2> DEFINE o == Off("STATE_INIT")
             fields(N) == [state : {"STATE_INIT"}, iterations : {0}, qname : N, response : {Empty},
                           cnameChain : {<<>>}, ipList : {{}}]
  <2>1. o \in fields({<<>>})
    BY Zenon DEF Off
  <2>2. [o EXCEPT !.qname = name] \in fields({name})
    <3> HIDE DEF o
    <3> QED BY <2>1, Zenon
  <2>3. m \in fields({name})
    BY <2>2, Zenon
  <2> HIDE DEF m
  <2> QED BY <2>3, Zenon
<1> HIDE DEF m
<1>2. <<>> \in Seq([name : Names, type : {"CNAME"}, data : Names]) /\ 0 \in 0 .. MaxIterations
      /\ "STATE_INIT" \in States
  BY EmptySeq, ResolverAssumption DEF States
<1>3. m \in Machines
  BY <1>1, <1>2, EmptyMessage, Zenon DEF Machines
<1>4. ASSUME NEW q, q.name = name PROVE Sound(m, q)
  <2>1. m.state = "STATE_INIT" /\ m.qname = name /\ m.response = Empty /\ m.cnameChain = <<>>
    BY <1>1, Zenon
  <2>2. Chained(m, q)
    <3>1. Len(<<>>) = 0 /\ DOMAIN <<>> = {} /\ 1 .. 0 = {}
      BY EmptySeq
    <3> QED BY <1>4, <2>1, <3>1, Zenon DEF Chained, Linked
  <2> QED BY <2>1, <2>2, Zenon DEF Sound, Active, Early, Late, Awaiting
<1> QED BY <1>1, <1>3, <1>4, Zenon DEF m

LEMMA StartWorkerStep ==
    ASSUME TruthInv, NEW w \in Procs, StartWorker(w)
    PROVE  TruthInv'
<1> DEFINE m == [Off("STATE_INIT") EXCEPT !.qname = w[2]]
<1>1. machine[w].state = "blocked" /\ machine' = [machine EXCEPT ![w] = m]
  BY Zenon DEF StartWorker
<1>2. question[w].name = w[2] /\ w[2] \in AllNames
  <2>1. CASE IsWorker(w)
    <3>1. w \in Workers /\ w[1] \in Requests /\ w[2] \in Hosts
      BY <2>1, ProcFacts, Zenon
    <3>2. question[w] = [name |-> w[2], type |-> "A"]
      BY <3>1, Zenon DEF TruthInv, Crew
    <3> QED BY <3>1, <3>2, ZoneFacts
  <2>2. CASE ~IsWorker(w)
    <3>1. w[1] \in Requests /\ w = Client(w[1])
      BY <2>2, ProcFacts, Zenon
    <3>2. Crew(w[1])
      BY <3>1, Zenon DEF TruthInv
    <3> QED BY <1>1, <3>1, <3>2, Zenon DEF Crew
  <2> QED BY <2>1, <2>2, Zenon
<1>3. m \in Machines /\ m.state = "STATE_INIT" /\ Sound(m, question[w])
  BY <1>2, StartFacts, Zenon
<1>4. CacheSound' /\ UNCHANGED <<question, nsLimit, nsResults, background, reply, expiries>>
  BY CacheKept, Zenon DEF StartWorker, aside
<1> HIDE DEF m
<1> QED BY <1>1, <1>3, <1>4, LocalStep, Zenon DEF Awaiting

LEMMA WorkerCancelledStep ==
    ASSUME TruthInv, NEW w \in Procs, WorkerCancelled(w)
    PROVE  TruthInv'
<1>1. machine[w].state = "blocked" /\ machine' = [machine EXCEPT ![w] = Off("done")]
  BY Zenon DEF WorkerCancelled
<1>2. Off("done") \in Machines /\ Off("done").state = "done" /\ Sound(Off("done"), question[w])
  BY OffFacts, Zenon
<1>3. CacheSound' /\ UNCHANGED <<question, nsLimit, nsResults, background, reply, expiries>>
  BY CacheKept, Zenon DEF WorkerCancelled, aside
<1> QED BY <1>1, <1>2, <1>3, LocalStep, Zenon DEF Awaiting

LEMMA RecordSeq == Seq(Records) \subseteq Seq(AllRecords)
<1> SUFFICES ASSUME NEW s \in Seq(Records) PROVE s \in Seq(AllRecords)
  BY Zenon
<1>1. Len(s) \in Nat /\ s \in [1 .. Len(s) -> Records]
  BY LenProperties, Zenon
<1>2. s \in [1 .. Len(s) -> AllRecords]
  BY <1>1, RecordFacts, Zenon
<1> QED BY <1>1, <1>2, SeqDef, Zenon

\* The sections of a server's reply.
LEMMA SaidFacts ==
    ASSUME NEW z \in Zones, NEW name, NEW type, NEW msg, Says(z, name, type, msg)
    PROVE  /\ msg \in Message /\ Len(msg.ns) <= 1 /\ GlueFits(msg) /\ ServeAll(msg.extra, name)
           /\ HasSOA(msg) => msg.ns = <<SOA(z)>>
           /\ IsDelegation(msg) => msg.ns = <<NS(z)>> /\ msg.ns[1].zone = z
<1> DEFINE X == [type : {"NS", "SOA"}, zone : Zones]
           Fits == /\ msg.ns \in Seq(X) /\ Len(msg.ns) <= 1 /\ GlueFits(msg)
                   /\ HasSOA(msg) => msg.ns = <<SOA(z)>>
                   /\ IsDelegation(msg) => msg.ns = <<NS(z)>> /\ msg.ns[1].zone = z
<1>1. /\ msg = [rcode |-> msg.rcode, answer |-> msg.answer, ns |-> msg.ns, extra |-> msg.extra]
      /\ msg.rcode \in {"NOERROR", "NXDOMAIN"} /\ IsSubDomain(z, name) /\ msg.answer \in Seq(Records)
      /\ msg.ns \in {<<>>, <<SOA(z)>>, <<NS(z)>>} /\ msg.extra \subseteq NSNames[z]
      /\ msg.extra # {} => msg.ns = <<NS(z)>>
  BY Zenon DEF Says, From
<1>2. /\ SOA(z) \in X /\ SOA(z).type = "SOA" /\ NS(z) \in X /\ NS(z).type = "NS" /\ NS(z).zone = z
  BY Zenon DEF SOA, NS
<1> HIDE DEF X
<1>3. ASSUME NEW x \in X PROVE <<x>> \in Seq(X) /\ Len(<<x>>) = 1 /\ <<x>> # <<>> /\ DOMAIN <<x>> = {1} /\ <<x>>[1] = x
  OBVIOUS
<1>4. ASSUME msg.ns = <<>> PROVE Fits
  <2>1. msg.extra = {}
    BY <1>1, <1>2, <1>3, <1>4, Zenon
  <2>2. msg.ns \in Seq(X) /\ Len(msg.ns) = 0 /\ DOMAIN msg.ns = {}
    BY <1>4, EmptySeq
  <2> QED BY <1>4, <2>1, <2>2 DEF HasSOA, IsDelegation, GlueFits
<1>5. ASSUME msg.ns = <<SOA(z)>> PROVE Fits
  <2>1. msg.ns \in Seq(X) /\ Len(msg.ns) = 1 /\ msg.ns[1].type = "SOA" /\ msg.ns # <<>>
    BY <1>2, <1>3, <1>5, Zenon
  <2>2. msg.extra = {}
    <3>1. msg.ns # <<NS(z)>>
      BY <1>2, <1>3, <2>1, Zenon
    <3> QED BY <1>1, <3>1, Zenon
  <2> QED BY <1>5, <2>1, <2>2 DEF IsDelegation, GlueFits
<1>6. ASSUME msg.ns = <<NS(z)>> PROVE Fits
  <2>1. msg.ns \in Seq(X) /\ Len(msg.ns) = 1 /\ msg.ns[1] = NS(z) /\ DOMAIN msg.ns = {1} /\ msg.ns # <<>>
    BY <1>2, <1>3, <1>6, Zenon
  <2>2. ~HasSOA(msg)
    BY <1>2, <2>1, Zenon DEF HasSOA
  <2> QED BY <1>1, <1>2, <1>6, <2>1, <2>2 DEF GlueFits
<1>7. Fits
  BY <1>1, <1>4, <1>5, <1>6, Zenon
<1>8. msg \in Message
  <2>1. msg.rcode \in Rcodes /\ msg.answer \in Seq(AllRecords) /\ msg.extra \in SUBSET Hosts
    BY <1>1, RecordSeq, ZoneFacts, Zenon DEF Rcodes
  <2> QED BY <1>1, <1>7, <2>1, MessageMade, Zenon DEF X
<1>9. ServeAll(msg.extra, name)
  BY <1>1, ZoneServes, Zenon
<1> QED BY <1>7, <1>8, <1>9, Zenon

-----------------------------------------------------------------------------
(* The end of a run *)

\* A request ends: it has no sub-query left, and its reply is right.
LEMMA ClientEnds ==
    ASSUME TruthInv, NEW r \in Requests, machine' = [machine EXCEPT ![Client(r)] = Off("done")],
           machine[Client(r)].state \in Awaiting => Started(r) = {},
           NEW msg \in [rcode : Rcodes, answer : Answers], Right(question[Client(r)], msg),
           reply' = [reply EXCEPT ![r] = msg],
           UNCHANGED <<question, cache, nsLimit, nsResults, background, expiries>>
    PROVE  TruthInv'
<1> DEFINE c == Client(r)
<1>1. /\ c \in Procs /\ machine \in [Procs -> Machines] /\ machine' \in [Procs -> Machines]
      /\ machine'[c] = Off("done") /\ machine'[c].state = "done"
      /\ \A o \in Procs : o # c => machine'[o] = machine[o]
  BY ProcFacts, TypeFacts, OffFacts, Zenon
<1>2. /\ reply \in [Requests -> [rcode : Rcodes, answer : Answers] \cup {NoReply}]
      /\ reply' \in [Requests -> [rcode : Rcodes, answer : Answers] \cup {NoReply}]
      /\ reply'[r] = msg /\ \A o \in Requests : o # r => reply'[o] = reply[o]
  BY Zenon DEF TruthInv, TypeOK
<1>3. TypeOK' /\ RunsSound' /\ CacheSound' /\ ResultsSound'
  <2>1. CacheSound' /\ ResultsSound'
    BY CacheKept, Zenon DEF TruthInv, ResultsSound
  <2>2. TypeOK'
    BY <1>1, <1>2, <2>1, Zenon DEF TruthInv, TypeOK, Machines, CacheSound, EntryOK
  <2>3. ASSUME NEW o \in Procs PROVE Sound(machine'[o], question'[o])
    BY <1>1, TypeFacts, OffFacts, Zenon
  <2> QED BY <1>1, <2>1, <2>2, <2>3, Zenon DEF RunsSound
<1>4. ASSUME NEW o \in Requests PROVE Crew(o)'
  <2> DEFINE d == Client(o)
  <2>1. d \in Procs /\ Crew(o)
    BY ProcFacts, Zenon DEF TruthInv
  <2>2. ASSUME NEW w \in Workers, w[1] = o
        PROVE  /\ machine'[w].state \notin Awaiting
               /\ question'[w] = [name |-> w[2], type |-> "A"]
               /\ machine'[w].state \notin {"off", "done"} =>
                     machine'[d].state \in Awaiting /\ w[2] \in getNSNames(machine'[d].response)
    <3>1. w \in Procs /\ w # c /\ w # d /\ machine'[w] = machine[w]
      BY <1>1, ProcFacts, Zenon
    <3>2. /\ machine[w].state \notin Awaiting
          /\ question[w] = [name |-> w[2], type |-> "A"]
          /\ machine[w].state \notin {"off", "done"} =>
                machine[d].state \in Awaiting /\ w[2] \in getNSNames(machine[d].response)
      BY <2>1, <2>2, Zenon DEF Crew
    <3>3. CASE o = r
      <4>1. machine[w].state \in {"off", "done"}
        BY <2>2, <3>2, <3>3, Zenon DEF Started
      <4> QED BY <3>1, <3>2, <4>1, Zenon
    <3>4. CASE o # r
      <4>1. d # c
        BY <3>4, ProcFacts, Zenon
      <4> QED BY <1>1, <2>1, <3>1, <3>2, <4>1, Zenon
    <3> QED BY <3>3, <3>4, Zenon
  <2>3. /\ machine'[d].state \in Awaiting => machine'[d] = machine[d]
        /\ machine'[d].state # "blocked"
    BY <1>1, <2>1, Zenon DEF Awaiting, Crew
  <2>4. ASSUME NEW i \in DOMAIN nsResults'[o]
        PROVE  /\ ResultOK(nsResults'[o][i])
               /\ machine'[d].state \in Awaiting => nsResults'[o][i].name \in getNSNames(machine'[d].response)
    BY <2>1, <2>3, Zenon DEF Crew
  <2>5. machine'[d].state = "AWAIT_REST" => nsResults'[o] # <<>>
    BY <2>1, <2>3, Zenon DEF Crew, Awaiting
  <2> QED BY <2>2, <2>3, <2>4, <2>5, Zenon DEF Crew
<1>5. ASSUME NEW o \in Requests PROVE ReplyOK(o)'
  <2>1. CASE o = r
    BY <1>1, <1>2, <2>1, Zenon DEF ReplyOK
  <2>2. CASE o # r
    <3>1. Client(o) \in Procs /\ Client(o) # c /\ ReplyOK(o)
      BY <2>2, ProcFacts, Zenon DEF TruthInv
    <3> QED BY <1>1, <1>2, <2>2, <3>1, Zenon DEF ReplyOK
  <2> QED BY <2>1, <2>2, Zenon
<1> QED BY <1>3, <1>4, <1>5, Zenon DEF TruthInv

\* A sub-query ends, and may leave its addresses to its request.
LEMMA WorkerEnds ==
    ASSUME TruthInv, NEW w \in Workers, machine' = [machine EXCEPT ![w] = Off("done")],
           machine[w].state \notin {"off", "done"},
           \/ UNCHANGED nsResults
           \/ \E x : /\ ResultOK(x) /\ x.name = w[2]
                     /\ nsResults' = [nsResults EXCEPT ![w[1]] = Append(nsResults[w[1]], x)],
           UNCHANGED <<question, cache, nsLimit, background, reply, expiries>>
    PROVE  TruthInv'
<1> DEFINE r == w[1]
           R == [name : Hosts, ips : Seq(AllNames)]
<1>1. /\ w \in Procs /\ r \in Requests /\ machine \in [Procs -> Machines] /\ machine' \in [Procs -> Machines]
      /\ machine'[w].state = "done"
      /\ \A o \in Procs : o # w => machine'[o] = machine[o]
      /\ Sound(machine'[w], question[w])
  BY ProcFacts, TypeFacts, OffFacts, Zenon
<1>2. /\ nsResults \in [Requests -> Seq(R)] /\ Crew(r)
      /\ machine[Client(r)].state \in Awaiting /\ w[2] \in getNSNames(machine[Client(r)].response)
  <2>1. Crew(r) /\ nsResults \in [Requests -> Seq(R)]
    BY <1>1, Zenon DEF TruthInv, TypeOK
  <2> QED BY <2>1, Zenon DEF Crew
<1>3. /\ nsResults' \in [Requests -> Seq(R)]
      /\ \A o \in Requests : o # r => nsResults'[o] = nsResults[o]
      /\ \A i \in DOMAIN nsResults'[r] :
            /\ ResultOK(nsResults'[r][i])
            /\ nsResults'[r][i].name \in getNSNames(machine[Client(r)].response)
      /\ nsResults[r] # <<>> => nsResults'[r] # <<>>
  <2>1. CASE UNCHANGED nsResults
    BY <1>1, <1>2, <2>1, Zenon DEF Crew
  <2>2. ASSUME NEW x, ResultOK(x), x.name = w[2],
               nsResults' = [nsResults EXCEPT ![r] = Append(nsResults[r], x)]
        PROVE  <1>3
    <3>1. x \in R
      BY <2>2, Zenon DEF ResultOK
    <3> DEFINE old == nsResults[r]
               new == Append(old, x)
    <3>2. old \in Seq(R)
      BY <1>1, <1>2, Zenon
    <3> HIDE DEF R, old
    <3>3. /\ new \in Seq(R) /\ Len(new) = Len(old) + 1 /\ DOMAIN new = 1 .. Len(new) /\ new # <<>>
          /\ \A i \in 1 .. Len(old) : new[i] = old[i]
          /\ new[Len(old) + 1] = x /\ Len(old) \in Nat /\ DOMAIN old = 1 .. Len(old)
      BY <3>1, <3>2, AppendProperties, LenProperties
    <3> HIDE DEF new
    <3>4. /\ nsResults' = [nsResults EXCEPT ![r] = new] /\ nsResults'[r] = new
          /\ nsResults' \in [Requests -> Seq(R)]
          /\ \A o \in Requests : o # r => nsResults'[o] = nsResults[o]
      BY <1>1, <1>2, <2>2, <3>3, Zenon DEF new, old
    <3>5. ASSUME NEW i \in DOMAIN new
          PROVE  ResultOK(new[i]) /\ new[i].name \in getNSNames(machine[Client(r)].response)
      <4>1. i \in DOMAIN old \/ i = Len(old) + 1
        BY <3>3
      <4>2. CASE i \in DOMAIN old
        BY <1>2, <3>3, <4>2, Zenon DEF Crew, old
      <4>3. CASE i = Len(old) + 1
        BY <1>2, <2>2, <3>3, <4>3, Zenon
      <4> QED BY <4>1, <4>2, <4>3, Zenon
    <3> QED BY <3>3, <3>4, <3>5, Zenon
  <2> QED BY <2>1, <2>2, Zenon
<1>4. TypeOK' /\ RunsSound' /\ CacheSound' /\ ResultsSound'
  <2>1. CacheSound' /\ ResultsSound'
    BY CacheKept, Zenon DEF TruthInv, ResultsSound
  <2>2. TypeOK'
    BY <1>1, <1>3, <2>1, Zenon DEF TruthInv, TypeOK, Machines, CacheSound, EntryOK
  <2>3. ASSUME NEW o \in Procs PROVE Sound(machine'[o], question'[o])
    BY <1>1, TypeFacts, Zenon
  <2> QED BY <1>1, <2>1, <2>2, <2>3, Zenon DEF RunsSound
<1>5. ASSUME NEW o \in Requests PROVE Crew(o)'
  <2> DEFINE d == Client(o)
  <2>1. d \in Procs /\ Crew(o) /\ d # w /\ machine'[d] = machine[d]
    BY <1>1, ProcFacts DEF TruthInv
  <2>2. ASSUME NEW v \in Workers, v[1] = o
        PROVE  /\ machine'[v].state \notin Awaiting
               /\ question'[v] = [name |-> v[2], type |-> "A"]
               /\ machine'[v].state \notin {"off", "done"} =>
                     machine'[d].state \in Awaiting /\ v[2] \in getNSNames(machine'[d].response)
    <3>1. v \in Procs
      BY ProcFacts, Zenon
    <3> QED BY <1>1, <2>1, <2>2, <3>1, Zenon DEF Crew, Awaiting
  <2>3. machine'[d].state # "blocked"
    BY <2>1, Zenon DEF Crew
  <2>4. ASSUME NEW i \in DOMAIN nsResults'[o]
        PROVE  /\ ResultOK(nsResults'[o][i])
               /\ machine'[d].state \in Awaiting => nsResults'[o][i].name \in getNSNames(machine'[d].response)
    <3>1. CASE o = r
      BY <1>3, <2>1, <3>1, Zenon
    <3>2. CASE o # r
      BY <1>3, <2>1, <3>2, Zenon DEF Crew
    <3> QED BY <3>1, <3>2, Zenon
  <2>5. machine'[d].state = "AWAIT_REST" => nsResults'[o] # <<>>
    BY <1>3, <2>1, Zenon DEF Crew
  <2> QED BY <2>2, <2>3, <2>4, <2>5, Zenon DEF Crew
<1>6. ASSUME NEW o \in Requests PROVE ReplyOK(o)'
  <2>1. Client(o) \in Procs /\ Client(o) # w /\ ReplyOK(o)
    BY ProcFacts, Zenon DEF TruthInv
  <2> QED BY <1>1, <2>1, Zenon DEF ReplyOK
<1> QED BY <1>4, <1>5, <1>6, Zenon DEF TruthInv

\* A chain and the records of the name it leads to lead on from its start.
LEMMA ChainThenAnswer ==
    ASSUME NEW a, NEW b, NEW s, NEW t, Path(a, b, s), t \in Seq(Records), Linked(b, t)
    PROVE  /\ s \o t \in Seq(Records) /\ Linked(a, s \o t)
           /\ t # <<>> => s \o t # <<>> /\ (s \o t)[Len(s \o t)] = t[Len(t)]
<1> DEFINE u == s \o t
<1>1. /\ s \in Seq(Records)
      /\ Len(s) \in Nat /\ Len(t) \in Nat
      /\ \A i \in 1 .. Len(s) : s[i].name = IF i = 1 THEN a ELSE s[i - 1].data
      /\ \A i \in 1 .. Len(t) : t[i].name = IF i = 1 THEN b ELSE t[i - 1].data
      /\ b = IF Len(s) = 0 THEN a ELSE s[Len(s)].data
  BY LenProperties, Zenon DEF Path, Linked
<1>2. /\ u \in Seq(Records) /\ Len(u) = Len(s) + Len(t) /\ DOMAIN u = 1 .. Len(u)
      /\ \A i \in 1 .. Len(s) : u[i] = s[i]
      /\ \A i \in 1 .. Len(u) : i > Len(s) => i - Len(s) \in 1 .. Len(t) /\ u[i] = t[i - Len(s)]
  <2>1. /\ u \in Seq(Records) /\ Len(u) = Len(s) + Len(t)
        /\ \A i \in 1 .. Len(s) + Len(t) : u[i] = IF i <= Len(s) THEN s[i] ELSE t[i - Len(s)]
    BY <1>1, ConcatProperties, Zenon
  <2> HIDE DEF u
  <2> QED BY <1>1, <2>1, LenProperties
<1> HIDE DEF u
<1>3. ASSUME NEW i \in 1 .. Len(u)
      PROVE  u[i].name = IF i = 1 THEN a ELSE u[i - 1].data
  <2>1. CASE i <= Len(s)
    <3>1. i \in 1 .. Len(s) /\ (i # 1 => i - 1 \in 1 .. Len(s))
      BY <1>1, <2>1
    <3> QED BY <1>1, <1>2, <3>1, Zenon
  <2>2. CASE i = Len(s) + 1
    <3>1. i > Len(s) /\ i - Len(s) = 1 /\ 1 \in 1 .. Len(t)
      BY <1>1, <1>2, <2>2
    <3>2. u[i] = t[1] /\ u[i].name = b
      BY <1>1, <1>2, <3>1, Zenon
    <3>3. Len(s) # 0 => i # 1 /\ i - 1 = Len(s) /\ Len(s) \in 1 .. Len(s)
      BY <1>1, <2>2
    <3> QED BY <1>1, <1>2, <2>2, <3>2, <3>3
  <2>3. CASE i > Len(s) + 1
    <3>1. /\ i > Len(s) /\ i - 1 > Len(s) /\ i - 1 \in 1 .. Len(u) /\ i # 1
          /\ i - Len(s) # 1 /\ (i - 1) - Len(s) = (i - Len(s)) - 1
      BY <1>1, <1>2, <2>3
    <3>2. u[i] = t[i - Len(s)] /\ u[i - 1] = t[(i - Len(s)) - 1] /\ i - Len(s) \in 1 .. Len(t)
      BY <1>2, <3>1, Zenon
    <3> QED BY <1>1, <3>1, <3>2, Zenon
  <2> QED BY <1>1, <1>2, <2>1, <2>2, <2>3
<1>4. Linked(a, u)
  BY <1>2, <1>3, Zenon DEF Linked
<1>5. ASSUME t # <<>> PROVE u # <<>> /\ u[Len(u)] = t[Len(t)]
  <2>1. Len(t) # 0
    BY <1>5, EmptySeq, Zenon
  <2>2. Len(u) > Len(s) /\ Len(u) \in 1 .. Len(u) /\ Len(u) - Len(s) = Len(t) /\ Len(u) # 0
    BY <1>1, <1>2, <2>1
  <2>3. u # <<>>
    BY <2>2, EmptySeq, Zenon
  <2> QED BY <1>2, <2>2, <2>3, Zenon
<1> QED BY <1>2, <1>4, <1>5, Zenon DEF u

LEMMA ChainedPath ==
    ASSUME NEW m \in Machines, NEW q, Chained(m, q)
    PROVE  Path(q.name, m.qname, m.cnameChain)
<1> DEFINE chain == m.cnameChain
<1>1. chain \in Seq([name : Names, type : {"CNAME"}, data : Names])
  BY Zenon DEF Machines
<1>2. Len(chain) \in Nat /\ DOMAIN chain = 1 .. Len(chain)
      /\ chain \in [1 .. Len(chain) -> [name : Names, type : {"CNAME"}, data : Names]]
  BY <1>1, LenProperties, Zenon
<1>3. \A i \in 1 .. Len(chain) : chain[i] \in Records /\ chain[i].type = "CNAME"
  BY <1>2, Zenon DEF Chained
<1>4. chain \in Seq(Records)
  <2>1. chain \in [1 .. Len(chain) -> Records]
    BY <1>2, <1>3, Zenon
  <2> QED BY <1>2, <2>1, SeqDef, Zenon
<1> QED BY <1>3, <1>4, Zenon DEF Chained, Path

\* What a run returns.
LEMMA FinalResponse ==
    ASSUME NEW m \in Machines
    PROVE  /\ buildFinalResponse(m) = [rcode |-> m.response.rcode, answer |-> m.cnameChain \o m.response.answer,
                                       ns |-> m.response.ns, extra |-> m.response.extra]
           /\ buildFinalResponse(m) \in Message
<1>1. m.response \in Message /\ m.cnameChain \in Seq([name : Names, type : {"CNAME"}, data : Names])
  BY Zenon DEF Machines
<1>2. buildFinalResponse(m) = [rcode |-> m.response.rcode, answer |-> m.cnameChain \o m.response.answer,
                               ns |-> m.response.ns, extra |-> m.response.extra]
  BY <1>1, AnswerReplaced, Zenon DEF buildFinalResponse
<1>3. m.cnameChain \in Seq(AllRecords)
  <2>1. [name : Names, type : {"CNAME"}, data : Names] \subseteq AllRecords
    BY ZoneFacts, Zenon DEF AllRecords, Types
  <2>2. Len(m.cnameChain) \in Nat /\ m.cnameChain \in [1 .. Len(m.cnameChain) -> [name : Names, type : {"CNAME"}, data : Names]]
    BY <1>1, LenProperties, Zenon
  <2>3. m.cnameChain \in [1 .. Len(m.cnameChain) -> AllRecords]
    BY <2>1, <2>2, Zenon
  <2> QED BY <2>2, <2>3, SeqDef, Zenon
<1>4. /\ m.response.rcode \in Rcodes /\ m.response.answer \in Seq(AllRecords)
      /\ m.response.ns \in Seq([type : {"NS", "SOA"}, zone : Zones]) /\ m.response.extra \in SUBSET Hosts
  BY <1>1, MessageFacts, Zenon
<1>5. m.cnameChain \o m.response.answer \in Seq(AllRecords)
  BY <1>3, <1>4, ConcatProperties, Zenon
<1> QED BY <1>2, <1>4, <1>5, MessageMade, Zenon

\* Change returns an error.
LEMMA FailStep ==
    ASSUME TruthInv, NEW p \in Procs, Fail(p),
           machine[p].state \notin {"off", "done"},
           machine[p].state \in Awaiting => Started(p[1]) = {},
           UNCHANGED <<cache, aside>>
    PROVE  TruthInv'
<1>1. /\ machine' = [machine EXCEPT ![p] = Off("done")]
      /\ UNCHANGED <<question, cache, nsLimit, nsResults, background, expiries>>
  BY Zenon DEF Fail, aside
<1>2. CASE IsWorker(p)
  <2>1. p \in Workers /\ UNCHANGED reply
    BY <1>2, ProcFacts, Zenon DEF Fail
  <2> QED BY <1>1, <2>1, WorkerEnds, Zenon
<1>3. CASE ~IsWorker(p)
  <2> DEFINE r == p[1]
             w == Written(WithRcode(machine[p].response, "SERVFAIL"))
  <2>1. r \in Requests /\ p = Client(r)
    BY <1>3, ProcFacts, Zenon
  <2>2. reply' = [reply EXCEPT ![r] = w]
    BY <1>3, Zenon DEF Fail
  <2>3. w \in [rcode : Rcodes, answer : Answers] /\ w.rcode = "SERVFAIL"
    <3>1. machine[p].response \in Message
      BY TypeFacts, Zenon DEF Machines
    <3>2. WithRcode(machine[p].response, "SERVFAIL")
            = [rcode |-> "SERVFAIL", answer |-> machine[p].response.answer,
               ns |-> machine[p].response.ns, extra |-> machine[p].response.extra]
      BY <3>1, RcodeReplaced, Zenon DEF WithRcode
    <3>3. w = [rcode |-> "SERVFAIL", answer |-> machine[p].response.answer]
      BY <3>2 DEF Written
    <3>4. machine[p].response.answer \in Answers /\ "SERVFAIL" \in Rcodes
      BY <3>1, MessageFacts, Zenon DEF Answers, Rcodes
    <3> HIDE DEF w
    <3> QED BY <3>3, <3>4, Zenon
  <2> HIDE DEF r, w
  <2>4. Right(question[Client(r)], w)
    BY <2>3, Zenon DEF Right
  <2> QED BY <1>1, <2>1, <2>2, <2>3, <2>4, ClientEnds, Zenon DEF r
<1> QED BY <1>2, <1>3, Zenon

LEMMA FailingSteps ==
    ASSUME TruthInv, NEW p \in Procs,
           CNAMECycle(p) \/ QueryFails(p) \/ NSUnresolved(p) \/ ExchangeFails(p) \/ MaxIterationsExceeded(p)
    PROVE  TruthInv'
<1>1. CASE CNAMECycle(p)
  BY <1>1, FailStep, Zenon DEF CNAMECycle, FollowsAlias, In, Awaiting
<1>2. CASE QueryFails(p)
  BY <1>2, FailStep, Zenon DEF QueryFails, NoAddress, In, Awaiting
<1>3. CASE NSUnresolved(p)
  BY <1>3, FailStep, Zenon DEF NSUnresolved, Awaiting
<1>4. CASE ExchangeFails(p)
  BY <1>4, FailStep, Zenon DEF ExchangeFails, Awaiting
<1>5. CASE MaxIterationsExceeded(p)
  BY <1>5, FailStep, Zenon DEF MaxIterationsExceeded, Blocking, Awaiting
<1> QED BY <1>1, <1>2, <1>3, <1>4, <1>5, Zenon

-----------------------------------------------------------------------------
(* A request and its sub-queries *)

\* A step of one request leaves the others as they are.
LEMMA RequestStep ==
    ASSUME TruthInv, NEW r \in Requests, TypeOK', CacheSound', ResultsSound',
           \A o \in Procs : o[1] # r => machine'[o] = machine[o] /\ question'[o] = question[o],
           \A o \in Procs : o[1] = r => Sound(machine'[o], question'[o]),
           \A o \in Requests : o # r => nsResults'[o] = nsResults[o] /\ reply'[o] = reply[o],
           Crew(r)', ReplyOK(r)'
    PROVE  TruthInv'
<1>1. RunsSound'
  <2>1. machine' \in [Procs -> Machines]
    BY Zenon DEF TypeOK, Machines
  <2>2. ASSUME NEW o \in Procs PROVE Sound(machine'[o], question'[o])
    BY TypeFacts, Zenon
  <2> QED BY <2>1, <2>2, Zenon DEF RunsSound
<1>2. ASSUME NEW o \in Requests, o # r PROVE Crew(o)' /\ ReplyOK(o)'
  <2>1. /\ Client(o) \in Procs /\ Client(o)[1] = o /\ Crew(o) /\ ReplyOK(o)
        /\ machine'[Client(o)] = machine[Client(o)] /\ question'[Client(o)] = question[Client(o)]
        /\ nsResults'[o] = nsResults[o] /\ reply'[o] = reply[o]
    BY <1>2, ProcFacts, Zenon DEF TruthInv
  <2>2. \A w \in Workers : w[1] = o => machine'[w] = machine[w] /\ question'[w] = question[w]
    BY <1>2, ProcFacts, Zenon
  <2>3. Crew(o)'
    BY <2>1, <2>2, Zenon DEF Crew
  <2>4. ReplyOK(o)'
    BY <2>1, Zenon DEF ReplyOK
  <2> QED BY <2>3, <2>4, Zenon
<1> QED BY <1>1, <1>2, Zenon DEF TruthInv

LEMMA ServeDNSStep ==
    ASSUME TruthInv, NEW r \in Requests, NEW q \in Questions, ServeDNS(r, q)
    PROVE  TruthInv'
<1> DEFINE c == Client(r)
           m == [Off("STATE_INIT") EXCEPT !.qname = q.name]
<1>1. /\ c \in Procs /\ c[1] = r /\ machine[c].state = "off"
      /\ machine' = [machine EXCEPT ![c] = m] /\ question' = [question EXCEPT ![c] = q]
      /\ UNCHANGED <<cache, nsLimit, nsResults, background, reply, expiries>>
  BY ProcFacts, Zenon DEF ServeDNS
<1>2. q \in [name : AllNames, type : Types]
  <2>1. q \in [name : Seq(STRING), type : Types]
    BY ResolverAssumption, Zenon
  <2>2. q.name \in AllNames
    <3>1. q.name \in {x.name : x \in Questions}
      BY Zenon
    <3> QED BY <3>1, Zenon DEF AllNames
  <2> QED BY <2>1, <2>2, Zenon
<1>3. m \in Machines /\ m.state = "STATE_INIT" /\ Sound(m, q)
  <2>1. q.name \in AllNames
    BY <1>2, Zenon
  <2> QED BY <2>1, StartFacts, Zenon
<1> HIDE DEF m, c
<1>4. /\ machine \in [Procs -> Machines] /\ question \in [Procs -> [name : AllNames, type : Types]]
  BY <1>1, TypeFacts, Zenon DEF TruthInv, TypeOK
<1>5. /\ machine' \in [Procs -> Machines] /\ question' \in [Procs -> [name : AllNames, type : Types]]
      /\ machine'[c] = m /\ question'[c] = q
      /\ \A o \in Procs : o # c => machine'[o] = machine[o] /\ question'[o] = question[o]
  BY <1>1, <1>2, <1>3, <1>4, Zenon
<1>6. CacheSound' /\ ResultsSound'
  BY <1>1, CacheKept, Zenon DEF TruthInv, ResultsSound
<1>7. TypeOK'
  BY <1>1, <1>5, <1>6, Zenon DEF TruthInv, TypeOK, Machines, CacheSound, EntryOK
<1>8. Crew(r) /\ ReplyOK(r)
  BY Zenon DEF TruthInv
<1>9. Crew(r)'
  <2>1. ASSUME NEW w \in Workers, w[1] = r
        PROVE  /\ machine'[w] = machine[w] /\ question'[w] = question[w]
               /\ machine[w].state \in {"off", "done"}
    <3>1. w \in Procs /\ w # c
      BY ProcFacts, Zenon DEF c
    <3>2. machine[w].state \in {"off", "done"}
      BY <1>1, <1>8, <2>1, Zenon DEF Crew, c, Awaiting
    <3> QED BY <1>5, <3>1, <3>2, Zenon
  <2>2. machine'[Client(r)].state = "STATE_INIT"
    BY <1>3, <1>5, Zenon DEF c
  <2>3. \A i \in DOMAIN nsResults'[r] : ResultOK(nsResults'[r][i])
    BY <1>1, <1>8, Zenon DEF Crew
  <2> QED BY <1>8, <2>1, <2>2, <2>3, Zenon DEF Crew, Awaiting
<1>10. ReplyOK(r)'
  <2>1. reply'[r] = NoReply
    BY <1>1, <1>8, Zenon DEF ReplyOK, c
  <2>2. NoReply.rcode = "none"
    BY Zenon DEF NoReply
  <2> QED BY <2>1, <2>2, Zenon DEF ReplyOK, Right
<1>11. /\ \A o \in Procs : o[1] # r => machine'[o] = machine[o] /\ question'[o] = question[o]
       /\ \A o \in Procs : o[1] = r => Sound(machine'[o], question'[o])
  BY <1>1, <1>3, <1>5, TypeFacts, Zenon
<1> QED BY <1>1, <1>6, <1>7, <1>9, <1>10, <1>11, RequestStep, Zenon

LEMMA StartSubQueriesStep ==
    ASSUME TruthInv, NEW p \in Procs, StartSubQueries(p)
    PROVE  TruthInv'
<1> DEFINE r == p[1]
           c == Client(r)
           names == getNSNames(machine[p].response)
           m == [machine[p] EXCEPT !.state = "AWAIT_NS"]
           started == {w \in Workers : w[1] = r /\ w[2] \in names}
<1>1. /\ machine[p].state = "QUERY_UPSTREAM" /\ machine[p].iterations < MaxIterations
      /\ machine[p].state \in Late /\ ~IsWorker(p)
      /\ nsResults' = [nsResults EXCEPT ![r] = <<>>]
      /\ UNCHANGED <<question, cache, background, reply, expiries>>
  BY Zenon DEF StartSubQueries, NoAddress, In, Late
<1>2. r \in Requests /\ p = c /\ c \in Procs
  BY <1>1, ProcFacts, Zenon
<1>3. PICK limit \in WorkerLimits : nsLimit' = [nsLimit EXCEPT ![r] = limit]
  BY Zenon DEF StartSubQueries
<1>4. /\ machine \in [Procs -> Machines] /\ machine[p] \in Machines
      /\ Chained(machine[p], question[p]) /\ Looking(machine[p], question[p])
      /\ ServeAll(names, machine[p].qname)
  BY <1>1, LateFacts, TypeFacts, Zenon DEF Sound
<1>5. /\ m \in Machines /\ m.state = "AWAIT_NS" /\ m.response = machine[p].response
      /\ m.qname = machine[p].qname /\ m.cnameChain = machine[p].cnameChain
      /\ m.iterations = machine[p].iterations
  BY <1>4, Zenon DEF Machines, States
<1>6. Sound(m, question[p])
  <2> HIDE DEF m
  <2>1. Chained(m, question[p]) /\ Looking(m, question[p])
    BY <1>1, <1>4, <1>5, Zenon DEF Chained, Looking
  <2> QED BY <1>1, <1>4, <1>5, <2>1, Zenon DEF Sound, Active, Early, Late, Awaiting
<1>7. machine' = [q \in Procs |-> IF q = p THEN m
                                  ELSE IF IsWorker(q) /\ q[1] = r /\ q[2] \in names THEN Off("blocked")
                                  ELSE machine[q]]
  BY Zenon DEF StartSubQueries
<1> HIDE DEF m, names
<1>8. /\ machine' \in [Procs -> Machines] /\ machine'[p] = m
      /\ \A o \in Procs : o # p => machine'[o] \in {machine[o], Off("blocked")}
      /\ \A o \in Procs : o[1] # r => machine'[o] = machine[o]
      /\ \A w \in Workers : w[1] = r => machine'[w] = IF w[2] \in names THEN Off("blocked") ELSE machine[w]
  <2>1. machine' \in [Procs -> Machines]
    BY <1>4, <1>5, <1>7, OffFacts, Zenon
  <2>2. \A o \in Procs : o[1] # r => o # p
    BY Zenon
  <2>3. \A w \in Workers : w \in Procs /\ IsWorker(w) /\ w # p
    BY <1>1, ProcFacts, Zenon
  <2> QED BY <1>4, <1>7, <2>1, <2>2, <2>3, Zenon
<1>9. /\ nsResults \in [Requests -> Seq([name : Hosts, ips : Seq(AllNames)])]
      /\ nsResults' \in [Requests -> Seq([name : Hosts, ips : Seq(AllNames)])]
      /\ nsResults'[r] = <<>> /\ \A o \in Requests : o # r => nsResults'[o] = nsResults[o]
      /\ nsLimit' \in [Requests -> Nat \ {0}]
  <2>1. /\ nsResults \in [Requests -> Seq([name : Hosts, ips : Seq(AllNames)])]
        /\ nsLimit \in [Requests -> Nat \ {0}]
    BY Zenon DEF TruthInv, TypeOK
  <2>2. limit \in Nat \ {0} /\ <<>> \in Seq([name : Hosts, ips : Seq(AllNames)])
    BY ResolverAssumption, EmptySeq, Zenon
  <2> QED BY <1>1, <1>2, <1>3, <2>1, <2>2, Zenon
<1>10. CacheSound' /\ ResultsSound'
  BY <1>1, CacheKept, Zenon DEF TruthInv, ResultsSound
<1>11. TypeOK'
  BY <1>1, <1>8, <1>9, <1>10, Zenon DEF TruthInv, TypeOK, Machines, CacheSound, EntryOK
<1>12. Crew(r) /\ ReplyOK(r)
  BY <1>2, Zenon DEF TruthInv
<1>13. Crew(r)'
  <2>1. machine'[Client(r)] = m /\ m.state = "AWAIT_NS" /\ m.response = machine[p].response
    BY <1>2, <1>5, <1>8, Zenon
  <2>2. ASSUME NEW w \in Workers, w[1] = r
        PROVE  /\ machine'[w].state \notin Awaiting
               /\ question'[w] = [name |-> w[2], type |-> "A"]
               /\ machine'[w].state \notin {"off", "done"} => w[2] \in names
    <3>1. /\ machine[w].state \in {"off", "done"}
          /\ question[w] = [name |-> w[2], type |-> "A"]
      BY <1>1, <1>2, <1>12, <2>2, Zenon DEF Crew, Awaiting
    <3>2. machine'[w] = IF w[2] \in names THEN Off("blocked") ELSE machine[w]
      BY <1>8, <2>2, Zenon
    <3>3. Off("blocked").state = "blocked"
      BY OffFacts, Zenon
    <3> QED BY <1>1, <3>1, <3>2, <3>3, Zenon DEF Awaiting
  <2>3. DOMAIN nsResults'[r] = {}
    BY <1>9
  <2> QED BY <2>1, <2>2, <2>3, Zenon DEF Crew, Awaiting, names
<1>14. ReplyOK(r)'
  <2>1. reply[r] = NoReply
    BY <1>1, <1>2, <1>12, Zenon DEF ReplyOK
  <2> QED BY <1>1, <1>12, <2>1, Zenon DEF ReplyOK
<1>15. \A o \in Procs : Sound(machine'[o], question'[o])
  BY <1>1, <1>6, <1>8, TypeFacts, OffFacts, Zenon
<1> QED BY <1>1, <1>2, <1>8, <1>9, <1>10, <1>11, <1>13, <1>14, <1>15, RequestStep, ZenonT(60)

\* While a request waits it has not replied.
LEMMA AwaitingFacts ==
    ASSUME TruthInv, NEW p \in Procs, machine[p].state \in Awaiting
    PROVE  /\ p[1] \in Requests /\ p = Client(p[1]) /\ Crew(p[1]) /\ ReplyOK(p[1])
           /\ reply[p[1]] = NoReply
           /\ machine \in [Procs -> Machines] /\ machine[p] \in Machines
           /\ Chained(machine[p], question[p]) /\ Looking(machine[p], question[p])
           /\ ServeAll(getNSNames(machine[p].response), machine[p].qname)
           /\ machine[p].iterations < MaxIterations
<1>1. /\ machine \in [Procs -> Machines] /\ machine[p] \in Machines
      /\ Chained(machine[p], question[p]) /\ Looking(machine[p], question[p])
      /\ ServeAll(getNSNames(machine[p].response), machine[p].qname)
      /\ machine[p].iterations < MaxIterations
  BY TypeFacts, Zenon DEF Sound, Active, Late, Awaiting
<1>2. ~IsWorker(p)
  <2> SUFFICES ASSUME IsWorker(p) PROVE FALSE
    BY Zenon
  <2>1. p \in Workers /\ p[1] \in Requests
    BY ProcFacts, Zenon
  <2> QED BY <2>1, Zenon DEF TruthInv, Crew
<1>3. p[1] \in Requests /\ p = Client(p[1]) /\ Crew(p[1]) /\ ReplyOK(p[1])
  BY <1>2, ProcFacts, Zenon DEF TruthInv
<1>4. reply[p[1]] = NoReply
  BY <1>3, Zenon DEF ReplyOK, Awaiting
<1> QED BY <1>1, <1>3, <1>4, Zenon

\* A request that waits goes on, to wait for the rest or to ask servers.
LEMMA WaitStep ==
    ASSUME TruthInv, NEW p \in Procs, machine[p].state \in Awaiting,
           NEW m \in Machines, machine' = [machine EXCEPT ![p] = m], Sound(m, question[p]),
           m.response = machine[p].response,
           \/ m.state = "AWAIT_REST" /\ nsResults[p[1]] # <<>>
           \/ m.state = "EXCHANGE" /\ Started(p[1]) = {},
           ResultsSound',
           UNCHANGED <<question, cache, nsLimit, nsResults, reply, expiries>>
    PROVE  TruthInv'
<1> DEFINE r == p[1]
<1>1. r \in Requests /\ p = Client(r) /\ Crew(r) /\ ReplyOK(r) /\ reply[r] = NoReply
      /\ machine \in [Procs -> Machines]
  BY AwaitingFacts, Zenon
<1>2. /\ machine' \in [Procs -> Machines] /\ machine'[p] = m
      /\ \A o \in Procs : o # p => machine'[o] = machine[o]
  BY <1>1, Zenon
<1>3. CacheSound' /\ TypeOK'
  BY <1>2, CacheKept, TypeKept, Zenon DEF TruthInv
<1>4. Crew(r)'
  <2>1. ASSUME NEW w \in Workers, w[1] = r
        PROVE  /\ machine'[w].state \notin Awaiting
               /\ question'[w] = [name |-> w[2], type |-> "A"]
               /\ machine'[w].state \notin {"off", "done"} =>
                     m.state \in Awaiting /\ w[2] \in getNSNames(m.response)
    <3>1. w \in Procs /\ w # p /\ machine'[w] = machine[w]
      BY <1>1, <1>2, ProcFacts
    <3>2. /\ machine[w].state \notin Awaiting
          /\ question[w] = [name |-> w[2], type |-> "A"]
          /\ machine[w].state \notin {"off", "done"} => w[2] \in getNSNames(machine[p].response)
      BY <1>1, <2>1, Zenon DEF Crew
    <3>3. CASE m.state = "AWAIT_REST"
      BY <3>1, <3>2, <3>3, Zenon DEF Awaiting
    <3>4. CASE Started(p[1]) = {}
      <4>1. machine[w].state \in {"off", "done"}
        BY <2>1, <3>4, Zenon DEF Started
      <4> QED BY <3>1, <3>2, <4>1, Zenon
    <3> QED BY <3>3, <3>4, Zenon
  <2>2. machine'[Client(r)] = m /\ m.state # "blocked" /\ (m.state = "AWAIT_REST" => nsResults'[r] # <<>>)
    BY <1>1, <1>2, Zenon
  <2>3. ASSUME NEW i \in DOMAIN nsResults'[r]
        PROVE  ResultOK(nsResults'[r][i]) /\ nsResults'[r][i].name \in getNSNames(m.response)
    BY <1>1, Zenon DEF Crew
  <2> QED BY <2>1, <2>2, <2>3, Zenon DEF Crew
<1>5. ReplyOK(r)'
  BY <1>1, Zenon DEF ReplyOK
<1>6. /\ \A o \in Procs : o[1] # r => machine'[o] = machine[o] /\ question'[o] = question[o]
      /\ \A o \in Procs : o[1] = r => Sound(machine'[o], question'[o])
  BY <1>1, <1>2, TypeFacts, Zenon
<1> QED BY <1>1, <1>3, <1>4, <1>5, <1>6, RequestStep, Zenon

LEMMA FirstNSResultStep ==
    ASSUME TruthInv, NEW p \in Procs, FirstNSResult(p)
    PROVE  TruthInv'
<1> DEFINE m == [machine[p] EXCEPT !.state = "AWAIT_REST"]
<1>1. /\ machine[p].state = "AWAIT_NS" /\ machine[p].state \in Awaiting /\ nsResults[p[1]] # <<>>
      /\ UNCHANGED <<question, cache, nsLimit, nsResults, background, reply, expiries>>
  BY Zenon DEF FirstNSResult, Awaiting, aside
<1>2. /\ machine \in [Procs -> Machines] /\ machine[p] \in Machines
      /\ Chained(machine[p], question[p]) /\ Looking(machine[p], question[p])
      /\ ServeAll(getNSNames(machine[p].response), machine[p].qname)
      /\ machine[p].iterations < MaxIterations
  BY <1>1, AwaitingFacts, Zenon
<1>3. /\ m \in Machines /\ m.state = "AWAIT_REST" /\ m.response = machine[p].response
      /\ m.qname = machine[p].qname /\ m.cnameChain = machine[p].cnameChain
      /\ m.iterations = machine[p].iterations
  BY <1>2, Zenon DEF Machines, States
<1>4. machine' = [machine EXCEPT ![p] = m]
  BY <1>2, Zenon DEF FirstNSResult
<1> HIDE DEF m
<1>5. Sound(m, question[p])
  <2>1. Chained(m, question[p]) /\ Looking(m, question[p])
    BY <1>1, <1>2, <1>3, Zenon DEF Chained, Looking
  <2> QED BY <1>2, <1>3, <2>1, Zenon DEF Sound, Active, Early, Late, Awaiting
<1>6. ResultsSound'
  BY <1>1, Zenon DEF TruthInv, ResultsSound
<1> QED BY <1>1, <1>3, <1>4, <1>5, <1>6, WaitStep, Zenon

LEMMA NSResolvedStep ==
    ASSUME TruthInv, NEW p \in Procs, NSResolved(p)
    PROVE  TruthInv'
<1> DEFINE results == nsResults[p[1]]
           first == results[1].ips
           ips == {first[i] : i \in DOMAIN first}
           m == [machine[p] EXCEPT !.state = "EXCHANGE", !.ipList = ips]
<1>1. /\ machine[p].state = "AWAIT_REST" /\ machine[p].state \in Awaiting /\ Started(p[1]) = {}
      /\ Wait(p, "EXCHANGE", ips)
      /\ background' = background \cup {results[i] : i \in 2 .. Len(results)}
      /\ UNCHANGED <<question, cache, nsLimit, nsResults, reply, expiries>>
  BY Zenon DEF NSResolved, Awaiting
<1>2. /\ p[1] \in Requests /\ p = Client(p[1]) /\ Crew(p[1])
      /\ machine \in [Procs -> Machines] /\ machine[p] \in Machines
      /\ Chained(machine[p], question[p]) /\ Looking(machine[p], question[p])
      /\ ServeAll(getNSNames(machine[p].response), machine[p].qname)
      /\ machine[p].iterations < MaxIterations
  BY <1>1, AwaitingFacts, Zenon
<1>3. /\ results \in Seq([name : Hosts, ips : Seq(AllNames)]) /\ results # <<>>
      /\ \A i \in DOMAIN results :
            ResultOK(results[i]) /\ results[i].name \in getNSNames(machine[p].response)
  <2>1. nsResults \in [Requests -> Seq([name : Hosts, ips : Seq(AllNames)])]
    BY Zenon DEF TruthInv, TypeOK
  <2> QED BY <1>1, <1>2, <2>1, Zenon DEF Crew
<1> HIDE DEF results
<1>4. Len(results) \in Nat /\ DOMAIN results = 1 .. Len(results) /\ 1 \in DOMAIN results
  BY <1>3, LenProperties
<1>5. ips \subseteq getNSNames(machine[p].response) /\ ips \subseteq AllNames
  <2>1. ResultOK(results[1]) /\ results[1].name \in getNSNames(machine[p].response)
    BY <1>3, <1>4, Zenon
  <2>2. \A i \in DOMAIN first : first[i] = results[1].name
    BY <2>1, Zenon DEF ResultOK
  <2>3. results[1].name \in AllNames
    BY <2>1, ZoneFacts, Zenon DEF ResultOK
  <2> QED BY <2>1, <2>2, <2>3, Zenon
<1> HIDE DEF ips
<1>6. /\ m \in Machines /\ m.state = "EXCHANGE" /\ m.response = machine[p].response /\ m.ipList = ips
      /\ m.qname = machine[p].qname /\ m.cnameChain = machine[p].cnameChain
      /\ m.iterations = machine[p].iterations
  BY <1>2, <1>5, Zenon DEF Machines, States
<1>7. machine' = [machine EXCEPT ![p] = m]
  BY <1>1, <1>2, Zenon DEF Wait
<1> HIDE DEF m
<1>8. Sound(m, question[p])
  <2>1. Chained(m, question[p]) /\ Looking(m, question[p])
    BY <1>1, <1>2, <1>6, Zenon DEF Chained, Looking
  <2>2. ServeAll(m.ipList, m.qname)
    BY <1>2, <1>5, <1>6, Zenon DEF ServeAll
  <2> QED BY <1>2, <1>6, <2>1, <2>2, Zenon DEF Sound, Active, Early, Late, Awaiting
<1>9. ResultsSound'
  <2>1. \A i \in 2 .. Len(results) : i \in DOMAIN results
    BY <1>4
  <2>2. \A x \in {results[i] : i \in 2 .. Len(results)} : ResultOK(x)
    BY <1>3, <2>1, Zenon
  <2> QED BY <1>1, <2>2, Zenon DEF TruthInv, ResultsSound
<1> QED BY <1>1, <1>6, <1>7, <1>8, <1>9, WaitStep, Zenon

\* The address record of a server is a record of the world.
LEMMA HostRecord ==
    ASSUME NEW n \in Hosts
    PROVE  [name |-> n, type |-> "A", data |-> n] \in Records
<1>1. PICK z \in Zones : n \in NSNames[z]
  BY Zenon DEF Hosts
<1>2. n \in {r.name : r \in Records}
  BY <1>1, WorldAssumption, Zenon
<1>3. PICK r \in Records : r.name = n
  BY <1>2, Zenon
<1>4. r.type = "A" /\ r.data = n
  BY <1>3, RecordFacts, WorldAssumption, Zenon
<1> QED BY <1>3, <1>4, RecordFacts, Zenon

LEMMA updateNSIPsCacheStep ==
    ASSUME TruthInv, NEW result, updateNSIPsCache(result)
    PROVE  TruthInv'
<1> DEFINE n == result.name
           ips == result.ips
           rr == [name |-> n, type |-> "A", data |-> n]
           answer == [i \in DOMAIN ips |-> [name |-> n, type |-> "A", data |-> ips[i]]]
           msg == [Empty EXCEPT !.answer = answer]
           k == <<n, "A">>
<1>1. /\ result \in background /\ background' = background \ {result}
      /\ cache' = Put({k}, msg)
      /\ UNCHANGED <<machine, question, nsLimit, nsResults, reply, expiries>>
  BY Zenon DEF updateNSIPsCache
<1>2. ResultOK(result)
  BY <1>1, Zenon DEF TruthInv, ResultsSound
<1>3. /\ n \in Hosts /\ ips \in Seq(AllNames) /\ ips # <<>> /\ \A i \in DOMAIN ips : ips[i] = n
  BY <1>2, Zenon DEF ResultOK
<1>4. rr \in Records /\ rr \in AllRecords
  BY <1>3, HostRecord, RecordFacts, Zenon
<1> HIDE DEF n, ips
<1>5. Len(ips) \in Nat /\ DOMAIN ips = 1 .. Len(ips)
  BY <1>3, LenProperties, Zenon
<1>6. answer \in [1 .. Len(ips) -> AllRecords] /\ \A i \in DOMAIN ips : answer[i] = rr
  BY <1>3, <1>4, <1>5, Zenon
<1>7. answer \in Seq(AllRecords) /\ DOMAIN answer = DOMAIN ips /\ answer # <<>>
  <2>1. answer \in Seq(AllRecords) /\ DOMAIN answer = DOMAIN ips
    BY <1>5, <1>6, SeqDef, Zenon
  <2>2. Len(ips) # 0
    BY <1>3, EmptySeq, Zenon
  <2>3. 1 \in DOMAIN answer
    BY <1>5, <2>1, <2>2
  <2> HIDE DEF answer
  <2> QED BY <2>1, <2>3
<1> HIDE DEF answer
<1>8. GoodAnswer(n, "A", answer)
  <2>1. \A i \in DOMAIN answer : answer[i] \in Records /\ answer[i].type = "A"
           /\ answer[i].name = n /\ answer[i].data = n
    BY <1>4, <1>6, <1>7
  <2>2. Linked(n, answer)
    <3>1. ASSUME NEW i \in DOMAIN answer PROVE answer[i].name = IF i = 1 THEN n ELSE answer[i - 1].data
      <4>1. i \in 1 .. Len(ips) /\ (i # 1 => i - 1 \in 1 .. Len(ips))
        BY <1>5, <1>7
      <4> QED BY <1>5, <1>7, <2>1, <4>1, Zenon
    <3> QED BY <3>1, Zenon DEF Linked
  <2> QED BY <2>1, <2>2, Zenon DEF GoodAnswer
<1>9. msg \in Message /\ msg.answer = answer
  <2>1. msg = [rcode |-> Empty.rcode, answer |-> answer, ns |-> Empty.ns, extra |-> Empty.extra]
    BY EmptyMessage, AnswerReplaced, Zenon
  <2> HIDE DEF msg
  <2>2. /\ Empty.rcode \in Rcodes /\ Empty.extra \in SUBSET Hosts
        /\ Empty.ns \in Seq([type : {"NS", "SOA"}, zone : Zones])
    BY EmptyMessage, MessageFacts, Zenon
  <2> QED BY <1>7, <2>1, <2>2, MessageMade, Zenon
<1> HIDE DEF msg
<1>10. EntryOK(k, msg)
  <2>1. k \in Keys /\ k[1] = n /\ k[2] = "A"
    BY <1>3, ZoneFacts, Zenon DEF Keys, Types
  <2> HIDE DEF k
  <2> QED BY <1>7, <1>8, <1>9, <2>1, Zenon DEF EntryOK
<1>11. CacheSound'
  <2> HIDE DEF k
  <2>1. \A l \in {k} : EntryOK(l, msg)
    BY <1>10, Zenon
  <2> QED BY <1>1, <2>1, PutSound
<1>12. TypeOK'
  BY <1>1, <1>11, TypeKept, Zenon DEF TruthInv, RunsSound
<1>13. ResultsSound' /\ RunsSound' /\ \A r \in Requests : Crew(r)' /\ ReplyOK(r)'
  BY <1>1, Zenon DEF TruthInv, ResultsSound, RunsSound, Crew, ReplyOK
<1> QED BY <1>11, <1>12, <1>13, Zenon DEF TruthInv

LEMMA ExpireStep ==
    ASSUME TruthInv, NEW k, Expire(k)
    PROVE  TruthInv'
<1>1. /\ expiries < MaxExpiries /\ expiries' = expiries + 1
      /\ cache' = [l \in DOMAIN cache \ {k} |-> cache[l]]
      /\ UNCHANGED <<machine, question, nsLimit, nsResults, background, reply>>
  BY Zenon DEF Expire
<1>2. CacheSound'
  BY <1>1, Zenon DEF TruthInv, CacheSound
<1>3. expiries' \in 0 .. MaxExpiries
  <2>1. expiries \in 0 .. MaxExpiries
    BY Zenon DEF TruthInv, TypeOK
  <2> QED BY <1>1, <2>1, ResolverAssumption
<1>4. TypeOK'
  BY <1>1, <1>2, <1>3, Zenon DEF TruthInv, TypeOK, CacheSound, EntryOK
<1>5. ResultsSound' /\ RunsSound' /\ \A r \in Requests : Crew(r)' /\ ReplyOK(r)'
  BY <1>1, Zenon DEF TruthInv, ResultsSound, RunsSound, Crew, ReplyOK
<1> QED BY <1>2, <1>4, <1>5 DEF TruthInv

-----------------------------------------------------------------------------
(* The invariant holds *)

LEMMA TruthInit ==
    ASSUME Init
    PROVE  TruthInv
<1>1. \A p \in Procs : machine[p] = Off("off") /\ machine[p].state = "off"
                       /\ question[p] = [name |-> p[2], type |-> "A"]
  BY OffFacts, Zenon DEF Init
<1>2. machine \in [Procs -> Machines] /\ \A p \in Procs : Sound(machine[p], question[p])
  BY <1>1, OffFacts, Zenon DEF Init
<1>3. question \in [Procs -> [name : AllNames, type : Types]]
  <2>1. \A p \in Procs : p[2] \in AllNames
    BY ZoneFacts DEF Procs, Client, Workers
  <2> QED BY <2>1, Zenon DEF Init, Types
<1>4. DOMAIN cache = {}
  BY DEF Init
<1>5. /\ nsLimit \in [Requests -> Nat \ {0}] /\ expiries \in 0 .. MaxExpiries
      /\ reply \in [Requests -> [rcode : Rcodes, answer : Answers] \cup {NoReply}]
      /\ nsResults \in [Requests -> Seq([name : Hosts, ips : Seq(AllNames)])]
  BY ResolverAssumption, EmptySeq DEF Init
<1>6. TypeOK
  BY <1>2, <1>3, <1>4, <1>5, Zenon DEF TypeOK, Machines
<1>7. ASSUME NEW r \in Requests PROVE Crew(r) /\ ReplyOK(r)
  <2>1. /\ machine[Client(r)].state = "off" /\ nsResults[r] = <<>> /\ reply[r] = NoReply
        /\ DOMAIN nsResults[r] = {}
    BY <1>1, ProcFacts DEF Init
  <2>2. \A w \in Workers : machine[w].state = "off" /\ question[w] = [name |-> w[2], type |-> "A"]
    BY <1>1, ProcFacts, Zenon
  <2>3. Crew(r)
    BY <2>1, <2>2, Zenon DEF Crew, Awaiting
  <2>4. NoReply.rcode = "none"
    BY Zenon DEF NoReply
  <2> QED BY <2>1, <2>3, <2>4, Zenon DEF ReplyOK, Right
<1> QED BY <1>2, <1>4, <1>6, <1>7, Zenon DEF TruthInv, RunsSound, CacheSound, ResultsSound, Init
=============================================================================

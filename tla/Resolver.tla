----------------------------- MODULE Resolver -----------------------------
(***************************************************************************)
(* The resolution state machine: ServeDNS and Change (server/server.go,    *)
(* server/state_machine.go) with the handlers of every state, the cache    *)
(* they share, and the sub-queries that resolve the addresses of name      *)
(* servers (server/state_query_upstream.go).                               *)
(*                                                                         *)
(* A process <<r, host>> is one run of Change: <<r, <<>>>> is the client's *)
(* request r, <<r, n>> the sub-query for the address of server n that      *)
(* request r started.  One action is one iteration of Change's loop, except *)
(* QUERY_UPSTREAM, whose handler blocks: it is split where it waits.       *)
(* The limiter, the upstream gate and the race between two servers have    *)
(* modules of their own; here each may refuse, fail or pick either server. *)
(***************************************************************************)
EXTENDS DnsWorld

CONSTANTS Requests,       \* the client requests of a behaviour
          Questions,      \* what clients ask, as [name, type]
          HostsMap,       \* the records of the hosts section of the configuration, in order
          ForwardZones,   \* the zones of the forwarding section
          ForwardRecords, \* what the forwarders know
          MaxIterations,  \* 50 in the code
          WorkerLimits,   \* maxConcurrentNSQueries, and 1 under a loaded gate
          MaxExpiries     \* bound: cache entries that expire in a behaviour

VARIABLES machine,    \* the runs of Change
          question,   \* the question each run was started with
          cache,      \* globalDnsCache, a message per key
          nsLimit,    \* the capacity of the semaphore of a request's sub-queries
          nsResults,  \* resultChan: the [name, ips] of a request's sub-queries
          background, \* results handed to updateNSIPsCache goroutines
          reply,      \* the Rcode and the answer ServeDNS wrote to the client
          expiries,   \* cache entries expired so far
          hindered    \* requests that a failure or a refusal got in the way of

vars == <<machine, question, cache, nsLimit, nsResults, background, reply, expiries, hindered>>

\* What the machine of one request leaves alone in most of its iterations.
aside == <<question, nsLimit, background, expiries>>

Client(r) == <<r, <<>>>>
Workers == Requests \X Hosts
Procs == {Client(r) : r \in Requests} \cup Workers

Types == {"A", "AAAA", "CNAME"}

Configured == {HostsMap[i] : i \in DOMAIN HostsMap} \cup ForwardRecords
HostsNames == {HostsMap[i].name : i \in DOMAIN HostsMap}
AllNames == Names \cup {q.name : q \in Questions} \cup UNION {{rr.name, rr.data} : rr \in Configured}
AllRecords == [name : AllNames, type : Types, data : AllNames]

\* getCacheKey gives name:type; a delegation is stored under the bare name.
Keys == AllNames \X (Types \cup {"delegation"})

ASSUME ResolverAssumption ==
    /\ Questions \subseteq [name : Seq(STRING), type : Types]
    /\ HostsMap \in Seq(AllRecords) /\ ForwardRecords \subseteq AllRecords
    /\ AllNames \subseteq Seq(STRING)
    /\ \A rr \in Configured : rr.type = "A" /\ rr.name \in Hosts => rr.data = rr.name
    /\ MaxIterations \in Nat /\ MaxExpiries \in Nat
    /\ WorkerLimits \subseteq Nat \ {0}

Rcodes == {"NOERROR", "NXDOMAIN", "SERVFAIL", "REFUSED", "FORMERR"}
Answers == Seq(AllRecords)
Message == [rcode : Rcodes, answer : Answers,
            ns : Seq([type : {"NS", "SOA"}, zone : Zones]),
            extra : SUBSET Hosts]

Empty == [rcode |-> "NOERROR", answer |-> <<>>, ns |-> <<>>, extra |-> {}]
WithRcode(msg, rcode) == [msg EXCEPT !.rcode = rcode]
Written(msg) == [rcode |-> msg.rcode, answer |-> msg.answer]
NoReply == [rcode |-> "none", answer |-> <<>>]

\* A machine that does not run.
Off(state) == [state |-> state, iterations |-> 0, qname |-> <<>>, response |-> Empty,
               cnameChain |-> <<>>, ipList |-> {}]

Init ==
    /\ machine = [p \in Procs |-> Off("off")]
    /\ question = [p \in Procs |-> [name |-> p[2], type |-> "A"]]
    /\ cache = <<>>
    /\ nsLimit = [r \in Requests |-> 1]
    /\ nsResults = [r \in Requests |-> <<>>]
    /\ background = {}
    /\ reply = [r \in Requests |-> NoReply]
    /\ expiries = 0
    /\ hindered = {}

-----------------------------------------------------------------------------
(* The loop of Change *)

QType(p) == question[p].type
IsWorker(p) == p[2] # <<>>
HasSOA(msg) == \E i \in DOMAIN msg.ns : msg.ns[i].type = "SOA"
IsDelegation(msg) == msg.ns # <<>> /\ msg.ns[1].type = "NS"

\* Iteration of p in a state, on to the next one.
\* (Fault: one iteration too many.)
InOnceMore(p, state) == machine[p].state = state /\ machine[p].iterations <= MaxIterations
In(p, state) == machine[p].state = state /\ machine[p].iterations < MaxIterations
\* Fault: the iterations are not counted.
GoToUncounted(p, state, response) ==
    machine' = [machine EXCEPT ![p].state = state, ![p].response = response]
GoTo(p, state, response) ==
    machine' = [machine EXCEPT ![p].state = state, ![p].response = response,
                               ![p].iterations = @ + 1]

\* The context of a sub-query is cancelled once the first result is received.
Cancelled(p) == IsWorker(p) /\ machine[Client(p[1])].state = "AWAIT_REST"

\* The records of a sequence that are in a set, in their order.
Among(rrs, S) ==
    LET among[i \in 0 .. Len(rrs)] ==
          IF i = 0 THEN <<>>
          ELSE IF rrs[i] \in S THEN Append(among[i - 1], rrs[i]) ELSE among[i - 1]
    IN  among[Len(rrs)]

IPs(msg) == LET as == Among(msg.answer, [name : AllNames, type : {"A"}, data : AllNames])
            IN  [i \in DOMAIN as |-> as[i].data]

\* Change returns msg: ServeDNS writes it, a sub-query sends its addresses
\* unless it finds the context cancelled.
Return(p, msg) ==
    /\ machine' = [machine EXCEPT ![p] = Off("done")]
    /\ IF IsWorker(p)
       THEN /\ \/ /\ IPs(msg) # <<>>
                  /\ nsResults' = [nsResults EXCEPT ![p[1]] =
                                     Append(@, [name |-> p[2], ips |-> IPs(msg)])]
               \/ /\ IPs(msg) = <<>> \/ Cancelled(p)
                  /\ UNCHANGED nsResults
            /\ UNCHANGED reply
       ELSE /\ reply' = [reply EXCEPT ![p[1]] = Written(msg)]
            /\ UNCHANGED nsResults

\* Change returns an error: ServeDNS turns the response at hand into SERVFAIL,
\* with the records it has gathered.
Fail(p) ==
    /\ machine' = [machine EXCEPT ![p] = Off("done")]
    /\ IF IsWorker(p) THEN UNCHANGED reply
       ELSE reply' = [reply EXCEPT ![p[1]] = Written(WithRcode(machine[p].response, "SERVFAIL"))]
    /\ UNCHANGED nsResults

Hinder(p) == hindered' = hindered \cup {p[1]}

\* A client's request arrives.
ServeDNS(r, q) ==
    /\ machine[Client(r)].state = "off"
    /\ machine' = [machine EXCEPT ![Client(r)] = [Off("STATE_INIT") EXCEPT !.qname = q.name]]
    /\ question' = [question EXCEPT ![Client(r)] = q]
    /\ UNCHANGED <<cache, nsLimit, nsResults, background, reply, expiries, hindered>>

\* A request without exactly one question, a response, or another opcode.
ServeMalformed(r) ==
    /\ machine[Client(r)].state = "off"
    /\ Return(Client(r), WithRcode(Empty, "FORMERR"))
    /\ Hinder(Client(r))
    /\ UNCHANGED <<cache, aside>>

StateInit(p) ==
    /\ In(p, "STATE_INIT")
    /\ GoTo(p, "HOSTS_LOOKUP", Empty)
    /\ UNCHANGED <<cache, nsResults, reply, hindered, aside>>

\* A name of the hosts section is answered from it, with no records for
\* another type.
HostsLookup(p) ==
    LET m == machine[p]
        found == Among(HostsMap, [name : {m.qname}, type : {QType(p)}, data : AllNames])
    IN  /\ In(p, "HOSTS_LOOKUP")
        /\ \/ /\ m.qname \notin HostsNames
              /\ GoTo(p, "FORWARD_LOOKUP", m.response)
           \/ /\ m.qname \in HostsNames
              /\ GoTo(p, "RETURN_RESP", [m.response EXCEPT !.answer = @ \o found])
        /\ UNCHANGED <<cache, nsResults, reply, hindered, aside>>

-----------------------------------------------------------------------------
(* Forwarding *)

Matched(name) == {z \in ForwardZones : IsSubDomain(z, name)}

ForwardReply(name, type) ==
    LET found == {rr \in ForwardRecords : rr.name = name /\ rr.type = type}
    IN  IF found = {} THEN WithRcode(Empty, "NXDOMAIN")
        ELSE [Empty EXCEPT !.answer = <<CHOOSE rr \in found : TRUE>>]

ForwardMiss(p) ==
    /\ In(p, "FORWARD_LOOKUP")
    /\ Matched(machine[p].qname) = {}
    /\ GoTo(p, "CACHE_LOOKUP", machine[p].response)
    /\ UNCHANGED <<cache, nsResults, reply, hindered, aside>>

\* The first upstream that answers is believed, and nothing is cached.
ForwardHit(p) ==
    /\ In(p, "FORWARD_LOOKUP")
    /\ Matched(machine[p].qname) # {}
    /\ GoTo(p, "RETURN_RESP", ForwardReply(machine[p].qname, QType(p)))
    /\ UNCHANGED <<cache, nsResults, reply, hindered, aside>>

\* Every upstream fails, or the limiter refuses the request.
ForwardFails(p) ==
    /\ In(p, "FORWARD_LOOKUP")
    /\ Matched(machine[p].qname) # {}
    /\ \E rcode \in {"SERVFAIL", "REFUSED"} : Return(p, WithRcode(Empty, rcode))
    /\ Hinder(p)
    /\ UNCHANGED <<cache, aside>>

-----------------------------------------------------------------------------
(* The cache *)

CacheKey(p) == <<machine[p].qname, QType(p)>>

\* setCacheCopyByType and getCacheCopyByType, whose miss reads like an empty message.
Put(keys, msg) == [k \in DOMAIN cache \cup keys |-> IF k \in keys THEN msg ELSE cache[k]]
Get(k) == IF k \in DOMAIN cache THEN cache[k] ELSE Empty

CacheHit(p) ==
    LET m == machine[p]
        msg == Get(CacheKey(p))
    IN  /\ In(p, "CACHE_LOOKUP")
        /\ \/ /\ msg.answer # <<>>
              /\ GoTo(p, "CLASSIFY_RESP", [m.response EXCEPT !.answer = @ \o msg.answer])
           \/ /\ msg.answer = <<>> /\ HasSOA(msg)
              /\ GoTo(p, "CLASSIFY_RESP", [m.response EXCEPT !.rcode = msg.rcode,
                                                             !.ns = @ \o msg.ns])
        /\ UNCHANGED <<cache, nsResults, reply, hindered, aside>>

Missed(p) ==
    LET msg == Get(CacheKey(p))
    IN  In(p, "CACHE_LOOKUP") /\ msg.answer = <<>> /\ ~HasSOA(msg)

CacheMiss(p) ==
    /\ Missed(p)
    /\ GoTo(p, "EXTRACT_GLUE", machine[p].response)
    /\ UNCHANGED <<cache, nsResults, reply, hindered, aside>>

\* A miss makes the request expensive, and the limiter may refuse it.
CacheMissRefused(p) ==
    /\ Missed(p)
    /\ Return(p, WithRcode(Empty, "REFUSED"))
    /\ Hinder(p)
    /\ UNCHANGED <<cache, aside>>

\* go-cache drops an entry whose time is up.
Expire(k) ==
    /\ expiries < MaxExpiries
    /\ cache' = [l \in DOMAIN cache \ {k} |-> cache[l]]
    /\ expiries' = expiries + 1
    /\ UNCHANGED <<machine, question, nsLimit, nsResults, background, reply, hindered>>

-----------------------------------------------------------------------------
(* CLASSIFY_RESP *)

\* (Fault: a referral passes for NODATA.)
IsNegativeWithoutSOA(resp) ==
    resp.answer = <<>> /\ resp.rcode \in {"NXDOMAIN", "NOERROR"}
IsNegative(resp) ==
    resp.answer = <<>> /\ HasSOA(resp) /\ resp.rcode \in {"NXDOMAIN", "NOERROR"}
Matches(resp, type) == \E i \in DOMAIN resp.answer : resp.answer[i].type = type
Aliases(resp) == Among(resp.answer, [name : AllNames, type : {"CNAME"}, data : AllNames])

\* A negative response is cached, also when it came from the cache.
ClassifyNegative(p) ==
    LET m == machine[p]
    IN  /\ In(p, "CLASSIFY_RESP")
        /\ IsNegative(m.response)
        /\ cache' = Put({CacheKey(p)}, m.response)
        /\ GoTo(p, "RETURN_RESP", m.response)
        /\ UNCHANGED <<nsResults, reply, hindered, aside>>

ClassifyAnswer(p) ==
    /\ In(p, "CLASSIFY_RESP")
    /\ Matches(machine[p].response, QType(p))
    /\ GoTo(p, "RETURN_RESP", machine[p].response)
    /\ UNCHANGED <<cache, nsResults, reply, hindered, aside>>

FollowsAlias(p) ==
    /\ In(p, "CLASSIFY_RESP")
    /\ ~Matches(machine[p].response, QType(p))
    /\ QType(p) # "CNAME"
    /\ Aliases(machine[p].response) # <<>>

\* visitedDomains holds the targets of the chain.
visitedDomains(p) == {machine[p].cnameChain[i].data : i \in DOMAIN machine[p].cnameChain}

isNSRelevantForCNAME(ns, target) == ns # <<>> /\ IsSubDomain(ns[1].zone, target)

\* Fault: a target visited before is followed again.
followCNAMEAgain(p) ==
    LET m == machine[p]
        cname == Head(Aliases(m.response))
    IN  /\ FollowsAlias(p)
        /\ machine' = [machine EXCEPT ![p] =
             [m EXCEPT !.state = "CACHE_LOOKUP", !.iterations = @ + 1, !.qname = cname.data,
                       !.cnameChain = Append(@, cname),
                       !.response = [m.response EXCEPT !.answer = <<>>, !.ns = <<>>, !.extra = {}]]]
        /\ UNCHANGED <<cache, nsResults, reply, hindered, aside>>

\* Fault: the delegation goes, its glue stays.
followCNAMEKeepsGlue(p) ==
    LET m == machine[p]
        cname == Head(Aliases(m.response))
    IN  /\ FollowsAlias(p)
        /\ cname.data \notin visitedDomains(p)
        /\ machine' = [machine EXCEPT ![p] =
             [m EXCEPT !.state = "CACHE_LOOKUP", !.iterations = @ + 1, !.qname = cname.data,
                       !.cnameChain = Append(@, cname),
                       !.response = [m.response EXCEPT !.answer = <<>>, !.ns = <<>>]]]
        /\ UNCHANGED <<cache, nsResults, reply, hindered, aside>>

followCNAME(p) ==
    LET m == machine[p]
        cname == Head(Aliases(m.response))
        resp == [m.response EXCEPT !.answer = <<>>]
    IN  /\ FollowsAlias(p)
        /\ cname.data \notin visitedDomains(p)
        /\ machine' = [machine EXCEPT ![p] =
             [m EXCEPT !.state = "CACHE_LOOKUP", !.iterations = @ + 1, !.qname = cname.data,
                       !.cnameChain = Append(@, cname),
                       !.response = IF isNSRelevantForCNAME(m.response.ns, cname.data) THEN resp
                                    ELSE [resp EXCEPT !.ns = <<>>, !.extra = {}]]]
        /\ UNCHANGED <<cache, nsResults, reply, hindered, aside>>

CNAMECycle(p) ==
    /\ FollowsAlias(p)
    /\ Head(Aliases(machine[p].response)).data \in visitedDomains(p)
    /\ Fail(p)
    /\ UNCHANGED <<cache, hindered, aside>>

\* Neither an answer nor an alias: go on with the delegation at hand.
ClassifyReferral(p) ==
    LET resp == machine[p].response
    IN  /\ In(p, "CLASSIFY_RESP")
        /\ ~IsNegative(resp) /\ ~Matches(resp, QType(p))
        /\ QType(p) = "CNAME" \/ Aliases(resp) = <<>>
        /\ GoTo(p, "EXTRACT_GLUE", resp)
        /\ UNCHANGED <<cache, nsResults, reply, hindered, aside>>

-----------------------------------------------------------------------------
(* The delegation to follow *)

ExtractGlue(p) ==
    LET resp == machine[p].response
        usable == IsDelegation(resp) /\ IsSubDomain(resp.ns[1].zone, machine[p].qname)
    IN  /\ In(p, "EXTRACT_GLUE")
        /\ \/ usable /\ GoTo(p, "QUERY_UPSTREAM", resp)
           \/ resp.ns = <<>> /\ GoTo(p, "LOOKUP_NS_CACHE", resp)
           \/ /\ resp.ns # <<>> /\ ~usable
              /\ GoTo(p, "LOOKUP_NS_CACHE", [resp EXCEPT !.ns = <<>>, !.extra = {}])
        /\ UNCHANGED <<cache, nsResults, reply, hindered, aside>>

\* GetZoneList: the zones of a name, without the root unless it is the name.
ZoneList(name) == {SubSeq(name, 1, n) : n \in 1 .. Len(name)} \cup {name}

CachedZones(name) == {z \in ZoneList(name) : IsDelegation(Get(<<z, "delegation">>))}

LookupNSCache(p) ==
    LET resp == machine[p].response
        zones == CachedZones(machine[p].qname)
        hit == IF zones = {} THEN [ns |-> <<NS(<<>>)>>, extra |-> NSNames[<<>>]]
               ELSE Get(<<Deepest(zones), "delegation">>)
    IN  /\ In(p, "LOOKUP_NS_CACHE")
        /\ GoTo(p, "QUERY_UPSTREAM", [resp EXCEPT !.ns = @ \o hit.ns, !.extra = @ \cup hit.extra])
        /\ UNCHANGED <<cache, nsResults, reply, hindered, aside>>

-----------------------------------------------------------------------------
(* QUERY_UPSTREAM *)

getNSNames(resp) ==
    UNION {NSNames[resp.ns[i].zone] : i \in {j \in DOMAIN resp.ns : resp.ns[j].type = "NS"}}

\* resolveNSIPs: the addresses the cache has for the names.
CachedIPs(names) ==
    LET ips(n) == IPs(Get(<<n, "A">>))
    IN  UNION {{ips(n)[i] : i \in DOMAIN ips(n)} : n \in names}

\* The handler is still in its iteration: it waits.
Wait(p, state, ipList) ==
    machine' = [machine EXCEPT ![p].state = state, ![p].ipList = ipList]

\* Addresses are at hand, in the glue or in the cache.
QueryUpstream(p) ==
    LET resp == machine[p].response
        cached == CachedIPs(getNSNames(resp))
    IN  /\ In(p, "QUERY_UPSTREAM")
        /\ ~Cancelled(p)
        /\ \/ resp.extra # {} /\ Wait(p, "EXCHANGE", resp.extra)
           \/ resp.extra = {} /\ cached # {} /\ Wait(p, "EXCHANGE", cached)
        /\ UNCHANGED <<cache, nsResults, reply, hindered, aside>>

NoAddress(p) ==
    LET resp == machine[p].response
    IN  /\ In(p, "QUERY_UPSTREAM")
        /\ ~Cancelled(p)
        /\ resp.extra = {} /\ CachedIPs(getNSNames(resp)) = {}

\* resolveNSIPsConcurrently starts a sub-query for every name.
StartSubQueries(p) ==
    /\ NoAddress(p) /\ ~IsWorker(p)
    /\ machine' = [q \in Procs |->
         IF q = p THEN [machine[p] EXCEPT !.state = "AWAIT_NS"]
         ELSE IF IsWorker(q) /\ q[1] = p[1] /\ q[2] \in getNSNames(machine[p].response)
         THEN Off("blocked")
         ELSE machine[q]]
    /\ nsResults' = [nsResults EXCEPT ![p[1]] = <<>>]
    /\ \E limit \in WorkerLimits : nsLimit' = [nsLimit EXCEPT ![p[1]] = limit]
    /\ UNCHANGED <<question, cache, background, reply, expiries, hindered>>

\* A sub-query starts none, and a cancelled one stops here.
QueryFails(p) ==
    /\ \/ NoAddress(p) /\ IsWorker(p)
       \/ In(p, "QUERY_UPSTREAM") /\ Cancelled(p)
    /\ Fail(p)
    /\ UNCHANGED <<cache, hindered, aside>>

Started(r) == {w \in Workers : w[1] = r /\ machine[w].state \notin {"off", "done"}}
Running(r) == {w \in Started(r) : machine[w].state # "blocked"}

\* A sub-query takes the semaphore and runs Change for the address.
StartWorker(w) ==
    /\ machine[w].state = "blocked"
    /\ Cardinality(Running(w[1])) < nsLimit[w[1]]
    /\ machine' = [machine EXCEPT ![w] = [Off("STATE_INIT") EXCEPT !.qname = w[2]]]
    /\ UNCHANGED <<cache, nsResults, reply, hindered, aside>>

\* It finds the context cancelled before it gets the semaphore.
WorkerCancelled(w) ==
    /\ machine[w].state = "blocked"
    /\ Cancelled(w)
    /\ machine' = [machine EXCEPT ![w] = Off("done")]
    /\ UNCHANGED <<cache, nsResults, reply, hindered, aside>>

\* The first result cancels the other sub-queries.
FirstNSResult(p) ==
    /\ machine[p].state = "AWAIT_NS"
    /\ nsResults[p[1]] # <<>>
    /\ machine' = [machine EXCEPT ![p].state = "AWAIT_REST"]
    /\ UNCHANGED <<cache, nsResults, reply, hindered, aside>>

\* All sub-queries are done: the addresses of the first result are used, the
\* other results go to a goroutine that nobody waits for.
NSResolved(p) ==
    LET results == nsResults[p[1]]
    IN  /\ machine[p].state = "AWAIT_REST"
        /\ Started(p[1]) = {}
        /\ Wait(p, "EXCHANGE", {results[1].ips[i] : i \in DOMAIN results[1].ips})
        /\ background' = background \cup {results[i] : i \in 2 .. Len(results)}
        /\ UNCHANGED <<question, cache, nsLimit, nsResults, reply, expiries, hindered>>

NSUnresolved(p) ==
    /\ machine[p].state = "AWAIT_NS"
    /\ Started(p[1]) = {}
    /\ nsResults[p[1]] = <<>>
    /\ Fail(p)
    /\ UNCHANGED <<cache, hindered, aside>>

updateNSIPsCache(result) ==
    /\ result \in background
    /\ background' = background \ {result}
    /\ cache' = Put({<<result.name, "A">>},
                     [Empty EXCEPT !.answer = [i \in DOMAIN result.ips |->
                        [name |-> result.name, type |-> "A", data |-> result.ips[i]]]])
    /\ UNCHANGED <<machine, question, nsLimit, nsResults, reply, expiries, hindered>>

\* What the handler stores of a successful reply: the answer under the
\* question, the delegation under its zone.
\* (Fault: a delegation loses its glue.)
StoredWithoutGlue(key, msg) ==
    Put((IF msg.answer # <<>> THEN {key} ELSE {})
          \cup (IF IsDelegation(msg) THEN {<<msg.ns[1].zone, "delegation">>} ELSE {}),
        [msg EXCEPT !.extra = {}])
\* Fault: a delegation is stored under the name asked for.
StoredUnderQuestion(key, msg) ==
    Put((IF msg.answer # <<>> THEN {key} ELSE {})
          \cup (IF IsDelegation(msg) THEN {<<key[1], "delegation">>} ELSE {}), msg)
Stored(key, msg) ==
    Put((IF msg.answer # <<>> THEN {key} ELSE {})
          \cup (IF IsDelegation(msg) THEN {<<msg.ns[1].zone, "delegation">>} ELSE {}), msg)

\* A server answers, perhaps after another answered with a bad Rcode: only
\* then does a successful reply reset the Rcode.
Exchange(p) ==
    LET m == machine[p]
    IN  \E n \in m.ipList \cap Hosts, style \in Styles, retried \in BOOLEAN :
          LET new == Reply(n, m.qname, QType(p), style)
              rcode == IF retried THEN new.rcode ELSE m.response.rcode
          IN  /\ m.state = "EXCHANGE"
              /\ retried => Cardinality(m.ipList) > 1
              /\ \/ /\ new.rcode = "NXDOMAIN"
                    /\ GoTo(p, "CLASSIFY_RESP",
                            [m.response EXCEPT !.rcode = new.rcode, !.ns = new.ns])
                    /\ UNCHANGED cache
                 \/ /\ new.rcode = "NOERROR"
                    /\ GoTo(p, "CLASSIFY_RESP",
                            [new EXCEPT !.rcode = rcode, !.answer = m.response.answer \o @])
                    /\ cache' = Stored(CacheKey(p), new)
              /\ IF "noSOA" \in style THEN Hinder(p) ELSE UNCHANGED hindered
              /\ UNCHANGED <<nsResults, reply, aside>>

\* No server answers, the context is cancelled, or there are only bad Rcodes.
ExchangeFails(p) ==
    /\ machine[p].state = "EXCHANGE"
    /\ Fail(p)
    /\ IF Cancelled(p) THEN UNCHANGED hindered ELSE Hinder(p)
    /\ UNCHANGED <<cache, aside>>

-----------------------------------------------------------------------------
(* The end of Change *)

\* Fault: the chain is lost.
ReturnRespUnchained(p) ==
    /\ In(p, "RETURN_RESP")
    /\ Return(p, machine[p].response)
    /\ UNCHANGED <<cache, hindered, aside>>

\* The chain comes before the answer.
buildFinalResponse(m) == [m.response EXCEPT !.answer = m.cnameChain \o @]

ReturnResp(p) ==
    /\ In(p, "RETURN_RESP")
    /\ Return(p, buildFinalResponse(machine[p]))
    /\ UNCHANGED <<cache, hindered, aside>>

Blocking == {"off", "done", "blocked", "AWAIT_NS", "AWAIT_REST", "EXCHANGE"}

MaxIterationsExceeded(p) ==
    /\ machine[p].state \notin Blocking
    /\ machine[p].iterations >= MaxIterations
    /\ Fail(p)
    /\ UNCHANGED <<cache, hindered, aside>>

\* The switch of Change.  Its default branches are out of reach: a handler
\* returns only the values of its state.
Step(p) ==
    \/ StateInit(p) \/ HostsLookup(p)
    \/ ForwardMiss(p) \/ ForwardHit(p) \/ ForwardFails(p)
    \/ CacheHit(p) \/ CacheMiss(p) \/ CacheMissRefused(p)
    \/ ClassifyNegative(p) \/ ClassifyAnswer(p) \/ followCNAME(p) \/ CNAMECycle(p)
    \/ ClassifyReferral(p)
    \/ ExtractGlue(p) \/ LookupNSCache(p)
    \/ QueryUpstream(p) \/ StartSubQueries(p) \/ QueryFails(p)
    \/ StartWorker(p) \/ WorkerCancelled(p) \/ FirstNSResult(p) \/ NSResolved(p) \/ NSUnresolved(p)
    \/ Exchange(p) \/ ExchangeFails(p)
    \/ ReturnResp(p) \/ MaxIterationsExceeded(p)

\* Every request is served: the server waits for more.
Quiet ==
    /\ \A r \in Requests : reply[r] # NoReply
    /\ UNCHANGED vars

Next ==
    \/ \E r \in Requests, q \in Questions : ServeDNS(r, q)
    \/ \E r \in Requests : ServeMalformed(r)
    \/ \E p \in Procs : Step(p)
    \/ \E k \in DOMAIN cache : Expire(k)
    \/ \E result \in background : updateNSIPsCache(result)
    \/ Quiet

Spec == Init /\ [][Next]_vars

\* The scheduler runs some goroutine that can run, and every exchange has a
\* timeout.  Which goroutine makes no difference: each run of Change is finite.
FairSpec == Spec /\ WF_vars(\E p \in Procs : Step(p))

-----------------------------------------------------------------------------
(* Properties *)

States == {"off", "blocked", "done", "STATE_INIT", "HOSTS_LOOKUP", "FORWARD_LOOKUP",
           "CACHE_LOOKUP", "CLASSIFY_RESP", "EXTRACT_GLUE", "LOOKUP_NS_CACHE",
           "QUERY_UPSTREAM", "AWAIT_NS", "AWAIT_REST", "EXCHANGE", "RETURN_RESP"}

\* The state of every run of Change, the cache and the replies are well
\* formed.
TypeOK ==
    /\ machine \in [Procs -> [state : States, iterations : 0 .. MaxIterations, qname : AllNames,
                              response : Message, cnameChain : Seq([name : Names, type : {"CNAME"}, data : Names]),
                              ipList : SUBSET AllNames]]
    /\ question \in [Procs -> [name : AllNames, type : Types]]
    /\ DOMAIN cache \subseteq Keys /\ \A k \in DOMAIN cache : cache[k] \in Message
    /\ nsLimit \in [Requests -> Nat \ {0}]
    /\ nsResults \in [Requests -> Seq([name : Hosts, ips : Seq(AllNames)])]
    /\ reply \in [Requests -> [rcode : Rcodes, answer : Answers] \cup {NoReply}]
    /\ expiries \in 0 .. MaxExpiries

\* Records that lead from a name, each to the owner of the next.
Linked(name, rrs) ==
    \A i \in DOMAIN rrs : rrs[i].name = IF i = 1 THEN name ELSE rrs[i - 1].data

\* The chain Change keeps leads from the client's question to the name it
\* asks for now, and visits no target twice, whatever mixture of the cache
\* and of servers its aliases came from.
ChainLeadsToQuestion ==
    \A p \in Procs :
        LET m == machine[p]
            n == Len(m.cnameChain)
        IN  m.state \notin {"off", "blocked", "done"} =>
              /\ Linked(question[p].name, m.cnameChain)
              /\ m.qname = IF n = 0 THEN question[p].name ELSE m.cnameChain[n].data
              /\ \A i, j \in 1 .. n : m.cnameChain[i].data = m.cnameChain[j].data => i = j

\* A query only goes to servers that serve a zone of the name asked for: no
\* delegation and no glue survives from a name the request came by before
\* (followCNAME, extractGlueState and LOOKUP_NS_CACHE).
AskedServersServe ==
    \A p \in Procs :
        machine[p].state = "EXCHANGE" =>
            \A n \in machine[p].ipList : Serving(n, machine[p].qname) # {}

\* The cache tells the truth: an entry holds records of the world that lead
\* from its name, or denies what does not exist; a delegation names servers
\* of its zone.  Requests and background goroutines write it concurrently.
CacheTruthful ==
    \A k \in DOMAIN cache :
        LET msg == cache[k]
        IN  IF k[2] = "delegation"
            THEN IsDelegation(msg) /\ msg.ns[1].zone = k[1] /\ msg.extra \subseteq NSNames[k[1]]
            ELSE /\ Linked(k[1], msg.answer)
                 /\ \A i \in DOMAIN msg.answer : msg.answer[i] \in Records
                 /\ msg.answer = <<>> => /\ TrueData(k[1], k[2]) = {}
                                         /\ msg.rcode = TrueRcode(k[1], k[2])

Local(name) == name \in HostsNames \/ Matched(name) # {}

\* A client that gets a positive or a negative answer gets the right one:
\* the Rcode is that of the name at the end of the aliases, the records lead
\* from the question to its data.
ReplyCorrect ==
    \A r \in Requests :
        LET q == question[Client(r)]
            msg == reply[r]
        IN  msg.rcode \in {"NOERROR", "NXDOMAIN"} /\ ~Local(q.name) =>
              /\ Resolvable(q.name, q.type)
              /\ msg.rcode = TrueRcode(q.name, q.type)
              /\ Linked(q.name, msg.answer)
              /\ \A i \in DOMAIN msg.answer : msg.answer[i] \in Records
              /\ TrueData(q.name, q.type) # {} =>
                   msg.answer # <<>> /\ msg.answer[Len(msg.answer)] \in TrueData(q.name, q.type)

\* A request no failure and no refusal got in the way of resolves, on a cold
\* cache as on one that others fill and that loses entries meanwhile.
Resolves ==
    \A r \in Requests \ hindered :
        LET q == question[Client(r)]
        IN  reply[r].rcode \in {"SERVFAIL", "REFUSED"} =>
              ~Local(q.name) /\ ~Resolvable(q.name, q.type)

\* Every request is answered, whatever its sub-queries run into.
Answered ==
    \A r \in Requests : machine[Client(r)].state # "off" ~> reply[r] # NoReply
=============================================================================

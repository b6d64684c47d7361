------------------------------- MODULE DnsCache -------------------------------
(* The answer cache of rec53 and its two copies: the Go cache that resolutions
   write and read (server/cache.go over go-cache), the BPF map the XDP program
   answers from (server/xdp_sync.go, server/xdp_metrics.go,
   server/xdp/dns_cache.c), and the snapshot file that carries the Go cache over
   a restart (server/snapshot.go).

   Time passes in moments, Hz to the second: go-cache compares moments, the BPF
   map and the snapshot count whole seconds.  Time does not pass in the middle
   of a store (no call in it blocks); other stores may interleave with it. *)
EXTENDS Integers, FiniteSets

CONSTANTS
    Questions,          \* (name, type) pairs, in lower case
    Zones,              \* zone names, the keys of delegations
    Messages,           \* replies a resolution may store, see MessageType
    Workers,            \* resolutions storing or renewing an entry
    Hz,                 \* moments per second
    DefaultExpiration,  \* go-cache's lifetime for a TTL of 0, in seconds
    MaxTime, MaxStops, MaxReplies, \* bounds: clock, restarts, replies received
    None

VARIABLES
    now,
    up,        \* the process runs
    xdp,       \* globalXDPCacheMap: the XDP program is attached
    cache,     \* globalDnsCache: [msg, until, born, lives] under each key
    bpf,       \* cache_map: [msg, expire, born] under each question
    toDelete,  \* keys the cleanup loop found expired and has yet to delete
    file,      \* the snapshot: [saved, entries], or None if absent or unreadable
    job,       \* what each worker is storing
    stops, replies,
    reply      \* the reply the last step gave, [key, msg], or <<>>

vars == <<now, up, xdp, cache, bpf, toDelete, file, job, stops, replies, reply>>

Keys == Questions \cup Zones
NoRR == -1                          \* the TTL of a record that is not there

(* A message as the cache sees it: the TTL of its first answer, of its first
   authority record if that is an NS record, the TTLs of all other records, the
   lifetime extractSOAFromAuthority finds if it has a SOA record, and whether its
   answer packs into 512 bytes. *)
MessageType == [question : Questions, zone : Zones, answer : Nat \cup {NoRR},
                ns : Nat \cup {NoRR}, more : SUBSET Nat, soa : Nat \cup {NoRR},
                small : BOOLEAN]

TTLs(m) == ({m.answer, m.ns} \ {NoRR}) \cup m.more
Lifetime(ttl) == IF ttl = 0 THEN DefaultExpiration ELSE ttl
Lifetimes(m) == { Lifetime(ttl) : ttl \in TTLs(m) \cup ({m.soa} \ {NoRR}) }
Secs(t) == t \div Hz

ASSUME CacheAssumption ==
    /\ Hz \in Nat \ {0}
    /\ DefaultExpiration \in Nat \ {0}
    /\ Messages \subseteq MessageType
    /\ \A m \in Messages : \E t \in Lifetimes(m) : \A u \in Lifetimes(m) : u <= t
    /\ \A m \in Messages : m.soa = NoRR \/ (m.ns = NoRR /\ m.answer = NoRR)
    /\ \A m \in Messages : {m.answer, m.ns, m.soa} # {NoRR}
    /\ Questions \cap Zones = {}
    /\ None \notin [msg : Messages, until : Nat, born : Nat, lives : Nat]
    /\ None \notin [msg : Messages, expire : Nat, born : Nat]
    /\ MaxTime \in Nat /\ MaxStops \in Nat /\ MaxReplies \in Nat

IdleJob == [pc |-> "idle"]
Idle(w) == up /\ job[w].pc = "idle"

Init ==
    /\ now = 0
    /\ up = TRUE
    /\ xdp \in BOOLEAN
    /\ cache = [k \in Keys |-> None]
    /\ bpf = [q \in Questions |-> None]
    /\ toDelete = {}
    /\ file = None
    /\ job = [w \in Workers |-> IdleJob]
    /\ stops = 0 /\ replies = 0
    /\ reply = <<>>

-----------------------------------------------------------------------------
(* Storing.  setCacheCopy writes the Go cache, then the BPF map if the message
   has an answer.  A reply with an answer and an NS record in the authority
   section goes through it twice, under the question and under the zone. *)

FirstStep(m) ==
    IF m.answer # NoRR THEN "answer"
    ELSE IF m.soa # NoRR THEN "negative" ELSE "zone"

Receive(w, m) ==
    /\ Idle(w) /\ replies < MaxReplies
    /\ replies' = replies + 1
    /\ job' = [job EXCEPT ![w] =
                  [pc |-> FirstStep(m), msg |-> m, born |-> now, lives |-> 0]]
    /\ reply' = <<>>
    /\ UNCHANGED <<now, up, xdp, cache, bpf, toDelete, file, stops>>

setCache(w, k, ttl, next) ==
    /\ cache' = [cache EXCEPT ![k] = [msg |-> job[w].msg,
                                      until |-> now + Lifetime(ttl) * Hz,
                                      born |-> job[w].born, lives |-> job[w].lives]]
    /\ job' = [job EXCEPT ![w] = IF next = "idle" THEN IdleJob ELSE [@ EXCEPT !.pc = next]]
    /\ reply' = <<>>
    /\ UNCHANGED <<now, up, xdp, bpf, toDelete, file, stops, replies>>

StoreAnswer(w) ==
    /\ job[w].pc = "answer"
    /\ setCache(w, job[w].msg.question, job[w].msg.answer, "sync answer")

StoreZone(w) ==
    /\ job[w].pc = "zone"
    /\ setCache(w, job[w].msg.zone, job[w].msg.ns,
                IF job[w].msg.answer # NoRR THEN "sync zone" ELSE "idle")

StoreNegative(w) ==
    /\ job[w].pc = "negative"
    /\ setCache(w, job[w].msg.question, job[w].msg.soa, "idle")

BpfValue(w, ttl) ==
    [msg |-> job[w].msg, expire |-> Secs(now) + ttl, born |-> job[w].born]

(* Without a map, with a message too large for it, or if the update fails, the
   map keeps what it had. *)
syncToBPFMap(w, ttl, next) ==
    /\ \/ bpf' = bpf
       \/ /\ xdp /\ job[w].msg.small
          /\ bpf' = [bpf EXCEPT ![job[w].msg.question] = BpfValue(w, ttl)]
    /\ job' = [job EXCEPT ![w] = IF next = "idle" THEN IdleJob ELSE [@ EXCEPT !.pc = next]]
    /\ reply' = <<>>
    /\ UNCHANGED <<now, up, xdp, cache, toDelete, file, stops, replies>>

SyncAnswer(w) ==
    /\ job[w].pc = "sync answer"
    /\ syncToBPFMap(w, job[w].msg.answer,
                    IF job[w].msg.ns # NoRR THEN "zone" ELSE "idle")

SyncZone(w) ==
    /\ job[w].pc = "sync zone"
    /\ syncToBPFMap(w, job[w].msg.ns, "idle")

-----------------------------------------------------------------------------
(* Reading. *)

Live(k) == cache[k] # None /\ now <= cache[k].until

\* Fault: a hit renews the entry.
HitRenews(k) ==
    /\ up /\ Live(k)
    /\ k \in Zones \/ cache[k].msg.answer # NoRR
    /\ cache' = [cache EXCEPT ![k].until =
                    now + Lifetime(IF k \in Zones THEN cache[k].msg.ns
                                   ELSE cache[k].msg.answer) * Hz]
    /\ reply' = [key |-> k, msg |-> cache[k].msg]
    /\ UNCHANGED <<now, up, xdp, bpf, toDelete, file, job, stops, replies>>

(* A hit on a positive entry or, for NS names, on a delegation. *)
Hit(k) ==
    /\ up /\ Live(k)
    /\ k \in Zones \/ cache[k].msg.answer # NoRR
    /\ reply' = [key |-> k, msg |-> cache[k].msg]
    /\ UNCHANGED <<now, up, xdp, cache, bpf, toDelete, file, job, stops, replies>>

(* A hit on a negative entry is classified like a fresh negative reply, and so
   stored again. *)
NegativeHit(w, q) ==
    /\ Idle(w) /\ Live(q)
    /\ cache[q].msg.answer = NoRR /\ cache[q].msg.soa # NoRR
    /\ reply' = [key |-> q, msg |-> cache[q].msg]
    /\ job' = [job EXCEPT ![w] = [pc |-> "negative", msg |-> cache[q].msg,
                                  born |-> cache[q].born, lives |-> cache[q].lives]]
    /\ UNCHANGED <<now, up, xdp, cache, bpf, toDelete, file, stops, replies>>

\* Fault: the XDP program does not look at expire_ts.
FastLiveAlways(q) == bpf[q] # None

(* xdp_dns_cache: any other packet, and a miss, is passed on to the Go server. *)
FastLive(q) == bpf[q] # None /\ Secs(now) <= bpf[q].expire

FastHit(q) ==
    /\ xdp /\ FastLive(q)
    /\ reply' = [key |-> q, msg |-> bpf[q].msg]
    /\ UNCHANGED <<now, up, xdp, cache, bpf, toDelete, file, job, stops, replies>>

-----------------------------------------------------------------------------
(* Reclaiming space: go-cache's janitor, and the two phases of
   cleanupExpiredBPFEntries. *)

DeleteExpired ==
    /\ up
    /\ cache' = [k \in Keys |-> IF Live(k) THEN cache[k] ELSE None]
    /\ reply' = <<>>
    /\ UNCHANGED <<now, up, xdp, bpf, toDelete, file, job, stops, replies>>

Reclaimable(q) == bpf[q] # None /\ bpf[q].expire <= Secs(now)

\* Fault: the comparison is the wrong way round.
CollectUnexpired ==
    /\ up /\ xdp /\ toDelete = {}
    /\ toDelete' = { q \in Questions : bpf[q] # None /\ ~Reclaimable(q) }
    /\ reply' = <<>>
    /\ UNCHANGED <<now, up, xdp, cache, bpf, file, job, stops, replies>>

CollectExpired ==
    /\ up /\ xdp /\ toDelete = {}
    /\ toDelete' = { q \in Questions : Reclaimable(q) }
    /\ reply' = <<>>
    /\ UNCHANGED <<now, up, xdp, cache, bpf, file, job, stops, replies>>

DeleteCollected(q) ==
    /\ q \in toDelete
    /\ toDelete' = toDelete \ {q}
    /\ bpf' = [bpf EXCEPT ![q] = None]
    /\ reply' = <<>>
    /\ UNCHANGED <<now, up, xdp, cache, file, job, stops, replies>>

-----------------------------------------------------------------------------
(* Restarts. *)

SaveSnapshot ==
    [saved |-> Secs(now), entries |-> [k \in Keys |-> IF Live(k) THEN cache[k] ELSE None]]

\* Fault: the XDP program stays attached, with its map.
StopKeepsXDP ==
    /\ up /\ stops < MaxStops
    /\ file' \in {SaveSnapshot, file, None}
    /\ up' = FALSE
    /\ cache' = [k \in Keys |-> None]
    /\ toDelete' = {}
    /\ job' = [w \in Workers |-> IdleJob]
    /\ stops' = stops + 1
    /\ reply' = <<>>
    /\ UNCHANGED <<now, xdp, bpf, replies>>

(* The process ends and takes both caches with it.  An orderly shutdown saves
   the Go cache, fails before it touches the file, or leaves it half written; a
   crash leaves the file as it was. *)
Stop ==
    /\ up /\ stops < MaxStops
    /\ file' \in {SaveSnapshot, file, None}
    /\ up' = FALSE /\ xdp' = FALSE
    /\ cache' = [k \in Keys |-> None]
    /\ bpf' = [q \in Questions |-> None]
    /\ toDelete' = {}
    /\ job' = [w \in Workers |-> IdleJob]
    /\ stops' = stops + 1
    /\ reply' = <<>>
    /\ UNCHANGED <<now, replies>>

(* The remaining lifetimes of the records that have one left. *)
Remaining(m, elapsed) == { ttl - elapsed : ttl \in { t \in TTLs(m) : t > elapsed } }

LeastRemaining(m, elapsed) ==
    CHOOSE r \in Remaining(m, elapsed) : \A s \in Remaining(m, elapsed) : r <= s

LoadSnapshot ==
    [k \in Keys |->
        LET e == file.entries[k]
            elapsed == Secs(now) - file.saved
        IN  IF file = None \/ e = None \/ Remaining(e.msg, elapsed) = {} THEN None
            ELSE [msg |-> e.msg, born |-> e.born, lives |-> e.lives + 1,
                  until |-> now + LeastRemaining(e.msg, elapsed) * Hz]]

(* main loads the snapshot, then Run attaches the XDP program if it can. *)
Start ==
    /\ ~up
    /\ up' = TRUE
    /\ xdp' \in BOOLEAN
    /\ cache' = LoadSnapshot
    /\ reply' = <<>>
    /\ UNCHANGED <<now, bpf, toDelete, file, job, stops, replies>>

Tick ==
    /\ now < MaxTime
    /\ \A w \in Workers : job[w].pc = "idle"
    /\ now' = now + 1
    /\ reply' = <<>>
    /\ UNCHANGED <<up, xdp, cache, bpf, toDelete, file, job, stops, replies>>

Next ==
    \/ \E w \in Workers :
          \/ \E m \in Messages : Receive(w, m)
          \/ StoreAnswer(w) \/ SyncAnswer(w) \/ StoreZone(w) \/ SyncZone(w)
          \/ StoreNegative(w)
          \/ \E q \in Questions : NegativeHit(w, q)
    \/ \E k \in Keys : Hit(k)
    \/ \E q \in Questions : FastHit(q) \/ DeleteCollected(q)
    \/ DeleteExpired \/ CollectExpired \/ Stop \/ Start \/ Tick

Spec == Init /\ [][Next]_vars

(* The cleanup loop runs every 100 ms, and deletes what it collected. *)
FairSpec ==
    /\ Spec
    /\ WF_vars(CollectExpired)
    /\ \A q \in Questions : WF_vars(DeleteCollected(q))
-----------------------------------------------------------------------------
(* Properties. *)

ActiveJobType ==
    [pc : {"answer", "sync answer", "zone", "sync zone", "negative"},
     msg : Messages, born : Nat, lives : Nat]
EntryType == [msg : Messages, until : Nat, born : Nat, lives : Nat]
ValueType == [msg : Messages, expire : Nat, born : Nat]

(* Types, and: a stopped process holds neither cache entries, nor map entries,
   nor stores in progress. *)
TypeOK ==
    /\ now \in Nat /\ up \in BOOLEAN /\ xdp \in BOOLEAN /\ stops \in Nat /\ replies \in Nat
    /\ cache \in [Keys -> EntryType \cup {None}]
    /\ bpf \in [Questions -> ValueType \cup {None}]
    /\ toDelete \subseteq Questions
    /\ file = None \/ file \in [saved : Nat, entries : [Keys -> EntryType \cup {None}]]
    /\ job \in [Workers -> {IdleJob} \cup ActiveJobType]
    /\ ~up => /\ ~xdp /\ toDelete = {}
              /\ \A k \in Keys : cache[k] = None
              /\ \A q \in Questions : bpf[q] = None
              /\ \A w \in Workers : job[w] = IdleJob

Longest(m) ==
    CHOOSE t \in Lifetimes(m) : \A u \in Lifetimes(m) : u <= t

Belongs(k, m) ==
    \/ k = m.question /\ (m.answer # NoRR \/ m.soa # NoRR)
    \/ k = m.zone /\ m.ns # NoRR

(* The copies of a key as leases: go-cache serves an entry up to the moment it
   records, the XDP program throughout the second it records. *)
Lease(k) ==
    { [msg |-> cache[j].msg, until |-> cache[j].until] :
        j \in { i \in {k} : cache[i] # None } }
    \cup
    { [msg |-> bpf[q].msg, until |-> (bpf[q].expire + 1) * Hz - 1] :
        q \in { i \in {k} \cap Questions : bpf[i] # None } }

Leases == INSTANCE LeaseCache WITH lease <- [k \in Keys |-> Lease(k)]

(* The Go cache, the BPF map, the snapshot and the restarts together implement a
   lease cache: whatever the interleaving of the double stores, the cleanup and
   the readers, a reply belongs to the question it answers and is never given
   after the longest lifetime of its records has run out since it was stored. *)
ImplementsLeases == Leases!Spec

(* A positive message or a delegation is not served for ever: until it is fetched
   again, each restart adds at most one lifetime (remainingTTL counts the records'
   original TTLs from the moment of the save). *)
AgeBound ==
    \A k \in Keys : cache[k] # None /\ cache[k].msg.soa = NoRR =>
        cache[k].until <= cache[k].born +
                            (cache[k].lives + 1) * ((Longest(cache[k].msg) + 1) * Hz)

(* What the BPF map answers from is reclaimed once expired: the loop's two phases
   cannot chase an expired entry without ever deleting it. *)
ExpiredReclaimed ==
    \A q \in Questions : Reclaimable(q) ~> ~Reclaimable(q)

(* "no stale responses are ever served regardless of cleanup frequency"
   (server/xdp_metrics.go): the XDP program stops answering with a message once
   the TTL of its answer has run out, in whole seconds. *)
FastPathFresh ==
    \A q \in Questions : xdp /\ FastLive(q) =>
        Secs(now) <= Secs(bpf[q].born) + bpf[q].msg.answer
=============================================================================

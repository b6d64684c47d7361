-------------------------------- MODULE IPPool --------------------------------
(* The pool of upstream addresses (server/ip_pool.go, server/ip_pool_quality_v2.go):
   queries rank their candidates by score, creating the records that are missing,
   and record how the addresses they asked did; a background loop probes the
   suspects and prunes what was not asked for a day.

   A lock is taken per call, so a step is a critical section.  Ages are kept as
   far as the code tells them apart: a failure less or more than 5 s ago, a use
   less or more than 24 h ago.  Scores are 1000 times those of the code. *)
EXTENDS Integers, FiniteSets, Sequences

CONSTANTS
    IPs, Queries,
    Exempt,                   \* exemptIPs: the root servers
    Latencies,                \* round-trip times, in ms
    DegradedUpTo, MaxedUpTo,  \* failures of phases 1 and 2: 3 and 6 in the code
    FailModulus,              \* failCount is a uint8: 256
    WindowSize,               \* samples kept: 64
    MaxLives, MaxQueries,     \* bounds: records made for one IP, queries made
    None

VARIABLES
    pool,    \* poolV2: the record of each IP, or None
    lives,   \* how many records each IP has had
    alive,   \* the servers that answer
    query,   \* what each query is doing
    asked,   \* queries made
    probe    \* the probe loop: [pc, candidates, ip, ok]

vars == <<pool, lives, alive, query, asked, probe>>

INIT_IP_LATENCY == 1000
MAX_IP_LATENCY == 10000

States == {"ACTIVE", "DEGRADED", "SUSPECT", "RECOVERED"}

RecordType ==
    [life : Nat, sampleCount : Nat, p50 : Nat, failCount : Nat, state : States,
     failedLately : BOOLEAN, seenLately : BOOLEAN]

ASSUME PoolAssumption ==
    /\ Exempt \subseteq IPs
    /\ Latencies \subseteq 0 .. MAX_IP_LATENCY /\ Latencies # {}
    /\ DegradedUpTo \in Nat /\ MaxedUpTo \in Nat /\ DegradedUpTo < MaxedUpTo
    /\ FailModulus \in Nat /\ MaxedUpTo < FailModulus
    /\ None \notin RecordType
    /\ WindowSize \in Nat /\ MaxLives \in Nat /\ MaxQueries \in Nat

NewIPQualityV2(life) ==
    [life |-> life, sampleCount |-> 0, p50 |-> INIT_IP_LATENCY, failCount |-> 0,
     state |-> "ACTIVE", failedLately |-> FALSE, seenLately |-> TRUE]

(* The median of a window of samples is one of the samples. *)
RecordLatency(r, median) ==
    [r EXCEPT !.sampleCount = IF @ < WindowSize THEN @ + 1 ELSE @,
              !.p50 = median, !.failCount = 0, !.state = "ACTIVE", !.seenLately = TRUE]

\* Fault: phase 2 leaves the latency alone.
RecordFailureKeepsLatency(r) ==
    LET n == (r.failCount + 1) % FailModulus
    IN  [r EXCEPT !.failCount = n, !.failedLately = TRUE, !.seenLately = TRUE,
                  !.state = IF n <= DegradedUpTo THEN "DEGRADED" ELSE "SUSPECT"]

RecordFailure(r) ==
    LET n == (r.failCount + 1) % FailModulus
        slower == (r.p50 * 12) \div 10
        f == [r EXCEPT !.failCount = n, !.failedLately = TRUE, !.seenLately = TRUE]
    IN  CASE n <= DegradedUpTo ->
               [f EXCEPT !.state = "DEGRADED",
                         !.p50 = IF slower > MAX_IP_LATENCY THEN MAX_IP_LATENCY ELSE slower]
          [] n > DegradedUpTo /\ n <= MaxedUpTo ->
               [f EXCEPT !.state = "SUSPECT", !.p50 = MAX_IP_LATENCY]
          [] OTHER -> [f EXCEPT !.state = "SUSPECT"]

\* Fault: a successful probe resets the count only.
ResetForProbeKeepsState(r) == [r EXCEPT !.failCount = 0]

ResetForProbe(r) == [r EXCEPT !.failCount = 0, !.state = "RECOVERED"]

ShouldProbe(r) == r.state = "SUSPECT" /\ ~r.failedLately

(* The conversion to uint8 comes before the cap. *)
Confidence(sampleCount) ==
    LET c == (sampleCount * 10) % 256 IN IF c > 100 THEN 100 ELSE c

StateWeight ==
    [ACTIVE |-> 10, DEGRADED |-> 15, SUSPECT |-> 1000, RECOVERED |-> 11]

GetScore(r) == r.p50 * (200 - Confidence(r.sampleCount)) * StateWeight[r.state]

IdleQuery == [pc |-> "idle"]

Init ==
    /\ pool = [ip \in IPs |-> None]
    /\ lives = [ip \in IPs |-> 0]
    /\ alive \in SUBSET IPs
    /\ query = [c \in Queries |-> IdleQuery]
    /\ asked = 0
    /\ probe = [pc |-> "waiting", candidates |-> {}]

-----------------------------------------------------------------------------
(* A query.  GetBestIPsV2 reads the score of each candidate; it gives up its read
   lock to create a missing record. *)

Rank(c, ips) ==
    /\ query[c].pc = "idle" /\ asked < MaxQueries
    /\ query' = [query EXCEPT ![c] = [pc |-> "ranking", todo |-> ips, scores |-> {}]]
    /\ asked' = asked + 1
    /\ UNCHANGED <<pool, lives, alive, probe>>

Scored(c, ip, r) ==
    query' = [query EXCEPT ![c] =
        [pc |-> "ranking", todo |-> @.todo \ {ip},
         scores |-> @.scores \cup {[ip |-> ip, score |-> GetScore(r), state |-> r.state]}]]

ReadScore(c, ip) ==
    /\ query[c].pc = "ranking" /\ ip \in query[c].todo
    /\ pool[ip] # None
    /\ Scored(c, ip, pool[ip])
    /\ UNCHANGED <<pool, lives, alive, asked, probe>>

FindMissing(c, ip) ==
    /\ query[c].pc = "ranking" /\ ip \in query[c].todo
    /\ pool[ip] = None /\ lives[ip] < MaxLives
    /\ query' = [query EXCEPT ![c] = [pc |-> "missing", todo |-> @.todo,
                                      scores |-> @.scores, ip |-> ip]]
    /\ UNCHANGED <<pool, lives, alive, asked, probe>>

\* Fault: no second look under the write lock.
CreateMissingAgain(c) ==
    /\ query[c].pc = "missing"
    /\ LET ip == query[c].ip
       IN  /\ pool' = [pool EXCEPT ![ip] = NewIPQualityV2(lives[ip] + 1)]
           /\ lives' = [lives EXCEPT ![ip] = @ + 1]
    /\ query' = [query EXCEPT ![c] = [pc |-> "ranking", todo |-> @.todo, scores |-> @.scores]]
    /\ UNCHANGED <<alive, asked, probe>>

(* The pool write lock is held: look again, create the record if it is still
   missing.  The score is read later, under the read lock. *)
CreateMissing(c) ==
    /\ query[c].pc = "missing"
    /\ LET ip == query[c].ip
           r == IF pool[ip] # None THEN pool[ip] ELSE NewIPQualityV2(lives[ip] + 1)
       IN  /\ pool' = [pool EXCEPT ![ip] = r]
           /\ lives' = [lives EXCEPT ![ip] = IF pool[ip] = None THEN @ + 1 ELSE @]
    /\ query' = [query EXCEPT ![c] = [pc |-> "ranking", todo |-> @.todo, scores |-> @.scores]]
    /\ UNCHANGED <<alive, asked, probe>>

\* Fault: sorted the other way round.
Worst(scores) == { s \in scores : \A t \in scores : s.score >= t.score }

Best(scores) == { s \in scores : \A t \in scores : s.score <= t.score }

(* What a query records of its best and second address, in order: who failed in
   the race; then the latency of the winner; if its answer was an error code, its
   failure; then how the retry with the other address went. *)
Ok(ip) == [what |-> "latency", ip |-> ip]
Bad(ip) == [what |-> "failure", ip |-> ip]
RaceWon(w, o) == { <<Ok(w)>>, <<Bad(o), Ok(w)>> }
Retried(w, o) ==
    { s \o <<Bad(w)>> \o t : s \in RaceWon(w, o), t \in {<<Ok(o)>>, <<Bad(o)>>} }
Outcomes(best, second) ==
    IF second = None
    THEN { <<>>, <<Ok(best)>>, <<Bad(best)>>, <<Ok(best), Bad(best)>> }
    ELSE {<<>>, <<Bad(best)>>, <<Bad(second)>>, <<Bad(best), Bad(second)>>}
           \cup RaceWon(best, second) \cup Retried(best, second)
           \cup RaceWon(second, best) \cup Retried(second, best)

(* A server that does not answer has no latency; one that answers does not time out. *)
Possible(o) ==
    \A i \in 1 .. Len(o) :
        IF o[i].what = "latency" THEN o[i].ip \in alive
        ELSE o[i].ip \in alive => \E j \in 1 .. i - 1 : o[j] = Ok(o[i].ip)

Select(c) ==
    /\ query[c].pc = "ranking" /\ query[c].todo = {}
    /\ \E b \in Best(query[c].scores) :
         LET rest == query[c].scores \ {b}
         IN  \E s \in IF rest = {} THEN {None} ELSE Best(rest) :
               \E o \in Outcomes(b.ip, IF s = None THEN None ELSE s.ip) :
                  /\ Possible(o)
                  /\ query' = [query EXCEPT ![c] =
                        [pc |-> "asked", best |-> b, scores |-> query[c].scores, todo |-> o]]
    /\ UNCHANGED <<pool, lives, alive, asked, probe>>

(* GetIPQualityV2 and RecordLatency or RecordFailure. *)
Record(c) ==
    /\ query[c].pc = "asked" /\ query[c].todo # <<>>
    /\ LET e == Head(query[c].todo)
       IN  \/ /\ pool[e.ip] = None
              /\ UNCHANGED pool
           \/ /\ pool[e.ip] # None /\ e.what = "latency"
              /\ \E median \in Latencies :
                    pool' = [pool EXCEPT ![e.ip] = RecordLatency(@, median)]
           \/ /\ pool[e.ip] # None /\ e.what = "failure"
              /\ pool' = [pool EXCEPT ![e.ip] = RecordFailure(@)]
    /\ query' = [query EXCEPT ![c].todo = Tail(@)]
    /\ UNCHANGED <<lives, alive, asked, probe>>

Finish(c) ==
    /\ query[c].pc = "asked" /\ query[c].todo = <<>>
    /\ query' = [query EXCEPT ![c] = IdleQuery]
    /\ UNCHANGED <<pool, lives, alive, asked, probe>>

-----------------------------------------------------------------------------
(* The probe loop. *)

Waiting(candidates) ==
    [pc |-> IF candidates = {} THEN "waiting" ELSE "probing", candidates |-> candidates]

CollectSuspects ==
    /\ probe.pc = "waiting"
    /\ probe' = Waiting({ ip \in IPs : pool[ip] # None /\ ShouldProbe(pool[ip]) })
    /\ UNCHANGED <<pool, lives, alive, query, asked>>

ProbeExchange(ip) ==
    /\ probe.pc = "probing" /\ ip \in probe.candidates
    /\ probe' = [pc |-> "probed", candidates |-> probe.candidates \ {ip},
                 ip |-> ip, ok |-> ip \in alive]
    /\ UNCHANGED <<pool, lives, alive, query, asked>>

ProbeApply ==
    /\ probe.pc = "probed"
    /\ pool' = IF probe.ok /\ pool[probe.ip] # None
               THEN [pool EXCEPT ![probe.ip] = ResetForProbe(@)] ELSE pool
    /\ probe' = Waiting(probe.candidates)
    /\ UNCHANGED <<lives, alive, query, asked>>

PruneStaleIPs ==
    /\ probe.pc = "waiting"
    /\ pool' = [ip \in IPs |->
                  IF pool[ip] # None /\ ip \notin Exempt /\ ~pool[ip].seenLately
                  THEN None ELSE pool[ip]]
    /\ UNCHANGED <<lives, alive, query, asked, probe>>

-----------------------------------------------------------------------------
(* Time and the network. *)

Cool(ip) ==
    /\ pool[ip] # None /\ pool[ip].failedLately
    /\ pool' = [pool EXCEPT ![ip].failedLately = FALSE]
    /\ UNCHANGED <<lives, alive, query, asked, probe>>

(* A day is long enough for every failure to cool and every query to end. *)
Age(ip) ==
    /\ pool[ip] # None /\ ~pool[ip].failedLately /\ pool[ip].seenLately
    /\ \A c \in Queries : query[c].pc = "idle"
    /\ pool' = [pool EXCEPT ![ip].seenLately = FALSE]
    /\ UNCHANGED <<lives, alive, query, asked, probe>>

Change(ip) ==
    /\ alive' = IF ip \in alive THEN alive \ {ip} ELSE alive \cup {ip}
    /\ UNCHANGED <<pool, lives, query, asked, probe>>

Next ==
    \/ \E c \in Queries :
          \/ \E ips \in SUBSET IPs \ {{}} : Rank(c, ips)
          \/ \E ip \in IPs : ReadScore(c, ip) \/ FindMissing(c, ip)
          \/ CreateMissing(c) \/ Select(c) \/ Record(c) \/ Finish(c)
    \/ \E ip \in IPs : ProbeExchange(ip) \/ Cool(ip) \/ Age(ip) \/ Change(ip)
    \/ CollectSuspects \/ ProbeApply \/ PruneStaleIPs

Spec == Init /\ [][Next]_vars

(* The loop's ticker fires every 30 s, an exchange ends within 3 s, time passes. *)
FairSpec ==
    /\ Spec
    /\ WF_vars(CollectSuspects) /\ WF_vars(ProbeApply)
    /\ \A ip \in IPs : WF_vars(ProbeExchange(ip)) /\ WF_vars(Cool(ip))

-----------------------------------------------------------------------------
ScoreType == [ip : IPs, score : Nat, state : States]
EventType == [what : {"latency", "failure"}, ip : IPs]
QueryType ==
    {IdleQuery}
    \cup [pc : {"ranking"}, todo : SUBSET IPs, scores : SUBSET ScoreType]
    \cup [pc : {"missing"}, todo : SUBSET IPs, scores : SUBSET ScoreType, ip : IPs]
    \cup [pc : {"asked"}, todo : Seq(EventType), scores : SUBSET ScoreType, best : ScoreType]

(* The numbers of a record are within bounds; more failures than phase 1 allows
   make a suspect, and a suspect is held at the worst latency. *)
RecordOK(r) ==
    /\ r.p50 <= MAX_IP_LATENCY /\ r.sampleCount <= WindowSize /\ r.failCount < FailModulus
    /\ r.failCount > DegradedUpTo => r.state = "SUSPECT"
    /\ r.state = "SUSPECT" => r.p50 = MAX_IP_LATENCY

(* Types, and every record is in order. *)
TypeOK ==
    /\ pool \in [IPs -> RecordType \cup {None}]
    /\ lives \in [IPs -> Nat]
    /\ query \in [Queries -> QueryType]
    /\ probe.pc = "probed" => probe.ip \in IPs
    /\ \A ip \in IPs : pool[ip] # None => RecordOK(pool[ip])

(* A query asks an address it read as SUSPECT first only if it read all its
   candidates as SUSPECT: no latency, confidence or penalty the score combines can
   outweigh the state, whatever the other queries, the probe loop and the
   wrapping failure counter did between the reads. *)
SuspectsComeLast ==
    \A c \in Queries : query[c].pc = "asked" /\ query[c].best.state = "SUSPECT" =>
        \A s \in query[c].scores : s.state = "SUSPECT"

(* What is known of an address is never lost, neither to two queries that both
   found its record missing nor to the loop: a record leaves the pool, or is
   replaced, only by pruning, a day after its last use, and never a root's. *)
RecordsKept ==
    [][\A ip \in IPs :
          pool[ip] # None /\ (pool'[ip] = None \/ pool'[ip].life # pool[ip].life) =>
              ip \notin Exempt /\ ~pool[ip].seenLately]_vars

(* A server that answers again does not stay a suspect for ever. *)
SuspectsRecover ==
    \A ip \in IPs :
        <>[](ip \in alive) => []<>(pool[ip] = None \/ pool[ip].state # "SUSPECT")
=============================================================================

----------------------------- MODULE IPPoolProofs -----------------------------
(* SuspectsComeLast and RecordsKept, for every set of addresses, queries and
   latencies, every failure threshold and every width of the failure counter.
   The invariant adds to the types that a score read from a suspect exceeds any
   score read from another record (because a suspect is held at the worst
   latency), and that the address asked first has the least of the scores read. *)
EXTENDS IPPool, TLAPS

Floor == 1000000000   \* no suspect scores less
Ceiling == 30000000   \* nothing else scores more

ScoreOK(s) == IF s.state = "SUSPECT" THEN s.score >= Floor ELSE s.score <= Ceiling

QueryOK(y) ==
    y.pc # "idle" =>
        /\ \A s \in y.scores : ScoreOK(s)
        /\ y.pc = "asked" => y.best \in Best(y.scores)

IInv == TypeOK /\ \A c \in Queries : QueryOK(query[c])

(* The constants, one by one. *)
LEMMA Constants ==
    /\ DegradedUpTo \in Nat /\ MaxedUpTo \in Nat /\ DegradedUpTo < MaxedUpTo
    /\ FailModulus \in Nat /\ MaxedUpTo < FailModulus /\ WindowSize \in Nat
BY PoolAssumption DEF PoolAssumption

(* A latency is a number the code keeps. *)
LEMMA LatencyRange ==
    ASSUME NEW l \in Latencies PROVE l \in Nat /\ l <= MAX_IP_LATENCY
<1>1. Latencies \subseteq 0..MAX_IP_LATENCY
  BY PoolAssumption, Zenon DEF PoolAssumption
<1>2. l \in 0..MAX_IP_LATENCY
  BY <1>1
<1>3. QED
  BY <1>2 DEF MAX_IP_LATENCY

(* Counting up to a modulus. *)
LEMMA CountUp ==
    ASSUME NEW x \in Nat, NEW mod \in Nat, x < mod
    PROVE  /\ (x + 1) % mod \in Nat /\ (x + 1) % mod < mod
           /\ (x + 1) % mod = x + 1 \/ (x + 1) % mod = 0
<1>1. CASE x + 1 = mod
  BY <1>1, SMT
<1>2. CASE x + 1 < mod
  BY <1>2, SMT
<1>3. QED
  BY <1>1, <1>2

(* The fields of a record. *)
LEMMA RecordFields ==
    ASSUME NEW r \in RecordType
    PROVE  /\ r.p50 \in Nat /\ r.sampleCount \in Nat /\ r.failCount \in Nat
           /\ r.life \in Nat /\ r.state \in States
BY DEF RecordType

(* The confidence is a percentage, whatever the conversion wraps to. *)
LEMMA ConfidenceRange ==
    ASSUME NEW n \in Nat PROVE Confidence(n) \in 0 .. 100
BY DEF Confidence

(* What a record can score. *)
LEMMA ScoreRange ==
    ASSUME NEW r \in RecordType, RecordOK(r)
    PROVE  /\ GetScore(r) \in Nat
           /\ IF r.state = "SUSPECT" THEN GetScore(r) >= Floor ELSE GetScore(r) <= Ceiling
<1> DEFINE p == r.p50
           f == 200 - Confidence(r.sampleCount)
           w == StateWeight[r.state]
<1>1. p \in Nat /\ p <= 10000 /\ r.state \in States /\ r.sampleCount \in Nat
  BY RecordFields DEF RecordOK, MAX_IP_LATENCY
<1>2. f \in 100 .. 200
  <2>1. Confidence(r.sampleCount) \in 0 .. 100
    BY <1>1, ConfidenceRange
  <2>2. QED
    BY <2>1
<1>3. /\ w \in Nat
      /\ r.state = "SUSPECT" => w = 1000 /\ p = 10000
      /\ r.state # "SUSPECT" => w <= 15
  <2>1. /\ StateWeight["ACTIVE"] = 10 /\ StateWeight["DEGRADED"] = 15
        /\ StateWeight["SUSPECT"] = 1000 /\ StateWeight["RECOVERED"] = 11
    BY DEF StateWeight
  <2>2. QED
    BY <1>1, <2>1 DEF States, RecordOK, MAX_IP_LATENCY
<1>4. GetScore(r) = p * f * w
  BY DEF GetScore
<1> HIDE DEF p, f, w
<1>5. p * f \in Nat /\ p * f <= 2000000
  BY <1>1, <1>2
<1>6. CASE r.state = "SUSPECT"
  <2>1. p * f >= 1000000
    BY <1>2, <1>3, <1>6
  <2>2. p * f * 1000 \in Nat /\ p * f * 1000 >= 1000000000
    BY <1>5, <2>1
  <2>3. QED
    BY <1>3, <1>4, <1>6, <2>2 DEF Floor
<1>7. CASE r.state # "SUSPECT"
  <2> DEFINE x == p * f
  <2>1. x \in Nat /\ x <= 2000000 /\ w \in 0 .. 15
    BY <1>3, <1>5, <1>7
  <2> HIDE DEF x
  <2>2. x * w \in Nat /\ x * w <= 30000000
    BY <2>1
  <2>3. QED
    BY <1>4, <1>7, <2>2 DEF x, Ceiling
<1>8. QED
  BY <1>6, <1>7

(* Every update of a record keeps it one, with suspects at the worst latency. *)
LEMMA NewOK ==
    ASSUME NEW n \in Nat
    PROVE  NewIPQualityV2(n) \in RecordType /\ RecordOK(NewIPQualityV2(n))
BY Constants DEF RecordOK, RecordType, NewIPQualityV2, States, INIT_IP_LATENCY, MAX_IP_LATENCY

(* RecordLatency keeps a record well formed. *)
LEMMA LatencyOK ==
    ASSUME NEW r \in RecordType, RecordOK(r), NEW median \in Latencies
    PROVE  RecordLatency(r, median) \in RecordType
           /\ RecordOK(RecordLatency(r, median)) /\ RecordLatency(r, median).life = r.life
<1>1. r.sampleCount \in Nat /\ r.sampleCount <= WindowSize
  BY RecordFields DEF RecordOK
<1> DEFINE k == IF r.sampleCount < WindowSize THEN r.sampleCount + 1 ELSE r.sampleCount
<1>2. k \in Nat /\ k <= WindowSize /\ median \in Nat /\ median <= MAX_IP_LATENCY
  BY <1>1, Constants, LatencyRange
<1> HIDE DEF k
<1>3. RecordLatency(r, median) =
        [r EXCEPT !.sampleCount = k, !.p50 = median, !.failCount = 0,
                  !.state = "ACTIVE", !.seenLately = TRUE]
  BY DEF RecordLatency, k
<1> DEFINE x == RecordLatency(r, median)
<1>4. /\ x \in RecordType /\ x.sampleCount = k /\ x.p50 = median /\ x.failCount = 0
      /\ x.state = "ACTIVE" /\ x.life = r.life
  <2>1. k \in Nat /\ median \in Nat
    BY <1>2
  <2> DEFINE y == [r EXCEPT !.sampleCount = k, !.p50 = median]
  <2>2. y \in RecordType /\ y.sampleCount = k /\ y.p50 = median /\ y.life = r.life
    BY <2>1, Zenon DEF RecordType
  <2>3. x = [y EXCEPT !.failCount = 0, !.state = "ACTIVE", !.seenLately = TRUE]
    BY <1>3 DEF RecordType
  <2> HIDE DEF x, y
  <2>4. /\ x \in RecordType /\ x.sampleCount = y.sampleCount /\ x.p50 = y.p50
        /\ x.failCount = 0 /\ x.state = "ACTIVE" /\ x.life = y.life
    BY <2>2, <2>3, Zenon DEF RecordType, States
  <2>5. QED
    BY <2>2, <2>4
<1> HIDE DEF x
<1>5. RecordOK(x)
  BY <1>2, <1>4, Constants DEF RecordOK
<1>6. QED
  BY <1>4, <1>5 DEF x

(* RecordFailure keeps a record well formed: beyond phase 2 the latency is still
   the one phase 2 set, and when the counter wraps the state is DEGRADED. *)
LEMMA FailureOK ==
    ASSUME NEW r \in RecordType, RecordOK(r)
    PROVE  RecordFailure(r) \in RecordType /\ RecordOK(RecordFailure(r))
           /\ RecordFailure(r).life = r.life
<1> DEFINE n == (r.failCount + 1) % FailModulus
           slower == (r.p50 * 12) \div 10
           f == [r EXCEPT !.failCount = n, !.failedLately = TRUE, !.seenLately = TRUE]
           d == IF slower > MAX_IP_LATENCY THEN MAX_IP_LATENCY ELSE slower
           x == RecordFailure(r)
<1>1. r.failCount \in Nat /\ r.failCount < FailModulus /\ r.p50 \in Nat
  BY RecordFields DEF RecordOK
<1>2. n \in Nat /\ n < FailModulus /\ (n = r.failCount + 1 \/ n = 0)
  BY <1>1, CountUp, Constants
<1>3. d \in Nat /\ d <= MAX_IP_LATENCY
  BY <1>1 DEF MAX_IP_LATENCY
<1> HIDE DEF n, d, x
<1>4. f \in RecordType /\ f.failCount = n /\ f.p50 = r.p50 /\ f.life = r.life
      /\ f.sampleCount = r.sampleCount
  BY <1>1, <1>2, Zenon DEF RecordType
<1>5. CASE n <= DegradedUpTo
  <2>1. RecordFailure(r) = [f EXCEPT !.state = "DEGRADED", !.p50 = d]
    <3>1. ~(n > DegradedUpTo)
      BY <1>2, <1>5, Constants
    <3>2. QED
      BY <1>5, <3>1 DEF RecordFailure, n, d
  <2>2. /\ x \in RecordType /\ x.failCount = n /\ x.p50 = d /\ x.life = r.life
        /\ x.state = "DEGRADED" /\ x.sampleCount = r.sampleCount
    BY <1>3, <1>4, <2>1, Zenon DEF RecordType, States, x
  <2>3. RecordOK(x)
    BY <1>2, <1>3, <1>5, <2>2, Constants DEF RecordOK
  <2>4. QED
    BY <2>2, <2>3 DEF x
<1>6. CASE n > DegradedUpTo /\ n <= MaxedUpTo
  <2>1. RecordFailure(r) = [f EXCEPT !.state = "SUSPECT", !.p50 = MAX_IP_LATENCY]
    <3>1. ~(n <= DegradedUpTo)
      BY <1>2, <1>6, Constants
    <3>2. QED
      BY <1>6, <3>1 DEF RecordFailure, n
  <2>2. MAX_IP_LATENCY \in Nat
    BY DEF MAX_IP_LATENCY
  <2>3. /\ x \in RecordType /\ x.failCount = n /\ x.p50 = MAX_IP_LATENCY /\ x.life = r.life
        /\ x.state = "SUSPECT" /\ x.sampleCount = r.sampleCount
    BY <1>4, <2>1, <2>2, Zenon DEF RecordType, States, x
  <2>4. RecordOK(x)
    BY <1>2, <2>2, <2>3 DEF RecordOK
  <2>5. QED
    BY <2>3, <2>4 DEF x
<1>7. CASE n > MaxedUpTo
  <2>1. RecordFailure(r) = [f EXCEPT !.state = "SUSPECT"]
    <3>1. ~(n <= DegradedUpTo) /\ ~(n <= MaxedUpTo)
      BY <1>2, <1>7, Constants
    <3>2. QED
      BY <3>1 DEF RecordFailure, n
  <2>2. r.failCount > DegradedUpTo
    BY <1>1, <1>2, <1>7, Constants
  <2>3. /\ x \in RecordType /\ x.failCount = n /\ x.p50 = r.p50 /\ x.life = r.life
        /\ x.state = "SUSPECT" /\ x.sampleCount = r.sampleCount
    BY <1>4, <2>1, Zenon DEF RecordType, States, x
  <2>4. RecordOK(x)
    BY <1>2, <2>2, <2>3 DEF RecordOK
  <2>5. QED
    BY <2>3, <2>4 DEF x
<1>8. QED
  BY <1>2, <1>5, <1>6, <1>7, Constants

(* ResetForProbe keeps a record well formed. *)
LEMMA ResetOK ==
    ASSUME NEW r \in RecordType, RecordOK(r)
    PROVE  ResetForProbe(r) \in RecordType /\ RecordOK(ResetForProbe(r))
           /\ ResetForProbe(r).life = r.life
<1> DEFINE x == ResetForProbe(r)
<1>1. /\ x \in RecordType /\ x.failCount = 0 /\ x.p50 = r.p50 /\ x.life = r.life
      /\ x.state = "RECOVERED" /\ x.sampleCount = r.sampleCount
  BY Zenon DEF ResetForProbe, RecordType, States
<1> HIDE DEF x
<1>2. RecordOK(x)
  BY <1>1, Constants DEF RecordOK
<1>3. QED
  BY <1>1, <1>2 DEF x

(* What a query records is about addresses of the pool. *)
LEMMA OutcomesType ==
    ASSUME NEW b \in IPs, NEW s \in IPs \cup {None}, NEW o \in Outcomes(b, s)
    PROVE  o \in Seq(EventType)
<1>1. ASSUME NEW x \in IPs PROVE Ok(x) \in EventType /\ Bad(x) \in EventType
  BY DEF Ok, Bad, EventType
<1>2. ASSUME NEW x \in EventType, NEW y \in EventType
      PROVE  <<>> \in Seq(EventType) /\ <<x>> \in Seq(EventType) /\ <<x, y>> \in Seq(EventType)
  OBVIOUS
<1>3. CASE s = None
  <2>1. o \in { <<>>, <<Ok(b)>>, <<Bad(b)>>, <<Ok(b), Bad(b)>> }
    BY <1>3, Zenon DEF Outcomes
  <2>2. QED
    BY <1>1, <1>2, <2>1, Zenon
<1>4. CASE s # None
  <2>1. s \in IPs
    BY <1>4
  <2>2. ASSUME NEW x \in IPs, NEW y \in IPs, NEW q \in RaceWon(x, y)
        PROVE  q \in Seq(EventType)
    <3>1. q = <<Ok(x)>> \/ q = <<Bad(y), Ok(x)>>
      BY <2>2, Zenon DEF RaceWon
    <3>2. QED
      BY <1>1, <1>2, <3>1, Zenon
  <2>3. ASSUME NEW x \in IPs, NEW y \in IPs, NEW q \in Retried(x, y)
        PROVE  q \in Seq(EventType)
    <3>1. PICK p \in RaceWon(x, y), t \in {<<Ok(y)>>, <<Bad(y)>>} : q = p \o <<Bad(x)>> \o t
      BY <2>3, SMT DEF Retried
    <3>2. p \in Seq(EventType)
      BY <2>2
    <3>3. t \in Seq(EventType) /\ <<Bad(x)>> \in Seq(EventType)
      BY <1>1, <1>2, Zenon
    <3>4. p \o <<Bad(x)>> \in Seq(EventType)
      BY <3>2, <3>3
    <3>5. p \o <<Bad(x)>> \o t \in Seq(EventType)
      BY <3>3, <3>4
    <3>6. QED
      BY <3>1, <3>5
  <2>4. \/ o \in {<<>>, <<Bad(b)>>, <<Bad(s)>>, <<Bad(b), Bad(s)>>}
        \/ o \in RaceWon(b, s) \/ o \in Retried(b, s) \/ o \in RaceWon(s, b) \/ o \in Retried(s, b)
    BY <1>4, Zenon DEF Outcomes
  <2>5. CASE o \in {<<>>, <<Bad(b)>>, <<Bad(s)>>, <<Bad(b), Bad(s)>>}
    BY <1>1, <1>2, <2>1, <2>5, Zenon
  <2>6. QED
    BY <2>1, <2>2, <2>3, <2>4, <2>5, Zenon
<1>5. QED
  BY <1>3, <1>4

-----------------------------------------------------------------------------
(* The invariant, by the variable it is about. *)
PoolOK(p) ==
    /\ p \in [IPs -> RecordType \cup {None}]
    /\ \A ip \in IPs : p[ip] # None => RecordOK(p[ip])
QueriesOK(q) ==
    /\ q \in [Queries -> QueryType]
    /\ \A c \in Queries : QueryOK(q[c])
ProbeOK(b) == b.pc = "probed" => b.ip \in IPs

(* The invariant is those three, and a count of lives. *)
LEMMA InvParts ==
    IInv <=> PoolOK(pool) /\ QueriesOK(query) /\ ProbeOK(probe) /\ lives \in [IPs -> Nat]
BY DEF IInv, TypeOK, PoolOK, QueriesOK, ProbeOK

(* Writing a well-formed record keeps the pool well formed. *)
LEMMA PoolEdit ==
    ASSUME NEW p, PoolOK(p), NEW x \in IPs, NEW r \in RecordType, RecordOK(r)
    PROVE  PoolOK([p EXCEPT ![x] = r])
BY DEF PoolOK

(* Writing a well-formed state of one query keeps the others'. *)
LEMMA QueryEdit ==
    ASSUME NEW q, QueriesOK(q), NEW c \in Queries, NEW y \in QueryType, QueryOK(y)
    PROVE  QueriesOK([q EXCEPT ![c] = y])
<1>1. [q EXCEPT ![c] = y] \in [Queries -> QueryType]
  BY DEF QueriesOK
<1>2. ASSUME NEW d \in Queries PROVE QueryOK([q EXCEPT ![c] = y][d])
  <2>1. [q EXCEPT ![c] = y][d] = y \/ [q EXCEPT ![c] = y][d] = q[d]
    BY DEF QueriesOK
  <2>2. QED
    BY <2>1 DEF QueriesOK
<1>3. QED
  BY <1>1, <1>2 DEF QueriesOK

(* The states of a query, by its pc. *)
LEMMA QueryCases ==
    ASSUME NEW y \in QueryType
    PROVE  /\ y.pc \in {"ranking", "missing"} =>
                y.todo \in SUBSET IPs /\ y.scores \in SUBSET ScoreType
           /\ y.pc = "missing" => y.ip \in IPs
           /\ y.pc = "asked" =>
                /\ y \in [pc : {"asked"}, todo : Seq(EventType), scores : SUBSET ScoreType,
                          best : ScoreType]
                /\ y.todo \in Seq(EventType) /\ y.scores \in SUBSET ScoreType
                /\ y.best \in ScoreType
BY DEF QueryType, IdleQuery

(* A score is read as its record gives it. *)
LEMMA ScoredOK ==
    ASSUME QueriesOK(query), NEW c \in Queries, query[c].pc \in {"ranking", "missing"},
           NEW ip \in IPs, NEW r \in RecordType, RecordOK(r), Scored(c, ip, r)
    PROVE  QueriesOK(query')
<1> DEFINE s == [ip |-> ip, score |-> GetScore(r), state |-> r.state]
           y == [pc |-> "ranking", todo |-> query[c].todo \ {ip},
                 scores |-> query[c].scores \cup {s}]
<1>1. query[c] \in QueryType /\ QueryOK(query[c])
  BY DEF QueriesOK
<1>2. query[c].todo \in SUBSET IPs /\ query[c].scores \in SUBSET ScoreType
  BY <1>1, QueryCases
<1>3. s \in ScoreType /\ ScoreOK(s)
  <2>1. GetScore(r) \in Nat /\ r.state \in States
    BY ScoreRange, RecordFields
  <2>2. s \in ScoreType
    BY <2>1 DEF ScoreType
  <2>3. s.score = GetScore(r) /\ s.state = r.state
    OBVIOUS
  <2>4. QED
    BY <2>2, <2>3, ScoreRange DEF ScoreOK
<1> HIDE DEF s
<1>4. y \in QueryType
  <2>1. y.todo \in SUBSET IPs /\ y.scores \in SUBSET ScoreType
    BY <1>2, <1>3
  <2>2. QED
    BY <2>1 DEF QueryType
<1>5. QueryOK(y)
  <2>1. \A t \in y.scores : ScoreOK(t)
    BY <1>1, <1>3 DEF QueryOK
  <2>2. y.pc = "ranking"
    OBVIOUS
  <2>3. QED
    BY <2>1, <2>2 DEF QueryOK
<1>6. query' = [query EXCEPT ![c] = y]
  BY DEF Scored, s, QueriesOK
<1> HIDE DEF y
<1>7. QED
  BY <1>4, <1>5, <1>6, QueryEdit, Zenon

(* The initial states are in the invariant. *)
LEMMA InvInit == Init => IInv
<1> SUFFICES ASSUME Init PROVE IInv
  OBVIOUS
<1>1. PoolOK(pool)
  BY DEF Init, PoolOK
<1>2. QueriesOK(query)
  BY DEF Init, QueriesOK, QueryType, IdleQuery, QueryOK
<1>3. ProbeOK(probe) /\ lives \in [IPs -> Nat]
  BY DEF Init, ProbeOK
<1>4. QED
  BY <1>1, <1>2, <1>3, InvParts

(* What a step may do to the records: keep each, with its life, or prune it. *)
Kept ==
    \A ip \in IPs :
        pool[ip] # None /\ (pool'[ip] = None \/ pool'[ip].life # pool[ip].life) =>
            ip \notin Exempt /\ ~pool[ip].seenLately

(* Writing a record of the same life loses nothing. *)
LEMMA EditKeeps ==
    ASSUME PoolOK(pool), NEW x \in IPs, NEW r \in RecordType,
           pool' = [pool EXCEPT ![x] = r], pool[x] # None => r.life = pool[x].life
    PROVE  Kept
BY PoolAssumption DEF Kept, PoolOK, PoolAssumption

(* The steps of a query keep the invariant, and lose no record. *)
LEMMA QuerySteps ==
    ASSUME IInv, NEW c \in Queries,
           \/ \E ips \in SUBSET IPs \ {{}} : Rank(c, ips)
           \/ \E ip \in IPs : ReadScore(c, ip) \/ FindMissing(c, ip)
           \/ CreateMissing(c) \/ Select(c) \/ Record(c) \/ Finish(c)
    PROVE  IInv' /\ Kept
<1>0. PoolOK(pool) /\ QueriesOK(query) /\ ProbeOK(probe) /\ lives \in [IPs -> Nat]
  BY InvParts
<1>i. SUFFICES PoolOK(pool') /\ QueriesOK(query') /\ ProbeOK(probe') /\ lives' \in [IPs -> Nat]
               /\ Kept
  BY InvParts DEF PoolOK, QueriesOK, ProbeOK, IInv, TypeOK
<1>u. pool' = pool => PoolOK(pool') /\ Kept
  BY <1>0 DEF Kept
<1>q. query[c] \in QueryType /\ QueryOK(query[c])
  BY <1>0 DEF QueriesOK
<1>1. ASSUME NEW ips \in SUBSET IPs, Rank(c, ips) PROVE QueriesOK(query')
  <2> DEFINE y == [pc |-> "ranking", todo |-> ips, scores |-> {}]
  <2>1. y \in QueryType /\ QueryOK(y)
    BY DEF QueryType, QueryOK
  <2>2. query' = [query EXCEPT ![c] = y]
    BY <1>1 DEF Rank
  <2> HIDE DEF y
  <2>3. QED
    BY <1>0, <2>1, <2>2, QueryEdit, Zenon
<1>2. ASSUME NEW ip \in IPs, ReadScore(c, ip) PROVE QueriesOK(query')
  <2>1. pool[ip] \in RecordType /\ RecordOK(pool[ip])
    BY <1>0, <1>2 DEF ReadScore, PoolOK
  <2>2. QED
    BY <1>0, <1>2, <2>1, ScoredOK DEF ReadScore
<1>3. ASSUME NEW ip \in IPs, FindMissing(c, ip) PROVE QueriesOK(query')
  <2> DEFINE y == [pc |-> "missing", todo |-> query[c].todo, scores |-> query[c].scores,
                   ip |-> ip]
  <2>1. query[c].todo \in SUBSET IPs /\ query[c].scores \in SUBSET ScoreType
    BY <1>3, <1>q, QueryCases DEF FindMissing
  <2>2. y \in QueryType
    BY <2>1 DEF QueryType
  <2>3. QueryOK(y)
    BY <1>3, <1>q DEF QueryOK, FindMissing
  <2>4. query' = [query EXCEPT ![c] = y]
    BY <1>3 DEF FindMissing
  <2> HIDE DEF y
  <2>5. QED
    BY <1>0, <2>2, <2>3, <2>4, QueryEdit, Zenon
<1>4. CASE CreateMissing(c)
  <2> DEFINE ip == query[c].ip
             r == IF pool[ip] # None THEN pool[ip] ELSE NewIPQualityV2(lives[ip] + 1)
  <2>1. ip \in IPs
    BY <1>4, <1>q, QueryCases DEF CreateMissing
  <2> HIDE DEF ip
  <2>2. r \in RecordType /\ RecordOK(r) /\ (pool[ip] # None => r.life = pool[ip].life)
    <3>1. lives[ip] + 1 \in Nat
      BY <1>0, <2>1
    <3>2. QED
      BY <1>0, <2>1, <3>1, NewOK DEF PoolOK
  <2>3. pool' = [pool EXCEPT ![ip] = r] /\ UNCHANGED probe
    BY <1>4 DEF CreateMissing, ip
  <2>4. lives' \in [IPs -> Nat]
    <3>1. PICK n \in {lives[ip], lives[ip] + 1} : lives' = [lives EXCEPT ![ip] = n]
      BY <1>4, Zenon DEF CreateMissing, ip
    <3>2. n \in Nat
      BY <1>0, <2>1
    <3>3. QED
      BY <1>0, <3>1, <3>2, Zenon
  <2> HIDE DEF r
  <2>5. PoolOK(pool') /\ Kept
    BY <1>0, <2>1, <2>2, <2>3, PoolEdit, EditKeeps, Zenon
  <2>6. QueriesOK(query')
    <3> DEFINE y == [pc |-> "ranking", todo |-> query[c].todo, scores |-> query[c].scores]
    <3>1. query[c].todo \in SUBSET IPs /\ query[c].scores \in SUBSET ScoreType
      BY <1>4, <1>q, QueryCases DEF CreateMissing
    <3>2. y \in QueryType /\ QueryOK(y)
      BY <1>4, <1>q, <3>1 DEF QueryType, QueryOK, CreateMissing
    <3>3. query' = [query EXCEPT ![c] = y]
      BY <1>4 DEF CreateMissing
    <3> HIDE DEF y
    <3>4. QED
      BY <1>0, <3>2, <3>3, QueryEdit, Zenon
  <2>7. QED
    BY <1>0, <2>3, <2>4, <2>5, <2>6
<1>5. ASSUME Select(c) PROVE QueriesOK(query')
  <2> DEFINE scores == query[c].scores
  <2>1. scores \in SUBSET ScoreType
    BY <1>5, <1>q, QueryCases DEF Select
  <2>2. PICK b \in Best(scores) :
          \E s \in IF scores \ {b} = {} THEN {None} ELSE Best(scores \ {b}) :
             \E o \in Outcomes(b.ip, IF s = None THEN None ELSE s.ip) :
                query' = [query EXCEPT ![c] =
                            [pc |-> "asked", best |-> b, scores |-> scores, todo |-> o]]
    BY <1>5, Zenon DEF Select
  <2>3. PICK s \in IF scores \ {b} = {} THEN {None} ELSE Best(scores \ {b}) :
             \E o \in Outcomes(b.ip, IF s = None THEN None ELSE s.ip) :
                query' = [query EXCEPT ![c] =
                            [pc |-> "asked", best |-> b, scores |-> scores, todo |-> o]]
    BY <2>2, Zenon
  <2>4. PICK o \in Outcomes(b.ip, IF s = None THEN None ELSE s.ip) :
                query' = [query EXCEPT ![c] =
                            [pc |-> "asked", best |-> b, scores |-> scores, todo |-> o]]
    BY <2>3, Zenon
  <2>5. b \in ScoreType /\ b \in scores /\ (s # None => s \in ScoreType)
    BY <2>1 DEF Best
  <2>6. b.ip \in IPs /\ (IF s = None THEN None ELSE s.ip) \in IPs \cup {None}
    BY <2>5 DEF ScoreType
  <2>7. o \in Seq(EventType)
    BY <2>6, OutcomesType
  <2> DEFINE y == [pc |-> "asked", best |-> b, scores |-> scores, todo |-> o]
  <2> HIDE DEF scores
  <2>8. y \in QueryType
    BY <2>1, <2>5, <2>7 DEF QueryType
  <2>9. QueryOK(y)
    <3>1. \A t \in scores : ScoreOK(t)
      BY <1>5, <1>q DEF QueryOK, Select, scores
    <3>2. b \in Best(scores)
      BY <2>2
    <3>3. y.scores = scores /\ y.best = b
      OBVIOUS
    <3> HIDE DEF y
    <3>4. QED
      BY <3>1, <3>2, <3>3 DEF QueryOK
  <2>10. query' = [query EXCEPT ![c] = y]
    BY <2>4
  <2> HIDE DEF y
  <2>11. QED
    BY <1>0, <2>8, <2>9, <2>10, QueryEdit, Zenon
<1>6. CASE Record(c)
  <2>1. query[c].todo \in Seq(EventType) /\ query[c].todo # <<>> /\ query[c].pc = "asked"
    BY <1>6, <1>q, QueryCases, Zenon DEF Record
  <2> DEFINE e == Head(query[c].todo)
             y == [query[c] EXCEPT !.todo = Tail(query[c].todo)]
  <2>2. e \in EventType /\ Tail(query[c].todo) \in Seq(EventType)
    BY <2>1
  <2>3. e.ip \in IPs
    BY <2>2 DEF EventType
  <2> HIDE DEF e
  <2>4. PoolOK(pool') /\ Kept
    <3>1. CASE pool' = pool
      BY <3>1, <1>u
    <3>2. CASE pool[e.ip] # None /\ \E median \in Latencies :
                    pool' = [pool EXCEPT ![e.ip] = RecordLatency(pool[e.ip], median)]
      <4>1. PICK median \in Latencies : pool' = [pool EXCEPT ![e.ip] = RecordLatency(pool[e.ip], median)]
        BY <3>2, Zenon
      <4>2. pool[e.ip] \in RecordType /\ RecordOK(pool[e.ip])
        BY <1>0, <2>3, <3>2 DEF PoolOK
      <4>3. QED
        BY <1>0, <2>3, <4>1, <4>2, LatencyOK, PoolEdit, EditKeeps, Zenon
    <3>3. CASE pool[e.ip] # None /\ pool' = [pool EXCEPT ![e.ip] = RecordFailure(pool[e.ip])]
      <4>1. pool[e.ip] \in RecordType /\ RecordOK(pool[e.ip])
        BY <1>0, <2>3, <3>3 DEF PoolOK
      <4>2. QED
        BY <1>0, <2>3, <3>3, <4>1, FailureOK, PoolEdit, EditKeeps, Zenon
    <3>4. QED
      BY <1>6, <3>1, <3>2, <3>3, Zenon DEF Record, e
  <2>5. /\ y \in QueryType /\ y.pc = "asked" /\ y.scores = query[c].scores
        /\ y.best = query[c].best
    <3>1. query[c] \in [pc : {"asked"}, todo : Seq(EventType), scores : SUBSET ScoreType,
                        best : ScoreType]
      BY <1>q, <2>1, QueryCases
    <3>2. QED
      BY <2>2, <3>1, Zenon DEF QueryType
  <2>6. query' = [query EXCEPT ![c] = y]
    BY <1>6, Zenon DEF Record
  <2> HIDE DEF y
  <2>7. QueryOK(y)
    BY <1>q, <2>1, <2>5 DEF QueryOK
  <2>8. QueriesOK(query')
    BY <1>0, <2>5, <2>6, <2>7, QueryEdit, Zenon
  <2>9. QED
    BY <1>0, <1>6, <2>4, <2>8, Zenon DEF Record
<1>7. ASSUME Finish(c) PROVE QueriesOK(query')
  <2>1. IdleQuery \in QueryType /\ QueryOK(IdleQuery)
    BY DEF QueryType, QueryOK, IdleQuery
  <2>2. QED
    BY <1>0, <1>7, <2>1, QueryEdit, Zenon DEF Finish
<1>8. CASE \E ips \in SUBSET IPs \ {{}} : Rank(c, ips)
  BY <1>0, <1>1, <1>8, <1>u, Zenon DEF Rank
<1>9. CASE \E ip \in IPs : ReadScore(c, ip) \/ FindMissing(c, ip)
  BY <1>0, <1>2, <1>3, <1>9, <1>u DEF ReadScore, FindMissing
<1>10. CASE Select(c)
  BY <1>0, <1>5, <1>10, <1>u, Zenon DEF Select
<1>11. CASE Finish(c)
  BY <1>0, <1>7, <1>11, <1>u DEF Finish
<1>12. QED
  BY <1>4, <1>6, <1>8, <1>9, <1>10, <1>11, Zenon

(* The steps of the probe loop, of time and of the network do too. *)
LEMMA OtherSteps ==
    ASSUME IInv,
           \/ \E ip \in IPs : ProbeExchange(ip) \/ Cool(ip) \/ Age(ip) \/ Change(ip)
           \/ CollectSuspects \/ ProbeApply \/ PruneStaleIPs
    PROVE  IInv' /\ Kept
<1>0. PoolOK(pool) /\ QueriesOK(query) /\ ProbeOK(probe) /\ lives \in [IPs -> Nat]
  BY InvParts
<1>1. QueriesOK(query') /\ lives' \in [IPs -> Nat]
  BY <1>0 DEF ProbeExchange, Cool, Age, Change, CollectSuspects, ProbeApply, PruneStaleIPs
<1>2. SUFFICES PoolOK(pool') /\ ProbeOK(probe') /\ Kept
  BY <1>1, InvParts DEF PoolOK, QueriesOK, ProbeOK, IInv, TypeOK
<1>u. pool' = pool => PoolOK(pool') /\ Kept
  BY <1>0 DEF Kept
<1>3. ASSUME NEW ip \in IPs, ProbeExchange(ip) PROVE PoolOK(pool') /\ ProbeOK(probe') /\ Kept
  BY <1>3, <1>u DEF ProbeExchange, ProbeOK
<1>4. ASSUME NEW ip \in IPs, Cool(ip) PROVE PoolOK(pool') /\ ProbeOK(probe') /\ Kept
  <2> DEFINE r == [pool[ip] EXCEPT !.failedLately = FALSE]
  <2>1. pool[ip] \in RecordType /\ RecordOK(pool[ip])
    BY <1>0, <1>4 DEF PoolOK, Cool
  <2>2. r \in RecordType /\ RecordOK(r) /\ r.life = pool[ip].life
    BY <2>1, Zenon DEF RecordType, RecordOK
  <2>3. pool' = [pool EXCEPT ![ip] = r] /\ probe' = probe
    BY <1>4 DEF Cool
  <2> HIDE DEF r
  <2>4. QED
    BY <1>0, <2>2, <2>3, PoolEdit, EditKeeps, Zenon
<1>5. ASSUME NEW ip \in IPs, Age(ip) PROVE PoolOK(pool') /\ ProbeOK(probe') /\ Kept
  <2> DEFINE r == [pool[ip] EXCEPT !.seenLately = FALSE]
  <2>1. pool[ip] \in RecordType /\ RecordOK(pool[ip])
    BY <1>0, <1>5 DEF PoolOK, Age
  <2>2. r \in RecordType /\ RecordOK(r) /\ r.life = pool[ip].life
    BY <2>1, Zenon DEF RecordType, RecordOK
  <2>3. pool' = [pool EXCEPT ![ip] = r] /\ probe' = probe
    BY <1>5 DEF Age
  <2> HIDE DEF r
  <2>4. QED
    BY <1>0, <2>2, <2>3, PoolEdit, EditKeeps, Zenon
<1>6. ASSUME NEW ip \in IPs, Change(ip) PROVE PoolOK(pool') /\ ProbeOK(probe') /\ Kept
  BY <1>0, <1>6, <1>u DEF Change
<1>7. ASSUME CollectSuspects PROVE PoolOK(pool') /\ ProbeOK(probe') /\ Kept
  BY <1>7, <1>u DEF CollectSuspects, ProbeOK, Waiting
<1>8. ASSUME ProbeApply PROVE PoolOK(pool') /\ ProbeOK(probe') /\ Kept
  <2>1. ProbeOK(probe')
    BY <1>8 DEF ProbeApply, ProbeOK, Waiting
  <2>2. CASE pool' = pool
    BY <2>1, <2>2, <1>u
  <2>3. CASE pool[probe.ip] # None
             /\ pool' = [pool EXCEPT ![probe.ip] = ResetForProbe(pool[probe.ip])]
    <3>1. probe.ip \in IPs
      BY <1>0, <1>8 DEF ProbeOK, ProbeApply
    <3>2. pool[probe.ip] \in RecordType /\ RecordOK(pool[probe.ip])
      BY <1>0, <2>3, <3>1 DEF PoolOK
    <3>3. QED
      BY <1>0, <2>1, <2>3, <3>1, <3>2, ResetOK, PoolEdit, EditKeeps, Zenon
  <2>4. QED
    BY <1>8, <2>2, <2>3 DEF ProbeApply
<1>9. ASSUME PruneStaleIPs PROVE PoolOK(pool') /\ ProbeOK(probe') /\ Kept
  <2>1. \A ip \in IPs : \/ pool'[ip] = pool[ip]
                        \/ pool'[ip] = None /\ ip \notin Exempt /\ ~pool[ip].seenLately
    BY <1>9 DEF PruneStaleIPs
  <2>2. PoolOK(pool')
    <3>1. ASSUME NEW ip \in IPs
          PROVE  pool'[ip] \in RecordType \cup {None}
                 /\ (pool'[ip] # None => RecordOK(pool'[ip]))
      BY <1>0, <2>1 DEF PoolOK
    <3>2. DOMAIN pool' = IPs /\ pool' = [ip \in IPs |-> pool'[ip]]
      BY <1>9 DEF PruneStaleIPs
    <3>3. QED
      BY <3>1, <3>2 DEF PoolOK
  <2>3. Kept
    BY <2>1 DEF Kept
  <2>4. QED
    BY <1>0, <1>9, <2>2, <2>3 DEF PruneStaleIPs
<1>10. QED
  BY <1>3, <1>4, <1>5, <1>6, <1>7, <1>8, <1>9

(* Every step keeps the invariant and the records. *)
LEMMA InvStep == IInv /\ [Next]_vars => IInv' /\ Kept
<1> SUFFICES ASSUME IInv, [Next]_vars PROVE IInv' /\ Kept
  OBVIOUS
<1>1. CASE UNCHANGED vars
  BY <1>1 DEF vars, IInv, TypeOK, Kept
<1>2. CASE Next
  BY <1>2, QuerySteps, OtherSteps DEF Next
<1>3. QED
  BY <1>1, <1>2

(* The least of the scores read is a suspect's only if all are. *)
LEMMA InvImplies == IInv => SuspectsComeLast
<1> SUFFICES ASSUME IInv, NEW c \in Queries, query[c].pc = "asked",
                    query[c].best.state = "SUSPECT", NEW s \in query[c].scores,
                    s.state # "SUSPECT"
             PROVE  FALSE
  BY DEF SuspectsComeLast
<1> DEFINE b == query[c].best
<1>1. QueriesOK(query)
  BY InvParts
<1>2. query[c] \in QueryType /\ QueryOK(query[c])
  BY <1>1 DEF QueriesOK
<1>3. b \in ScoreType /\ s \in ScoreType
  BY <1>2, QueryCases
<1>4. ScoreOK(b) /\ ScoreOK(s) /\ b.score <= s.score
  BY <1>2 DEF QueryOK, Best
<1> HIDE DEF b
<1>5. b.score \in Nat /\ s.score \in Nat
  BY <1>3 DEF ScoreType
<1>6. b.score >= Floor /\ s.score <= Ceiling
  BY <1>4 DEF ScoreOK, b
<1>7. QED
  BY <1>4, <1>5, <1>6 DEF Floor, Ceiling

(* The records of the pool are always well formed: in particular a record past
   phase 1 is a suspect and a suspect is held at the worst latency, through
   wrapping counters, probes and pruning (ip_pool_quality_v2.go). *)
THEOREM PoolTypeCorrect == Spec => []TypeOK
<1>1. IInv => TypeOK
  BY DEF IInv
<1>2. QED
  BY <1>1, InvInit, InvStep, PTL DEF Spec

(* No query asks a suspect first while it read a candidate that is none
   (GetBestIPsV2). *)
THEOREM SuspectsLast == Spec => []SuspectsComeLast
BY InvInit, InvStep, InvImplies, PTL DEF Spec

(* No record is lost but by pruning, and none of a root server's
   (GetBestIPsV2, PruneStaleIPs). *)
THEOREM RecordsSafe == Spec => RecordsKept
<1>1. IInv /\ [Next]_vars =>
        [\A ip \in IPs :
          pool[ip] # None /\ (pool'[ip] = None \/ pool'[ip].life # pool[ip].life) =>
              ip \notin Exempt /\ ~pool[ip].seenLately]_vars
  BY InvStep DEF Kept
<1>2. QED
  BY <1>1, InvInit, InvStep, PTL DEF Spec, RecordsKept
=============================================================================

--------------------------- MODULE DnsCacheProofs ---------------------------
(* AgeBound and the refinement of LeaseCache, for every set of messages, clock
   resolution and bound.  The inductive invariant adds to the types that an entry
   in the cache and in the snapshot file lies under a key it belongs to and within
   its age bound, that a saved entry was alive when it was saved, and that a store
   in progress concerns a message received at this very moment (or a negative one). *)
EXTENDS DnsCache, TLAPS, NaturalsInduction, WellFoundedInduction

Span(m) == (Longest(m) + 1) * Hz

EntryOK(k, e) ==
    /\ Belongs(k, e.msg)
    /\ e.msg.soa = NoRR => e.until <= e.born + (e.lives + 1) * Span(e.msg)

CacheInv == \A k \in Keys : cache[k] # None => EntryOK(k, cache[k])

FileInv ==
    file # None =>
        /\ file.saved <= Secs(now)
        /\ \A k \in Keys : file.entries[k] # None =>
              EntryOK(k, file.entries[k]) /\ Hz * file.saved <= file.entries[k].until

JobOK(j) ==
    j.pc # "idle" =>
        /\ j.msg.soa = NoRR => j.born = now /\ j.lives = 0
        /\ j.pc \in {"answer", "sync answer", "sync zone"} => j.msg.answer # NoRR
        /\ j.pc \in {"zone", "sync zone"} => j.msg.ns # NoRR
        /\ j.pc = "negative" => j.msg.soa # NoRR /\ j.msg.answer = NoRR

JobInv == \A w \in Workers : JobOK(job[w])

IInv == TypeOK /\ CacheInv /\ FileInv /\ JobInv

-----------------------------------------------------------------------------
(* Arithmetic. *)

(* A moment lies in its second. *)
LEMMA SecsBounds ==
    ASSUME NEW t \in Nat
    PROVE  Secs(t) \in Nat /\ Hz * Secs(t) <= t /\ t < Hz * Secs(t) + Hz
BY CacheAssumption, SMTT(30) DEF CacheAssumption, Secs

(* Multiplication is monotone. *)
LEMMA Monotone ==
    ASSUME NEW a \in Nat, NEW b \in Nat, NEW c \in Nat, a <= b
    PROVE  a * c <= b * c
BY SMT

(* Multiplication distributes over addition. *)
LEMMA Distributes ==
    ASSUME NEW a \in Int, NEW b \in Int, NEW c \in Nat
    PROVE  (a + b) * c = a * c + b * c
BY SMT

(* A set of naturals that is not empty has a least element. *)
LEMMA LeastNat ==
    ASSUME NEW T, T \subseteq Nat, T # {}
    PROVE  \E x \in T : \A y \in T : x <= y
<1>1. PICK x \in T : \A y \in T : ~(<<y, x>> \in OpToRel(<, Nat))
  BY WFMin, NatLessThanWellFounded, Zenon
<1>2. \A y \in T : <<y, x>> \in OpToRel(<, Nat) <=> y < x
  BY DEF OpToRel
<1>3. \A y \in T : ~(y < x)
  BY <1>1, <1>2, Zenon
<1>4. QED
  BY <1>3, SMT

(* The fields of a message. *)
LEMMA MessageFields ==
    ASSUME NEW m \in Messages
    PROVE  /\ m.question \in Questions /\ m.zone \in Zones
           /\ m.answer \in Nat \cup {NoRR} /\ m.ns \in Nat \cup {NoRR}
           /\ m.soa \in Nat \cup {NoRR}
           /\ m.soa # NoRR => m.ns = NoRR /\ m.answer = NoRR
           /\ m.answer # NoRR \/ m.ns # NoRR \/ m.soa # NoRR
BY CacheAssumption DEF CacheAssumption, MessageType

(* No lifetime of a message exceeds the longest. *)
LEMMA LongestBound ==
    ASSUME NEW m \in Messages
    PROVE  /\ Longest(m) \in Nat
           /\ \A u \in Lifetimes(m) : u <= Longest(m)
<1>1. m \in MessageType
  BY CacheAssumption DEF CacheAssumption
<1>2. Lifetimes(m) \subseteq Nat
  BY <1>1, CacheAssumption DEF CacheAssumption, Lifetimes, Lifetime, TTLs, MessageType, NoRR
<1>3. \E t \in Lifetimes(m) : \A u \in Lifetimes(m) : u <= t
  BY CacheAssumption DEF CacheAssumption
<1>4. Longest(m) \in Lifetimes(m) /\ \A u \in Lifetimes(m) : u <= Longest(m)
  BY <1>3 DEF Longest
<1>5. QED
  BY <1>2, <1>4

(* The span of a message is its longest lifetime and a second, in moments. *)
LEMMA SpanNat ==
    ASSUME NEW m \in Messages
    PROVE  Span(m) \in Nat /\ Span(m) = Longest(m) * Hz + Hz
BY LongestBound, CacheAssumption, SMT DEF CacheAssumption, Span

(* A TTL of a message lasts no longer than the longest lifetime. *)
LEMMA StoredLife ==
    ASSUME NEW m \in Messages, NEW ttl \in {m.answer, m.ns, m.soa}, ttl # NoRR
    PROVE  /\ ttl \in Nat /\ ttl <= Longest(m)
           /\ Lifetime(ttl) \in Nat /\ Lifetime(ttl) <= Longest(m)
<1>1. m \in MessageType
  BY CacheAssumption DEF CacheAssumption
<1>2. ttl \in Nat /\ Lifetime(ttl) \in Nat /\ ttl <= Lifetime(ttl)
  BY <1>1, CacheAssumption DEF CacheAssumption, MessageType, Lifetime
<1>3. ttl \in TTLs(m) \cup ({m.soa} \ {NoRR})
  BY DEF TTLs
<1>4. Lifetime(ttl) \in Lifetimes(m)
  BY <1>3 DEF Lifetimes
<1>5. QED
  BY <1>2, <1>4, LongestBound

(* What a snapshot gives back is what one of the records has left. *)
LEMMA RemainingLife ==
    ASSUME NEW m \in Messages, NEW elapsed \in Nat, Remaining(m, elapsed) # {}
    PROVE  /\ LeastRemaining(m, elapsed) \in Nat
           /\ LeastRemaining(m, elapsed) + elapsed <= Longest(m)
<1>1. m \in MessageType
  BY CacheAssumption DEF CacheAssumption
<1>2. TTLs(m) \subseteq Nat
  BY <1>1 DEF TTLs, MessageType, NoRR
<1>3. Remaining(m, elapsed) \subseteq Nat
  BY <1>2 DEF Remaining
<1>4. \E r \in Remaining(m, elapsed) : \A s \in Remaining(m, elapsed) : r <= s
  BY <1>3, LeastNat
<1>5. LeastRemaining(m, elapsed) \in Remaining(m, elapsed)
  BY <1>4 DEF LeastRemaining
<1>6. PICK t \in TTLs(m) : t > elapsed /\ LeastRemaining(m, elapsed) = t - elapsed
  BY <1>5 DEF Remaining
<1>7. Lifetime(t) = t /\ Lifetime(t) \in Lifetimes(m)
  BY <1>2, <1>6 DEF Lifetime, Lifetimes
<1>8. QED
  BY <1>2, <1>6, <1>7, LongestBound

-----------------------------------------------------------------------------
(* The invariant. *)

(* An entry stored for a message received at this moment is within its age bound. *)
LEMMA FreshEntry ==
    ASSUME NEW m \in Messages, NEW life \in Nat, life <= Longest(m), NEW t \in Nat
    PROVE  /\ t + life * Hz \in Nat
           /\ t + life * Hz < t + (Longest(m) + 1) * Hz
           /\ t + life * Hz <= t + (0 + 1) * Span(m)
<1>1. life * Hz \in Nat /\ life * Hz <= Longest(m) * Hz /\ Longest(m) * Hz \in Nat /\ Hz \in Nat \ {0}
  BY LongestBound, Monotone, CacheAssumption DEF CacheAssumption
<1>2. Span(m) = Longest(m) * Hz + Hz /\ Span(m) \in Nat /\ Span(m) = (Longest(m) + 1) * Hz
  BY SpanNat DEF Span
<1>3. QED
  BY <1>1, <1>2

(* A job that is not idle has a message. *)
LEMMA ActiveJob ==
    ASSUME TypeOK, NEW w \in Workers, job[w].pc # "idle"
    PROVE  job[w] \in ActiveJobType
<1>1. job[w] = IdleJob \/ job[w] \in ActiveJobType
  BY DEF TypeOK
<1>2. IdleJob.pc = "idle"
  BY DEF IdleJob
<1>3. QED
  BY <1>1, <1>2

(* A store keeps the invariant: what setCache writes belongs under its key and
   lives no longer than the message. *)
LEMMA StoreKeeps ==
    ASSUME IInv, NEW w \in Workers, NEW k \in Keys, NEW ttl, NEW next,
           job[w].pc # "idle",
           ttl \in {job[w].msg.answer, job[w].msg.ns, job[w].msg.soa}, ttl # NoRR,
           Belongs(k, job[w].msg), up,
           next \in {"idle", "sync answer", "sync zone"},
           next = "sync answer" => job[w].msg.answer # NoRR,
           next = "sync zone" => job[w].msg.answer # NoRR /\ job[w].msg.ns # NoRR,
           setCache(w, k, ttl, next)
    PROVE  IInv'
<1> DEFINE j == job[w]
<1> DEFINE e == [msg |-> j.msg, until |-> now + Lifetime(ttl) * Hz,
                 born |-> j.born, lives |-> j.lives]
<1>1. j \in ActiveJobType
  BY ActiveJob, Zenon DEF IInv
<1>2. Lifetime(ttl) \in Nat /\ Lifetime(ttl) <= Longest(j.msg)
  BY <1>1, StoredLife, Zenon DEF ActiveJobType
<1>3. now \in Nat /\ cache \in [Keys -> EntryType \cup {None}]
  BY Zenon DEF IInv, TypeOK
<1>4. e \in EntryType
  BY <1>1, <1>2, <1>3, FreshEntry, Zenon DEF EntryType, ActiveJobType
<1>5. JobOK(j)
  BY Zenon DEF IInv, JobInv
<1>6. EntryOK(k, e)
  <2>1. CASE j.msg.soa = NoRR
    <3>1. j.born = now /\ j.lives = 0
      BY <1>5, <2>1, Zenon DEF JobOK
    <3>2. now + Lifetime(ttl) * Hz <= now + (0 + 1) * Span(j.msg)
      BY <1>1, <1>2, <1>3, FreshEntry, Zenon DEF ActiveJobType
    <3>3. QED
      BY <3>1, <3>2, Zenon DEF EntryOK
  <2>2. CASE j.msg.soa # NoRR
    BY <2>2, Zenon DEF EntryOK
  <2>3. QED
    BY <2>1, <2>2, Zenon
<1>7. cache' = [cache EXCEPT ![k] = e]
  BY Zenon DEF setCache
<1>8. job' = [job EXCEPT ![w] = IF next = "idle" THEN IdleJob ELSE [j EXCEPT !.pc = next]]
  BY Zenon DEF setCache
<1>9. UNCHANGED <<now, up, xdp, bpf, toDelete, file, stops, replies>>
  BY Zenon DEF setCache
<1>10. TypeOK'
  <2>1. cache' \in [Keys -> EntryType \cup {None}]
    BY <1>3, <1>4, <1>7, Zenon
  <2>2. job' \in [Workers -> {IdleJob} \cup ActiveJobType]
    BY <1>1, <1>8, Zenon DEF IInv, TypeOK, ActiveJobType
  <2>3. QED
    BY <1>9, <2>1, <2>2, Zenon DEF IInv, TypeOK
<1>11. CacheInv'
  <2>1. \A i \in Keys : cache'[i] = IF i = k THEN e ELSE cache[i]
    BY <1>3, <1>7, Zenon
  <2>2. QED
    BY <2>1, <1>6, Zenon DEF IInv, CacheInv, EntryOK
<1>12. FileInv'
  BY <1>9, Zenon DEF IInv, FileInv, EntryOK
<1>13. JobInv'
  <2> SUFFICES ASSUME NEW v \in Workers PROVE JobOK(job[v])'
    BY Zenon DEF JobInv
  <2>1. job'[v] = IF v # w THEN job[v]
                  ELSE IF next = "idle" THEN IdleJob ELSE [j EXCEPT !.pc = next]
    BY <1>8, Zenon DEF IInv, TypeOK
  <2>2. JobOK(job[v])
    BY Zenon DEF IInv, JobInv
  <2>3. CASE v # w
    BY <1>9, <2>1, <2>2, <2>3, Zenon DEF JobOK
  <2>4. CASE v = w
    <3>1. CASE next = "idle"
      BY <2>1, <2>4, <3>1 DEF JobOK, IdleJob
    <3>2. CASE next # "idle"
      <4>1. job'[v] = [j EXCEPT !.pc = next]
        BY <2>1, <2>4, <3>2, Zenon
      <4>2. /\ job'[v].pc = next /\ job'[v].msg = j.msg
            /\ job'[v].born = j.born /\ job'[v].lives = j.lives
        BY <1>1, <4>1, Zenon DEF ActiveJobType
      <4>3. QED
        BY <1>5, <1>9, <3>2, <4>2, Zenon DEF JobOK
    <3>3. QED
      BY <3>1, <3>2, Zenon
  <2>5. QED
    BY <2>3, <2>4, Zenon
<1>14. QED
  BY <1>10, <1>11, <1>12, <1>13, Zenon DEF IInv

(* A job that moves on to another step keeps its message, so JobOK is a matter of
   the new step alone. *)
LEMMA NextJob ==
    ASSUME TypeOK, JobInv, NEW w \in Workers, NEW next, job[w].pc # "idle",
           next \in {"idle", "zone"}, next = "zone" => job[w].msg.ns # NoRR,
           job' = [job EXCEPT ![w] = IF next = "idle" THEN IdleJob ELSE [@ EXCEPT !.pc = next]],
           now' = now
    PROVE  /\ job' \in [Workers -> {IdleJob} \cup ActiveJobType]
           /\ JobInv'
<1>1. job[w] \in ActiveJobType
  BY ActiveJob
<1>2. CASE next = "idle"
  BY <1>2, Zenon DEF TypeOK, JobInv, JobOK, IdleJob
<1>3. CASE next = "zone"
  <2>1. job' = [job EXCEPT ![w] = [job[w] EXCEPT !.pc = "zone"]]
    BY <1>3
  <2>2. [job[w] EXCEPT !.pc = "zone"] \in ActiveJobType
    BY <1>1, Zenon DEF ActiveJobType
  <2>3. job' \in [Workers -> {IdleJob} \cup ActiveJobType]
    BY <2>1, <2>2 DEF TypeOK
  <2>4. ASSUME NEW v \in Workers PROVE JobOK(job[v])'
    <3>1. CASE v # w
      BY <2>1, <3>1, Zenon DEF TypeOK, JobInv, JobOK
    <3>2. CASE v = w
      <4>1. /\ job'[v].pc = "zone" /\ job'[v].msg = job[w].msg
            /\ job'[v].born = job[w].born /\ job'[v].lives = job[w].lives
        <5>1. job'[v] = [job[w] EXCEPT !.pc = "zone"]
          BY <2>1, <3>2 DEF TypeOK
        <5>2. QED
          BY ZenonT(60), <1>1, <5>1 DEF ActiveJobType
      <4>2. job[w].msg.soa = NoRR => job[w].born = now /\ job[w].lives = 0
        BY Zenon DEF JobInv, JobOK
      <4>3. job[w].msg.ns # NoRR
        BY <1>3
      <4>4. QED
        BY <4>1, <4>2, <4>3, Zenon DEF JobOK
    <3>3. QED
      BY <3>1, <3>2
  <2>5. QED
    BY <2>3, <2>4 DEF JobInv
<1>4. QED
  BY <1>2, <1>3

(* A sync keeps the invariant. *)
LEMMA SyncKeeps ==
    ASSUME IInv, NEW w \in Workers, NEW ttl \in Nat, NEW next, job[w].pc # "idle", up,
           next \in {"idle", "zone"}, next = "zone" => job[w].msg.ns # NoRR,
           syncToBPFMap(w, ttl, next)
    PROVE  IInv'
<1>1. job[w] \in ActiveJobType /\ now \in Nat /\ Secs(now) \in Nat
  BY ActiveJob, SecsBounds DEF IInv, TypeOK
<1>2. BpfValue(w, ttl) \in ValueType /\ job[w].msg.question \in Questions
  <2>1. job[w].msg \in Messages /\ job[w].born \in Nat
    BY <1>1, Zenon DEF ActiveJobType
  <2>4. Secs(now) + ttl \in Nat
    BY <1>1
  <2>2. job[w].msg.question \in Questions
    BY <2>1, MessageFields
  <2>3. QED
    BY <2>1, <2>2, <2>4 DEF BpfValue, ValueType
<1>3. bpf' \in [Questions -> ValueType \cup {None}]
  BY <1>2 DEF syncToBPFMap, IInv, TypeOK
<1>5. UNCHANGED <<now, up, xdp, cache, toDelete, file, stops, replies>>
  BY DEF syncToBPFMap
<1>4. job' \in [Workers -> {IdleJob} \cup ActiveJobType] /\ JobInv'
  <2>1. job' = [job EXCEPT ![w] = IF next = "idle" THEN IdleJob ELSE [@ EXCEPT !.pc = next]]
    BY DEF syncToBPFMap
  <2>2. TypeOK /\ JobInv /\ now' = now
    BY <1>5 DEF IInv
  <2>3. QED
    BY <2>1, <2>2, NextJob, Zenon
<1>6. TypeOK'
  BY <1>3, <1>4, <1>5 DEF IInv, TypeOK
<1>7. CacheInv' /\ FileInv'
  BY <1>5 DEF IInv, CacheInv, FileInv, EntryOK
<1>8. QED
  BY <1>4, <1>6, <1>7 DEF IInv

(* An entry given back by the snapshot belongs under its key, and its age bound
   has grown by the one lifetime the restart may add. *)
LEMMA LoadedEntry ==
    ASSUME IInv, NEW k \in Keys, LoadSnapshot[k] # None
    PROVE  /\ LoadSnapshot[k] \in EntryType
           /\ EntryOK(k, LoadSnapshot[k])
           /\ LoadSnapshot[k].until < now + (Longest(LoadSnapshot[k].msg) + 1) * Hz
<1> DEFINE e == file.entries[k]
           elapsed == Secs(now) - file.saved
           left == LeastRemaining(e.msg, elapsed)
<1>1. file # None /\ e # None /\ Remaining(e.msg, elapsed) # {}
  BY DEF LoadSnapshot
<1>2. LoadSnapshot[k] = [msg |-> e.msg, born |-> e.born, lives |-> e.lives + 1,
                         until |-> now + left * Hz]
  BY <1>1 DEF LoadSnapshot
<1>3. e \in EntryType /\ file.saved \in Nat /\ now \in Nat
  BY <1>1 DEF IInv, TypeOK
<1>4. EntryOK(k, e) /\ Hz * file.saved <= e.until /\ file.saved <= Secs(now)
  BY <1>1 DEF IInv, FileInv
<1>5. /\ Secs(now) \in Nat /\ Hz * Secs(now) <= now /\ now < Hz * Secs(now) + Hz
      /\ elapsed \in Nat
  BY <1>3, <1>4, SecsBounds
<1>6. e.msg \in Messages /\ e.until \in Nat /\ e.born \in Nat /\ e.lives \in Nat
  BY <1>3 DEF EntryType
<1>7. left \in Nat /\ left + elapsed <= Longest(e.msg) /\ Longest(e.msg) \in Nat
  BY <1>1, <1>5, <1>6, RemainingLife, LongestBound
<1>8. Hz \in Nat \ {0}
  BY CacheAssumption DEF CacheAssumption
<1>9. LoadSnapshot[k] \in EntryType
  <2>1. now + left * Hz \in Nat
    BY <1>3, <1>7, <1>8
  <2>2. QED
    BY <1>2, <1>6, <2>1 DEF EntryType
<1>10. left * Hz + elapsed * Hz <= Longest(e.msg) * Hz
  BY <1>5, <1>7, <1>8, Monotone, Distributes
<1>11. elapsed * Hz = Hz * Secs(now) - Hz * file.saved
  BY <1>3, <1>5, <1>8
<1>12. Span(e.msg) = Longest(e.msg) * Hz + Hz /\ Span(e.msg) \in Nat
       /\ (Longest(e.msg) + 1) * Hz = Span(e.msg)
  BY <1>6, SpanNat DEF Span
<1>13. now + left * Hz <= e.until + Span(e.msg)
  <2> DEFINE a == left * Hz
             b == Hz * Secs(now)
             c == Hz * file.saved
             d == Longest(e.msg) * Hz
  <2>1. a \in Nat /\ b \in Nat /\ c \in Nat /\ d \in Nat
    BY <1>3, <1>5, <1>7, <1>8
  <2>2. a + (b - c) <= d
    BY <1>10, <1>11
  <2>3. now < b + Hz /\ c <= e.until /\ Span(e.msg) = d + Hz
    BY <1>4, <1>5, <1>12
  <2> HIDE DEF a, b, c, d
  <2>4. now + a <= e.until + Span(e.msg)
    BY <2>1, <2>2, <2>3, <1>3, <1>6, <1>8
  <2>5. QED
    BY <2>4 DEF a
<1>14. EntryOK(k, LoadSnapshot[k])
  <2>1. (e.lives + 1 + 1) * Span(e.msg) = (e.lives + 1) * Span(e.msg) + Span(e.msg)
    BY <1>6, <1>12
  <2>2. (e.lives + 1) * Span(e.msg) \in Nat
    BY <1>6, <1>12
  <2>3. e.msg.soa = NoRR => e.until <= e.born + (e.lives + 1) * Span(e.msg)
    BY <1>4 DEF EntryOK
  <2>4. now + left * Hz \in Nat
    BY <1>3, <1>7, <1>8
  <2>5. e.msg.soa = NoRR => now + left * Hz <= e.born + (e.lives + 1 + 1) * Span(e.msg)
    <3> DEFINE a == now + left * Hz
               b == (e.lives + 1) * Span(e.msg)
               c == (e.lives + 1 + 1) * Span(e.msg)
    <3>1. c = b + Span(e.msg) /\ b \in Nat /\ a \in Nat /\ a <= e.until + Span(e.msg)
      BY <1>13, <2>1, <2>2, <2>4
    <3>2. e.msg.soa = NoRR => e.until <= e.born + b
      BY <2>3
    <3> HIDE DEF a, b, c
    <3>3. e.msg.soa = NoRR => a <= e.born + c
      BY <1>6, <1>12, <3>1, <3>2
    <3>4. QED
      BY <3>3 DEF a, c
  <2>6. Belongs(k, e.msg)
    BY <1>4 DEF EntryOK
  <2>7. QED
    BY <1>2, <2>5, <2>6 DEF EntryOK
<1>15. now + left * Hz < now + (Longest(e.msg) + 1) * Hz
  <2>1. left <= Longest(e.msg)
    BY <1>5, <1>7
  <2>2. QED
    BY <1>3, <1>6, <1>7, <2>1, FreshEntry
<1>16. QED
  BY <1>2, <1>9, <1>14, <1>15

(* Every step keeps the invariant. *)
LEMMA InvStep == IInv /\ [Next]_vars => IInv'
<1> SUFFICES ASSUME IInv, [Next]_vars PROVE IInv'
  OBVIOUS
<1>0. TypeOK /\ now \in Nat /\ Secs(now) \in Nat /\ Hz * Secs(now) <= now
  BY SecsBounds DEF IInv, TypeOK
<1>1. ASSUME NEW w \in Workers, NEW m \in Messages, Receive(w, m) PROVE IInv'
  <2> DEFINE j == [pc |-> FirstStep(m), msg |-> m, born |-> now, lives |-> 0]
  <2>1. job' = [job EXCEPT ![w] = j] /\ UNCHANGED <<now, up, xdp, cache, bpf, toDelete, file, stops>>
        /\ replies' = replies + 1 /\ up
    BY <1>1 DEF Receive, Idle
  <2>2. j \in ActiveJobType
    BY <1>0 DEF ActiveJobType, FirstStep
  <2>3. JobOK(j)
    BY MessageFields DEF JobOK, FirstStep
  <2>4. TypeOK'
    BY <1>0, <2>1, <2>2 DEF TypeOK
  <2>5. ASSUME NEW v \in Workers PROVE JobOK(job[v])'
    <3>1. job'[v] = IF v = w THEN j ELSE job[v]
      BY <1>0, <2>1 DEF TypeOK
    <3>2. JobOK(job[v])
      BY DEF IInv, JobInv
    <3>3. QED
      BY <2>1, <2>3, <3>1, <3>2, Zenon DEF JobOK
  <2>6. CacheInv' /\ FileInv'
    BY <2>1 DEF IInv, CacheInv, FileInv, EntryOK
  <2>7. QED
    BY <2>4, <2>5, <2>6 DEF IInv, JobInv
<1>2. ASSUME NEW w \in Workers, job[w].pc # "idle"
      PROVE  /\ up /\ job[w].msg \in Messages /\ JobOK(job[w])
             /\ job[w].msg.question \in Keys /\ job[w].msg.zone \in Keys
  <2>1. job[w].msg \in Messages
    BY <1>0, <1>2, ActiveJob, Zenon DEF ActiveJobType
  <2>2. QED
    BY <1>0, <1>2, <2>1, MessageFields DEF IInv, JobInv, TypeOK, Keys, IdleJob
<1>3. ASSUME NEW w \in Workers, StoreAnswer(w) PROVE IInv'
  <2>1. job[w].pc = "answer" /\ setCache(w, job[w].msg.question, job[w].msg.answer, "sync answer")
    BY <1>3, Zenon DEF StoreAnswer
  <2>2. job[w].msg.answer # NoRR /\ Belongs(job[w].msg.question, job[w].msg)
    BY <1>2, <2>1, Zenon DEF JobOK, Belongs
  <2>3. QED
    BY <1>2, <2>1, <2>2, StoreKeeps, Zenon
<1>4. ASSUME NEW w \in Workers, StoreZone(w) PROVE IInv'
  <2> DEFINE next == IF job[w].msg.answer # NoRR THEN "sync zone" ELSE "idle"
  <2>1. job[w].pc = "zone" /\ setCache(w, job[w].msg.zone, job[w].msg.ns, next)
    BY <1>4, Zenon DEF StoreZone
  <2>2. job[w].msg.ns # NoRR /\ Belongs(job[w].msg.zone, job[w].msg)
    BY <1>2, <2>1, Zenon DEF JobOK, Belongs
  <2>3. QED
    BY <1>2, <2>1, <2>2, StoreKeeps, Zenon
<1>5. ASSUME NEW w \in Workers, StoreNegative(w) PROVE IInv'
  <2>1. job[w].pc = "negative" /\ setCache(w, job[w].msg.question, job[w].msg.soa, "idle")
    BY <1>5 DEF StoreNegative
  <2>2. job[w].msg.soa # NoRR /\ Belongs(job[w].msg.question, job[w].msg)
    BY <1>2, <2>1, Zenon DEF JobOK, Belongs
  <2>3. QED
    BY <1>2, <2>1, <2>2, StoreKeeps, Zenon
<1>6. ASSUME NEW w \in Workers, SyncAnswer(w) PROVE IInv'
  <2> DEFINE next == IF job[w].msg.ns # NoRR THEN "zone" ELSE "idle"
  <2>1. job[w].pc = "sync answer" /\ syncToBPFMap(w, job[w].msg.answer, next)
    BY <1>6, Zenon DEF SyncAnswer
  <2>2. job[w].msg.answer \in Nat
    BY <1>2, <2>1, MessageFields, Zenon DEF JobOK
  <2>3. QED
    BY <1>2, <2>1, <2>2, SyncKeeps, Zenon
<1>7. ASSUME NEW w \in Workers, SyncZone(w) PROVE IInv'
  <2>1. job[w].pc = "sync zone" /\ syncToBPFMap(w, job[w].msg.ns, "idle")
    BY <1>7, Zenon DEF SyncZone
  <2>2. job[w].msg.ns \in Nat
    BY <1>2, <2>1, MessageFields, Zenon DEF JobOK
  <2>3. QED
    BY <1>2, <2>1, <2>2, SyncKeeps, Zenon
<1>8. ASSUME NEW w \in Workers, NEW q \in Questions, NegativeHit(w, q) PROVE IInv'
  <2> DEFINE j == [pc |-> "negative", msg |-> cache[q].msg,
                   born |-> cache[q].born, lives |-> cache[q].lives]
  <2>1. job' = [job EXCEPT ![w] = j]
        /\ UNCHANGED <<now, up, xdp, cache, bpf, toDelete, file, stops, replies>>
    BY <1>8 DEF NegativeHit
  <2>2. cache[q] \in EntryType /\ cache[q].msg.soa # NoRR /\ cache[q].msg.answer = NoRR
    BY <1>0, <1>8 DEF NegativeHit, Live, TypeOK, Keys
  <2>3. j \in ActiveJobType /\ JobOK(j)
    BY <2>2 DEF ActiveJobType, EntryType, JobOK
  <2>4. up
    BY <1>8 DEF NegativeHit, Idle
  <2>5. TypeOK'
    BY <1>0, <2>1, <2>3, <2>4 DEF TypeOK
  <2>6. ASSUME NEW v \in Workers PROVE JobOK(job[v])'
    <3>1. job'[v] = IF v = w THEN j ELSE job[v]
      BY <1>0, <2>1 DEF TypeOK
    <3>2. JobOK(job[v])
      BY DEF IInv, JobInv
    <3>3. QED
      BY <2>1, <2>3, <3>1, <3>2, Zenon DEF JobOK
  <2>7. CacheInv' /\ FileInv'
    BY <2>1 DEF IInv, CacheInv, FileInv, EntryOK
  <2>8. QED
    BY <2>5, <2>6, <2>7 DEF IInv, JobInv
<1>9. ASSUME NEW k \in Keys, Hit(k) PROVE IInv'
  BY <1>9, Zenon DEF Hit, IInv, TypeOK, CacheInv, FileInv, JobInv, JobOK, EntryOK
<1>10. ASSUME NEW q \in Questions, FastHit(q) PROVE IInv'
  BY <1>10, Zenon DEF FastHit, IInv, TypeOK, CacheInv, FileInv, JobInv, JobOK, EntryOK
<1>11. ASSUME NEW q \in Questions, DeleteCollected(q) PROVE IInv'
  BY <1>11, Zenon DEF DeleteCollected, IInv, TypeOK, CacheInv, FileInv, JobInv, JobOK, EntryOK
<1>12. CASE DeleteExpired
  <2>1. \A k \in Keys : cache'[k] \in {cache[k], None}
    BY <1>12 DEF DeleteExpired
  <2>2. cache' \in [Keys -> EntryType \cup {None}]
    BY <1>0, <1>12 DEF DeleteExpired, TypeOK
  <2>3. up /\ UNCHANGED <<now, up, xdp, bpf, toDelete, file, job, stops, replies>>
    BY <1>12 DEF DeleteExpired
  <2>4. QED
    BY <2>1, <2>2, <2>3, Zenon DEF IInv, TypeOK, CacheInv, FileInv, JobInv, JobOK, EntryOK
<1>13. CASE CollectExpired
  BY <1>13, Zenon DEF CollectExpired, IInv, TypeOK, CacheInv, FileInv, JobInv, JobOK, EntryOK
<1>14. CASE Stop
  <2> DEFINE snap == SaveSnapshot
  <2>1. /\ now' = now /\ up' = FALSE /\ xdp' = FALSE /\ toDelete' = {}
        /\ cache' = [k \in Keys |-> None] /\ bpf' = [q \in Questions |-> None]
        /\ job' = [w \in Workers |-> IdleJob]
        /\ stops' = stops + 1 /\ replies' = replies /\ file' \in {snap, file, None}
    BY <1>14 DEF Stop
  <2>2. /\ snap.saved = Secs(now)
        /\ snap.entries = [k \in Keys |-> IF Live(k) THEN cache[k] ELSE None]
        /\ snap = [saved |-> snap.saved, entries |-> snap.entries]
    BY DEF SaveSnapshot
  <2>3. snap.entries \in [Keys -> EntryType \cup {None}]
    BY <1>0, <2>2 DEF TypeOK
  <2>4. snap \in [saved : Nat, entries : [Keys -> EntryType \cup {None}]]
    BY <1>0, <2>2, <2>3
  <2>5. ASSUME NEW k \in Keys, snap.entries[k] # None
        PROVE  EntryOK(k, snap.entries[k]) /\ Hz * snap.saved <= snap.entries[k].until
    <3>1. snap.entries[k] = cache[k] /\ cache[k] # None /\ now <= cache[k].until
      BY <2>2, <2>5 DEF Live
    <3>2. cache[k] \in EntryType
      BY <1>0, <3>1 DEF TypeOK
    <3>3. Hz * Secs(now) <= cache[k].until
      <4>1. Hz * Secs(now) \in Nat /\ cache[k].until \in Nat
        BY <1>0, <3>2, CacheAssumption DEF EntryType, CacheAssumption
      <4>2. QED
        BY <1>0, <3>1, <4>1
    <3>4. QED
      BY <2>2, <3>1, <3>3 DEF IInv, CacheInv
  <2>6. TypeOK'
    <3>1. file' = None \/ file' \in [saved : Nat, entries : [Keys -> EntryType \cup {None}]]
      BY <1>0, <2>1, <2>4 DEF TypeOK
    <3>2. now' \in Nat /\ stops' \in Nat /\ replies' \in Nat
      BY <1>0, <2>1 DEF TypeOK
    <3>3. QED
      BY <2>1, <3>1, <3>2, Zenon DEF TypeOK
  <2>7. FileInv'
    <3>1. CASE file' = snap
      BY <1>0, <2>1, <2>2, <2>5, <3>1 DEF FileInv, EntryOK
    <3>2. CASE file' = file
      BY <2>1, <3>2, Zenon DEF IInv, FileInv, EntryOK
    <3>3. CASE file' = None
      BY <3>3 DEF FileInv
    <3>4. QED
      BY <2>1, <3>1, <3>2, <3>3
  <2>8. CacheInv' /\ JobInv'
    BY <2>1, Zenon DEF CacheInv, JobInv, JobOK, IdleJob
  <2>9. QED
    BY <2>6, <2>7, <2>8 DEF IInv
<1>15. CASE Start
  <2>1. /\ up' = TRUE /\ xdp' \in BOOLEAN /\ cache' = LoadSnapshot
        /\ UNCHANGED <<now, bpf, toDelete, file, job, stops, replies>>
    BY <1>15 DEF Start
  <2>2. \A k \in Keys : LoadSnapshot[k] # None => LoadSnapshot[k] \in EntryType
    BY LoadedEntry
  <2>3. LoadSnapshot \in [Keys -> EntryType \cup {None}]
    BY <2>2 DEF LoadSnapshot
  <2>4. TypeOK'
    BY <1>0, <2>1, <2>3 DEF TypeOK
  <2>5. CacheInv'
    BY <2>1, LoadedEntry DEF CacheInv, EntryOK
  <2>6. FileInv' /\ JobInv'
    BY <2>1, Zenon DEF IInv, FileInv, JobInv, JobOK, EntryOK
  <2>7. QED
    BY <2>4, <2>5, <2>6 DEF IInv
<1>16. CASE Tick
  <2>1. /\ now' = now + 1 /\ \A w \in Workers : job[w].pc = "idle"
        /\ UNCHANGED <<up, xdp, cache, bpf, toDelete, file, job, stops, replies>>
    BY <1>16 DEF Tick
  <2>2. Secs(now) <= Secs(now + 1)
    <3>1. /\ Secs(now + 1) \in Nat /\ now + 1 < Hz * Secs(now + 1) + Hz
      BY <1>0, SecsBounds
    <3>2. SUFFICES ASSUME Secs(now + 1) + 1 <= Secs(now) PROVE FALSE
      BY <1>0, <3>1
    <3>3. Hz * Secs(now + 1) + Hz <= Hz * Secs(now)
      BY <1>0, <3>1, <3>2, Monotone, Distributes, CacheAssumption DEF CacheAssumption
    <3>4. QED
      <4> DEFINE a == Hz * Secs(now + 1)
                 b == Hz * Secs(now)
      <4>1. a \in Nat /\ b \in Nat /\ Hz \in Nat /\ now \in Nat
        BY <1>0, <3>1, CacheAssumption DEF CacheAssumption
      <4>2. a + Hz <= b /\ b <= now /\ now + 1 < a + Hz
        BY <1>0, <3>1, <3>3
      <4> HIDE DEF a, b
      <4>3. QED
        BY <4>1, <4>2
  <2>3. TypeOK'
    BY <1>0, <2>1 DEF TypeOK
  <2>4. CacheInv' /\ JobInv'
    BY <2>1, Zenon DEF IInv, CacheInv, JobInv, JobOK, EntryOK
  <2>5. FileInv'
    <3>1. file # None => file.saved \in Nat
      BY <1>0 DEF TypeOK
    <3>2. Secs(now)' = Secs(now + 1) /\ Secs(now + 1) \in Nat
      BY <1>0, <2>1, SecsBounds
    <3>3. QED
      BY <1>0, <2>1, <2>2, <3>1, <3>2 DEF IInv, FileInv, EntryOK
  <2>6. QED
    BY <2>3, <2>4, <2>5 DEF IInv
<1>17. CASE UNCHANGED vars
  BY <1>17, Zenon DEF vars, IInv, TypeOK, CacheInv, FileInv, JobInv, JobOK, EntryOK
<1>18. QED
  BY <1>1, <1>3, <1>4, <1>5, <1>6, <1>7, <1>8, <1>9, <1>10, <1>11, <1>12, <1>13,
     <1>14, <1>15, <1>16, <1>17 DEF Next

(* The invariant holds initially. *)
LEMMA InvInit == Init => IInv
<1> SUFFICES ASSUME Init PROVE IInv
  OBVIOUS
<1>1. TypeOK
  BY DEF Init, TypeOK
<1>2. CacheInv /\ FileInv
  BY DEF Init, CacheInv, FileInv
<1>3. JobInv
  BY Zenon DEF Init, JobInv, JobOK, IdleJob
<1>4. QED
  BY <1>1, <1>2, <1>3 DEF IInv

(* TypeOK: a stopped process holds no entry, map value or store in progress. *)
THEOREM CacheTypeCorrect == Spec => []TypeOK
<1>1. IInv => TypeOK
  BY DEF IInv
<1>2. QED
  BY InvInit, InvStep, <1>1, PTL DEF Spec

(* AgeBound: an entry that is not negative outlives the reply it came from by at
   most one longest lifetime per restart and one, whatever the restarts and the
   interleaving of stores (setCacheCopy, SaveSnapshot, LoadSnapshot). *)
THEOREM AgeBounded == Spec => []AgeBound
<1>1. IInv => AgeBound
  BY DEF IInv, CacheInv, EntryOK, AgeBound, Span
<1>2. QED
  BY InvInit, InvStep, <1>1, PTL DEF Spec

-----------------------------------------------------------------------------
(* The refinement. *)

(* What a key's leases are. *)
LEMMA LeaseIs ==
    ASSUME NEW k \in Keys, NEW l
    PROVE  l \in Lease(k) <=>
              \/ cache[k] # None /\ l = [msg |-> cache[k].msg, until |-> cache[k].until]
              \/ /\ k \in Questions /\ bpf[k] # None
                 /\ l = [msg |-> bpf[k].msg, until |-> (bpf[k].expire + 1) * Hz - 1]
BY DEF Lease

(* A step that changes the caches gives only leases that may be granted, if what
   is new in the Go cache and in the BPF map may be. *)
LEMMA ManageStep ==
    ASSUME now' = now, reply' = <<>>,
           \A k \in Keys : cache'[k] # None /\ cache'[k] # cache[k] =>
              Leases!Granted(k, [msg |-> cache'[k].msg, until |-> cache'[k].until]),
           \A q \in Questions : bpf'[q] # None /\ bpf'[q] # bpf[q] =>
              Leases!Granted(q, [msg |-> bpf'[q].msg, until |-> (bpf'[q].expire + 1) * Hz - 1])
    PROVE  Leases!Next
<1>1. ASSUME NEW k \in Keys, NEW l \in Lease(k)' \ Lease(k)
      PROVE  Leases!Granted(k, l)
  <2>1. \/ cache'[k] # None /\ l = [msg |-> cache'[k].msg, until |-> cache'[k].until]
        \/ /\ k \in Questions /\ bpf'[k] # None
           /\ l = [msg |-> bpf'[k].msg, until |-> (bpf'[k].expire + 1) * Hz - 1]
    BY <1>1 DEF Lease
  <2>2. ~ \/ cache[k] # None /\ l = [msg |-> cache[k].msg, until |-> cache[k].until]
          \/ /\ k \in Questions /\ bpf[k] # None
             /\ l = [msg |-> bpf[k].msg, until |-> (bpf[k].expire + 1) * Hz - 1]
    BY <1>1, LeaseIs
  <2>3. QED
    BY <2>1, <2>2
<1>2. [k \in Keys |-> Lease(k)]' = [k \in Keys |-> Lease(k)']
  OBVIOUS
<1>3. Leases!Manage
  BY <1>1, <1>2 DEF Leases!Manage
<1>4. QED
  BY <1>3 DEF Leases!Next

(* Nothing changes but the reply, which is a message some live copy holds. *)
LEMMA AnswerStep ==
    ASSUME NEW k \in Keys, NEW l \in Lease(k), now <= l.until,
           reply' = [key |-> k, msg |-> l.msg],
           UNCHANGED <<now, cache, bpf>>
    PROVE  Leases!Next
<1>1. [i \in Keys |-> Lease(i)]' = [i \in Keys |-> Lease(i)]
  BY DEF Lease
<1>2. Leases!Answer
  BY <1>1 DEF Leases!Answer
<1>3. QED
  BY <1>2 DEF Leases!Next

(* A step that stores grants a lease: on the key in the Go cache... *)
LEMMA StoreGrants ==
    ASSUME IInv, NEW w \in Workers, NEW k \in Keys, NEW ttl, NEW next,
           job[w].pc # "idle",
           ttl \in {job[w].msg.answer, job[w].msg.ns, job[w].msg.soa}, ttl # NoRR,
           Belongs(k, job[w].msg), setCache(w, k, ttl, next)
    PROVE  Leases!Next
<1> DEFINE m == job[w].msg
           until == now + Lifetime(ttl) * Hz
<1>1. m \in Messages
  BY ActiveJob, Zenon DEF IInv, ActiveJobType
<1>2. until < now + (Longest(m) + 1) * Hz
  BY <1>1, StoredLife, FreshEntry DEF IInv, TypeOK
<1>3. Leases!Granted(k, [msg |-> m, until |-> until])
  BY <1>1, <1>2 DEF Leases!Granted
<1>4. \A i \in Keys : cache'[i] = IF i = k
                       THEN [msg |-> m, until |-> until, born |-> job[w].born, lives |-> job[w].lives]
                       ELSE cache[i]
  BY DEF setCache, IInv, TypeOK
<1>5. now' = now /\ bpf' = bpf /\ reply' = <<>>
  BY DEF setCache
<1>6. \A i \in Keys : cache'[i] # None /\ cache'[i] # cache[i] =>
         Leases!Granted(i, [msg |-> cache'[i].msg, until |-> cache'[i].until])
  <2>1. cache'[k].msg = m /\ cache'[k].until = until
    <3>1. cache'[k] = [msg |-> m, until |-> until, born |-> job[w].born, lives |-> job[w].lives]
      BY <1>4, Zenon
    <3> HIDE DEF m, until
    <3>2. QED
      BY <3>1
  <2>2. Leases!Granted(k, [msg |-> cache'[k].msg, until |-> cache'[k].until])
    BY <1>3, <2>1
  <2>3. \A i \in Keys : i # k => cache'[i] = cache[i]
    BY <1>4
  <2>4. QED
    BY <2>2, <2>3, Zenon
<1>7. QED
  BY <1>5, <1>6, ManageStep

(* ... and on the question in the BPF map, where it lasts to the end of a second. *)
LEMMA SyncGrants ==
    ASSUME IInv, NEW w \in Workers, NEW ttl, NEW next, job[w].pc # "idle",
           ttl \in {job[w].msg.answer, job[w].msg.ns, job[w].msg.soa}, ttl # NoRR,
           job[w].msg.answer # NoRR, syncToBPFMap(w, ttl, next)
    PROVE  Leases!Next
<1> DEFINE m == job[w].msg
           until == (Secs(now) + ttl + 1) * Hz - 1
<1>1. m \in Messages /\ now \in Nat /\ m.question \in Questions
  BY ActiveJob, MessageFields, Zenon DEF IInv, TypeOK, ActiveJobType
<1>2. until < now + (Longest(m) + 1) * Hz
  <2>1. /\ Secs(now) \in Nat /\ Hz * Secs(now) <= now /\ Hz \in Nat
        /\ ttl \in Nat /\ ttl <= Longest(m) /\ Longest(m) \in Nat
    BY <1>1, SecsBounds, StoredLife, LongestBound, CacheAssumption DEF CacheAssumption
  <2>2. ttl * Hz <= Longest(m) * Hz
    BY <2>1, Monotone
  <2>3. /\ (Secs(now) + ttl + 1) * Hz = Hz * Secs(now) + ttl * Hz + Hz
        /\ (Longest(m) + 1) * Hz = Longest(m) * Hz + Hz
    BY <2>1, SMT
  <2> DEFINE a == Hz * Secs(now)
             b == ttl * Hz
             c == Longest(m) * Hz
  <2>4. a \in Nat /\ b \in Nat /\ c \in Nat /\ until = a + b + Hz - 1
        /\ (Longest(m) + 1) * Hz = c + Hz /\ a <= now /\ b <= c
    BY <2>1, <2>2, <2>3
  <2> HIDE DEF a, b, c, until
  <2>5. QED
    BY <1>1, <2>1, <2>4
<1>3. Leases!Granted(m.question, [msg |-> m, until |-> until])
  BY <1>1, <1>2 DEF Leases!Granted, Belongs
<1>4. now' = now /\ cache' = cache /\ reply' = <<>>
  BY DEF syncToBPFMap
<1>5. \A q \in Questions : bpf'[q] = bpf[q] \/ (q = m.question /\ bpf'[q] = BpfValue(w, ttl))
  BY DEF syncToBPFMap, IInv, TypeOK
<1>6. /\ BpfValue(w, ttl).msg = m
      /\ (BpfValue(w, ttl).expire + 1) * Hz - 1 = until
  BY DEF BpfValue
<1>7. \A q \in Questions : bpf'[q] # None /\ bpf'[q] # bpf[q] =>
         Leases!Granted(q, [msg |-> bpf'[q].msg, until |-> (bpf'[q].expire + 1) * Hz - 1])
  BY <1>3, <1>5, <1>6
<1>8. QED
  BY <1>4, <1>7, ManageStep

(* Every step of the caches is a step of the lease cache, or none. *)
LEMMA RefinementStep == IInv /\ [Next]_vars => [Leases!Next]_(Leases!vars)
<1> SUFFICES ASSUME IInv, [Next]_vars PROVE [Leases!Next]_(Leases!vars)
  OBVIOUS
<1>0. TypeOK /\ now \in Nat
  BY DEF IInv, TypeOK
<1>1. ASSUME NEW w \in Workers, job[w].pc # "idle"
      PROVE  /\ job[w].msg \in Messages /\ JobOK(job[w])
             /\ job[w].msg.question \in Keys /\ job[w].msg.zone \in Keys
  <2>1. job[w].msg \in Messages
    BY <1>0, <1>1, ActiveJob, Zenon DEF ActiveJobType
  <2>2. QED
    BY <1>1, <2>1, MessageFields DEF IInv, JobInv, Keys
<1>2. ASSUME NEW w \in Workers, NEW m \in Messages, Receive(w, m) PROVE Leases!Next
  BY <1>2, ManageStep DEF Receive
<1>3. ASSUME NEW w \in Workers, StoreAnswer(w) PROVE Leases!Next
  <2>1. job[w].pc = "answer" /\ setCache(w, job[w].msg.question, job[w].msg.answer, "sync answer")
    BY <1>3, Zenon DEF StoreAnswer
  <2>2. job[w].msg.answer # NoRR /\ Belongs(job[w].msg.question, job[w].msg)
    BY <1>1, <2>1, Zenon DEF JobOK, Belongs
  <2>3. QED
    BY <1>1, <2>1, <2>2, StoreGrants, Zenon
<1>4. ASSUME NEW w \in Workers, StoreZone(w) PROVE Leases!Next
  <2> DEFINE next == IF job[w].msg.answer # NoRR THEN "sync zone" ELSE "idle"
  <2>1. job[w].pc = "zone" /\ setCache(w, job[w].msg.zone, job[w].msg.ns, next)
    BY <1>4, Zenon DEF StoreZone
  <2>2. job[w].msg.ns # NoRR /\ Belongs(job[w].msg.zone, job[w].msg)
    BY <1>1, <2>1, Zenon DEF JobOK, Belongs
  <2>3. QED
    BY <1>1, <2>1, <2>2, StoreGrants, Zenon
<1>5. ASSUME NEW w \in Workers, StoreNegative(w) PROVE Leases!Next
  <2>1. job[w].pc = "negative" /\ setCache(w, job[w].msg.question, job[w].msg.soa, "idle")
    BY <1>5 DEF StoreNegative
  <2>2. job[w].msg.soa # NoRR /\ Belongs(job[w].msg.question, job[w].msg)
    BY <1>1, <2>1, Zenon DEF JobOK, Belongs
  <2>3. QED
    BY <1>1, <2>1, <2>2, StoreGrants
<1>6. ASSUME NEW w \in Workers, SyncAnswer(w) PROVE Leases!Next
  <2> DEFINE next == IF job[w].msg.ns # NoRR THEN "zone" ELSE "idle"
  <2>1. job[w].pc = "sync answer" /\ syncToBPFMap(w, job[w].msg.answer, next)
    BY <1>6, Zenon DEF SyncAnswer
  <2>2. job[w].msg.answer # NoRR
    BY <1>1, <2>1, Zenon DEF JobOK
  <2>3. QED
    BY <2>1, <2>2, SyncGrants, Zenon
<1>7. ASSUME NEW w \in Workers, SyncZone(w) PROVE Leases!Next
  <2>1. job[w].pc = "sync zone" /\ syncToBPFMap(w, job[w].msg.ns, "idle")
    BY <1>7, Zenon DEF SyncZone
  <2>2. job[w].msg.answer # NoRR /\ job[w].msg.ns # NoRR
    BY <1>1, <2>1, Zenon DEF JobOK
  <2>3. QED
    BY <2>1, <2>2, SyncGrants, Zenon
<1>8. ASSUME NEW k \in Keys, Live(k), reply' = [key |-> k, msg |-> cache[k].msg],
             UNCHANGED <<now, cache, bpf>>
      PROVE  Leases!Next
  <2> DEFINE l == [msg |-> cache[k].msg, until |-> cache[k].until]
  <2>1. l \in Lease(k) /\ now <= l.until
    BY <1>8, LeaseIs DEF Live
  <2>2. reply' = [key |-> k, msg |-> l.msg]
    BY <1>8
  <2>3. QED
    BY <1>8, <2>1, <2>2, AnswerStep
<1>9. ASSUME NEW w \in Workers, NEW q \in Questions, NegativeHit(w, q) PROVE Leases!Next
  BY <1>8, <1>9 DEF NegativeHit, Keys
<1>10. ASSUME NEW k \in Keys, Hit(k) PROVE Leases!Next
  BY <1>8, <1>10 DEF Hit
<1>11. ASSUME NEW q \in Questions, FastHit(q) PROVE Leases!Next
  <2> DEFINE l == [msg |-> bpf[q].msg, until |-> (bpf[q].expire + 1) * Hz - 1]
  <2>1. bpf[q] # None /\ Secs(now) <= bpf[q].expire /\ bpf[q].expire \in Nat
    BY <1>0, <1>11 DEF FastHit, FastLive, TypeOK, ValueType
  <2>2. q \in Keys /\ l \in Lease(q)
    BY <2>1, LeaseIs DEF Keys
  <2>3. now <= (bpf[q].expire + 1) * Hz - 1
    <3>1. Secs(now) \in Nat /\ now < Hz * Secs(now) + Hz /\ Hz \in Nat
      BY <1>0, SecsBounds, CacheAssumption DEF CacheAssumption
    <3>2. Hz * Secs(now) + Hz <= (bpf[q].expire + 1) * Hz
      BY <2>1, <3>1, Monotone, Distributes
    <3> DEFINE a == Hz * Secs(now)
               b == (bpf[q].expire + 1) * Hz
    <3>3. a \in Nat /\ b \in Nat /\ a + Hz <= b /\ now < a + Hz
      BY <2>1, <3>1, <3>2
    <3> HIDE DEF a, b
    <3>4. now <= b - 1
      BY <1>0, <3>1, <3>3
    <3>5. QED
      BY <3>4 DEF b
  <2>4. reply' = [key |-> q, msg |-> l.msg] /\ UNCHANGED <<now, cache, bpf>>
    BY <1>11 DEF FastHit
  <2>5. QED
    BY <2>2, <2>3, <2>4, AnswerStep
<1>12. ASSUME NEW q \in Questions, DeleteCollected(q) PROVE Leases!Next
  <2>1. /\ now' = now /\ reply' = <<>> /\ cache' = cache
        /\ \A p \in Questions : bpf'[p] \in {bpf[p], None}
    BY <1>0, <1>12 DEF DeleteCollected, TypeOK
  <2>2. QED
    BY <2>1, ManageStep
<1>13. CASE DeleteExpired
  <2>1. /\ now' = now /\ reply' = <<>> /\ bpf' = bpf
        /\ \A k \in Keys : cache'[k] \in {cache[k], None}
    BY <1>13 DEF DeleteExpired
  <2>2. QED
    BY <2>1, ManageStep
<1>14. CASE CollectExpired
  BY <1>14, ManageStep DEF CollectExpired
<1>15. CASE Stop
  <2>1. /\ now' = now /\ reply' = <<>>
        /\ \A k \in Keys : cache'[k] = None
        /\ \A q \in Questions : bpf'[q] = None
    BY <1>15 DEF Stop
  <2>2. QED
    BY <2>1, ManageStep
<1>16. CASE Start
  <2>1. now' = now /\ reply' = <<>> /\ bpf' = bpf /\ cache' = LoadSnapshot
    BY <1>16 DEF Start
  <2>2. ASSUME NEW k \in Keys, LoadSnapshot[k] # None
        PROVE  Leases!Granted(k, [msg |-> LoadSnapshot[k].msg, until |-> LoadSnapshot[k].until])
    BY <2>2, LoadedEntry DEF Leases!Granted, EntryOK, EntryType
  <2>3. QED
    BY <2>1, <2>2, ManageStep
<1>17. CASE Tick
  <2>1. now' > now /\ reply' = <<>> /\ cache' = cache /\ bpf' = bpf
    BY <1>0, <1>17 DEF Tick
  <2>2. [k \in Keys |-> Lease(k)]' = [k \in Keys |-> Lease(k)]
    BY <2>1 DEF Lease
  <2>3. QED
    BY <2>1, <2>2 DEF Leases!Wait, Leases!Next
<1>18. CASE UNCHANGED vars
  BY <1>18 DEF vars, Leases!vars, Lease
<1>19. QED
  BY SMTT(60), <1>2, <1>3, <1>4, <1>5, <1>6, <1>7, <1>9, <1>10, <1>11, <1>12, <1>13, <1>14,
     <1>15, <1>16, <1>17, <1>18 DEF Next

(* ImplementsLeases: the Go cache, the BPF map and the snapshot together are a
   lease cache, for every set of messages and every clock resolution. *)
THEOREM CacheImplementsLeases == Spec => ImplementsLeases
<1>1. Init => Leases!Init
  BY DEF Init, Leases!Init, Lease, Keys
<1>2. QED
  BY <1>1, InvInit, InvStep, RefinementStep, PTL DEF Spec, ImplementsLeases, Leases!Spec
=============================================================================

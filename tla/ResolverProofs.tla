---------------------------- MODULE ResolverProofs ----------------------------
(* The steps whose preservation of the invariant of ResolverSteps needs       *)
(* induction, on the length of an answer or of a chain of aliases, and what   *)
(* the invariant means.                                                       *)
EXTENDS ResolverSteps

\* What is needed of numbers and finite sets.  The lemmas take it as an
\* assumption; CountingHolds, which rests on the library, discharges it.
Counting ==
    /\ \A T \in SUBSET Nat : T # {} => \E m \in T : \A k \in T : m <= k
    /\ Cardinality(Records) \in Nat
    /\ \A n \in Nat : \A f \in [1 .. n -> Records] :
          (\A i, j \in 1 .. n : f[i] = f[j] => i = j) => n <= Cardinality(Records)

-----------------------------------------------------------------------------
(* Induction *)

\* A set of natural numbers has a least one.
LEMMA LeastNatural ==
    ASSUME Counting, NEW T \in SUBSET Nat, T # {}
    PROVE  \E m \in T : \A k \in T : m <= k
BY Zenon DEF Counting

\* Induction, for a set: the provers cannot instantiate an operator.
LEMMA NatSetInduction ==
    ASSUME Counting, NEW S, 0 \in S, \A n \in Nat : n \in S => n + 1 \in S
    PROVE  Nat \subseteq S
<1> SUFFICES ASSUME NEW z \in Nat, z \notin S PROVE FALSE
  BY Zenon
<1> DEFINE T == {n \in Nat : n \notin S}
<1>1. T \in SUBSET Nat /\ T # {}
  BY Zenon
<1>2. PICK m \in T : \A k \in T : m <= k
  <2> HIDE DEF T
  <2> QED BY <1>1, LeastNatural, Zenon
<1>3. m # 0 /\ m \in Nat /\ m \notin S
  BY Zenon
<1>4. m - 1 \in Nat /\ ~(m <= m - 1) /\ (m - 1) + 1 = m
  BY <1>3
<1>5. m - 1 \in S
  BY <1>2, <1>4, Zenon
<1> QED BY <1>3, <1>4, <1>5, Zenon

-----------------------------------------------------------------------------
(* The records of a sequence that are in a set *)

\* The function Among is defined by exists: one of every length does.
LEMMA AmongSteps ==
    ASSUME Counting, NEW rrs, NEW S, Len(rrs) \in Nat
    PROVE  \E g : /\ g = [i \in 0 .. Len(rrs) |->
                           IF i = 0 THEN <<>>
                           ELSE IF rrs[i] \in S THEN Append(g[i - 1], rrs[i]) ELSE g[i - 1]]
                  /\ Among(rrs, S) = g[Len(rrs)]
<1> DEFINE T == {m \in Nat : \E g : g = [i \in 0 .. m |->
                               IF i = 0 THEN <<>>
                               ELSE IF rrs[i] \in S THEN Append(g[i - 1], rrs[i]) ELSE g[i - 1]]}
<1>1. 0 \in T
  <2>1. [i \in 0 .. 0 |-> <<>>] = [i \in 0 .. 0 |->
            IF i = 0 THEN <<>>
            ELSE IF rrs[i] \in S THEN Append([k \in 0 .. 0 |-> <<>>][i - 1], rrs[i])
                 ELSE [k \in 0 .. 0 |-> <<>>][i - 1]]
    OBVIOUS
  <2> QED BY <2>1, Zenon
<1>2. ASSUME NEW m \in Nat, m \in T PROVE m + 1 \in T
  <2>1. PICK g : g = [i \in 0 .. m |->
                        IF i = 0 THEN <<>>
                        ELSE IF rrs[i] \in S THEN Append(g[i - 1], rrs[i]) ELSE g[i - 1]]
    BY <1>2, Zenon
  <2> DEFINE last == IF rrs[m + 1] \in S THEN Append(g[m], rrs[m + 1]) ELSE g[m]
             h == [i \in 0 .. m + 1 |-> IF i = m + 1 THEN last ELSE g[i]]
  <2>2. ASSUME NEW i \in 0 .. m + 1
        PROVE  h[i] = IF i = 0 THEN <<>>
                      ELSE IF rrs[i] \in S THEN Append(h[i - 1], rrs[i]) ELSE h[i - 1]
    <3>1. CASE i = m + 1
      <4>1. h[i] = last
        BY <3>1, Zenon
      <4>2. h[i - 1] = g[m]
        BY <3>1
      <4> HIDE DEF h
      <4> QED BY <4>1, <4>2, <3>1
    <3>2. CASE i # m + 1
      <4>1. i \in 0 .. m
        BY <3>2
      <4>2. h[i] = g[i]
        BY <3>2, <4>1, Zenon
      <4>3. g[i] = IF i = 0 THEN <<>>
                   ELSE IF rrs[i] \in S THEN Append(g[i - 1], rrs[i]) ELSE g[i - 1]
        BY <2>1, <4>1, Zenon
      <4>4. i # 0 => h[i - 1] = g[i - 1]
        BY <4>1
      <4> HIDE DEF h
      <4> QED BY <4>2, <4>3, <4>4, Zenon
    <3> QED BY <3>1, <3>2, Zenon
  <2>3. h = [i \in 0 .. m + 1 |-> IF i = 0 THEN <<>>
                      ELSE IF rrs[i] \in S THEN Append(h[i - 1], rrs[i]) ELSE h[i - 1]]
    BY <2>2, Zenon
  <2> HIDE DEF h
  <2>4. m + 1 \in Nat
    OBVIOUS
  <2> QED BY <2>3, <2>4, Zenon
<1>3. Len(rrs) \in T
  <2> HIDE DEF T
  <2> QED BY <1>1, <1>2, NatSetInduction, Zenon
<1>4. PICK g : g = [i \in 0 .. Len(rrs) |->
                      IF i = 0 THEN <<>>
                      ELSE IF rrs[i] \in S THEN Append(g[i - 1], rrs[i]) ELSE g[i - 1]]
  BY <1>3, Zenon
<1> QED BY <1>4, Zenon DEF Among

\* Among returns records of the sequence that are in the set, some if there
\* are some, and the first one first.
LEMMA AmongProperties ==
    ASSUME Counting, NEW X, NEW rrs \in Seq(X), NEW S
    PROVE  /\ Among(rrs, S) \in Seq(X)
           /\ \A j \in DOMAIN Among(rrs, S) :
                 Among(rrs, S)[j] \in S /\ \E k \in DOMAIN rrs : Among(rrs, S)[j] = rrs[k]
           /\ (\E k \in DOMAIN rrs : rrs[k] \in S) => Among(rrs, S) # <<>>
           /\ rrs # <<>> /\ rrs[1] \in S => Among(rrs, S) # <<>> /\ Head(Among(rrs, S)) = rrs[1]
<1>1. Len(rrs) \in Nat /\ DOMAIN rrs = 1 .. Len(rrs) /\ \A k \in 1 .. Len(rrs) : rrs[k] \in X
  BY LenProperties, ElementOfSeq, Zenon
<1>2. PICK g : /\ g = [i \in 0 .. Len(rrs) |->
                         IF i = 0 THEN <<>>
                         ELSE IF rrs[i] \in S THEN Append(g[i - 1], rrs[i]) ELSE g[i - 1]]
               /\ Among(rrs, S) = g[Len(rrs)]
  BY <1>1, AmongSteps, Zenon
<1> DEFINE Good(i) == /\ g[i] \in Seq(X)
                      /\ \A j \in 1 .. Len(g[i]) : g[i][j] \in S /\ \E k \in 1 .. i : g[i][j] = rrs[k]
                      /\ (\E k \in 1 .. i : rrs[k] \in S) => Len(g[i]) > 0
                      /\ i > 0 /\ rrs[1] \in S => Len(g[i]) > 0 /\ g[i][1] = rrs[1]
           T == {i \in Nat : i <= Len(rrs) => Good(i)}
<1>3. 0 \in T
  <2>1. g[0] = <<>>
    BY <1>1, <1>2
  <2>2. g[0] \in Seq(X) /\ Len(g[0]) = 0
    BY <2>1
  <2>3. 1 .. 0 = {}
    OBVIOUS
  <2>4. Good(0)
    BY <2>2, <2>3
  <2> QED BY <2>4, Zenon
<1>4. ASSUME NEW i \in Nat, i \in T PROVE i + 1 \in T
  <2> SUFFICES ASSUME i + 1 <= Len(rrs) PROVE Good(i + 1)
    OBVIOUS
  <2>1. Good(i) /\ i + 1 \in 1 .. Len(rrs)
    BY <1>4, <1>1
  <2>2. g[i + 1] = IF rrs[i + 1] \in S THEN Append(g[i], rrs[i + 1]) ELSE g[i]
    <3>1. i + 1 \in 0 .. Len(rrs) /\ i + 1 # 0 /\ (i + 1) - 1 = i
      BY <1>1, <2>1
    <3>2. g[i + 1] = IF i + 1 = 0 THEN <<>>
                     ELSE IF rrs[i + 1] \in S THEN Append(g[(i + 1) - 1], rrs[i + 1])
                          ELSE g[(i + 1) - 1]
      BY <1>2, <3>1, Zenon
    <3> QED BY <3>1, <3>2, Zenon
  <2>3. rrs[i + 1] \in X
    BY <1>1, <2>1, Zenon
  <2>4. CASE rrs[i + 1] \notin S
    <3>1. g[i + 1] = g[i]
      BY <2>2, <2>4, Zenon
    <3>2. \A k \in 1 .. i + 1 : rrs[k] \in S => k \in 1 .. i
      BY <2>4
    <3>3. \A k \in 1 .. i : k \in 1 .. i + 1
      OBVIOUS
    <3>4. i + 1 > 0 /\ rrs[1] \in S => i > 0
      BY <2>4
    <3> QED BY <2>1, <3>1, <3>2, <3>3, <3>4, Zenon
  <2>5. CASE rrs[i + 1] \in S
    <3>1. g[i + 1] = Append(g[i], rrs[i + 1])
      BY <2>2, <2>5, Zenon
    <3>2. /\ g[i + 1] \in Seq(X) /\ Len(g[i + 1]) = Len(g[i]) + 1 /\ Len(g[i]) \in Nat
          /\ g[i + 1][Len(g[i]) + 1] = rrs[i + 1]
          /\ \A j \in 1 .. Len(g[i]) : g[i + 1][j] = g[i][j]
      BY <2>1, <2>3, <3>1, AppendProperties, LenProperties
    <3>3. ASSUME NEW j \in 1 .. Len(g[i + 1])
          PROVE  g[i + 1][j] \in S /\ \E k \in 1 .. i + 1 : g[i + 1][j] = rrs[k]
      <4>1. CASE j = Len(g[i]) + 1
        BY <3>2, <4>1, <2>5
      <4>2. CASE j \in 1 .. Len(g[i])
        <5>1. g[i + 1][j] = g[i][j] /\ g[i][j] \in S
          BY <3>2, <4>2, <2>1, Zenon
        <5>2. PICK k \in 1 .. i : g[i][j] = rrs[k]
          BY <4>2, <2>1, Zenon
        <5> QED BY <5>1, <5>2
      <4> QED BY <3>2, <4>1, <4>2
    <3>4. rrs[1] \in S => g[i + 1][1] = rrs[1]
      <4>1. CASE i = 0
        <5>1. g[i] = <<>>
          BY <1>1, <1>2, <4>1
        <5> QED BY <3>2, <4>1, <5>1
      <4>2. CASE i > 0
        BY <2>1, <3>2, <4>2
      <4> QED BY <4>1, <4>2
    <3> QED BY <3>2, <3>3, <3>4
  <2> QED BY <2>4, <2>5, Zenon
<1>5. Good(Len(rrs))
  <2>1. Len(rrs) \in T
    <3> HIDE DEF T
    <3> QED BY <1>1, <1>3, <1>4, NatSetInduction, Zenon
  <2> QED BY <1>1, <2>1
<1> QED
  <2> DEFINE a == Among(rrs, S)
  <2>1. /\ a \in Seq(X)
        /\ \A j \in 1 .. Len(a) : a[j] \in S /\ \E k \in 1 .. Len(rrs) : a[j] = rrs[k]
        /\ (\E k \in 1 .. Len(rrs) : rrs[k] \in S) => Len(a) > 0
        /\ Len(rrs) > 0 /\ rrs[1] \in S => Len(a) > 0 /\ a[1] = rrs[1]
    BY <1>2, <1>5, Zenon
  <2>2. DOMAIN a = 1 .. Len(a) /\ (Len(a) > 0 => a # <<>> /\ Head(a) = a[1])
    BY <2>1
  <2>3. rrs # <<>> => Len(rrs) > 0
    BY <1>1
  <2> HIDE DEF a
  <2> QED
    <3>1. a \in Seq(X) /\ (\A j \in DOMAIN a : a[j] \in S /\ \E k \in DOMAIN rrs : a[j] = rrs[k])
      BY <2>1, <2>2, <1>1, Zenon
    <3>2. /\ (\E k \in DOMAIN rrs : rrs[k] \in S) => a # <<>>
          /\ rrs # <<>> /\ rrs[1] \in S => a # <<>> /\ Head(a) = rrs[1]
      BY <2>1, <2>2, <2>3, <1>1, Zenon
    <3> QED BY <3>1, <3>2, Zenon DEF a

-----------------------------------------------------------------------------
(* The world *)

LEMMA NearestIn ==
    ASSUME Counting, NEW S \in SUBSET Seq(STRING), S # {}
    PROVE  Nearest(S) \in S
<1> DEFINE T == {Len(z) : z \in S}
<1>1. T \in SUBSET Nat /\ T # {}
  <2>1. \A z \in S : Len(z) \in Nat
    BY LenProperties, Zenon
  <2> QED BY <2>1, Zenon
<1>2. PICK m \in T : \A k \in T : m <= k
  <2> HIDE DEF T
  <2> QED BY <1>1, LeastNatural, Zenon
<1>3. PICK c \in S : m = Len(c)
  BY Zenon
<1>4. \A y \in S : Len(c) <= Len(y)
  BY <1>2, <1>3, Zenon
<1> QED BY <1>4, Zenon DEF Nearest

LEMMA DeepestIn ==
    ASSUME Counting, NEW name \in Seq(STRING), NEW S \in SUBSET Seq(STRING), S # {},
           \A z \in S : IsSubDomain(z, name)
    PROVE  Deepest(S) \in S
<1> DEFINE T == {Len(name) - Len(z) : z \in S}
<1>1. \A z \in S : Len(z) \in Nat /\ Len(z) <= Len(name) /\ Len(name) \in Nat
  BY LenProperties, Zenon DEF IsSubDomain
<1>2. T \in SUBSET Nat /\ T # {}
  BY <1>1
<1>3. PICK m \in T : \A k \in T : m <= k
  <2> HIDE DEF T
  <2> QED BY <1>2, LeastNatural, Zenon
<1>4. PICK c \in S : m = Len(name) - Len(c)
  BY Zenon
<1>5. ASSUME NEW y \in S PROVE Len(y) <= Len(c)
  <2>1. Len(name) - Len(y) \in T
    BY Zenon
  <2>2. Len(name) - Len(c) <= Len(name) - Len(y)
    BY <1>3, <1>4, <2>1, Zenon
  <2> QED BY <1>1, <2>2
<1> QED BY <1>5, Zenon DEF Deepest

-----------------------------------------------------------------------------
(* What servers answer *)

\* A server that does not refuse answers from one zone of the name, and what
\* it says is true.
LEMMA ReplySays ==
    ASSUME Counting, NEW n \in Hosts, NEW name \in Seq(STRING), NEW type \in Types, NEW style,
           Reply(n, name, type, style).rcode # "REFUSED"
    PROVE  \E z \in Zones : Says(z, name, type, Reply(n, name, type, style))
<1> DEFINE zones == Serving(n, name)
           z == Deepest(zones)
           cuts == Cuts(z, name)
           c == Nearest(cuts)
           msg == Reply(n, name, type, style)
<1>1. zones # {}
  BY Zenon DEF Reply
<1>2. z \in Zones /\ IsSubDomain(z, name)
  <2>1. zones \subseteq Zones /\ \A y \in zones : IsSubDomain(y, name)
    BY Zenon DEF Serving
  <2>2. z \in zones
    <3> HIDE DEF zones
    <3> QED BY <1>1, <2>1, ZoneFacts, DeepestIn, Zenon
  <2> QED BY <2>1, <2>2, Zenon
<1>3. CASE cuts = {}
  <2>1. msg = InZone(z, name, type, style)
    BY <1>1, <1>3, Zenon DEF Reply
  <2> HIDE DEF z, msg
  <2> QED BY <1>2, <2>1, InZoneSays, Zenon DEF msg
<1>4. CASE cuts # {}
  <2>1. msg = [rcode |-> "NOERROR", answer |-> <<>>, ns |-> <<NS(c)>>,
               extra |-> IF c \in Glued THEN NSNames[c] ELSE {}]
    BY <1>1, <1>4, Zenon DEF Reply
  <2>2. c \in Zones /\ IsSubDomain(c, name)
    <3>1. cuts \subseteq Zones /\ \A y \in cuts : IsSubDomain(y, name)
      BY Zenon DEF Cuts
    <3>2. c \in cuts
      <4> HIDE DEF cuts
      <4> QED BY <1>4, <3>1, ZoneFacts, NearestIn, Zenon
    <3> QED BY <3>1, <3>2, Zenon
  <2> HIDE DEF c, msg
  <2>3. <<NS(c)>> # <<SOA(c)>>
    BY Zenon DEF NS, SOA
  <2>4. Says(c, name, type, msg)
    BY <2>1, <2>2, <2>3 DEF Says, From, GoodAnswer, Linked
  <2> QED BY <2>2, <2>4, Zenon DEF msg
<1> QED BY <1>3, <1>4, Zenon

-----------------------------------------------------------------------------
(* The end of the aliases *)

\* Aliases that lead to a name that has none never come by one twice.
LEMMA PathInjective ==
    ASSUME Counting, NEW name, NEW end, NEW rrs, Path(name, end, rrs), At(end, "CNAME") = {},
           NEW i \in 1 .. Len(rrs), NEW j \in 1 .. Len(rrs), i < j
    PROVE  rrs[i] # rrs[j]
<1> DEFINE L == Len(rrs)
<1>1. /\ L \in Nat
      /\ \A k \in 1 .. L : rrs[k] \in Records /\ rrs[k].type = "CNAME"
      /\ L > 0 => rrs[1].name = name /\ rrs[L].data = end
      /\ \A k \in 1 .. L : k < L => rrs[k + 1].name = rrs[k].data
  BY PathFacts
<1> SUFFICES ASSUME rrs[i] = rrs[j] PROVE FALSE
  BY Zenon
<1> DEFINE T == {t \in Nat : j + t <= L => rrs[i + t] = rrs[j + t]}
<1> HIDE DEF L
<1>2. i \in 1 .. L /\ j \in 1 .. L /\ i \in Nat /\ j \in Nat
  BY <1>1 DEF L
<1>3. 0 \in T
  BY <1>2
<1>4. ASSUME NEW t \in Nat, t \in T PROVE t + 1 \in T
  <2> SUFFICES ASSUME j + (t + 1) <= L PROVE rrs[i + (t + 1)] = rrs[j + (t + 1)]
    OBVIOUS
  <2>1. /\ i + t \in 1 .. L /\ j + t \in 1 .. L /\ i + t < L /\ j + t < L
        /\ (i + t) + 1 = i + (t + 1) /\ (j + t) + 1 = j + (t + 1)
        /\ (i + t) + 1 \in 1 .. L /\ (j + t) + 1 \in 1 .. L /\ j + t <= L
    BY <1>1, <1>2
  <2>2. rrs[i + t] = rrs[j + t]
    BY <1>4, <2>1, Zenon
  <2>3. rrs[(i + t) + 1].name = rrs[(j + t) + 1].name
    BY <1>1, <2>1, <2>2, Zenon
  <2>4. rrs[(i + t) + 1] = rrs[(j + t) + 1]
    BY <1>1, <2>1, <2>3, OneRecord, Zenon
  <2> QED BY <2>1, <2>4, Zenon
<1>5. L - j \in T
  <2>1. L - j \in Nat
    BY <1>1, <1>2
  <2> HIDE DEF T
  <2> QED BY <1>3, <1>4, <2>1, NatSetInduction, Zenon
<1>6. /\ i + (L - j) \in 1 .. L /\ i + (L - j) < L /\ j + (L - j) = L /\ j + (L - j) <= L
      /\ (i + (L - j)) + 1 \in 1 .. L
  BY <1>1, <1>2
<1>7. rrs[i + (L - j)] = rrs[L]
  BY <1>5, <1>6, Zenon
<1>8. rrs[(i + (L - j)) + 1].name = end
  <2>1. rrs[L].data = end
    BY <1>1, <1>2
  <2> QED BY <1>1, <1>6, <1>7, <2>1, Zenon
<1>9. rrs[(i + (L - j)) + 1] \in At(end, "CNAME")
  BY <1>1, <1>6, <1>8, Zenon DEF At
<1> QED BY <1>9, Zenon

-----------------------------------------------------------------------------
(* What answers and denials mean *)

\* An answer about a server's address holds its address and nothing else.
LEMMA HostAnswer ==
    ASSUME Counting, NEW X, NEW n \in Hosts, NEW ans \in Seq(X), GoodAnswer(n, "A", ans)
    PROVE  \A i \in DOMAIN ans : ans[i].type = "A" /\ ans[i].data = n
<1>1. /\ Len(ans) \in Nat /\ DOMAIN ans = 1 .. Len(ans)
      /\ (ans = <<>>) = (Len(ans) = 0)
      /\ \A i \in 1 .. Len(ans) : ans[i] \in Records
      /\ ans # <<>> => ans[1].name = n
      /\ \A i \in 1 .. Len(ans) : i + 1 <= Len(ans) => ans[i + 1].name = ans[i].data
  BY AnswerFacts, SMTT(30)
<1>2. \A r \in Records : r.name = n => r.type = "A" /\ r.data = n
  BY WorldAssumption, OneRecord, ZenonT(60)
<1> DEFINE T == {k \in Nat : k + 1 <= Len(ans) => ans[k + 1].name = n}
<1>3. 0 \in T
  BY <1>1
<1>4. ASSUME NEW k \in Nat, k \in T PROVE k + 1 \in T
  <2> SUFFICES ASSUME (k + 1) + 1 <= Len(ans) PROVE ans[(k + 1) + 1].name = n
    OBVIOUS
  <2>1. k + 1 \in 1 .. Len(ans) /\ k + 1 <= Len(ans)
    BY <1>1
  <2>2. ans[k + 1].data = n
    BY <1>1, <1>2, <1>4, <2>1, Zenon
  <2> QED BY <1>1, <2>1, <2>2, Zenon
<1>5. Nat \subseteq T
  <2> HIDE DEF T
  <2> QED BY <1>3, <1>4, NatSetInduction, Zenon
<1>6. ASSUME NEW i \in 1 .. Len(ans) PROVE ans[i].name = n
  <2>1. i - 1 \in Nat /\ (i - 1) + 1 = i /\ i <= Len(ans)
    BY <1>1
  <2>2. i - 1 \in T
    BY <1>5, <2>1, Zenon
  <2> QED BY <2>1, <2>2, Zenon
<1> QED BY <1>1, <1>2, <1>6, Zenon

\* The aliases before the first address lead to its owner, and every record
\* after it is that address.
LEMMA AddressEnds ==
    ASSUME Counting, NEW X, NEW name, NEW ans \in Seq(X), GoodAnswer(name, "A", ans),
           \E i \in DOMAIN ans : ans[i].type = "A"
    PROVE  /\ ans # <<>> /\ ans[Len(ans)] \in Records /\ ans[Len(ans)].type = "A"
           /\ \E rrs : Path(name, ans[Len(ans)].name, rrs)
<1>1. /\ Len(ans) \in Nat /\ DOMAIN ans = 1 .. Len(ans) /\ ans \in Seq(Records)
      /\ (ans = <<>>) = (Len(ans) = 0)
      /\ \A i \in 1 .. Len(ans) : ans[i] \in Records /\ ans[i].type \in {"A", "CNAME"}
      /\ ans # <<>> => ans[1].name = name
      /\ \A i \in 1 .. Len(ans) : i + 1 <= Len(ans) => ans[i + 1].name = ans[i].data
  BY AnswerFacts
<1> DEFINE As == {i \in 1 .. Len(ans) : ans[i].type = "A"}
<1>2. As \in SUBSET Nat /\ As # {}
  BY <1>1
<1>3. PICK j \in As : \A k \in As : j <= k
  <2> HIDE DEF As
  <2> QED BY <1>2, LeastNatural, Zenon
<1>4. j \in 1 .. Len(ans) /\ ans[j].type = "A" /\ ans[j] \in Records
  BY <1>1, Zenon
<1>5. \A k \in 1 .. Len(ans) : k < j => ans[k].type = "CNAME"
  BY <1>1, <1>3
<1> DEFINE e == ans[j].name
           rrs == SubSeq(ans, 1, j - 1)
<1>6. Path(name, e, rrs)
  <2>1. j - 1 \in Nat /\ j - 1 <= Len(ans)
    BY <1>1, <1>4
  <2>2. /\ rrs \in Seq(Records) /\ Len(rrs) = j - 1 /\ DOMAIN rrs = 1 .. (j - 1)
        /\ \A i \in 1 .. (j - 1) : rrs[i] = ans[i]
    <3>1. /\ rrs \in Seq(Records) /\ Len(rrs) = j - 1
          /\ \A i \in 1 .. (j - 1) : rrs[i] = ans[i]
      <4>1. j - 1 \in 0 .. Len(ans) /\ ans \in Seq(Records)
        BY <1>1, <2>1
      <4> QED BY <4>1, PrefixProperties, Zenon
    <3> HIDE DEF rrs
    <3> QED BY <3>1, LenProperties, Zenon
  <2> HIDE DEF rrs
  <2>3. ASSUME NEW i \in 1 .. (j - 1)
        PROVE  rrs[i].type = "CNAME" /\ rrs[i].name = IF i = 1 THEN name ELSE rrs[i - 1].data
    <3>1. i \in 1 .. Len(ans) /\ i < j /\ (i # 1 => i - 1 \in 1 .. (j - 1) /\ (i - 1) + 1 = i
                                                 /\ i - 1 \in 1 .. Len(ans) /\ i <= Len(ans))
      BY <1>1, <2>1
    <3> QED BY <1>1, <1>5, <2>2, <3>1
  <2>4. e = IF j - 1 = 0 THEN name ELSE rrs[j - 1].data
    <3>1. CASE j = 1
      BY <1>1, <3>1
    <3>2. CASE j # 1
      <4>1. j - 1 \in 1 .. Len(ans) /\ (j - 1) + 1 = j /\ j <= Len(ans) /\ j - 1 # 0 /\ j - 1 \in 1 .. (j - 1)
        BY <1>1, <1>4, <3>2
      <4>2. e = ans[j - 1].data
        BY <1>1, <4>1, Zenon
      <4> QED BY <2>2, <4>1, <4>2, Zenon
    <3> QED BY <3>1, <3>2, Zenon
  <2> HIDE DEF e
  <2> QED BY <2>2, <2>3, <2>4, Zenon DEF Path, Linked
<1> DEFINE T == {k \in Nat : j + k <= Len(ans) => ans[j + k].name = e}
<1>7. 0 \in T
  BY <1>4
<1>8. \A r \in Records : r.name = e => r.type = "A" /\ r.data = e
  BY <1>4, WorldAssumption, OneRecord, Zenon
<1>9. ASSUME NEW k \in Nat, k \in T PROVE k + 1 \in T
  <2> SUFFICES ASSUME j + (k + 1) <= Len(ans) PROVE ans[j + (k + 1)].name = e
    OBVIOUS
  <2>1. j + k \in 1 .. Len(ans) /\ j + k <= Len(ans) /\ (j + k) + 1 = j + (k + 1)
    BY <1>1, <1>4
  <2>2. ans[j + k].data = e
    BY <1>1, <1>8, <1>9, <2>1, Zenon
  <2> QED BY <1>1, <2>1, <2>2, Zenon
<1>10. ans[Len(ans)].name = e
  <2>1. Len(ans) - j \in Nat /\ j + (Len(ans) - j) = Len(ans) /\ Len(ans) <= Len(ans)
    BY <1>1, <1>4
  <2>2. Len(ans) - j \in T
    <3> HIDE DEF T
    <3> QED BY <1>7, <1>9, <2>1, NatSetInduction, Zenon
  <2> QED BY <2>1, <2>2, Zenon
<1>11. Len(ans) \in 1 .. Len(ans) /\ ans # <<>>
  BY <1>1, <1>4
<1> HIDE DEF rrs, e
<1> QED BY <1>1, <1>6, <1>8, <1>10, <1>11, Zenon

-----------------------------------------------------------------------------
(* Steps of one run that leave its request's sub-queries alone *)

LEMMA HostsLookupStep ==
    ASSUME Counting, TruthInv, NEW p \in Procs, HostsLookup(p)
    PROVE  TruthInv'
<1> DEFINE qname == machine[p].qname
           S == [name : {qname}, type : {QType(p)}, data : AllNames]
           found == Among(HostsMap, S)
           resp == [machine[p].response EXCEPT !.answer = @ \o found]
<1>1. machine[p].state = "HOSTS_LOOKUP" /\ machine[p].iterations < MaxIterations
  BY Zenon DEF HostsLookup, In
<1>2. CacheSound' /\ UNCHANGED <<question, nsLimit, nsResults, background, reply, expiries>>
  BY CacheKept, Zenon DEF HostsLookup, aside
<1>3. machine[p].response = Empty
  BY <1>1, EarlyFacts, Zenon DEF Early
<1>4. CASE GoTo(p, "FORWARD_LOOKUP", machine[p].response)
  <2>1. PICK m \in Machines :
            /\ machine' = [machine EXCEPT ![p] = m]
            /\ m.state = "FORWARD_LOOKUP" /\ m.response = Empty
            /\ m.qname = machine[p].qname /\ m.cnameChain = machine[p].cnameChain
    <3>1. "FORWARD_LOOKUP" \in States
      BY Zenon DEF States
    <3> QED BY <1>1, <1>3, <1>4, <3>1, EmptyMessage, GoToMoves
  <2>2. Sound(m, question[p])
    <3>1. Chained(m, question[p]) /\ m.cnameChain = <<>>
      BY <1>1, <2>1, EarlyFacts DEF Chained, Early
    <3> QED BY <2>1, <3>1, Zenon DEF Sound, Active, Early, Late, Awaiting
  <2> QED BY <1>1, <1>2, <2>1, <2>2, LocalStep, Zenon DEF Awaiting
<1>5. CASE qname \in HostsNames /\ GoTo(p, "RETURN_RESP", resp)
  <2>1. /\ found \in Seq(AllRecords)
        /\ \A j \in DOMAIN found : found[j] \in S /\ \E k \in DOMAIN HostsMap : found[j] = HostsMap[k]
    <3>1. HostsMap \in Seq(AllRecords)
      BY ResolverAssumption, Zenon
    <3> HIDE DEF S
    <3> QED BY <3>1, AmongProperties
  <2>2. \A j \in DOMAIN found : found[j] \in Configured /\ found[j].name = qname
    BY <2>1, Zenon DEF Configured
  <2> HIDE DEF found
  <2>3. resp \in Message /\ resp.answer = found
    <3>1. <<>> \o found = found
      BY <2>1, ConcatEmptySeq, Zenon
    <3>2. resp = [rcode |-> "NOERROR", answer |-> found, ns |-> <<>>, extra |-> {}]
      <4>1. resp = [Empty EXCEPT !.answer = <<>> \o found]
        BY <1>3, EmptyMessage, Zenon
      <4> HIDE DEF resp
      <4> QED BY <3>1, <4>1, Zenon DEF Empty
    <3> HIDE DEF resp
    <3>3. "NOERROR" \in Rcodes /\ <<>> \in Seq([type : {"NS", "SOA"}, zone : Zones])
      BY EmptySeq, Zenon DEF Rcodes
    <3>4. resp \in Message
      BY <2>1, <3>2, <3>3, MessageMade, Zenon
    <3> QED BY <3>2, <3>4, Zenon
  <2> HIDE DEF resp
  <2>4. PICK m \in Machines :
            /\ machine' = [machine EXCEPT ![p] = m]
            /\ m.state = "RETURN_RESP" /\ m.response = resp
            /\ m.qname = machine[p].qname /\ m.cnameChain = machine[p].cnameChain
    <3>1. "RETURN_RESP" \in States
      BY DEF States
    <3> QED BY <1>1, <1>5, <2>3, <3>1, GoToMoves
  <2>5. Sound(m, question[p])
    <3>1. machine[p].state \in Early /\ Local(machine[p].qname)
      BY <1>1, <1>5, Zenon DEF Early, Local
    <3> QED BY <2>2, <2>3, <2>4, <3>1, LocalSound, Zenon
  <2> QED BY <1>1, <1>2, <2>4, <2>5, LocalStep, Zenon DEF Awaiting
<1> QED BY <1>4, <1>5, Zenon DEF HostsLookup

-----------------------------------------------------------------------------
(* Reading the cache, and what to make of a response *)

LEMMA ClassifyAnswerStep ==
    ASSUME Counting, TruthInv, NEW p \in Procs, ClassifyAnswer(p)
    PROVE  TruthInv'
<1> DEFINE resp == machine[p].response
<1>1. machine[p].state = "CLASSIFY_RESP" /\ machine[p].iterations < MaxIterations
  BY Zenon DEF ClassifyAnswer, In
<1>2. Matches(resp, question[p].type) /\ GoTo(p, "RETURN_RESP", resp)
  BY Zenon DEF ClassifyAnswer, QType
<1>3. /\ resp \in Message /\ resp.answer \in Seq(AllRecords) /\ Chained(machine[p], question[p])
      /\ GoodAnswer(machine[p].qname, question[p].type, resp.answer)
  BY <1>1, ClassifyFacts, Zenon
<1>4. resp.rcode = "NOERROR"
  <2>1. ~Dead(machine[p].qname, question[p].type)
    BY <1>1, <1>2, <1>3, ClassifyFacts, AnswerLives, Zenon DEF Matches
  <2> QED BY <1>1, <2>1, ClassifyFacts, Zenon
<1> HIDE DEF resp
<1>5. PICK m \in Machines :
          /\ machine' = [machine EXCEPT ![p] = m]
          /\ m.state = "RETURN_RESP" /\ m.response = resp
          /\ m.qname = machine[p].qname /\ m.cnameChain = machine[p].cnameChain
  <2>1. "RETURN_RESP" \in States
    BY DEF States
  <2> QED BY <1>1, <1>2, <1>3, <2>1, GoToMoves
<1>6. Sound(m, question[p])
  <2>1. Chained(m, question[p])
    BY <1>3, <1>5, Zenon DEF Chained
  <2>2. ASSUME question[p].type = "A", question[p].name \in Hosts
        PROVE  \A i \in DOMAIN resp.answer : resp.answer[i].data = question[p].name
    <3>1. machine[p].qname = question[p].name
      BY <1>5, <2>1, <2>2, HostUnchained, Zenon
    <3> QED BY <1>3, <2>2, <3>1, HostAnswer
  <2>3. Returnable(m, question[p])
    BY <1>2, <1>3, <1>4, <1>5, <2>2, Zenon DEF Returnable
  <2> QED BY <1>5, <2>1, <2>3 DEF Sound, Active, Early, Late, Awaiting
<1>7. CacheSound' /\ UNCHANGED <<question, nsLimit, nsResults, background, reply, expiries>>
  BY CacheKept, Zenon DEF ClassifyAnswer, aside
<1> QED BY <1>1, <1>5, <1>6, <1>7, LocalStep, Zenon DEF Awaiting

\* An answer without records of the type asked for is all aliases, the first
\* one the name's own.
LEMMA AliasFacts ==
    ASSUME Counting, NEW name, NEW type \in Types, NEW resp \in Message, GoodAnswer(name, type, resp.answer),
           ~Matches(resp, type), resp.answer # <<>>
    PROVE  /\ type # "CNAME" /\ Aliases(resp) # <<>> /\ Head(Aliases(resp)) = resp.answer[1]
           /\ resp.answer[1] \in Records /\ resp.answer[1].name = name /\ resp.answer[1].type = "CNAME"
<1> DEFINE ans == resp.answer
<1>1. ans \in Seq(AllRecords)
  BY MessageFacts, Zenon
<1>2. /\ Len(ans) \in Nat /\ DOMAIN ans = 1 .. Len(ans) /\ (ans = <<>>) = (Len(ans) = 0)
      /\ \A i \in 1 .. Len(ans) : ans[i] \in Records /\ ans[i].type \in {type, "CNAME"}
      /\ ans # <<>> => ans[1].name = name
  BY <1>1, AnswerFacts
<1>3. 1 \in 1 .. Len(ans)
  BY <1>2
<1>4. ans[1].type = "CNAME" /\ type # "CNAME"
  BY <1>2, <1>3, Zenon DEF Matches
<1>5. ans[1] \in [name : AllNames, type : {"CNAME"}, data : AllNames]
  BY <1>2, <1>3, <1>4, RecordFacts, ZoneFacts, Zenon
<1>6. Aliases(resp) # <<>> /\ Head(Aliases(resp)) = ans[1]
  <2> HIDE DEF ans
  <2> QED BY <1>1, <1>5, AmongProperties, Zenon DEF Aliases, ans
<1> QED BY <1>2, <1>3, <1>4, <1>6, Zenon

LEMMA NoAliases ==
    ASSUME Counting, NEW resp \in Message, resp.answer = <<>>
    PROVE  Aliases(resp) = <<>>
<1> DEFINE S == [name : AllNames, type : {"CNAME"}, data : AllNames]
           a == Among(<<>>, S)
<1>1. Aliases(resp) = a
  BY Zenon DEF Aliases
<1>2. <<>> \in Seq(AllRecords) /\ DOMAIN <<>> = {}
  BY EmptySeq
<1>3. a \in Seq(AllRecords) /\ \A j \in DOMAIN a : \E k \in DOMAIN <<>> : a[j] = <<>>[k]
  <2> HIDE DEF S
  <2> QED BY <1>2, AmongProperties, Zenon
<1>4. DOMAIN a = {}
  BY <1>2, <1>3, Zenon
<1>5. a = <<>>
  <2> HIDE DEF a
  <2> QED BY <1>3, <1>4
<1> QED BY <1>1, <1>5, Zenon

LEMMA followCNAMEStep ==
    ASSUME Counting, TruthInv, NEW p \in Procs, followCNAME(p)
    PROVE  TruthInv'
<1> DEFINE old == machine[p].response
           cname == Head(Aliases(old))
           bare == [old EXCEPT !.answer = <<>>]
           resp == IF isNSRelevantForCNAME(old.ns, cname.data) THEN bare
                   ELSE [bare EXCEPT !.ns = <<>>, !.extra = {}]
           m == [machine[p] EXCEPT !.state = "CACHE_LOOKUP", !.iterations = @ + 1, !.qname = cname.data,
                                   !.cnameChain = Append(@, cname), !.response = resp]
<1>1. /\ machine[p].state = "CLASSIFY_RESP" /\ machine[p].iterations < MaxIterations
      /\ ~Matches(old, QType(p)) /\ QType(p) # "CNAME" /\ Aliases(old) # <<>>
      /\ cname.data \notin visitedDomains(p)
      /\ machine' = [machine EXCEPT ![p] = m]
  BY Zenon DEF followCNAME, FollowsAlias, In
<1>2. /\ machine[p] \in Machines /\ old \in Message /\ old.answer \in Seq(AllRecords)
      /\ Chained(machine[p], question[p]) /\ QType(p) = question[p].type /\ QType(p) \in Types
      /\ GoodAnswer(machine[p].qname, QType(p), old.answer)
      /\ old.rcode \in {"NOERROR", "NXDOMAIN"} /\ (old.rcode = "NXDOMAIN" => Dead(machine[p].qname, QType(p)))
  BY <1>1, ClassifyFacts, TypeFacts, Zenon
<1>3. old.answer # <<>> /\ GlueFits(old)
  <2>1. old.answer # <<>>
    BY <1>1, <1>2, NoAliases, Zenon
  <2> QED BY <1>1, <2>1, ClassifyFacts, Zenon
<1>4. /\ cname \in Records /\ cname.name = machine[p].qname /\ cname.type = "CNAME"
  <2> HIDE DEF old
  <2>1. old.answer[1] \in Records /\ Head(Aliases(old)) = old.answer[1]
        /\ old.answer[1].name = machine[p].qname /\ old.answer[1].type = "CNAME"
    <3>1. PICK name, type, msg : name = machine[p].qname /\ type = QType(p) /\ msg = old
      BY Zenon
    <3>2. type \in Types /\ msg \in Message /\ GoodAnswer(name, type, msg.answer) /\ ~Matches(msg, type)
          /\ msg.answer # <<>>
      BY <1>1, <1>2, <1>3, <3>1, Zenon
    <3>3. msg.answer[1] \in Records /\ Head(Aliases(msg)) = msg.answer[1]
          /\ msg.answer[1].name = name /\ msg.answer[1].type = "CNAME"
      BY <3>2, AliasFacts, ZenonT(60)
    <3> QED BY <3>1, <3>3, Zenon
  <2> QED BY <2>1, Zenon
<1>5. /\ bare = [rcode |-> old.rcode, answer |-> <<>>, ns |-> old.ns, extra |-> old.extra]
      /\ bare \in Message
  <2>1. bare = [rcode |-> old.rcode, answer |-> <<>>, ns |-> old.ns, extra |-> old.extra]
    BY <1>2, AnswerReplaced, Zenon
  <2>2. /\ old.rcode \in Rcodes /\ <<>> \in Seq(AllRecords) /\ old.ns \in Seq([type : {"NS", "SOA"}, zone : Zones])
        /\ old.extra \in SUBSET Hosts
    BY <1>2, MessageFacts, EmptySeq, Zenon
  <2> HIDE DEF bare
  <2> QED BY <2>1, <2>2, MessageMade, Zenon
<1> HIDE DEF cname, bare
<1>6. /\ resp \in Message /\ resp.rcode = old.rcode /\ resp.answer = <<>>
      /\ \/ /\ isNSRelevantForCNAME(old.ns, cname.data) /\ resp.ns = old.ns /\ resp.extra = old.extra
         \/ resp.ns = <<>> /\ resp.extra = {}
  <2>1. CASE isNSRelevantForCNAME(old.ns, cname.data)
    BY <1>5, <2>1, Zenon
  <2>2. CASE ~isNSRelevantForCNAME(old.ns, cname.data)
    <3>1. resp = [rcode |-> old.rcode, answer |-> <<>>, ns |-> <<>>, extra |-> {}]
      <4>1. resp = [bare EXCEPT !.ns = <<>>, !.extra = {}]
        BY <2>2, Zenon
      <4>2. resp = [rcode |-> bare.rcode, answer |-> bare.answer, ns |-> <<>>, extra |-> {}]
        BY <1>5, <4>1, ServersReplaced, Zenon
      <4> HIDE DEF resp
      <4> QED BY <1>5, <4>2, Zenon
    <3>2. old.rcode \in Rcodes /\ <<>> \in Seq(AllRecords) /\ <<>> \in Seq([type : {"NS", "SOA"}, zone : Zones])
      BY <1>2, MessageFacts, EmptySeq, Zenon
    <3> HIDE DEF resp
    <3>3. resp \in Message
      <4>1. {} \in SUBSET Hosts
        BY Zenon
      <4> QED BY <3>1, <3>2, <4>1, MessageMade, Zenon
    <3> QED BY <3>1, <3>3, Zenon
  <2> QED BY <2>1, <2>2, Zenon
<1> HIDE DEF resp
<1>7. GlueFits(resp) /\ ServeAll(resp.extra, cname.data)
  <2>1. CASE resp.ns = <<>> /\ resp.extra = {}
    BY <2>1, EmptySeq DEF GlueFits, ServeAll
  <2>2. CASE isNSRelevantForCNAME(old.ns, cname.data) /\ resp.ns = old.ns /\ resp.extra = old.extra
    <3>1. GlueFits(resp)
      BY <1>3, <2>2, Zenon DEF GlueFits
    <3>2. old.ns # <<>> /\ IsSubDomain(old.ns[1].zone, cname.data) /\ old.ns[1].zone \in Zones
      <4>1. old.ns \in Seq([type : {"NS", "SOA"}, zone : Zones])
        BY <1>2, MessageFacts, Zenon
      <4>2. old.ns # <<>> /\ IsSubDomain(old.ns[1].zone, cname.data)
        BY <2>2, Zenon DEF isNSRelevantForCNAME
      <4>3. 1 \in 1 .. Len(old.ns)
        BY <4>1, <4>2
      <4>4. old.ns[1] \in [type : {"NS", "SOA"}, zone : Zones]
        BY <4>1, <4>3, ElementOfSeq, Zenon
      <4> QED BY <4>2, <4>4, Zenon
    <3>3. resp.extra \subseteq NSNames[old.ns[1].zone]
      BY <1>3, <2>2, <3>2, Zenon DEF GlueFits
    <3> QED BY <3>1, <3>2, <3>3, Zenon DEF ServeAll, Serving
  <2> QED BY <1>6, <2>1, <2>2, Zenon
<1>8. /\ m \in Machines /\ m.state = "CACHE_LOOKUP" /\ m.response = resp /\ m.qname = cname.data
      /\ m.cnameChain = Append(machine[p].cnameChain, cname)
  <2>1. machine[p].iterations + 1 \in 0 .. MaxIterations
    BY <1>1, <1>2, ResolverAssumption DEF Machines
  <2>2. /\ Append(machine[p].cnameChain, cname) \in Seq([name : Names, type : {"CNAME"}, data : Names])
        /\ cname.data \in AllNames
    BY <1>2, <1>4, RecordFacts, ZoneFacts, AppendProperties, Zenon DEF Machines
  <2>3. "CACHE_LOOKUP" \in States
    BY Zenon DEF States
  <2> QED BY <1>2, <1>6, <2>1, <2>2, <2>3, Zenon DEF Machines
<1> HIDE DEF m
<1>9. Sound(m, question[p])
  <2>1. Chained(m, question[p])
    BY <1>1, <1>2, <1>4, <1>8, ChainExtended, Zenon DEF visitedDomains
  <2>2. Looking(m, question[p])
    <3>1. resp.rcode = "NXDOMAIN" => Dead(cname.data, question[p].type)
      BY <1>2, <1>4, <1>6, AliasDead, Zenon
    <3> QED BY <1>2, <1>6, <1>7, <1>8, <3>1, Zenon DEF Looking
  <2> QED BY <1>7, <1>8, <2>1, <2>2, Zenon DEF Sound, Active, Early, Late, Awaiting
<1>10. CacheSound' /\ UNCHANGED <<question, nsLimit, nsResults, background, reply, expiries>>
  BY CacheKept, Zenon DEF followCNAME, aside
<1> QED BY <1>1, <1>8, <1>9, <1>10, LocalStep, Zenon DEF Awaiting

LEMMA ClassifyReferralStep ==
    ASSUME Counting, TruthInv, NEW p \in Procs, ClassifyReferral(p)
    PROVE  TruthInv'
<1> DEFINE resp == machine[p].response
<1>1. machine[p].state = "CLASSIFY_RESP" /\ machine[p].iterations < MaxIterations /\ machine[p].state \in Late
  BY Zenon DEF ClassifyReferral, In, Late
<1>2. /\ ~IsNegative(resp) /\ ~Matches(resp, QType(p)) /\ (QType(p) = "CNAME" \/ Aliases(resp) = <<>>)
      /\ GoTo(p, "EXTRACT_GLUE", resp)
  BY Zenon DEF ClassifyReferral
<1>3. resp.answer = <<>>
  <2>1. resp \in Message /\ QType(p) \in Types /\ GoodAnswer(machine[p].qname, QType(p), resp.answer)
    BY <1>1, ClassifyFacts, Zenon
  <2> HIDE DEF resp
  <2>2. ASSUME resp.answer # <<>> PROVE QType(p) # "CNAME" /\ Aliases(resp) # <<>>
    <3>1. PICK name, type, msg : name = machine[p].qname /\ type = QType(p) /\ msg = resp
      OBVIOUS
    <3>2. type \in Types /\ msg \in Message /\ GoodAnswer(name, type, msg.answer) /\ ~Matches(msg, type)
          /\ msg.answer # <<>>
      BY <1>2, <2>1, <2>2, <3>1, Zenon
    <3>3. type # "CNAME" /\ Aliases(msg) # <<>>
      BY <3>2, AliasFacts, Zenon
    <3> QED BY <3>1, <3>3, Zenon
  <2> QED BY <1>2, <2>2, Zenon
<1>4. Len(resp.ns) <= 1 /\ resp \in Message
  BY <1>1, <1>2, <1>3, ClassifyFacts, Zenon DEF IsNegative
<1>5. PICK m \in Machines :
          /\ machine' = [machine EXCEPT ![p] = m]
          /\ m.state = "EXTRACT_GLUE" /\ m.response = resp
          /\ m.qname = machine[p].qname /\ m.cnameChain = machine[p].cnameChain
  <2>1. "EXTRACT_GLUE" \in States
    BY Zenon DEF States
  <2> QED BY <1>1, <1>2, <1>4, <2>1, GoToMoves
<1>6. Sound(m, question[p])
  <2>1. Chained(m, question[p]) /\ Looking(m, question[p])
    BY <1>1, <1>3, <1>5, LateFacts DEF Chained, Looking
  <2> QED BY <1>4, <1>5, <2>1, Zenon DEF Sound, Active, Early, Late, Awaiting
<1>7. CacheSound' /\ UNCHANGED <<question, nsLimit, nsResults, background, reply, expiries>>
  BY CacheKept, Zenon DEF ClassifyReferral, aside
<1> QED BY <1>1, <1>5, <1>6, <1>7, LocalStep, Zenon DEF Awaiting

-----------------------------------------------------------------------------
(* Whom to ask *)

LEMMA LookupNSCacheStep ==
    ASSUME Counting, TruthInv, NEW p \in Procs, LookupNSCache(p)
    PROVE  TruthInv'
<1> DEFINE old == machine[p].response
           qname == machine[p].qname
           zones == CachedZones(qname)
           hit == IF zones = {} THEN [ns |-> <<NS(<<>>)>>, extra |-> NSNames[<<>>]]
                  ELSE Get(<<Deepest(zones), "delegation">>)
           resp == [old EXCEPT !.ns = old.ns \o hit.ns, !.extra = old.extra \cup hit.extra]
<1>1. machine[p].state = "LOOKUP_NS_CACHE" /\ machine[p].iterations < MaxIterations /\ machine[p].state \in Late
  BY Zenon DEF LookupNSCache, In, Late
<1>2. /\ Chained(machine[p], question[p]) /\ Looking(machine[p], question[p])
      /\ old \in Message /\ qname \in Seq(STRING)
  BY <1>1, LateFacts, Zenon
<1>3. old.ns = <<>>
  BY <1>1, TypeFacts, Zenon DEF Sound
<1>4. GoTo(p, "QUERY_UPSTREAM", resp)
  BY Zenon DEF LookupNSCache
<1>5. PICK z \in Zones : IsSubDomain(z, qname) /\ hit.ns = <<NS(z)>> /\ hit.extra \subseteq NSNames[z]
  <2>1. CASE zones = {}
    <3>1. hit.ns = <<NS(<<>>)>> /\ hit.extra = NSNames[<<>>]
      BY <2>1, Zenon
    <3>2. <<>> \in Zones /\ IsSubDomain(<<>>, qname)
      BY <1>2, ZoneFacts, Prefixes, Zenon
    <3> HIDE DEF hit
    <3> QED BY <3>1, <3>2, Zenon
  <2>2. CASE zones # {}
    <3> DEFINE z == Deepest(zones)
               k == <<z, "delegation">>
    <3>1. z \in zones
      <4>1. zones \subseteq Seq(STRING) /\ \A y \in zones : IsSubDomain(y, qname)
        BY <1>2, ZoneListPrefixes, Zenon DEF CachedZones
      <4> HIDE DEF zones, qname
      <4> QED BY <1>2, <2>2, <4>1, DeepestIn, Zenon
    <3>2. IsSubDomain(z, qname) /\ IsDelegation(Get(k))
      BY <1>2, <3>1, ZoneListPrefixes, Zenon DEF CachedZones
    <3>3. k \in DOMAIN cache
      BY <3>2, GetFacts, EmptyMessage, Zenon DEF IsDelegation
    <3>4. EntryOK(k, Get(k)) /\ k[1] = z /\ k[2] = "delegation"
      BY <3>3, GetFacts, Zenon
    <3>5. hit = Get(k)
      BY <2>2, Zenon
    <3> HIDE DEF z, k, hit
    <3>6. z \in Zones /\ hit.ns = <<NS(z)>> /\ hit.extra \subseteq NSNames[z]
      BY <3>4, <3>5, Zenon DEF EntryOK
    <3> QED BY <3>2, <3>6, Zenon
  <2> QED BY <2>1, <2>2, Zenon
<1> HIDE DEF hit
<1>6. resp = [rcode |-> old.rcode, answer |-> old.answer, ns |-> <<NS(z)>>, extra |-> old.extra \cup hit.extra]
  <2>1. <<>> \o <<NS(z)>> = <<NS(z)>> /\ <<NS(z)>> \in Seq([type : {"NS", "SOA"}, zone : Zones])
    BY ConcatEmptySeq DEF NS
  <2>2. old.ns \o hit.ns = <<NS(z)>>
    BY <1>3, <1>5, <2>1, Zenon
  <2> QED BY <1>2, <2>2, ServersReplaced, Zenon
<1> HIDE DEF resp
<1>7. resp \in Message /\ resp.ns = <<NS(z)>> /\ resp.extra = old.extra \cup hit.extra
      /\ resp.rcode = old.rcode /\ resp.answer = old.answer
  <2>1. /\ old.rcode \in Rcodes /\ old.answer \in Seq(AllRecords)
        /\ old.extra \cup hit.extra \in SUBSET Hosts
    BY <1>2, <1>5, ZoneFacts, MessageFacts, Zenon
  <2>2. <<NS(z)>> \in Seq([type : {"NS", "SOA"}, zone : Zones])
    BY DEF NS
  <2>3. resp \in Message
    BY <1>6, <2>1, <2>2, MessageMade, Zenon
  <2> QED BY <1>6, <2>3, Zenon
<1>8. PICK m \in Machines :
          /\ machine' = [machine EXCEPT ![p] = m]
          /\ m.state = "QUERY_UPSTREAM" /\ m.response = resp
          /\ m.qname = machine[p].qname /\ m.cnameChain = machine[p].cnameChain
  <2>1. "QUERY_UPSTREAM" \in States
    BY Zenon DEF States
  <2> QED BY <1>1, <1>4, <1>7, <2>1, GoToMoves
<1>9. Sound(m, question[p])
  <2>1. Chained(m, question[p])
    BY <1>2, <1>8, Zenon DEF Chained
  <2>2. ServeAll(hit.extra, qname) /\ ServeAll(NSNames[z], qname)
    BY <1>5, ZoneServes, Zenon
  <2>3. Looking(m, question[p])
    BY <1>1, <1>2, <1>7, <1>8, <2>2, Zenon DEF Looking, ServeAll
  <2>4. ServeAll(getNSNames(resp), qname)
    <3>1. getNSNames(resp) \subseteq NSNames[z]
      <4>1. DOMAIN <<NS(z)>> = {1} /\ <<NS(z)>>[1].zone = z
        BY DEF NS
      <4> QED BY <1>7, <4>1, Zenon DEF getNSNames
    <3> QED BY <2>2, <3>1, Zenon DEF ServeAll
  <2> QED BY <1>8, <2>1, <2>3, <2>4, Zenon DEF Sound, Active, Early, Late, Awaiting
<1>10. CacheSound' /\ UNCHANGED <<question, nsLimit, nsResults, background, reply, expiries>>
  BY CacheKept, Zenon DEF LookupNSCache, aside
<1> QED BY <1>1, <1>8, <1>9, <1>10, LocalStep, Zenon DEF Awaiting

LEMMA IPsFacts ==
    ASSUME Counting, NEW msg, msg.answer \in Seq(AllRecords)
    PROVE  /\ IPs(msg) \in Seq(AllNames)
           /\ \A i \in DOMAIN IPs(msg) : \E k \in DOMAIN msg.answer :
                 msg.answer[k].type = "A" /\ IPs(msg)[i] = msg.answer[k].data
<1> DEFINE S == [name : AllNames, type : {"A"}, data : AllNames]
           as == Among(msg.answer, S)
<1>1. /\ as \in Seq(AllRecords)
      /\ \A j \in DOMAIN as : as[j] \in S /\ \E k \in DOMAIN msg.answer : as[j] = msg.answer[k]
  <2> HIDE DEF S
  <2> QED BY AmongProperties
<1>2. IPs(msg) = [i \in DOMAIN as |-> as[i].data]
  BY Zenon DEF IPs
<1> HIDE DEF as
<1>3. \A j \in DOMAIN as : as[j].data \in AllNames /\ as[j].type = "A"
  BY <1>1, Zenon
<1>4. Len(as) \in Nat /\ DOMAIN as = 1 .. Len(as)
  BY <1>1, LenProperties, Zenon
<1>5. IPs(msg) \in [1 .. Len(as) -> AllNames]
  BY <1>2, <1>3, <1>4, Zenon
<1>6. IPs(msg) \in Seq(AllNames)
  BY <1>4, <1>5, SeqDef, Zenon
<1>7. ASSUME NEW i \in DOMAIN IPs(msg)
      PROVE  \E k \in DOMAIN msg.answer : msg.answer[k].type = "A" /\ IPs(msg)[i] = msg.answer[k].data
  <2>1. i \in DOMAIN as /\ IPs(msg)[i] = as[i].data
    BY <1>2, Zenon
  <2>2. PICK k \in DOMAIN msg.answer : as[i] = msg.answer[k]
    BY <1>1, <2>1, Zenon
  <2> QED BY <1>3, <2>1, <2>2, Zenon
<1> QED BY <1>6, <1>7, Zenon

\* What the cache has of a server's addresses is its address.
LEMMA CachedIPsFacts ==
    ASSUME Counting, TruthInv, NEW names \in SUBSET Hosts
    PROVE  CachedIPs(names) \subseteq names
<1> SUFFICES ASSUME NEW x \in CachedIPs(names) PROVE x \in names
  BY Zenon
<1> DEFINE known(n) == {IPs(Get(<<n, "A">>))[i] : i \in DOMAIN IPs(Get(<<n, "A">>))}
<1>0. x \in UNION {known(n) : n \in names}
  BY Zenon DEF CachedIPs
<1> HIDE DEF known
<1> PICK n \in names : x \in known(n)
  BY <1>0, Zenon
<1> PICK i \in DOMAIN IPs(Get(<<n, "A">>)) : x = IPs(Get(<<n, "A">>))[i]
  BY Zenon DEF known
<1> DEFINE k == <<n, "A">>
           msg == Get(k)
<1>1. msg \in Message /\ msg.answer \in Seq(AllRecords)
  BY GetFacts, EmptyMessage, MessageFacts, Zenon
<1>2. PICK j \in DOMAIN msg.answer : msg.answer[j].type = "A" /\ IPs(msg)[i] = msg.answer[j].data
  BY <1>1, IPsFacts, Zenon
<1>3. k \in DOMAIN cache
  <2>1. CASE k \notin DOMAIN cache
    <3>1. msg.answer = <<>>
      BY <2>1, GetFacts, EmptyMessage, Zenon
    <3> QED BY <1>2, <3>1
  <2> QED BY <2>1, Zenon
<1>4. EntryOK(k, msg) /\ k[1] = n /\ k[2] = "A"
  BY <1>3, GetFacts, Zenon
<1>5. GoodAnswer(n, "A", msg.answer)
  BY <1>4, Zenon DEF EntryOK
<1>6. msg.answer[j].data = n
  <2> HIDE DEF msg
  <2> QED BY <1>1, <1>2, <1>5, HostAnswer, Zenon
<1> QED BY <1>2, <1>6, Zenon

LEMMA QueryUpstreamStep ==
    ASSUME Counting, TruthInv, NEW p \in Procs, QueryUpstream(p)
    PROVE  TruthInv'
<1> DEFINE resp == machine[p].response
           qname == machine[p].qname
           cached == CachedIPs(getNSNames(resp))
<1>1. machine[p].state = "QUERY_UPSTREAM" /\ machine[p].iterations < MaxIterations /\ machine[p].state \in Late
  BY Zenon DEF QueryUpstream, In, Late
<1>2. /\ Chained(machine[p], question[p]) /\ Looking(machine[p], question[p])
      /\ machine \in [Procs -> Machines] /\ machine[p] \in Machines
      /\ resp \in Message /\ ServeAll(resp.extra, qname)
      /\ resp.ns \in Seq([type : {"NS", "SOA"}, zone : Zones]) /\ resp.extra \subseteq Hosts
  BY <1>1, LateFacts, MessageFacts, TypeFacts, Zenon DEF Looking
<1>3. ServeAll(getNSNames(resp), qname)
  BY <1>1, TypeFacts, Zenon DEF Sound
<1>4. cached \subseteq getNSNames(resp) /\ getNSNames(resp) \subseteq Hosts
  <2>1. getNSNames(resp) \subseteq Hosts
    BY <1>2, NSNamesAreHosts, Zenon
  <2> QED BY <2>1, CachedIPsFacts, Zenon
<1> HIDE DEF cached
<1>5. PICK ips : ips \in {resp.extra, cached} /\ Wait(p, "EXCHANGE", ips)
  BY Zenon DEF QueryUpstream, cached
<1>6. ips \subseteq AllNames /\ ServeAll(ips, qname)
  <2>1. ips \subseteq Hosts /\ ServeAll(ips, qname)
    BY <1>2, <1>3, <1>4, <1>5, Zenon DEF ServeAll
  <2> QED BY <2>1, ZoneFacts, Zenon
<1> DEFINE m == [machine[p] EXCEPT !.state = "EXCHANGE", !.ipList = ips]
<1>7. /\ m \in Machines /\ m.state = "EXCHANGE" /\ m.ipList = ips /\ m.response = resp
      /\ m.qname = qname /\ m.cnameChain = machine[p].cnameChain /\ m.iterations = machine[p].iterations
  BY <1>2, <1>6, Zenon DEF Machines, States
<1>8. machine' = [machine EXCEPT ![p] = m]
  BY <1>2, <1>5, Zenon DEF Wait
<1> HIDE DEF m
<1>9. Sound(m, question[p])
  <2>1. Chained(m, question[p]) /\ Looking(m, question[p])
    BY <1>1, <1>2, <1>7, Zenon DEF Chained, Looking
  <2> QED BY <1>1, <1>6, <1>7, <2>1, Zenon DEF Sound, Active, Early, Late, Awaiting
<1>10. CacheSound' /\ UNCHANGED <<question, nsLimit, nsResults, background, reply, expiries>>
  BY CacheKept, Zenon DEF QueryUpstream, aside
<1> QED BY <1>1, <1>7, <1>8, <1>9, <1>10, LocalStep, Zenon DEF Awaiting

LEMMA ExchangeStep ==
    ASSUME Counting, TruthInv, NEW p \in Procs, Exchange(p)
    PROVE  TruthInv'
<1> DEFINE old == machine[p].response
<1>1. PICK name, type : name = machine[p].qname /\ type = QType(p)
  BY Zenon
<1>2. PICK n \in machine[p].ipList \cap Hosts, style \in Styles, retried \in BOOLEAN :
          LET new == Reply(n, name, type, style)
              rcode == IF retried THEN new.rcode ELSE old.rcode
          IN  /\ machine[p].state = "EXCHANGE"
              /\ \/ /\ new.rcode = "NXDOMAIN"
                    /\ GoTo(p, "CLASSIFY_RESP", [old EXCEPT !.rcode = new.rcode, !.ns = new.ns])
                    /\ UNCHANGED cache
                 \/ /\ new.rcode = "NOERROR"
                    /\ GoTo(p, "CLASSIFY_RESP", [new EXCEPT !.rcode = rcode, !.answer = old.answer \o new.answer])
                    /\ cache' = Stored(CacheKey(p), new)
              /\ UNCHANGED <<nsResults, reply, aside>>
  BY <1>1, ZenonT(60) DEF Exchange
<1>3. PICK msg : msg = Reply(n, name, type, style)
  BY Zenon
<1>4. PICK rcode : rcode = IF retried THEN msg.rcode ELSE old.rcode
  BY Zenon
<1>5. /\ machine[p].state = "EXCHANGE" /\ machine[p].state \in Late
      /\ UNCHANGED <<question, nsLimit, nsResults, background, reply, expiries>>
      /\ \/ /\ msg.rcode = "NXDOMAIN"
            /\ GoTo(p, "CLASSIFY_RESP", [old EXCEPT !.rcode = msg.rcode, !.ns = msg.ns])
            /\ UNCHANGED cache
         \/ /\ msg.rcode = "NOERROR"
            /\ GoTo(p, "CLASSIFY_RESP", [msg EXCEPT !.rcode = rcode, !.answer = old.answer \o msg.answer])
            /\ cache' = Stored(CacheKey(p), msg)
  BY <1>2, <1>3, <1>4, Zenon DEF aside, Late
<1>6. /\ Chained(machine[p], question[p]) /\ machine[p].iterations < MaxIterations
      /\ old \in Message /\ old.rcode \in {"NOERROR", "NXDOMAIN"} /\ old.answer = <<>>
      /\ old.rcode = "NXDOMAIN" => Dead(name, type)
      /\ ServeAll(old.extra, name)
      /\ name \in AllNames /\ name \in Seq(STRING) /\ type \in Types /\ type = question[p].type
  <2>1. machine[p].iterations < MaxIterations
    BY <1>5, TypeFacts, Zenon DEF Sound
  <2> QED BY <1>1, <1>5, <2>1, LateFacts, Zenon DEF Looking
<1>7. PICK z \in Zones : Says(z, name, type, msg)
  BY <1>3, <1>5, <1>6, ReplySays, Zenon
<1>8. /\ msg \in Message /\ Len(msg.ns) <= 1 /\ GlueFits(msg) /\ ServeAll(msg.extra, name)
      /\ HasSOA(msg) => msg.ns = <<SOA(z)>>
      /\ IsDelegation(msg) => msg.ns = <<NS(z)>> /\ msg.ns[1].zone = z
  BY <1>7, SaidFacts, Zenon
<1> HIDE DEF old
<1>9. ASSUME NEW resp \in Message, GoTo(p, "CLASSIFY_RESP", resp), CacheSound',
             resp.rcode \in {"NOERROR", "NXDOMAIN"},
             resp.rcode = "NXDOMAIN" => Dead(name, type),
             ServeAll(resp.extra, name),
             GoodAnswer(name, type, resp.answer),
             resp.answer # <<>> => GlueFits(resp),
             resp.answer = <<>> => IF HasSOA(resp) THEN Denied(name, type, resp.rcode) ELSE Len(resp.ns) <= 1
      PROVE  TruthInv'
  <2>1. PICK m \in Machines :
            /\ machine' = [machine EXCEPT ![p] = m]
            /\ m.state = "CLASSIFY_RESP" /\ m.response = resp
            /\ m.qname = machine[p].qname /\ m.cnameChain = machine[p].cnameChain
    <3>1. "CLASSIFY_RESP" \in States
      BY Zenon DEF States
    <3> QED BY <1>6, <1>9, <3>1, GoToMoves
  <2>2. Chained(m, question[p])
    BY <1>6, <2>1, Zenon DEF Chained
  <2>3. Looking(m, question[p])
    BY <1>1, <1>6, <1>9, <2>1, Zenon DEF Looking
  <2>4. Classifiable(m, question[p])
    BY <1>1, <1>6, <1>9, <2>1, Zenon DEF Classifiable
  <2>5. Sound(m, question[p])
    BY <2>1, <2>2, <2>3, <2>4, Zenon DEF Sound, Active, Early, Late, Awaiting
  <2> QED BY <1>5, <1>9, <2>1, <2>5, LocalStep, Zenon DEF Awaiting
<1>10. CASE /\ msg.rcode = "NXDOMAIN" /\ UNCHANGED cache
            /\ GoTo(p, "CLASSIFY_RESP", [old EXCEPT !.rcode = msg.rcode, !.ns = msg.ns])
  <2> DEFINE resp == [old EXCEPT !.rcode = msg.rcode, !.ns = msg.ns]
  <2>1. resp = [rcode |-> msg.rcode, answer |-> old.answer, ns |-> msg.ns, extra |-> old.extra]
    <3>1. old \in Message
      BY <1>6, Zenon
    <3> QED BY <3>1, DenialReplaced, Zenon
  <2> HIDE DEF resp
  <2>2. resp.rcode = "NXDOMAIN" /\ resp.answer = <<>> /\ resp.ns = msg.ns /\ resp.extra = old.extra
    BY <1>6, <1>10, <2>1, Zenon
  <2>3. resp \in Message
    <3>1. /\ msg.rcode \in Rcodes /\ old.answer \in Seq(AllRecords)
          /\ msg.ns \in Seq([type : {"NS", "SOA"}, zone : Zones]) /\ old.extra \in SUBSET Hosts
      BY <1>6, <1>8, MessageFacts, Zenon
    <3> QED BY <2>1, <3>1, MessageMade, Zenon
  <2>4. Dead(name, type) /\ Denied(name, type, resp.rcode) /\ GoodAnswer(name, type, resp.answer)
    BY <1>7, <1>10, <2>2, NoAnswer, Zenon DEF Says, Denied
  <2>5. CacheSound'
    BY <1>10, CacheKept, Zenon
  <2> QED BY <1>6, <1>8, <1>9, <1>10, <2>2, <2>3, <2>4, <2>5, Zenon DEF resp
<1>11. CASE /\ msg.rcode = "NOERROR" /\ cache' = Stored(CacheKey(p), msg)
            /\ GoTo(p, "CLASSIFY_RESP", [msg EXCEPT !.rcode = rcode, !.answer = old.answer \o msg.answer])
  <2> DEFINE resp == [msg EXCEPT !.rcode = rcode, !.answer = old.answer \o msg.answer]
  <2>1. old.answer \o msg.answer = msg.answer
    <3>1. msg.answer \in Seq(AllRecords)
      BY <1>8, MessageFacts, Zenon
    <3> QED BY <1>6, <3>1, ConcatEmptySeq, Zenon
  <2>2. resp = [rcode |-> rcode, answer |-> old.answer \o msg.answer, ns |-> msg.ns, extra |-> msg.extra]
    BY <1>8, ReplyReplaced, Zenon
  <2> HIDE DEF resp
  <2>3. resp.rcode = rcode /\ resp.answer = msg.answer /\ resp.ns = msg.ns /\ resp.extra = msg.extra
    BY <2>1, <2>2, Zenon
  <2>4. /\ rcode \in {"NOERROR", "NXDOMAIN"}
        /\ rcode = "NXDOMAIN" => Dead(name, type)
    BY <1>4, <1>6, <1>11, Zenon
  <2>5. resp \in Message
    <3>1. /\ rcode \in Rcodes /\ msg.answer \in Seq(AllRecords)
          /\ msg.ns \in Seq([type : {"NS", "SOA"}, zone : Zones]) /\ msg.extra \in SUBSET Hosts
      <4>1. rcode \in Rcodes
        BY <2>4, Zenon DEF Rcodes
      <4> QED BY <1>8, <4>1, MessageFacts, Zenon
    <3> QED BY <2>1, <2>2, <3>1, MessageMade, Zenon
  <2>6. GoodAnswer(name, type, resp.answer) /\ GlueFits(resp) /\ ServeAll(resp.extra, name) /\ Len(resp.ns) <= 1
    BY <1>7, <1>8, <2>3, Zenon DEF Says, GlueFits
  <2>7. resp.answer = <<>> /\ HasSOA(resp) => Denied(name, type, resp.rcode)
    <3>1. HasSOA(resp) => HasSOA(msg)
      BY <2>3, Zenon DEF HasSOA
    <3>2. msg.answer = <<>> /\ HasSOA(msg) => NoData(name, type)
      BY <1>7, <1>8, <1>11, Zenon DEF Says
    <3>3. resp.answer = <<>> /\ HasSOA(resp) => NoData(name, type)
      BY <2>3, <3>1, <3>2, Zenon
    <3>4. CASE rcode = "NOERROR"
      BY <2>3, <3>3, <3>4, Zenon DEF Denied
    <3>5. CASE rcode = "NXDOMAIN"
      BY <2>3, <2>4, <3>5, Zenon DEF Denied
    <3> QED BY <2>4, <3>4, <3>5, Zenon
  <2>8. CacheSound'
    <3> DEFINE zone == <<msg.ns[1].zone, "delegation">>
               keys == (IF msg.answer # <<>> THEN {CacheKey(p)} ELSE {})
                          \cup (IF IsDelegation(msg) THEN {zone} ELSE {})
    <3>1. msg.answer # <<>> => EntryOK(CacheKey(p), msg)
      <4>1. /\ CacheKey(p) \in Keys /\ CacheKey(p)[1] = name /\ CacheKey(p)[2] = type
            /\ CacheKey(p)[2] # "delegation"
        BY <1>1, <1>6, Zenon DEF CacheKey, Keys, Types
      <4> QED BY <1>7, <1>8, <4>1, Zenon DEF EntryOK, Says
    <3>2. IsDelegation(msg) => EntryOK(zone, msg)
      <4>1. <<z, "delegation">> \in Keys
        BY ZoneFacts, Zenon DEF Keys
      <4> QED BY <1>7, <1>8, <4>1, Zenon DEF EntryOK, Says, From
    <3>3. cache' = Put(keys, msg)
      BY <1>11, Zenon DEF Stored
    <3>4. \A k \in keys : EntryOK(k, msg)
      BY <3>1, <3>2, Zenon
    <3> HIDE DEF keys
    <3> QED BY <3>3, <3>4, PutSound, Zenon
  <2>9. resp.answer = <<>> => IF HasSOA(resp) THEN Denied(name, type, resp.rcode) ELSE Len(resp.ns) <= 1
    BY <2>6, <2>7, Zenon
  <2>10. /\ resp.rcode \in {"NOERROR", "NXDOMAIN"}
         /\ resp.rcode = "NXDOMAIN" => Dead(name, type)
         /\ GoTo(p, "CLASSIFY_RESP", resp)
    BY <1>11, <2>3, <2>4, Zenon DEF resp
  <2> QED BY <1>9, <2>5, <2>6, <2>8, <2>9, <2>10, Zenon
<1> QED BY <1>5, <1>10, <1>11, Zenon

-----------------------------------------------------------------------------
(* The end of a run *)

\* Change returns a message: a client's reply is right, a sub-query's
\* addresses are its server's.
LEMMA ReturnStep ==
    ASSUME Counting, TruthInv, NEW p \in Procs, NEW msg \in Message, Return(p, msg),
           machine[p].state \notin {"done"} \cup Awaiting,
           IsWorker(p) => machine[p].state # "off",
           IsWorker(p) => \A k \in DOMAIN msg.answer : msg.answer[k].type = "A" => msg.answer[k].data = p[2],
           ~IsWorker(p) => Right(question[p], Written(msg)),
           UNCHANGED <<cache, aside>>
    PROVE  TruthInv'
<1>1. machine' = [machine EXCEPT ![p] = Off("done")]
      /\ UNCHANGED <<question, cache, nsLimit, background, expiries>>
  BY Zenon DEF Return, aside
<1>2. CASE IsWorker(p)
  <2>1. p \in Workers /\ p[2] \in Hosts
    BY <1>2, ProcFacts, Zenon
  <2>2. /\ UNCHANGED reply
        /\ \/ UNCHANGED nsResults
           \/ /\ IPs(msg) # <<>>
              /\ nsResults' = [nsResults EXCEPT ![p[1]] =
                                 Append(nsResults[p[1]], [name |-> p[2], ips |-> IPs(msg)])]
    BY <1>2, Zenon DEF Return
  <2>3. CASE UNCHANGED nsResults
    BY <1>1, <2>1, <2>2, <2>3, <1>2, WorkerEnds, Zenon
  <2>4. CASE /\ IPs(msg) # <<>>
             /\ nsResults' = [nsResults EXCEPT ![p[1]] =
                                Append(nsResults[p[1]], [name |-> p[2], ips |-> IPs(msg)])]
    <3> DEFINE ips == IPs(msg)
               x == [name |-> p[2], ips |-> ips]
    <3>1. ips \in Seq(AllNames) /\ \A i \in DOMAIN ips : ips[i] = p[2]
      <4>1. msg.answer \in Seq(AllRecords)
        BY MessageFacts, Zenon
      <4> QED BY <1>2, <4>1, IPsFacts, Zenon
    <3> HIDE DEF ips
    <3>2. ResultOK(x) /\ x.name = p[2]
      BY <2>1, <2>4, <3>1, Zenon DEF ResultOK, ips
    <3>3. nsResults' = [nsResults EXCEPT ![p[1]] = Append(nsResults[p[1]], x)]
      BY <2>4, Zenon DEF ips
    <3> HIDE DEF x
    <3> QED BY <1>1, <1>2, <2>1, <2>2, <3>2, <3>3, WorkerEnds, Zenon
  <2> QED BY <2>2, <2>3, <2>4, Zenon
<1>3. CASE ~IsWorker(p)
  <2>1. p[1] \in Requests /\ p = Client(p[1])
    BY <1>3, ProcFacts, Zenon
  <2>2. reply' = [reply EXCEPT ![p[1]] = Written(msg)] /\ UNCHANGED nsResults
    BY <1>3, Zenon DEF Return
  <2>3. Written(msg) \in [rcode : Rcodes, answer : Answers]
    BY MessageFacts, Zenon DEF Written, Answers
  <2>4. Right(question[p], Written(msg))
    BY <1>3, Zenon
  <2> DEFINE r == p[1]
             w == Written(msg)
  <2> HIDE DEF r, w
  <2>5. /\ r \in Requests /\ machine' = [machine EXCEPT ![Client(r)] = Off("done")]
        /\ machine[Client(r)].state \notin Awaiting
        /\ w \in [rcode : Rcodes, answer : Answers] /\ Right(question[Client(r)], w)
        /\ reply' = [reply EXCEPT ![r] = w]
    BY <1>1, <2>1, <2>2, <2>3, <2>4, Zenon DEF r, w
  <2> QED BY <1>1, <2>2, <2>5, ClientEnds, Zenon
<1> QED BY <1>2, <1>3, Zenon

\* A refusal.
LEMMA RefuseStep ==
    ASSUME Counting, TruthInv, NEW p \in Procs, NEW rcode \in {"SERVFAIL", "REFUSED", "FORMERR"},
           Return(p, WithRcode(Empty, rcode)),
           machine[p].state \notin {"done"} \cup Awaiting,
           IsWorker(p) => machine[p].state # "off",
           UNCHANGED <<cache, aside>>
    PROVE  TruthInv'
<1> DEFINE msg == WithRcode(Empty, rcode)
<1>1. msg = [rcode |-> rcode, answer |-> <<>>, ns |-> <<>>, extra |-> {}]
  BY EmptyMessage, RcodeReplaced, Zenon DEF WithRcode
<1>2. msg \in Message
  <2>1. /\ rcode \in Rcodes /\ <<>> \in Seq(AllRecords)
        /\ <<>> \in Seq([type : {"NS", "SOA"}, zone : Zones]) /\ {} \in SUBSET Hosts
    BY EmptySeq, Zenon DEF Rcodes
  <2> HIDE DEF msg
  <2> QED BY <1>1, <2>1, MessageMade, Zenon
<1> HIDE DEF msg
<1>3. msg.answer = <<>> /\ msg.rcode = rcode /\ DOMAIN msg.answer = {}
  BY <1>1
<1>4. Right(question[p], Written(msg))
  BY <1>3, Zenon DEF Right, Written
<1>5. Return(p, msg)
  BY Zenon DEF msg
<1> QED BY <1>2, <1>3, <1>4, <1>5, ReturnStep, Zenon

LEMMA RefusingSteps ==
    ASSUME Counting, TruthInv
    PROVE  /\ \A p \in Procs : ForwardFails(p) \/ CacheMissRefused(p) => TruthInv'
           /\ \A r \in Requests : ServeMalformed(r) => TruthInv'
<1>1. ASSUME NEW p \in Procs, ForwardFails(p) PROVE TruthInv'
  <2>1. PICK rcode \in {"SERVFAIL", "REFUSED"} : Return(p, WithRcode(Empty, rcode))
    BY <1>1, Zenon DEF ForwardFails
  <2>2. machine[p].state = "FORWARD_LOOKUP" /\ UNCHANGED <<cache, aside>>
    BY <1>1, Zenon DEF ForwardFails, In
  <2> QED BY <2>1, <2>2, RefuseStep, Zenon DEF Awaiting
<1>2. ASSUME NEW p \in Procs, CacheMissRefused(p) PROVE TruthInv'
  <2>1. /\ Return(p, WithRcode(Empty, "REFUSED"))
        /\ machine[p].state = "CACHE_LOOKUP" /\ UNCHANGED <<cache, aside>>
    BY <1>2, Zenon DEF CacheMissRefused, Missed, In
  <2> QED BY <2>1, RefuseStep, Zenon DEF Awaiting
<1>3. ASSUME NEW r \in Requests, ServeMalformed(r) PROVE TruthInv'
  <2> DEFINE p == Client(r)
  <2>1. /\ p \in Procs /\ ~IsWorker(p) /\ Return(p, WithRcode(Empty, "FORMERR"))
        /\ machine[p].state = "off" /\ UNCHANGED <<cache, aside>>
    BY <1>3, ProcFacts, Zenon DEF ServeMalformed
  <2> HIDE DEF p
  <2> QED BY <2>1, RefuseStep, Zenon DEF Awaiting
<1> QED BY <1>1, <1>2, <1>3, Zenon


-----------------------------------------------------------------------------
(* The end of the aliases *)

\* The function Canonical is defined by exists.
LEMMA CanonicalDef ==
    ASSUME Counting
    PROVE  Canonical = [hops \in 0 .. Cardinality(Records) |->
                  [name \in Seq(STRING) |->
                    IF hops = 0 \/ At(name, "CNAME") = {} THEN name
                    ELSE Canonical[hops - 1][AliasOf(name)]]]
<1> DEFINE T == {m \in Nat : \E g : g =
                  [hops \in 0 .. m |->
                    [name \in Seq(STRING) |->
                      IF hops = 0 \/ At(name, "CNAME") = {} THEN name
                      ELSE g[hops - 1][AliasOf(name)]]]}
<1>1. 0 \in T
  <2> DEFINE g == [hops \in 0 .. 0 |-> [name \in Seq(STRING) |-> name]]
  <2>1. ASSUME NEW hops \in 0 .. 0
        PROVE  g[hops] = [name \in Seq(STRING) |->
                            IF hops = 0 \/ At(name, "CNAME") = {} THEN name
                            ELSE g[hops - 1][AliasOf(name)]]
    <3>1. hops = 0 /\ g[hops] = [name \in Seq(STRING) |-> name]
      OBVIOUS
    <3> HIDE DEF g
    <3> QED BY <3>1, Zenon
  <2>2. g = [hops \in 0 .. 0 |->
              [name \in Seq(STRING) |->
                IF hops = 0 \/ At(name, "CNAME") = {} THEN name
                ELSE g[hops - 1][AliasOf(name)]]]
    BY <2>1, Zenon
  <2> HIDE DEF g
  <2> QED BY <2>2, Zenon
<1>2. ASSUME NEW m \in Nat, m \in T PROVE m + 1 \in T
  <2>1. PICK g : g = [hops \in 0 .. m |->
                       [name \in Seq(STRING) |->
                         IF hops = 0 \/ At(name, "CNAME") = {} THEN name
                         ELSE g[hops - 1][AliasOf(name)]]]
    BY <1>2, Zenon
  <2> DEFINE last == [name \in Seq(STRING) |->
                        IF At(name, "CNAME") = {} THEN name
                        ELSE g[m][AliasOf(name)]]
             h == [hops \in 0 .. m + 1 |-> IF hops = m + 1 THEN last ELSE g[hops]]
  <2>2. ASSUME NEW hops \in 0 .. m + 1
        PROVE  h[hops] = [name \in Seq(STRING) |->
                            IF hops = 0 \/ At(name, "CNAME") = {} THEN name
                            ELSE h[hops - 1][AliasOf(name)]]
    <3>1. CASE hops = m + 1
      <4>1. h[hops] = last
        BY <3>1, Zenon
      <4>2. h[hops - 1] = g[m] /\ hops # 0
        BY <3>1
      <4> HIDE DEF h
      <4> QED BY <4>1, <4>2, Zenon
    <3>2. CASE hops # m + 1
      <4>1. hops \in 0 .. m
        BY <3>2
      <4>2. h[hops] = g[hops]
        BY <3>2, <4>1, Zenon
      <4>3. g[hops] = [name \in Seq(STRING) |->
                         IF hops = 0 \/ At(name, "CNAME") = {} THEN name
                         ELSE g[hops - 1][AliasOf(name)]]
        BY <2>1, <4>1, Zenon
      <4>4. hops # 0 => h[hops - 1] = g[hops - 1]
        BY <4>1
      <4> HIDE DEF h
      <4> QED BY <4>2, <4>3, <4>4, Zenon
    <3> QED BY <3>1, <3>2, Zenon
  <2>3. h = [hops \in 0 .. m + 1 |->
              [name \in Seq(STRING) |->
                IF hops = 0 \/ At(name, "CNAME") = {} THEN name
                ELSE h[hops - 1][AliasOf(name)]]]
    BY <2>2, Zenon
  <2>4. m + 1 \in Nat
    OBVIOUS
  <2> HIDE DEF h
  <2> QED BY <2>3, <2>4, Zenon
<1>3. Cardinality(Records) \in T
  <2>1. Cardinality(Records) \in Nat
    BY Zenon DEF Counting
  <2> HIDE DEF T
  <2> QED BY <1>1, <1>2, <2>1, NatSetInduction, Zenon
<1>4. PICK g : g = [hops \in 0 .. Cardinality(Records) |->
                     [name \in Seq(STRING) |->
                       IF hops = 0 \/ At(name, "CNAME") = {} THEN name
                       ELSE g[hops - 1][AliasOf(name)]]]
  BY <1>3, Zenon
<1> QED BY <1>4, Zenon DEF Canonical

LEMMA CanonicalEnd ==
    ASSUME Counting, NEW h \in 0 .. Cardinality(Records), NEW name \in Seq(STRING), At(name, "CNAME") = {}
    PROVE  Canonical[h][name] = name
<1>1. Canonical[h] = [nm \in Seq(STRING) |->
                        IF h = 0 \/ At(nm, "CNAME") = {} THEN nm
                        ELSE Canonical[h - 1][AliasOf(nm)]]
  BY CanonicalDef, Zenon
<1> QED BY <1>1, Zenon

LEMMA CanonicalHop ==
    ASSUME Counting, NEW h \in 1 .. Cardinality(Records), NEW r \in Records, r.type = "CNAME"
    PROVE  Canonical[h][r.name] = Canonical[h - 1][r.data]
<1>1. Cardinality(Records) \in Nat
  BY Zenon DEF Counting
<1>2. h \in 0 .. Cardinality(Records) /\ h # 0
  BY <1>1
<1>3. Canonical[h] = [nm \in Seq(STRING) |->
                        IF h = 0 \/ At(nm, "CNAME") = {} THEN nm
                        ELSE Canonical[h - 1][AliasOf(nm)]]
  BY <1>2, CanonicalDef, Zenon
<1>4. r \in At(r.name, "CNAME") /\ r.name \in Seq(STRING)
  BY RecordFacts, Zenon DEF At
<1>5. AliasOf(r.name) = r.data
  <2>1. PICK s : s = (CHOOSE x \in At(r.name, "CNAME") : TRUE)
    BY Zenon
  <2>2. s \in At(r.name, "CNAME")
    BY <1>4, <2>1, Zenon
  <2>3. s \in Records /\ s.name = r.name
    BY <2>2, Zenon DEF At
  <2> QED BY <2>1, <2>3, OneRecord, Zenon DEF AliasOf
<1>6. Canonical[h][r.name] = Canonical[h - 1][AliasOf(r.name)]
  BY <1>2, <1>3, <1>4, Zenon
<1> QED BY <1>5, <1>6, Zenon

LEMMA PathLength ==
    ASSUME Counting, NEW name, NEW end, NEW rrs, Path(name, end, rrs), At(end, "CNAME") = {}
    PROVE  Len(rrs) <= Cardinality(Records)
<1> DEFINE f == [i \in 1 .. Len(rrs) |-> rrs[i]]
<1>1. /\ Len(rrs) \in Nat /\ \A i \in 1 .. Len(rrs) : rrs[i] \in Records
  BY PathFacts, Zenon
<1>2. f \in [1 .. Len(rrs) -> Records]
  BY <1>1, Zenon
<1>3. \A i, j \in 1 .. Len(rrs) : f[i] = f[j] => i = j
  <2>1. ASSUME NEW i \in 1 .. Len(rrs), NEW j \in 1 .. Len(rrs), f[i] = f[j], i # j PROVE FALSE
    <3>1. rrs[i] = rrs[j]
      BY <2>1, Zenon
    <3>2. i < j \/ j < i
      BY <1>1, <2>1
    <3> QED BY <3>1, <3>2, PathInjective, Zenon
  <2> QED BY <2>1, Zenon
<1> HIDE DEF f
<1> QED BY <1>1, <1>2, <1>3, Zenon DEF Counting

\* Aliases that lead to a name that has none lead to the end of the aliases.
LEMMA PathEnds ==
    ASSUME Counting, NEW name \in Seq(STRING), NEW end, NEW rrs, Path(name, end, rrs), At(end, "CNAME") = {}
    PROVE  Canonical[Cardinality(Records)][name] = end
<1> DEFINE L == Len(rrs)
           K == Cardinality(Records)
           at(t) == IF t < L THEN rrs[t + 1].name ELSE end
           T == {t \in Nat : t <= L => Canonical[K - t][at(t)] = Canonical[K][name]}
<1>1. /\ L \in Nat
      /\ \A k \in 1 .. L : rrs[k] \in Records /\ rrs[k].type = "CNAME"
      /\ L = 0 => end = name
      /\ L > 0 => rrs[1].name = name /\ rrs[L].data = end
      /\ \A k \in 1 .. L : k < L => rrs[k + 1].name = rrs[k].data
  BY PathFacts
<1>2. K \in Nat /\ L <= K
  BY PathLength, Zenon DEF Counting
<1> HIDE DEF L, K
<1>3. 0 \in T
  <2>1. at(0) = name
    BY <1>1
  <2>2. K - 0 = K
    BY <1>2
  <2> QED BY <2>1, <2>2, Zenon
<1>4. ASSUME NEW t \in Nat, t \in T PROVE t + 1 \in T
  <2> SUFFICES ASSUME t + 1 <= L PROVE Canonical[K - (t + 1)][at(t + 1)] = Canonical[K][name]
    OBVIOUS
  <2>1. /\ t < L /\ t <= L /\ t + 1 \in 1 .. L /\ K - t \in 1 .. K /\ (K - t) - 1 = K - (t + 1)
    BY <1>1, <1>2
  <2>2. at(t) = rrs[t + 1].name /\ Canonical[K - t][rrs[t + 1].name] = Canonical[K][name]
    BY <1>4, <2>1, Zenon
  <2>3. Canonical[K - t][rrs[t + 1].name] = Canonical[(K - t) - 1][rrs[t + 1].data]
    BY <1>1, <2>1, CanonicalHop, Zenon DEF K
  <2>4. at(t + 1) = rrs[t + 1].data
    <3>1. CASE t + 1 < L
      BY <1>1, <2>1, <3>1, Zenon
    <3>2. CASE ~(t + 1 < L)
      <4>1. t + 1 = L /\ L > 0
        BY <1>1, <2>1, <3>2
      <4>2. at(t + 1) = end
        BY <3>2, Zenon
      <4> QED BY <1>1, <4>1, <4>2, Zenon
    <3> QED BY <3>1, <3>2, Zenon
  <2> HIDE DEF at
  <2> QED BY <2>1, <2>2, <2>3, <2>4, Zenon
<1>5. L \in T
  <2> HIDE DEF T
  <2> QED BY <1>1, <1>3, <1>4, NatSetInduction, Zenon
<1>6. Canonical[K - L][end] = Canonical[K][name]
  <2>1. at(L) = end
    BY <1>1
  <2> HIDE DEF at
  <2> QED BY <1>1, <1>5, <2>1
<1>7. end \in Seq(STRING)
  <2>1. CASE L = 0
    BY <1>1, <2>1, Zenon
  <2>2. CASE L > 0
    <3>1. L \in 1 .. L
      BY <1>1, <2>2
    <3>2. rrs[L] \in Records /\ rrs[L].data = end
      BY <1>1, <2>2, <3>1, Zenon
    <3> QED BY <3>2, RecordFacts, Zenon
  <2> QED BY <1>1, <2>1, <2>2
<1>8. K - L \in 0 .. K
  BY <1>1, <1>2
<1>9. Canonical[K - L][end] = end
  BY <1>7, <1>8, CanonicalEnd, Zenon DEF K
<1> QED BY <1>6, <1>9, Zenon DEF K

-----------------------------------------------------------------------------
(* What answers and denials mean *)

\* A name denied at the end of aliases is denied where they start.
LEMMA DeniedEnd ==
    ASSUME Counting, NEW q \in Seq(STRING), NEW name \in Seq(STRING), NEW chain, Path(q, name, chain),
           NEW type, type = "CNAME" => chain = <<>>,
           NEW rcode, Denied(name, type, rcode)
    PROVE  Resolvable(q, type) /\ rcode = TrueRcode(q, type) /\ TrueData(q, type) = {}
<1>1. CASE type = "CNAME"
  <2>1. q = name /\ EndOf(q, type) = name
    BY <1>1, Zenon DEF Path, EndOf
  <2>2. CASE rcode = "NXDOMAIN" /\ Dead(name, type)
    <3>1. ~Exists(name)
      BY <1>1, <2>2, Zenon DEF Dead
    <3> QED BY <1>1, <2>1, <2>2, <3>1, NoRecordAtDead, Zenon DEF Resolvable, TrueRcode, TrueData
  <2>3. CASE rcode = "NOERROR" /\ NoData(name, type)
    BY <1>1, <2>1, <2>3, Zenon DEF Resolvable, TrueRcode, TrueData, NoData
  <2> QED BY <2>2, <2>3, Zenon DEF Denied
<1>2. CASE type # "CNAME"
  <2>1. ASSUME NEW end, NEW rrs, Path(q, end, rrs), At(end, "CNAME") = {}, At(end, type) = {},
               rcode = IF Exists(end) THEN "NOERROR" ELSE "NXDOMAIN"
        PROVE  Resolvable(q, type) /\ rcode = TrueRcode(q, type) /\ TrueData(q, type) = {}
    <3>1. EndOf(q, type) = end
      BY <1>2, <2>1, PathEnds, Zenon DEF EndOf
    <3> QED BY <2>1, <3>1, Zenon DEF Resolvable, TrueRcode, TrueData
  <2>2. CASE rcode = "NXDOMAIN" /\ ~Exists(name)
    BY <2>1, <2>2, NoRecordAtDead, Zenon
  <2>3. CASE rcode = "NXDOMAIN" /\ \E r \in At(name, "CNAME") : ~Exists(r.data)
    <3>1. PICK r \in Records : r.name = name /\ r.type = "CNAME" /\ ~Exists(r.data)
      BY <2>3, Zenon DEF At
    <3>2. Path(name, r.data, <<r>>)
      <4>1. <<r>> \in Seq(Records) /\ Len(<<r>>) = 1 /\ DOMAIN <<r>> = {1} /\ 1 .. 1 = {1} /\ <<r>>[1] = r
        OBVIOUS
      <4> QED BY <3>1, <4>1 DEF Path, Linked
    <3>3. Path(q, r.data, chain \o <<r>>)
      BY <3>2, PathConcat, Zenon
    <3> QED BY <2>1, <2>3, <3>1, <3>3, NoRecordAtDead, Zenon
  <2>4. CASE rcode = "NOERROR" /\ NoData(name, type)
    BY <2>1, <2>4, Zenon DEF NoData
  <2> QED BY <2>2, <2>3, <2>4, Zenon DEF Denied, Dead
<1> QED BY <1>1, <1>2, Zenon

\* An answer of the type asked for, at the end of aliases, is the world's.
LEMMA AnswerEnd ==
    ASSUME Counting, NEW q \in Seq(STRING), NEW name, NEW chain, Path(q, name, chain),
           NEW type \in Types, type = "CNAME" => chain = <<>>,
           NEW X, NEW ans \in Seq(X), GoodAnswer(name, type, ans),
           \E i \in DOMAIN ans : ans[i].type = type
    PROVE  /\ Resolvable(q, type) /\ TrueRcode(q, type) = "NOERROR"
           /\ ans # <<>> /\ ans[Len(ans)] \in TrueData(q, type)
<1>1. /\ Len(ans) \in Nat /\ DOMAIN ans = 1 .. Len(ans) /\ (ans = <<>>) = (Len(ans) = 0)
      /\ \A i \in 1 .. Len(ans) : ans[i] \in Records
      /\ ans # <<>> => ans[1].name = name /\ ans[1] \in Records
  BY AnswerFacts
<1>2. CASE type = "CNAME"
  <2>1. q = name /\ EndOf(q, type) = name
    BY <1>2, EmptySeq, Zenon DEF Path, EndOf
  <2>2. Len(ans) = 1 /\ ans # <<>> /\ ans[1].type = type
    BY <1>1, <1>2 DEF GoodAnswer
  <2>3. ans[1] \in At(name, type) /\ Exists(name)
    BY <1>1, <2>2, RecordFacts, Zenon DEF At
  <2> QED BY <1>2, <2>1, <2>2, <2>3, Zenon DEF Resolvable, TrueRcode, TrueData
<1>3. CASE type # "CNAME"
  <2>1. type = "A"
    BY <1>1, <1>3, RecordFacts, Zenon
  <2>2. /\ ans # <<>> /\ ans[Len(ans)] \in Records /\ ans[Len(ans)].type = "A"
        /\ \E rrs : Path(name, ans[Len(ans)].name, rrs)
    BY <2>1, AddressEnds, Zenon
  <2> DEFINE r == ans[Len(ans)]
  <2>3. PICK rrs : Path(name, r.name, rrs)
    BY <2>2, Zenon
  <2>4. Path(q, r.name, chain \o rrs)
    BY <2>3, PathConcat, Zenon
  <2>5. At(r.name, "CNAME") = {} /\ r \in At(r.name, "A") /\ Exists(r.name)
    BY <2>2, OneRecord, RecordFacts, ZenonT(60) DEF At
  <2>6. EndOf(q, type) = r.name
    BY <1>3, <2>4, <2>5, PathEnds, Zenon DEF EndOf
  <2> QED BY <2>1, <2>2, <2>5, <2>6, Zenon DEF Resolvable, TrueRcode, TrueData
<1> QED BY <1>2, <1>3, Zenon

-----------------------------------------------------------------------------
(* The end of a run *)

\* The reply of a request that comes to RETURN_RESP is right.
LEMMA ReturnIsRight ==
    ASSUME Counting, NEW m \in Machines, NEW q \in [name : AllNames, type : Types], Chained(m, q), Returnable(m, q)
    PROVE  Right(q, Written(buildFinalResponse(m)))
<1> DEFINE msg == Written(buildFinalResponse(m))
           chain == m.cnameChain
           ans == m.response.answer
<1>1. msg.rcode = m.response.rcode /\ msg.answer = chain \o ans
  <2> DEFINE final == buildFinalResponse(m)
  <2>1. final = [rcode |-> m.response.rcode, answer |-> chain \o ans,
                 ns |-> m.response.ns, extra |-> m.response.extra]
    BY FinalResponse, Zenon
  <2> HIDE DEF final, chain, ans
  <2>2. final.rcode = m.response.rcode /\ final.answer = chain \o ans
    BY <2>1, Zenon
  <2> QED BY <2>2, Zenon DEF Written, final
<1> HIDE DEF msg
<1> SUFFICES ASSUME msg.rcode \in {"NOERROR", "NXDOMAIN"}, ~Local(q.name)
             PROVE  /\ Resolvable(q.name, q.type)
                    /\ msg.rcode = TrueRcode(q.name, q.type)
                    /\ Linked(q.name, msg.answer)
                    /\ \A i \in DOMAIN msg.answer : msg.answer[i] \in Records
                    /\ TrueData(q.name, q.type) # {} =>
                         msg.answer # <<>> /\ msg.answer[Len(msg.answer)] \in TrueData(q.name, q.type)
  BY Zenon DEF Right, msg
<1>2. /\ q.name \in Seq(STRING) /\ q.type \in Types /\ m.qname \in Seq(STRING) /\ ans \in Seq(AllRecords)
      /\ q.type = "CNAME" => chain = <<>>
      /\ Path(q.name, m.qname, chain)
  BY ZoneFacts, ChainedPath, MessageFacts, Zenon DEF Machines, Chained
<1>3. \/ /\ m.response.rcode = "NOERROR" /\ Matches(m.response, q.type)
         /\ GoodAnswer(m.qname, q.type, ans)
      \/ ans = <<>> /\ Denied(m.qname, q.type, m.response.rcode)
  BY Zenon DEF Returnable
<1>4. CASE /\ m.response.rcode = "NOERROR" /\ Matches(m.response, q.type)
           /\ GoodAnswer(m.qname, q.type, ans)
  <2>1. /\ Resolvable(q.name, q.type) /\ TrueRcode(q.name, q.type) = "NOERROR"
        /\ ans # <<>> /\ ans[Len(ans)] \in TrueData(q.name, q.type)
    BY <1>2, <1>4, AnswerEnd, ZenonT(60) DEF Matches
  <2>2. ans \in Seq(Records) /\ Linked(m.qname, ans)
    <3>1. Linked(m.qname, ans)
      BY <1>4, Zenon DEF GoodAnswer
    <3> HIDE DEF ans
    <3> QED BY <1>2, <1>4, <3>1, AnswerFacts, Zenon
  <2>3. /\ msg.answer \in Seq(Records) /\ Linked(q.name, msg.answer)
        /\ msg.answer # <<>> /\ msg.answer[Len(msg.answer)] = ans[Len(ans)]
    <3> HIDE DEF chain, ans
    <3> QED BY <1>1, <1>2, <2>1, <2>2, ChainThenAnswer
  <2>4. \A i \in DOMAIN msg.answer : msg.answer[i] \in Records
    BY <2>3
  <2> QED BY <1>1, <1>4, <2>1, <2>3, <2>4, Zenon
<1>5. CASE ans = <<>> /\ Denied(m.qname, q.type, m.response.rcode)
  <2>1. Resolvable(q.name, q.type) /\ m.response.rcode = TrueRcode(q.name, q.type) /\ TrueData(q.name, q.type) = {}
    BY <1>2, <1>5, DeniedEnd, Zenon
  <2>2. <<>> \in Seq(Records) /\ Linked(m.qname, <<>>)
    BY EmptySeq DEF Linked
  <2>3. msg.answer \in Seq(Records) /\ Linked(q.name, msg.answer)
    <3>1. ans \in Seq(Records) /\ Linked(m.qname, ans)
      BY <1>5, <2>2, Zenon
    <3> HIDE DEF chain, ans
    <3> QED BY <1>1, <1>2, <3>1, ChainThenAnswer
  <2>4. \A i \in DOMAIN msg.answer : msg.answer[i] \in Records
    BY <2>3
  <2> QED BY <1>1, <2>1, <2>3, <2>4, Zenon
<1> QED BY <1>3, <1>4, <1>5, Zenon

LEMMA ReturnRespStep ==
    ASSUME Counting, TruthInv, NEW p \in Procs, ReturnResp(p)
    PROVE  TruthInv'
<1> DEFINE m == machine[p]
           msg == buildFinalResponse(m)
<1>1. m.state = "RETURN_RESP" /\ Return(p, msg) /\ UNCHANGED <<cache, aside>>
  BY Zenon DEF ReturnResp, In
<1>2. /\ m \in Machines /\ question[p] \in [name : AllNames, type : Types]
      /\ Chained(m, question[p]) /\ Returnable(m, question[p])
  BY <1>1, TypeFacts, Zenon DEF Sound, Active
<1>3. msg \in Message /\ msg.answer = m.cnameChain \o m.response.answer
  <2> HIDE DEF m
  <2>1. /\ msg = [rcode |-> m.response.rcode, answer |-> m.cnameChain \o m.response.answer,
                  ns |-> m.response.ns, extra |-> m.response.extra]
        /\ msg \in Message
    BY <1>2, FinalResponse, Zenon
  <2> HIDE DEF msg
  <2> QED BY <2>1, Zenon
<1>4. Right(question[p], Written(msg))
  <2> HIDE DEF m
  <2> QED BY <1>2, ReturnIsRight, Zenon
<1>5. ASSUME IsWorker(p)
      PROVE  \A k \in DOMAIN msg.answer : msg.answer[k].type = "A" => msg.answer[k].data = p[2]
  <2>1. p \in Workers /\ p[1] \in Requests /\ p[2] \in Hosts
    BY <1>5, ProcFacts
  <2>2. question[p] = [name |-> p[2], type |-> "A"]
    BY <2>1 DEF TruthInv, Crew
  <2>3. question[p].name = p[2] /\ question[p].type = "A"
    BY <2>2
  <2>4. m.cnameChain = <<>>
    <3> HIDE DEF m
    <3> QED BY <1>2, <2>1, <2>3, HostUnchained, Zenon
  <2>5. m.response.answer \in Seq(AllRecords)
    BY <1>2, MessageFacts, Zenon DEF Machines
  <2>6. msg.answer = m.response.answer
    <3> HIDE DEF m, msg
    <3> QED BY <1>3, <2>4, <2>5, ConcatEmptySeq, Zenon
  <2>7. \A i \in DOMAIN m.response.answer :
           m.response.answer[i].type = "A" => m.response.answer[i].data = p[2]
    BY <1>2, <2>1, <2>3, Zenon DEF Returnable
  <2> QED BY <2>6, <2>7, Zenon
<1> HIDE DEF msg
<1> QED BY <1>1, <1>3, <1>4, <1>5, ReturnStep, Zenon DEF Awaiting

-----------------------------------------------------------------------------
(* Every step *)

LEMMA TruthStep ==
    ASSUME Counting, TruthInv, NEW p \in Procs, Step(p)
    PROVE  TruthInv'
BY StateInitStep, HostsLookupStep, ForwardMissStep, ForwardHitStep, CacheHitStep, CacheMissStep,
   ClassifyNegativeStep, ClassifyAnswerStep, followCNAMEStep, ClassifyReferralStep, ExtractGlueStep,
   LookupNSCacheStep, QueryUpstreamStep, StartSubQueriesStep, StartWorkerStep, WorkerCancelledStep,
   FirstNSResultStep, NSResolvedStep, ExchangeStep, ReturnRespStep, FailingSteps, RefusingSteps, Zenon DEF Step

LEMMA TruthNext ==
    ASSUME Counting, TruthInv, [Next]_vars
    PROVE  TruthInv'
<1>1. CASE UNCHANGED vars
  BY <1>1, Zenon DEF TruthInv, TypeOK, RunsSound, CacheSound, ResultsSound, Crew, ReplyOK, vars
<1>2. ASSUME NEW r \in Requests, NEW q \in Questions, ServeDNS(r, q) PROVE TruthInv'
  BY <1>2, ServeDNSStep, Zenon
<1>3. ASSUME NEW r \in Requests, ServeMalformed(r) PROVE TruthInv'
  BY <1>3, RefusingSteps, Zenon
<1>4. ASSUME NEW p \in Procs, Step(p) PROVE TruthInv'
  BY <1>4, TruthStep, Zenon
<1>5. ASSUME NEW k \in DOMAIN cache, Expire(k) PROVE TruthInv'
  BY <1>5, ExpireStep, Zenon
<1>6. ASSUME NEW result \in background, updateNSIPsCache(result) PROVE TruthInv'
  BY <1>6, updateNSIPsCacheStep, Zenon
<1>7. CASE Quiet
  BY <1>1, <1>7, Zenon DEF Quiet
<1> QED BY <1>1, <1>2, <1>3, <1>4, <1>5, <1>6, <1>7, Zenon DEF Next

-----------------------------------------------------------------------------
(* Numbers and finite sets *)

INSTANCE FiniteSetTheorems

LEMMA CountingHolds == Counting
<1>1. ASSUME NEW T \in SUBSET Nat, T # {} PROVE \E m \in T : \A k \in T : m <= k
  <2> DEFINE R == {ss \in Nat \X Nat : ss[1] < ss[2]}
  <2>1. IsWellFoundedOn(R, Nat)
    BY NatLessThanWellFounded, Zenon DEF OpToRel
  <2> HIDE DEF R
  <2>2. PICK x \in T : \A y \in T : ~ (<<y, x>> \in R)
    BY <1>1, <2>1, WFMin, Zenon
  <2>3. ASSUME NEW y \in T PROVE x <= y
    <3>1. y \in Nat /\ x \in Nat
      BY Zenon
    <3>2. y < x => <<y, x>> \in R
      BY <3>1, Zenon DEF R
    <3>3. ~(y < x)
      BY <2>2, <3>2, Zenon
    <3> QED BY <3>1, <3>3
  <2> QED BY <2>3, Zenon
<1>2. Cardinality(Records) \in Nat
  BY WorldAssumption, FS_CardinalityType, Zenon
<1>3. ASSUME NEW n \in Nat, NEW f \in [1 .. n -> Records], \A i, j \in 1 .. n : f[i] = f[j] => i = j
      PROVE  n <= Cardinality(Records)
  <2>1. f \in Injection(1 .. n, Records)
    BY <1>3, Zenon DEF Injection, IsInjective
  <2>2. Cardinality(1 .. n) <= Cardinality(Records)
    BY <2>1, WorldAssumption, FS_Injection, Zenon
  <2>3. Cardinality(1 .. n) = n
    <3>1. 1 \in Int /\ n \in Int
      OBVIOUS
    <3>2. Cardinality(1 .. n) = IF 1 > n THEN 0 ELSE n - 1 + 1
      BY <3>1, FS_Interval, Zenon
    <3> QED BY <3>2
  <2> QED BY <2>2, <2>3, Zenon
<1> QED BY <1>1, <1>2, <1>3, Zenon DEF Counting

-----------------------------------------------------------------------------
(* The invariant holds *)

\* Every run of Change, every cache entry and every reply is as it should be,
\* whatever the interleaving of requests, their sub-queries and the goroutines
\* that write the cache behind them.
THEOREM TruthKept == Spec => []TruthInv
<1>1. Init => TruthInv
  BY TruthInit, Zenon
<1>2. TruthInv /\ [Next]_vars => TruthInv'
  BY TruthNext, CountingHolds, Zenon
<1> QED BY <1>1, <1>2, PTL DEF Spec

-----------------------------------------------------------------------------
(* What it means *)

\* The runs of Change, the cache and the replies are well formed in every
\* world, for any number of requests and iterations.
THEOREM ResolverTypes == Spec => []TypeOK
<1>1. TruthInv => TypeOK
  BY Zenon DEF TruthInv
<1> QED BY <1>1, TruthKept, PTL

\* The chain of aliases followCNAME builds leads from the question to the name
\* at hand and visits no target twice, however long it gets.
THEOREM ChainLeads == Spec => []ChainLeadsToQuestion
<1>1. TruthInv => ChainLeadsToQuestion
  <2> SUFFICES ASSUME TruthInv, NEW p \in Procs, machine[p].state \notin {"off", "blocked", "done"}
               PROVE  /\ Linked(question[p].name, machine[p].cnameChain)
                      /\ machine[p].qname = IF Len(machine[p].cnameChain) = 0 THEN question[p].name
                                            ELSE machine[p].cnameChain[Len(machine[p].cnameChain)].data
                      /\ \A i, j \in 1 .. Len(machine[p].cnameChain) :
                            machine[p].cnameChain[i].data = machine[p].cnameChain[j].data => i = j
    BY Zenon DEF ChainLeadsToQuestion
  <2>1. Chained(machine[p], question[p])
    BY TypeFacts, Zenon DEF Sound, Active
  <2> QED BY <2>1, Zenon DEF Chained
<1> QED BY <1>1, TruthKept, PTL

\* queryUpstream only asks servers that serve a zone of the name: neither a
\* delegation nor glue outlives the name it was for.
THEOREM RightServersAsked == Spec => []AskedServersServe
<1>1. TruthInv => AskedServersServe
  BY TypeFacts, Zenon DEF AskedServersServe, Sound, ServeAll
<1> QED BY <1>1, TruthKept, PTL

\* What the requests and the goroutines of updateNSIPsCache store is what the
\* world says of the key: records that lead from it, a true denial, or the
\* servers of the zone.
THEOREM CacheIsTruthful == Spec => []CacheTruthful
<1>1. TruthInv => CacheTruthful
  <2> SUFFICES ASSUME TruthInv, NEW k \in DOMAIN cache
               PROVE  LET msg == cache[k]
                      IN  IF k[2] = "delegation"
                          THEN IsDelegation(msg) /\ msg.ns[1].zone = k[1] /\ msg.extra \subseteq NSNames[k[1]]
                          ELSE /\ Linked(k[1], msg.answer)
                               /\ \A i \in DOMAIN msg.answer : msg.answer[i] \in Records
                               /\ msg.answer = <<>> => /\ TrueData(k[1], k[2]) = {}
                                                       /\ msg.rcode = TrueRcode(k[1], k[2])
    BY Zenon DEF CacheTruthful
  <2> DEFINE msg == cache[k]
  <2>1. EntryOK(k, msg)
    BY Zenon DEF TruthInv, CacheSound
  <2>2. CASE k[2] = "delegation"
    <3>1. msg.ns = <<NS(k[1])>> /\ msg.extra \subseteq NSNames[k[1]]
      BY <2>1, <2>2, Zenon DEF EntryOK
    <3>2. msg.ns # <<>> /\ msg.ns[1].type = "NS" /\ msg.ns[1].zone = k[1]
      BY <3>1 DEF NS
    <3> QED BY <2>2, <3>1, <3>2, Zenon DEF IsDelegation
  <2>3. CASE k[2] # "delegation"
    <3>1. GoodAnswer(k[1], k[2], msg.answer) /\ (msg.answer = <<>> => Denied(k[1], k[2], msg.rcode))
      BY <2>1, <2>3, Zenon DEF EntryOK
    <3>2. Linked(k[1], msg.answer) /\ \A i \in DOMAIN msg.answer : msg.answer[i] \in Records
      BY <3>1, Zenon DEF GoodAnswer
    <3>3. k[1] \in Seq(STRING)
      BY <2>1, ZoneFacts, Zenon DEF EntryOK, Keys
    <3>4. ASSUME msg.answer = <<>>
          PROVE  TrueData(k[1], k[2]) = {} /\ msg.rcode = TrueRcode(k[1], k[2])
      <4>1. Denied(k[1], k[2], msg.rcode) /\ Path(k[1], k[1], <<>>)
        BY <3>1, <3>4, EmptyPath, Zenon
      <4> QED BY <3>3, <4>1, DeniedEnd, CountingHolds, Zenon
    <3> QED BY <2>3, <3>2, <3>4, Zenon
  <2> QED BY <2>2, <2>3, Zenon
<1> QED BY <1>1, TruthKept, PTL

\* A positive or negative reply of ServeDNS is the right one: Rcode, chain and
\* data are those of the name at the end of the question's aliases.
THEOREM RepliesCorrect == Spec => []ReplyCorrect
<1>1. TruthInv => ReplyCorrect
  <2>1. ASSUME TruthInv, NEW r \in Requests PROVE Right(question[Client(r)], reply[r])
    BY <2>1, Zenon DEF TruthInv, ReplyOK
  <2> QED BY <2>1, Zenon DEF ReplyCorrect, Right
<1> QED BY <1>1, TruthKept, PTL
=============================================================================

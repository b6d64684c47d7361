--------------------------- MODULE DashboardProofs ---------------------------
(* What rec53top shows is honest, and the operator keeps their place, for   *)
(* every set of happenings and every session.  The panels' verdicts rest on *)
(* how far two snapshots of counters are apart, so the proof starts with    *)
(* what counting occurrences says about two functions of happenings.        *)
EXTENDS Dashboard, FiniteSetTheorems, TLAPS

Statuses == {"DISCONNECTED", "UNAVAILABLE", "WARMING", "DISABLED", "DEGRADED", "OK"}
Snapshots == [done : [Happenings -> Nat], xdp : BOOLEAN, since : [Happenings -> Nat], whole : BOOLEAN]
Dashboards == [mode : {"DISCONNECTED", "WARMING", "OK", "STALE"}, lastSuccess : BOOLEAN, error : BOOLEAN,
               curr : Snapshots \cup {NoSnapshot}, status : [Panels -> Statuses]]

\* How a snapshot relates to the good one before it.  Within one life of
\* rec53 a counter stands where it stood, plus what happened since; after a
\* restart it counts some of what happened since, and nothing else.
Follows(prev, curr) ==
    /\ curr.whole => prev \in Snapshots
    /\ \A h \in Happenings :
          /\ curr.whole => curr.done[h] = prev.done[h] + curr.since[h]
          /\ ~curr.whole => curr.done[h] <= curr.since[h]
          /\ curr.whole /\ curr.since[h] > 0 /\ h \cap XDPSeries # {} => curr.xdp

\* What NoPhantomTrouble and TroubleShown say of the dashboard on the screen,
\* said of any dashboard.
TroubledIn(d, p) == \E h \in Happenings : d.curr.since[h] > 0 /\ Trouble(p, h)
Honest(d) ==
    /\ \A p \in Panels : d.status[p] = "DEGRADED" => TroubledIn(d, p)
    /\ d.curr # NoSnapshot /\ d.curr.whole =>
          \A p \in {"snapshot", "upstream", "xdp"} :
              TroubledIn(d, p) => d.status[p] \in {"DEGRADED", "UNAVAILABLE"}

HonestInv ==
    /\ Snapshot \in Snapshots /\ target.up \in BOOLEAN
    /\ DOMAIN target = {"up", "xdp", "done"} /\ DOMAIN gap = {"since", "whole"}
    /\ previous \in Snapshots \cup {NoSnapshot}
    /\ Follows(previous, Snapshot)
    /\ latest \in Dashboards /\ Honest(latest)
    /\ scraper = "draw" => queued.kind \in {"good", "error"}
    /\ queued.kind = "good" => queued.dashboard \in Dashboards /\ Honest(queued.dashboard)

PlaceInv ==
    /\ DOMAIN ui = {"detailPanel", "focusPanel", "helpShown", "detailView"}
    /\ ui.detailPanel \in Panels \cup {"none"} /\ ui.focusPanel \in Panels
    /\ DOMAIN ui.detailView = Panels
    /\ \A p \in DOMAIN subviews : ui.detailView[p] \in Range(subviews[p])
    /\ ~InOverview => ui.focusPanel = ui.detailPanel

-----------------------------------------------------------------------------
(* Counting *)

LEMMA PairsFinite ==
  ASSUME NEW H, IsFiniteSet(H), NEW n, \A h \in H : n[h] \in Nat
  PROVE  IsFiniteSet(UNION {{h} \X (1..n[h]) : h \in H})
  <1> DEFINE F == [h \in H |-> {h} \X (1..n[h])]
             T == {{h} \X (1..n[h]) : h \in H}
  <1>1. F \in Surjection(H, T)
    BY Zenon DEF Surjection
  <1>2. IsFiniteSet(T)
    <2> HIDE DEF F, T
    <2> QED
      BY <1>1, FS_Surjection
  <1>3. ASSUME NEW h \in H PROVE IsFiniteSet({h} \X (1..n[h]))
    <2>1. IsFiniteSet({h})
      BY FS_Singleton
    <2>2. n[h] \in Int /\ 1 \in Int
      OBVIOUS
    <2>3. IsFiniteSet(1..n[h])
      BY <2>2, FS_Interval
    <2>4. QED
      BY <2>1, <2>3, FS_Product
  <1>4. \A t \in T : IsFiniteSet(t)
    BY <1>3
  <1>5. QED
    BY <1>2, <1>4, FS_UNION, Zenon

LEMMA Occurs ==
  ASSUME NEW snap, NEW s
  PROVE  \A x : x \in Occurrences(snap, s) <=>
                \E h \in Happenings : \E i \in 1..snap.done[h] : s \in h /\ x = <<h, i>>
  BY DEF Occurrences

LEMMA ValueCounts ==
  ASSUME NEW snap \in Snapshots, NEW s
  PROVE  IsFiniteSet(Occurrences(snap, s)) /\ Value(snap, s) \in Nat
  <1>1. IsFiniteSet({g \in Happenings : s \in g})
    BY DashboardAssumption, FS_Subset
  <1>2. \A h \in {g \in Happenings : s \in g} : snap.done[h] \in Nat
    BY DEF Snapshots
  <1>3. IsFiniteSet(Occurrences(snap, s))
    BY <1>1, <1>2, PairsFinite DEF Occurrences
  <1>4. QED
    BY <1>3, FS_CardinalityType DEF Value

\* A series stands higher only if one of its happenings occurred more often.
LEMMA HigherValue ==
  ASSUME NEW prev \in Snapshots, NEW curr \in Snapshots, NEW s, Value(curr, s) > Value(prev, s)
  PROVE  \E h \in Happenings : s \in h /\ curr.done[h] > prev.done[h]
  <1> SUFFICES ASSUME \A h \in Happenings : s \in h => ~(curr.done[h] > prev.done[h]) PROVE FALSE
    OBVIOUS
  <1>1. \A h \in Happenings : prev.done[h] \in Nat /\ curr.done[h] \in Nat
    BY DEF Snapshots
  <1>2. \A h \in Happenings : s \in h => 1..curr.done[h] \subseteq 1..prev.done[h]
    BY <1>1
  <1>3. ASSUME NEW x \in Occurrences(curr, s) PROVE x \in Occurrences(prev, s)
    <2>1. PICK h \in Happenings : \E i \in 1..curr.done[h] : s \in h /\ x = <<h, i>>
      BY Occurs
    <2>2. \E i \in 1..prev.done[h] : s \in h /\ x = <<h, i>>
      BY <1>2, <2>1
    <2>3. QED
      BY <2>2, Occurs
  <1>4. Value(curr, s) <= Value(prev, s)
    BY <1>3, ValueCounts, FS_Subset DEF Value
  <1>5. QED
    BY <1>4, ValueCounts

\* A series stands higher as soon as one of its happenings occurred more
\* often and none less often.
LEMMA ValueRises ==
  ASSUME NEW prev \in Snapshots, NEW curr \in Snapshots, NEW s,
         \A h \in Happenings : prev.done[h] <= curr.done[h],
         NEW g \in Happenings, s \in g, prev.done[g] < curr.done[g]
  PROVE  Value(prev, s) < Value(curr, s)
  <1>1. \A h \in Happenings : prev.done[h] \in Nat /\ curr.done[h] \in Nat
    BY DEF Snapshots
  <1>2. \A h \in Happenings : 1..prev.done[h] \subseteq 1..curr.done[h]
    BY <1>1
  <1>3. ASSUME NEW x \in Occurrences(prev, s) PROVE x \in Occurrences(curr, s)
    <2>1. PICK h \in Happenings : \E i \in 1..prev.done[h] : s \in h /\ x = <<h, i>>
      BY Occurs
    <2>2. \E i \in 1..curr.done[h] : s \in h /\ x = <<h, i>>
      BY <1>2, <2>1
    <2>3. QED
      BY <2>2, Occurs
  <1>4. curr.done[g] \in 1..curr.done[g] /\ curr.done[g] \notin 1..prev.done[g]
    BY <1>1
  <1>5. <<g, curr.done[g]>> \in Occurrences(curr, s)
    BY <1>4, Occurs, Zenon
  <1>6. <<g, curr.done[g]>> \notin Occurrences(prev, s)
    BY <1>4, Occurs
  <1>7. Value(prev, s) <= Value(curr, s) /\ Value(prev, s) # Value(curr, s)
    BY <1>3, <1>5, <1>6, ValueCounts, FS_Subset DEF Value
  <1>8. QED
    BY <1>7, ValueCounts

LEMMA TotalPositive ==
  ASSUME NEW S, IsFiniteSet(S), NEW d, \A s \in S : d[s] \in Nat
  PROVE  Total(d, S) \in Nat /\ (Total(d, S) > 0 <=> \E s \in S : d[s] > 0)
  <1> DEFINE U == UNION {{s} \X (1..d[s]) : s \in S}
  <1>1. IsFiniteSet(U)
    BY PairsFinite
  <1>2. (\E s \in S : d[s] > 0) => U # {}
    <2> SUFFICES ASSUME NEW s \in S, d[s] > 0 PROVE U # {}
      OBVIOUS
    <2>1. 1 \in 1..d[s]
      OBVIOUS
    <2>2. <<s, 1>> \in {s} \X (1..d[s])
      BY <2>1
    <2>3. <<s, 1>> \in U
      BY <2>2
    <2>4. QED
      BY <2>3
  <1>3. U # {} => \E s \in S : d[s] > 0
    <2> SUFFICES ASSUME NEW x \in U PROVE \E s \in S : d[s] > 0
      OBVIOUS
    <2>1. PICK s \in S : x \in {s} \X (1..d[s])
      BY Zenon
    <2>2. d[s] \in Nat /\ 1..d[s] # {}
      BY <2>1
    <2>3. QED
      BY <2>2
  <1> HIDE DEF U
  <1>4. Cardinality(U) \in Nat /\ (Cardinality(U) = 0 <=> U = {})
    BY <1>1, FS_CardinalityType, FS_EmptySet
  <1>5. Total(d, S) = Cardinality(U)
    BY DEF Total, U
  <1>6. QED
    BY <1>2, <1>3, <1>4, <1>5

-----------------------------------------------------------------------------
(* The difference of two snapshots *)

LEMMA SeriesUsed ==
  /\ {"SERVFAIL", "le10", "le1000", "leInf", "miss", "load failure", "save failure", "timeout", "bad_rcode",
      "fallback", "sm failure"} \subseteq Series
  /\ Family.response_counter = {"NOERROR", "NXDOMAIN", "SERVFAIL"} /\ Family.response_counter \subseteq Series
  /\ Family.cache_lookup = {"positive_hit", "negative_hit", "delegation_hit", "miss"}
  /\ Family.cache_lookup \subseteq Series
  /\ Family.sm_transition = {"success_exit", "servfail_exit", "error_exit"} /\ Family.sm_transition \subseteq Series
  /\ XDPSeries = {"sync error", "xdp error"} /\ XDPSeries \subseteq Series
  <1>1. \A f \in DOMAIN Family : Family[f] \subseteq Series
    BY Zenon DEF Series
  <1>2. {"response_counter", "latency", "cache_lookup", "snapshot_operations", "upstream_failures",
         "upstream_fallback", "xdp_sync_errors", "xdp_errors", "sm_transition", "sm_failures"} \subseteq DOMAIN Family
    BY DEF Family
  <1>3. /\ Family.response_counter = {"NOERROR", "NXDOMAIN", "SERVFAIL"}
        /\ Family.latency = {"le10", "le1000", "leInf"}
        /\ Family.cache_lookup = {"positive_hit", "negative_hit", "delegation_hit", "miss"}
        /\ Family.snapshot_operations = {"load success", "load failure", "save success", "save failure"}
        /\ Family.upstream_failures = {"timeout", "bad_rcode", "other failure"}
        /\ Family.upstream_fallback = {"fallback"}
        /\ Family.xdp_sync_errors = {"sync error"}
        /\ Family.xdp_errors = {"xdp error"}
        /\ Family.sm_transition = {"success_exit", "servfail_exit", "error_exit"}
        /\ Family.sm_failures = {"sm failure"}
    BY DEF Family
  <1>4. QED
    BY <1>1, <1>2, <1>3, Zenon DEF XDPSeries

LEMMA DeltaTyped ==
  ASSUME NEW prev \in Snapshots, NEW curr \in Snapshots, NEW s \in Series
  PROVE  /\ deltaMap(prev, curr)[s] \in Nat
         /\ deltaMap(prev, curr)[s] = IF Value(curr, s) < Value(prev, s) THEN 0
                                      ELSE Value(curr, s) - Value(prev, s)
  <1>1. deltaMap(prev, curr)[s] = IF Value(curr, s) < Value(prev, s) THEN 0
                                  ELSE Value(curr, s) - Value(prev, s)
    BY DEF deltaMap, deltaFloat
  <1>2. Value(curr, s) \in Nat /\ Value(prev, s) \in Nat
    BY ValueCounts
  <1>3. QED
    BY <1>1, <1>2

\* What grew happened since the snapshot before, restart or not.
LEMMA DeltaHappened ==
  ASSUME NEW prev \in Snapshots, NEW curr \in Snapshots, Follows(prev, curr),
         NEW s \in Series, deltaMap(prev, curr)[s] > 0
  PROVE  \E h \in Happenings : s \in h /\ curr.since[h] > 0
  <1>1. Value(curr, s) > Value(prev, s)
    BY DeltaTyped, ValueCounts
  <1>2. PICK h \in Happenings : s \in h /\ curr.done[h] > prev.done[h]
    BY <1>1, HigherValue
  <1>3. prev.done[h] \in Nat /\ curr.done[h] \in Nat /\ curr.since[h] \in Nat /\ curr.whole \in BOOLEAN
    BY DEF Snapshots
  <1>4. curr.done[h] = prev.done[h] + curr.since[h] \/ curr.done[h] <= curr.since[h]
    BY <1>3 DEF Follows
  <1>5. curr.since[h] > 0
    BY <1>2, <1>3, <1>4
  <1>6. QED
    BY <1>2, <1>5

\* What happened within one life of rec53 has grown.
LEMMA HappenedDelta ==
  ASSUME NEW prev \in Snapshots, NEW curr \in Snapshots, Follows(prev, curr), curr.whole,
         NEW s \in Series, NEW g \in Happenings, s \in g, curr.since[g] > 0
  PROVE  deltaMap(prev, curr)[s] > 0
  <1>1. \A h \in Happenings : prev.done[h] \in Nat /\ curr.done[h] \in Nat /\ curr.since[h] \in Nat
    BY DEF Snapshots
  <1>2. \A h \in Happenings : curr.done[h] = prev.done[h] + curr.since[h]
    BY DEF Follows
  <1>3. (\A h \in Happenings : prev.done[h] <= curr.done[h]) /\ prev.done[g] < curr.done[g]
    BY <1>1, <1>2
  <1>4. Value(prev, s) < Value(curr, s)
    BY <1>3, ValueRises
  <1>5. QED
    BY <1>4, DeltaTyped, ValueCounts

\* If no request was slow since the snapshot before, the last bucket of the
\* latency histogram grew no more than the one before it.
LEMMA NoSlowGrowth ==
  ASSUME NEW prev \in Snapshots, NEW curr \in Snapshots, Follows(prev, curr),
         \A h \in Happenings : curr.since[h] > 0 /\ "leInf" \in h => "le1000" \in h
  PROVE  deltaMap(prev, curr)["leInf"] <= deltaMap(prev, curr)["le1000"]
  <1>1. {"le1000", "leInf"} \subseteq Series
    BY SeriesUsed, Zenon
  <1>2. \A h \in Happenings : /\ prev.done[h] \in Nat /\ curr.done[h] \in Nat /\ curr.since[h] \in Nat
                              /\ curr.whole \in BOOLEAN
    BY DEF Snapshots
  <1>3. \A s \in Series : /\ Value(prev, s) \in Nat /\ Value(curr, s) \in Nat
                          /\ IsFiniteSet(Occurrences(prev, s)) /\ IsFiniteSet(Occurrences(curr, s))
    BY ValueCounts
  <1>4. ASSUME NEW snap \in Snapshots, NEW x \in Occurrences(snap, "le1000")
        PROVE  x \in Occurrences(snap, "leInf")
    <2>1. PICK h \in Happenings : \E i \in 1..snap.done[h] : "le1000" \in h /\ x = <<h, i>>
      BY Occurs
    <2>2. "leInf" \in h
      BY <2>1, DashboardAssumption
    <2>3. QED
      BY <2>1, <2>2, Occurs
  <1>5. CASE ~curr.whole
    <2>1. ASSUME NEW x \in Occurrences(curr, "leInf") PROVE x \in Occurrences(curr, "le1000")
      <3>1. PICK h \in Happenings : \E i \in 1..curr.done[h] : "leInf" \in h /\ x = <<h, i>>
        BY Occurs
      <3>2. curr.done[h] > 0 /\ curr.done[h] <= curr.since[h]
        BY <1>2, <1>5, <3>1 DEF Follows
      <3>3. "le1000" \in h
        BY <1>2, <3>1, <3>2
      <3>4. QED
        BY <3>1, <3>3, Occurs
    <2>2. Value(curr, "leInf") <= Value(curr, "le1000")
      BY <1>1, <1>3, <2>1, FS_Subset DEF Value
    <2>3. Value(prev, "le1000") <= Value(prev, "leInf")
      BY <1>1, <1>3, <1>4, FS_Subset DEF Value
    <2>4. QED
      BY <1>1, <1>3, <2>2, <2>3, DeltaTyped
  <1>6. CASE curr.whole
    <2> DEFINE Grown(s) == Occurrences(curr, s) \ Occurrences(prev, s)
    <2>1. \A h \in Happenings : curr.done[h] = prev.done[h] + curr.since[h]
      BY <1>6 DEF Follows
    <2>2. ASSUME NEW s \in Series
          PROVE  Cardinality(Grown(s)) = Value(curr, s) - Value(prev, s) /\ IsFiniteSet(Grown(s))
      <3>1. ASSUME NEW x \in Occurrences(prev, s) PROVE x \in Occurrences(curr, s)
        <4>1. PICK h \in Happenings : \E i \in 1..prev.done[h] : s \in h /\ x = <<h, i>>
          BY Occurs
        <4>2. 1..prev.done[h] \subseteq 1..curr.done[h]
          BY <1>2, <2>1
        <4>3. QED
          BY <4>1, <4>2, Occurs
      <3>2. Occurrences(curr, s) \cap Occurrences(prev, s) = Occurrences(prev, s)
        BY <3>1
      <3>3. QED
        BY <1>3, <3>2, FS_Difference, Zenon DEF Value
    <2>3. ASSUME NEW x \in Grown("leInf") PROVE x \in Grown("le1000")
      <3>1. PICK h \in Happenings : \E i \in 1..curr.done[h] : "leInf" \in h /\ x = <<h, i>>
        BY Occurs
      <3>2. PICK i \in 1..curr.done[h] : "leInf" \in h /\ x = <<h, i>>
        BY <3>1
      <3>3. i \notin 1..prev.done[h]
        BY <3>2, Occurs
      <3>4. curr.since[h] > 0
        BY <1>2, <2>1, <3>2, <3>3
      <3>5. x \in Occurrences(curr, "le1000")
        BY <3>2, <3>4, Occurs
      <3>6. QED
        BY <1>4, <3>5
    <2> HIDE DEF Grown
    <2>4. Cardinality(Grown("leInf")) <= Cardinality(Grown("le1000"))
      BY <1>1, <2>2, <2>3, FS_Subset
    <2>5. Value(curr, "leInf") - Value(prev, "leInf") <= Value(curr, "le1000") - Value(prev, "le1000")
      BY <1>1, <2>2, <2>4
    <2>6. QED
      BY <1>1, <1>3, <2>5, DeltaTyped
  <1>7. QED
    BY <1>5, <1>6

-----------------------------------------------------------------------------
(* The panels *)

LEMMA PanelSet == Panels = {"traffic", "cache", "snapshot", "upstream", "xdp", "state"}
  <1>1. overviewPanelOrder = <<"traffic", "cache", "snapshot", "upstream", "xdp", "state">>
    BY DEF overviewPanelOrder
  <1>2. DOMAIN overviewPanelOrder = 1..6
    BY <1>1
  <1>3. \A i \in 1..6 : overviewPanelOrder[i] \in {"traffic", "cache", "snapshot", "upstream", "xdp", "state"}
    BY <1>1
  <1>4. /\ overviewPanelOrder[1] = "traffic" /\ overviewPanelOrder[2] = "cache" /\ overviewPanelOrder[3] = "snapshot"
        /\ overviewPanelOrder[4] = "upstream" /\ overviewPanelOrder[5] = "xdp" /\ overviewPanelOrder[6] = "state"
    BY <1>1
  <1>5. QED
    BY <1>2, <1>3, <1>4 DEF Panels, Range

LEMMA JudgedIs ==
  ASSUME NEW required, NEW prev, NEW curr, NEW degraded \in BOOLEAN
  PROVE  LET status == Judged(required, prev, curr, degraded)
         IN  /\ status \in Statuses \ {"DISABLED", "DISCONNECTED"}
             /\ status = "DEGRADED" => prev # NoSnapshot /\ degraded
             /\ prev # NoSnapshot /\ degraded => status \in {"DEGRADED", "UNAVAILABLE"}
  BY DEF Judged, Statuses

LEMMA NoSnapshotIsNone == NoSnapshot \notin Snapshots
  <1>1. DOMAIN NoSnapshot = {"done"}
    BY DEF NoSnapshot
  <1>2. \A snap \in Snapshots : "xdp" \in DOMAIN snap
    BY DEF Snapshots
  <1>3. QED
    BY <1>1, <1>2

\* A total is positive only if one of its series happened since the snapshot
\* before, and within one life of rec53 it is whenever one did.
LEMMA TotalHappened ==
  ASSUME NEW prev \in Snapshots, NEW curr \in Snapshots, Follows(prev, curr),
         NEW S \in SUBSET Series, IsFiniteSet(S)
  PROVE  /\ Total(deltaMap(prev, curr), S) \in Nat
         /\ Total(deltaMap(prev, curr), S) > 0 =>
               \E h \in Happenings : h \cap S # {} /\ curr.since[h] > 0
         /\ curr.whole /\ (\E h \in Happenings : h \cap S # {} /\ curr.since[h] > 0) =>
               Total(deltaMap(prev, curr), S) > 0
  <1>1. \A s \in S : deltaMap(prev, curr)[s] \in Nat
    BY DeltaTyped
  <1>2. /\ Total(deltaMap(prev, curr), S) \in Nat
        /\ Total(deltaMap(prev, curr), S) > 0 <=> \E s \in S : deltaMap(prev, curr)[s] > 0
    BY <1>1, TotalPositive
  <1>3. ASSUME NEW s \in S, deltaMap(prev, curr)[s] > 0
        PROVE  \E h \in Happenings : h \cap S # {} /\ curr.since[h] > 0
    <2>1. PICK h \in Happenings : s \in h /\ curr.since[h] > 0
      BY <1>3, DeltaHappened
    <2>2. QED
      BY <2>1
  <1>4. ASSUME curr.whole, NEW h \in Happenings, h \cap S # {}, curr.since[h] > 0
        PROVE  \E s \in S : deltaMap(prev, curr)[s] > 0
    <2>1. PICK s \in S : s \in h
      BY <1>4
    <2>2. QED
      BY <1>4, <2>1, HappenedDelta
  <1>5. QED
    BY <1>2, <1>3, <1>4

LEMMA SmallSets ==
  ASSUME NEW a, NEW b, NEW c, NEW d
  PROVE  /\ IsFiniteSet({a, b}) /\ IsFiniteSet({a, b, c}) /\ IsFiniteSet({a, b, c, d})
  <1>1. IsFiniteSet({a})
    BY FS_Singleton
  <1>2. IsFiniteSet({a} \cup {b})
    BY <1>1, FS_AddElement
  <1>3. IsFiniteSet(({a} \cup {b}) \cup {c})
    BY <1>2, FS_AddElement
  <1>4. IsFiniteSet((({a} \cup {b}) \cup {c}) \cup {d})
    BY <1>3, FS_AddElement
  <1>5. /\ {a, b} = {a} \cup {b} /\ {a, b, c} = ({a} \cup {b}) \cup {c}
        /\ {a, b, c, d} = (({a} \cup {b}) \cup {c}) \cup {d}
    OBVIOUS
  <1>6. QED
    BY <1>2, <1>3, <1>4, <1>5

LEMMA TroubleIs ==
  ASSUME NEW h
  PROVE  /\ Trouble("traffic", h) = ("SERVFAIL" \in h \/ ("leInf" \in h /\ "le1000" \notin h))
         /\ Trouble("cache", h) = ("miss" \in h)
         /\ Trouble("snapshot", h) = (h \cap {"load failure", "save failure"} # {})
         /\ Trouble("upstream", h) = (h \cap {"timeout", "bad_rcode", "fallback"} # {})
         /\ Trouble("xdp", h) = (h \cap XDPSeries # {})
         /\ Trouble("state", h) = (h \cap {"sm failure", "servfail_exit", "error_exit"} # {})
  BY DEF Trouble

LEMMA UntolerantSets ==
  \A S \in {{"load failure", "save failure"}, {"timeout", "bad_rcode", "fallback"}, XDPSeries} :
      S \in SUBSET Series /\ IsFiniteSet(S)
  <1>1. {"load failure", "save failure"} \in SUBSET Series /\ IsFiniteSet({"load failure", "save failure"})
    BY SeriesUsed, SmallSets, Zenon
  <1>2. {"timeout", "bad_rcode", "fallback"} \in SUBSET Series /\ IsFiniteSet({"timeout", "bad_rcode", "fallback"})
    BY SeriesUsed, SmallSets, Zenon
  <1>3. XDPSeries \in SUBSET Series /\ IsFiniteSet(XDPSeries)
    BY SeriesUsed, SmallSets, Zenon
  <1>4. QED
    BY <1>1, <1>2, <1>3, Zenon

\* Each panel is DEGRADED only for trouble of its own.
LEMMA PanelsAccuse ==
  ASSUME NEW prev \in Snapshots, NEW curr \in Snapshots, Follows(prev, curr)
  PROVE  LET Since(p) == \E h \in Happenings : curr.since[h] > 0 /\ Trouble(p, h)
         IN  /\ buildTrafficPanel(prev, curr) = "DEGRADED" => Since("traffic")
             /\ buildCachePanel(prev, curr) = "DEGRADED" => Since("cache")
             /\ buildSnapshotPanel(prev, curr) = "DEGRADED" => Since("snapshot")
             /\ buildUpstreamPanel(prev, curr) = "DEGRADED" => Since("upstream")
             /\ buildXDPPanel(prev, curr) = "DEGRADED" => Since("xdp")
             /\ buildStateMachinePanel(prev, curr) = "DEGRADED" => Since("state")
  <1> DEFINE d == deltaMap(prev, curr)
             Since(p) == \E h \in Happenings : curr.since[h] > 0 /\ Trouble(p, h)
  <1>1. \A s \in Series : d[s] \in Nat /\ (d[s] > 0 => \E h \in Happenings : s \in h /\ curr.since[h] > 0)
    BY DeltaTyped, DeltaHappened
  <1>2. \A S \in SUBSET Series : IsFiniteSet(S) =>
            /\ Total(d, S) \in Nat
            /\ Total(d, S) > 0 => \E h \in Happenings : h \cap S # {} /\ curr.since[h] > 0
    BY TotalHappened
  <1>3. (\A h \in Happenings : curr.since[h] > 0 /\ "leInf" \in h => "le1000" \in h) => d["leInf"] <= d["le1000"]
    BY NoSlowGrowth
  <1>4. {"SERVFAIL", "le1000", "leInf", "miss", "sm failure"} \subseteq Series
    BY SeriesUsed, Zenon
  <1>5. buildTrafficPanel(prev, curr) = "DEGRADED" => Since("traffic")
    <2> DEFINE total == Total(d, Family.response_counter)
               degraded == (total > 0 /\ 20 * d["SERVFAIL"] >= total) \/ SlowTail(d)
    <2>1. total \in Nat
      BY <1>2, SeriesUsed, SmallSets, Zenon
    <2>2. SlowTail(d) => d["leInf"] > d["le1000"]
      <3>1. d["leInf"] \in Nat /\ d["le1000"] \in Nat
        BY <1>1, <1>4, Zenon
      <3> HIDE DEF d
      <3>2. QED
        BY <3>1 DEF SlowTail
    <2>3. SlowTail(d) => Since("traffic")
      <3>1. SUFFICES ASSUME SlowTail(d) PROVE Since("traffic")
        OBVIOUS
      <3>2. ~ (d["leInf"] <= d["le1000"])
        <4>1. d["leInf"] \in Nat /\ d["le1000"] \in Nat
          BY <1>1, <1>4, Zenon
        <4> HIDE DEF d
        <4>2. QED
          BY <2>2, <3>1, <4>1
      <3>3. PICK h \in Happenings : curr.since[h] > 0 /\ "leInf" \in h /\ "le1000" \notin h
        BY <1>3, <3>2
      <3>4. QED
        BY <3>3, TroubleIs, Zenon
    <2>4. total > 0 /\ 20 * d["SERVFAIL"] >= total => Since("traffic")
      <3>1. SUFFICES ASSUME total > 0, 20 * d["SERVFAIL"] >= total PROVE Since("traffic")
        OBVIOUS
      <3>2. d["SERVFAIL"] > 0
        <4>1. d["SERVFAIL"] \in Nat
          BY <1>1, <1>4, Zenon
        <4> HIDE DEF d, total
        <4>2. QED
          BY <2>1, <3>1, <4>1
      <3>3. PICK h \in Happenings : "SERVFAIL" \in h /\ curr.since[h] > 0
        BY <1>1, <1>4, <3>2, Zenon
      <3>4. QED
        BY <3>3, TroubleIs, Zenon
    <2>5. degraded \in BOOLEAN
      BY DEF SlowTail
    <2>6. buildTrafficPanel(prev, curr) = Judged({"query_counter", "response_counter", "latency"}, prev, curr, degraded)
      BY DEF buildTrafficPanel
    <2> HIDE DEF degraded
    <2>7. buildTrafficPanel(prev, curr) = "DEGRADED" => degraded
      BY <2>5, <2>6, JudgedIs, Zenon
    <2>8. QED
      BY <2>3, <2>4, <2>7 DEF degraded
  <1>6. buildCachePanel(prev, curr) = "DEGRADED" => Since("cache")
    <2>1. buildCachePanel(prev, curr) = "DEGRADED" => d["miss"] > 0
      BY DEF buildCachePanel, Judged
    <2>2. QED
      BY <1>1, <1>4, <2>1, TroubleIs, Zenon
  <1>7. buildSnapshotPanel(prev, curr) = "DEGRADED" => Since("snapshot")
    <2>1. buildSnapshotPanel(prev, curr) = "DEGRADED" => Total(d, {"load failure", "save failure"}) > 0
      BY Zenon DEF buildSnapshotPanel, Judged
    <2>2. Total(d, {"load failure", "save failure"}) > 0 => \E h \in Happenings : h \cap {"load failure", "save failure"} # {} /\ curr.since[h] > 0
      BY <1>2, UntolerantSets, Zenon
    <2>3. QED
      BY <2>1, <2>2, TroubleIs, Zenon
  <1>8. buildUpstreamPanel(prev, curr) = "DEGRADED" => Since("upstream")
    <2>1. buildUpstreamPanel(prev, curr) = "DEGRADED" => Total(d, {"timeout", "bad_rcode", "fallback"}) > 0
      BY DEF buildUpstreamPanel, Judged
    <2>2. Total(d, {"timeout", "bad_rcode", "fallback"}) > 0 => \E h \in Happenings : h \cap {"timeout", "bad_rcode", "fallback"} # {} /\ curr.since[h] > 0
      BY <1>2, UntolerantSets, Zenon
    <2>3. QED
      BY <2>1, <2>2, TroubleIs, Zenon
  <1>9. buildXDPPanel(prev, curr) = "DEGRADED" => Since("xdp")
    <2>1. buildXDPPanel(prev, curr) = "DEGRADED" => Total(d, XDPSeries) > 0
      BY DEF buildXDPPanel, Judged
    <2>2. Total(d, XDPSeries) > 0 => \E h \in Happenings : h \cap XDPSeries # {} /\ curr.since[h] > 0
      BY <1>2, UntolerantSets, Zenon
    <2>3. QED
      BY <2>1, <2>2, TroubleIs, Zenon
  <1>10. buildStateMachinePanel(prev, curr) = "DEGRADED" => Since("state")
    <2>1. buildStateMachinePanel(prev, curr) = "DEGRADED" => d["sm failure"] > 0 \/ BadTerminalFirst(d)
      BY Zenon DEF buildStateMachinePanel, Judged
    <2>2. BadTerminalFirst(d) => \E e \in {"servfail_exit", "error_exit"} : e \in Series /\ d[e] > 0
      BY SeriesUsed, Zenon DEF BadTerminalFirst
    <2>3. buildStateMachinePanel(prev, curr) = "DEGRADED" =>
             \E e \in {"sm failure", "servfail_exit", "error_exit"} : e \in Series /\ d[e] > 0
      BY <1>4, <2>1, <2>2, Zenon
    <2>4. buildStateMachinePanel(prev, curr) = "DEGRADED" =>
             \E e \in {"sm failure", "servfail_exit", "error_exit"} :
                \E h \in Happenings : e \in h /\ curr.since[h] > 0
      BY <1>1, <2>3, Zenon
    <2>5. \A h : \A e \in {"sm failure", "servfail_exit", "error_exit"} : e \in h => Trouble("state", h)
      BY TroubleIs, Zenon
    <2>6. QED
      BY <2>4, <2>5, Zenon
  <1>11. QED
    BY <1>5, <1>6, <1>7, <1>8, <1>9, <1>10

\* The panels without a tolerance show what happened within one life of rec53.
LEMMA PanelsShow ==
  ASSUME NEW prev \in Snapshots, NEW curr \in Snapshots, Follows(prev, curr), curr.whole
  PROVE  LET Since(p) == \E h \in Happenings : curr.since[h] > 0 /\ Trouble(p, h)
         IN  /\ Since("snapshot") => buildSnapshotPanel(prev, curr) \in {"DEGRADED", "UNAVAILABLE"}
             /\ Since("upstream") => buildUpstreamPanel(prev, curr) \in {"DEGRADED", "UNAVAILABLE"}
             /\ Since("xdp") => buildXDPPanel(prev, curr) \in {"DEGRADED", "UNAVAILABLE"}
  <1> DEFINE d == deltaMap(prev, curr)
             Since(p) == \E h \in Happenings : curr.since[h] > 0 /\ Trouble(p, h)
  <1>1. \A S \in SUBSET Series : IsFiniteSet(S) =>
           ((\E h \in Happenings : h \cap S # {} /\ curr.since[h] > 0) => Total(d, S) > 0)
    BY TotalHappened
  <1>2. prev # NoSnapshot
    BY NoSnapshotIsNone
  <1>3. Since("snapshot") => buildSnapshotPanel(prev, curr) \in {"DEGRADED", "UNAVAILABLE"}
    <2>1. Since("snapshot") => Total(d, {"load failure", "save failure"}) > 0
      <3>1. Since("snapshot") => \E h \in Happenings : h \cap {"load failure", "save failure"} # {} /\ curr.since[h] > 0
        BY TroubleIs, Zenon
      <3>2. QED
        BY <1>1, <3>1, UntolerantSets, Zenon
    <2>2. QED
      BY <1>2, <2>1, Zenon DEF buildSnapshotPanel, Judged
  <1>4. Since("upstream") => buildUpstreamPanel(prev, curr) \in {"DEGRADED", "UNAVAILABLE"}
    <2>1. Since("upstream") => Total(d, {"timeout", "bad_rcode", "fallback"}) > 0
      <3>1. Since("upstream") => \E h \in Happenings : h \cap {"timeout", "bad_rcode", "fallback"} # {} /\ curr.since[h] > 0
        BY TroubleIs, Zenon
      <3>2. QED
        BY <1>1, <3>1, UntolerantSets, Zenon
    <2>2. QED
      BY <1>2, <2>1 DEF buildUpstreamPanel, Judged
  <1>5. Since("xdp") => buildXDPPanel(prev, curr) \in {"DEGRADED", "UNAVAILABLE"}
    <2>1. Since("xdp") => Total(d, XDPSeries) > 0
      <3>1. Since("xdp") => \E h \in Happenings : h \cap XDPSeries # {} /\ curr.since[h] > 0
        BY TroubleIs, Zenon
      <3>2. QED
        BY <1>1, <3>1, UntolerantSets, Zenon
    <2>2. Since("xdp") => curr.xdp
      BY TroubleIs, Zenon DEF Follows
    <2>3. QED
      BY <1>2, <2>1, <2>2 DEF buildXDPPanel, Judged
  <1>6. QED
    BY <1>3, <1>4, <1>5

-----------------------------------------------------------------------------
(* The dashboards *)

LEMMA BlankDashboard ==
  ASSUME NEW d, d.curr = NoSnapshot, d.status = [p \in Panels |-> "DISCONNECTED"]
  PROVE  Honest(d)
  BY DEF Honest

LEMMA DerivedBlank ==
  ASSUME NEW prev
  PROVE  /\ deriveDashboard(prev, NoSnapshot) \in Dashboards
         /\ Honest(deriveDashboard(prev, NoSnapshot))
  <1> DEFINE d == [mode |-> "DISCONNECTED", lastSuccess |-> TRUE, error |-> FALSE, curr |-> NoSnapshot,
                   status |-> [p \in Panels |-> "DISCONNECTED"]]
  <1>1. deriveDashboard(prev, NoSnapshot) = d
    BY DEF deriveDashboard
  <1>2. d \in Dashboards
    BY DEF Dashboards, Statuses
  <1>3. Honest(d)
    BY BlankDashboard
  <1>4. QED
    BY <1>1, <1>2, <1>3

LEMMA PanelStatuses ==
  ASSUME NEW prev, NEW curr
  PROVE  /\ buildTrafficPanel(prev, curr) \in Statuses /\ buildCachePanel(prev, curr) \in Statuses
         /\ buildSnapshotPanel(prev, curr) \in Statuses /\ buildUpstreamPanel(prev, curr) \in Statuses
         /\ buildXDPPanel(prev, curr) \in Statuses /\ buildStateMachinePanel(prev, curr) \in Statuses
  BY DEF buildTrafficPanel, buildCachePanel, buildSnapshotPanel, buildUpstreamPanel, buildXDPPanel,
         buildStateMachinePanel, Judged, Statuses

LEMMA DerivedHonest ==
  ASSUME NEW prev \in Snapshots \cup {NoSnapshot}, NEW curr \in Snapshots, Follows(prev, curr)
  PROVE  deriveDashboard(prev, curr) \in Dashboards /\ Honest(deriveDashboard(prev, curr))
  <1> DEFINE status == [traffic  |-> buildTrafficPanel(prev, curr),
                        cache    |-> buildCachePanel(prev, curr),
                        snapshot |-> buildSnapshotPanel(prev, curr),
                        upstream |-> buildUpstreamPanel(prev, curr),
                        xdp      |-> buildXDPPanel(prev, curr),
                        state    |-> buildStateMachinePanel(prev, curr)]
             d == deriveDashboard(prev, curr)
  <1>1. d = [mode |-> IF prev = NoSnapshot THEN "WARMING" ELSE "OK",
             lastSuccess |-> TRUE, error |-> FALSE, curr |-> curr, status |-> status]
    BY NoSnapshotIsNone DEF deriveDashboard
  <1>2. status \in [Panels -> Statuses]
    <2>1. DOMAIN status = {"traffic", "cache", "snapshot", "upstream", "xdp", "state"}
      OBVIOUS
    <2>2. QED
      BY <2>1, PanelSet, PanelStatuses
  <1>3. /\ status["traffic"] = buildTrafficPanel(prev, curr) /\ status["cache"] = buildCachePanel(prev, curr)
        /\ status["snapshot"] = buildSnapshotPanel(prev, curr) /\ status["upstream"] = buildUpstreamPanel(prev, curr)
        /\ status["xdp"] = buildXDPPanel(prev, curr) /\ status["state"] = buildStateMachinePanel(prev, curr)
    OBVIOUS
  <1> HIDE DEF status
  <1>4. d \in Dashboards /\ d.curr = curr /\ d.status = status
    BY <1>1, <1>2 DEF Dashboards
  <1> HIDE DEF d
  <1>5. \A p : TroubledIn(d, p) = \E h \in Happenings : curr.since[h] > 0 /\ Trouble(p, h)
    BY <1>4 DEF TroubledIn
  <1>6. ASSUME NEW p \in Panels, status[p] = "DEGRADED" PROVE TroubledIn(d, p)
    <2>1. CASE prev = NoSnapshot
      <3>1. /\ buildTrafficPanel(prev, curr) # "DEGRADED" /\ buildCachePanel(prev, curr) # "DEGRADED"
            /\ buildSnapshotPanel(prev, curr) # "DEGRADED" /\ buildUpstreamPanel(prev, curr) # "DEGRADED"
            /\ buildXDPPanel(prev, curr) # "DEGRADED" /\ buildStateMachinePanel(prev, curr) # "DEGRADED"
        BY <2>1 DEF buildTrafficPanel, buildCachePanel, buildSnapshotPanel, buildUpstreamPanel, buildXDPPanel,
                    buildStateMachinePanel, Judged
      <3>2. QED
        BY <1>3, <1>6, <3>1, PanelSet
    <2>2. CASE prev \in Snapshots
      <3>1. /\ status["traffic"] = "DEGRADED" => TroubledIn(d, "traffic")
            /\ status["cache"] = "DEGRADED" => TroubledIn(d, "cache")
            /\ status["snapshot"] = "DEGRADED" => TroubledIn(d, "snapshot")
            /\ status["upstream"] = "DEGRADED" => TroubledIn(d, "upstream")
            /\ status["xdp"] = "DEGRADED" => TroubledIn(d, "xdp")
            /\ status["state"] = "DEGRADED" => TroubledIn(d, "state")
        BY <1>3, <1>5, <2>2, PanelsAccuse, Zenon
      <3>2. QED
        BY <1>6, <3>1, PanelSet
    <2>3. QED
      BY <2>1, <2>2
  <1>7. ASSUME curr.whole, NEW p \in {"snapshot", "upstream", "xdp"}, TroubledIn(d, p)
        PROVE  status[p] \in {"DEGRADED", "UNAVAILABLE"}
    <2>1. prev \in Snapshots
      BY <1>7 DEF Follows
    <2>2. QED
      BY <1>3, <1>5, <1>7, <2>1, PanelsShow, Zenon
  <1>8. Honest(d)
    BY <1>4, <1>6, <1>7 DEF Honest
  <1>9. QED
    BY <1>4, <1>8 DEF d

LEMMA ScrapeErrorHonest ==
  ASSUME NEW d \in Dashboards, Honest(d)
  PROVE  withScrapeError(d) \in Dashboards /\ Honest(withScrapeError(d))
  <1>1. CASE ~d.lastSuccess
    <2> DEFINE e == [mode |-> "DISCONNECTED", lastSuccess |-> FALSE, error |-> TRUE, curr |-> NoSnapshot,
                     status |-> [p \in Panels |-> "DISCONNECTED"]]
    <2>1. withScrapeError(d) = e
      BY <1>1 DEF withScrapeError
    <2>2. e \in Dashboards
      BY DEF Dashboards, Statuses
    <2>3. Honest(e)
      BY BlankDashboard
    <2>4. QED
      BY <2>1, <2>2, <2>3
  <1>2. CASE d.lastSuccess
    <2>1. withScrapeError(d) = [d EXCEPT !.mode = "STALE", !.error = TRUE]
      BY <1>2 DEF withScrapeError
    <2>2. withScrapeError(d) \in Dashboards /\ withScrapeError(d).curr = d.curr /\ withScrapeError(d).status = d.status
      BY <2>1, Zenon DEF Dashboards
    <2>3. QED
      BY <2>2 DEF Honest, TroubledIn
  <1>3. QED
    BY <1>1, <1>2

-----------------------------------------------------------------------------
(* The invariant of the scraper *)

LEMMA SnapshotParts ==
  ASSUME Snapshot \in Snapshots
  PROVE  /\ target.done \in [Happenings -> Nat] /\ target.xdp \in BOOLEAN
         /\ gap.since \in [Happenings -> Nat] /\ gap.whole \in BOOLEAN
         /\ Snapshot.done = target.done /\ Snapshot.xdp = target.xdp
         /\ Snapshot.since = gap.since /\ Snapshot.whole = gap.whole
  <1>1. /\ Snapshot.done = target.done /\ Snapshot.xdp = target.xdp
        /\ Snapshot.since = gap.since /\ Snapshot.whole = gap.whole
    BY DEF Snapshot
  <1>2. QED
    BY <1>1 DEF Snapshots

LEMMA HonestInitially == Init => HonestInv
  <1> SUFFICES ASSUME Init PROVE HonestInv
    OBVIOUS
  <1>1. PICK xdp \in BOOLEAN, up \in BOOLEAN : target = [up |-> up, xdp |-> xdp, done |-> Quiet]
    BY DEF Init
  <1>2. gap = [since |-> Quiet, whole |-> FALSE] /\ Quiet \in [Happenings -> Nat] /\ \A h \in Happenings : Quiet[h] = 0
    BY DEF Init, Quiet
  <1>3. Snapshot = [done |-> Quiet, xdp |-> xdp, since |-> Quiet, whole |-> FALSE]
    BY <1>1, <1>2 DEF Snapshot
  <1>4. Snapshot \in Snapshots
    BY <1>2, <1>3 DEF Snapshots
  <1>5. Follows(previous, Snapshot)
    BY <1>2, <1>3 DEF Follows
  <1>6. latest \in Dashboards /\ Honest(latest)
    BY DerivedBlank DEF Init
  <1>7. previous = NoSnapshot /\ queued.kind = "none" /\ scraper # "draw"
    BY DEF Init, Nothing
  <1>8. /\ target.up \in BOOLEAN
        /\ DOMAIN target = {"up", "xdp", "done"} /\ DOMAIN gap = {"since", "whole"}
    BY <1>1, <1>2
  <1>9. QED
    BY <1>4, <1>5, <1>6, <1>7, <1>8 DEF HonestInv

\* The steps of the scraped process leave what rec53top has alone.
LEMMA TargetHonest ==
  ASSUME HonestInv, UNCHANGED <<scraper, previous, queued, latest>>,
         Snapshot' \in Snapshots, target'.up \in BOOLEAN,
         DOMAIN target' = {"up", "xdp", "done"}, DOMAIN gap' = {"since", "whole"},
         Follows(previous, Snapshot')
  PROVE  HonestInv'
  BY DEF HonestInv

LEMMA HappenHonest ==
  ASSUME HonestInv, NEW g \in Happenings, Happen(g)
  PROVE  HonestInv'
  <1>1. /\ target' = [target EXCEPT !.done[g] = @ + 1] /\ gap' = [gap EXCEPT !.since[g] = @ + 1]
        /\ g \cap XDPSeries # {} => target.xdp
        /\ UNCHANGED <<scraper, previous, queued, latest>>
    BY DEF Happen, screenVars
  <1>2. /\ Snapshot \in Snapshots /\ Follows(previous, Snapshot) /\ previous \in Snapshots \cup {NoSnapshot}
        /\ DOMAIN target = {"up", "xdp", "done"} /\ DOMAIN gap = {"since", "whole"} /\ target.up \in BOOLEAN
    BY DEF HonestInv
  <1>3. /\ target.done \in [Happenings -> Nat] /\ target.xdp \in BOOLEAN
        /\ gap.since \in [Happenings -> Nat] /\ gap.whole \in BOOLEAN
        /\ Snapshot.done = target.done /\ Snapshot.xdp = target.xdp
        /\ Snapshot.since = gap.since /\ Snapshot.whole = gap.whole
    BY <1>2, SnapshotParts
  <1>4. /\ target'.done = [target.done EXCEPT ![g] = @ + 1] /\ target'.xdp = target.xdp /\ target'.up = target.up
        /\ gap'.since = [gap.since EXCEPT ![g] = @ + 1] /\ gap'.whole = gap.whole
        /\ DOMAIN target' = {"up", "xdp", "done"} /\ DOMAIN gap' = {"since", "whole"}
    BY <1>1, <1>2
  <1>5. target'.done \in [Happenings -> Nat] /\ gap'.since \in [Happenings -> Nat]
    BY <1>3, <1>4
  <1>6. Snapshot' = [done |-> target'.done, xdp |-> target.xdp, since |-> gap'.since, whole |-> gap.whole]
    BY <1>4 DEF Snapshot
  <1>7. Snapshot' \in Snapshots
    BY <1>3, <1>5, <1>6 DEF Snapshots
  <1>8. ASSUME NEW h \in Happenings
        PROVE  /\ gap.whole => target'.done[h] = previous.done[h] + gap'.since[h]
               /\ ~gap.whole => target'.done[h] <= gap'.since[h]
               /\ gap.whole /\ gap'.since[h] > 0 /\ h \cap XDPSeries # {} => target.xdp
    <2>1. /\ gap.whole => target.done[h] = previous.done[h] + gap.since[h]
          /\ gap.whole => previous.done[h] \in Nat
          /\ ~gap.whole => target.done[h] <= gap.since[h]
          /\ gap.whole /\ gap.since[h] > 0 /\ h \cap XDPSeries # {} => target.xdp
      BY <1>2, <1>3 DEF Follows, Snapshots
    <2>2. target.done[h] \in Nat /\ gap.since[h] \in Nat
      BY <1>3
    <2>3. CASE h = g
      <3>1. target'.done[h] = target.done[h] + 1 /\ gap'.since[h] = gap.since[h] + 1
        BY <1>3, <1>4, <2>3
      <3>2. QED
        BY <1>1, <2>1, <2>2, <2>3, <3>1
    <2>4. CASE h # g
      <3>1. target'.done[h] = target.done[h] /\ gap'.since[h] = gap.since[h]
        BY <1>3, <1>4, <2>4
      <3>2. QED
        BY <2>1, <2>2, <3>1
    <2>5. QED
      BY <2>3, <2>4
  <1>9. gap.whole => previous \in Snapshots
    BY <1>2, <1>3 DEF Follows
  <1>10. Follows(previous, Snapshot')
    BY <1>6, <1>8, <1>9 DEF Follows
  <1>11. QED
    BY <1>1, <1>2, <1>4, <1>7, <1>10, TargetHonest

LEMMA RestartHonest ==
  ASSUME HonestInv, Restart
  PROVE  HonestInv'
  <1>1. PICK xdp \in BOOLEAN : target' = [up |-> TRUE, xdp |-> xdp, done |-> Quiet]
    BY Zenon DEF Restart
  <1>2. gap' = [gap EXCEPT !.whole = FALSE] /\ UNCHANGED <<scraper, previous, queued, latest>>
    BY DEF Restart, screenVars
  <1>3. Snapshot \in Snapshots /\ DOMAIN gap = {"since", "whole"} /\ previous \in Snapshots \cup {NoSnapshot}
    BY DEF HonestInv
  <1>4. gap.since \in [Happenings -> Nat]
    BY <1>3, SnapshotParts
  <1>5. gap'.since = gap.since /\ gap'.whole = FALSE /\ DOMAIN gap' = {"since", "whole"}
    BY <1>2, <1>3
  <1>6. Quiet \in [Happenings -> Nat] /\ \A h \in Happenings : Quiet[h] = 0
    BY DEF Quiet
  <1>7. Snapshot' = [done |-> Quiet, xdp |-> xdp, since |-> gap.since, whole |-> FALSE]
    <2>1. target'.done = Quiet /\ target'.xdp = xdp
      BY <1>1
    <2>2. QED
      BY <1>5, <2>1, Zenon DEF Snapshot
  <1>8. Snapshot' \in Snapshots
    BY <1>4, <1>6, <1>7 DEF Snapshots
  <1>9. Follows(previous, Snapshot')
    BY <1>4, <1>6, <1>7 DEF Follows
  <1>10. target'.up \in BOOLEAN /\ DOMAIN target' = {"up", "xdp", "done"}
    BY <1>1
  <1>11. QED
    BY <1>2, <1>5, <1>8, <1>9, <1>10, TargetHonest

LEMMA ReachabilityHonest ==
  ASSUME HonestInv, Reachability
  PROVE  HonestInv'
  <1>1. target' = [target EXCEPT !.up = ~@] /\ UNCHANGED <<gap, scraper, previous, queued, latest>>
    BY DEF Reachability, screenVars
  <1>2. /\ Snapshot \in Snapshots /\ DOMAIN gap = {"since", "whole"} /\ DOMAIN target = {"up", "xdp", "done"}
        /\ target.up \in BOOLEAN /\ Follows(previous, Snapshot)
    BY DEF HonestInv
  <1>3. /\ target'.done = target.done /\ target'.xdp = target.xdp /\ target'.up \in BOOLEAN
        /\ DOMAIN target' = {"up", "xdp", "done"}
    BY <1>1, <1>2
  <1>4. Snapshot' = Snapshot
    BY <1>1, <1>3 DEF Snapshot
  <1>5. QED
    BY <1>1, <1>2, <1>3, <1>4, TargetHonest

\* After a good scrape the snapshot is where the next one starts from.
LEMMA ScrapeOKHonest ==
  ASSUME HonestInv, ScrapeOK
  PROVE  HonestInv'
  <1> DEFINE d == deriveDashboard(previous, Snapshot)
  <1>1. /\ Publish([kind |-> "good", dashboard |-> d], d)
        /\ previous' = Snapshot /\ gap' = [since |-> Quiet, whole |-> TRUE] /\ target' = target
    BY DEF ScrapeOK
  <1>2. /\ Snapshot \in Snapshots /\ previous \in Snapshots \cup {NoSnapshot} /\ Follows(previous, Snapshot)
        /\ target.up \in BOOLEAN /\ DOMAIN target = {"up", "xdp", "done"}
        /\ latest \in Dashboards /\ Honest(latest)
        /\ queued.kind = "good" => queued.dashboard \in Dashboards /\ Honest(queued.dashboard)
    BY DEF HonestInv
  <1>3. d \in Dashboards /\ Honest(d)
    BY <1>2, DerivedHonest
  <1> HIDE DEF d
  <1>4. /\ target.done \in [Happenings -> Nat] /\ target.xdp \in BOOLEAN
        /\ Snapshot.done = target.done
    BY <1>2, SnapshotParts
  <1>5. Quiet \in [Happenings -> Nat] /\ \A h \in Happenings : Quiet[h] = 0
    BY DEF Quiet
  <1>6. gap'.since = Quiet /\ gap'.whole = TRUE /\ DOMAIN gap' = {"since", "whole"}
    BY <1>1
  <1>7. Snapshot' = [done |-> target.done, xdp |-> target.xdp, since |-> Quiet, whole |-> TRUE]
    BY <1>1, <1>6 DEF Snapshot
  <1>8. Snapshot' \in Snapshots
    BY <1>4, <1>5, <1>7 DEF Snapshots
  <1>9. Follows(previous', Snapshot')
    BY <1>1, <1>2, <1>4, <1>5, <1>7 DEF Follows
  <1>10. /\ latest' \in Dashboards /\ Honest(latest)'
         /\ scraper' = "draw" => queued'.kind \in {"good", "error"}
         /\ queued'.kind = "good" => queued'.dashboard \in Dashboards /\ Honest(queued'.dashboard)
    <2>1. CASE plain
      <3>1. latest' = d /\ queued' = queued /\ scraper' = "wait"
        BY <1>1, <2>1 DEF Publish, Show
      <3>2. QED
        BY <1>2, <1>3, <3>1
    <2>2. CASE ~plain
      <3>1. latest' = latest /\ queued' = [kind |-> "good", dashboard |-> d]
        BY <1>1, <2>2 DEF Publish, screenVars
      <3>2. QED
        BY <1>2, <1>3, <3>1
    <2>3. QED
      BY <2>1, <2>2
  <1>11. QED
    BY <1>1, <1>2, <1>6, <1>8, <1>9, <1>10 DEF HonestInv

\* A failed scrape, and the drawing of what was queued.
LEMMA ScrapeFailsHonest ==
  ASSUME HonestInv, ScrapeFails \/ Draw
  PROVE  HonestInv'
  <1>1. UNCHANGED <<target, gap, previous>>
    BY DEF ScrapeFails, Draw
  <1>2. UNCHANGED Snapshot
    BY <1>1 DEF Snapshot
  <1>3. /\ latest \in Dashboards /\ Honest(latest)
        /\ scraper = "draw" => queued.kind \in {"good", "error"}
        /\ queued.kind = "good" => queued.dashboard \in Dashboards /\ Honest(queued.dashboard)
    BY DEF HonestInv
  <1>4. withScrapeError(latest) \in Dashboards /\ Honest(withScrapeError(latest))
    BY <1>3, ScrapeErrorHonest
  <1>5. /\ latest' \in Dashboards /\ Honest(latest)'
        /\ scraper' = "draw" => queued'.kind \in {"good", "error"}
        /\ queued'.kind = "good" => queued'.dashboard \in Dashboards /\ Honest(queued'.dashboard)
    <2>1. CASE ScrapeFails /\ plain
      <3>1. latest' = withScrapeError(latest) /\ queued' = queued /\ scraper' = "wait"
        BY <2>1 DEF ScrapeFails, Publish, Show
      <3>2. QED
        BY <1>3, <1>4, <3>1
    <2>2. CASE ScrapeFails /\ ~plain
      <3>1. latest' = latest /\ queued' = [kind |-> "error"]
        BY <2>2 DEF ScrapeFails, Publish, screenVars
      <3>2. QED
        BY <1>3, <3>1
    <2>3. CASE Draw
      <3>1. /\ latest' = (IF queued.kind = "error" THEN withScrapeError(latest) ELSE queued.dashboard)
            /\ queued' = Nothing /\ scraper' = "wait" /\ scraper = "draw"
        BY <2>3 DEF Draw, Show
      <3>2. queued'.kind = "none"
        BY <3>1 DEF Nothing
      <3>3. latest' \in Dashboards /\ Honest(latest')
        BY <1>3, <1>4, <3>1
      <3>4. QED
        BY <3>1, <3>2, <3>3
    <2>4. QED
      BY <2>1, <2>2, <2>3
  <1>6. QED
    BY <1>1, <1>2, <1>5 DEF HonestInv

LEMMA KeyPressed ==
  ASSUME handleKey
  PROVE  ~plain /\ UNCHANGED <<target, gap, plain, scraper, previous, queued, latest, history>>
  <1>1. Press
    BY Zenon DEF handleKey, openDetail, openFocusedDetail, returnToOverview, moveFocus, cycleFocus,
                 cycleDetailSubview, toggleHelp, refresh, stop, Steer
  <1>2. QED
    BY <1>1 DEF Press

LEMMA IdleHonest ==
  ASSUME HonestInv, UNCHANGED <<target, gap, previous, queued, latest>>,
         scraper' = scraper \/ scraper' \in {"scrape", "gone"}
  PROVE  HonestInv'
  <1>1. UNCHANGED Snapshot
    BY DEF Snapshot
  <1>2. QED
    BY <1>1 DEF HonestInv

LEMMA HonestInductive == HonestInv /\ [Next]_vars => HonestInv'
  <1> SUFFICES ASSUME HonestInv, [Next]_vars PROVE HonestInv'
    OBVIOUS
  <1>1. CASE \E h \in Happenings : Happen(h)
    BY <1>1, HappenHonest
  <1>2. CASE Restart
    BY <1>2, RestartHonest
  <1>3. CASE Reachability
    BY <1>3, ReachabilityHonest
  <1>4. CASE Wake
    BY <1>4, IdleHonest DEF Wake, screenVars
  <1>5. CASE ScrapeOK
    BY <1>5, ScrapeOKHonest
  <1>6. CASE ScrapeFails \/ Draw
    BY <1>6, ScrapeFailsHonest
  <1>7. CASE PrintFails
    BY <1>7, IdleHonest DEF PrintFails, screenVars
  <1>8. CASE Cancel
    BY <1>8, IdleHonest DEF Cancel, screenVars
  <1>9. CASE SeeCancel
    BY <1>9, IdleHonest DEF SeeCancel, screenVars
  <1>10. CASE StopApp
    BY <1>10, IdleHonest DEF StopApp, screenVars
  <1>11. CASE handleKey
    BY <1>11, KeyPressed, IdleHonest
  <1>12. CASE UNCHANGED vars
    BY <1>12, IdleHonest DEF vars, screenVars
  <1>13. QED
    BY <1>1, <1>2, <1>3, <1>4, <1>5, <1>6, <1>7, <1>8, <1>9, <1>10, <1>11, <1>12 DEF Next, ScraperStep

\* A panel of rec53top is DEGRADED only for something that went wrong between
\* the two good scrapes it compares: not for what a counter lost when rec53
\* restarted (deltaFloat), and not for a request that was fast (SlowTail).
THEOREM NoFalseAlarm == Spec => []NoPhantomTrouble
  <1>1. HonestInv => NoPhantomTrouble
    BY DEF HonestInv, Honest, TroubledIn, NoPhantomTrouble, Troubled
  <1>2. QED
    BY <1>1, HonestInitially, HonestInductive, PTL DEF Spec

\* Trouble between two good scrapes of one life of rec53 is shown by the
\* panels without a tolerance, whatever scrapes failed in between: a failed
\* scrape keeps previous, and XDP does not come off within a life.
THEOREM NoMissedTrouble == Spec => []TroubleShown
  <1>1. HonestInv => TroubleShown
    BY DEF HonestInv, Honest, TroubledIn, TroubleShown, Troubled
  <1>2. QED
    BY <1>1, HonestInitially, HonestInductive, PTL DEF Spec

-----------------------------------------------------------------------------
(* The operator's place *)

LEMMA Subviews ==
  /\ DOMAIN subviews = {"cache", "upstream", "xdp"}
  /\ \A p \in DOMAIN subviews : /\ DOMAIN subviews[p] = 1..3 /\ subviews[p][1] = "summary"
                                /\ Range(subviews[p]) = {subviews[p][i] : i \in 1..3}
                                /\ "summary" \in Range(subviews[p]) /\ subviews[p] # <<>>
  <1>1. DOMAIN subviews = {"cache", "upstream", "xdp"}
    BY DEF subviews
  <1>2. /\ subviews["cache"] = <<"summary", "cache-lookup", "cache-lifecycle">>
        /\ subviews["upstream"] = <<"summary", "upstream-failures", "upstream-winners">>
        /\ subviews["xdp"] = <<"summary", "xdp-packet-paths", "xdp-sync-cleanup">>
    BY DEF subviews
  <1>3. ASSUME NEW p \in DOMAIN subviews
        PROVE  DOMAIN subviews[p] = 1..3 /\ subviews[p][1] = "summary" /\ subviews[p] # <<>>
    <2>1. CASE p = "cache"
      BY <1>2, <2>1
    <2>2. CASE p = "upstream"
      BY <1>2, <2>2
    <2>3. CASE p = "xdp"
      BY <1>2, <2>3
    <2>4. QED
      BY <1>1, <2>1, <2>2, <2>3
  <1>4. 1 \in 1..3
    OBVIOUS
  <1>5. ASSUME NEW p \in DOMAIN subviews
        PROVE  Range(subviews[p]) = {subviews[p][i] : i \in 1..3} /\ "summary" \in Range(subviews[p])
    <2>1. Range(subviews[p]) = {subviews[p][i] : i \in 1..3}
      BY <1>3, Zenon DEF Range
    <2>2. subviews[p][1] \in {subviews[p][i] : i \in 1..3}
      BY <1>4
    <2>3. QED
      BY <1>3, <2>1, <2>2
  <1>6. QED
    BY <1>1, <1>3, <1>5

LEMMA PanelAt ==
  /\ \A i \in 1..6 : overviewPanelOrder[i] \in Panels
  /\ \A p \in Panels : Index(p) \in 0..5
  /\ "none" \notin Panels
  <1>1. overviewPanelOrder = <<"traffic", "cache", "snapshot", "upstream", "xdp", "state">>
    BY DEF overviewPanelOrder
  <1>2. \A i \in 1..6 : overviewPanelOrder[i] \in Panels
    BY <1>1, PanelSet
  <1>3. ASSUME NEW p \in Panels PROVE \E i \in 0..5 : overviewPanelOrder[i + 1] = p
    <2>1. /\ overviewPanelOrder[0 + 1] = "traffic" /\ overviewPanelOrder[1 + 1] = "cache"
          /\ overviewPanelOrder[2 + 1] = "snapshot" /\ overviewPanelOrder[3 + 1] = "upstream"
          /\ overviewPanelOrder[4 + 1] = "xdp" /\ overviewPanelOrder[5 + 1] = "state"
      BY <1>1
    <2>2. 0 \in 0..5 /\ 1 \in 0..5 /\ 2 \in 0..5 /\ 3 \in 0..5 /\ 4 \in 0..5 /\ 5 \in 0..5
      OBVIOUS
    <2>3. QED
      BY <2>1, <2>2, PanelSet
  <1>4. \A p \in Panels : Index(p) \in 0..5
    BY <1>3 DEF Index
  <1>5. QED
    BY <1>2, <1>4, PanelSet

LEMMA PlaceInitially == Init => PlaceInv
  BY PanelSet, Subviews DEF Init, PlaceInv, newDashboardUI, InOverview

\* A key that moves the focus, in the overview.
LEMMA FocusPlace ==
  ASSUME PlaceInv, InOverview, NEW p \in Panels, ui' = [ui EXCEPT !.focusPanel = p]
  PROVE  PlaceInv'
  BY DEF PlaceInv, InOverview

\* A key that opens a panel.
LEMMA OpenPlace ==
  ASSUME PlaceInv, NEW p \in Panels, DOMAIN ui' = DOMAIN ui,
         ui'.focusPanel = p, ui'.detailPanel = p, ui'.detailView = resetDetailSubview(p)
  PROVE  PlaceInv'
  <1>1. ui.detailView' = resetDetailSubview(p) /\ ui.focusPanel' = p /\ ui.detailPanel' = p /\ DOMAIN ui' = DOMAIN ui
    OBVIOUS
  <1>2. /\ DOMAIN resetDetailSubview(p) = Panels
        /\ \A q \in DOMAIN subviews : resetDetailSubview(p)[q] \in Range(subviews[q])
    BY Subviews, PanelSet DEF PlaceInv, resetDetailSubview
  <1>3. QED
    BY <1>1, <1>2 DEF PlaceInv

\* A key that steps through the subviews of the open panel.
LEMMA SubviewPlace ==
  ASSUME PlaceInv, NEW step \in {1, -1}, cycleDetailSubview(step)
  PROVE  PlaceInv'
  <1> DEFINE p == ui.detailPanel
             defs == detailSubviewDefs(p)
             at == CHOOSE i \in 0..2 : defs[i + 1] = currentDetailSubviewDef(p)
             next == defs[((at + step + 3) % 3) + 1]
  <1>1. ~InOverview /\ defs # <<>> /\ ui' = [ui EXCEPT !.detailView[p] = next]
    BY Zenon DEF cycleDetailSubview, Steer
  <1>2. p \in DOMAIN subviews /\ defs = subviews[p]
    BY <1>1 DEF detailSubviewDefs, detailDrilldownEnabled
  <1>3. currentDetailSubviewDef(p) \in {defs[i] : i \in 1..3}
    <2>1. currentDetailSubviewDef(p) = IF ui.detailView[p] \in Range(defs) THEN ui.detailView[p] ELSE defs[1]
      BY DEF currentDetailSubviewDef
    <2>2. ui.detailView[p] \in Range(defs) /\ Range(defs) = {defs[i] : i \in 1..3}
      BY <1>2, Subviews DEF PlaceInv
    <2> HIDE DEF defs, p
    <2>3. QED
      BY <2>1, <2>2
  <1> HIDE DEF defs, p
  <1>4. \E i \in 0..2 : defs[i + 1] = currentDetailSubviewDef(p)
    <2>1. PICK k \in 1..3 : defs[k] = currentDetailSubviewDef(p)
      BY <1>3
    <2>2. k - 1 \in 0..2 /\ (k - 1) + 1 = k
      OBVIOUS
    <2>3. QED
      BY <2>1, <2>2
  <1>5. at \in 0..2
    BY <1>4
  <1> HIDE DEF at
  <1>6. ((at + step + 3) % 3) + 1 \in 1..3
    BY <1>5
  <1>7. next \in Range(subviews[p])
    BY <1>2, <1>6, Subviews
  <1> HIDE DEF next
  <1>8. /\ DOMAIN ui' = DOMAIN ui /\ ui'.detailPanel = ui.detailPanel /\ ui'.focusPanel = ui.focusPanel
        /\ ui'.detailView = [ui.detailView EXCEPT ![p] = next]
    BY <1>1 DEF PlaceInv
  <1>9. /\ DOMAIN ui'.detailView = Panels
        /\ \A q \in DOMAIN subviews : ui'.detailView[q] \in Range(subviews[q])
    BY <1>7, <1>8, Subviews, PanelSet DEF PlaceInv
  <1>10. QED
    BY <1>8, <1>9 DEF PlaceInv, InOverview

LEMMA KeyPlace ==
  ASSUME PlaceInv, handleKey
  PROVE  PlaceInv'
  <1>1. ASSUME NEW p \in Panels, openDetail(p) PROVE PlaceInv'
    <2>1. ui' = [ui EXCEPT !.focusPanel = p, !.detailPanel = p, !.detailView = resetDetailSubview(p)]
      BY <1>1, Zenon DEF openDetail, Steer
    <2>2. DOMAIN ui' = DOMAIN ui /\ ui'.focusPanel = p /\ ui'.detailPanel = p /\ ui'.detailView = resetDetailSubview(p)
      BY <2>1 DEF PlaceInv
    <2>3. QED
      BY <2>2, OpenPlace
  <1>2. CASE openFocusedDetail
    <2> DEFINE p == ui.focusPanel
    <2>1. ui' = [ui EXCEPT !.detailPanel = p, !.detailView = resetDetailSubview(p)] /\ p \in Panels
      BY <1>2 DEF openFocusedDetail, Steer, PlaceInv
    <2>2. DOMAIN ui' = DOMAIN ui /\ ui'.focusPanel = p /\ ui'.detailPanel = p /\ ui'.detailView = resetDetailSubview(p)
      BY <2>1 DEF PlaceInv
    <2>3. QED
      BY <2>1, <2>2, OpenPlace
  <1>3. CASE returnToOverview
    BY <1>3 DEF returnToOverview, Steer, PlaceInv, InOverview
  <1>4. ASSUME NEW row \in {1, 0, -1}, NEW col \in {1, 0, -1}, moveFocus(row, col) PROVE PlaceInv'
    <2> DEFINE r == (Focused \div 2) + row
               c == (Focused % 2) + col
    <2>1. InOverview /\ r \in 0..2 /\ c \in 0..1 /\ ui' = [ui EXCEPT !.focusPanel = overviewPanelOrder[r * 2 + c + 1]]
      BY <1>4 DEF moveFocus, Steer
    <2> HIDE DEF r, c
    <2>2. r * 2 + c + 1 \in 1..6
      BY <2>1
    <2>3. QED
      BY <2>1, <2>2, PanelAt, FocusPlace
  <1>5. ASSUME NEW step \in {1, -1}, cycleFocus(step) PROVE PlaceInv'
    <2>1. Focused \in 0..5
      BY PanelAt DEF PlaceInv, Focused
    <2>2. ((Focused + step + 6) % 6) + 1 \in 1..6
      BY <2>1
    <2>3. InOverview /\ ui' = [ui EXCEPT !.focusPanel = overviewPanelOrder[((Focused + step + 6) % 6) + 1]]
      BY <1>5 DEF cycleFocus, Steer
    <2>4. QED
      BY <2>2, <2>3, PanelAt, FocusPlace
  <1>6. ASSUME NEW step \in {1, -1}, cycleDetailSubview(step) PROVE PlaceInv'
    BY <1>6, SubviewPlace
  <1>7. CASE toggleHelp
    BY <1>7 DEF toggleHelp, Steer, PlaceInv, InOverview
  <1>8. CASE refresh \/ stop
    BY <1>8 DEF refresh, stop, PlaceInv, InOverview
  <1>9. ASSUME NEW d \in {<<1, 0>>, <<-1, 0>>, <<0, 1>>, <<0, -1>>}, moveFocus(d[1], d[2]) PROVE PlaceInv'
    <2>1. d[1] \in {1, 0, -1} /\ d[2] \in {1, 0, -1}
      BY <1>9
    <2>2. QED
      BY <1>4, <1>9, <2>1
  <1>10. QED
    BY <1>1, <1>2, <1>3, <1>5, <1>6, <1>7, <1>8, <1>9 DEF handleKey

LEMMA PlaceInductive == PlaceInv /\ [Next]_vars => PlaceInv'
  <1> SUFFICES ASSUME PlaceInv, [Next]_vars PROVE PlaceInv'
    OBVIOUS
  <1>1. CASE handleKey
    BY <1>1, KeyPlace
  <1>2. CASE UNCHANGED ui
    BY <1>2 DEF PlaceInv, InOverview
  <1>3. (\E h \in Happenings : Happen(h)) \/ Restart \/ Reachability => UNCHANGED ui
    BY DEF Happen, Restart, Reachability, screenVars
  <1>4. Wake \/ PrintFails \/ Cancel \/ SeeCancel \/ StopApp \/ UNCHANGED vars => UNCHANGED ui
    <2>1. Wake \/ PrintFails \/ Cancel => UNCHANGED ui
      BY Zenon DEF Wake, PrintFails, Cancel, screenVars
    <2>2. SeeCancel \/ StopApp => UNCHANGED ui
      BY Zenon DEF SeeCancel, StopApp, screenVars
    <2>3. UNCHANGED vars => UNCHANGED ui
      BY DEF vars, screenVars
    <2>4. QED
      BY <2>1, <2>2, <2>3
  <1>5. \A update, d : Publish(update, d) => UNCHANGED ui
    BY DEF Publish, Show, screenVars
  <1>6. ScrapeOK \/ ScrapeFails \/ Draw => UNCHANGED ui
    BY <1>5 DEF ScrapeOK, ScrapeFails, Draw, Show
  <1>7. QED
    BY <1>1, <1>2, <1>3, <1>4, <1>6 DEF Next, ScraperStep

\* A detail view shows a subview of its own panel, which keeps the focus:
\* statuses that scrapes change under the operator's hands make subviews
\* come and go (detailSubviewDefs), and no key steps outside them.
THEOREM OperatorKeepsPlace == Spec => []PlaceKept
  <1>1. PlaceInv => PlaceKept
    <2> SUFFICES ASSUME PlaceInv, ~InOverview PROVE PlaceKept
      BY DEF PlaceKept
    <2>1. detailSubviewDefs(ui.detailPanel) # <<>> =>
             ui.detailPanel \in DOMAIN subviews /\ detailSubviewDefs(ui.detailPanel) = subviews[ui.detailPanel]
      BY DEF detailSubviewDefs, detailDrilldownEnabled
    <2>2. QED
      BY <2>1 DEF PlaceInv, PlaceKept
  <1>2. QED
    BY <1>1, PlaceInitially, PlaceInductive, PTL DEF Spec

=============================================================================

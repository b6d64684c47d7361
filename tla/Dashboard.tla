------------------------------ MODULE Dashboard ------------------------------
(* rec53top.  A goroutine scrapes the metrics of a running rec53, derives a *)
(* dashboard from its last two good scrapes and hands it to the goroutine   *)
(* that draws, which also serves the operator's keys.  The scraped process  *)
(* keeps counting, restarts from zero and is at times out of reach.         *)
EXTENDS Integers, FiniteSets, FiniteSetsExt, Sequences

CONSTANTS Happenings,     \* what happens in rec53, each as the series it counts
          Sessions,       \* bounds: how many happenings, restarts and keys a session
                          \* of rec53top sees, and whether it is plain
          MaxHistory      \* samples kept for the trend cues

VARIABLES
    target,     \* rec53: is it reachable, is XDP attached, what it has counted
    left,       \* what is left of the session's bounds
    gap,        \* what happened since the last good scrape, and is there one in this life of rec53
    plain,      \* -plain: print instead of drawing
    phase,      \* "running", "cancelled" when the context is done, "ended"
    scraper,    \* where the scraping goroutine is
    refreshCh,  \* the refresh channel, of capacity 1, is full
    previous,   \* the last good snapshot
    queued,     \* the update handed to QueueUpdateDraw
    latest, history, ui

screenVars == <<latest, history, ui>>
vars == <<target, left, gap, plain, phase, scraper, refreshCh, previous, queued, screenVars>>

-----------------------------------------------------------------------------
(* Metrics *)

\* The series the panels' verdicts rest on, by metric family.  The
\* buckets of the latency histogram are cumulative.
Family == [query_counter       |-> {"query"},
           response_counter    |-> {"NOERROR", "NXDOMAIN", "SERVFAIL"},
           latency             |-> {"le10", "le1000", "leInf"},
           cache_lookup        |-> {"positive_hit", "negative_hit", "delegation_hit", "miss"},
           snapshot_operations |-> {"load success", "load failure", "save success", "save failure"},
           snapshot_entries    |-> {"imported", "skipped", "saved"},
           upstream_failures   |-> {"timeout", "bad_rcode", "other failure"},
           upstream_fallback   |-> {"fallback"},
           upstream_winner     |-> {"winner"},
           xdp_sync_errors     |-> {"sync error"},
           xdp_errors          |-> {"xdp error"},
           sm_stage            |-> {"stage"},
           sm_transition       |-> {"success_exit", "servfail_exit", "error_exit"},
           sm_failures         |-> {"sm failure"}]
Series == UNION {Family[f] : f \in DOMAIN Family}
XDPSeries == Family.xdp_sync_errors \cup Family.xdp_errors

ASSUME DashboardAssumption ==
    /\ Happenings \subseteq SUBSET Series /\ IsFiniteSet(Happenings)
    /\ \A h \in Happenings : ("le10" \in h => "le1000" \in h) /\ ("le1000" \in h => "leInf" \in h)
    /\ Sessions \subseteq [happenings : Nat, restarts : Nat, keys : Nat, plain : BOOLEAN]
    /\ MaxHistory \in Nat \ {0}

NoSnapshot == [done |-> <<>>]

\* A series stands at the number of happenings that counted it.
Occurrences(snap, s) == UNION {{h} \X (1..snap.done[h]) : h \in {g \in Happenings : s \in g}}
Value(snap, s) == Cardinality(Occurrences(snap, s))

\* A vector is exported from the first time one of its series is touched.
hasMetric(snap, family) ==
    \E h \in Happenings : snap.done[h] > 0 /\ h \cap Family[family] # {}

\* (Fault: a counter that went back counts as growth.)
deltaDistance(curr, prev) == IF curr < prev THEN prev - curr ELSE curr - prev
deltaFloat(curr, prev) == IF curr < prev THEN 0 ELSE curr - prev
deltaMap(prev, curr) == [s \in Series |-> deltaFloat(Value(curr, s), Value(prev, s))]
Total(delta, S) == Cardinality(UNION {{s} \X (1..delta[s]) : s \in S})

-----------------------------------------------------------------------------
(* The panels.  A rate is a difference over the time between two scrapes,   *)
(* which is positive: the clock moves during a scrape.                      *)

\* The status of a panel that needs some families; whether it is degraded is
\* a matter of differences, which need a previous snapshot.
Judged(required, prev, curr, degraded) ==
    IF \E f \in required : ~hasMetric(curr, f) THEN "UNAVAILABLE"
    ELSE IF prev = NoSnapshot THEN "WARMING"
    ELSE IF degraded THEN "DEGRADED" ELSE "OK"

\* histogramQuantile(0.99) is the lower end of its bucket or more, and the
\* upper end only when the bucket holds its target exactly.
SlowTail(d) == d["leInf"] > 0 /\ 100 * d["le10"] < 99 * d["leInf"] /\ 100 * d["le1000"] <= 99 * d["leInf"]

buildTrafficPanel(prev, curr) ==
    LET d == deltaMap(prev, curr)
        total == Total(d, Family.response_counter)
    IN  Judged({"query_counter", "response_counter", "latency"}, prev, curr,
               (total > 0 /\ 20 * d["SERVFAIL"] >= total) \/ SlowTail(d))

\* rec53_cache_entries is a plain gauge and always there.
buildCachePanel(prev, curr) ==
    LET d == deltaMap(prev, curr)
        hits == Total(d, Family.cache_lookup \ {"miss"})
    IN  Judged({"cache_lookup"}, prev, curr, d["miss"] > 0 /\ 2 * hits < hits + d["miss"])

buildSnapshotPanel(prev, curr) ==
    Judged({"snapshot_operations", "snapshot_entries"}, prev, curr,
           Total(deltaMap(prev, curr), {"load failure", "save failure"}) > 0)

buildUpstreamPanel(prev, curr) ==
    Judged({"upstream_failures", "upstream_fallback", "upstream_winner"}, prev, curr,
           Total(deltaMap(prev, curr), {"timeout", "bad_rcode", "fallback"}) > 0)

\* rec53_xdp_status is a plain gauge too, so the panel is never UNAVAILABLE.
buildXDPPanel(prev, curr) ==
    IF curr.xdp THEN Judged({}, prev, curr, Total(deltaMap(prev, curr), XDPSeries) > 0) ELSE "DISABLED"

\* The terminal with most exits comes first, and of two with as many the
\* first by name: every other exit precedes success_exit.
BadTerminalFirst(d) ==
    \E e \in Family.sm_transition \ {"success_exit"} : d[e] > 0 /\ d[e] >= d["success_exit"]
buildStateMachinePanel(prev, curr) ==
    LET d == deltaMap(prev, curr)
    IN  Judged({"sm_stage", "sm_transition"}, prev, curr, d["sm failure"] > 0 \/ BadTerminalFirst(d))

overviewPanelOrder == <<"traffic", "cache", "snapshot", "upstream", "xdp", "state">>
Panels == Range(overviewPanelOrder)

\* LastSuccess is set even when there is no snapshot.
deriveDashboard(prev, curr) ==
    IF curr = NoSnapshot
    THEN [mode |-> "DISCONNECTED", lastSuccess |-> TRUE, error |-> FALSE, curr |-> NoSnapshot,
          status |-> [p \in Panels |-> "DISCONNECTED"]]
    ELSE [mode |-> IF prev = NoSnapshot THEN "WARMING" ELSE "OK",
          lastSuccess |-> TRUE, error |-> FALSE, curr |-> curr,
          status |-> [traffic  |-> buildTrafficPanel(prev, curr),
                      cache    |-> buildCachePanel(prev, curr),
                      snapshot |-> buildSnapshotPanel(prev, curr),
                      upstream |-> buildUpstreamPanel(prev, curr),
                      xdp      |-> buildXDPPanel(prev, curr),
                      state    |-> buildStateMachinePanel(prev, curr)]]

withScrapeError(d) ==
    IF ~d.lastSuccess
    THEN [mode |-> "DISCONNECTED", lastSuccess |-> FALSE, error |-> TRUE, curr |-> NoSnapshot,
          status |-> [p \in Panels |-> "DISCONNECTED"]]
    ELSE [d EXCEPT !.mode = "STALE", !.error = TRUE]

-----------------------------------------------------------------------------
Quiet == [h \in Happenings |-> 0]
Nothing == [kind |-> "none"]
newDashboardUI ==
    [detailPanel |-> "none", focusPanel |-> "traffic", helpShown |-> FALSE,
     detailView |-> [p \in Panels |-> "summary"]]

Init ==
    /\ \E xdp, up \in BOOLEAN : target = [up |-> up, xdp |-> xdp, done |-> Quiet]
    /\ left \in Sessions /\ plain = left.plain
    /\ gap = [since |-> Quiet, whole |-> FALSE]
    /\ phase = "running"
    /\ scraper = (IF plain THEN "scrape" ELSE "wait")
    /\ refreshCh = FALSE
    /\ previous = NoSnapshot /\ queued = Nothing
    /\ latest = deriveDashboard(NoSnapshot, NoSnapshot)
    /\ history = IF plain THEN 0 ELSE 1
    /\ ui = newDashboardUI

-----------------------------------------------------------------------------
(* The scraped process *)

\* Only an attached XDP program has errors to count.
Happen(h) ==
    /\ phase # "ended" /\ left.happenings > 0 /\ left' = [left EXCEPT !.happenings = @ - 1]
    /\ h \cap XDPSeries # {} => target.xdp
    /\ target' = [target EXCEPT !.done[h] = @ + 1]
    /\ gap' = [gap EXCEPT !.since[h] = @ + 1]
    /\ UNCHANGED <<plain, phase, scraper, refreshCh, previous, queued, screenVars>>

Restart ==
    /\ phase # "ended" /\ left.restarts > 0 /\ left' = [left EXCEPT !.restarts = @ - 1]
    /\ \E xdp \in BOOLEAN : target' = [up |-> TRUE, xdp |-> xdp, done |-> Quiet]
    /\ gap' = [gap EXCEPT !.whole = FALSE]
    /\ UNCHANGED <<plain, phase, scraper, refreshCh, previous, queued, screenVars>>

\* The endpoint is lost, or slower than the scrape's timeout, and comes back.
Reachability ==
    /\ phase # "ended"
    /\ target' = [target EXCEPT !.up = ~@]
    /\ UNCHANGED <<left, gap, plain, phase, scraper, refreshCh, previous, queued, screenVars>>

-----------------------------------------------------------------------------
(* The scraping goroutine of Run, and the loop of runPlain *)

\* The select: a tick, which may come at any time, or a refresh starts a
\* scrape.
Wake ==
    /\ phase # "ended" /\ scraper = "wait"
    /\ refreshCh' \in {refreshCh, FALSE}
    /\ scraper' = "scrape"
    /\ UNCHANGED <<target, left, gap, plain, phase, previous, queued, screenVars>>

\* updateDashboard, and printDashboard in plain mode.
Show(d) ==
    /\ latest' = d
    /\ history' = IF plain THEN history ELSE Min({history + 1, MaxHistory})
    /\ UNCHANGED ui

\* QueueUpdateDraw blocks until the update has been drawn; printing is done at once.
Publish(update, d) ==
    IF plain
    THEN Show(d) /\ scraper' = "wait" /\ UNCHANGED queued
    ELSE queued' = update /\ scraper' = "draw" /\ UNCHANGED screenVars

\* The snapshot carries, besides what the code keeps, the gap it closes.
Snapshot ==
    [done |-> target.done, xdp |-> target.xdp, since |-> gap.since,
     whole |-> gap.whole]

ScrapeOK ==
    /\ phase # "ended" /\ scraper = "scrape" /\ target.up
    /\ LET d == deriveDashboard(previous, Snapshot) IN Publish([kind |-> "good", dashboard |-> d], d)
    /\ previous' = Snapshot
    /\ gap' = [since |-> Quiet, whole |-> TRUE]
    /\ UNCHANGED <<target, left, plain, phase, refreshCh>>

\* (Faults: a failed scrape forgets the last good one, or ends the goroutine.)
ScrapeFailsForgets ==
    /\ phase # "ended" /\ scraper = "scrape" /\ ~target.up
    /\ Publish([kind |-> "error"], withScrapeError(latest))
    /\ previous' = NoSnapshot
    /\ UNCHANGED <<target, left, gap, plain, phase, refreshCh>>
ScrapeFailsForGood ==
    /\ phase # "ended" /\ scraper = "scrape" /\ ~target.up
    /\ scraper' = "gone"
    /\ UNCHANGED <<target, left, gap, plain, phase, refreshCh, previous, queued, screenVars>>
ScrapeFails ==
    /\ phase # "ended" /\ scraper = "scrape" /\ ~target.up
    /\ Publish([kind |-> "error"], withScrapeError(latest))
    /\ UNCHANGED <<target, left, gap, plain, phase, refreshCh, previous>>

\* The drawing goroutine runs the update; an error is applied to what is
\* latest then.
Draw ==
    /\ phase # "ended" /\ scraper = "draw"
    /\ Show(IF queued.kind = "error" THEN withScrapeError(latest) ELSE queued.dashboard)
    /\ queued' = Nothing /\ scraper' = "wait"
    /\ UNCHANGED <<target, left, gap, plain, phase, refreshCh, previous>>

\* Writing the dashboard to the output fails and ends runPlain.
PrintFails ==
    /\ plain /\ phase # "ended" /\ scraper = "scrape"
    /\ phase' = "ended"
    /\ UNCHANGED <<target, left, gap, plain, scraper, refreshCh, previous, queued, screenVars>>

\* A signal cancels the context.  The select of a waiting scraper sees it,
\* and another goroutine stops the application.
Cancel ==
    /\ phase = "running"
    /\ phase' = "cancelled"
    /\ UNCHANGED <<target, left, gap, plain, scraper, refreshCh, previous, queued, screenVars>>

SeeCancel ==
    /\ phase = "cancelled" /\ scraper = "wait"
    /\ scraper' = "gone"
    /\ phase' = IF plain THEN "ended" ELSE phase
    /\ UNCHANGED <<target, left, gap, plain, refreshCh, previous, queued, screenVars>>

StopApp ==
    /\ phase = "cancelled" /\ ~plain
    /\ phase' = "ended"
    /\ UNCHANGED <<target, left, gap, plain, scraper, refreshCh, previous, queued, screenVars>>

-----------------------------------------------------------------------------
(* The operator's keys.  Keys not listed, and keys whose condition does not *)
(* hold, change nothing.                                                    *)

Press ==
    /\ ~plain /\ phase # "ended"
    /\ left.keys > 0 /\ left' = [left EXCEPT !.keys = @ - 1]
    /\ UNCHANGED <<target, gap, plain, scraper, previous, queued, latest, history>>
Steer(next) == Press /\ ui' = next /\ UNCHANGED <<phase, refreshCh>>

InOverview == ui.detailPanel = "none"
Index(p) == CHOOSE i \in 0..5 : overviewPanelOrder[i + 1] = p
Focused == Index(ui.focusPanel)

resetDetailSubview(p) == [ui.detailView EXCEPT ![p] = "summary"]

\* 1 to 6.
\* (Fault: a panel opened by its number does not take the focus.)
openDetailUnfocused(p) == Steer([ui EXCEPT !.detailPanel = p, !.detailView = resetDetailSubview(p)])
openDetail(p) ==
    Steer([ui EXCEPT !.focusPanel = p, !.detailPanel = p, !.detailView = resetDetailSubview(p)])

\* Enter.
openFocusedDetail ==
    /\ InOverview
    /\ LET p == ui.focusPanel
       IN  Steer([ui EXCEPT !.detailPanel = p, !.detailView = resetDetailSubview(p)])

\* Escape, 0 and o.
returnToOverview == Steer([ui EXCEPT !.detailPanel = "none"])

\* The arrows, j, k and l, on a grid of three rows and two columns.
moveFocus(row, col) ==
    LET r == (Focused \div 2) + row
        c == (Focused % 2) + col
    IN  /\ InOverview /\ r \in 0..2 /\ c \in 0..1
        /\ Steer([ui EXCEPT !.focusPanel = overviewPanelOrder[r * 2 + c + 1]])

\* Tab and Backtab in the overview.
cycleFocus(step) ==
    InOverview /\ Steer([ui EXCEPT !.focusPanel = overviewPanelOrder[((Focused + step + 6) % 6) + 1]])

\* Three panels have subviews, while they have data to show.
subviews == [cache    |-> <<"summary", "cache-lookup", "cache-lifecycle">>,
             upstream |-> <<"summary", "upstream-failures", "upstream-winners">>,
             xdp      |-> <<"summary", "xdp-packet-paths", "xdp-sync-cleanup">>]
detailDrilldownEnabled(p) == p \in DOMAIN subviews /\ latest.status[p] \in {"OK", "DEGRADED"}
detailSubviewDefs(p) == IF detailDrilldownEnabled(p) THEN subviews[p] ELSE <<>>
currentDetailSubviewDef(p) ==
    LET defs == detailSubviewDefs(p)
    IN  IF ui.detailView[p] \in Range(defs) THEN ui.detailView[p] ELSE defs[1]

\* Tab, Backtab, Left, Right, [ and ] in a detail view.
cycleDetailSubview(step) ==
    /\ ~InOverview
    /\ LET p    == ui.detailPanel
           defs == detailSubviewDefs(p)
           at   == CHOOSE i \in 0..2 : defs[i + 1] = currentDetailSubviewDef(p)
       IN  /\ defs # <<>>
           /\ Steer([ui EXCEPT !.detailView[p] = defs[((at + step + 3) % 3) + 1]])

\* h and ?.
toggleHelp == Steer([ui EXCEPT !.helpShown = ~@])

\* r: a send that does not block.
refresh == Press /\ refreshCh' = TRUE /\ UNCHANGED <<phase, ui>>

\* q and Ctrl-C.
stop == Press /\ phase' = "ended" /\ UNCHANGED <<refreshCh, ui>>

handleKey ==
    \/ \E p \in Panels : openDetail(p)
    \/ openFocusedDetail
    \/ returnToOverview
    \/ \E d \in {<<1, 0>>, <<-1, 0>>, <<0, 1>>, <<0, -1>>} : moveFocus(d[1], d[2])
    \/ \E step \in {1, -1} : cycleFocus(step) \/ cycleDetailSubview(step)
    \/ toggleHelp \/ refresh \/ stop

-----------------------------------------------------------------------------
ScraperStep == Wake \/ ScrapeOK \/ ScrapeFails \/ Draw

Next ==
    \/ \E h \in Happenings : Happen(h)
    \/ Restart \/ Reachability
    \/ ScraperStep
    \/ PrintFails \/ Cancel \/ SeeCancel \/ StopApp
    \/ handleKey

Spec == Init /\ [][Next]_vars

\* The ticker ticks, a scrape has a timeout, and the UI goroutine draws what
\* is queued.
FairSpec == Spec /\ WF_vars(ScraperStep)

-----------------------------------------------------------------------------
(* Properties *)

\* What a happening says about a panel that judges by it.
Trouble(p, h) ==
    CASE p = "traffic"  -> "SERVFAIL" \in h \/ ("leInf" \in h /\ "le1000" \notin h)
      [] p = "cache"    -> "miss" \in h
      [] p = "snapshot" -> h \cap {"load failure", "save failure"} # {}
      [] p = "upstream" -> h \cap {"timeout", "bad_rcode", "fallback"} # {}
      [] p = "xdp"      -> h \cap XDPSeries # {}
      [] p = "state"    -> h \cap {"sm failure", "servfail_exit", "error_exit"} # {}
Troubled(p) == \E h \in Happenings : latest.curr.since[h] > 0 /\ Trouble(p, h)

\* A panel is DEGRADED only for something that went wrong between the two
\* good scrapes it compares, even if rec53 restarted and its counters went
\* back to zero in between (deltaFloat).
NoPhantomTrouble == \A p \in Panels : latest.status[p] = "DEGRADED" => Troubled(p)

\* What goes wrong between two good scrapes of one life of rec53 is not
\* missed, however many scrapes fail in between: a panel without a tolerance
\* is DEGRADED, or UNAVAILABLE for want of another family.
TroubleShown ==
    latest.curr # NoSnapshot /\ latest.curr.whole =>
        \A p \in {"snapshot", "upstream", "xdp"} :
            Troubled(p) => latest.status[p] \in {"DEGRADED", "UNAVAILABLE"}

\* A detail view shows a subview of its own panel, and the panel keeps the
\* focus for the return to the overview, whatever scrapes change meanwhile.
PlaceKept ==
    ~InOverview =>
        /\ ui.focusPanel = ui.detailPanel
        /\ detailSubviewDefs(ui.detailPanel) # <<>> =>
              ui.detailView[ui.detailPanel] \in Range(detailSubviewDefs(ui.detailPanel))

\* Once rec53 stays within reach, the dashboard leaves STALE, DISCONNECTED
\* and WARMING for good, and what no longer happens is no longer held against
\* a panel.
Recovers ==
    <>[](target.up /\ phase = "running") =>
        <>[](latest.mode = "OK" /\ \A p \in Panels : latest.status[p] # "DEGRADED")
=============================================================================

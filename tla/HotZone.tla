-------------------------------- MODULE HotZone --------------------------------
(* Protection of the resolver from one hot zone
   (server/hot_zone_protection.go): the time requests spend on the expensive path
   is added up per window and zone; under pressure the hottest zone becomes the
   candidate, and once confirmed in enough windows its new requests are refused
   until the load is back near what it was.

   The controller has one lock, so TryEnter and Release are steps.  Time is in
   seconds; averages are multiplied by Scale, which makes the divisions exact.
   A name is the sequence of its labels. *)
EXTENDS Integers, Sequences, FiniteSets, FiniteSetsExt

CONSTANTS
    Requests,       \* requests that may be on the expensive path at a time
    Questions,      \* [qname, zone]: names asked, with the forwarding zone or None
    BaseSuffixes,   \* baseSuffixes
    Before(_, _),   \* the alphabetical order of zones
    WindowDuration, RecentWindowCount, EvaluateInterval, ConfirmWindows,
    NumCPU, Scale,
    MaxTime,        \* bound: when time stops
    MaxID,          \* bound: requests entered
    None

VARIABLES
    now,
    active,      \* the request of each slot: [qname, coarseKey, accountedAt] or None
    nextID,      \* requests entered
    windows,     \* the recent windows, the current one last
    lastEvalAt,  \* None before the first evaluation
    ctl,         \* the controller's mode
    reply,       \* what the last call of TryEnter at this time returned
    busy,        \* history: request-seconds on the expensive path, per window
    pressed      \* history: the window since which every evaluation found pressure

hotVars == <<now, active, nextID, windows, lastEvalAt, ctl, reply, busy, pressed>>

-----------------------------------------------------------------------------
(* Zones. *)

LastLabels(name, n) == SubSeq(name, Len(name) - n + 1, Len(name))
IsSubDomain(parent, child) ==
    Len(parent) <= Len(child) /\ LastLabels(child, Len(parent)) = parent

MatchedBaseSuffixes(q) ==
    { s \in BaseSuffixes : IsSubDomain(s, q) /\
        \A t \in BaseSuffixes : IsSubDomain(t, q) => Len(t) <= Len(s) }

BusinessRootAboveSuffix(q, suffix) ==
    IF Len(q) <= Len(suffix) THEN suffix ELSE LastLabels(q, Len(suffix) + 1)

FallbackLevel3(q) == IF Len(q) <= 2 THEN q ELSE LastLabels(q, 2)

CoarseKey(q, forwardZone) ==
    IF forwardZone # None THEN forwardZone
    ELSE IF MatchedBaseSuffixes(q) # {}
    THEN BusinessRootAboveSuffix(q, CHOOSE s \in MatchedBaseSuffixes(q) : TRUE)
    ELSE FallbackLevel3(q)

DirectChild(q, parent) ==
    IF q = parent \/ ~IsSubDomain(parent, q) THEN None ELSE LastLabels(q, Len(parent) + 1)

IsPublicSuffixLike(zone) == Len(zone) <= 1

Keys == { CoarseKey(x.qname, x.zone) : x \in Questions }
Children == { DirectChild(x.qname, CoarseKey(x.qname, x.zone)) : x \in Questions } \ {None}

(* A request on the expensive path. *)
ActiveRequest == [qname : { x.qname : x \in Questions }, coarseKey : Keys, accountedAt : Nat]

ASSUME HotZoneAssumption ==
    /\ IsFiniteSet(Requests)
    /\ WindowDuration \in Nat \ {0} /\ RecentWindowCount \in Nat \ {0} /\ ConfirmWindows \in Nat
    /\ NumCPU \in Nat \ {0} /\ Scale \in Nat \ {0} /\ MaxTime \in Nat
    /\ None \notin ActiveRequest /\ None \notin Nat /\ None # "refused"

-----------------------------------------------------------------------------
(* Windows. *)

NewWindow(start) ==
    [start |-> start, global |-> 0,
     coarse |-> [k \in Keys |-> 0], child |-> [z \in Children |-> 0]]

(* The seconds that requests rs spent from when they were last accounted until t. *)
Spent(act, rs, t) ==
    Cardinality(UNION { {r} \X (act[r].accountedAt .. t - 1) : r \in rs })

Running(act) == { r \in Requests : act[r] # None }

AddZones(w, act, rs, t) ==
    [w EXCEPT
       !.coarse = [k \in Keys |-> @[k] + Spent(act, { r \in rs : act[r].coarseKey = k }, t)],
       !.child = [z \in Children |-> @[z] +
           Spent(act, { r \in rs : DirectChild(act[r].qname, act[r].coarseKey) = z }, t)]]
AddSamples(w, act, rs, t) == [AddZones(w, act, rs, t) EXCEPT !.global = @ + Spent(act, rs, t)]

CurrentWindow(ws) == ws[Len(ws)]
ReplaceCurrent(ws, w) == [ws EXCEPT ![Len(ws)] = w]

(* Where the window of time t begins. *)
Truncate(t) == t - (t % WindowDuration)

EnsureCurrentWindow(ws, t) == IF ws = <<>> THEN <<NewWindow(Truncate(t))>> ELSE ws

AdvanceWindow(ws, start) ==
    LET all == Append(ws, NewWindow(start))
    IN  SubSeq(all, IF Len(all) > RecentWindowCount THEN Len(all) - RecentWindowCount + 1 ELSE 1,
               Len(all))

\* Fault: accountedAt is not moved.
AccountedNot(act, rs, t) == act

Accounted(act, rs, t) ==
    [r \in Requests |-> IF r \in rs THEN [act[r] EXCEPT !.accountedAt = t] ELSE act[r]]

(* The current window of p is closed where it ends, and the next one begins. *)
CloseWindow(p) ==
    LET boundary == CurrentWindow(p.ws).start + WindowDuration
        closed == AddSamples(CurrentWindow(p.ws), p.act, Running(p.act), boundary)
    IN  [ws |-> AdvanceWindow(ReplaceCurrent(p.ws, closed), boundary),
         act |-> Accounted(p.act, Running(p.act), boundary)]

(* After n windows were closed, for every n up to the number that passed. *)
Closings(first, act, passed) ==
    LET rot[n \in 0 .. passed] ==
            IF n = 0 THEN [ws |-> first, act |-> act] ELSE CloseWindow(rot[n - 1])
    IN  rot

(* Close every window that ended by time t. *)
Rotate(ws, act, t) ==
    LET first == EnsureCurrentWindow(ws, t)
        passed == (t - CurrentWindow(first).start) \div WindowDuration
        last == Closings(first, act, passed)[passed]
    IN  [ws |-> last.ws, act |-> last.act, rotated |-> passed > 0]

-----------------------------------------------------------------------------
(* Evaluation. *)

(* The copies of the windows share the maps of the originals: what the running
   requests spent is added to the zones of the current window itself, and only
   to a copy of its global sum. *)
Snapshot(ws, act, t) == ReplaceCurrent(ws, AddZones(CurrentWindow(ws), act, Running(act), t))

CurrentGlobalAvg(ws, act, t) ==
    LET elapsed == t - CurrentWindow(ws).start
    IN  ((CurrentWindow(ws).global + Spent(act, Running(act), t)) * Scale)
            \div (IF elapsed <= 0 THEN 1 ELSE elapsed)

Total(ws, part, zone) == MapThenSumSet(LAMBDA i : ws[i][part][zone], 1 .. Len(ws))

(* The zones with the most time; the first in alphabetical order of those. *)
Hottest(zones, dur) ==
    LET top == { z \in zones : dur[z] > 0 /\ \A y \in zones : dur[y] <= dur[z] }
    IN  IF top = {} THEN None ELSE CHOOSE z \in top : \A y \in top : y = z \/ Before(z, y)

SelectCandidate(ws) ==
    LET coarse == [k \in Keys |-> Total(ws, "coarse", k)]
        child == [z \in Children |-> Total(ws, "child", z)]
        hottest == Hottest({ k \in Keys : ~IsPublicSuffixLike(k) }, coarse)
        top == Hottest({ z \in Children : hottest # None /\ Tail(z) = hottest }, child)
    IN  IF top # None /\ child[top] * 10 >= coarse[hottest] * 8 THEN top ELSE hottest

\* Fault: the candidate keeps its streak when the pressure is gone.
NormalKeepsStreak(c, avg) ==
    [c EXCEPT !.observe = FALSE, !.protected = None, !.normalAvg = avg]

Normal(c, avg) ==
    [c EXCEPT !.observe = FALSE, !.protected = None, !.candidate = None, !.streak = 0,
              !.lastWindow = None, !.normalAvg = avg]

Observing(c, avg) ==
    IF c.observe THEN c
    ELSE [c EXCEPT !.observe = TRUE,
                   !.baseline = IF c.normalAvg <= 0 THEN avg ELSE c.normalAvg]

Candidate(c, z, start) ==
    CASE z = None -> [c EXCEPT !.candidate = None, !.streak = 0, !.lastWindow = start]
      [] z # None /\ z # c.candidate ->
           [c EXCEPT !.candidate = z, !.streak = 1, !.lastWindow = start]
      [] z # None /\ z = c.candidate /\ start # c.lastWindow ->
           [c EXCEPT !.streak = @ + 1, !.lastWindow = start]
      [] OTHER -> c

Confirmed(c) ==
    IF c.candidate # None /\ c.streak >= ConfirmWindows
    THEN [c EXCEPT !.protected = c.candidate] ELSE c

Pressure(avg, cpuHigh) == 4 * avg >= 3 * NumCPU * Scale /\ cpuHigh

\* Fault: protection has no way out.
EvaluateStuck(c, ws, avg, pressure) ==
    LET o == Observing(c, avg)
    IN  CASE ~c.observe /\ ~pressure -> [c EXCEPT !.normalAvg = avg]
          [] (c.observe \/ pressure) /\ o.protected # None -> o
          [] c.observe /\ ~pressure /\ o.protected = None -> Normal(o, avg)
          [] OTHER -> Confirmed(Candidate(o, SelectCandidate(ws), CurrentWindow(ws).start))

Evaluate(c, ws, avg, pressure) ==
    LET o == Observing(c, avg)
    IN  CASE ~c.observe /\ ~pressure -> [c EXCEPT !.normalAvg = avg]
          [] (c.observe \/ pressure) /\ o.protected # None ->
               IF 100 * avg <= 105 * o.baseline THEN Normal(o, avg) ELSE o
          [] c.observe /\ ~pressure /\ o.protected = None -> Normal(o, avg)
          [] OTHER -> Confirmed(Candidate(o, SelectCandidate(ws), CurrentWindow(ws).start))

(* Host CPU usage at or above 70%, or not: sampled from /proc/stat. *)
CPUReadings == BOOLEAN

(* The evaluation at the end of Release and at the start of TryEnter, if due. *)
MaybeEvaluate(ws, act, t, rotated, cpuHigh) ==
    LET avg == CurrentGlobalAvg(ws, act, t)
        pressure == Pressure(avg, cpuHigh)
        due == rotated \/ lastEvalAt = None \/ t - lastEvalAt >= EvaluateInterval
    IN  IF ~due THEN [ws |-> ws, at |-> lastEvalAt, ctl |-> ctl, pressed |-> pressed]
        ELSE LET ss == Snapshot(ws, act, t)
             IN  [ws |-> ss, at |-> t, ctl |-> Evaluate(ctl, ss, avg, pressure),
                  pressed |-> IF ~pressure THEN None
                              ELSE IF pressed = None THEN CurrentWindow(ws).start ELSE pressed]

-----------------------------------------------------------------------------
(* When windows begin. *)
Starts == { s \in 0 .. MaxTime : s % WindowDuration = 0 }

HotInit ==
    /\ now = 0 /\ nextID = 0 /\ windows = <<>> /\ lastEvalAt = None /\ reply = None
    /\ active = [r \in Requests |-> None]
    /\ ctl = [observe |-> FALSE, protected |-> None, candidate |-> None, streak |-> 0,
              lastWindow |-> None, normalAvg |-> 0, baseline |-> 0]
    /\ busy = [s \in Starts |-> 0]
    /\ pressed = None

Evaluated(e) ==
    /\ windows' = e.ws /\ lastEvalAt' = e.at /\ ctl' = e.ctl /\ pressed' = e.pressed
    /\ busy' = [s \in Starts |-> IF s < e.ws[1].start THEN 0 ELSE busy[s]]

TryEnter(r, x) ==
    /\ active[r] = None /\ nextID < MaxID
    /\ \E cpuHigh \in CPUReadings :
         LET rot == Rotate(windows, active, now)
             e == MaybeEvaluate(rot.ws, rot.act, now, rot.rotated, cpuHigh)
         IN  /\ Evaluated(e)
             /\ IF e.ctl.protected # None /\ IsSubDomain(e.ctl.protected, x.qname)
                THEN reply' = "refused" /\ active' = rot.act /\ UNCHANGED nextID
                ELSE /\ reply' = "entered" /\ nextID' = nextID + 1
                     /\ active' = [rot.act EXCEPT ![r] =
                          [qname |-> x.qname, coarseKey |-> CoarseKey(x.qname, x.zone),
                           accountedAt |-> now]]
    /\ UNCHANGED now

Release(r) ==
    /\ active[r] # None
    /\ \E cpuHigh \in CPUReadings :
         LET rot == Rotate(windows, active, now)
             sampled == ReplaceCurrent(rot.ws, AddSamples(CurrentWindow(rot.ws), rot.act, {r}, now))
             left == [rot.act EXCEPT ![r] = None]
         IN  /\ Evaluated(MaybeEvaluate(sampled, left, now, rot.rotated, cpuHigh))
             /\ active' = left
    /\ reply' = None
    /\ UNCHANGED <<now, nextID>>

Tick ==
    /\ now < MaxTime
    /\ now' = now + 1
    /\ busy' = [busy EXCEPT ![Truncate(now)] = @ + Cardinality(Running(active))]
    /\ reply' = None
    /\ UNCHANGED <<active, nextID, windows, lastEvalAt, ctl, pressed>>

HotNext ==
    \/ \E r \in Requests : (\E x \in Questions : TryEnter(r, x)) \/ Release(r)
    \/ Tick

HotSpec == HotInit /\ [][HotNext]_hotVars

-----------------------------------------------------------------------------
(* The seconds spent until t in the window that begins at s that no window has yet. *)
Unaccounted(act, s, t) ==
    { p \in Running(act) \X (s .. s + WindowDuration - 1) :
        act[p[1]].accountedAt <= p[2] /\ p[2] < t }

(* Every second a request spends on the expensive path is counted once, in the
   window it was spent in, although requests outlive windows, windows pass without
   a call and accounting happens only in calls: what a window has and what is still
   to be added to it are what was spent in it. *)
GlobalIsOccupancy ==
    windows # <<>> =>
        /\ \A i \in 1 .. Len(windows) :
              LET w == windows[i]
              IN  busy[w.start] = w.global + Cardinality(Unaccounted(active, w.start, now))
        /\ \A s \in Starts : s > CurrentWindow(windows).start =>
              busy[s] = Cardinality(Unaccounted(active, s, now))

(* A burst is spared: protection begins only when every evaluation since a window
   ConfirmWindows - 1 windows ago found pressure. *)
BurstsSpared ==
    [][ctl.protected = None /\ ctl'.protected # None =>
          /\ pressed' # None
          /\ CurrentWindow(windows').start - pressed' >= (ConfirmWindows - 1) * WindowDuration]_hotVars

(* An idle resolver refuses nobody: a request is refused only in a window in which
   the expensive path was in use, however long ago protection began. *)
IdleNeverRefuses ==
    reply = "refused" => busy[Truncate(now)] > 0
=============================================================================

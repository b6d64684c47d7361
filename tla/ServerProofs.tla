------------------------------ MODULE ServerProofs ------------------------------
(* Proofs about two parts of the server package that hold for every configuration.

   ServerLifecycle: PhaseTruthful and QuietAtSnapshot, for any number of listener
   pairs and of warmup domains, any concurrency.  The invariant (IInv) ties what the
   main goroutine knows (its pc, the flag it read before it let go of the lock) to
   where the other goroutines are.

   HotZone: GlobalIsOccupancy, IdleNeverRefuses and BurstsSpared, for any requests,
   names and windows.  The invariant (HotInv) is a ledger: windows do not overlap,
   requests were last accounted in the current one, and what the windows have and
   what they still get is what was spent; the controller's streak and its protection
   are tied to the pressure and to the load of the current window. *)
EXTENDS ServerLifecycle, HotZone, TLAPS

-----------------------------------------------------------------------------
(* The life cycle of the server. *)

WarmPcs == {"off", "started", "querying", "done"}
MainPcs == {"start", "configured", "starting", "ready", "running", "exited", "closing",
            "draining", "pool", "detach", "snapshot", "ended"}
Stopped == {"pool", "detach", "snapshot", "ended"}

(* The main goroutine, the phase it publishes and the warmup. *)
PhaseInv ==
    /\ config \in ConfigType
    /\ pc \in MainPcs
    /\ runtime \in [ready : BOOLEAN, phase : {"cold-start", "warming", "steady", "shutting-down"},
                    warmupDone : BOOLEAN]
    /\ sawDone \in BOOLEAN
    /\ warm \in [pc : WarmPcs, todo : Int, running : Nat]
    /\ warm.pc # "querying" => warm.running = 0
    /\ runtime.warmupDone => warm.pc = "done"
    /\ sawDone => runtime.warmupDone
    /\ ~config.warmup => warm.pc = "off"
    /\ pc \in {"start", "configured"} => warm.pc = "off"
    /\ pc = "ready" => notified = Kinds
    /\ runtime.ready => pc = "running" /\ notified = Kinds /\ runtime.phase # "shutting-down"
    /\ runtime.phase \in {"warming", "steady"} => runtime.ready
    /\ runtime.ready => runtime.phase \in {"warming", "steady"}
    /\ runtime.phase = "steady" => warm.pc \in {"off", "done"}
    /\ pc \in {"closing", "draining"} \cup Stopped <=> runtime.phase = "shutting-down"

(* The goroutines that store in the cache, once the WaitGroup was waited for. *)
QuietInv ==
    /\ listener \in [Slots -> {"off", "new", "bound", "serving", "failing", "done"}]
    /\ \A l \in handling : l \in Slots /\ listener[l] \in {"serving", "failing"}
    /\ handling \subseteq Listeners
    /\ loops \in Nat
    /\ pc \in {"start", "configured"} => handling = {}
    /\ pc \in {"start", "configured"} => \A l \in Slots : listener[l] = "off"
    /\ pc \in Stopped => WaitGroupDone
    /\ pc \in {"snapshot", "ended"} => xdp = "none"

IInv == PhaseInv /\ QuietInv

(* The initial states. *)
LEMMA InvInit == Init => IInv
<1> SUFFICES ASSUME Init PROVE IInv
  OBVIOUS
<1>1. PhaseInv
  <2>1. /\ ~runtime.ready /\ ~runtime.warmupDone /\ runtime.phase = "cold-start"
        /\ warm.pc = "off" /\ warm.running = 0 /\ pc = "start" /\ sawDone = FALSE
    BY DEF Init
  <2>2. runtime \in [ready : BOOLEAN, phase : {"cold-start", "warming", "steady", "shutting-down"},
                     warmupDone : BOOLEAN]
    BY DEF Init
  <2>3. warm \in [pc : WarmPcs, todo : Int, running : Nat]
    BY DEF Init, WarmPcs
  <2>4. config \in ConfigType
    <3>1. PICK c \in ConfigType : config = LoadConfig(c)
      BY LifecycleAssumption DEF Init
    <3>2. LoadTLDList(c.tlds) \in Nat
      BY LifecycleAssumption DEF LoadTLDList, ConfigType
    <3>3. (IF c.concurrency = 0 THEN DefaultConcurrency ELSE c.concurrency) \in Int
      BY LifecycleAssumption DEF ConfigType
    <3>4. QED
      BY <3>1, <3>2, <3>3, Zenon DEF LoadConfig, ConfigType
  <2>5. QED
    BY <2>1, <2>2, <2>3, <2>4, Zenon DEF PhaseInv, MainPcs, Stopped
<1>2. QuietInv
  BY DEF Init, QuietInv, Stopped
<1>3. QED
  BY <1>1, <1>2 DEF IInv

(* The configuration, and with it the set of listeners, never changes. *)
LEMMA ConfigFixed == [Next]_vars => config' = config /\ Listeners' = Listeners
<1> SUFFICES ASSUME [Next]_vars PROVE config' = config /\ Listeners' = Listeners
  OBVIOUS
<1>1. config' = config
  BY Zenon DEF vars, Next, Main, Warmup, Configure, Run, StartupFailed, ReadWarmupDone,
     SetRuntimeServingPhase, ServerError, Signal, BeginShutdown, CloseListener, ListenerClosed,
     AwaitGoroutines, PoolStopped, DetachXDP, SaveSnapshot, StartWarmup, WarmupDomain,
     WarmupQueryEnds, WarmupComplete, WarmupDeadline, Bind, BindFails, Notify, Query, Answer,
     ServeFails, Return, XDPLoopEnds, ProbeLoopEnds, CloseErrChan, Expire
<1>2. QED
  BY <1>1 DEF Listeners, Pairs

(* The steps of the main goroutine keep the phase in step with it. *)
LEMMA PhaseMain == PhaseInv /\ (Main \/ Signal) => PhaseInv'
<1> SUFFICES ASSUME PhaseInv, Main \/ Signal PROVE PhaseInv'
  OBVIOUS
<1> USE DEF PhaseInv, MainPcs, Stopped
<1>1. CASE Configure
  BY <1>1 DEF Configure, lvars, wvars, xvars
<1>2. CASE Run
  BY <1>2 DEF Run, WarmPcs
<1>3. CASE StartupFailed
  BY <1>3 DEF StartupFailed, lvars, wvars, xvars
<1>4. CASE ReadWarmupDone
  BY <1>4 DEF ReadWarmupDone, lvars, wvars, xvars
<1>5. CASE SetRuntimeServingPhase
  BY <1>5, Zenon DEF SetRuntimeServingPhase, lvars, wvars, xvars
<1>6. CASE BeginShutdown /\ pc = "running"
  BY <1>6, Zenon DEF BeginShutdown, lvars, wvars, xvars
<1>7. CASE CloseListener
  BY <1>7 DEF CloseListener, wvars, xvars
<1>8. CASE ListenerClosed
  BY <1>8 DEF ListenerClosed, lvars, wvars, xvars
<1>9. CASE AwaitGoroutines
  BY <1>9 DEF AwaitGoroutines, lvars, wvars, xvars
<1>10. CASE PoolStopped
  BY <1>10 DEF PoolStopped, lvars, wvars, xvars
<1>11. CASE DetachXDP
  BY <1>11 DEF DetachXDP, lvars, wvars, xvars
<1>12. CASE SaveSnapshot
  BY <1>12 DEF SaveSnapshot, lvars, wvars, xvars
<1>13. QED
  BY <1>1, <1>2, <1>3, <1>4, <1>5, <1>6, <1>7, <1>8, <1>9, <1>10, <1>11, <1>12, Zenon
     DEF Main, Signal, ServerError
(* The warmup moves on, and the other goroutines leave the phase alone. *)
LEMMA PhaseOthers ==
    ASSUME PhaseInv, Next, ~Main, ~Signal
    PROVE  PhaseInv'
<1> USE DEF PhaseInv, MainPcs, Stopped
<1>1. CASE StartWarmup
  <2>1. warm' \in [pc : WarmPcs, todo : Int, running : Nat]
    BY <1>1 DEF StartWarmup, WarmPcs, ConfigType
  <2>2. warm.pc = "started" /\ warm'.pc \in {"querying", "done"} /\ warm'.running = 0
    BY <1>1 DEF StartWarmup
  <2>3. UNCHANGED <<config, pc, runtime, sawDone, notified>>
    BY <1>1 DEF StartWarmup, lvars
  <2>4. QED
    BY <2>1, <2>2, <2>3
<1>2. CASE WarmupDomain
  <2>1. warm' \in [pc : WarmPcs, todo : Int, running : Nat]
    <3>1. CASE warm' = [warm EXCEPT !.todo = @ - 1, !.running = @ + 1]
      <4>1. warm' = [pc |-> warm.pc, todo |-> warm.todo - 1, running |-> warm.running + 1]
        BY <3>1, Zenon
      <4>2. warm.pc \in WarmPcs /\ warm.todo - 1 \in Int /\ warm.running + 1 \in Nat
        OBVIOUS
      <4>3. QED
        BY <4>1, <4>2
    <3>2. CASE warm' = [warm EXCEPT !.todo = @ - 1]
      BY <3>2
    <3>3. QED
      BY <1>2, <3>1, <3>2 DEF WarmupDomain
  <2>2. warm.pc = "querying" /\ warm'.pc = "querying"
    BY <1>2, Zenon DEF WarmupDomain
  <2>3. UNCHANGED <<config, pc, runtime, sawDone, notified>>
    BY <1>2 DEF WarmupDomain, lvars
  <2>4. QED
    BY <2>1, <2>2, <2>3
<1>3. CASE WarmupQueryEnds
  BY <1>3 DEF WarmupQueryEnds, lvars, xvars, WarmPcs
<1>4. CASE WarmupComplete
  BY <1>4, Zenon DEF WarmupComplete, MarkRuntimeWarmupComplete, lvars, xvars, WarmPcs
<1>5. CASE WarmupDeadline
  BY <1>5 DEF WarmupDeadline, lvars, xvars
<1>6. ASSUME NEW l \in Listeners,
             \/ Bind(l) \/ BindFails(l) \/ Notify(l) \/ Query(l) \/ Answer(l)
             \/ ServeFails(l) \/ Return(l)
      PROVE  PhaseInv'
  <2>1. /\ UNCHANGED <<config, pc, wvars, runtime, sawDone>>
        /\ notified \subseteq notified'
    BY <1>6 DEF Bind, BindFails, Notify, Query, Answer, ServeFails, Return
  <2>2. notified = Kinds => notified' = Kinds
    BY <1>6 DEF Bind, BindFails, Notify, Query, Answer, ServeFails, Return, Listeners, Slots, Kinds
  <2>3. QED
    BY <2>1, <2>2 DEF wvars
<1>7. CASE XDPLoopEnds \/ ProbeLoopEnds \/ CloseErrChan \/ Expire
  BY <1>7 DEF XDPLoopEnds, ProbeLoopEnds, CloseErrChan, Expire, lvars, wvars, xvars
<1>8. QED
  BY <1>1, <1>2, <1>3, <1>4, <1>5, <1>6, <1>7, Zenon DEF Next, Warmup

(* Nothing that stores in the cache starts again once the WaitGroup is done. *)
LEMMA QuietStep ==
    ASSUME PhaseInv, QuietInv, Next
    PROVE  QuietInv'
<1>0. config' = config /\ Listeners' = Listeners /\ Listeners \subseteq Slots
  BY ConfigFixed DEF Listeners
<1> USE <1>0 DEF QuietInv, WaitGroupDone, Stopped
<1>1. CASE Configure \/ StartupFailed \/ ReadWarmupDone \/ SetRuntimeServingPhase \/ ListenerClosed
  BY <1>1 DEF Configure, StartupFailed, ReadWarmupDone, SetRuntimeServingPhase, ListenerClosed,
     lvars, wvars, xvars
<1>2. CASE Run
  BY <1>2 DEF Run
<1>3. CASE Signal \/ ServerError
  BY <1>3 DEF Signal, ServerError, BeginShutdown, lvars
<1>4. CASE CloseListener
  BY <1>4 DEF CloseListener, wvars, xvars
<1>5. CASE AwaitGoroutines \/ PoolStopped \/ DetachXDP \/ SaveSnapshot
  BY <1>5, Zenon DEF AwaitGoroutines, PoolStopped, DetachXDP, SaveSnapshot, lvars, wvars, xvars
<1>6. CASE StartWarmup \/ WarmupDomain \/ WarmupComplete \/ WarmupDeadline
  BY <1>6 DEF StartWarmup, WarmupDomain, WarmupComplete, WarmupDeadline, lvars, xvars
<1>7. CASE WarmupQueryEnds
  BY <1>7 DEF WarmupQueryEnds, lvars, xvars, PhaseInv
<1>8. ASSUME NEW l \in Listeners,
             \/ Bind(l) \/ BindFails(l) \/ Notify(l) \/ Query(l) \/ Answer(l)
             \/ ServeFails(l) \/ Return(l)
      PROVE  QuietInv'
  <2> USE <1>8
  <2>1. CASE Bind(l)
    BY <2>1 DEF Bind, wvars, xvars
  <2>2. CASE BindFails(l)
    BY <2>2 DEF BindFails, wvars, xvars
  <2>3. CASE Notify(l)
    BY <2>3 DEF Notify, wvars, xvars
  <2>4. CASE Query(l)
    BY <2>4 DEF Query, wvars, xvars
  <2>5. CASE Answer(l)
    BY <2>5 DEF Answer, wvars, xvars
  <2>6. CASE ServeFails(l)
    BY <2>6 DEF ServeFails, wvars, xvars
  <2>7. CASE Return(l)
    BY <2>7 DEF Return, wvars, xvars
  <2>8. QED
    BY <1>8, <2>1, <2>2, <2>3, <2>4, <2>5, <2>6, <2>7
<1>9. CASE XDPLoopEnds \/ ProbeLoopEnds \/ CloseErrChan \/ Expire
  BY <1>9 DEF XDPLoopEnds, ProbeLoopEnds, CloseErrChan, Expire, lvars, wvars, xvars
<1>10. QED
  BY <1>1, <1>2, <1>3, <1>4, <1>5, <1>6, <1>7, <1>8, <1>9, Zenon DEF Next, Main, Warmup

(* The invariant is inductive. *)
LEMMA InvStep == IInv /\ [Next]_vars => IInv'
<1> SUFFICES ASSUME IInv, [Next]_vars PROVE IInv'
  OBVIOUS
<1>1. CASE Next
  <2>1. PhaseInv'
    BY <1>1, PhaseMain, PhaseOthers DEF IInv
  <2>2. QuietInv'
    BY <1>1, QuietStep DEF IInv
  <2>3. QED
    BY <2>1, <2>2 DEF IInv
<1>2. CASE UNCHANGED vars
  BY <1>2, ConfigFixed DEF vars, lvars, wvars, xvars, IInv, PhaseInv, QuietInv, WaitGroupDone
<1>3. QED
  BY <1>1, <1>2

(* What readiness says of the goroutines is true, for every configuration: the
   flag SetRuntimeServingPhase read before it let go of the lock may be stale, but
   only in the direction that keeps "warming". *)
THEOREM PhaseSafe == Spec => []PhaseTruthful
<1>1. IInv => PhaseTruthful
  BY DEF IInv, PhaseInv, PhaseTruthful, ShuttingDown, Stopped, MainPcs
<1>2. QED
  BY InvInit, InvStep, <1>1, PTL DEF Spec

(* The snapshot is written with no handler and no warmup query running, for every
   configuration, however early the shutdown context expired. *)
THEOREM SnapshotQuiet == Spec => []QuietAtSnapshot
<1>1. IInv => QuietAtSnapshot
  BY DEF IInv, PhaseInv, QuietInv, WaitGroupDone, Stopped, QuietAtSnapshot
<1>2. QED
  BY InvInit, InvStep, <1>1, PTL DEF Spec
-----------------------------------------------------------------------------
(* The invariant of the hot-zone controller. *)

Window == [start : Nat, global : Nat, coarse : [Keys -> Nat], child : [Children -> Nat]]

Actives == [Requests -> ActiveRequest \cup {None}]

(* Windows begin where windows may, and do not overlap. *)
Ordered(ws) ==
    \A i \in 1 .. Len(ws) :
        /\ ws[i].start \in Starts
        /\ \A j \in 1 .. Len(ws) : i < j => ws[i].start + WindowDuration <= ws[j].start

(* Running requests were last accounted in the current window. *)
Current(ws, act, t) ==
    /\ CurrentWindow(ws).start <= t
    /\ \A r \in Running(act) :
          /\ CurrentWindow(ws).start <= act[r].accountedAt /\ act[r].accountedAt <= t
          /\ act[r].accountedAt < CurrentWindow(ws).start + WindowDuration

(* What the windows have and what is still to be added to them is what was spent. *)
Booked(ws, act, bz, t) ==
    /\ \A i \in 1 .. Len(ws) :
          bz[ws[i].start] = ws[i].global + Cardinality(Unaccounted(act, ws[i].start, t))
    /\ \A s \in Starts : s > CurrentWindow(ws).start => bz[s] = Cardinality(Unaccounted(act, s, t))

Ledger(ws, act, bz, t) ==
    /\ ws \in Seq(Window) /\ ws # <<>> /\ act \in Actives
    /\ Ordered(ws) /\ Current(ws, act, t) /\ Booked(ws, act, bz, t)

(* The streak of a candidate that is not protected yet was under pressure throughout. *)
Streak(c, pr, last) ==
    /\ pr # None => pr \in Nat /\ pr <= last
    /\ c.protected = None /\ c.candidate # None =>
          /\ pr # None /\ c.lastWindow \in Starts /\ c.lastWindow <= last /\ c.streak >= 1
          /\ c.lastWindow - pr >= (c.streak - 1) * WindowDuration

Control(c) ==
    /\ c = [observe |-> c.observe, protected |-> c.protected, candidate |-> c.candidate,
            streak |-> c.streak, lastWindow |-> c.lastWindow,
            normalAvg |-> c.normalAvg, baseline |-> c.baseline]
    /\ c.observe \in BOOLEAN /\ c.streak \in Nat /\ c.normalAvg \in Nat /\ c.baseline \in Nat
    /\ ~c.observe => c.protected = None /\ c.candidate = None

Unused ==
    /\ \A r \in Requests : active[r] = None
    /\ \A s \in Starts : busy[s] = 0
    /\ lastEvalAt = None /\ pressed = None /\ ~ctl.observe

Used ==
    /\ Ledger(windows, active, busy, now)
    /\ Streak(ctl, pressed, CurrentWindow(windows).start)
    /\ ctl.protected # None => busy[CurrentWindow(windows).start] > 0

HotInv ==
    /\ now \in 0 .. MaxTime /\ active \in Actives /\ busy \in [Starts -> Nat] /\ Control(ctl)
    /\ IF windows = <<>> THEN Unused ELSE Used
    /\ IdleNeverRefuses

-----------------------------------------------------------------------------
(* Numbers *)

LEMMA Division ==
    ASSUME NEW d \in Nat \ {0}, NEW t \in Nat
    PROVE  /\ t \div d \in Nat /\ t % d \in 0 .. d - 1 /\ t = d * (t \div d) + (t % d)
BY Z3

LEMMA Multiple ==
    ASSUME NEW d \in Nat \ {0}, NEW k \in Nat
    PROVE  (d * k) % d = 0 /\ d * k \in Nat
BY Z3

LEMMA Distribution ==
    ASSUME NEW a \in Int, NEW b \in Int, NEW d \in Int
    PROVE  (a + b) * d = a * d + b * d
BY Z3

LEMMA IsMultiple ==
    ASSUME NEW d \in Nat \ {0}, NEW s \in Nat, s % d = 0
    PROVE  \E a \in Nat : s = d * a
<1> DEFINE a == s \div d
<1>1. a \in Nat /\ s = d * a + 0
  BY Division, Zenon
<1> HIDE DEF a
<1>2. PICK m \in Nat : m = d * a
  BY <1>1, Multiple, Zenon
<1>3. s = m
  BY <1>1, <1>2
<1> QED BY <1>1, <1>2, <1>3, Zenon

LEMMA NextMultiple ==
    ASSUME NEW d \in Nat \ {0}, NEW s \in Nat, NEW u \in Nat, s % d = 0, u % d = 0, s < u
    PROVE  s + d <= u
<1>1. PICK a \in Nat : s = d * a
  BY IsMultiple, Zenon
<1>2. PICK b \in Nat : u = d * b
  BY IsMultiple, Zenon
<1>3. a < b
  BY <1>1, <1>2
<1>4. d * (a + 1) <= d * b
  BY <1>3
<1>5. d * (a + 1) = d * a + d
  BY <1>3
<1> QED BY <1>1, <1>2, <1>4, <1>5

LEMMA OneMore ==
    ASSUME NEW d \in Nat \ {0}, NEW s \in Nat, s % d = 0
    PROVE  (s + d) % d = 0
<1>1. PICK a \in Nat : s = d * a
  BY IsMultiple, Zenon
<1>2. d * (a + 1) = s + d /\ a + 1 \in Nat
  BY <1>1
<1>3. (d * (a + 1)) % d = 0
  BY <1>2, Multiple, Zenon
<1> QED BY <1>2, <1>3, Zenon

\* Where a window of time t begins.
LEMMA Truncated ==
    ASSUME NEW t \in Nat
    PROVE  /\ Truncate(t) \in Nat /\ Truncate(t) <= t /\ t < Truncate(t) + WindowDuration
           /\ Truncate(t) % WindowDuration = 0
<1> DEFINE d == WindowDuration
           k == t \div d
<1>1. d \in Nat \ {0}
  BY HotZoneAssumption, Zenon
<1> HIDE DEF d
<1>2. k \in Nat /\ t % d \in 0 .. d - 1 /\ t = d * k + (t % d)
  BY <1>1, Division, Zenon
<1>3. (d * k) % d = 0 /\ d * k \in Nat
  BY <1>1, <1>2, Multiple, Zenon
<1>4. Truncate(t) = t - (t % d)
  BY Zenon DEF Truncate, d
<1> HIDE DEF k
<1>5. t - (t % d) = d * k
  <2>1. PICK m \in Nat : m = d * k
    BY <1>3, Zenon
  <2>2. PICK e \in 0 .. d - 1 : e = t % d
    BY <1>2, Zenon
  <2>3. t = m + e
    BY <1>2, <2>1, <2>2, Zenon
  <2>4. t - e = m
    BY <1>1, <2>3
  <2> QED BY <2>1, <2>2, <2>4, Zenon
<1>6. Truncate(t) <= t /\ t < Truncate(t) + d
  BY <1>1, <1>2, <1>3, <1>4
<1> QED BY <1>3, <1>4, <1>5, <1>6, Zenon DEF d

LEMMA SameWindow ==
    ASSUME NEW t \in Nat, NEW s \in Nat, s % WindowDuration = 0, s <= t, t < s + WindowDuration
    PROVE  Truncate(t) = s
<1> DEFINE u == Truncate(t)
<1>1. WindowDuration \in Nat \ {0}
  BY HotZoneAssumption, Zenon
<1>2. u \in Nat /\ u <= t /\ t < u + WindowDuration /\ u % WindowDuration = 0
  BY Truncated, Zenon
<1> HIDE DEF u
<1>3. ~(s < u)
  <2>1. s < u => s + WindowDuration <= u
    BY <1>1, <1>2, NextMultiple, Zenon
  <2> QED BY <1>1, <1>2, <2>1
<1>4. ~(u < s)
  <2>1. u < s => u + WindowDuration <= s
    BY <1>1, <1>2, NextMultiple, Zenon
  <2> QED BY <1>1, <1>2, <2>1
<1>5. u = s
  BY <1>2, <1>3, <1>4
<1> QED BY <1>5, Zenon DEF u

\* How many windows have passed.
LEMMA Passed ==
    ASSUME NEW s \in Nat, NEW t \in Nat, s <= t
    PROVE  /\ (t - s) \div WindowDuration \in Nat
           /\ s + WindowDuration * ((t - s) \div WindowDuration) <= t
           /\ t < s + WindowDuration * ((t - s) \div WindowDuration) + WindowDuration
<1> DEFINE d == WindowDuration
           x == t - s
           k == x \div d
<1>1. d \in Nat \ {0} /\ x \in Nat
  BY HotZoneAssumption
<1> HIDE DEF d, x
<1>2. k \in Nat /\ x % d \in 0 .. d - 1 /\ x = d * k + (x % d) /\ d * k \in Nat
  BY <1>1, Division, Multiple, Zenon
<1> HIDE DEF k
<1>3. s + d * k <= t /\ t < s + d * k + d
  BY <1>1, <1>2 DEF x
<1> QED BY <1>2, <1>3, Zenon DEF d, k, x

-----------------------------------------------------------------------------
(* Windows *)

LEMMA CurrentIs ==
    ASSUME NEW ws \in Seq(Window), ws # <<>>
    PROVE  Len(ws) \in Nat \ {0} /\ CurrentWindow(ws) = ws[Len(ws)] /\ CurrentWindow(ws) \in Window
BY DEF CurrentWindow

LEMMA Replaced ==
    ASSUME NEW ws \in Seq(Window), ws # <<>>, NEW w \in Window
    PROVE  /\ ReplaceCurrent(ws, w) \in Seq(Window) /\ ReplaceCurrent(ws, w) # <<>>
           /\ Len(ReplaceCurrent(ws, w)) = Len(ws) /\ CurrentWindow(ReplaceCurrent(ws, w)) = w
           /\ ReplaceCurrent(ws, w)[Len(ws)] = w
           /\ \A i \in 1 .. Len(ws) - 1 : ReplaceCurrent(ws, w)[i] = ws[i]
<1>1. Len(ws) \in Nat \ {0}
  BY CurrentIs, Zenon
<1> DEFINE n == Len(ws)
           new == [ws EXCEPT ![n] = w]
<1>2. ws \in [1 .. n -> Window] /\ n \in 1 .. n
  BY <1>1
<1> HIDE DEF n
<1>3. new \in [1 .. n -> Window] /\ new[n] = w /\ \A i \in 1 .. n - 1 : new[i] = ws[i]
  <2>1. n \in Nat
    BY <1>1, Zenon DEF n
  <2>2. new \in [1 .. n -> Window] /\ new[n] = w /\ \A i \in 1 .. n : i # n => new[i] = ws[i]
    BY <1>2, Zenon
  <2>3. \A i \in 1 .. n - 1 : i \in 1 .. n /\ i # n
    BY <2>1
  <2> QED BY <2>2, <2>3, Zenon
<1> HIDE DEF new
<1>4. new \in Seq(Window) /\ Len(new) = n /\ new # <<>>
  BY <1>1, <1>3 DEF n
<1> QED BY <1>3, <1>4, Zenon DEF ReplaceCurrent, CurrentWindow, new, n

LEMMA NewWindowTyped ==
    ASSUME NEW s \in Nat
    PROVE  NewWindow(s) \in Window /\ NewWindow(s).start = s /\ NewWindow(s).global = 0
BY DEF NewWindow, Window

LEMMA Advanced ==
    ASSUME NEW ws \in Seq(Window), ws # <<>>, NEW s \in Nat
    PROVE  /\ AdvanceWindow(ws, s) \in Seq(Window) /\ AdvanceWindow(ws, s) # <<>>
           /\ CurrentWindow(AdvanceWindow(ws, s)) = NewWindow(s)
           /\ \E k \in 0 .. Len(ws) :
                /\ Len(AdvanceWindow(ws, s)) = Len(ws) - k + 1
                /\ \A i \in 1 .. Len(ws) - k : AdvanceWindow(ws, s)[i] = ws[i + k]
<1> DEFINE w == NewWindow(s)
           all == Append(ws, w)
           k == IF Len(ws) + 1 > RecentWindowCount THEN Len(ws) + 1 - RecentWindowCount ELSE 0
           out == SubSeq(all, k + 1, Len(ws) + 1)
<1>1. w \in Window
  BY NewWindowTyped, Zenon
<1> HIDE DEF w
<1>2. /\ all \in Seq(Window) /\ Len(all) = Len(ws) + 1 /\ all[Len(ws) + 1] = w
      /\ \A i \in 1 .. Len(ws) : all[i] = ws[i]
      /\ Len(ws) \in Nat
  BY <1>1
<1> HIDE DEF all
<1>3. k \in 0 .. Len(ws)
  BY <1>2, HotZoneAssumption
<1>4. AdvanceWindow(ws, s) = out
  <2>1. (IF Len(all) > RecentWindowCount THEN Len(all) - RecentWindowCount + 1 ELSE 1) = k + 1
    BY <1>2, HotZoneAssumption
  <2>2. AdvanceWindow(ws, s) = SubSeq(all, IF Len(all) > RecentWindowCount THEN Len(all) - RecentWindowCount + 1 ELSE 1, Len(all))
    BY Zenon DEF AdvanceWindow, all, w
  <2> HIDE DEF k
  <2> QED BY <1>2, <2>1, <2>2, Zenon
<1> HIDE DEF k
<1>5. /\ out \in Seq(Window) /\ Len(out) = Len(ws) - k + 1
      /\ \A i \in 1 .. Len(ws) - k + 1 : out[i] = all[i + k]
  BY <1>2, <1>3
<1> HIDE DEF out
<1>6. out # <<>> /\ CurrentWindow(out) = w
  BY <1>2, <1>3, <1>5 DEF CurrentWindow
<1>7. \A i \in 1 .. Len(ws) - k : out[i] = ws[i + k]
  BY <1>2, <1>3, <1>5
<1> QED BY <1>3, <1>4, <1>5, <1>6, <1>7, Zenon DEF w

-----------------------------------------------------------------------------
(* Evaluation *)

LEMMA Observed ==
    ASSUME NEW c, Control(c), NEW avg \in Nat
    PROVE  /\ Control(Observing(c, avg)) /\ Observing(c, avg).observe
           /\ Observing(c, avg).protected = c.protected /\ Observing(c, avg).candidate = c.candidate
           /\ Observing(c, avg).streak = c.streak /\ Observing(c, avg).lastWindow = c.lastWindow
<1>1. CASE c.observe
  BY <1>1, Zenon DEF Observing
<1>2. CASE ~c.observe
  <2> DEFINE b == IF c.normalAvg <= 0 THEN avg ELSE c.normalAvg
  <2>1. b \in Nat
    BY DEF Control
  <2> HIDE DEF b
  <2>2. Observing(c, avg) = [c EXCEPT !.observe = TRUE, !.baseline = b]
    BY <1>2, Zenon DEF Observing, b
  <2>3. Observing(c, avg) = [observe |-> TRUE, protected |-> c.protected, candidate |-> c.candidate,
            streak |-> c.streak, lastWindow |-> c.lastWindow, normalAvg |-> c.normalAvg, baseline |-> b]
    BY <2>2, Zenon DEF Control
  <2> QED BY <2>1, <2>3 DEF Control
<1> QED BY <1>1, <1>2 DEF Control

LEMMA Normalised ==
    ASSUME NEW c, Control(c), NEW avg \in Nat
    PROVE  /\ Control(Normal(c, avg))
           /\ Normal(c, avg).protected = None /\ Normal(c, avg).candidate = None
<1>0. Normal(c, avg) = [c EXCEPT !.observe = FALSE, !.protected = None, !.candidate = None,
            !.streak = 0, !.lastWindow = None, !.normalAvg = avg]
  BY Zenon DEF Normal
<1>1. Normal(c, avg) = [observe |-> FALSE, protected |-> None, candidate |-> None,
            streak |-> 0, lastWindow |-> None, normalAvg |-> avg, baseline |-> c.baseline]
  BY <1>0, Zenon DEF Control
<1> QED BY <1>1 DEF Control

\* What a candidate is after an evaluation under pressure in the window that begins at s.
LEMMA CandidateKept ==
    ASSUME NEW c, Control(c), c.observe, c.protected = None, NEW z, NEW old \in Nat,
           NEW s \in Starts, old <= s, NEW pr, Streak(c, pr, old), NEW prs \in Nat,
           pr = None => prs = s, pr # None => prs = pr
    PROVE  /\ Control(Candidate(c, z, s)) /\ Candidate(c, z, s).observe
           /\ Candidate(c, z, s).protected = None /\ Streak(Candidate(c, z, s), prs, s)
           /\ Candidate(c, z, s).candidate # None => Candidate(c, z, s).lastWindow = s
<1> DEFINE d == Candidate(c, z, s)
<1>0. /\ s \in Nat /\ s % WindowDuration = 0 /\ prs <= s /\ prs # None
      /\ WindowDuration \in Nat \ {0} /\ c.streak \in Nat
  <2>1. s \in Nat /\ s % WindowDuration = 0
    BY HotZoneAssumption DEF Starts
  <2>2. prs <= s
    BY <2>1 DEF Streak
  <2>3. prs # None
    BY HotZoneAssumption, Zenon
  <2> QED BY <2>1, <2>2, <2>3, HotZoneAssumption, Zenon DEF Control
<1>1. CASE z = None
  <2>1. d = [c EXCEPT !.candidate = None, !.streak = 0, !.lastWindow = s]
    BY <1>1 DEF Candidate
  <2>2. d = [observe |-> c.observe, protected |-> c.protected, candidate |-> None,
             streak |-> 0, lastWindow |-> s, normalAvg |-> c.normalAvg, baseline |-> c.baseline]
    BY <2>1, Zenon DEF Control
  <2> HIDE DEF d
  <2>3. Control(d) /\ d.observe /\ d.protected = None /\ d.candidate = None
    BY <2>2 DEF Control
  <2>4. Streak(d, prs, s)
    BY <1>0, <2>3, Zenon DEF Streak
  <2> QED BY <2>3, <2>4, Zenon DEF d
<1>2. CASE z # None /\ z # c.candidate
  <2>1. d = [c EXCEPT !.candidate = z, !.streak = 1, !.lastWindow = s]
    BY <1>2 DEF Candidate
  <2>2. d = [observe |-> c.observe, protected |-> c.protected, candidate |-> z,
             streak |-> 1, lastWindow |-> s, normalAvg |-> c.normalAvg, baseline |-> c.baseline]
    BY <2>1, Zenon DEF Control
  <2> HIDE DEF d
  <2>3. Control(d) /\ d.observe /\ d.protected = None /\ d.streak = 1 /\ d.lastWindow = s
    BY <2>2 DEF Control
  <2>4. d.lastWindow - prs >= (d.streak - 1) * WindowDuration /\ d.lastWindow <= s /\ d.streak >= 1
    BY <1>0, <2>3
  <2>5. Streak(d, prs, s)
    BY <1>0, <2>3, <2>4, Zenon DEF Streak
  <2> QED BY <2>3, <2>5, Zenon DEF d
<1>3. CASE z # None /\ z = c.candidate /\ s # c.lastWindow
  <2>1. d = [c EXCEPT !.streak = @ + 1, !.lastWindow = s]
    BY <1>3 DEF Candidate
  <2>2. d = [observe |-> c.observe, protected |-> c.protected, candidate |-> c.candidate,
             streak |-> c.streak + 1, lastWindow |-> s, normalAvg |-> c.normalAvg, baseline |-> c.baseline]
    BY <2>1, Zenon DEF Control
  <2> HIDE DEF d
  <2>3. /\ Control(d) /\ d.observe /\ d.protected = None /\ d.streak = c.streak + 1
        /\ d.lastWindow = s
    BY <2>2 DEF Control
  <2>4. /\ pr # None /\ c.lastWindow \in Starts /\ c.lastWindow <= old /\ c.streak >= 1
        /\ c.lastWindow - pr >= (c.streak - 1) * WindowDuration
    BY <1>3, Zenon DEF Streak
  <2>5. prs = pr
    BY <2>4, Zenon
  <2>6. c.lastWindow \in Nat /\ c.lastWindow % WindowDuration = 0
    BY <2>4, HotZoneAssumption DEF Starts
  <2>7. c.lastWindow < s
    BY <1>0, <1>3, <2>4, <2>6
  <2>8. c.lastWindow + WindowDuration <= s
    BY <1>0, <2>6, <2>7, NextMultiple, Zenon
  <2>9. s - prs >= c.streak * WindowDuration
    <3>1. c.lastWindow - prs >= (c.streak - 1) * WindowDuration
      BY <2>4, <2>5, Zenon
    <3>2. (c.streak - 1) * WindowDuration = c.streak * WindowDuration - WindowDuration
      BY <1>0
    <3>3. c.streak * WindowDuration \in Int
      BY <1>0
    <3> QED BY <1>0, <2>6, <2>8, <3>1, <3>2, <3>3
  <2>10. d.streak - 1 = c.streak /\ d.streak >= 1 /\ d.lastWindow <= s
    BY <1>0, <2>3
  <2>11. Streak(d, prs, s)
    BY <1>0, <2>3, <2>9, <2>10, Zenon DEF Streak
  <2> QED BY <2>3, <2>11, Zenon DEF d
<1>4. CASE z # None /\ z = c.candidate /\ s = c.lastWindow
  <2>1. d = c
    BY <1>4, Zenon DEF Candidate
  <2>2. /\ pr # None /\ c.streak >= 1
        /\ c.lastWindow - pr >= (c.streak - 1) * WindowDuration
    BY <1>4, Zenon DEF Streak
  <2>3. prs = pr /\ c.lastWindow <= s
    BY <1>0, <1>4, <2>2
  <2>4. Streak(c, prs, s)
    BY <1>0, <1>4, <2>2, <2>3, Zenon DEF Streak
  <2> QED BY <1>4, <2>1, <2>4, Zenon
<1> QED BY <1>1, <1>2, <1>3, <1>4, Zenon

\* A candidate is protected once its streak is long enough.
LEMMA ConfirmedKept ==
    ASSUME NEW c, Control(c), c.observe, c.protected = None, NEW s \in Starts, NEW prs \in Nat,
           Streak(c, prs, s), c.candidate # None => c.lastWindow = s
    PROVE  /\ Control(Confirmed(c)) /\ Streak(Confirmed(c), prs, s)
           /\ Confirmed(c).protected # None => s - prs >= (ConfirmWindows - 1) * WindowDuration
<1>1. CASE c.candidate # None /\ c.streak >= ConfirmWindows
  <2> DEFINE d == Confirmed(c)
  <2>1. d = [c EXCEPT !.protected = c.candidate]
    BY <1>1, Zenon DEF Confirmed
  <2>2. d = [observe |-> c.observe, protected |-> c.candidate, candidate |-> c.candidate,
             streak |-> c.streak, lastWindow |-> c.lastWindow, normalAvg |-> c.normalAvg,
             baseline |-> c.baseline]
    BY <2>1, Zenon DEF Control
  <2> HIDE DEF d
  <2>3. Control(d) /\ d.protected # None
    BY <1>1, <2>2 DEF Control
  <2>4. Streak(d, prs, s)
    BY <2>3, Zenon DEF Streak
  <2>5. s - prs >= (c.streak - 1) * WindowDuration
    BY <1>1, Zenon DEF Streak
  <2>6. (c.streak - 1) * WindowDuration >= (ConfirmWindows - 1) * WindowDuration
    <3>1. PICK x \in Nat : x = c.streak - ConfirmWindows
      BY <1>1, HotZoneAssumption DEF Control
    <3>2. x * WindowDuration \in Nat
      BY <3>1, HotZoneAssumption
    <3>3. c.streak - 1 = (ConfirmWindows - 1) + x
      BY <1>1, <3>1, HotZoneAssumption DEF Control
    <3>4. ((ConfirmWindows - 1) + x) * WindowDuration = (ConfirmWindows - 1) * WindowDuration + x * WindowDuration
      BY <3>1, HotZoneAssumption, Distribution DEF Control
    <3>5. (ConfirmWindows - 1) * WindowDuration \in Int
      BY HotZoneAssumption
    <3> QED BY <3>2, <3>3, <3>4, <3>5
  <2>7. /\ s - prs \in Int /\ (c.streak - 1) * WindowDuration \in Int
        /\ (ConfirmWindows - 1) * WindowDuration \in Int
    BY HotZoneAssumption DEF Control, Starts
  <2>8. s - prs >= (ConfirmWindows - 1) * WindowDuration
    <3> DEFINE x == s - prs
               y == (c.streak - 1) * WindowDuration
               u == (ConfirmWindows - 1) * WindowDuration
    <3>1. x \in Int /\ y \in Int /\ u \in Int /\ x >= y /\ y >= u
      BY <2>5, <2>6, <2>7, Zenon
    <3> HIDE DEF x, y, u
    <3>2. x >= u
      BY <3>1
    <3> QED BY <3>2, Zenon DEF x, u
  <2> QED BY <2>3, <2>4, <2>8, Zenon DEF d
<1>2. CASE ~(c.candidate # None /\ c.streak >= ConfirmWindows)
  BY <1>2, Zenon DEF Confirmed
<1> QED BY <1>1, <1>2, Zenon

\* Since when there is pressure, after an evaluation in the window that begins at s.
PressedSince(pr, pressure, s) ==
    IF ~pressure THEN None ELSE IF pr = None THEN s ELSE pr

LEMMA EvaluateKept ==
    ASSUME NEW c, Control(c), NEW ws, NEW s \in Starts, CurrentWindow(ws).start = s, NEW avg \in Nat,
           NEW pressure \in BOOLEAN, pressure => avg > 0, NEW old \in Nat, old <= s,
           NEW pr, Streak(c, pr, old)
    PROVE  /\ Control(Evaluate(c, ws, avg, pressure))
           /\ Streak(Evaluate(c, ws, avg, pressure), PressedSince(pr, pressure, s), s)
           /\ Evaluate(c, ws, avg, pressure).protected # None => avg > 0
           /\ c.protected = None /\ Evaluate(c, ws, avg, pressure).protected # None =>
                /\ PressedSince(pr, pressure, s) # None
                /\ s - PressedSince(pr, pressure, s) >= (ConfirmWindows - 1) * WindowDuration
<1> DEFINE e == Evaluate(c, ws, avg, pressure)
           o == Observing(c, avg)
           prs == PressedSince(pr, pressure, s)
<1>0. s \in Nat /\ None \notin Nat
  BY HotZoneAssumption DEF Starts
<1>1. /\ Control(o) /\ o.observe /\ o.protected = c.protected /\ o.candidate = c.candidate
      /\ o.streak = c.streak /\ o.lastWindow = c.lastWindow
  BY Observed, Zenon
<1>2. prs # None => prs \in Nat /\ prs <= s
  BY <1>0 DEF PressedSince, Streak
<1>3. Control(Normal(o, avg)) /\ Normal(o, avg).protected = None /\ Normal(o, avg).candidate = None
  BY <1>1, Normalised, Zenon
<1>4. CASE ~c.observe /\ ~pressure
  <2>1. e = [c EXCEPT !.normalAvg = avg]
    BY <1>4, Zenon DEF Evaluate
  <2>2. e = [observe |-> c.observe, protected |-> c.protected, candidate |-> c.candidate,
             streak |-> c.streak, lastWindow |-> c.lastWindow, normalAvg |-> avg,
             baseline |-> c.baseline]
    BY <2>1, Zenon DEF Control
  <2> HIDE DEF e
  <2>3. Control(e) /\ e.protected = None /\ e.candidate = None
    BY <1>4, <2>2 DEF Control
  <2>4. Streak(e, prs, s)
    BY <1>2, <2>3, Zenon DEF Streak
  <2> QED BY <2>3, <2>4, Zenon DEF e, prs
<1>5. CASE (c.observe \/ pressure) /\ c.protected # None
  <2>1. e = IF 100 * avg <= 105 * o.baseline THEN Normal(o, avg) ELSE o
    BY <1>1, <1>5, Zenon DEF Evaluate
  <2>2. CASE 100 * avg <= 105 * o.baseline
    <3>1. e = Normal(o, avg)
      BY <2>1, <2>2, Zenon
    <3> HIDE DEF e, o
    <3>2. Streak(e, prs, s)
      BY <1>2, <1>3, <3>1, Zenon DEF Streak
    <3> QED BY <1>3, <3>1, <3>2, Zenon DEF e, prs
  <2>3. CASE ~(100 * avg <= 105 * o.baseline)
    <3>1. e = o
      BY <2>1, <2>3, Zenon
    <3> HIDE DEF e, o
    <3>2. o.baseline \in Nat
      BY <1>1, Zenon DEF Control
    <3>3. avg > 0
      BY <2>3, <3>2
    <3>4. Streak(e, prs, s)
      BY <1>1, <1>2, <1>5, <3>1, Zenon DEF Streak
    <3> QED BY <1>1, <1>5, <3>1, <3>3, <3>4, Zenon DEF e, prs
  <2> QED BY <2>2, <2>3, Zenon
<1>6. CASE c.observe /\ ~pressure /\ c.protected = None
  <2>1. e = Normal(o, avg)
    BY <1>1, <1>6, Zenon DEF Evaluate
  <2> HIDE DEF e, o
  <2>2. Streak(e, prs, s)
    BY <1>2, <1>3, <2>1, Zenon DEF Streak
  <2> QED BY <1>3, <2>1, <2>2, Zenon DEF e, prs
<1>7. CASE pressure /\ c.protected = None
  <2> DEFINE z == SelectCandidate(ws)
             d == Candidate(o, z, s)
  <2>1. e = Confirmed(d)
    BY <1>1, <1>7, Zenon DEF Evaluate
  <2>2. prs \in Nat /\ (pr = None => prs = s) /\ (pr # None => prs = pr)
    <3>1. (pr = None => prs = s) /\ (pr # None => prs = pr)
      BY <1>7, Zenon DEF PressedSince
    <3> QED BY <1>0, <3>1, Zenon DEF Streak
  <2> HIDE DEF e, o, prs, z
  <2>3. Streak(o, pr, old) /\ Control(o) /\ o.observe /\ o.protected = None
    BY <1>1, <1>7, Zenon DEF Streak
  <2>4. /\ Control(d) /\ d.observe /\ d.protected = None /\ Streak(d, prs, s)
        /\ d.candidate # None => d.lastWindow = s
    BY <2>2, <2>3, CandidateKept
  <2> HIDE DEF d
  <2>5. /\ Control(e) /\ Streak(e, prs, s)
        /\ e.protected # None => s - prs >= (ConfirmWindows - 1) * WindowDuration
    BY <2>1, <2>2, <2>4, ConfirmedKept, Zenon
  <2>6. prs # None
    BY <1>0, <2>2, Zenon
  <2> QED BY <1>7, <2>5, <2>6, Zenon DEF e, prs
<1> QED BY <1>4, <1>5, <1>6, <1>7, Zenon

\* The average is positive only if there is time in the current window.
LEMMA AverageTyped ==
    ASSUME NEW ws \in Seq(Window), ws # <<>>, NEW act, NEW t \in Nat, CurrentWindow(ws).start <= t,
           Spent(act, Running(act), t) \in Nat
    PROVE  /\ CurrentGlobalAvg(ws, act, t) \in Nat
           /\ CurrentGlobalAvg(ws, act, t) > 0 => CurrentWindow(ws).global + Spent(act, Running(act), t) > 0
<1> DEFINE x == CurrentWindow(ws).global + Spent(act, Running(act), t)
           d == IF t - CurrentWindow(ws).start <= 0 THEN 1 ELSE t - CurrentWindow(ws).start
<1>1. CurrentWindow(ws).global \in Nat /\ CurrentWindow(ws).start \in Nat
  BY CurrentIs, Zenon DEF Window
<1>2. x \in Nat
  BY <1>1
<1>3. d \in Nat \ {0}
  BY <1>1
<1>4. CurrentGlobalAvg(ws, act, t) = (x * Scale) \div d
  BY Zenon DEF CurrentGlobalAvg
<1> HIDE DEF x, d
<1>5. x * Scale \in Nat /\ (x = 0 => x * Scale = 0)
  BY <1>2, HotZoneAssumption
<1>6. \A y \in Nat : y \div d \in Nat /\ (y = 0 => y \div d = 0)
  BY <1>3
<1>7. (x * Scale) \div d \in Nat /\ (x = 0 => (x * Scale) \div d = 0)
  BY <1>5, <1>6, Zenon
<1>8. x = 0 \/ x > 0
  BY <1>2
<1>9. ~(0 > 0)
  OBVIOUS
<1> QED BY <1>4, <1>7, <1>8, <1>9, Zenon DEF x

LEMMA PressureIsLoad ==
    ASSUME NEW avg \in Nat, NEW cpuHigh \in BOOLEAN
    PROVE  Pressure(avg, cpuHigh) \in BOOLEAN /\ (Pressure(avg, cpuHigh) => avg > 0)
<1>1. NumCPU * Scale \in Nat \ {0}
  BY HotZoneAssumption
<1>2. 3 * NumCPU * Scale = 3 * (NumCPU * Scale)
  BY HotZoneAssumption
<1>3. 4 * avg >= 3 * NumCPU * Scale => avg > 0
  BY <1>1, <1>2
<1> QED BY <1>3, Zenon DEF Pressure

-----------------------------------------------------------------------------
(* The time requests spend *)

\* The facts about finite sets and numbers that the account rests on.  Lemmas have
\* them as an assumption; CountingHolds, which rests on the library, discharges it.
Counting ==
    /\ \A S, T : IsFiniteSet(S) /\ T \subseteq S => IsFiniteSet(T)
    /\ \A S : IsFiniteSet(S) => Cardinality(S) \in Nat
    /\ Cardinality({}) = 0
    /\ \A a, b \in Int : IsFiniteSet(a .. b)
    /\ \A S, T : IsFiniteSet(S) /\ IsFiniteSet(T) =>
          IsFiniteSet(S \X T) /\ Cardinality(S \X T) = Cardinality(S) * Cardinality(T)
    /\ \A S, T : IsFiniteSet(S) /\ IsFiniteSet(T) /\ S \cap T = {} =>
          Cardinality(S \cup T) = Cardinality(S) + Cardinality(T)
    /\ \A x : IsFiniteSet({x}) /\ Cardinality({x}) = 1
    /\ \A S : 0 \in S /\ (\A n \in Nat : n \in S => n + 1 \in S) => Nat \subseteq S

LEMMA FiniteSubset ==
    ASSUME Counting, NEW S, NEW T, IsFiniteSet(S), T \subseteq S
    PROVE  IsFiniteSet(T)
BY Zenon DEF Counting

LEMMA CardinalityTyped ==
    ASSUME Counting, NEW S, IsFiniteSet(S)
    PROVE  Cardinality(S) \in Nat
BY Zenon DEF Counting

LEMMA CardinalityEmpty ==
    ASSUME Counting
    PROVE  Cardinality({}) = 0
BY Zenon DEF Counting

LEMMA CardinalityProduct ==
    ASSUME Counting, NEW S, NEW T, IsFiniteSet(S), IsFiniteSet(T)
    PROVE  IsFiniteSet(S \X T) /\ Cardinality(S \X T) = Cardinality(S) * Cardinality(T)
BY Zenon DEF Counting

LEMMA TwoParts ==
    ASSUME Counting, NEW S, NEW T, IsFiniteSet(S), IsFiniteSet(T), S \cap T = {}
    PROVE  Cardinality(S \cup T) = Cardinality(S) + Cardinality(T)
BY Zenon DEF Counting

LEMMA CardinalityOne ==
    ASSUME Counting, NEW x
    PROVE  IsFiniteSet({x}) /\ Cardinality({x}) = 1
BY Zenon DEF Counting

\* A set of natural numbers that has 0 and every next one has all.
LEMMA SetInduction ==
    ASSUME Counting, NEW S, 0 \in S, \A n \in Nat : n \in S => n + 1 \in S
    PROVE  Nat \subseteq S
BY Zenon DEF Counting

LEMMA Pair ==
    ASSUME NEW A, NEW B, NEW p \in A \X B
    PROVE  \E a \in A, b \in B : p = <<a, b>>
OBVIOUS

LEMMA RunningFacts ==
    ASSUME NEW act \in Actives, NEW r \in Running(act)
    PROVE  /\ r \in Requests /\ act[r] # None /\ act[r] \in ActiveRequest
           /\ act[r].accountedAt \in Nat
<1>1. r \in Requests /\ act[r] # None
  BY Zenon DEF Running
<1>2. act[r] \in ActiveRequest
  BY <1>1, Zenon DEF Actives
<1> QED BY <1>1, <1>2, Zenon DEF ActiveRequest

LEMMA Finite ==
    ASSUME Counting, NEW S \in SUBSET Requests, NEW a \in Int, NEW b \in Int, NEW P \in SUBSET (S \X (a .. b))
    PROVE  IsFiniteSet(P) /\ Cardinality(P) \in Nat
<1>1. IsFiniteSet(S)
  BY HotZoneAssumption, FiniteSubset, Zenon
<1>2. IsFiniteSet(a .. b)
  BY Zenon DEF Counting
<1>3. IsFiniteSet(S \X (a .. b))
  BY <1>1, <1>2, CardinalityProduct, Zenon
<1>4. IsFiniteSet(P)
  BY <1>3, FiniteSubset, Zenon
<1> QED BY <1>4, CardinalityTyped, Zenon

LEMMA UnaccountedFacts ==
    ASSUME Counting, NEW act \in Actives, NEW s \in Nat, NEW t \in Nat
    PROVE  IsFiniteSet(Unaccounted(act, s, t)) /\ Cardinality(Unaccounted(act, s, t)) \in Nat
<1>1. Running(act) \in SUBSET Requests /\ Unaccounted(act, s, t) \in SUBSET (Running(act) \X (s .. s + WindowDuration - 1))
  BY Zenon DEF Running, Unaccounted
<1>2. s \in Int /\ s + WindowDuration - 1 \in Int
  BY HotZoneAssumption
<1> QED BY <1>1, <1>2, Finite, Zenon

LEMMA SpentTyped ==
    ASSUME Counting, NEW act \in Actives, NEW rs \in SUBSET Running(act), NEW t \in Nat
    PROVE  Spent(act, rs, t) \in Nat
<1> DEFINE U == UNION {{r} \X (act[r].accountedAt .. t - 1) : r \in rs}
<1>1. ASSUME NEW p \in U PROVE p \in Requests \X (0 .. t - 1)
  <2>1. PICK r \in rs : p \in {r} \X (act[r].accountedAt .. t - 1)
    BY Zenon
  <2>2. r \in Running(act)
    BY Zenon
  <2>3. act[r].accountedAt \in Nat /\ r \in Requests
    BY <2>2, RunningFacts, Zenon
  <2>4. PICK k \in act[r].accountedAt .. t - 1 : p = <<r, k>>
    BY <2>1, Pair
  <2>5. k \in 0 .. t - 1
    BY <2>3, <2>4
  <2> QED BY <2>3, <2>4, <2>5, Zenon
<1>2. U \in SUBSET (Requests \X (0 .. t - 1))
  BY <1>1, Zenon
<1>3. 0 \in Int /\ t - 1 \in Int /\ Requests \in SUBSET Requests
  OBVIOUS
<1> HIDE DEF U
<1>4. Cardinality(U) \in Nat
  BY <1>2, <1>3, Finite, Zenon
<1> QED BY <1>4, Zenon DEF Spent, U

\* What all running requests spent until u is what is unaccounted in the
\* window, if u is the end of the window or the time now.
LEMMA SpentIsUnaccounted ==
    ASSUME NEW act \in Actives, NEW s \in Nat, NEW t \in Nat, NEW u \in Nat,
           u <= s + WindowDuration, u <= t, u = t \/ u = s + WindowDuration,
           \A r \in Running(act) : s <= act[r].accountedAt
    PROVE  Spent(act, Running(act), u) = Cardinality(Unaccounted(act, s, t))
<1> DEFINE U == UNION {{r} \X (act[r].accountedAt .. u - 1) : r \in Running(act)}
           A == Unaccounted(act, s, t)
<1>1. WindowDuration \in Nat
  BY HotZoneAssumption, Zenon
<1>2. ASSUME NEW r \in Running(act), NEW k \in Int
      PROVE  k \in act[r].accountedAt .. u - 1 <=>
             k \in s .. s + WindowDuration - 1 /\ act[r].accountedAt <= k /\ k < t
  <2>1. act[r].accountedAt \in Nat /\ s <= act[r].accountedAt
    BY RunningFacts, Zenon
  <2> QED BY <1>1, <2>1
<1>3. ASSUME NEW p \in U PROVE p \in A
  <2>1. PICK r \in Running(act) : p \in {r} \X (act[r].accountedAt .. u - 1)
    BY Zenon
  <2>2. PICK k \in act[r].accountedAt .. u - 1 : p = <<r, k>>
    BY <2>1, Pair
  <2>3. k \in Int
    BY <2>1, RunningFacts
  <2>4. k \in s .. s + WindowDuration - 1 /\ act[r].accountedAt <= k /\ k < t
    BY <1>2, <2>2, <2>3, Zenon
  <2>5. p[1] = r /\ p[2] = k
    BY <2>2, Zenon
  <2> QED BY <2>2, <2>4, <2>5, Zenon DEF Unaccounted
<1>4. ASSUME NEW p \in A PROVE p \in U
  <2>1. p \in Running(act) \X (s .. s + WindowDuration - 1) /\ act[p[1]].accountedAt <= p[2] /\ p[2] < t
    BY Zenon DEF Unaccounted
  <2>2. PICK r \in Running(act), k \in s .. s + WindowDuration - 1 : p = <<r, k>>
    BY <2>1, Pair
  <2>3. p[1] = r /\ p[2] = k /\ k \in Int
    BY <1>1, <2>2
  <2>4. k \in act[r].accountedAt .. u - 1
    BY <1>2, <2>1, <2>2, <2>3, Zenon
  <2>5. p \in {r} \X (act[r].accountedAt .. u - 1)
    BY <2>2, <2>4, Zenon
  <2>6. {r} \X (act[r].accountedAt .. u - 1) \in {{q} \X (act[q].accountedAt .. u - 1) : q \in Running(act)}
    BY <2>2, Zenon
  <2> QED BY <2>5, <2>6, Zenon
<1>5. U = A
  BY <1>3, <1>4, Zenon
<1> QED BY <1>5, Zenon DEF Spent

\* Nothing is unaccounted in a window that ended before all were accounted.
LEMMA NothingBefore ==
    ASSUME Counting, NEW act \in Actives, NEW s \in Nat, NEW t \in Nat,
           \A r \in Running(act) : s + WindowDuration <= act[r].accountedAt
    PROVE  Cardinality(Unaccounted(act, s, t)) = 0
<1>1. ASSUME NEW p \in Unaccounted(act, s, t) PROVE FALSE
  <2>1. p \in Running(act) \X (s .. s + WindowDuration - 1) /\ act[p[1]].accountedAt <= p[2]
    BY Zenon DEF Unaccounted
  <2>2. p[1] \in Running(act) /\ p[2] \in s .. s + WindowDuration - 1
    BY <2>1, Zenon
  <2>3. act[p[1]].accountedAt \in Nat /\ s + WindowDuration <= act[p[1]].accountedAt
    BY <2>2, RunningFacts, Zenon
  <2> QED BY <2>1, <2>2, <2>3, HotZoneAssumption
<1>2. Unaccounted(act, s, t) = {}
  BY <1>1, Zenon
<1> QED BY <1>2, CardinalityEmpty, Zenon

\* In a window that began after all were accounted, it does not matter when.
LEMMA SameUnaccounted ==
    ASSUME NEW a \in Actives, NEW b \in Actives, NEW s \in Nat, NEW t \in Nat, Running(a) = Running(b),
           \A r \in Running(a) : a[r].accountedAt <= s /\ b[r].accountedAt <= s
    PROVE  Unaccounted(a, s, t) = Unaccounted(b, s, t)
<1>1. ASSUME NEW p \in Running(a) \X (s .. s + WindowDuration - 1)
      PROVE  a[p[1]].accountedAt <= p[2] /\ b[p[1]].accountedAt <= p[2]
  <2>1. p[1] \in Running(a) /\ p[1] \in Running(b) /\ p[2] \in s .. s + WindowDuration - 1
    BY Zenon
  <2>2. /\ a[p[1]].accountedAt \in Nat /\ a[p[1]].accountedAt <= s
        /\ b[p[1]].accountedAt \in Nat /\ b[p[1]].accountedAt <= s
    BY <2>1, RunningFacts, Zenon
  <2> QED BY <2>1, <2>2, HotZoneAssumption
<1> QED BY <1>1, Zenon DEF Unaccounted

\* Nothing is unaccounted in a window that has not begun.
LEMMA NothingLater ==
    ASSUME Counting, NEW act \in Actives, NEW s \in Nat, NEW t \in Nat, t <= s
    PROVE  Cardinality(Unaccounted(act, s, t)) = 0
<1>1. ASSUME NEW p \in Unaccounted(act, s, t) PROVE FALSE
  <2>1. p \in Running(act) \X (s .. s + WindowDuration - 1) /\ p[2] < t
    BY Zenon DEF Unaccounted
  <2>2. p[2] \in s .. s + WindowDuration - 1
    BY <2>1, Zenon
  <2> QED BY <2>1, <2>2, HotZoneAssumption
<1>2. Unaccounted(act, s, t) = {}
  BY <1>1, Zenon
<1> QED BY <1>2, CardinalityEmpty, Zenon

LEMMA LeftFacts ==
    ASSUME NEW act \in Actives, NEW r \in Running(act)
    PROVE  /\ [act EXCEPT ![r] = None] \in Actives
           /\ Running([act EXCEPT ![r] = None]) = Running(act) \ {r}
           /\ \A q \in Running(act) \ {r} : [act EXCEPT ![r] = None][q] = act[q]
<1>1. r \in Requests /\ DOMAIN act = Requests
  BY Zenon DEF Running, Actives
<1> DEFINE left == [act EXCEPT ![r] = None]
<1>2. left[r] = None /\ \A q \in Requests : q # r => left[q] = act[q]
  BY <1>1
<1>3. left \in Actives
  BY <1>1 DEF Actives
<1> HIDE DEF left
<1>4. Running(left) = Running(act) \ {r}
  BY <1>2, Zenon DEF Running
<1>5. \A q \in Running(act) \ {r} : left[q] = act[q]
  BY <1>2, Zenon DEF Running
<1> QED BY <1>3, <1>4, <1>5, Zenon DEF left

\* A request that leaves takes the seconds it spent with it.
LEMMA ReleaseCount ==
    ASSUME Counting, NEW act \in Actives, NEW r \in Running(act), NEW s \in Nat, NEW t \in Nat,
           t <= s + WindowDuration, s <= act[r].accountedAt
    PROVE  Cardinality(Unaccounted(act, s, t)) =
           Spent(act, {r}, t) + Cardinality(Unaccounted([act EXCEPT ![r] = None], s, t))
<1> DEFINE left == [act EXCEPT ![r] = None]
           A == {r} \X (act[r].accountedAt .. t - 1)
           B == Unaccounted(left, s, t)
<1>1. /\ left \in Actives /\ Running(left) = Running(act) \ {r}
      /\ \A q \in Running(act) \ {r} : left[q] = act[q]
  BY LeftFacts, Zenon
<1> HIDE DEF left
<1>2. r \in Requests /\ act[r].accountedAt \in Nat
  BY RunningFacts, Zenon
<1>3. Spent(act, {r}, t) = Cardinality(A)
  <2>1. UNION {{q} \X (act[q].accountedAt .. t - 1) : q \in {r}} = A
    BY Zenon
  <2> QED BY <2>1, Zenon DEF Spent
<1>4. IsFiniteSet(A)
  <2>1. {r} \in SUBSET Requests /\ act[r].accountedAt \in Int /\ t - 1 \in Int
    BY <1>2
  <2>2. A \in SUBSET ({r} \X (act[r].accountedAt .. t - 1))
    BY Zenon
  <2> QED BY <2>1, <2>2, Finite, Zenon
<1>5. IsFiniteSet(B)
  BY <1>1, UnaccountedFacts, Zenon
<1>6. A \cap B = {}
  <2>1. ASSUME NEW p \in A, p \in B PROVE FALSE
    <3>1. p[1] = r
      BY Zenon
    <3>2. p[1] \in Running(left)
      BY <2>1, Zenon DEF Unaccounted
    <3> QED BY <1>1, <3>1, <3>2, Zenon
  <2> QED BY <2>1, Zenon
<1>7. ASSUME NEW p \in A \cup B PROVE p \in Unaccounted(act, s, t)
  <2>1. CASE p \in A
    <3>1. PICK k \in act[r].accountedAt .. t - 1 : p = <<r, k>>
      BY <2>1, Pair
    <3>2. k \in s .. s + WindowDuration - 1 /\ act[r].accountedAt <= k /\ k < t
      BY <1>2, <3>1, HotZoneAssumption
    <3>3. p[1] = r /\ p[2] = k
      BY <3>1, Zenon
    <3> QED BY <3>1, <3>2, <3>3, Zenon DEF Unaccounted
  <2>2. CASE p \in B
    <3>1. p \in Running(left) \X (s .. s + WindowDuration - 1) /\ left[p[1]].accountedAt <= p[2] /\ p[2] < t
      BY <2>2, Zenon DEF Unaccounted
    <3>2. PICK q \in Running(left), k \in s .. s + WindowDuration - 1 : p = <<q, k>>
      BY <3>1, Pair
    <3>3. p[1] = q /\ p[2] = k
      BY <3>2, Zenon
    <3>4. q \in Running(act) /\ left[q] = act[q]
      BY <1>1, <3>2, Zenon
    <3> QED BY <3>1, <3>2, <3>3, <3>4, Zenon DEF Unaccounted
  <2> QED BY <2>1, <2>2, Zenon
<1>8. ASSUME NEW p \in Unaccounted(act, s, t) PROVE p \in A \cup B
  <2>1. p \in Running(act) \X (s .. s + WindowDuration - 1) /\ act[p[1]].accountedAt <= p[2] /\ p[2] < t
    BY Zenon DEF Unaccounted
  <2>2. PICK q \in Running(act), k \in s .. s + WindowDuration - 1 : p = <<q, k>>
    BY <2>1, Pair
  <2>3. p[1] = q /\ p[2] = k
    BY <2>2, Zenon
  <2>4. CASE q = r
    <3>1. k \in act[r].accountedAt .. t - 1
      BY <1>2, <2>1, <2>2, <2>3, <2>4, HotZoneAssumption
    <3> QED BY <2>2, <2>4, <3>1, Zenon
  <2>5. CASE q # r
    <3>1. q \in Running(left) /\ left[q] = act[q]
      BY <1>1, <2>2, <2>5, Zenon
    <3>2. p \in B
      BY <2>1, <2>2, <2>3, <3>1, Zenon DEF Unaccounted
    <3> QED BY <3>2, Zenon
  <2> QED BY <2>4, <2>5, Zenon
<1> HIDE DEF A, B
<1>9. Unaccounted(act, s, t) = A \cup B
  BY <1>7, <1>8, Zenon
<1>10. Cardinality(A \cup B) = Cardinality(A) + Cardinality(B)
  BY <1>4, <1>5, <1>6, TwoParts, Zenon
<1> QED BY <1>3, <1>9, <1>10, Zenon DEF B, left

\* A second that passes is spent by all running requests, in its window.
LEMMA TickCount ==
    ASSUME Counting, NEW act \in Actives, NEW s \in Nat, NEW t \in Nat, s % WindowDuration = 0,
           \A r \in Running(act) : act[r].accountedAt <= t
    PROVE  /\ Truncate(t) = s => Cardinality(Unaccounted(act, s, t + 1)) =
                                 Cardinality(Unaccounted(act, s, t)) + Cardinality(Running(act))
           /\ Truncate(t) # s => Unaccounted(act, s, t + 1) = Unaccounted(act, s, t)
<1>0. WindowDuration \in Nat \ {0}
  BY HotZoneAssumption, Zenon
<1>1. Truncate(t) = s => s <= t /\ t < s + WindowDuration
  BY Truncated, Zenon
<1>2. s <= t /\ t < s + WindowDuration => Truncate(t) = s
  BY SameWindow, Zenon
<1>3. CASE Truncate(t) = s
  <2> DEFINE A == Unaccounted(act, s, t)
             B == Running(act) \X {t}
  <2>1. IsFiniteSet(A)
    BY UnaccountedFacts, Zenon
  <2>2. IsFiniteSet(Running(act)) /\ IsFiniteSet({t}) /\ Cardinality({t}) = 1
    <3>1. Running(act) \subseteq Requests
      BY Zenon DEF Running
    <3> QED BY <3>1, HotZoneAssumption, FiniteSubset, CardinalityOne, Zenon
  <2>3. IsFiniteSet(B) /\ Cardinality(B) = Cardinality(Running(act)) * 1
    BY <2>2, CardinalityProduct
  <2>4. Cardinality(B) = Cardinality(Running(act))
    <3>1. Cardinality(Running(act)) \in Nat
      BY <2>2, CardinalityTyped, Zenon
    <3> HIDE DEF B
    <3> QED BY <2>3, <3>1
  <2>5. A \cap B = {}
    <3>1. ASSUME NEW p \in B, p \in A PROVE FALSE
      <4>1. p[2] = t /\ p[2] < t
        BY <3>1, Zenon DEF Unaccounted
      <4> QED BY <4>1
    <3> QED BY <3>1, Zenon
  <2>6. ASSUME NEW p \in Unaccounted(act, s, t + 1) PROVE p \in A \cup B
    <3>1. p \in Running(act) \X (s .. s + WindowDuration - 1) /\ act[p[1]].accountedAt <= p[2] /\ p[2] < t + 1
      BY Zenon DEF Unaccounted
    <3>2. PICK q \in Running(act), k \in s .. s + WindowDuration - 1 : p = <<q, k>>
      BY <3>1, Pair
    <3>3. p[1] = q /\ p[2] = k
      BY <3>2, Zenon
    <3>4. k = t \/ k < t
      BY <1>0, <3>1, <3>2, <3>3
    <3>5. k = t => p \in B
      BY <3>2, Zenon
    <3>6. k < t => p \in A
      BY <3>1, <3>3, Zenon DEF Unaccounted
    <3> QED BY <3>4, <3>5, <3>6, Zenon
  <2>7. ASSUME NEW p \in A \cup B PROVE p \in Unaccounted(act, s, t + 1)
    <3>1. CASE p \in A
      <4>1. p \in Running(act) \X (s .. s + WindowDuration - 1) /\ act[p[1]].accountedAt <= p[2] /\ p[2] < t
        BY <3>1, Zenon DEF Unaccounted
      <4>2. p[2] \in s .. s + WindowDuration - 1
        BY <4>1, Zenon
      <4>3. p[2] < t + 1
        BY <1>0, <4>1, <4>2
      <4> QED BY <4>1, <4>3, Zenon DEF Unaccounted
    <3>2. CASE p \in B
      <4>1. PICK q \in Running(act) : p = <<q, t>>
        BY <3>2, Pair
      <4>2. p[1] = q /\ p[2] = t
        BY <4>1, Zenon
      <4>3. t \in s .. s + WindowDuration - 1 /\ t < t + 1
        BY <1>0, <1>1, <1>3
      <4>4. act[q].accountedAt <= t
        BY Zenon
      <4>5. p \in Running(act) \X (s .. s + WindowDuration - 1)
        BY <4>1, <4>3, Zenon
      <4> QED BY <4>2, <4>3, <4>4, <4>5, Zenon DEF Unaccounted
    <3> QED BY <3>1, <3>2, Zenon
  <2> HIDE DEF A, B
  <2>8. Unaccounted(act, s, t + 1) = A \cup B
    BY <2>6, <2>7, Zenon
  <2>9. Cardinality(A \cup B) = Cardinality(A) + Cardinality(B)
    BY <2>1, <2>3, <2>5, TwoParts, Zenon
  <2> QED BY <1>3, <2>4, <2>8, <2>9, Zenon DEF A
<1>4. CASE Truncate(t) # s
  <2>1. ~(s <= t /\ t < s + WindowDuration)
    BY <1>2, <1>4, Zenon
  <2>2. ASSUME NEW p \in Running(act) \X (s .. s + WindowDuration - 1)
        PROVE  p[2] < t + 1 <=> p[2] < t
    <3>1. p[2] \in s .. s + WindowDuration - 1
      BY Zenon
    <3> QED BY <1>0, <2>1, <3>1
  <2>3. Unaccounted(act, s, t + 1) = Unaccounted(act, s, t)
    BY <2>2, Zenon DEF Unaccounted
  <2> QED BY <1>4, <2>3, Zenon
<1> QED BY <1>3, <1>4, Zenon

-----------------------------------------------------------------------------
(* The ledger *)

LEMMA LedgerFacts ==
    ASSUME NEW ws, NEW act, NEW bz, NEW t \in Nat, Ledger(ws, act, bz, t)
    PROVE  /\ Len(ws) \in Nat \ {0} /\ CurrentWindow(ws) = ws[Len(ws)] /\ CurrentWindow(ws) \in Window
           /\ CurrentWindow(ws).start \in Starts /\ CurrentWindow(ws).start \in Nat
           /\ CurrentWindow(ws).start % WindowDuration = 0 /\ CurrentWindow(ws).global \in Nat
           /\ \A i \in 1 .. Len(ws) :
                ws[i] \in Window /\ ws[i].start \in Nat /\ ws[i].start \in Starts /\ ws[i].global \in Nat
           /\ \A i \in 1 .. Len(ws) - 1 : ws[i].start + WindowDuration <= CurrentWindow(ws).start
<1>1. ws \in Seq(Window) /\ ws # <<>> /\ Ordered(ws)
  BY Zenon DEF Ledger
<1>2. Len(ws) \in Nat \ {0} /\ CurrentWindow(ws) = ws[Len(ws)] /\ CurrentWindow(ws) \in Window
  BY <1>1, CurrentIs, Zenon
<1>3. ASSUME NEW i \in 1 .. Len(ws)
      PROVE  ws[i] \in Window /\ ws[i].start \in Nat /\ ws[i].start \in Starts /\ ws[i].global \in Nat
  <2>1. ws[i] \in Window
    BY <1>1
  <2> QED BY <1>1, <2>1, Zenon DEF Window, Ordered
<1>4. Len(ws) \in 1 .. Len(ws) /\ \A i \in 1 .. Len(ws) - 1 : i \in 1 .. Len(ws) /\ i < Len(ws)
  BY <1>2
<1>5. \A i \in 1 .. Len(ws) - 1 : ws[i].start + WindowDuration <= CurrentWindow(ws).start
  BY <1>1, <1>2, <1>4, Zenon DEF Ordered
<1>6. CurrentWindow(ws).start % WindowDuration = 0
  BY <1>2, <1>3, <1>4, Zenon DEF Starts
<1> QED BY <1>2, <1>3, <1>4, <1>5, <1>6, Zenon

\* Requests accounted in the current window have nothing left in earlier ones.
LEMMA EarlierDone ==
    ASSUME Counting, NEW act \in Actives, NEW s \in Nat, NEW u \in Nat, NEW t \in Nat,
           s + WindowDuration <= u, \A r \in Running(act) : u <= act[r].accountedAt
    PROVE  Cardinality(Unaccounted(act, s, t)) = 0
<1>1. ASSUME NEW r \in Running(act) PROVE s + WindowDuration <= act[r].accountedAt
  <2>1. act[r].accountedAt \in Nat /\ u <= act[r].accountedAt
    BY RunningFacts, Zenon
  <2> QED BY <2>1, HotZoneAssumption
<1> QED BY <1>1, NothingBefore, Zenon

\* The ledger of windows that differ in what the current one has.
LEMMA SameLedger ==
    ASSUME Counting, NEW ws, NEW act, NEW bz \in [Starts -> Nat], NEW t \in Nat, Ledger(ws, act, bz, t),
           NEW new \in Seq(Window), new # <<>>, Len(new) = Len(ws),
           CurrentWindow(new).start = CurrentWindow(ws).start,
           \A i \in 1 .. Len(ws) - 1 : new[i].start = ws[i].start /\ new[i].global = ws[i].global,
           NEW then \in Actives, Current(new, then, t),
           CurrentWindow(new).global + Cardinality(Unaccounted(then, CurrentWindow(ws).start, t)) =
               CurrentWindow(ws).global + Cardinality(Unaccounted(act, CurrentWindow(ws).start, t)),
           \A s \in Starts : s > CurrentWindow(ws).start =>
               Cardinality(Unaccounted(then, s, t)) = Cardinality(Unaccounted(act, s, t))
    PROVE  Ledger(new, then, bz, t)
<1> DEFINE u == CurrentWindow(ws).start
           n == Len(ws)
<1>0. n \in Nat \ {0} /\ u \in Nat /\ u \in Starts /\ CurrentWindow(ws) = ws[n] /\ CurrentWindow(new) = new[n]
  BY LedgerFacts, CurrentIs, Zenon
<1>1. \A i \in 1 .. n : i = n \/ i \in 1 .. n - 1
  BY <1>0
<1>2. \A i \in 1 .. n : new[i].start = ws[i].start
  BY <1>0, <1>1, Zenon
<1>3. Ordered(new)
  BY <1>2, Zenon DEF Ledger, Ordered
<1>4. ASSUME NEW i \in 1 .. n - 1
      PROVE  bz[new[i].start] = new[i].global + Cardinality(Unaccounted(then, new[i].start, t))
  <2>1. /\ ws[i].start \in Nat /\ ws[i].start + WindowDuration <= u
        /\ i \in 1 .. n
    <3>1. i \in 1 .. n
      BY <1>0
    <3> QED BY <3>1, LedgerFacts, Zenon
  <2>2. act \in Actives /\ \A r \in Running(act) : u <= act[r].accountedAt
    BY Zenon DEF Ledger, Current
  <2>3. \A r \in Running(then) : u <= then[r].accountedAt
    BY Zenon DEF Current
  <2>4. /\ Cardinality(Unaccounted(act, ws[i].start, t)) = 0
        /\ Cardinality(Unaccounted(then, ws[i].start, t)) = 0
    <3> HIDE DEF u
    <3>1. Cardinality(Unaccounted(act, ws[i].start, t)) = 0
      BY <1>0, <2>1, <2>2, EarlierDone, Zenon
    <3>2. Cardinality(Unaccounted(then, ws[i].start, t)) = 0
      BY <1>0, <2>1, <2>3, EarlierDone, Zenon
    <3> QED BY <3>1, <3>2, Zenon
  <2>5. bz[ws[i].start] = ws[i].global + Cardinality(Unaccounted(act, ws[i].start, t))
    BY <2>1, Zenon DEF Ledger, Booked
  <2>6. new[i].start = ws[i].start /\ new[i].global = ws[i].global
    BY Zenon
  <2> QED BY <2>4, <2>5, <2>6, Zenon
<1>5. bz[new[n].start] = new[n].global + Cardinality(Unaccounted(then, new[n].start, t))
  <2>1. n \in 1 .. n
    BY <1>0
  <2>2. bz[ws[n].start] = ws[n].global + Cardinality(Unaccounted(act, ws[n].start, t))
    BY <2>1, Zenon DEF Ledger, Booked
  <2> QED BY <1>0, <2>2, Zenon
<1>6. \A s \in Starts : s > u => bz[s] = Cardinality(Unaccounted(then, s, t))
  BY Zenon DEF Ledger, Booked
<1>7. Booked(new, then, bz, t)
  BY <1>1, <1>4, <1>5, <1>6, Zenon DEF Booked
<1> QED BY <1>3, <1>7, Zenon DEF Ledger

\* History that no window covers is forgotten.
LEMMA Forgotten ==
    ASSUME NEW ws, NEW act, NEW bz \in [Starts -> Nat], NEW t \in Nat, Ledger(ws, act, bz, t)
    PROVE  /\ Ledger(ws, act, [s \in Starts |-> IF s < ws[1].start THEN 0 ELSE bz[s]], t)
           /\ [s \in Starts |-> IF s < ws[1].start THEN 0 ELSE bz[s]] \in [Starts -> Nat]
           /\ \A s \in Starts : s >= CurrentWindow(ws).start =>
                [q \in Starts |-> IF q < ws[1].start THEN 0 ELSE bz[q]][s] = bz[s]
<1> DEFINE kept == [s \in Starts |-> IF s < ws[1].start THEN 0 ELSE bz[s]]
           n == Len(ws)
           u == CurrentWindow(ws).start
<1>0. /\ n \in Nat \ {0} /\ u \in Nat /\ u = ws[n].start
      /\ \A i \in 1 .. n : ws[i].start \in Nat /\ ws[i].start \in Starts
  BY LedgerFacts, Zenon
<1>1. 1 \in 1 .. n /\ n \in 1 .. n /\ \A i \in 1 .. n : i = 1 \/ 1 < i
  BY <1>0
<1>2. ASSUME NEW i \in 1 .. n PROVE ws[1].start <= ws[i].start
  <2>1. i = 1 \/ ws[1].start + WindowDuration <= ws[i].start
    BY <1>1, Zenon DEF Ledger, Ordered
  <2>2. ws[1].start \in Nat /\ ws[i].start \in Nat
    BY <1>0, <1>1, Zenon
  <2> QED BY <2>1, <2>2, HotZoneAssumption
<1>3. ASSUME NEW s \in Starts, ws[1].start <= s PROVE kept[s] = bz[s]
  <2>1. s \in Nat /\ ws[1].start \in Nat
    BY <1>0, <1>1, HotZoneAssumption DEF Starts
  <2>2. ~(s < ws[1].start)
    BY <1>3, <2>1
  <2> QED BY <2>2, Zenon
<1>4. kept \in [Starts -> Nat]
  BY Zenon
<1>5. ASSUME NEW s \in Starts, s >= u PROVE ws[1].start <= s
  <2>1. s \in Nat /\ ws[1].start \in Nat /\ ws[1].start <= u
    BY <1>0, <1>1, <1>2, HotZoneAssumption DEF Starts
  <2> HIDE DEF u
  <2> QED BY <1>0, <1>5, <2>1
<1> HIDE DEF kept
<1>6. \A s \in Starts : s >= u => kept[s] = bz[s]
  BY <1>3, <1>5, Zenon
<1>7. \A s \in Starts : s > u => s >= u
  <2>1. \A s \in Starts : s \in Nat
    BY HotZoneAssumption DEF Starts
  <2> HIDE DEF u
  <2> QED BY <1>0, <2>1
<1>8. Booked(ws, act, kept, t)
  <2>1. \A i \in 1 .. n : kept[ws[i].start] = bz[ws[i].start]
    BY <1>0, <1>2, <1>3, Zenon
  <2>2. \A s \in Starts : s > u => kept[s] = bz[s]
    BY <1>6, <1>7, Zenon
  <2> QED BY <2>1, <2>2, Zenon DEF Ledger, Booked
<1>9. Ledger(ws, act, kept, t)
  BY <1>8, Zenon DEF Ledger
<1> QED BY <1>4, <1>6, <1>9, Zenon DEF kept

-----------------------------------------------------------------------------
(* Rotation *)

LEMMA ZonesAdded ==
    ASSUME Counting, NEW w \in Window, NEW act \in Actives, NEW rs \in SUBSET Running(act), NEW t \in Nat
    PROVE  /\ AddZones(w, act, rs, t) \in Window
           /\ AddZones(w, act, rs, t).start = w.start /\ AddZones(w, act, rs, t).global = w.global
<1> DEFINE coarse == [k \in Keys |-> w.coarse[k] + Spent(act, { r \in rs : act[r].coarseKey = k }, t)]
           child == [z \in Children |-> w.child[z] +
                       Spent(act, { r \in rs : DirectChild(act[r].qname, act[r].coarseKey) = z }, t)]
<1>1. w.coarse \in [Keys -> Nat] /\ w.child \in [Children -> Nat] /\ w.start \in Nat /\ w.global \in Nat
  BY Zenon DEF Window
<1>2. coarse \in [Keys -> Nat]
  <2>1. ASSUME NEW k \in Keys PROVE w.coarse[k] + Spent(act, { r \in rs : act[r].coarseKey = k }, t) \in Nat
    <3>1. { r \in rs : act[r].coarseKey = k } \in SUBSET Running(act)
      BY Zenon
    <3>2. Spent(act, { r \in rs : act[r].coarseKey = k }, t) \in Nat
      BY <3>1, SpentTyped, Zenon
    <3>3. w.coarse[k] \in Nat
      BY <1>1, Zenon
    <3> QED BY <3>2, <3>3
  <2> QED BY <2>1, Zenon
<1>3. child \in [Children -> Nat]
  <2>1. ASSUME NEW z \in Children
        PROVE  w.child[z] + Spent(act, { r \in rs : DirectChild(act[r].qname, act[r].coarseKey) = z }, t) \in Nat
    <3>1. { r \in rs : DirectChild(act[r].qname, act[r].coarseKey) = z } \in SUBSET Running(act)
      BY Zenon
    <3>2. Spent(act, { r \in rs : DirectChild(act[r].qname, act[r].coarseKey) = z }, t) \in Nat
      BY <3>1, SpentTyped, Zenon
    <3>3. w.child[z] \in Nat
      BY <1>1, Zenon
    <3> QED BY <3>2, <3>3
  <2> QED BY <2>1, Zenon
<1>4. AddZones(w, act, rs, t) = [w EXCEPT !.coarse = coarse, !.child = child]
  BY Zenon DEF AddZones
<1> HIDE DEF coarse, child
<1>5. AddZones(w, act, rs, t) =
      [start |-> w.start, global |-> w.global, coarse |-> coarse, child |-> child]
  <2>1. w = [start |-> w.start, global |-> w.global, coarse |-> w.coarse, child |-> w.child]
    BY DEF Window
  <2> QED BY <1>4, <2>1, Zenon
<1> QED BY <1>1, <1>2, <1>3, <1>5 DEF Window

LEMMA SamplesAdded ==
    ASSUME Counting, NEW w \in Window, NEW act \in Actives, NEW rs \in SUBSET Running(act), NEW t \in Nat
    PROVE  /\ AddSamples(w, act, rs, t) \in Window
           /\ AddSamples(w, act, rs, t).start = w.start
           /\ AddSamples(w, act, rs, t).global = w.global + Spent(act, rs, t)
<1> DEFINE z == AddZones(w, act, rs, t)
           k == Spent(act, rs, t)
<1>1. z \in Window /\ z.start = w.start /\ z.global = w.global
  BY ZonesAdded, Zenon
<1>2. k \in Nat
  BY SpentTyped, Zenon
<1>3. AddSamples(w, act, rs, t) = [z EXCEPT !.global = @ + k]
  BY Zenon DEF AddSamples
<1> HIDE DEF z, k
<1>4. [z EXCEPT !.global = @ + k] \in Window /\ [z EXCEPT !.global = @ + k].start = w.start
      /\ [z EXCEPT !.global = @ + k].global = w.global + k
  BY <1>1, <1>2 DEF Window
<1> QED BY <1>3, <1>4, Zenon DEF k

LEMMA AccountedFacts ==
    ASSUME NEW act \in Actives, NEW t \in Nat
    PROVE  /\ Accounted(act, Running(act), t) \in Actives
           /\ Running(Accounted(act, Running(act), t)) = Running(act)
           /\ \A r \in Running(act) : Accounted(act, Running(act), t)[r].accountedAt = t
<1> DEFINE new == Accounted(act, Running(act), t)
<1>1. ASSUME NEW r \in Running(act)
      PROVE  new[r] \in ActiveRequest /\ new[r].accountedAt = t
  <2>1. r \in Requests /\ act[r] \in ActiveRequest
    BY RunningFacts, Zenon
  <2>2. new[r] = [act[r] EXCEPT !.accountedAt = t]
    BY <2>1, Zenon DEF Accounted
  <2>3. [act[r] EXCEPT !.accountedAt = t] \in ActiveRequest /\ [act[r] EXCEPT !.accountedAt = t].accountedAt = t
    BY <2>1 DEF ActiveRequest
  <2> QED BY <2>2, <2>3, Zenon
<1>2. ASSUME NEW r \in Requests, r \notin Running(act) PROVE new[r] = None
  <2>1. act[r] = None
    BY <1>2, Zenon DEF Running
  <2> QED BY <1>2, <2>1, Zenon DEF Accounted
<1>3. new = [r \in Requests |-> new[r]]
  BY Zenon DEF Accounted
<1> HIDE DEF new
<1>4. \A r \in Requests : new[r] \in ActiveRequest \cup {None}
  BY <1>1, <1>2, Zenon
<1>5. new \in Actives
  BY <1>3, <1>4, Zenon DEF Actives
<1>6. Running(new) = Running(act)
  <2>1. ASSUME NEW r \in Requests PROVE r \in Running(act) <=> new[r] # None
    BY <1>1, <1>2, HotZoneAssumption, Zenon
  <2>2. Running(act) \subseteq Requests
    BY Zenon DEF Running
  <2>3. Running(new) = { r \in Requests : new[r] # None }
    BY Zenon DEF Running
  <2> QED BY <2>1, <2>2, <2>3, Zenon
<1> QED BY <1>1, <1>5, <1>6, Zenon DEF new

\* A window that ended is closed without a second lost or counted twice.
LEMMA CloseLedger ==
    ASSUME Counting, NEW p, NEW bz \in [Starts -> Nat], NEW t \in 0 .. MaxTime,
           Ledger(p.ws, p.act, bz, t), CurrentWindow(p.ws).start + WindowDuration <= t
    PROVE  /\ Ledger(CloseWindow(p).ws, CloseWindow(p).act, bz, t)
           /\ CurrentWindow(CloseWindow(p).ws).start = CurrentWindow(p.ws).start + WindowDuration
           /\ Running(CloseWindow(p).act) = Running(p.act)
<1> DEFINE ws == p.ws
           act == p.act
           n == Len(ws)
           u == CurrentWindow(ws).start
           b == u + WindowDuration
           closed == AddSamples(CurrentWindow(ws), act, Running(act), b)
           mid == ReplaceCurrent(ws, closed)
           new == AdvanceWindow(mid, b)
           then == Accounted(act, Running(act), b)
<1>0. t \in Nat /\ t <= MaxTime /\ WindowDuration \in Nat \ {0} /\ MaxTime \in Nat
  BY HotZoneAssumption
<1>1. CloseWindow(p).ws = new /\ CloseWindow(p).act = then
  BY Zenon DEF CloseWindow
<1>2. /\ n \in Nat \ {0} /\ CurrentWindow(ws) = ws[n] /\ CurrentWindow(ws) \in Window /\ u \in Starts /\ u \in Nat
      /\ u % WindowDuration = 0 /\ CurrentWindow(ws).global \in Nat
      /\ \A i \in 1 .. n : ws[i] \in Window /\ ws[i].start \in Nat /\ ws[i].start \in Starts
      /\ \A i \in 1 .. n - 1 : ws[i].start + WindowDuration <= u
  BY <1>0, LedgerFacts, Zenon
<1>3. /\ ws \in Seq(Window) /\ ws # <<>> /\ act \in Actives /\ Ordered(ws) /\ Current(ws, act, t)
      /\ Booked(ws, act, bz, t)
  BY Zenon DEF Ledger
<1> HIDE DEF ws, act, n
<1>4. b \in Nat /\ b \in Starts /\ b <= t /\ u < b
  <2>1. b \in Nat /\ b <= t /\ b \in 0 .. MaxTime /\ u < b
    <3> HIDE DEF u
    <3> QED BY <1>0, <1>2 DEF u, ws
  <2>2. b % WindowDuration = 0
    BY <1>0, <1>2, OneMore, Zenon
  <2> QED BY <2>1, <2>2, Zenon DEF Starts
<1> HIDE DEF u, b
<1>5. /\ closed \in Window /\ closed.start = u
      /\ closed.global = CurrentWindow(ws).global + Spent(act, Running(act), b)
  <2>1. Running(act) \in SUBSET Running(act)
    BY Zenon
  <2>2. CurrentWindow(ws) \in Window /\ act \in Actives /\ b \in Nat
    BY <1>2, <1>3, <1>4, Zenon
  <2>3. /\ closed \in Window /\ closed.start = CurrentWindow(ws).start
        /\ closed.global = CurrentWindow(ws).global + Spent(act, Running(act), b)
    BY <2>1, <2>2, SamplesAdded, Zenon
  <2> QED BY <2>3, Zenon DEF u
<1> HIDE DEF closed
<1>6. /\ mid \in Seq(Window) /\ mid # <<>> /\ Len(mid) = n /\ mid[n] = closed
      /\ \A i \in 1 .. n - 1 : mid[i] = ws[i]
  BY <1>3, <1>5, Replaced, Zenon DEF n
<1> HIDE DEF mid
<1>7. new \in Seq(Window) /\ new # <<>> /\ CurrentWindow(new) = NewWindow(b)
  BY <1>4, <1>6, Advanced, Zenon
<1>8. PICK k \in 0 .. n : Len(new) = n - k + 1 /\ \A i \in 1 .. n - k : new[i] = mid[i + k]
  BY <1>4, <1>6, Advanced, Zenon
<1> HIDE DEF new
<1>9. CurrentWindow(new).start = b /\ CurrentWindow(new).global = 0
  BY <1>4, <1>7, NewWindowTyped, Zenon
<1>10. /\ then \in Actives /\ Running(then) = Running(act)
       /\ \A r \in Running(act) : then[r].accountedAt = b
  BY <1>3, <1>4, AccountedFacts, Zenon
<1> HIDE DEF then
<1>11. \A i \in 1 .. n - k : i + k \in 1 .. n /\ (i + k = n \/ i + k \in 1 .. n - 1)
  BY <1>2, <1>8
<1>12. \A i \in 1 .. Len(new) : i \in 1 .. n - k \/ i = Len(new)
  BY <1>2, <1>8
<1>13. ASSUME NEW i \in 1 .. n - k PROVE new[i].start = ws[i + k].start
  BY <1>2, <1>5, <1>6, <1>8, <1>11, Zenon DEF u
<1>14. new[Len(new)].start = b /\ new[Len(new)].global = 0
  BY <1>9, Zenon DEF CurrentWindow
<1>15. ASSUME NEW i \in 1 .. n PROVE ws[i].start + WindowDuration <= b
  <2>1. i = n \/ i \in 1 .. n - 1
    BY <1>2
  <2>2. ws[i].start <= u /\ ws[i].start \in Nat
    BY <1>0, <1>2, <2>1 DEF u
  <2> QED BY <1>0, <1>2, <2>2 DEF b
<1>16. Ordered(new)
  <2>1. ASSUME NEW i \in 1 .. Len(new) PROVE new[i].start \in Starts
    BY <1>2, <1>4, <1>11, <1>12, <1>13, <1>14, Zenon
  <2>2. ASSUME NEW i \in 1 .. Len(new), NEW j \in 1 .. Len(new), i < j
        PROVE  new[i].start + WindowDuration <= new[j].start
    <3>1. i \in 1 .. n - k
      BY <1>2, <1>8, <2>2
    <3>2. CASE j = Len(new)
      BY <1>11, <1>13, <1>14, <1>15, <3>1, <3>2, Zenon
    <3>3. CASE j \in 1 .. n - k
      <4>1. i + k < j + k
        BY <1>2, <1>8, <2>2, <3>1, <3>3
      <4> QED BY <1>3, <1>11, <1>13, <3>1, <3>3, <4>1, Zenon DEF Ordered, n
    <3> QED BY <1>12, <3>2, <3>3, Zenon
  <2> QED BY <2>1, <2>2, Zenon DEF Ordered
<1>17. Current(new, then, t)
  <2>1. b < b + WindowDuration /\ b <= b
    BY <1>0, <1>4
  <2> QED BY <1>4, <1>9, <1>10, <2>1, Zenon DEF Current
<1>18. ASSUME NEW i \in 1 .. n - k
       PROVE  bz[new[i].start] = new[i].global + Cardinality(Unaccounted(then, new[i].start, t))
  <2> DEFINE j == i + k
             s == ws[j].start
  <2>1. j \in 1 .. n /\ (j = n \/ j \in 1 .. n - 1)
    BY <1>11, Zenon
  <2>2. new[i].start = s /\ s \in Nat /\ s + WindowDuration <= b
    BY <1>2, <1>13, <1>15, <2>1, Zenon
  <2>3. bz[s] = ws[j].global + Cardinality(Unaccounted(act, s, t))
    BY <1>3, <2>1, Zenon DEF Booked, n
  <2> HIDE DEF j
  <2>4. \A r \in Running(then) : b <= then[r].accountedAt
    BY <1>4, <1>10
  <2>5. Cardinality(Unaccounted(then, s, t)) = 0
    BY <1>0, <1>4, <1>10, <2>2, <2>4, EarlierDone, Zenon
  <2>6. \A r \in Running(act) : u <= act[r].accountedAt
    BY <1>3, Zenon DEF Current, u
  <2>7. CASE j = n
    <3>1. s = u
      BY <1>2, <2>7, Zenon DEF u
    <3>2. Spent(act, Running(act), b) = Cardinality(Unaccounted(act, u, t))
      <4>1. b <= u + WindowDuration
        BY <1>4 DEF b
      <4>2. b = u + WindowDuration
        BY Zenon DEF b
      <4> QED BY <1>0, <1>2, <1>3, <1>4, <2>6, <4>1, <4>2, SpentIsUnaccounted, Zenon
    <3>3. new[i].global = ws[n].global + Cardinality(Unaccounted(act, u, t))
      BY <1>2, <1>5, <1>6, <1>8, <2>7, <3>2, Zenon DEF j
    <3>4. new[i].global = bz[s]
      BY <2>3, <2>7, <3>1, <3>3, Zenon
    <3>5. bz[s] \in Nat
      BY <1>2, <2>1, Zenon
    <3> QED BY <2>2, <2>5, <3>4, <3>5
  <2>8. CASE j \in 1 .. n - 1
    <3>1. s + WindowDuration <= u
      BY <1>2, <2>8, Zenon
    <3>2. Cardinality(Unaccounted(act, s, t)) = 0
      BY <1>0, <1>2, <1>3, <2>2, <2>6, <3>1, EarlierDone, Zenon
    <3>3. new[i].global = ws[j].global
      BY <1>6, <1>8, <2>8, Zenon DEF j
    <3> QED BY <2>2, <2>3, <2>5, <3>2, <3>3, Zenon
  <2> QED BY <2>1, <2>7, <2>8, Zenon
<1>19. ASSUME NEW s \in Starts, s \in Nat, b <= s
       PROVE  bz[s] = Cardinality(Unaccounted(then, s, t))
  <2>1. s > u
    BY <1>2, <1>4, <1>19
  <2>2. bz[s] = Cardinality(Unaccounted(act, s, t))
    BY <1>3, <2>1, Zenon DEF Booked, u
  <2>3. ASSUME NEW r \in Running(act) PROVE act[r].accountedAt <= s /\ then[r].accountedAt <= s
    <3>1. act[r].accountedAt \in Nat
      BY <1>3, RunningFacts, Zenon
    <3>2. act[r].accountedAt < b
      BY <1>3, Zenon DEF Current, u, b
    <3>3. then[r].accountedAt = b
      BY <1>10, Zenon
    <3> QED BY <1>4, <1>19, <3>1, <3>2, <3>3
  <2>4. Unaccounted(act, s, t) = Unaccounted(then, s, t)
    BY <1>0, <1>3, <1>10, <1>19, <2>3, SameUnaccounted, ZenonT(60)
  <2> QED BY <2>2, <2>4, Zenon
<1>20. Booked(new, then, bz, t)
  <2>1. bz[b] = Cardinality(Unaccounted(then, b, t))
    <3>1. b <= b
      BY <1>4
    <3> QED BY <1>4, <1>19, <3>1, Zenon
  <2>2. bz[new[Len(new)].start] = new[Len(new)].global + Cardinality(Unaccounted(then, new[Len(new)].start, t))
    <3>1. bz[b] \in Nat
      BY <1>4, Zenon
    <3>2. bz[b] = 0 + bz[b]
      BY <3>1
    <3> QED BY <1>14, <2>1, <3>2, Zenon
  <2>3. ASSUME NEW s \in Starts, s > b PROVE bz[s] = Cardinality(Unaccounted(then, s, t))
    <3>1. s \in Nat
      BY <1>0 DEF Starts
    <3>2. b <= s
      BY <1>4, <2>3, <3>1
    <3> QED BY <1>19, <3>1, <3>2, Zenon
  <2> QED BY <1>9, <1>12, <1>18, <2>2, <2>3, Zenon DEF Booked
<1>21. Ledger(new, then, bz, t)
  BY <1>7, <1>10, <1>16, <1>17, <1>20, Zenon DEF Ledger
<1> QED BY <1>1, <1>9, <1>10, <1>21, Zenon DEF b, u, ws, act

(* p: rotation by rotation, what became of the windows and the requests. *)
Chain(p, first, act, passed) ==
    \A n \in 0 .. passed :
        /\ n = 0 => p[n] = [ws |-> first, act |-> act]
        /\ n # 0 => p[n] = CloseWindow(p[n - 1])

(* p is what became of them after n windows. *)
Closed(p, first, act, bz, t, n) ==
    /\ Ledger(p.ws, p.act, bz, t)
    /\ CurrentWindow(p.ws).start = CurrentWindow(first).start + WindowDuration * n
    /\ Running(p.act) = Running(act)

LEMMA ClosingsDefined ==
    ASSUME Counting, NEW first, NEW act, NEW passed \in Nat
    PROVE  Chain(Closings(first, act, passed), first, act, passed)
<1> DEFINE base == [ws |-> first, act |-> act]
           Fits(g, m) == g = [n \in 0 .. m |-> IF n = 0 THEN base ELSE CloseWindow(g[n - 1])]
           S == {m \in Nat : \E g : Fits(g, m)}
<1> HIDE DEF base
<1>1. 0 \in S
  <2> DEFINE g == [n \in 0 .. 0 |-> base]
  <2>1. \A n \in 0 .. 0 : n = 0
    OBVIOUS
  <2>2. Fits(g, 0)
    BY <2>1, Zenon
  <2>3. \E h : Fits(h, 0)
    <3> HIDE DEF g, Fits
    <3> QED BY <2>2, Zenon
  <2>4. 0 \in Nat
    OBVIOUS
  <2> HIDE DEF Fits
  <2> QED BY <2>3, <2>4, Zenon
<1>2. ASSUME NEW m \in Nat, m \in S PROVE m + 1 \in S
  <2>1. PICK g : Fits(g, m)
    BY <1>2, Zenon
  <2> DEFINE h == [n \in 0 .. m + 1 |-> IF n = m + 1 THEN CloseWindow(g[m]) ELSE g[n]]
  <2>2. ASSUME NEW n \in 0 .. m + 1 PROVE h[n] = IF n = 0 THEN base ELSE CloseWindow(h[n - 1])
    <3>1. CASE n = m + 1
      <4>1. n # 0 /\ n - 1 = m /\ m \in 0 .. m + 1 /\ m # m + 1
        BY <3>1
      <4>2. h[n] = CloseWindow(g[m]) /\ h[m] = g[m]
        BY <3>1, <4>1, Zenon
      <4> HIDE DEF h
      <4> QED BY <4>1, <4>2, Zenon
    <3>2. CASE n # m + 1 /\ n # 0
      <4>1. n \in 0 .. m /\ n - 1 \in 0 .. m + 1 /\ n - 1 # m + 1
        BY <3>2
      <4>2. h[n] = g[n] /\ h[n - 1] = g[n - 1]
        BY <3>2, <4>1, Zenon
      <4>3. g[n] = CloseWindow(g[n - 1])
        BY <2>1, <3>2, <4>1, Zenon
      <4> HIDE DEF h
      <4> QED BY <3>2, <4>2, <4>3, Zenon
    <3>3. CASE n # m + 1 /\ n = 0
      <4>1. 0 \in 0 .. m
        OBVIOUS
      <4>2. h[n] = g[0] /\ g[0] = base
        BY <2>1, <3>3, <4>1, Zenon
      <4> HIDE DEF h
      <4> QED BY <3>3, <4>2, Zenon
    <3> QED BY <3>1, <3>2, <3>3, Zenon
  <2>3. h = [n \in 0 .. m + 1 |-> h[n]]
    BY Zenon
  <2> HIDE DEF h
  <2>4. Fits(h, m + 1)
    BY <2>2, <2>3, Zenon
  <2>5. m + 1 \in Nat
    OBVIOUS
  <2> HIDE DEF Fits
  <2> QED BY <2>4, <2>5, Zenon
<1>3. passed \in S
  <2> HIDE DEF S
  <2> QED BY <1>1, <1>2, SetInduction, Zenon
<1>4. PICK g : Fits(g, passed)
  <2> HIDE DEF Fits
  <2> QED BY <1>3, Zenon
<1>5. Closings(first, act, passed) = CHOOSE rot : Fits(rot, passed)
  BY Zenon DEF Closings, base
<1>6. Fits(CHOOSE rot : Fits(rot, passed), passed)
  <2> HIDE DEF Fits
  <2> QED BY <1>4, Zenon
<1>7. Fits(Closings(first, act, passed), passed)
  BY <1>5, <1>6, Zenon
<1> DEFINE rot == Closings(first, act, passed)
<1>8. \A n \in 0 .. passed : rot[n] = IF n = 0 THEN base ELSE CloseWindow(rot[n - 1])
  <2>1. rot = [n \in 0 .. passed |-> IF n = 0 THEN base ELSE CloseWindow(rot[n - 1])]
    BY <1>7, Zenon
  <2> HIDE DEF rot
  <2> QED BY <2>1, Zenon
<1> HIDE DEF rot
<1>9. Chain(rot, first, act, passed)
  BY <1>8, Zenon DEF base, Chain
<1> QED BY <1>9, Zenon DEF rot

\* Every window that ended is closed.
LEMMA ClosingsLedger ==
    ASSUME Counting, NEW first, NEW act, NEW bz \in [Starts -> Nat], NEW t \in 0 .. MaxTime,
           Ledger(first, act, bz, t), NEW passed \in Nat,
           CurrentWindow(first).start + WindowDuration * passed <= t
    PROVE  Closed(Closings(first, act, passed)[passed], first, act, bz, t, passed)
<1> DEFINE u == CurrentWindow(first).start
           rot == Closings(first, act, passed)
           Good(n) == /\ Ledger(rot[n].ws, rot[n].act, bz, t)
                      /\ CurrentWindow(rot[n].ws).start = u + WindowDuration * n
                      /\ Running(rot[n].act) = Running(act)
           S == {n \in Nat : n <= passed => Good(n)}
<1>0. t \in Nat /\ WindowDuration \in Nat \ {0}
  BY HotZoneAssumption
<1>1. u \in Nat
  BY <1>0, LedgerFacts, Zenon
<1>0a. Chain(rot, first, act, passed)
  BY ClosingsDefined, Zenon
<1> HIDE DEF rot
<1>2. \A n \in 0 .. passed :
        /\ n = 0 => rot[n] = [ws |-> first, act |-> act]
        /\ n # 0 => rot[n] = CloseWindow(rot[n - 1])
  BY <1>0a, Zenon DEF Chain
<1>3. 0 \in S
  <2>1. 0 \in 0 .. passed /\ u + WindowDuration * 0 = u /\ 0 \in Nat
    <3> HIDE DEF u
    <3> QED BY <1>0, <1>1
  <2>2. rot[0] = [ws |-> first, act |-> act]
    BY <1>2, <2>1, Zenon
  <2>3. rot[0].ws = first /\ rot[0].act = act
    BY <2>2
  <2>4. Good(0)
    BY <2>1, <2>3, Zenon
  <2> HIDE DEF Good
  <2> QED BY <2>1, <2>4, Zenon
<1>4. ASSUME NEW n \in Nat, n \in S PROVE n + 1 \in S
  <2>1. SUFFICES ASSUME n + 1 <= passed PROVE Good(n + 1)
    <3>1. n + 1 \in Nat
      OBVIOUS
    <3> HIDE DEF Good
    <3> QED BY <3>1, Zenon
  <2>2. n <= passed /\ n + 1 \in 0 .. passed /\ (n + 1) - 1 = n /\ n + 1 # 0
    BY <2>1
  <2>3. Good(n)
    <3> HIDE DEF Good
    <3> QED BY <1>4, <2>2, Zenon
  <2>4. rot[n + 1] = CloseWindow(rot[n])
    BY <1>2, <2>2, Zenon
  <2>5. WindowDuration * (n + 1) = WindowDuration * n + WindowDuration /\ WindowDuration * n \in Nat
    BY <1>0
  <2>6. WindowDuration * (n + 1) <= WindowDuration * passed
    BY <1>0, <2>1
  <2>7. u + WindowDuration * n + WindowDuration <= t /\ u + WindowDuration * n + WindowDuration = u + WindowDuration * (n + 1)
    <3>1. WindowDuration * passed \in Nat /\ u + WindowDuration * passed <= t
      BY <1>0
    <3> HIDE DEF u
    <3> QED BY <1>0, <1>1, <2>5, <2>6, <3>1
  <2>8. /\ Ledger(rot[n].ws, rot[n].act, bz, t) /\ CurrentWindow(rot[n].ws).start = u + WindowDuration * n
        /\ Running(rot[n].act) = Running(act)
    BY <2>3, Zenon
  <2>9. CurrentWindow(rot[n].ws).start + WindowDuration <= t
    BY <2>7, <2>8, Zenon
  <2>10. /\ Ledger(CloseWindow(rot[n]).ws, CloseWindow(rot[n]).act, bz, t)
         /\ CurrentWindow(CloseWindow(rot[n]).ws).start = CurrentWindow(rot[n].ws).start + WindowDuration
         /\ Running(CloseWindow(rot[n]).act) = Running(rot[n].act)
    BY <2>8, <2>9, CloseLedger, Zenon
  <2> QED BY <2>4, <2>7, <2>8, <2>10, Zenon
<1>5. passed \in S
  <2> HIDE DEF S
  <2> QED BY <1>3, <1>4, SetInduction, Zenon
<1>6. passed <= passed
  OBVIOUS
<1>7. Good(passed)
  <2> HIDE DEF Good
  <2> QED BY <1>5, <1>6, Zenon
<1>8. Closed(rot[passed], first, act, bz, t, passed)
  BY <1>7, Zenon DEF Closed
<1> QED BY <1>8, Zenon DEF rot

\* The first window.
LEMMA FirstLedger ==
    ASSUME Counting, NEW act \in Actives, NEW bz \in [Starts -> Nat], NEW t \in 0 .. MaxTime,
           \A r \in Requests : act[r] = None, \A s \in Starts : bz[s] = 0
    PROVE  /\ Ledger(<<NewWindow(Truncate(t))>>, act, bz, t)
           /\ CurrentWindow(<<NewWindow(Truncate(t))>>).start = Truncate(t)
<1> DEFINE b == Truncate(t)
           w == NewWindow(b)
           ws == <<w>>
<1>0. t \in Nat /\ t <= MaxTime /\ MaxTime \in Nat /\ WindowDuration \in Nat \ {0}
  BY HotZoneAssumption
<1>1. b \in Nat /\ b <= t /\ b % WindowDuration = 0
  BY <1>0, Truncated, Zenon
<1> HIDE DEF b
<1>2. b \in Starts
  <2>1. b \in 0 .. MaxTime
    BY <1>0, <1>1
  <2> QED BY <1>1, <2>1, Zenon DEF Starts
<1>3. w \in Window /\ w.start = b /\ w.global = 0
  BY <1>1, NewWindowTyped, Zenon
<1> HIDE DEF w
<1>4. ws \in Seq(Window) /\ ws # <<>> /\ Len(ws) = 1 /\ ws[1] = w
  BY <1>3
<1> HIDE DEF ws
<1>5. CurrentWindow(ws) = w /\ CurrentWindow(ws).start = b
  BY <1>3, <1>4, Zenon DEF CurrentWindow
<1>6. \A i \in 1 .. Len(ws) : ws[i] = w /\ \A j \in 1 .. Len(ws) : ~(i < j)
  BY <1>4
<1>7. Ordered(ws)
  BY <1>2, <1>3, <1>6, Zenon DEF Ordered
<1>8. Running(act) = {}
  BY Zenon DEF Running
<1>9. Current(ws, act, t)
  BY <1>1, <1>5, <1>8, Zenon DEF Current
<1>10. \A s : Cardinality(Unaccounted(act, s, t)) = 0
  <2>1. \A s : Unaccounted(act, s, t) = {}
    BY <1>8, Zenon DEF Unaccounted
  <2> QED BY <2>1, CardinalityEmpty, Zenon
<1>11. Booked(ws, act, bz, t)
  <2>1. 0 + 0 = 0
    OBVIOUS
  <2> QED BY <1>2, <1>3, <1>6, <1>10, <2>1, Zenon DEF Booked
<1>12. Ledger(ws, act, bz, t)
  BY <1>4, <1>7, <1>9, <1>11, Zenon DEF Ledger
<1> QED BY <1>5, <1>12, Zenon DEF ws, w, b

LEMMA Rotated ==
    ASSUME Counting, NEW ws, NEW act \in Actives, NEW bz \in [Starts -> Nat], NEW t \in 0 .. MaxTime,
           ws # <<>> => Ledger(ws, act, bz, t),
           ws = <<>> => (\A r \in Requests : act[r] = None) /\ \A s \in Starts : bz[s] = 0
    PROVE  /\ Ledger(Rotate(ws, act, t).ws, Rotate(ws, act, t).act, bz, t)
           /\ CurrentWindow(Rotate(ws, act, t).ws).start = Truncate(t)
           /\ Running(Rotate(ws, act, t).act) = Running(act)
           /\ Rotate(ws, act, t).rotated \in BOOLEAN
           /\ ws # <<>> => /\ CurrentWindow(ws).start <= Truncate(t)
                           /\ ~Rotate(ws, act, t).rotated => CurrentWindow(ws).start = Truncate(t)
<1> DEFINE first == EnsureCurrentWindow(ws, t)
           u == CurrentWindow(first).start
           passed == (t - u) \div WindowDuration
           rot == Closings(first, act, passed)[passed]
<1>0. t \in Nat /\ WindowDuration \in Nat \ {0}
  BY HotZoneAssumption
<1>1. Ledger(first, act, bz, t)
  <2>1. CASE ws = <<>>
    <3>1. first = <<NewWindow(Truncate(t))>>
      BY <2>1, Zenon DEF EnsureCurrentWindow
    <3>2. Ledger(<<NewWindow(Truncate(t))>>, act, bz, t)
      BY <2>1, FirstLedger, Zenon
    <3> QED BY <3>1, <3>2, Zenon
  <2>2. CASE ws # <<>>
    BY <2>2, Zenon DEF EnsureCurrentWindow
  <2> QED BY <2>1, <2>2, Zenon
<1>2. ws # <<>> => first = ws
  BY Zenon DEF EnsureCurrentWindow
<1>3. /\ Rotate(ws, act, t).ws = rot.ws /\ Rotate(ws, act, t).act = rot.act
      /\ Rotate(ws, act, t).rotated = (passed > 0)
  BY Zenon DEF Rotate
<1> HIDE DEF first
<1>4. u \in Nat /\ u <= t /\ u % WindowDuration = 0
  <2>1. Current(first, act, t)
    BY <1>1, Zenon DEF Ledger
  <2>2. u <= t
    BY <2>1, Zenon DEF Current
  <2> QED BY <1>0, <1>1, <2>2, LedgerFacts, Zenon
<1> DEFINE v == u + WindowDuration * passed
<1>5. passed \in Nat /\ v <= t /\ t < v + WindowDuration
  BY <1>0, <1>4, Passed, Zenon
<1>6. Ledger(rot.ws, rot.act, bz, t) /\ CurrentWindow(rot.ws).start = v /\ Running(rot.act) = Running(act)
  <2> HIDE DEF passed
  <2>1. passed \in Nat /\ CurrentWindow(first).start + WindowDuration * passed <= t
    BY <1>5, Zenon
  <2> HIDE DEF v, u
  <2>2. Closed(rot, first, act, bz, t, passed)
    BY <1>1, <2>1, ClosingsLedger, Zenon
  <2> HIDE DEF rot
  <2> QED BY <2>2, Zenon DEF Closed, v, u
<1> HIDE DEF rot, passed, u
<1>7. v \in Nat /\ v % WindowDuration = 0
  BY <1>0, <1>6, LedgerFacts, Zenon
<1>8. Truncate(t) = v
  <2> HIDE DEF v
  <2> QED BY <1>0, <1>5, <1>7, SameWindow, Zenon
<1>9. u <= v /\ (~(passed > 0) => u = v)
  <2>1. WindowDuration * passed \in Nat
    BY <1>0, <1>5
  <2>2. ~(passed > 0) => WindowDuration * passed = 0
    BY <1>0, <1>5
  <2> QED BY <1>4, <2>1, <2>2
<1>10. (passed > 0) \in BOOLEAN
  OBVIOUS
<1> HIDE DEF v
<1> QED BY <1>2, <1>3, <1>6, <1>8, <1>9, <1>10, Zenon DEF u

-----------------------------------------------------------------------------
(* What the operations do to the ledger *)

LEMMA SnapshotLedger ==
    ASSUME Counting, NEW ws, NEW act, NEW bz \in [Starts -> Nat], NEW t \in Nat, Ledger(ws, act, bz, t)
    PROVE  Ledger(Snapshot(ws, act, t), act, bz, t)
           /\ CurrentWindow(Snapshot(ws, act, t)).start = CurrentWindow(ws).start
<1> DEFINE w == CurrentWindow(ws)
           z == AddZones(w, act, Running(act), t)
           new == ReplaceCurrent(ws, z)
<1>1. ws \in Seq(Window) /\ ws # <<>> /\ act \in Actives /\ Current(ws, act, t)
  BY Zenon DEF Ledger
<1>2. w \in Window
  BY LedgerFacts, Zenon
<1>3. Running(act) \in SUBSET Running(act)
  BY Zenon
<1>4. z \in Window /\ z.start = w.start /\ z.global = w.global
  BY <1>1, <1>2, <1>3, ZonesAdded, Zenon
<1> HIDE DEF z
<1>5. /\ new \in Seq(Window) /\ new # <<>> /\ Len(new) = Len(ws) /\ CurrentWindow(new) = z
      /\ \A i \in 1 .. Len(ws) - 1 : new[i] = ws[i]
  BY <1>1, <1>4, Replaced, Zenon
<1>6. Snapshot(ws, act, t) = new
  BY Zenon DEF Snapshot, z
<1> HIDE DEF new
<1>7. Current(new, act, t)
  BY <1>1, <1>4, <1>5, Zenon DEF Current
<1>8. /\ CurrentWindow(new).start = CurrentWindow(ws).start
      /\ CurrentWindow(new).global = CurrentWindow(ws).global
      /\ \A i \in 1 .. Len(ws) - 1 : new[i].start = ws[i].start /\ new[i].global = ws[i].global
  BY <1>4, <1>5, Zenon
<1>9. Ledger(new, act, bz, t)
  BY <1>1, <1>5, <1>7, <1>8, SameLedger
<1> QED BY <1>6, <1>8, <1>9, Zenon

\* A request that enters spent nothing yet.
LEMMA EnterLedger ==
    ASSUME Counting, NEW ws, NEW act, NEW bz \in [Starts -> Nat], NEW t \in Nat, Ledger(ws, act, bz, t),
           NEW r \in Requests, act[r] = None, NEW a \in ActiveRequest, a.accountedAt = t,
           t < CurrentWindow(ws).start + WindowDuration
    PROVE  Ledger(ws, [act EXCEPT ![r] = a], bz, t)
<1> DEFINE then == [act EXCEPT ![r] = a]
<1>1. ws \in Seq(Window) /\ ws # <<>> /\ act \in Actives /\ Current(ws, act, t)
  BY Zenon DEF Ledger
<1>2. then \in Actives /\ then[r] = a /\ \A q \in Requests : q # r => then[q] = act[q]
  BY <1>1 DEF Actives
<1> HIDE DEF then
<1>3. a # None
  BY HotZoneAssumption, Zenon
<1>4. Running(then) = Running(act) \cup {r} /\ r \notin Running(act)
  <2>1. \A q \in Requests : then[q] # None <=> act[q] # None \/ q = r
    BY <1>2, <1>3, Zenon
  <2> QED BY <2>1, Zenon DEF Running
<1>5. \A q \in Running(act) : q # r /\ then[q] = act[q]
  BY <1>2, <1>4, Zenon DEF Running
<1>6. Current(ws, then, t)
  <2>1. t <= t /\ CurrentWindow(ws).start <= t
    BY <1>1 DEF Current
  <2> QED BY <1>1, <1>2, <1>4, <1>5, <2>1, Zenon DEF Current
<1>7. ASSUME NEW s \in Nat PROVE Unaccounted(then, s, t) = Unaccounted(act, s, t)
  <2>1. ASSUME NEW p \in Unaccounted(then, s, t) PROVE p \in Unaccounted(act, s, t)
    <3>1. p \in Running(then) \X (s .. s + WindowDuration - 1) /\ then[p[1]].accountedAt <= p[2] /\ p[2] < t
      BY Zenon DEF Unaccounted
    <3>2. PICK q \in Running(then), k \in s .. s + WindowDuration - 1 : p = <<q, k>>
      BY <3>1, Pair
    <3>3. p[1] = q /\ p[2] = k
      BY <3>2, Zenon
    <3>4. q # r
      <4>1. SUFFICES ASSUME q = r PROVE FALSE
        BY Zenon
      <4>2. t <= k /\ k < t
        BY <1>2, <3>1, <3>3, <4>1, Zenon
      <4>3. k \in Int
        BY <3>2, HotZoneAssumption
      <4> QED BY <4>2, <4>3
    <3>5. q \in Running(act) /\ then[q] = act[q]
      BY <1>4, <1>5, <3>2, <3>4, Zenon
    <3> QED BY <3>1, <3>2, <3>3, <3>5, Zenon DEF Unaccounted
  <2>2. ASSUME NEW p \in Unaccounted(act, s, t) PROVE p \in Unaccounted(then, s, t)
    <3>1. p \in Running(act) \X (s .. s + WindowDuration - 1) /\ act[p[1]].accountedAt <= p[2] /\ p[2] < t
      BY Zenon DEF Unaccounted
    <3>2. PICK q \in Running(act), k \in s .. s + WindowDuration - 1 : p = <<q, k>>
      BY <3>1, Pair
    <3>3. p[1] = q /\ p[2] = k
      BY <3>2, Zenon
    <3>4. q \in Running(then) /\ then[q] = act[q]
      BY <1>4, <1>5, <3>2, Zenon
    <3> QED BY <3>1, <3>2, <3>3, <3>4, Zenon DEF Unaccounted
  <2> QED BY <2>1, <2>2, Zenon
<1>8. CurrentWindow(ws).start \in Nat /\ \A s \in Starts : s \in Nat
  <2>1. \A s \in Starts : s \in Nat
    BY HotZoneAssumption DEF Starts
  <2> QED BY <2>1, LedgerFacts, Zenon
<1>9. Unaccounted(then, CurrentWindow(ws).start, t) = Unaccounted(act, CurrentWindow(ws).start, t)
  BY <1>7, <1>8, Zenon
<1>10. \A s \in Starts : Unaccounted(then, s, t) = Unaccounted(act, s, t)
  BY <1>7, <1>8, Zenon
<1>11. Booked(ws, then, bz, t)
  <2>1. \A i \in 1 .. Len(ws) : ws[i].start \in Starts
    BY Zenon DEF Ledger, Ordered
  <2>2. Booked(ws, act, bz, t)
    BY Zenon DEF Ledger
  <2> QED BY <1>10, <2>1, <2>2, Zenon DEF Booked
<1>12. Ledger(ws, then, bz, t)
  BY <1>2, <1>6, <1>11, Zenon DEF Ledger
<1> QED BY <1>12, Zenon DEF then

\* A request that leaves is accounted.
LEMMA ReleaseLedger ==
    ASSUME Counting, NEW ws, NEW act, NEW bz \in [Starts -> Nat], NEW t \in Nat, Ledger(ws, act, bz, t),
           NEW r \in Running(act), t < CurrentWindow(ws).start + WindowDuration
    PROVE  /\ Ledger(ReplaceCurrent(ws, AddSamples(CurrentWindow(ws), act, {r}, t)),
                     [act EXCEPT ![r] = None], bz, t)
           /\ CurrentWindow(ReplaceCurrent(ws, AddSamples(CurrentWindow(ws), act, {r}, t))).start =
                CurrentWindow(ws).start
<1> DEFINE w == CurrentWindow(ws)
           z == AddSamples(w, act, {r}, t)
           new == ReplaceCurrent(ws, z)
           left == [act EXCEPT ![r] = None]
           u == w.start
<1>0. WindowDuration \in Nat \ {0}
  BY HotZoneAssumption, Zenon
<1>1. ws \in Seq(Window) /\ ws # <<>> /\ act \in Actives /\ Current(ws, act, t)
  BY Zenon DEF Ledger
<1>2. w \in Window /\ u \in Nat /\ w.global \in Nat
  BY LedgerFacts, Zenon
<1>3. {r} \in SUBSET Running(act)
  BY Zenon
<1>4. z \in Window /\ z.start = w.start /\ z.global = w.global + Spent(act, {r}, t)
  BY <1>1, <1>2, <1>3, SamplesAdded, Zenon
<1>5. /\ left \in Actives /\ Running(left) = Running(act) \ {r}
      /\ \A q \in Running(act) \ {r} : left[q] = act[q]
  BY <1>1, LeftFacts, Zenon
<1>6. Spent(act, {r}, t) \in Nat
  BY <1>1, <1>3, SpentTyped, Zenon
<1>7. Cardinality(Unaccounted(act, u, t)) = Spent(act, {r}, t) + Cardinality(Unaccounted(left, u, t))
  <2>1. u <= act[r].accountedAt
    BY <1>1, Zenon DEF Current
  <2>2. t <= u + WindowDuration
    <3> HIDE DEF u, w
    <3> QED BY <1>0, <1>2 DEF u, w
  <2> HIDE DEF u
  <2> QED BY <1>1, <1>2, <2>1, <2>2, ReleaseCount, Zenon
<1>8. Cardinality(Unaccounted(left, u, t)) \in Nat
  BY <1>2, <1>5, UnaccountedFacts, Zenon
<1> HIDE DEF z
<1>9. /\ new \in Seq(Window) /\ new # <<>> /\ Len(new) = Len(ws) /\ CurrentWindow(new) = z
      /\ \A i \in 1 .. Len(ws) - 1 : new[i] = ws[i]
  BY <1>1, <1>4, Replaced, Zenon
<1> HIDE DEF new, left
<1>10. Current(new, left, t)
  BY <1>1, <1>4, <1>5, <1>9, Zenon DEF Current
<1>11. z.global + Cardinality(Unaccounted(left, u, t)) = w.global + Cardinality(Unaccounted(act, u, t))
  <2> DEFINE a == Spent(act, {r}, t)
             b == Cardinality(Unaccounted(left, u, t))
             c == Cardinality(Unaccounted(act, u, t))
             g == w.global
             h == z.global
  <2>1. a \in Nat /\ b \in Nat /\ g \in Nat /\ c = a + b /\ h = g + a
    BY <1>2, <1>4, <1>6, <1>7, <1>8, Zenon
  <2> HIDE DEF a, b, c, g, h
  <2>2. h + b = g + c
    BY <2>1
  <2> QED BY <2>2, Zenon DEF b, c, g, h
<1>12. ASSUME NEW s \in Starts, s > u
       PROVE  Cardinality(Unaccounted(left, s, t)) = Cardinality(Unaccounted(act, s, t))
  <2>1. s \in Nat /\ s % WindowDuration = 0 /\ u % WindowDuration = 0
    <3>1. s \in Nat /\ s % WindowDuration = 0
      BY HotZoneAssumption DEF Starts
    <3> QED BY <3>1, LedgerFacts, Zenon
  <2>2. u < s
    <3> HIDE DEF u
    <3> QED BY <1>2, <1>12, <2>1
  <2>3. u + WindowDuration <= s
    BY <1>0, <1>2, <2>1, <2>2, NextMultiple, Zenon
  <2>4. t <= s
    <3> HIDE DEF u, w
    <3> QED BY <1>0, <1>2, <2>1, <2>3 DEF u, w
  <2> QED BY <1>1, <1>5, <2>1, <2>4, NothingLater, Zenon
<1>13. /\ CurrentWindow(new).start = CurrentWindow(ws).start
       /\ \A i \in 1 .. Len(ws) - 1 : new[i].start = ws[i].start /\ new[i].global = ws[i].global
  BY <1>4, <1>9, Zenon
<1>14. CurrentWindow(new).global + Cardinality(Unaccounted(left, CurrentWindow(ws).start, t)) =
       CurrentWindow(ws).global + Cardinality(Unaccounted(act, CurrentWindow(ws).start, t))
  BY <1>9, <1>11, Zenon
<1>15. \A s \in Starts : s > CurrentWindow(ws).start =>
           Cardinality(Unaccounted(left, s, t)) = Cardinality(Unaccounted(act, s, t))
  BY <1>12, Zenon
<1> HIDE DEF u, w
<1>16. Ledger(new, left, bz, t)
  BY <1>5, <1>9, <1>10, <1>13, <1>14, <1>15, SameLedger
<1> QED BY <1>13, <1>16, Zenon DEF new, left, z, w

\* A second passes.
LEMMA TickLedger ==
    ASSUME Counting, NEW ws, NEW act, NEW bz \in [Starts -> Nat], NEW t \in Nat, t <= MaxTime,
           Ledger(ws, act, bz, t)
    PROVE  Ledger(ws, act, [bz EXCEPT ![Truncate(t)] = @ + Cardinality(Running(act))], t + 1)
<1> DEFINE c == Cardinality(Running(act))
           b == Truncate(t)
           then == [bz EXCEPT ![b] = @ + c]
<1>0. WindowDuration \in Nat \ {0} /\ MaxTime \in Nat
  BY HotZoneAssumption, Zenon
<1>1. ws \in Seq(Window) /\ ws # <<>> /\ act \in Actives /\ Current(ws, act, t) /\ Booked(ws, act, bz, t)
  BY Zenon DEF Ledger
<1>2. \A s \in Starts : then[s] = IF s = b THEN bz[s] + c ELSE bz[s]
  BY Zenon
<1> HIDE DEF c, b, then
<1>3. \A r \in Running(act) : act[r].accountedAt <= t
  BY <1>1, Zenon DEF Current
<1>4. c \in Nat
  <2>1. Running(act) \subseteq Requests
    BY Zenon DEF Running
  <2> QED BY <2>1, HotZoneAssumption, FiniteSubset, CardinalityTyped, Zenon DEF c
<1>5. ASSUME NEW s \in Starts, NEW g \in Nat, bz[s] = g + Cardinality(Unaccounted(act, s, t))
      PROVE  then[s] = g + Cardinality(Unaccounted(act, s, t + 1))
  <2>1. s \in Nat /\ s % WindowDuration = 0
    BY <1>0 DEF Starts
  <2>2. /\ b = s => Cardinality(Unaccounted(act, s, t + 1)) = Cardinality(Unaccounted(act, s, t)) + c
        /\ b # s => Unaccounted(act, s, t + 1) = Unaccounted(act, s, t)
    BY <1>1, <1>3, <2>1, TickCount, Zenon DEF b, c
  <2>3. Cardinality(Unaccounted(act, s, t)) \in Nat
    BY <1>1, <2>1, UnaccountedFacts, Zenon
  <2>4. CASE b = s
    <3> DEFINE x == Cardinality(Unaccounted(act, s, t))
               y == Cardinality(Unaccounted(act, s, t + 1))
    <3>1. then[s] = bz[s] + c /\ y = x + c /\ bz[s] = g + x /\ x \in Nat
      BY <1>2, <1>5, <2>2, <2>3, <2>4, Zenon
    <3> HIDE DEF x, y
    <3>2. then[s] = g + y
      BY <1>4, <3>1
    <3> QED BY <3>2, Zenon DEF y
  <2>5. CASE b # s
    BY <1>2, <1>5, <2>2, <2>5, Zenon
  <2> QED BY <2>4, <2>5, Zenon
<1>6. Booked(ws, act, then, t + 1)
  <2>1. ASSUME NEW i \in 1 .. Len(ws)
        PROVE  then[ws[i].start] = ws[i].global + Cardinality(Unaccounted(act, ws[i].start, t + 1))
    <3>1. ws[i].start \in Starts /\ ws[i].global \in Nat
      BY LedgerFacts, Zenon
    <3>2. bz[ws[i].start] = ws[i].global + Cardinality(Unaccounted(act, ws[i].start, t))
      BY <1>1, Zenon DEF Booked
    <3> QED BY <1>5, <3>1, <3>2, Zenon
  <2>2. ASSUME NEW s \in Starts, s > CurrentWindow(ws).start
        PROVE  then[s] = Cardinality(Unaccounted(act, s, t + 1))
    <3>1. bz[s] = Cardinality(Unaccounted(act, s, t))
      BY <1>1, <2>2, Zenon DEF Booked
    <3>2. bz[s] \in Nat /\ s \in Nat
      BY <1>0 DEF Starts
    <3>3. Cardinality(Unaccounted(act, s, t + 1)) \in Nat
      <4>1. t + 1 \in Nat
        OBVIOUS
      <4> QED BY <1>1, <3>2, <4>1, UnaccountedFacts, Zenon
    <3>4. bz[s] = 0 + Cardinality(Unaccounted(act, s, t))
      BY <3>1, <3>2
    <3>5. then[s] = 0 + Cardinality(Unaccounted(act, s, t + 1))
      <4>1. 0 \in Nat
        OBVIOUS
      <4> QED BY <1>5, <3>4, <4>1, Zenon
    <3> QED BY <3>3, <3>5
  <2> QED BY <2>1, <2>2, Zenon DEF Booked
<1>7. Current(ws, act, t + 1)
  <2>1. CurrentWindow(ws).start <= t + 1
    <3>1. CurrentWindow(ws).start \in Nat /\ CurrentWindow(ws).start <= t
      BY <1>1, LedgerFacts, Zenon DEF Current
    <3> QED BY <3>1
  <2>2. ASSUME NEW r \in Running(act) PROVE act[r].accountedAt <= t + 1
    <3>1. act[r].accountedAt \in Nat /\ act[r].accountedAt <= t
      BY <1>1, <1>3, RunningFacts, Zenon
    <3> QED BY <3>1
  <2> QED BY <1>1, <2>1, <2>2, Zenon DEF Current
<1>8. Ledger(ws, act, then, t + 1)
  BY <1>6, <1>7, Zenon DEF Ledger
<1> QED BY <1>8, Zenon DEF then, b, c

-----------------------------------------------------------------------------
(* The operations *)

\* The first, or the next, evaluation, with the ledger of the windows it sees.
LEMMA MaybeEvaluated ==
    ASSUME Counting, HotInv, NEW ws, NEW act, NEW rotated \in BOOLEAN, NEW cpuHigh \in CPUReadings,
           Ledger(ws, act, busy, now), CurrentWindow(ws).start = Truncate(now),
           windows # <<>> => /\ CurrentWindow(windows).start <= Truncate(now)
                             /\ ~rotated => CurrentWindow(windows).start = Truncate(now)
    PROVE  LET e == MaybeEvaluate(ws, act, now, rotated, cpuHigh)
           IN  /\ Ledger(e.ws, act, busy, now) /\ CurrentWindow(e.ws).start = Truncate(now)
               /\ Control(e.ctl) /\ Streak(e.ctl, e.pressed, Truncate(now))
               /\ e.ctl.protected # None => busy[Truncate(now)] > 0
               /\ ctl.protected = None /\ e.ctl.protected # None =>
                    e.pressed # None /\ Truncate(now) - e.pressed >= (ConfirmWindows - 1) * WindowDuration
<1> DEFINE e == MaybeEvaluate(ws, act, now, rotated, cpuHigh)
           u == Truncate(now)
           avg == CurrentGlobalAvg(ws, act, now)
           pressure == Pressure(avg, cpuHigh)
           due == rotated \/ lastEvalAt = None \/ now - lastEvalAt >= EvaluateInterval
<1>0. /\ now \in Nat /\ busy \in [Starts -> Nat] /\ Control(ctl) /\ cpuHigh \in BOOLEAN
      /\ WindowDuration \in Nat \ {0}
  <2>1. now \in Nat
    BY HotZoneAssumption DEF HotInv
  <2> QED BY <2>1, HotZoneAssumption, Zenon DEF HotInv, CPUReadings
<1>1. u \in Nat /\ u <= now /\ now < u + WindowDuration /\ u \in Starts
  <2>1. u \in Starts
    BY <1>0, LedgerFacts, Zenon
  <2> QED BY <1>0, <2>1, Truncated, Zenon
<1>2. CASE ~due
  <2>1. /\ e.ws = ws /\ e.ctl = ctl /\ e.pressed = pressed
    BY <1>2, Zenon DEF MaybeEvaluate
  <2>2. windows # <<>> /\ ~rotated
    BY <1>2, Zenon DEF HotInv, Unused
  <2>3. Used /\ CurrentWindow(windows).start = u
    BY <2>2, Zenon DEF HotInv
  <2>4. Streak(ctl, pressed, u) /\ (ctl.protected # None => busy[u] > 0)
    BY <2>3, Zenon DEF Used
  <2> HIDE DEF e, u
  <2>5. /\ Ledger(e.ws, act, busy, now) /\ CurrentWindow(e.ws).start = u
        /\ Control(e.ctl) /\ Streak(e.ctl, e.pressed, u)
        /\ e.ctl.protected # None => busy[u] > 0
        /\ ~(ctl.protected = None /\ e.ctl.protected # None)
    BY <1>0, <2>1, <2>4, Zenon DEF u
  <2> QED BY <2>5, Zenon DEF e, u
<1>3. CASE due
  <2> DEFINE ss == Snapshot(ws, act, now)
  <2>1. /\ e.ws = ss /\ e.ctl = Evaluate(ctl, ss, avg, pressure)
        /\ e.pressed = PressedSince(pressed, pressure, CurrentWindow(ws).start)
    BY <1>3, Zenon DEF MaybeEvaluate, PressedSince
  <2>2. Ledger(ss, act, busy, now) /\ CurrentWindow(ss).start = u
    BY <1>0, SnapshotLedger, Zenon
  <2>3. ws \in Seq(Window) /\ ws # <<>> /\ act \in Actives /\ Current(ws, act, now) /\ Booked(ws, act, busy, now)
    BY Zenon DEF Ledger
  <2>4. Spent(act, Running(act), now) = Cardinality(Unaccounted(act, u, now))
    <3>1. \A r \in Running(act) : u <= act[r].accountedAt
      BY <2>3, Zenon DEF Current
    <3>2. now <= u + WindowDuration /\ now <= now
      BY <1>0, <1>1
    <3> QED BY <1>0, <1>1, <2>3, <3>1, <3>2, SpentIsUnaccounted, Zenon
  <2>5. Running(act) \in SUBSET Running(act)
    BY Zenon
  <2>6. Spent(act, Running(act), now) \in Nat
    BY <1>0, <2>3, <2>5, SpentTyped, Zenon
  <2>7. avg \in Nat /\ (avg > 0 => CurrentWindow(ws).global + Spent(act, Running(act), now) > 0)
    <3>1. CurrentWindow(ws).start <= now
      BY <1>1, Zenon
    <3> QED BY <1>0, <2>3, <2>6, <3>1, AverageTyped, Zenon
  <2>8. busy[u] = CurrentWindow(ws).global + Spent(act, Running(act), now)
    <3>1. Len(ws) \in 1 .. Len(ws) /\ CurrentWindow(ws) = ws[Len(ws)]
      <4>1. Len(ws) \in Nat \ {0} /\ CurrentWindow(ws) = ws[Len(ws)]
        BY <2>3, CurrentIs, Zenon
      <4> QED BY <4>1
    <3> QED BY <2>3, <2>4, <3>1, Zenon DEF Booked
  <2>9. pressure \in BOOLEAN /\ (pressure => avg > 0)
    BY <1>0, <2>7, PressureIsLoad, Zenon
  <2>10. PICK old \in Nat : old <= u /\ Streak(ctl, pressed, old)
    <3>1. CASE windows = <<>>
      <4>1. pressed = None /\ ctl.candidate = None
        BY <1>0, <3>1, Zenon DEF HotInv, Unused, Control
      <4>2. Streak(ctl, pressed, 0)
        BY <4>1, Zenon DEF Streak
      <4>3. 0 \in Nat /\ 0 <= u
        BY <1>1
      <4> QED BY <4>2, <4>3, Zenon
    <3>2. CASE windows # <<>>
      <4>1. Used
        BY <3>2, Zenon DEF HotInv
      <4>2. Ledger(windows, active, busy, now) /\ Streak(ctl, pressed, CurrentWindow(windows).start)
        BY <4>1, Zenon DEF Used
      <4>3. CurrentWindow(windows).start \in Nat
        BY <1>0, <4>2, LedgerFacts, Zenon
      <4> QED BY <3>2, <4>2, <4>3, Zenon
    <3> QED BY <3>1, <3>2, Zenon
  <2> HIDE DEF avg, pressure, ss, u
  <2> DEFINE c == Evaluate(ctl, ss, avg, pressure)
             pr == PressedSince(pressed, pressure, u)
  <2>11. /\ Control(c) /\ Streak(c, pr, u) /\ (c.protected # None => avg > 0)
         /\ ctl.protected = None /\ c.protected # None =>
              pr # None /\ u - pr >= (ConfirmWindows - 1) * WindowDuration
    BY <1>0, <1>1, <2>2, <2>7, <2>9, <2>10, EvaluateKept
  <2> HIDE DEF c, pr, e
  <2>12. c.protected # None => busy[u] > 0
    BY <2>7, <2>8, <2>11, Zenon
  <2>13. e.ws = ss /\ e.ctl = c /\ e.pressed = pr
    BY <2>1, Zenon DEF c, pr, u
  <2>14. /\ Ledger(e.ws, act, busy, now) /\ CurrentWindow(e.ws).start = u
         /\ Control(e.ctl) /\ Streak(e.ctl, e.pressed, u)
         /\ e.ctl.protected # None => busy[u] > 0
         /\ ctl.protected = None /\ e.ctl.protected # None =>
              e.pressed # None /\ u - e.pressed >= (ConfirmWindows - 1) * WindowDuration
    BY <2>2, <2>11, <2>12, <2>13, Zenon
  <2> QED BY <2>14, Zenon DEF e, u
<1> QED BY <1>2, <1>3, Zenon

\* What holds after a call: the state but for active and reply.
Settled(act) ==
    /\ windows' # <<>> /\ Ledger(windows', act, busy', now) /\ CurrentWindow(windows').start = Truncate(now)
    /\ busy' \in [Starts -> Nat] /\ Control(ctl') /\ Streak(ctl', pressed', Truncate(now))
    /\ ctl'.protected # None => busy'[Truncate(now)] > 0
    /\ ctl.protected = None /\ ctl'.protected # None =>
         pressed' # None /\ Truncate(now) - pressed' >= (ConfirmWindows - 1) * WindowDuration

LEMMA EvaluatedSettles ==
    ASSUME Counting, HotInv, NEW ws, NEW act, NEW rotated \in BOOLEAN, NEW cpuHigh \in CPUReadings,
           Ledger(ws, act, busy, now), CurrentWindow(ws).start = Truncate(now),
           windows # <<>> => /\ CurrentWindow(windows).start <= Truncate(now)
                             /\ ~rotated => CurrentWindow(windows).start = Truncate(now),
           Evaluated(MaybeEvaluate(ws, act, now, rotated, cpuHigh))
    PROVE  Settled(act)
<1> DEFINE e == MaybeEvaluate(ws, act, now, rotated, cpuHigh)
           u == Truncate(now)
           kept == [s \in Starts |-> IF s < e.ws[1].start THEN 0 ELSE busy[s]]
<1>1. /\ Ledger(e.ws, act, busy, now) /\ CurrentWindow(e.ws).start = u
      /\ Control(e.ctl) /\ Streak(e.ctl, e.pressed, u)
      /\ e.ctl.protected # None => busy[u] > 0
      /\ ctl.protected = None /\ e.ctl.protected # None =>
           e.pressed # None /\ u - e.pressed >= (ConfirmWindows - 1) * WindowDuration
  BY MaybeEvaluated, Zenon
<1>2. windows' = e.ws /\ ctl' = e.ctl /\ pressed' = e.pressed /\ busy' = kept
  BY Zenon DEF Evaluated
<1> HIDE DEF e
<1>3. now \in Nat /\ busy \in [Starts -> Nat]
  BY HotZoneAssumption DEF HotInv
<1>4. /\ Ledger(e.ws, act, kept, now) /\ kept \in [Starts -> Nat]
      /\ \A s \in Starts : s >= CurrentWindow(e.ws).start => kept[s] = busy[s]
  BY <1>1, <1>3, Forgotten, ZenonT(60)
<1> HIDE DEF kept
<1>5. kept[u] = busy[u]
  <2>1. u \in Starts /\ u \in Nat
    BY <1>1, <1>3, LedgerFacts, Zenon
  <2> HIDE DEF u
  <2>2. u >= u
    BY <2>1
  <2> QED BY <1>1, <1>4, <2>1, <2>2, Zenon
<1>6. e.ws # <<>>
  BY <1>1, Zenon DEF Ledger
<1> QED BY <1>1, <1>2, <1>4, <1>5, <1>6, Zenon DEF Settled

LEMMA RotatedNow ==
    ASSUME Counting, HotInv
    PROVE  LET rot == Rotate(windows, active, now)
           IN  /\ Ledger(rot.ws, rot.act, busy, now) /\ CurrentWindow(rot.ws).start = Truncate(now)
               /\ Running(rot.act) = Running(active) /\ rot.rotated \in BOOLEAN
               /\ windows # <<>> => /\ CurrentWindow(windows).start <= Truncate(now)
                                    /\ ~rot.rotated => CurrentWindow(windows).start = Truncate(now)
<1>1. active \in Actives /\ busy \in [Starts -> Nat] /\ now \in 0 .. MaxTime
  BY Zenon DEF HotInv
<1>2. windows # <<>> => Ledger(windows, active, busy, now)
  BY Zenon DEF HotInv, Used
<1>3. windows = <<>> => (\A r \in Requests : active[r] = None) /\ \A s \in Starts : busy[s] = 0
  BY Zenon DEF HotInv, Unused
<1> QED BY <1>1, <1>2, <1>3, Rotated, Zenon

\* The invariant after a call.
LEMMA SettledHotInv ==
    ASSUME HotInv, Settled(active'), now' = now, reply' = "refused" => ctl'.protected # None
    PROVE  HotInv'
<1>1. /\ windows' # <<>> /\ Ledger(windows', active', busy', now') /\ CurrentWindow(windows').start = Truncate(now')
      /\ busy' \in [Starts -> Nat] /\ Control(ctl') /\ Streak(ctl', pressed', CurrentWindow(windows').start)
      /\ ctl'.protected # None => busy'[CurrentWindow(windows').start] > 0
  BY Zenon DEF Settled
<1>2. now' \in 0 .. MaxTime
  BY Zenon DEF HotInv
<1>3. active' \in Actives
  BY <1>1, Zenon DEF Ledger
<1>4. reply' = "refused" => busy'[Truncate(now')] > 0
  BY <1>1, Zenon
<1> QED BY <1>1, <1>2, <1>3, <1>4, Zenon DEF HotInv, Used, IdleNeverRefuses

LEMMA TryEnterKeeps ==
    ASSUME Counting, HotInv, NEW r \in Requests, NEW x \in Questions, TryEnter(r, x)
    PROVE  HotInv' /\ Settled(active')
<1> DEFINE rot == Rotate(windows, active, now)
           u == Truncate(now)
<1>1. PICK cpuHigh \in CPUReadings :
        LET e == MaybeEvaluate(rot.ws, rot.act, now, rot.rotated, cpuHigh)
        IN  /\ Evaluated(e)
            /\ IF e.ctl.protected # None /\ IsSubDomain(e.ctl.protected, x.qname)
               THEN reply' = "refused" /\ active' = rot.act /\ UNCHANGED nextID
               ELSE /\ reply' = "entered" /\ nextID' = nextID + 1
                    /\ active' = [rot.act EXCEPT ![r] =
                         [qname |-> x.qname, coarseKey |-> CoarseKey(x.qname, x.zone),
                          accountedAt |-> now]]
  BY Zenon DEF TryEnter
<1> DEFINE e == MaybeEvaluate(rot.ws, rot.act, now, rot.rotated, cpuHigh)
           a == [qname |-> x.qname, coarseKey |-> CoarseKey(x.qname, x.zone), accountedAt |-> now]
<1>2. /\ Ledger(rot.ws, rot.act, busy, now) /\ CurrentWindow(rot.ws).start = u
      /\ Running(rot.act) = Running(active) /\ rot.rotated \in BOOLEAN
      /\ windows # <<>> => /\ CurrentWindow(windows).start <= u
                           /\ ~rot.rotated => CurrentWindow(windows).start = u
  BY RotatedNow, Zenon
<1> HIDE DEF rot
<1>3. Settled(rot.act)
  BY <1>1, <1>2, EvaluatedSettles, Zenon
<1>4. ctl' = e.ctl
  BY <1>1, Zenon DEF Evaluated
<1>5. now' = now /\ active[r] = None
  BY Zenon DEF TryEnter
<1>6. CASE e.ctl.protected # None /\ IsSubDomain(e.ctl.protected, x.qname)
  <2>1. active' = rot.act
    BY <1>1, <1>6, Zenon
  <2> HIDE DEF e
  <2>2. Settled(active')
    BY <1>3, <2>1, Zenon
  <2>3. ctl'.protected # None
    BY <1>4, <1>6, Zenon
  <2> QED BY <1>5, <2>2, <2>3, SettledHotInv, Zenon
<1>7. CASE ~(e.ctl.protected # None /\ IsSubDomain(e.ctl.protected, x.qname))
  <2>1. active' = [rot.act EXCEPT ![r] = a] /\ reply' = "entered"
    BY <1>1, <1>7, Zenon
  <2> HIDE DEF e
  <2>2. a \in ActiveRequest /\ a.accountedAt = now /\ now \in Nat /\ WindowDuration \in Nat \ {0}
    <3>1. now \in Nat /\ WindowDuration \in Nat \ {0}
      BY HotZoneAssumption DEF HotInv
    <3>2. x.qname \in { y.qname : y \in Questions } /\ CoarseKey(x.qname, x.zone) \in Keys
      BY Zenon DEF Keys
    <3> QED BY <3>1, <3>2 DEF ActiveRequest
  <2>3. rot.act[r] = None
    <3>1. r \notin Running(rot.act)
      BY <1>2, <1>5, Zenon DEF Running
    <3> QED BY <3>1, Zenon DEF Running
  <2>4. now < CurrentWindow(windows').start + WindowDuration
    BY <1>3, <2>2, Truncated, Zenon DEF Settled
  <2> HIDE DEF a
  <2>5. Ledger(windows', rot.act, busy', now) /\ busy' \in [Starts -> Nat]
    BY <1>3, Zenon DEF Settled
  <2>6. Ledger(windows', [rot.act EXCEPT ![r] = a], busy', now)
    BY <2>2, <2>3, <2>4, <2>5, EnterLedger, Zenon
  <2>7. Settled(active')
    BY <1>3, <2>1, <2>6, Zenon DEF Settled
  <2>8. reply' # "refused"
    BY <2>1
  <2> QED BY <1>5, <2>7, <2>8, SettledHotInv, Zenon
<1> QED BY <1>6, <1>7, Zenon

LEMMA ReleaseKeeps ==
    ASSUME Counting, HotInv, NEW r \in Requests, Release(r)
    PROVE  HotInv' /\ Settled(active')
<1> DEFINE rot == Rotate(windows, active, now)
           u == Truncate(now)
           sampled == ReplaceCurrent(rot.ws, AddSamples(CurrentWindow(rot.ws), rot.act, {r}, now))
           left == [rot.act EXCEPT ![r] = None]
<1>1. PICK cpuHigh \in CPUReadings :
        Evaluated(MaybeEvaluate(sampled, left, now, rot.rotated, cpuHigh)) /\ active' = left
  BY Zenon DEF Release
<1>2. /\ Ledger(rot.ws, rot.act, busy, now) /\ CurrentWindow(rot.ws).start = u
      /\ Running(rot.act) = Running(active) /\ rot.rotated \in BOOLEAN
      /\ windows # <<>> => /\ CurrentWindow(windows).start <= u
                           /\ ~rot.rotated => CurrentWindow(windows).start = u
  BY RotatedNow, Zenon
<1> HIDE DEF rot
<1>3. now \in Nat /\ busy \in [Starts -> Nat]
  BY HotZoneAssumption DEF HotInv
<1>4. now < u + WindowDuration
  BY <1>3, Truncated, Zenon
<1>5. r \in Running(rot.act)
  BY <1>2, Zenon DEF Release, Running
<1>6. now < CurrentWindow(rot.ws).start + WindowDuration
  BY <1>2, <1>4, Zenon
<1>7. Ledger(sampled, left, busy, now) /\ CurrentWindow(sampled).start = CurrentWindow(rot.ws).start
  <2>1. Ledger(rot.ws, rot.act, busy, now)
    BY <1>2, Zenon
  <2> QED BY <1>3, <1>5, <1>6, <2>1, ReleaseLedger, ZenonT(60)
<1> HIDE DEF sampled, left
<1>8. CurrentWindow(sampled).start = u
  BY <1>2, <1>7, Zenon
<1>9. Settled(left)
  BY <1>1, <1>2, <1>7, <1>8, EvaluatedSettles, Zenon
<1>10. Settled(active') /\ now' = now /\ reply' # "refused"
  <2>1. now' = now /\ reply' = None
    BY Zenon DEF Release
  <2> QED BY <1>1, <1>9, <2>1, HotZoneAssumption, Zenon
<1> QED BY <1>10, SettledHotInv, Zenon

LEMMA TickKeeps ==
    ASSUME Counting, HotInv, Tick
    PROVE  HotInv'
<1>1. /\ now < MaxTime /\ now' = now + 1 /\ reply' = None
      /\ busy' = [busy EXCEPT ![Truncate(now)] = @ + Cardinality(Running(active))]
      /\ UNCHANGED <<active, windows, lastEvalAt, ctl, pressed>>
  BY Zenon DEF Tick
<1>2. /\ now \in 0 .. MaxTime /\ now \in Nat /\ active \in Actives /\ busy \in [Starts -> Nat] /\ Control(ctl)
      /\ MaxTime \in Nat
  BY HotZoneAssumption DEF HotInv
<1>3. now' \in 0 .. MaxTime /\ now <= MaxTime
  BY <1>1, <1>2
<1>4. Cardinality(Running(active)) \in Nat
  <2>1. Running(active) \subseteq Requests
    BY Zenon DEF Running
  <2> QED BY <2>1, HotZoneAssumption, FiniteSubset, CardinalityTyped, Zenon
<1> DEFINE c == Cardinality(Running(active))
           b == Truncate(now)
<1>5. busy' \in [Starts -> Nat] /\ \A s \in Starts : busy'[s] = busy[s] \/ busy'[s] = busy[s] + c
  <2>1. \A s \in Starts : busy'[s] = IF s = b THEN busy[s] + c ELSE busy[s]
    BY <1>1, <1>2, Zenon
  <2>2. busy' = [s \in Starts |-> busy'[s]]
    BY <1>1, <1>2, Zenon
  <2> HIDE DEF c, b
  <2>3. \A s \in Starts : busy[s] \in Nat
    BY <1>2, Zenon
  <2>4. ASSUME NEW s \in Starts PROVE busy'[s] \in Nat
    <3>1. busy[s] + c \in Nat
      BY <1>4, <2>3 DEF c
    <3> QED BY <2>1, <2>3, <3>1, Zenon
  <2>5. busy' \in [Starts -> Nat]
    BY <2>2, <2>4, Zenon
  <2> QED BY <2>1, <2>5, Zenon
<1>6. active' \in Actives /\ Control(ctl') /\ IdleNeverRefuses'
  <2>1. reply' # "refused"
    BY <1>1, HotZoneAssumption, Zenon
  <2> QED BY <1>1, <1>2, <2>1, Zenon DEF IdleNeverRefuses
<1>7. CASE windows = <<>>
  <2>1. Unused
    BY <1>7, Zenon DEF HotInv
  <2>2. c = 0
    <3>1. Running(active) = {}
      BY <2>1, Zenon DEF Running, Unused
    <3> QED BY <3>1, CardinalityEmpty, Zenon
  <2>3. \A s \in Starts : busy'[s] = 0
    <3>1. 0 + 0 = 0
      OBVIOUS
    <3> QED BY <1>5, <2>1, <2>2, <3>1, Zenon DEF Unused
  <2>4. Unused'
    BY <1>1, <2>1, <2>3, Zenon DEF Unused
  <2> QED BY <1>1, <1>3, <1>5, <1>6, <1>7, <2>4, Zenon DEF HotInv
<1>8. CASE windows # <<>>
  <2>1. /\ Ledger(windows, active, busy, now) /\ Streak(ctl, pressed, CurrentWindow(windows).start)
        /\ ctl.protected # None => busy[CurrentWindow(windows).start] > 0
    BY <1>8, Zenon DEF HotInv, Used
  <2>2. Ledger(windows, active, busy', now + 1)
    BY <1>1, <1>2, <1>3, <2>1, TickLedger, Zenon
  <2>3. ctl.protected # None => busy'[CurrentWindow(windows).start] > 0
    <3> DEFINE s == CurrentWindow(windows).start
    <3>1. s \in Starts
      BY <1>2, <2>1, LedgerFacts, Zenon
    <3>2. busy[s] \in Nat /\ (busy'[s] = busy[s] \/ busy'[s] = busy[s] + c)
      BY <1>2, <1>5, <3>1, Zenon
    <3> HIDE DEF s, c
    <3>3. busy[s] > 0 => busy'[s] > 0
      BY <1>4, <3>2 DEF c
    <3> QED BY <2>1, <3>3, Zenon DEF s
  <2>4. Used'
    BY <1>1, <2>1, <2>2, <2>3, Zenon DEF Used
  <2> QED BY <1>1, <1>3, <1>5, <1>6, <1>8, <2>4, Zenon DEF HotInv
<1> QED BY <1>7, <1>8, Zenon

LEMMA HotInvInit ==
    ASSUME HotInit
    PROVE  HotInv
<1>1. /\ now = 0 /\ windows = <<>> /\ lastEvalAt = None /\ reply = None
      /\ active = [r \in Requests |-> None] /\ busy = [s \in Starts |-> 0] /\ pressed = None
      /\ ctl = [observe |-> FALSE, protected |-> None, candidate |-> None, streak |-> 0,
                lastWindow |-> None, normalAvg |-> 0, baseline |-> 0]
  BY Zenon DEF HotInit
<1>2. now \in 0 .. MaxTime
  BY <1>1, HotZoneAssumption
<1>3. active \in Actives /\ \A r \in Requests : active[r] = None
  BY <1>1, Zenon DEF Actives
<1>4. 0 \in Nat
  OBVIOUS
<1>5. busy \in [Starts -> Nat] /\ \A s \in Starts : busy[s] = 0
  BY <1>1, <1>4, Zenon
<1>6. Control(ctl) /\ ~ctl.observe
  BY <1>1 DEF Control
<1>7. IdleNeverRefuses
  BY <1>1, HotZoneAssumption, Zenon DEF IdleNeverRefuses
<1> QED BY <1>1, <1>2, <1>3, <1>5, <1>6, <1>7, Zenon DEF HotInv, Unused

LEMMA HotInvStep ==
    ASSUME Counting, HotInv, [HotNext]_hotVars
    PROVE  HotInv'
<1>1. CASE UNCHANGED hotVars
  BY <1>1, Zenon DEF hotVars, HotInv, Used, Unused, IdleNeverRefuses
<1>2. ASSUME NEW r \in Requests, NEW x \in Questions, TryEnter(r, x) PROVE HotInv'
  BY <1>2, TryEnterKeeps, Zenon
<1>3. ASSUME NEW r \in Requests, Release(r) PROVE HotInv'
  BY <1>3, ReleaseKeeps, Zenon
<1>4. CASE Tick
  BY <1>4, TickKeeps, Zenon
<1> QED BY <1>1, <1>2, <1>3, <1>4, Zenon DEF HotNext

\* Protection begins only in a step that ends a streak of pressure.
Sparing ==
    ctl.protected = None /\ ctl'.protected # None =>
        /\ pressed' # None
        /\ CurrentWindow(windows').start - pressed' >= (ConfirmWindows - 1) * WindowDuration

LEMMA StepSpares ==
    ASSUME Counting, HotInv, HotNext
    PROVE  Sparing
<1>1. Settled(active') => Sparing
  BY Zenon DEF Settled, Sparing
<1>2. ASSUME NEW r \in Requests, NEW x \in Questions, TryEnter(r, x) PROVE Sparing
  BY <1>1, <1>2, TryEnterKeeps, Zenon
<1>3. ASSUME NEW r \in Requests, Release(r) PROVE Sparing
  BY <1>1, <1>3, ReleaseKeeps, Zenon
<1>4. Tick => Sparing
  BY Zenon DEF Tick, Sparing
<1> QED BY <1>2, <1>3, <1>4, Zenon DEF HotNext

-----------------------------------------------------------------------------
(* The theorems *)

INSTANCE FiniteSetTheorems

LEMMA CountingHolds == Counting
<1>1. ASSUME NEW S, NEW T, IsFiniteSet(S), T \subseteq S PROVE IsFiniteSet(T)
  BY <1>1, FS_Subset, Zenon
<1>2. ASSUME NEW S, IsFiniteSet(S) PROVE Cardinality(S) \in Nat
  BY <1>2, FS_CardinalityType, Zenon
<1>3. Cardinality({}) = 0
  BY FS_EmptySet, Zenon
<1>4. ASSUME NEW a \in Int, NEW b \in Int PROVE IsFiniteSet(a .. b)
  BY FS_Interval, Zenon
<1>5. ASSUME NEW S, NEW T, IsFiniteSet(S), IsFiniteSet(T)
      PROVE  IsFiniteSet(S \X T) /\ Cardinality(S \X T) = Cardinality(S) * Cardinality(T)
  BY <1>5, FS_Product, Zenon
<1>6. ASSUME NEW S, NEW T, IsFiniteSet(S), IsFiniteSet(T), S \cap T = {}
      PROVE  Cardinality(S \cup T) = Cardinality(S) + Cardinality(T)
  <2>1. Cardinality(S) \in Nat /\ Cardinality(T) \in Nat
    BY <1>6, FS_CardinalityType, Zenon
  <2>2. Cardinality(S \cup T) = Cardinality(S) + Cardinality(T) - Cardinality(S \cap T)
    BY <1>6, FS_Union, Zenon
  <2>3. Cardinality(S \cap T) = 0
    BY <1>3, <1>6, Zenon
  <2> QED BY <2>1, <2>2, <2>3
<1>7. ASSUME NEW x PROVE IsFiniteSet({x}) /\ Cardinality({x}) = 1
  BY FS_Singleton, Zenon
<1>8. ASSUME NEW S, 0 \in S, \A n \in Nat : n \in S => n + 1 \in S PROVE Nat \subseteq S
  <2> SUFFICES ASSUME NEW z \in Nat, z \notin S PROVE FALSE
    BY Zenon
  <2> DEFINE T == {n \in Nat : n \notin S}
             R == {ss \in Nat \X Nat : ss[1] < ss[2]}
  <2>1. IsWellFoundedOn(R, Nat)
    BY NatLessThanWellFounded, Zenon DEF OpToRel
  <2>2. T \subseteq Nat /\ T # {}
    BY Zenon
  <2>3. PICK m \in T : \A y \in T : ~(<<y, m>> \in R)
    <3> HIDE DEF R, T
    <3> QED BY <2>1, <2>2, WFMin, Zenon
  <2>4. m \in Nat /\ m \notin S /\ m # 0
    BY <1>8, Zenon
  <2>5. m - 1 \in Nat /\ m - 1 < m /\ (m - 1) + 1 = m
    BY <2>4
  <2>6. m - 1 \notin S
    BY <1>8, <2>4, <2>5, Zenon
  <2>7. <<m - 1, m>> \in R /\ m - 1 \in T
    BY <2>4, <2>5, <2>6, Zenon
  <2> QED BY <2>3, <2>7, Zenon
<1> QED BY <1>1, <1>2, <1>3, <1>4, <1>5, <1>6, <1>7, <1>8, Zenon DEF Counting

\* Every second on the expensive path is counted once (rotateLocked,
\* addSampleSegmentLocked, Release): in every reachable state a window's sum and
\* what is still to be added to it are the request-seconds spent in it, for any
\* requests, names, window length and number of windows kept.
THEOREM OccupancyExact == HotSpec => []GlobalIsOccupancy
<1>1. HotInv => GlobalIsOccupancy
  BY Zenon DEF HotInv, Used, Ledger, Booked, GlobalIsOccupancy
<1>2. HotInit => HotInv
  BY HotInvInit, Zenon
<1>3. HotInv /\ [HotNext]_hotVars => HotInv'
  BY CountingHolds, HotInvStep, Zenon
<1> QED BY <1>1, <1>2, <1>3, PTL DEF HotSpec

\* TryEnter refuses a request only in a window in which the expensive path was in
\* use, however long ago protection began: the evaluation that precedes the refusal
\* leaves protection when the average is back at the baseline.
THEOREM IdleServed == HotSpec => []IdleNeverRefuses
<1>1. HotInv => IdleNeverRefuses
  BY Zenon DEF HotInv
<1>2. HotInit => HotInv
  BY HotInvInit, Zenon
<1>3. HotInv /\ [HotNext]_hotVars => HotInv'
  BY CountingHolds, HotInvStep, Zenon
<1> QED BY <1>1, <1>2, <1>3, PTL DEF HotSpec

\* evaluateLocked begins protection only when every evaluation found pressure since
\* a window ConfirmWindows - 1 windows ago, for any length of the windows, also when
\* windows pass without an evaluation.
THEOREM BurstsAreSpared == HotSpec => BurstsSpared
<1>1. HotInit => HotInv
  BY HotInvInit, Zenon
<1>2. HotInv /\ [HotNext]_hotVars => HotInv'
  BY CountingHolds, HotInvStep, Zenon
<1>3. HotInv /\ [HotNext]_hotVars => [Sparing]_hotVars
  BY CountingHolds, StepSpares, Zenon
<1> QED BY <1>1, <1>2, <1>3, PTL DEF HotSpec, BurstsSpared, Sparing
=============================================================================

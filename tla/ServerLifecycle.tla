---------------------------- MODULE ServerLifecycle ----------------------------
(* The life of the process (cmd/rec53.go, server/server.go, server/warmup.go,
   monitor/runtime_state.go): configuration, start of the listeners and the
   background goroutines, warmup, readiness, and shutdown.

   The goroutines are the main one, one per listener (a dns.Server of the DNS
   library, which is external), the handlers, the warmup with its queries, the
   XDP loops, the probe loop, and the one that closes errChan. *)
EXTENDS Integers, FiniteSets

CONSTANTS
    Configs,             \* the configurations considered, see ConfigType
    DefaultConcurrency,  \* warmup concurrency when none is configured
    DefaultTLDs          \* number of domains of the curated list: 30

VARIABLES
    config,
    pc,          \* where the main goroutine is
    at,          \* the listener Shutdown is at
    listener,    \* state of each listener's goroutine
    open,        \* listeners whose dns.Server is started
    skipped,     \* history: listeners Shutdown found not started
    handling,    \* listeners with a handler running
    notified,    \* udpReady and tcpReady: the kinds of listener closed so far
    errors,      \* errors sent to errChan and startupErr
    errClosed,   \* errChan is closed
    warm,        \* the warmup: [pc, todo, running]
    late,        \* the warmup's context is done
    runtime,     \* runtimeState: [ready, phase, warmupDone]
    sawDone,     \* warmupDone as SetRuntimeServingPhase read it
    xdp,         \* XDP program attached
    loops,       \* XDP metrics and cleanup loops running
    cancelled,   \* the XDP loops' context is cancelled
    probe,       \* the probe loop: "off", "running", "stopping" or "done"
    expired,     \* the shutdown context's 5 s are over
    saved        \* the snapshot was written

lvars == <<listener, open, handling, notified, errors>>
wvars == <<warm, late>>
xvars == <<xdp, loops, cancelled>>
vars == <<config, pc, at, lvars, skipped, errClosed, wvars, runtime, sawDone, xvars,
          probe, expired, saved>>

(* A configuration: the settings whose text does not parse or is out of range,
   and the settings that decide what runs. *)
Settings == {"listen", "metric", "log_level", "timeouts", "limits", "xdp", "pprof",
             "hosts", "forwarding"}
ConfigType ==
    [wrong : SUBSET Settings, trace : BOOLEAN, listeners : Int, warmup : BOOLEAN,
     concurrency : Int, tlds : Nat, xdp : BOOLEAN, snapshot : BOOLEAN]

ASSUME LifecycleAssumption ==
    /\ Configs \subseteq ConfigType
    /\ DefaultConcurrency \in Nat \ {0}
    /\ DefaultTLDs \in Nat

LoadTLDList(tlds) == IF tlds > 0 THEN tlds ELSE DefaultTLDs

(* loadConfig: the defaults. *)
LoadConfig(c) ==
    [c EXCEPT !.tlds = LoadTLDList(@),
              !.concurrency = IF @ = 0 THEN DefaultConcurrency ELSE @]

(* validateConfig: every setting but the warmup's concurrency and TLDs. *)
validateHostsConfig(c) == "hosts" \notin c.wrong
validateForwardingConfig(c) == "forwarding" \notin c.wrong
validateConfig(c) ==
    /\ c.wrong \subseteq {"hosts", "forwarding"}
    /\ c.listeners >= 0
    /\ validateHostsConfig(c)
    /\ validateForwardingConfig(c)

Pairs(c) == IF c.listeners < 1 THEN 1 ELSE c.listeners
Kinds == {"udp", "tcp"}
Slots == Kinds \X UNION { 1 .. Pairs(c) : c \in Configs }
Listeners == { l \in Slots : l[2] <= Pairs(config) }

(* The order in which Shutdown stops the listeners, and its end. *)
First == <<"udp", 1>>
Finished == <<"end", 0>>
After(l) ==
    IF l[2] < Pairs(config) THEN <<l[1], l[2] + 1>>
    ELSE IF l[1] = "udp" THEN <<"tcp", 1>> ELSE Finished

ShuttingDown == pc \in {"closing", "draining", "pool", "detach", "snapshot", "ended"}

Init ==
    /\ config \in { LoadConfig(c) : c \in Configs }
    /\ pc = "start" /\ at = First
    /\ listener = [l \in Slots |-> "off"]
    /\ open = {} /\ skipped = {} /\ handling = {} /\ notified = {} /\ errors = 0
    /\ errClosed = FALSE
    /\ warm = [pc |-> "off", todo |-> 0, running |-> 0] /\ late = FALSE
    /\ runtime = [ready |-> FALSE, phase |-> "cold-start", warmupDone |-> FALSE]
    /\ sawDone = FALSE
    /\ xdp = "none" /\ loops = 0 /\ cancelled = FALSE
    /\ probe = "off" /\ expired = FALSE /\ saved = FALSE

-----------------------------------------------------------------------------
(* The main goroutine, up to Run. *)

(* A bad configuration ends the process; so does a traced resolution. *)
Configure ==
    /\ pc = "start"
    /\ pc' = IF ~validateConfig(config) \/ config.trace THEN "exited" ELSE "configured"
    /\ UNCHANGED <<config, at, lvars, skipped, errClosed, wvars, runtime, sawDone, xvars,
                   probe, expired, saved>>

(* Native mode, generic mode, or degraded to the Go cache. *)
LoadAndAttach(c) == IF c.xdp THEN {"native", "generic", "none"} ELSE {"none"}

Run ==
    /\ pc = "configured"
    /\ pc' = "starting"
    /\ probe' = "running"
    /\ xdp' \in LoadAndAttach(config)
    /\ loops' = IF xdp' = "none" THEN 0 ELSE 2
    /\ warm' = IF config.warmup THEN [pc |-> "started", todo |-> 0, running |-> 0] ELSE warm
    /\ listener' = [l \in Slots |-> IF l \in Listeners THEN "new" ELSE "off"]
    /\ UNCHANGED <<config, at, open, skipped, handling, notified, errors, errClosed, late,
                   runtime, sawDone, cancelled, expired, saved>>

(* Run returns without having been ready when a listener fails first. *)
StartupFailed ==
    /\ pc = "starting" /\ errors > 0
    /\ pc' = "running"
    /\ UNCHANGED <<config, at, lvars, skipped, errClosed, wvars, runtime, sawDone, xvars,
                   probe, expired, saved>>

(* SetRuntimeServingPhase reads warmupDone, lets go of the lock, and sets the phase. *)
ReadWarmupDone ==
    /\ pc = "starting" /\ notified = Kinds
    /\ pc' = "ready" /\ sawDone' = runtime.warmupDone
    /\ UNCHANGED <<config, at, lvars, skipped, errClosed, wvars, runtime, xvars, probe,
                   expired, saved>>

SetRuntimeServingPhase ==
    /\ pc = "ready"
    /\ pc' = "running"
    /\ runtime' = [runtime EXCEPT !.ready = TRUE,
                     !.phase = IF config.warmup /\ ~sawDone THEN "warming" ELSE "steady"]
    /\ UNCHANGED <<config, at, lvars, skipped, errClosed, wvars, sawDone, xvars, probe,
                   expired, saved>>

-----------------------------------------------------------------------------
(* A listener: ListenAndServe of the DNS library. *)

Bind(l) ==
    /\ listener[l] = "new"
    /\ listener' = [listener EXCEPT ![l] = "bound"]
    /\ open' = open \cup {l}
    /\ UNCHANGED <<config, pc, at, skipped, handling, notified, errors, errClosed, wvars,
                   runtime, sawDone, xvars, probe, expired, saved>>

BindFails(l) ==
    /\ listener[l] = "new"
    /\ listener' = [listener EXCEPT ![l] = "done"]
    /\ errors' = errors + 1
    /\ UNCHANGED <<config, pc, at, open, skipped, handling, notified, errClosed, wvars,
                   runtime, sawDone, xvars, probe, expired, saved>>

(* NotifyStartedFunc: the first of each kind closes the ready channel. *)
Notify(l) ==
    /\ listener[l] = "bound"
    /\ listener' = [listener EXCEPT ![l] = "serving"]
    /\ notified' = notified \cup {l[1]}
    /\ UNCHANGED <<config, pc, at, open, skipped, handling, errors, errClosed, wvars,
                   runtime, sawDone, xvars, probe, expired, saved>>

Query(l) ==
    /\ listener[l] = "serving" /\ l \in open /\ l \notin handling
    /\ handling' = handling \cup {l}
    /\ UNCHANGED <<config, pc, at, listener, open, skipped, notified, errors, errClosed,
                   wvars, runtime, sawDone, xvars, probe, expired, saved>>

Answer(l) ==
    /\ l \in handling
    /\ handling' = handling \ {l}
    /\ UNCHANGED <<config, pc, at, listener, open, skipped, notified, errors, errClosed,
                   wvars, runtime, sawDone, xvars, probe, expired, saved>>

ServeFails(l) ==
    /\ listener[l] = "serving" /\ l \in open
    /\ listener' = [listener EXCEPT ![l] = "failing"]
    /\ UNCHANGED <<config, pc, at, open, skipped, handling, notified, errors, errClosed,
                   wvars, runtime, sawDone, xvars, probe, expired, saved>>

(* ListenAndServe returns, when its handlers have. *)
Return(l) ==
    /\ \/ listener[l] = "failing" /\ errors' = errors + 1
       \/ listener[l] = "serving" /\ l \notin open /\ UNCHANGED errors
    /\ l \notin handling
    /\ listener' = [listener EXCEPT ![l] = "done"]
    /\ UNCHANGED <<config, pc, at, open, skipped, handling, notified, errClosed, wvars,
                   runtime, sawDone, xvars, probe, expired, saved>>

-----------------------------------------------------------------------------
(* The warmup. *)

(* A negative concurrency panics in make(chan); the panic is recovered. *)
StartWarmup ==
    /\ warm.pc = "started"
    /\ warm' = IF config.concurrency < 0 THEN [warm EXCEPT !.pc = "done"]
               ELSE [pc |-> "querying", todo |-> 1 + config.tlds, running |-> 0]
    /\ UNCHANGED <<config, pc, at, lvars, skipped, errClosed, late, runtime, sawDone, xvars,
                   probe, expired, saved>>

(* The next domain takes a slot of the semaphore, or is skipped. *)
WarmupDomain ==
    /\ warm.pc = "querying" /\ warm.todo > 0
    /\ \/ /\ warm.running < config.concurrency
          /\ warm' = [warm EXCEPT !.todo = @ - 1, !.running = @ + 1]
       \/ /\ late
          /\ warm' = [warm EXCEPT !.todo = @ - 1]
    /\ UNCHANGED <<config, pc, at, lvars, skipped, errClosed, late, runtime, sawDone, xvars,
                   probe, expired, saved>>

WarmupQueryEnds ==
    /\ warm.running > 0
    /\ warm' = [warm EXCEPT !.running = @ - 1]
    /\ UNCHANGED <<config, pc, at, lvars, skipped, errClosed, late, runtime, sawDone, xvars,
                   probe, expired, saved>>

\* Fault: steady whether or not the server is ready.
MarkSteadyAlways(rt) == [rt EXCEPT !.warmupDone = TRUE, !.phase = "steady"]

MarkRuntimeWarmupComplete(rt) ==
    [rt EXCEPT !.warmupDone = TRUE,
               !.phase = IF rt.ready /\ rt.phase = "warming" THEN "steady" ELSE @]

WarmupComplete ==
    /\ warm.pc = "querying" /\ warm.todo = 0 /\ warm.running = 0
    /\ warm' = [warm EXCEPT !.pc = "done"]
    /\ runtime' = MarkRuntimeWarmupComplete(runtime)
    /\ UNCHANGED <<config, pc, at, lvars, skipped, errClosed, late, sawDone, xvars, probe,
                   expired, saved>>

WarmupDeadline ==
    /\ warm.pc = "querying" /\ ~late
    /\ late' = TRUE
    /\ UNCHANGED <<config, pc, at, lvars, skipped, errClosed, warm, runtime, sawDone, xvars,
                   probe, expired, saved>>

-----------------------------------------------------------------------------
(* The other goroutines. *)

XDPLoopEnds ==
    /\ loops > 0 /\ cancelled
    /\ loops' = loops - 1
    /\ UNCHANGED <<config, pc, at, lvars, skipped, errClosed, wvars, runtime, sawDone, xdp,
                   cancelled, probe, expired, saved>>

ProbeLoopEnds ==
    /\ probe = "stopping"
    /\ probe' = "done"
    /\ UNCHANGED <<config, pc, at, lvars, skipped, errClosed, wvars, runtime, sawDone, xvars,
                   expired, saved>>

\* Fault: the warmup is not in the WaitGroup.
WaitGroupWithoutWarmup ==
    /\ \A l \in Listeners : listener[l] = "done"
    /\ loops = 0

(* What the server's WaitGroup waits for. *)
WaitGroupDone ==
    /\ \A l \in Listeners : listener[l] = "done"
    /\ warm.pc \in {"off", "done"}
    /\ loops = 0

CloseErrChan ==
    /\ WaitGroupDone /\ ~errClosed
    /\ errClosed' = TRUE
    /\ UNCHANGED <<config, pc, at, lvars, skipped, wvars, runtime, sawDone, xvars, probe,
                   expired, saved>>

-----------------------------------------------------------------------------
(* Shutdown, in the main goroutine. *)

\* Fault: the XDP loops are not cancelled.
BeginShutdownKeepsLoops ==
    /\ pc' = "closing"
    /\ runtime' = [runtime EXCEPT !.ready = FALSE, !.phase = "shutting-down"]
    /\ late' = TRUE
    /\ UNCHANGED <<config, at, lvars, skipped, errClosed, warm, sawDone, xvars, probe,
                   expired, saved>>

(* waitForSignal returns on a signal or on an error; Shutdown marks the state and
   cancels the contexts. *)
BeginShutdown ==
    /\ pc' = "closing"
    /\ runtime' = [runtime EXCEPT !.ready = FALSE, !.phase = "shutting-down"]
    /\ late' = TRUE /\ cancelled' = TRUE
    /\ UNCHANGED <<config, at, lvars, skipped, errClosed, warm, sawDone, xdp, loops, probe,
                   expired, saved>>

Signal == pc = "running" /\ BeginShutdown
ServerError == pc = "running" /\ (errors > 0 \/ errClosed) /\ BeginShutdown

(* ShutdownContext of the DNS library: an error if the server is not started. *)
CloseListener ==
    /\ pc = "closing" /\ at # Finished
    /\ \/ /\ at \in open
          /\ open' = open \ {at} /\ pc' = "draining"
          /\ UNCHANGED <<at, skipped>>
       \/ /\ at \notin open
          /\ skipped' = skipped \cup {at} /\ at' = After(at)
          /\ UNCHANGED <<open, pc>>
    /\ UNCHANGED <<config, listener, handling, notified, errors, errClosed, wvars, runtime,
                   sawDone, xvars, probe, expired, saved>>

ListenerClosed ==
    /\ pc = "draining"
    /\ listener[at] = "done" \/ expired
    /\ pc' = "closing" /\ at' = After(at)
    /\ UNCHANGED <<config, lvars, skipped, errClosed, wvars, runtime, sawDone, xvars, probe,
                   expired, saved>>

(* wg.Wait has no deadline. *)
AwaitGoroutines ==
    /\ pc = "closing" /\ at = Finished
    /\ WaitGroupDone
    /\ pc' = "pool" /\ probe' = "stopping"
    /\ UNCHANGED <<config, at, lvars, skipped, errClosed, wvars, runtime, sawDone, xvars,
                   expired, saved>>

PoolStopped ==
    /\ pc = "pool"
    /\ probe = "done" \/ expired
    /\ pc' = "detach"
    /\ UNCHANGED <<config, at, lvars, skipped, errClosed, wvars, runtime, sawDone, xvars,
                   probe, expired, saved>>

DetachXDP ==
    /\ pc = "detach"
    /\ pc' = "snapshot" /\ xdp' = "none"
    /\ UNCHANGED <<config, at, lvars, skipped, errClosed, wvars, runtime, sawDone, loops,
                   cancelled, probe, expired, saved>>

(* The write may fail; that is logged. *)
SaveSnapshot ==
    /\ pc = "snapshot"
    /\ pc' = "ended"
    /\ saved' \in IF config.snapshot THEN BOOLEAN ELSE {FALSE}
    /\ UNCHANGED <<config, at, lvars, skipped, errClosed, wvars, runtime, sawDone, xvars,
                   probe, expired>>

Expire ==
    /\ ShuttingDown /\ pc # "ended" /\ ~expired
    /\ expired' = TRUE
    /\ UNCHANGED <<config, pc, at, lvars, skipped, errClosed, wvars, runtime, sawDone, xvars,
                   probe, saved>>

-----------------------------------------------------------------------------
Main ==
    \/ Configure \/ Run \/ StartupFailed \/ ReadWarmupDone \/ SetRuntimeServingPhase
    \/ ServerError \/ CloseListener \/ ListenerClosed \/ AwaitGoroutines \/ PoolStopped
    \/ DetachXDP \/ SaveSnapshot

Warmup == StartWarmup \/ WarmupDomain \/ WarmupQueryEnds \/ WarmupComplete

Next ==
    \/ Main \/ Signal \/ Warmup \/ WarmupDeadline
    \/ \E l \in Listeners :
          \/ Bind(l) \/ BindFails(l) \/ Notify(l) \/ Query(l) \/ Answer(l)
          \/ ServeFails(l) \/ Return(l)
    \/ XDPLoopEnds \/ ProbeLoopEnds \/ CloseErrChan \/ Expire

Spec == Init /\ [][Next]_vars

(* Goroutines run, binding ends, a handler's resolution is bounded by its limits
   and timeouts, deadlines pass.  No signal and no failure is promised. *)
FairSpec ==
    /\ Spec
    /\ WF_vars(Main) /\ WF_vars(Warmup) /\ WF_vars(WarmupDeadline)
    /\ \A l \in Slots :
          /\ WF_vars((Bind(l) \/ BindFails(l) \/ Notify(l) \/ Return(l)))
          /\ WF_vars(Answer(l))
    /\ WF_vars(XDPLoopEnds) /\ WF_vars(ProbeLoopEnds)
    /\ WF_vars(Expire)

-----------------------------------------------------------------------------
(* A listener that started after Shutdown had found it not started: nothing
   stops it any more. *)
Stranded == \E l \in skipped : l \in open

(* The readiness probe tells the truth about the goroutines it does not know:
   ready from when a listener of each kind is bound until shutdown begins, steady
   only once no warmup query is in flight, shutting down for good. *)
PhaseTruthful ==
    /\ runtime.ready => /\ notified = Kinds /\ ~ShuttingDown
                        /\ runtime.phase \in {"warming", "steady"}
    /\ runtime.phase = "steady" => warm.pc \in {"off", "done"} /\ ~ShuttingDown
    /\ ShuttingDown <=> runtime.phase = "shutting-down"

(* When the snapshot is written no handler and no warmup query, which store in the
   cache, is running, although the shutdown context may be long over; and no XDP
   program outlives the process. *)
QuietAtSnapshot ==
    pc \in {"snapshot", "ended"} =>
        /\ handling = {} /\ warm.running = 0
        /\ \A l \in Listeners : listener[l] = "done"
        /\ xdp = "none" /\ loops = 0

(* Shutdown ends, whatever the handlers, the warmup, the loops and the errors of
   listeners do at the time, unless a listener was stranded. *)
ShutdownEnds == ShuttingDown ~> (pc = "ended" \/ Stranded)
=============================================================================

# rec53 in TLA+

Specifications, model-checking configurations and proofs for rec53, a recursive DNS resolver in Go. The
modules are translated from the code under `src/`; each definition that stands for code names its lines in
`PROJECT.json` ("map"). The same file lists the runs, the faults that show each property can fail
("mutants"), the hazards of the code and the disagreements with its documents ("findings").

## The system

A client's query reaches `ServeDNS` (`server/server.go`), which runs the state machine `Change`
(`server/state_machine.go`): INIT, HOSTS_LOOKUP, FORWARD_LOOKUP, CACHE_LOOKUP, then round the loop
CLASSIFY_RESP, EXTRACT_GLUE, LOOKUP_NS_CACHE, QUERY_UPSTREAM until RETURN_RESP. Requests run concurrently
and share the cache, the pool of server qualities, the upstream gate and the limiters.

| Part | State | What is hard | Module |
| --- | --- | --- | --- |
| State machine (`state_*.go`) | question, response, alias chain, iterations | stale delegations across aliases, loops, error paths | Resolver |
| Sub-queries (`resolveNSIPsConcurrently`) | semaphore, result channel, context | cancellation races, nesting, work nobody waits for | Resolver |
| Upstream gate | `inflight` under a lock | stale look before acquire, losers of races keep slots | UpstreamGate |
| Happy Eyeballs | racers, channel, quality records | slot hand-over, blame, stranded receivers | HappyEyeballs |
| Expensive-request limiter | holder per request, counter per client | lock dropped between look and fill | ExpensiveLimiter |
| Hot-zone protection | windows, tickets, protected zone | windows advance only with traffic | HotZone |
| Cache, BPF map, snapshot | message per key with lifetime, three times | lifetimes renewed or mixed, entries replaced, restarts | DnsCache, LeaseCache |
| IP pool and quality | samples, failures, state per address | narrow counters, probe and prune races | IPPool |
| Life cycle, runtime state, warmup | phase, readiness, listeners, goroutines | check-then-act on the phase, waits without deadline | ServerLifecycle |
| Dashboard `rec53top` (`tui`), a separate program | last good scrape, dashboard shown, operator's place | restarts of the scraped process, failed scrapes, keys between draws | Dashboard |
| Servers and forwarders | | | DnsWorld (external) |

What the code should guarantee: every request is answered and answered correctly; nothing untrue enters the
cache, and nothing outlives its lifetime there; one request's failure or alias does not spoil another's;
slots and tickets are counted exactly and bounded on every path; servers that were never asked are not
blamed, and those that fail are asked last but not for ever; readiness tells the truth; shutdown ends. The
dashboard accuses nobody without cause and misses no trouble it could have seen.

## Modules

**UpstreamGate** (`server/upstream_concurrency_gate.go`). The counter and its four methods; each runs under
the gate's lock and is one atomic step of its caller. `limit` is the normalised configured limit.

**HappyEyeballs** extends it with the gate's users: `queryHappyEyeballs`, the retry in
`queryUpstreamState.handle` and the loop of `forwardLookupState.handle`. A call's `pc` is the place in the
code between two calls of the gate or of the channel; `exch` says what each goroutine that can own a slot is
doing; `resultCh` is the buffered channel. `blamed` and `faulty` are the addresses a failure was recorded
for and those an exchange really failed at.

**ExpensiveLimiter** (`server/expensive_request_limiter.go`). One action per section under a lock of
`holder.TryAcquire` and `ReleaseIfHeld`, for a request's own goroutine and its sub-queries. The hot-zone
controller may admit or refuse anyone and hands out a ticket.

**HotZone** (`server/hot_zone_protection.go`). `TryEnter` and `Release` hold the controller's lock and are
one step each: rotating the windows (splitting the time requests have spent over every window that passed),
accounting, the evaluation of pressure, and the choice, confirmation, narrowing and release of the protected
zone. CPU usage is any reading. Averages are kept as scaled integers. `busy` and `pressed` are histories the
properties compare with: the request-seconds really spent in each window, and since when every evaluation
found pressure.

**DnsWorld** is external: the zones, records, delegations and servers the resolver talks to, and the ways a
server composes a reply (naming its zone's servers or not, with or without their addresses, following
aliases or not, with or without SOA). It also defines the right answer to every question. The world is
consistent and does not change (`WorldAssumption`): a name has one record of a type, standing for its
RRset, an alias has nothing else, and a zone's servers are hosts with an address.

**Resolver** extends it with `ServeDNS`, `Change`, all state handlers, the cache they share and the
sub-queries. A process is one run of `Change`: a client's, or a sub-query's for a server's address. One
action is one iteration of the loop; QUERY_UPSTREAM blocks and is split where it waits (for sub-queries, for
an exchange). Names are sequences of labels and addresses are host names. The limiter and the gate may
refuse at any time and any exchange may fail: `hindered` remembers the requests that met this. A reply is
its Rcode and its answer section. The name-server records of a zone are one element of an authority section.
`ResolverAssumption` asks one thing of the operator's configuration: where hosts entries or a forwarder give
an address to a name server of the world, it is that server's. A wrong one would be believed, by design.

**DnsCache** (`server/cache.go`, `xdp_sync.go`, `xdp_metrics.go`, `xdp/dns_cache.c`, `snapshot.go`) is the
cache against a clock, where Resolver only has entries that come and go. A message is reduced to what
decides lifetimes: the TTLs of its sections. `job` is a store in progress: `setCacheCopy` writes the Go cache
and then the BPF map, twice for a reply that has both an answer and a delegation, and other stores may
interleave. go-cache compares moments and the BPF map whole seconds, so a second has `Hz` moments. `Stop` is
an orderly shutdown with its snapshot, a failed save, or a crash; `Start` loads the file. A look-up and the
reply of the XDP program are one step.

**LeaseCache** is what a cache of DNS messages promises: a reply is covered by a live lease; a lease is
given only for a message that belongs under its key, and for no longer than its longest-lived record.
DnsCache maps its two caches to leases (`Lease`) and implements it (`ImplementsLeases`).

**IPPool** (`server/ip_pool.go`, `server/ip_pool_quality_v2.go`). One action per critical section: a query
ranks its candidates one by one, creates the missing records, asks, and records what its race
and its retry brought, one record at a time; the probe loop collects suspects, probes and applies; pruning. `failCount` and the
confidence keep their 8 bits. Ages are kept as far as the code tells them apart (a failure 5 s ago, a use
24 h ago).

**ServerLifecycle** (`cmd/rec53.go`, `server/server.go`, `server/warmup.go`, `monitor/runtime_state.go`,
`server/xdp_loader.go`). The main goroutine from the configuration to the end of `Shutdown`, one per
listener, handlers, the warmup with its queries, the XDP loops, the probe loop and the goroutine that closes
`errChan`. `runtime` changes lock by lock; `SetRuntimeServingPhase` reads `warmupDone` and sets the phase
in two critical sections. The listeners of the DNS library may fail to bind, fail while serving, or be bound
after `Shutdown` has looked at them.

**Dashboard** (`tui/app.go`, `dashboard.go`, `metrics.go`, `plain.go`). `ScraperStep` is the goroutine of
`Run` that waits for a tick or a refresh, scrapes, and hands an update to the drawing goroutine, which blocks
it until `Draw`; in plain mode it prints instead. The scraped process is reduced to how often each of its
`Happenings` occurred; a happening is the set of series the metric calls on one path through rec53 count, so
that a series' value is a sum over them. The panels keep the rules that decide their status, with the
thresholds of the code as integer comparisons; figures and wording are left out. `handleKey` has one action
per thing a key does. `gap`, and its copy in a snapshot, is a history: what really happened since the last
good scrape. A session (`Sessions`) bounds what happens in one run of the program. A scrape sees a happening
whole or not at all; a real scrape may fall between two of its counters.

The modules meet in these places. The limiter's tickets are HotZone's entries. Resolver's cache is DnsCache
without the clock: `Expire` there is any loss of an entry. Its choice of servers is free, so it includes any
ranking IPPool makes. A handler and a warmup query in ServerLifecycle are requests of Resolver, whose
`Answered` is the reason they end.

Definitions whose comment says "Fault" are variants of the definition that follows, as a slip in the code
would make it; no specification uses them.

## Runs

| Run | Shows |
| --- | --- |
| `gate` | Two calls and a forward on two slots: the counter is exact, at most `limit` exchanges run, losers of races leave a slot, only addresses that failed are blamed, a retry is turned away only by others, and under fairness every call and every racer ends: no receiver is stranded and no sender blocks. |
| `limiter` | Two requests of one client with two sub-queries each on two slots: slots and tickets are counted exactly, the client's limit holds, whoever goes on works under a held slot, a request is refused only because of others, and every request ends. |
| `limiter_one_slot` | A violation: sub-queries of one request may hold two slots at once (finding). |
| `resolver` | One request, any question of a small world, servers of three styles: the alias chain, the servers asked, the cache and the reply are right; unhindered requests resolve; every request is answered. |
| `resolver_shared` | Two requests over one cache that may lose an entry at any moment: the cache stays truthful, replies right, unhindered requests resolve. |
| `resolver_glue` | A violation: an answer that names the zone's servers without their addresses replaces the glued delegation, and an alias across zones ends in SERVFAIL on a cold cache (finding). |
| `cache` | Two resolutions store and renew while readers, the clock, both cleanups, crashes and restarts interleave: both caches implement LeaseCache; positive messages and delegations have an age bound; the map's expired entries are reclaimed. |
| `cache_stale_xdp` | A violation: the kernel answers with a message whose answer has expired, because the second store of the same reply syncs it with the delegation's TTL (finding). |
| `ippool` | Two queries and the probe loop over two addresses that come and go: a suspect is asked first only among suspects, no record is lost except to pruning, a suspect that answers again recovers. |
| `lifecycle` | Six configurations from start to the end of shutdown, with a signal or a failure at any moment: readiness and phase are true of the goroutines, the snapshot is written in quiet, shutdown ends unless a listener was stranded. |
| `hotzone` | Requests enter and leave two zones across four windows under any CPU readings: every second on the expensive path is counted once and in its window, protection needs pressure throughout enough windows, an idle resolver refuses nobody. |
| `dashboard` | rec53top, drawn and plain, watches a process that counts, restarts and is at times out of reach: a panel is DEGRADED only for something that went wrong since the last good scrape, restart or not; what goes wrong between two good scrapes of one life is shown however many scrapes fail in between; the operator's place survives every scrape; the dashboard recovers. |

**Bounds.** Two calls give every pair of places in `queryHappyEyeballs`; the second slot, the degraded path
and saturation all happen with two slots, and a third user comes from the forward. Two sub-queries of one
request are the least that race for a holder, and two requests the least that compete for a client's slots;
`MaxAsks = 2` lets a request ask again after an alias. The resolver's world has a glued zone, a glueless one
whose servers live in the other, aliases across zones, to a missing name and in a cycle: each is the
shortest instance of its kind. `MaxIterations` is the code's 50. `resolver_shared` gives the glueless zone one
server and lets one entry expire (`MaxExpiries`); `resolver` has two servers, sub-queries in parallel and in
series (`WorkerLimits`), and the background update, but no expiry.

`cache`: two moments to a second separate the two clocks; three seconds (`MaxTime = 6`) outlast an answer of
one second and let its delegation of three run to its end; two replies (`MaxReplies`) replace each other and
race; one restart (`MaxStops`). The messages are an answer that expires before its delegation, one of TTL 0 too
large for the BPF map, and a negative one. `ippool`: the thresholds 3 and 6 and the modulus 256 of
`failCount` are 1, 2 and 4, so that two queries reach the third phase and the wrap; the window is one sample;
each address has at most two records in turn (`MaxLives`), which one pruning needs. The proofs hold for the
code's numbers. `lifecycle`: two pairs of listeners (enough for one of a kind to be bound and the other not);
one pair with warmup, XDP and snapshot; a negative warmup concurrency, which panics and is recovered; hosts
that do not parse; a negative number of listeners; a traced resolution. One warmup domain and a semaphore of
one. `hotzone`: windows of two seconds, four of them (`MaxTime = 7`): three confirm a zone and one more lets it
act; three names in two zones, so that the protected zone may be narrowed to one child; two requests at a
time and three in all (`MaxID`). `Scale = 1` is exact, as an evaluation divides by one second only.
`dashboard`: the verdicts compare two snapshots, so two happenings (one before and one after a scrape, or two
kinds in one gap) and one restart meet every case of a difference; scrapes, failures and reachability are not
bounded. Two keys around one happening open a view and act in it while its status changes; four keys without
one reach every place of the screen. The five happenings touch every panel.

**Fairness.** Weak fairness for goroutines that can run, which Go's scheduler gives, and for exchanges,
whose client has a timeout of at least 100 ms. Nothing is assumed of clients. In `Resolver` one weak fairness
condition on all processes together suffices: it is weaker than one for each. `DnsCache`: the cleanup loop
runs on a ticker and deletes what it collected. `IPPool`: the loop's ticker fires, a probe ends within 3 s,
and 5 s pass; servers may come and go for ever, and `SuspectsRecover` speaks of one that stays.
`ServerLifecycle`: goroutines run, binding ends one way or the other, a handler ends (`Answered` in
`Resolver`), the warmup's and the shutdown's deadlines pass; no signal and no failure is promised.
`Dashboard`: the ticker fires, a scrape ends within its timeout, and the drawing goroutine draws what is
queued; the process may come and go for ever, and `Recovers` speaks of one that stays within reach.

**Deadlock** is checked in the runs of the gate, the limiter, the resolver, the cache and the pool; `Quiet`
in `Resolver` is the server waiting for more requests. `lifecycle` and `dashboard` end when their
process does, and the clock of `hotzone` stops at `MaxTime`: these three runs leave it out.

## Proofs

All theorems hold for every value of the constants that satisfies the module's named assumption; TLC
evaluates the assumptions in the runs. The type invariants of the gate and of the limiter are proved and
are therefore not among the properties of their runs.

**`HappyEyeballsProofs`** (`GateAssumption`, `CallsAssumption`: any limit, CPUs, finite sets of calls and
forwards, any number of upstreams). `TypeCorrect`: `Spec => []TypeOK`. `GateSafe`:
`Spec => [](SlotAccounting /\ GateBound /\ StragglersLeaveRoom)`. The counter's equality with the number of
slot owners is not inductive by itself: a release needs to know that the releasing goroutine owns a slot.
`LanesFollowPc` says which slots a goroutine owns at each place in the code, and is inductive with `TypeOK`.
`GateInv` is their conjunction with the three results. `SlotSteps` then reduces every action to one of three
effects on the counter and the owners (a slot joins, a slot leaves, nothing changes; two racers start
together), and `GateInvInductive` argues about cardinalities only. Stragglers leave room because a pair of
racers starts only on slots that both racers own, so each straggler takes the place of an owner that has left.
`GateBounded` and `StragglersBounded` state two of the three by themselves. `BlameSafe`:
`Spec => []NoUndeservedBlame`. A failure is recorded long after the exchange that is to blame, so the
invariant follows the outcome on its way: `RaceLeft` says which racers and which messages in the channel a
place in the code leaves possible, and `BlameDeserved` that every bad outcome in a racer's hands, in the
channel or in the winner's answer is a fault of that address. `OnlyOthersTurnAway`:
`Spec => TurnedAwayByOthers`, an action property: when a call is turned away the counter is at the limit, the
counter is exact, and the place of the call bounds what it owns itself.

**`ExpensiveLimiterProofs`** (`LimiterAssumption`: any limit, finite numbers of requests, clients and
sub-queries). `LimiterTypeCorrect`: `Spec => []TypeOK`. `ClientSafe`:
`Spec => [](ClientAccounting /\ ClientBound)`. The second rests on `Places`, which says where the goroutines
of a request may be while it asks, resolves or releases: nobody is left inside `TryAcquire` to fill a holder
that `ReleaseIfHeld` has emptied. `SlotStep` says that a step takes a slot below the limit, gives one back,
hands a goroutine's to its holder, or leaves them all alone; every action is shown to be one, and
`CountersFollow` does the counting. `ClientBounded` states the bound by itself. `TicketsSafe`:
`Spec => []TicketAccounting` and `AllowedSafe`: `Spec => []AllowedIsHeld` rest on `HolderInv`, one statement
per request of where its ticket is: with the goroutine that took it, in the holder, or leaving with
`ReleaseIfHeld`, and with none but one of them (`HolderOf`, `TicketsOf`). `OnlyOthersRefuse`:
`Spec => RefusedByOthers` adds that a request's own goroutine asks before any sub-query runs (`MainAlone`) and
that a counter never runs ahead of the slots, in observe mode either (`NeverAhead`).

**`DnsCacheProofs`** (`CacheAssumption`: any questions, zones, messages with TTLs, workers, clock resolution
and bounds). `CacheTypeCorrect`, `AgeBounded`, and `CacheImplementsLeases`: `Spec => ImplementsLeases`. The
inductive invariant is `TypeOK` with `CacheInv` (an entry is under a key it belongs under, and within its age
bound), `FileInv` (a saved entry was alive when it was saved, which bounds what a load may add) and `JobInv`
(a store in progress concerns a message received at this moment, as no time passes during a store, or a
negative one). `RefinementStep` shows each action to be a `Manage`, `Wait` or `Answer` of LeaseCache or to
leave its variables alone: the leases a store or a load adds are new ones no longer than the longest lifetime.

**`IPPoolProofs`** (`PoolAssumption`: any addresses, queries, latencies up to 10 s, thresholds, window and
modulus). `PoolTypeCorrect`, `SuspectsLast`: `Spec => []SuspectsComeLast`, and `RecordsSafe`:
`Spec => RecordsKept`. The invariant adds to `TypeOK` what each query has read (`QueryOK`): a score taken of
a suspect is at least 10^9 in the scaled unit and any other at most 3 * 10^7, the wrapping confidence included,
so that the least score is never a suspect's unless all are. That a suspect's latency is pinned (`RecordOK`)
is what makes the bound hold through every failure and wrap of the counter.

**`ServerProofs`**, on ServerLifecycle (`LifecycleAssumption`: any configurations, numbers of listeners and
warmup domains). `PhaseSafe`: `Spec => []PhaseTruthful` and `SnapshotQuiet`: `Spec => []QuietAtSnapshot`. `PhaseInv`
ties the phase to the place of the main goroutine and to the warmup's, including the value `sawDone` between
the two locks; `QuietInv` says what each wait of `Shutdown` has established and that nothing starts again
after it.

**`ServerProofs`**, on HotZone (`HotZoneAssumption`: any finite set of requests, any names and zones, any window
length, number of windows kept, interval, confirmations and CPUs). `OccupancyExact`:
`HotSpec => []GlobalIsOccupancy`, `IdleServed`: `HotSpec => []IdleNeverRefuses` and `BurstsAreSpared`:
`HotSpec => BurstsSpared`. `GlobalIsOccupancy` is not inductive: closing a window adds the time of every running
request to it, which is the time that was missing only if no request was accounted past the window or before it
began, and if windows do not overlap. `Ledger` says these three things with the sum itself, of any windows,
requests, history and time, so that it can be followed through the parts of one call: a window is closed
(`CloseLedger`), then as many as have passed (`ClosingsLedger`, by induction through a set of numbers, over the
recursive function `Closings`, which is first shown to exist), a snapshot is taken (`SnapshotLedger`), a request
enters (`EnterLedger`) or leaves (`ReleaseLedger`), the history of dropped windows goes (`Forgotten`), time passes
(`TickLedger`). `HotInv` adds that a protected zone implies load in the current window, since every rotation is
followed by an evaluation that leaves protection at an average of zero, and `Streak`: a candidate seen in n
windows has been under pressure for n - 1 windows. That gives the other two. TLC checked `HotInv` on the run
`hotzone` before it was proved. The module holds the proofs of two components, whose specifications have names
of their own for that reason (`HotInit`, `HotNext`, `HotSpec`).

**`DashboardProofs`** (`DashboardAssumption`: any finite set of happenings that count buckets as a histogram
does, any sessions). `NoFalseAlarm`: `Spec => []NoPhantomTrouble`, `NoMissedTrouble`: `Spec => []TroubleShown`
and `OperatorKeepsPlace`: `Spec => []PlaceKept`. A verdict compares two snapshots of counters, each the number
of the happenings that count it, so the proof starts with counting: a series stands higher only if one of its
happenings occurred more often, and does so if none occurred less often. `Follows` says how a snapshot relates
to the good one before it, restart or not; from it, `PanelsAccuse` and `PanelsShow` argue about each panel
once. `HonestInv` says that of the dashboard shown, the one queued for drawing and the scraper's own
snapshots, and what happened since the last good scrape; `PlaceInv` is `PlaceKept` with the types of the
operator's place.

**`ResolverSteps` and `ResolverProofs`** (`WorldAssumption`, `ResolverAssumption`: any consistent world with
finitely many records, any questions, configuration, number of requests, sub-query limit and loop bound).
`TruthKept`: `Spec => []TruthInv`, and from it `ResolverTypes` (`TypeOK`), `ChainLeads`
(`ChainLeadsToQuestion`), `RightServersAsked` (`AskedServersServe`), `CacheIsTruthful` (`CacheTruthful`) and
`RepliesCorrect` (`ReplyCorrect`). None of these is inductive: what a run replies depends on what it read from
the cache, what it stored there on whom it asked, and whom it asked on glue that an earlier alias may have
left behind. `TruthInv` says of each run, by its state, what it has learnt (`Sound`): its chain has led from
the question to the name at hand (`Chained`); the addresses at hand are of servers of that name, the response
is empty unless it is to be classified, and a response with NXDOMAIN in it is about a name that is dead
(`Looking`); what is classified is an answer that leads on from the name or a true denial (`Classifiable`);
what is returned is local, an answer or a denial (`Returnable`). It says of each cache entry that it is true
of its key (`EntryOK`), and of each request that its sub-queries run only while it waits for them, for servers
it was referred to, and bring their addresses (`Crew`). `ResolverSteps` has the invariant, what servers say
(`PlainSays`, `InZoneSays`), and the steps that need no induction; `ResolverProofs` the rest. Induction over
answers and alias chains goes through sets of numbers, as the provers cannot instantiate an operator
(`NatSetInduction`, from `Counting`, which `CountingHolds` proves from the library): the recursive functions
`Among` and `Canonical` satisfy their definitions (`AmongSteps`, `CanonicalDef`), an alias path that ends has no more hops
than there are records, since it comes by none twice (`PathInjective`, `PathLength`), so it ends where
`Canonical` says (`PathEnds`); an answer's last record is the one its aliases lead to (`AddressEnds`).
TLC checked `TruthInv` on the three resolver runs before it was proved.

Only model-checked: all liveness (outside the prover's reach, as is `ENABLED`), and `Resolves`, which says
that an unhindered request ends well and needs a measure of how far every other run has come.

## What the models show besides

Behaviours that no property forbids and that a reader of the code may want to know:

* The phase may stay `warming` after the warmup: `SetRuntimeServingPhase` reads `warmupDone` and sets the
  phase in two critical sections, and a warmup that completes between them is overlooked; so is one that
  panics.
* A listener that is bound after `Shutdown` found it not started is never stopped, and `Shutdown` waits for
  it without a deadline (`Stranded`, `server.go:439`).
* A SERVFAIL that `ServeDNS` makes of an error carries the records gathered so far, without the alias chain.
* The hot-zone snapshot adds the time of running requests to maps it shares with the windows, so that every
  evaluation counts it again per zone (`hot_zone_protection.go:265`); the global sum counts it once, which is
  what `GlobalIsOccupancy` shows. The model keeps the double counting.
* A negative entry is stored again each time it is read from the cache, so its age has no bound as long as it
  is asked for (`NegativeHit`).
* `updateNSIPsCache` runs in a goroutine that `Shutdown` does not wait for: the snapshot may miss what it
  stores.
* The dashboard before its first scrape has `LastSuccess` set (`dashboard.go:168`), so a first scrape that
  fails shows STALE, where `src/docs/user/rec53top/pages.md:102` says "`DISCONNECTED`: no successful scrape yet".
  A failed scrape changes the mode only: no panel's own status is ever STALE.
* After a restart each series is clamped at zero by itself, so the shares computed from several series (of
  SERVFAIL, of cache hits) may be distorted in that one interval, though never without a cause for them.
* In the pool, a record found at the second look may be pruned before its score is read; it is then created
  anew.

## Not modelled

* Truncation for UDP (`server.go`): a computation on packed sizes.
* Parsing of packets in the XDP program, and of the text of the configuration, hosts and forwarding sections;
  which settings are checked, and when, is in ServerLifecycle.
* The servers for metrics and pprof, logs, traces and diagnostic counters: no decision of the resolver reads
  them. Of the metrics, only the counters that decide a panel's status are modelled, in Dashboard.
* Go's sharing of records between copies of a message (`shallowCopyMsg`): messages are values.
* What the dashboard writes: figures, rankings, explanations, trend cues and layout, which are most of `tui`
  and derive from the two snapshots without state of their own.
* The load generator (`tools/dnsperf`), end-to-end helpers and generated BPF bindings: test tooling and
  generated code.

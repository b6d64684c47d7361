---------------------------- MODULE UpstreamGate ----------------------------
(***************************************************************************)
(* The process-wide gate on concurrent upstream exchanges                  *)
(* (upstreamConcurrencyGate).  Every method body runs under g.mu, so each  *)
(* operator below is one atomic step of the goroutine that calls it.       *)
(* The limit is set once, at startup, before any exchange starts.          *)
(***************************************************************************)
EXTENDS Integers

CONSTANTS
    ConfiguredLimit,    \* dns.upstream_concurrency_limit, any integer
    NumCPU              \* runtime.NumCPU()

ASSUME GateAssumption ==
    /\ ConfiguredLimit \in Int
    /\ NumCPU \in Nat \ {0}

VARIABLE
    inflight            \* g.inflight

\* normalizeUpstreamConcurrencyLimit: unset or negative means the CPU count.
limit == IF ConfiguredLimit <= 0 THEN NumCPU ELSE ConfiguredLimit

InitGate == inflight = 0

\* Fault: the limit is exceeded by one.
tryAcquireOffByOne ==
    /\ inflight <= limit
    /\ inflight' = inflight + 1

\* tryAcquire, returning true and returning false.
tryAcquire ==
    /\ inflight < limit
    /\ inflight' = inflight + 1

Saturated ==
    /\ inflight >= limit
    /\ UNCHANGED inflight

\* release never takes the counter below zero.
release == inflight' = IF inflight > 0 THEN inflight - 1 ELSE inflight

\* Fan-out keeps one slot free for a caller that needs a single exchange.
shouldDegradeFanout == limit <= 1 \/ inflight >= limit - 1

=============================================================================

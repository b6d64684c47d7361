---------------------------- MODULE MCDashboard ----------------------------
(* Small instances of Dashboard for TLC. *)
EXTENDS Dashboard

\* What the metric calls on a path through rec53 count: a cached answer, an
\* answer from a second server after a bad Rcode, a resolution that times
\* out, a snapshot that does not load (at any time, not only at startup), and
\* a BPF map that cannot be written.
Hit == {"query", "NOERROR", "le10", "le1000", "leInf", "positive_hit", "stage", "success_exit"}
Failover == {"query", "NOERROR", "le1000", "leInf", "miss", "winner", "bad_rcode", "fallback",
             "stage", "success_exit"}
Failure == {"query", "SERVFAIL", "leInf", "miss", "timeout", "stage", "servfail_exit", "sm failure"}
LoadFailure == {"load failure", "skipped"}
SyncError == {"sync error"}
MCHappenings == {Hit, Failover, Failure, LoadFailure, SyncError}

\* Incidents nobody reacts to, on the screen and in print, an operator who
\* looks at one, and one who looks around while nothing happens.
Incident == [happenings |-> 2, restarts |-> 1, keys |-> 0, plain |-> FALSE]
MCSessions == {Incident, [Incident EXCEPT !.plain = TRUE],
               [happenings |-> 1, restarts |-> 0, keys |-> 2, plain |-> FALSE],
               [happenings |-> 0, restarts |-> 0, keys |-> 4, plain |-> FALSE]}
=============================================================================

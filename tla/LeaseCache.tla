------------------------------ MODULE LeaseCache ------------------------------
(* What a cache of DNS messages promises its readers, whatever copies of the
   messages it keeps and wherever.  A lease lets a message be handed out under a
   key until a moment in time.  Leases are given only for messages that belong
   under the key, and never for longer than the longest-lived record of the
   message, in whole seconds; they may be withdrawn at any time; and a reply is
   always covered by a live lease. *)
EXTENDS Integers

CONSTANTS
    Keys,          \* what readers ask for
    Messages,      \* what can be stored
    Belongs(_, _), \* Belongs(k, m): m may be stored under k
    Longest(_),    \* the longest lifetime of a record of m, in seconds
    Hz             \* moments per second

VARIABLES
    lease,         \* lease[k]: the leases on k, records [msg, until]
    now,
    reply          \* the reply of the last step, [key, msg], or <<>>

vars == <<lease, now, reply>>

Granted(k, l) ==
    /\ l.msg \in Messages
    /\ Belongs(k, l.msg)
    /\ l.until < now + (Longest(l.msg) + 1) * Hz

Init ==
    /\ lease = [k \in Keys |-> {}]
    /\ now = 0
    /\ reply = <<>>

Manage ==
    /\ \A k \in Keys : \A l \in lease'[k] \ lease[k] : Granted(k, l)
    /\ now' = now
    /\ reply' = <<>>

Wait ==
    /\ now' > now
    /\ lease' = lease
    /\ reply' = <<>>

Answer ==
    /\ \E k \in Keys : \E l \in lease[k] :
          now <= l.until /\ reply' = [key |-> k, msg |-> l.msg]
    /\ UNCHANGED <<lease, now>>

Next == Manage \/ Wait \/ Answer
Spec == Init /\ [][Next]_vars
=============================================================================

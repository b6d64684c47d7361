-------------------------- MODULE ExpensiveLimiter --------------------------
(***************************************************************************)
(* The per-client limit on expensive requests (expensiveRequestLimiter),   *)
(* seen through the holder each request carries in its context             *)
(* (expensiveRequestHolder).  A request asks before its first upstream     *)
(* exchange; its sub-queries for name-server addresses run in goroutines   *)
(* of their own, carry the same holder and ask again.  The holder's lock   *)
(* is dropped while the hot-zone controller and the client's counter are   *)
(* asked, so every section under a lock is an action of its own.           *)
(*                                                                         *)
(* Which zone is protected is left to the hot-zone controller: here it may *)
(* let any goroutine in or turn it away.  A ticket stands for the number   *)
(* TryEnter hands out; a goroutine never has two, so it is named after the *)
(* goroutine that got it.                                                  *)
(***************************************************************************)
EXTENDS Integers, FiniteSets

CONSTANTS
    Requests,           \* requests being served
    Clients,            \* client addresses
    ClientOf,           \* the client of each request
    Workers,            \* goroutines resolving name-server names for a request
    Limit,              \* expensive_request_limit, as normalised
    ObserveWouldRefuse, \* debug.expensive_request_limit_observe_would_refuse
    MaxAsks,            \* bound: cache misses of one request (CNAME hops)
    NoTicket            \* hotZoneTicket when there is none

Goroutines == Workers \cup {"main"}
Lanes == Requests \X Goroutines

ASSUME LimiterAssumption ==
    /\ IsFiniteSet(Requests) /\ IsFiniteSet(Workers)
    /\ ClientOf \in [Requests -> Clients]
    /\ "main" \notin Workers /\ "holder" \notin Workers
    /\ Limit \in Nat \ {0}
    /\ ObserveWouldRefuse \in BOOLEAN
    /\ MaxAsks \in Nat \ {0}
    /\ NoTicket \notin Lanes

VARIABLES
    rpc,                \* where each request's ServeDNS is
    asks,               \* how often the request's own goroutine has asked
    gpc,                \* where each goroutine is in holder.TryAcquire
    inflight,           \* clientState.inflight; 0 when the client has no entry
    held,               \* holder.held, which hotZoneHeld always equals
    hotZoneTicket,      \* holder.hotZoneTicket
    releasing,          \* the ticket ReleaseIfHeld has taken out of the holder
    active              \* tickets of the hot-zone controller in use

vars == <<rpc, asks, gpc, inflight, held, hotZoneTicket, releasing, active>>
holderVars == <<held, hotZoneTicket, releasing>>

Returned == {"idle", "allowed", "refused"}

Init ==
    /\ rpc = [r \in Requests |-> "idle"]
    /\ asks = [r \in Requests |-> 0]
    /\ gpc = [l \in Lanes |-> "idle"]
    /\ inflight = [c \in Clients |-> 0]
    /\ held = [r \in Requests |-> FALSE]
    /\ hotZoneTicket = [r \in Requests |-> NoTicket]
    /\ releasing = [r \in Requests |-> NoTicket]
    /\ active = {}

Goto(r, g, to) == gpc' = [gpc EXCEPT ![<<r, g>>] = to]

-----------------------------------------------------------------------------
(* The request: who asks, and when *)

\* The state machine misses the cache, or finds a forwarding zone.
Ask(r) ==
    /\ rpc[r] = "idle"
    /\ rpc' = [rpc EXCEPT ![r] = "asking"]
    /\ asks' = [asks EXCEPT ![r] = 1]
    /\ Goto(r, "main", "check")
    /\ UNCHANGED <<inflight, holderVars, active>>

\* A cached answer of no use (classifyRespState: "continuing to IN_GLUE")
\* leads upstream, and to the name servers' names, with no miss before.
GoUpstreamUnasked(r) ==
    /\ rpc[r] = "idle"
    /\ rpc' = [rpc EXCEPT ![r] = "resolving"]
    /\ \E ws \in SUBSET Workers :
        gpc' = [l \in Lanes |-> IF l[1] = r /\ l[2] \in ws THEN "check" ELSE gpc[l]]
    /\ UNCHANGED <<asks, inflight, holderVars, active>>

\* The request may go on: it resolves some name-server names concurrently.
GoUpstream(r) ==
    /\ rpc[r] = "asking"
    /\ gpc[<<r, "main">>] = "allowed"
    /\ rpc' = [rpc EXCEPT ![r] = "resolving"]
    /\ \E ws \in SUBSET Workers :
        gpc' = [l \in Lanes |-> IF l[1] = r /\ l[2] \in ws THEN "check" ELSE gpc[l]]
    /\ UNCHANGED <<asks, inflight, holderVars, active>>

\* Fault: nothing bounds the CNAME hops.
AskAgainUnbounded(r) ==
    /\ rpc[r] = "resolving"
    /\ \A g \in Goroutines : gpc[<<r, g>>] \in Returned
    /\ rpc' = [rpc EXCEPT ![r] = "asking"]
    /\ Goto(r, "main", "check")
    /\ UNCHANGED <<asks, inflight, holderVars, active>>

\* resolveNSIPsConcurrently has returned, which waits for every worker, and
\* the request misses the cache once more, for the target of a CNAME.
AskAgain(r) ==
    /\ rpc[r] = "resolving"
    /\ \A g \in Goroutines : gpc[<<r, g>>] \in Returned
    /\ asks[r] < MaxAsks
    /\ rpc' = [rpc EXCEPT ![r] = "asking"]
    /\ asks' = [asks EXCEPT ![r] = @ + 1]
    /\ Goto(r, "main", "check")
    /\ UNCHANGED <<inflight, holderVars, active>>

-----------------------------------------------------------------------------
(* holder.TryAcquire *)

\* Faults: the holder is not looked at; the client's counter is taken for it.
CheckIgnoresHolder(r, g) ==
    /\ gpc[<<r, g>>] = "check"
    /\ Goto(r, g, "enter")
    /\ UNCHANGED <<rpc, asks, inflight, holderVars, active>>
CheckCounter(r, g) ==
    /\ gpc[<<r, g>>] = "check"
    /\ Goto(r, g, IF inflight[ClientOf[r]] > 0 THEN "allowed" ELSE "enter")
    /\ UNCHANGED <<rpc, asks, inflight, holderVars, active>>

Check(r, g) ==
    /\ gpc[<<r, g>>] = "check"
    /\ Goto(r, g, IF held[r] THEN "allowed" ELSE "enter")
    /\ UNCHANGED <<rpc, asks, inflight, holderVars, active>>

\* hotZoneController.TryEnter: admitted with a ticket, or refused.
EnterHotZone(r, g) ==
    /\ gpc[<<r, g>>] = "enter"
    /\ \/ Goto(r, g, "client") /\ active' = active \cup {<<r, g>>}
       \/ Goto(r, g, "refused") /\ UNCHANGED active
    /\ UNCHANGED <<rpc, asks, inflight, holderVars>>

\* Fault: the limit is exceeded by one.
AcquireClientOffByOne(r, g) ==
    /\ gpc[<<r, g>>] = "client"
    /\ inflight[ClientOf[r]] <= Limit
    /\ inflight' = [inflight EXCEPT ![ClientOf[r]] = @ + 1]
    /\ Goto(r, g, "commit")
    /\ UNCHANGED <<rpc, asks, holderVars, active>>

\* expensiveRequestLimiter.TryAcquire below the limit ...
AcquireClient(r, g) ==
    /\ gpc[<<r, g>>] = "client"
    /\ inflight[ClientOf[r]] < Limit
    /\ inflight' = [inflight EXCEPT ![ClientOf[r]] = @ + 1]
    /\ Goto(r, g, "commit")
    /\ UNCHANGED <<rpc, asks, holderVars, active>>

\* ... and at the limit, where observe mode allows without counting.
ClientSaturated(r, g) ==
    /\ gpc[<<r, g>>] = "client"
    /\ inflight[ClientOf[r]] >= Limit
    /\ Goto(r, g, IF ObserveWouldRefuse THEN "commit" ELSE "undo")
    /\ UNCHANGED <<rpc, asks, inflight, holderVars, active>>

\* Fault: the ticket is kept.
UndoHotZoneLeaks(r, g) ==
    /\ gpc[<<r, g>>] = "undo"
    /\ Goto(r, g, "refused")
    /\ UNCHANGED <<rpc, asks, inflight, holderVars, active>>

\* The client was refused: its hot-zone ticket goes back.
UndoHotZone(r, g) ==
    /\ gpc[<<r, g>>] = "undo"
    /\ active' = active \ {<<r, g>>}
    /\ Goto(r, g, "refused")
    /\ UNCHANGED <<rpc, asks, inflight, holderVars>>

\* The second look at the holder: another goroutine may have filled it.
Commit(r, g) ==
    /\ gpc[<<r, g>>] = "commit"
    /\ IF held[r]
       THEN Goto(r, g, "surplus") /\ UNCHANGED holderVars
       ELSE /\ held' = [held EXCEPT ![r] = TRUE]
            /\ hotZoneTicket' = [hotZoneTicket EXCEPT ![r] = <<r, g>>]
            /\ Goto(r, g, "allowed")
            /\ UNCHANGED releasing
    /\ UNCHANGED <<rpc, asks, inflight, active>>

\* expensiveRequestLimiter.Release.
Release(c) == inflight' = [inflight EXCEPT ![c] = IF @ > 0 THEN @ - 1 ELSE @]

\* Fault: only the ticket is returned.
ReturnSurplusLeaks(r, g) ==
    /\ gpc[<<r, g>>] = "surplus"
    /\ Goto(r, g, "surplusZone")
    /\ UNCHANGED <<rpc, asks, inflight, holderVars, active>>

ReturnSurplus(r, g) ==
    /\ gpc[<<r, g>>] = "surplus"
    /\ Release(ClientOf[r])
    /\ Goto(r, g, "surplusZone")
    /\ UNCHANGED <<rpc, asks, holderVars, active>>

ReturnSurplusZone(r, g) ==
    /\ gpc[<<r, g>>] = "surplusZone"
    /\ active' = active \ {<<r, g>>}
    /\ Goto(r, g, "allowed")
    /\ UNCHANGED <<rpc, asks, inflight, holderVars>>

-----------------------------------------------------------------------------
(* holder.ReleaseIfHeld, after the state machine has returned *)

Leave(r) ==
    /\ rpc' = [rpc EXCEPT ![r] = "idle"]
    /\ asks' = [asks EXCEPT ![r] = 0]
    /\ gpc' = [l \in Lanes |-> IF l[1] = r THEN "idle" ELSE gpc[l]]

\* A refused request, or one whose goroutines have all returned, is over.
Finished(r) ==
    \/ rpc[r] = "asking" /\ gpc[<<r, "main">>] = "refused"
    \/ rpc[r] = "resolving" /\ \A g \in Goroutines : gpc[<<r, g>>] \in Returned

ReleaseIfHeld(r) ==
    /\ Finished(r)
    /\ held[r]
    /\ rpc' = [rpc EXCEPT ![r] = "release"]
    /\ held' = [held EXCEPT ![r] = FALSE]
    /\ hotZoneTicket' = [hotZoneTicket EXCEPT ![r] = NoTicket]
    /\ releasing' = [releasing EXCEPT ![r] = hotZoneTicket[r]]
    /\ UNCHANGED <<asks, gpc, inflight, active>>

NothingHeld(r) ==
    /\ Finished(r)
    /\ ~held[r]
    /\ Leave(r)
    /\ UNCHANGED <<inflight, holderVars, active>>

ReleaseClient(r) ==
    /\ rpc[r] = "release"
    /\ rpc' = [rpc EXCEPT ![r] = "releaseZone"]
    /\ Release(ClientOf[r])
    /\ UNCHANGED <<asks, gpc, holderVars, active>>

ReleaseHotZone(r) ==
    /\ rpc[r] = "releaseZone"
    /\ active' = active \ {releasing[r]}
    /\ releasing' = [releasing EXCEPT ![r] = NoTicket]
    /\ Leave(r)
    /\ UNCHANGED <<inflight, held, hotZoneTicket>>

-----------------------------------------------------------------------------
TryAcquireStep(r, g) ==
    \/ Check(r, g) \/ EnterHotZone(r, g) \/ AcquireClient(r, g) \/ ClientSaturated(r, g)
    \/ UndoHotZone(r, g) \/ Commit(r, g) \/ ReturnSurplus(r, g) \/ ReturnSurplusZone(r, g)

RequestStep(r) ==
    \/ GoUpstream(r) \/ AskAgain(r)
    \/ ReleaseIfHeld(r) \/ NothingHeld(r) \/ ReleaseClient(r) \/ ReleaseHotZone(r)

Next ==
    \/ \E r \in Requests : Ask(r) \/ GoUpstreamUnasked(r) \/ RequestStep(r)
    \/ \E r \in Requests, g \in Goroutines : TryAcquireStep(r, g)

Spec == Init /\ [][Next]_vars

(* A goroutine that can run does run; new requests need not come.          *)
FairSpec ==
    /\ Spec
    /\ \A r \in Requests : WF_vars(RequestStep(r))
    /\ \A r \in Requests, g \in Goroutines : WF_vars(TryAcquireStep(r, g))

-----------------------------------------------------------------------------
(* Properties *)

\* Type correctness.
TypeOK ==
    /\ rpc \in [Requests -> {"idle", "asking", "resolving", "release", "releaseZone"}]
    /\ asks \in [Requests -> 0..MaxAsks]
    /\ gpc \in [Lanes -> Returned \cup {"check", "enter", "client", "undo", "commit",
                                        "surplus", "surplusZone"}]
    /\ inflight \in [Clients -> Nat]
    /\ held \in [Requests -> BOOLEAN]
    /\ hotZoneTicket \in [Requests -> Lanes \cup {NoTicket}]
    /\ releasing \in [Requests -> Lanes \cup {NoTicket}]
    /\ active \subseteq Lanes

(* A client's slots: one for each goroutine between the counter and the    *)
(* holder, and one for each request whose holder has it or is giving it up.*)
Owns(s) ==
    IF s[2] = "holder" THEN held[s[1]] \/ rpc[s[1]] = "release"
                       ELSE gpc[s] \in {"commit", "surplus"}
RequestSlots(r) == {s \in {r} \X (Goroutines \cup {"holder"}) : Owns(s)}
Slots(c) ==
    {s \in Requests \X (Goroutines \cup {"holder"}) : ClientOf[s[1]] = c /\ Owns(s)}

\* With the limit enforced, a client's counter is exactly the number of slots
\* its requests own: no path leaks one or returns one it does not own.
ClientAccounting ==
    ~ObserveWouldRefuse => \A c \in Clients : inflight[c] = Cardinality(Slots(c))

\* A client never owns more than Limit slots, however many of its requests
\* and of their sub-queries ask at once.
ClientBound ==
    ~ObserveWouldRefuse => \A c \in Clients : Cardinality(Slots(c)) <= Limit

\* Every ticket in use belongs to a goroutine that is still asking or to a
\* holder that will return it, and to one of them only: the hot-zone
\* occupancy counts a request once and forgets it when it is over.
Ticketed(l) == gpc[l] \in {"client", "undo", "commit", "surplus", "surplusZone"}
Carried(r) == {hotZoneTicket[r], releasing[r]} \ {NoTicket}
TicketAccounting ==
    /\ active = {l \in Lanes : Ticketed(l)} \cup UNION {Carried(r) : r \in Requests}
    /\ \A r \in Requests : \A l \in Carried(r) : l[1] = r /\ ~Ticketed(l)

\* A goroutine that was told to go on works under a held slot until its
\* request is over.
AllowedIsHeld ==
    \A r \in Requests, g \in Goroutines :
        gpc[<<r, g>>] = "allowed" /\ rpc[r] \in {"asking", "resolving"} => held[r]

\* The request's own goroutine is refused by the client limit only if other
\* requests of the client own all the slots.
RefusedByOthers ==
    [][\A r \in Requests :
        ClientSaturated(r, "main") => Cardinality(Slots(ClientOf[r]) \ RequestSlots(r)) >= Limit]_vars

\* A request occupies one slot, whatever retries and sub-queries it makes.
OneSlotPerRequest == \A r \in Requests : Cardinality(RequestSlots(r)) <= 1

\* Every request ends, and then owns nothing.
RequestsEnd == \A r \in Requests : rpc[r] # "idle" ~> rpc[r] = "idle"

=============================================================================

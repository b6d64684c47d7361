---------------------------- MODULE HappyEyeballs ----------------------------
(***************************************************************************)
(* The users of the upstream gate.  A call is one run of                   *)
(* queryUpstreamState.handle from queryHappyEyeballs on: the race of two   *)
(* servers, the single query it degrades to, and the retry at the other    *)
(* server after a bad Rcode.  A forward is one run of the upstream loop of *)
(* forwardLookupState.handle.  An exchange (ExchangeContext) may answer,   *)
(* answer with a bad Rcode, or fail; it always ends, because the client    *)
(* has a timeout.                                                          *)
(*                                                                         *)
(* The loser of a race is not joined: its goroutine keeps its slot until   *)
(* its own exchange ends, long after the call has returned.  Calls stands  *)
(* for the calls of all requests, and for the successive calls of one.     *)
(***************************************************************************)
EXTENDS UpstreamGate, FiniteSets

CONSTANTS
    Calls,              \* concurrent handle calls
    Forwards,           \* concurrent forwarded requests
    NumUpstreams        \* upstreams of the matched forwarding zone

ASSUME CallsAssumption ==
    /\ IsFiniteSet(Calls)
    /\ IsFiniteSet(Forwards)
    /\ NumUpstreams \in Nat \ {0}

Addrs == {"best", "second"}
Outcomes == {"ok", "badRcode", "otherRcode", "err"}

(* A lane is a place that can hold a gate slot: the two racers of a call,  *)
(* the call's own goroutine, and a forward's goroutine.                    *)
Racers == Calls \X Addrs
Lanes == Racers \cup (Calls \X {"self"}) \cup (Forwards \X {"forward"})

VARIABLES
    pc,                 \* where each call is
    secondAddr,         \* whether the call has a second address
    exch,               \* what each lane's exchange is doing, or how it ended
    resultCh,           \* the race's result channel: a buffer cell per racer
    winner,             \* the address whose bad Rcode handle is looking at
    blamed,             \* addresses RecordFailure was called for in this call
    faulty,             \* addresses an exchange of this call really failed at
    fpc,                \* where each forward is
    upstream            \* index of the upstream a forward tries next

vars == <<inflight, pc, secondAddr, exch, resultCh, winner, blamed, faulty, fpc, upstream>>
forwardVars == <<fpc, upstream>>
poolVars == <<blamed, faulty>>

Holders == {l \in Lanes : exch[l] \in {"held", "running"}}

(* Racers nobody waits for any more, or soon will not: the other racer of  *)
(* the pair has left the gate.                                             *)
Stragglers ==
    {l \in Racers : /\ exch[l] = "running"
                    /\ \E a \in Addrs \ {l[2]} : exch[<<l[1], a>>] # "running"}

Init ==
    /\ InitGate
    /\ pc = [c \in Calls |-> "idle"]
    /\ secondAddr = [c \in Calls |-> FALSE]
    /\ exch = [l \in Lanes |-> "idle"]
    /\ resultCh = [l \in Racers |-> "empty"]
    /\ winner = [c \in Calls |-> "best"]
    /\ blamed = [c \in Calls |-> {}]
    /\ faulty = [c \in Calls |-> {}]
    /\ fpc = [f \in Forwards |-> "idle"]
    /\ upstream = [f \in Forwards |-> 1]

Goto(c, from, to) ==
    /\ pc[c] = from
    /\ pc' = [pc EXCEPT ![c] = to]

\* The call returns and its locals are gone.
Finish(c) ==
    /\ pc' = [pc EXCEPT ![c] = "idle"]
    /\ secondAddr' = [secondAddr EXCEPT ![c] = FALSE]
    /\ winner' = [winner EXCEPT ![c] = "best"]

\* globalIPPool's RecordFailure, and the fault that would justify it.
RecordFailure(c, a) == blamed' = [blamed EXCEPT ![c] = @ \cup {a}]
NoteFault(c, a, o) ==
    faulty' = IF o \in {"badRcode", "err"} THEN [faulty EXCEPT ![c] = @ \cup {a}] ELSE faulty

-----------------------------------------------------------------------------
(* queryHappyEyeballs *)

\* A call identity is reused only when no goroutine of its last run is left.
Begin(c) ==
    /\ \A a \in Addrs : exch[<<c, a>>] = "idle"
    /\ \E two \in BOOLEAN :
        /\ Goto(c, "idle", IF two THEN "fanout" ELSE "single")
        /\ secondAddr' = [secondAddr EXCEPT ![c] = two]
    /\ resultCh' = [resultCh EXCEPT ![<<c, "best">>] = "empty", ![<<c, "second">>] = "empty"]
    /\ blamed' = [blamed EXCEPT ![c] = {}]
    /\ faulty' = [faulty EXCEPT ![c] = {}]
    /\ UNCHANGED <<inflight, exch, winner, forwardVars>>

CheckFanout(c) ==
    /\ Goto(c, "fanout", IF shouldDegradeFanout THEN "single" ELSE "acquire1")
    /\ UNCHANGED <<inflight, exch, secondAddr, resultCh, winner, poolVars, forwardVars>>

AcquireFirst(c) ==
    /\ Goto(c, "acquire1", "acquire2")
    /\ tryAcquire
    /\ exch' = [exch EXCEPT ![<<c, "best">>] = "held"]
    /\ UNCHANGED <<secondAddr, resultCh, winner, poolVars, forwardVars>>

\* Fault: a saturated gate is recorded as a failure of the best address.
TurnedAwayBlames(c) ==
    /\ pc[c] \in {"acquire1", "single", "retry"}
    /\ Saturated
    /\ Finish(c)
    /\ RecordFailure(c, "best")
    /\ UNCHANGED <<exch, resultCh, faulty, forwardVars>>

\* errUpstreamConcurrencyGateSaturated from the first slot, the single query
\* or the retry ends the call and blames nobody.
TurnedAway(c) ==
    /\ pc[c] \in {"acquire1", "single", "retry"}
    /\ Saturated
    /\ Finish(c)
    /\ UNCHANGED <<exch, resultCh, poolVars, forwardVars>>

\* Fault: the second racer is launched on the first one's slot.
AcquireSecondShares(c) ==
    /\ Goto(c, "acquire2", "racing")
    /\ exch' = [exch EXCEPT ![<<c, "best">>] = "running", ![<<c, "second">>] = "running"]
    /\ UNCHANGED <<inflight, secondAddr, resultCh, winner, poolVars, forwardVars>>

\* The second slot is acquired and both racers are launched.
AcquireSecond(c) ==
    /\ Goto(c, "acquire2", "racing")
    /\ tryAcquire
    /\ exch' = [exch EXCEPT ![<<c, "best">>] = "running", ![<<c, "second">>] = "running"]
    /\ UNCHANGED <<secondAddr, resultCh, winner, poolVars, forwardVars>>

SecondSaturated(c) ==
    /\ Goto(c, "acquire2", "undo")
    /\ Saturated
    /\ UNCHANGED <<exch, secondAddr, resultCh, winner, poolVars, forwardVars>>

\* Fault: the release is missing.
GiveBackFirstLeaks(c) ==
    /\ Goto(c, "undo", "single")
    /\ exch' = [exch EXCEPT ![<<c, "best">>] = "idle"]
    /\ UNCHANGED <<inflight, secondAddr, resultCh, winner, poolVars, forwardVars>>

\* The slot taken first is given back before degrading to a single query.
GiveBackFirst(c) ==
    /\ Goto(c, "undo", "single")
    /\ release
    /\ exch' = [exch EXCEPT ![<<c, "best">>] = "idle"]
    /\ UNCHANGED <<secondAddr, resultCh, winner, poolVars, forwardVars>>

\* Fault: the racer sends its result and keeps its slot.
RacerReturnsKeeps(c, a) ==
    /\ exch[<<c, a>>] = "running"
    /\ exch' = [exch EXCEPT ![<<c, a>>] = "held"]
    /\ \E o \in Outcomes :
        /\ resultCh' = [resultCh EXCEPT ![<<c, a>>] = o]
        /\ NoteFault(c, a, o)
    /\ UNCHANGED <<inflight, pc, secondAddr, winner, blamed, forwardVars>>

\* A racer's exchange ends; the deferred release runs before launch sends.
RacerReturns(c, a) ==
    /\ exch[<<c, a>>] = "running"
    /\ release
    /\ \E o \in Outcomes :
        /\ exch' = [exch EXCEPT ![<<c, a>>] = o]
        /\ NoteFault(c, a, o)
    /\ UNCHANGED <<pc, secondAddr, resultCh, winner, blamed, forwardVars>>

\* Fault: an unbuffered channel, which needs a receiver that still waits.
RacerSendsUnbuffered(c, a) ==
    /\ pc[c] \in {"racing", "lastRacer"}
    /\ exch[<<c, a>>] \in Outcomes
    /\ exch' = [exch EXCEPT ![<<c, a>>] = "idle"]
    /\ resultCh' = [resultCh EXCEPT ![<<c, a>>] = exch[<<c, a>>]]
    /\ UNCHANGED <<inflight, pc, secondAddr, winner, poolVars, forwardVars>>

RacerSends(c, a) ==
    /\ exch[<<c, a>>] \in Outcomes
    /\ exch' = [exch EXCEPT ![<<c, a>>] = "idle"]
    /\ resultCh' = [resultCh EXCEPT ![<<c, a>>] = exch[<<c, a>>]]
    /\ UNCHANGED <<inflight, pc, secondAddr, winner, poolVars, forwardVars>>

\* handle looks at an answer: a bad Rcode goes on to HandleBadRcode.
Answered(c, a, o) ==
    IF o = "badRcode"
    THEN /\ pc' = [pc EXCEPT ![c] = "bad"]
         /\ winner' = [winner EXCEPT ![c] = a]
         /\ UNCHANGED secondAddr
    ELSE Finish(c)

\* The first answer wins, whatever its Rcode.  (Two results in the channel may
\* be received in either order: either racer may have sent first.)
ReceiveAnswer(c, a) ==
    /\ pc[c] \in {"racing", "lastRacer"}
    /\ resultCh[<<c, a>>] \in Outcomes \ {"err"}
    /\ resultCh' = [resultCh EXCEPT ![<<c, a>>] = "empty"]
    /\ Answered(c, a, resultCh[<<c, a>>])
    /\ UNCHANGED <<inflight, exch, poolVars, forwardVars>>

\* An error blames its address; the second one ends the call.
ReceiveError(c, a) ==
    /\ pc[c] \in {"racing", "lastRacer"}
    /\ resultCh[<<c, a>>] = "err"
    /\ resultCh' = [resultCh EXCEPT ![<<c, a>>] = "empty"]
    /\ RecordFailure(c, a)
    /\ IF pc[c] = "racing"
       THEN pc' = [pc EXCEPT ![c] = "lastRacer"] /\ UNCHANGED <<secondAddr, winner>>
       ELSE Finish(c)
    /\ UNCHANGED <<inflight, exch, faulty, forwardVars>>

\* The single-path lane of queryHappyEyeballs (exchangeWithUpstreamGate).
SingleAcquire(c) ==
    /\ Goto(c, "single", "waiting")
    /\ tryAcquire
    /\ exch' = [exch EXCEPT ![<<c, "self">>] = "running"]
    /\ UNCHANGED <<secondAddr, resultCh, winner, poolVars, forwardVars>>

SingleReturns(c) ==
    /\ pc[c] = "waiting"
    /\ release
    /\ exch' = [exch EXCEPT ![<<c, "self">>] = "idle"]
    /\ \E o \in Outcomes :
        /\ NoteFault(c, "best", o)
        /\ IF o = "err"
           THEN RecordFailure(c, "best") /\ Finish(c)
           ELSE Answered(c, "best", o) /\ UNCHANGED blamed
    /\ UNCHANGED <<resultCh, forwardVars>>

-----------------------------------------------------------------------------
(* queryUpstreamState.handle, after a bad Rcode *)

AltAddr(c) == IF winner[c] = "second" THEN "best" ELSE "second"

HandleBadRcode(c) ==
    /\ pc[c] = "bad"
    /\ RecordFailure(c, winner[c])
    /\ IF secondAddr[c]
       THEN pc' = [pc EXCEPT ![c] = "retry"] /\ UNCHANGED <<secondAddr, winner>>
       ELSE Finish(c)
    /\ UNCHANGED <<inflight, exch, resultCh, faulty, forwardVars>>

RetryAcquire(c) ==
    /\ Goto(c, "retry", "retrying")
    /\ tryAcquire
    /\ exch' = [exch EXCEPT ![<<c, "self">>] = "running"]
    /\ UNCHANGED <<secondAddr, resultCh, winner, poolVars, forwardVars>>

\* A second bad Rcode gives up without blaming the alternate address.
RetryReturns(c) ==
    /\ pc[c] = "retrying"
    /\ release
    /\ exch' = [exch EXCEPT ![<<c, "self">>] = "idle"]
    /\ \E o \in Outcomes :
        /\ NoteFault(c, AltAddr(c), o)
        /\ IF o = "err" THEN RecordFailure(c, AltAddr(c)) ELSE UNCHANGED blamed
    /\ Finish(c)
    /\ UNCHANGED <<resultCh, forwardVars>>

-----------------------------------------------------------------------------
(* The upstream loop of forwardLookupState.handle *)

ForwardBegin(f) ==
    /\ fpc[f] = "idle"
    /\ fpc' = [fpc EXCEPT ![f] = "try"]
    /\ upstream' = [upstream EXCEPT ![f] = 1]
    /\ UNCHANGED <<inflight, pc, secondAddr, exch, resultCh, winner, poolVars>>

ForwardAcquire(f) ==
    /\ fpc[f] = "try"
    /\ tryAcquire
    /\ exch' = [exch EXCEPT ![<<f, "forward">>] = "running"]
    /\ fpc' = [fpc EXCEPT ![f] = "waiting"]
    /\ UNCHANGED <<pc, secondAddr, resultCh, winner, poolVars, upstream>>

\* A saturated gate ends the forwarded request with SERVFAIL at once.
ForwardSaturated(f) ==
    /\ fpc[f] = "try"
    /\ Saturated
    /\ fpc' = [fpc EXCEPT ![f] = "idle"]
    /\ UNCHANGED <<pc, secondAddr, exch, resultCh, winner, poolVars, upstream>>

\* An error moves on to the next upstream; the last error ends with SERVFAIL.
ForwardReturns(f) ==
    /\ fpc[f] = "waiting"
    /\ release
    /\ exch' = [exch EXCEPT ![<<f, "forward">>] = "idle"]
    /\ \E answered \in BOOLEAN :
        IF answered \/ upstream[f] = NumUpstreams
        THEN fpc' = [fpc EXCEPT ![f] = "idle"] /\ UNCHANGED upstream
        ELSE /\ fpc' = [fpc EXCEPT ![f] = "try"]
             /\ upstream' = [upstream EXCEPT ![f] = @ + 1]
    /\ UNCHANGED <<pc, secondAddr, resultCh, winner, poolVars>>

-----------------------------------------------------------------------------
CallStep(c) ==
    \/ CheckFanout(c) \/ AcquireFirst(c) \/ TurnedAway(c)
    \/ AcquireSecond(c) \/ SecondSaturated(c) \/ GiveBackFirst(c)
    \/ \E a \in Addrs : ReceiveAnswer(c, a) \/ ReceiveError(c, a)
    \/ SingleAcquire(c) \/ SingleReturns(c)
    \/ HandleBadRcode(c) \/ RetryAcquire(c) \/ RetryReturns(c)

RacerStep(c, a) == RacerReturns(c, a) \/ RacerSends(c, a)

ForwardStep(f) == ForwardAcquire(f) \/ ForwardSaturated(f) \/ ForwardReturns(f)

Next ==
    \/ \E c \in Calls : Begin(c) \/ CallStep(c)
    \/ \E c \in Calls, a \in Addrs : RacerStep(c, a)
    \/ \E f \in Forwards : ForwardBegin(f) \/ ForwardStep(f)

Spec == Init /\ [][Next]_vars

(* Every goroutine that can run does run, and every exchange ends (the     *)
(* client's Timeout is at least 100ms and never zero).  New calls are not  *)
(* assumed to arrive.                                                      *)
FairSpec ==
    /\ Spec
    /\ \A c \in Calls : WF_vars(CallStep(c))
    /\ \A c \in Calls, a \in Addrs : WF_vars(RacerStep(c, a))
    /\ \A f \in Forwards : WF_vars(ForwardStep(f))

-----------------------------------------------------------------------------
(* Properties *)

CallPc == {"idle", "fanout", "acquire1", "acquire2", "undo", "racing", "lastRacer",
           "single", "waiting", "bad", "retry", "retrying"}

\* Type correctness.
TypeOK ==
    /\ inflight \in Nat
    /\ pc \in [Calls -> CallPc]
    /\ secondAddr \in [Calls -> BOOLEAN]
    /\ exch \in [Lanes -> {"idle", "held", "running"} \cup Outcomes]
    /\ resultCh \in [Racers -> {"empty"} \cup Outcomes]
    /\ winner \in [Calls -> Addrs]
    /\ blamed \in [Calls -> SUBSET Addrs]
    /\ faulty \in [Calls -> SUBSET Addrs]
    /\ fpc \in [Forwards -> {"idle", "try", "waiting"}]
    /\ upstream \in [Forwards -> 1..NumUpstreams]

\* The gate's counter is the number of goroutines that own a slot: no path
\* of a race, a degraded call, a retry or a forward leaks a slot or gives
\* back one it does not own, so the floor in release is never what keeps the
\* counter right.
SlotAccounting == inflight = Cardinality(Holders)

\* At most limit exchanges are on the wire, however stale shouldDegradeFanout
\* is when its caller gets to tryAcquire.
GateBound == Cardinality(Holders) <= limit

\* Racers left behind by calls that already have their answer never fill the
\* gate: a slot that someone waits for, or a free one, always remains.
StragglersLeaveRoom == Cardinality(Stragglers) <= limit - 1

\* Which slots a goroutine owns follows from where it is: what makes the two
\* properties above inductive.
LanesFollowPc ==
    /\ \A c \in Calls :
        /\ exch[<<c, "self">>] = IF pc[c] \in {"waiting", "retrying"} THEN "running" ELSE "idle"
        /\ exch[<<c, "best">>] = "held" <=> pc[c] \in {"acquire2", "undo"}
        /\ exch[<<c, "second">>] # "held"
        /\ pc[c] \in {"fanout", "acquire1", "acquire2", "undo"} => exch[<<c, "second">>] = "idle"
        /\ pc[c] \in {"fanout", "acquire1"} => exch[<<c, "best">>] = "idle"
    /\ \A f \in Forwards :
        exch[<<f, "forward">>] = IF fpc[f] = "waiting" THEN "running" ELSE "idle"

\* RecordFailure is only called for an address at which an exchange of the
\* same call failed or answered with a bad Rcode: a saturated gate is never
\* held against a server.
NoUndeservedBlame == \A c \in Calls : blamed[c] \subseteq faulty[c]

\* A call is turned away only if other goroutines own all slots but one: the
\* call's own winner has given its slot back before its answer is seen.
OthersHold(c) == Holders \ ({c} \X (Addrs \cup {"self"}))
TurnedAwayByOthers ==
    [][\A c \in Calls : TurnedAway(c) => Cardinality(OthersHold(c)) >= limit - 1]_vars

\* Every call ends, although it waits for its racers, and every racer ends,
\* although its call may have returned: its result fits in the channel's buffer.
CallsEnd ==
    \A c \in Calls :
        /\ []<>(pc[c] = "idle")
        /\ \A a \in Addrs : []<>(exch[<<c, a>>] = "idle")

=============================================================================

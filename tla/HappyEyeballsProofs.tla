------------------------- MODULE HappyEyeballsProofs -------------------------
(***************************************************************************)
(* Proofs about the upstream gate and its users, for any limit and any     *)
(* finite number of calls and forwards.                                    *)
(***************************************************************************)
EXTENDS HappyEyeballs, FiniteSetTheorems, TLAPS

LEMMA LimitPositive == limit \in Nat \ {0}
  BY GateAssumption DEF limit

LEMMA LanesFinite == IsFiniteSet(Lanes) /\ Racers \subseteq Lanes
  <1>1. IsFiniteSet(Addrs)
    <2>1. Addrs = {"best"} \cup {"second"}
      BY DEF Addrs
    <2>2. QED BY Zenon, <2>1, FS_Singleton, FS_AddElement
  <1>2. IsFiniteSet(Racers)
    BY <1>1, CallsAssumption, FS_Product DEF Racers
  <1>3. IsFiniteSet(Calls \X {"self"}) /\ IsFiniteSet(Forwards \X {"forward"})
    BY Zenon, CallsAssumption, FS_Singleton, FS_Product
  <1>4. QED
    BY Zenon, <1>2, <1>3, FS_Union DEF Lanes

LEMMA HoldersFinite ==
  /\ IsFiniteSet(Holders) /\ Cardinality(Holders) \in Nat
  /\ IsFiniteSet(Stragglers) /\ Cardinality(Stragglers) \in Nat
  <1>1. Holders \in SUBSET Lanes /\ Stragglers \in SUBSET Lanes
    BY LanesFinite DEF Holders, Stragglers
  <1>2. QED
    BY <1>1, LanesFinite, FS_Subset, FS_CardinalityType

\* The lanes of a call and of a forward, as elements and as different ones.
LEMMA LaneNames ==
  /\ \A c \in Calls : <<c, "best">> \in Lanes /\ <<c, "second">> \in Lanes /\ <<c, "self">> \in Lanes
  /\ \A c \in Calls, a \in Addrs : <<c, a>> \in Racers /\ <<c, a>> \in Lanes
  /\ \A f \in Forwards : <<f, "forward">> \in Lanes
  BY DEF Lanes, Racers, Addrs

-----------------------------------------------------------------------------
(* Type correctness *)

\* Every step acquires one slot, releases one, or leaves the counter alone.
LEMMA CounterSteps ==
  ASSUME [Next]_vars PROVE tryAcquire \/ release \/ UNCHANGED inflight
  BY Zenon DEF Next, CallStep, RacerStep, ForwardStep, vars, Begin, CheckFanout, AcquireFirst,
         TurnedAway, AcquireSecond, SecondSaturated, GiveBackFirst, ReceiveAnswer,
         ReceiveError, SingleAcquire, SingleReturns, HandleBadRcode, RetryAcquire,
         RetryReturns, RacerReturns, RacerSends, ForwardBegin, ForwardAcquire,
         ForwardSaturated, ForwardReturns, Saturated

USE DEF Outcomes, Addrs, CallPc

\* What the call's own variables become when it ends or looks at an answer.
CallTyped ==
    /\ pc \in [Calls -> CallPc]
    /\ winner \in [Calls -> Addrs]
    /\ secondAddr \in [Calls -> BOOLEAN]

LEMMA FinishTyped ==
  ASSUME TypeOK, NEW c \in Calls, Finish(c)
  PROVE  CallTyped'
  BY DEF TypeOK, Finish, CallTyped

LEMMA AnsweredTyped ==
  ASSUME TypeOK, NEW c \in Calls, NEW a \in Addrs, NEW o, Answered(c, a, o)
  PROVE  CallTyped'
  <1>1. CASE o = "badRcode"
    BY <1>1 DEF TypeOK, Answered, CallTyped
  <1>2. CASE o # "badRcode"
    BY <1>2, FinishTyped DEF Answered
  <1>3. QED
    BY <1>1, <1>2

LEMMA BlameTyped ==
  ASSUME TypeOK, NEW c \in Calls, NEW a \in Addrs, RecordFailure(c, a)
  PROVE  blamed' \in [Calls -> SUBSET Addrs]
  BY DEF TypeOK, RecordFailure

LEMMA TypePreserved == TypeOK /\ [Next]_vars => TypeOK'
  <1>2. TypeOK /\ [Next]_vars => TypeOK'
    <2> SUFFICES ASSUME TypeOK, [Next]_vars PROVE TypeOK'
      OBVIOUS
    <2>0. inflight' \in Nat
      BY CounterSteps DEF TypeOK, tryAcquire, release
    <2> USE <2>0, LaneNames DEF TypeOK, forwardVars, poolVars
    <2>1. ASSUME NEW c \in Calls, Begin(c) PROVE TypeOK'
      BY SMTT(30), <2>1 DEF Begin, Goto
    <2>2. ASSUME NEW c \in Calls, CallStep(c) PROVE TypeOK'
      <3>1. CASE CheckFanout(c)
        BY <3>1 DEF CheckFanout, Goto
      <3>2. CASE AcquireFirst(c)
        BY Zenon, <3>2 DEF AcquireFirst, Goto
      <3>3. CASE TurnedAway(c)
        BY <3>3 DEF TurnedAway, Finish
      <3>4. CASE AcquireSecond(c)
        BY SMTT(30), <3>4 DEF AcquireSecond, Goto
      <3>5. CASE SecondSaturated(c)
        BY <3>5 DEF SecondSaturated, Goto
      <3>6. CASE GiveBackFirst(c)
        BY Zenon, <3>6 DEF GiveBackFirst, Goto
      <3>7. ASSUME NEW a \in Addrs, ReceiveAnswer(c, a) PROVE TypeOK'
        <4>1. CallTyped'
          BY <3>7, AnsweredTyped DEF ReceiveAnswer
        <4>2. resultCh' \in [Racers -> {"empty"} \cup Outcomes]
          BY Zenon, <3>7 DEF ReceiveAnswer
        <4>3. QED
          BY <3>7, <4>1, <4>2 DEF ReceiveAnswer, CallTyped
      <3>8. ASSUME NEW a \in Addrs, ReceiveError(c, a) PROVE TypeOK'
        <4>1. CallTyped'
          <5>1. CASE pc[c] = "racing"
            BY <3>8, <5>1 DEF ReceiveError, CallTyped
          <5>2. CASE pc[c] # "racing"
            BY <3>8, <5>2, FinishTyped DEF ReceiveError
          <5>3. QED
            BY <5>1, <5>2
        <4>2. resultCh' \in [Racers -> {"empty"} \cup Outcomes]
          BY Zenon, <3>8 DEF ReceiveError
        <4>3. blamed' \in [Calls -> SUBSET Addrs]
          BY <3>8, BlameTyped DEF ReceiveError
        <4>4. QED
          BY <3>8, <4>1, <4>2, <4>3 DEF ReceiveError, CallTyped
      <3>9. CASE SingleAcquire(c)
        BY Zenon, <3>9 DEF SingleAcquire, Goto
      <3>10. CASE SingleReturns(c)
        <4>1. PICK o \in Outcomes :
                /\ NoteFault(c, "best", o)
                /\ IF o = "err" THEN RecordFailure(c, "best") /\ Finish(c)
                   ELSE Answered(c, "best", o) /\ UNCHANGED blamed
          BY <3>10 DEF SingleReturns
        <4>2. faulty' \in [Calls -> SUBSET Addrs]
          BY <4>1 DEF NoteFault
        <4>3. CallTyped'
          BY <4>1, FinishTyped, AnsweredTyped
        <4>4. blamed' \in [Calls -> SUBSET Addrs]
          BY <4>1, BlameTyped
        <4>5. QED
          BY Zenon, <3>10, <4>2, <4>3, <4>4 DEF SingleReturns, CallTyped
      <3>11. CASE HandleBadRcode(c)
        <4>1. blamed' \in [Calls -> SUBSET Addrs]
          BY <3>11, BlameTyped DEF HandleBadRcode
        <4>2. CallTyped'
          <5>1. CASE secondAddr[c]
            BY <3>11, <5>1 DEF HandleBadRcode, CallTyped
          <5>2. CASE ~secondAddr[c]
            BY <3>11, <5>2, FinishTyped DEF HandleBadRcode
          <5>3. QED
            BY <5>1, <5>2
        <4>3. QED
          BY <3>11, <4>1, <4>2 DEF HandleBadRcode, CallTyped
      <3>12. CASE RetryAcquire(c)
        BY Zenon, <3>12 DEF RetryAcquire, Goto
      <3>13. CASE RetryReturns(c)
        <4>1. AltAddr(c) \in Addrs
          BY DEF AltAddr
        <4>2. faulty' \in [Calls -> SUBSET Addrs]
          BY <3>13, <4>1 DEF RetryReturns, NoteFault
        <4>3. blamed' \in [Calls -> SUBSET Addrs]
          BY <3>13, <4>1 DEF RetryReturns, RecordFailure
        <4>4. QED
          BY Zenon, <3>13, <4>2, <4>3 DEF RetryReturns, Finish
      <3> HIDE DEF TypeOK
      <3>14. QED
        BY <2>2, <3>1, <3>2, <3>3, <3>4, <3>5, <3>6, <3>7, <3>8, <3>9, <3>10, <3>11, <3>12, <3>13
           DEF CallStep
    <2>3. ASSUME NEW c \in Calls, NEW a \in Addrs, RacerStep(c, a) PROVE TypeOK'
      <3>1. CASE RacerReturns(c, a)
        <4>1. PICK o \in Outcomes : exch' = [exch EXCEPT ![<<c, a>>] = o] /\ NoteFault(c, a, o)
          BY Zenon, <3>1 DEF RacerReturns
        <4>2. faulty' \in [Calls -> SUBSET Addrs]
          BY <4>1 DEF NoteFault
        <4>3. QED
          BY Zenon, <3>1, <4>1, <4>2 DEF RacerReturns
      <3>2. CASE RacerSends(c, a)
        BY Zenon, <3>2 DEF RacerSends
      <3> HIDE DEF TypeOK
      <3>3. QED
        BY <2>3, <3>1, <3>2 DEF RacerStep
    <2>4. ASSUME NEW f \in Forwards, ForwardBegin(f) \/ ForwardStep(f) PROVE TypeOK'
      <3>1. CASE ForwardBegin(f)
        BY <3>1, CallsAssumption DEF ForwardBegin
      <3>2. CASE ForwardAcquire(f)
        BY <3>2 DEF ForwardAcquire
      <3>3. CASE ForwardSaturated(f)
        BY <3>3 DEF ForwardSaturated
      <3>4. CASE ForwardReturns(f)
        <4>1. upstream' \in [Forwards -> 1..NumUpstreams]
          <5>1. CASE UNCHANGED upstream
            BY <5>1
          <5>2. CASE upstream[f] # NumUpstreams /\ upstream' = [upstream EXCEPT ![f] = @ + 1]
            <6>1. upstream[f] + 1 \in 1..NumUpstreams
              BY <5>2, CallsAssumption
            <6>2. QED BY <5>2, <6>1
          <5>3. QED
            BY <3>4, <5>1, <5>2 DEF ForwardReturns
        <4>2. QED
          BY SMTT(30), <3>4, <4>1 DEF ForwardReturns
      <3> HIDE DEF TypeOK
      <3>5. QED
        BY <2>4, <3>1, <3>2, <3>3, <3>4 DEF ForwardStep
    <2>5. CASE UNCHANGED vars
      BY <2>5 DEF vars
    <2> HIDE DEF TypeOK
    <2>6. QED
      BY <2>1, <2>2, <2>3, <2>4, <2>5 DEF Next
  <1>3. QED
    BY <1>2

\* Every reachable state of the gate, the calls and the forwards is well typed.
THEOREM TypeCorrect == Spec => []TypeOK
  <1>1. Init => TypeOK
    BY CallsAssumption DEF Init, InitGate, TypeOK
  <1>2. QED
    BY <1>1, TypePreserved, PTL DEF Spec

-----------------------------------------------------------------------------
(* The slots a goroutine owns follow from where it is *)

LEMMA LanesFollowPcInductive ==
  ASSUME TypeOK, LanesFollowPc, [Next]_vars
  PROVE  LanesFollowPc'
  <1> USE LaneNames DEF TypeOK, LanesFollowPc
  <1>1. ASSUME NEW c \in Calls, Begin(c) PROVE LanesFollowPc'
    BY SMTT(30), <1>1 DEF Begin, Goto, forwardVars
  <1>2. ASSUME NEW c \in Calls, CallStep(c) PROVE LanesFollowPc'
    <2>1. CASE CheckFanout(c)
      BY SMTT(30), <2>1 DEF CheckFanout, Goto, forwardVars
    <2>2. CASE AcquireFirst(c)
      BY SMTT(30), <2>2 DEF AcquireFirst, Goto, forwardVars
    <2>3. CASE TurnedAway(c)
      BY SMTT(30), <2>3 DEF TurnedAway, Finish, forwardVars
    <2>4. CASE AcquireSecond(c)
      <3>1. /\ exch'[<<c, "best">>] = "running" /\ exch'[<<c, "second">>] = "running"
            /\ \A l \in Lanes \ {<<c, "best">>, <<c, "second">>} : exch'[l] = exch[l]
        BY <2>4 DEF AcquireSecond
      <3>2. pc[c] = "acquire2" /\ pc' = [pc EXCEPT ![c] = "racing"] /\ UNCHANGED fpc
        BY <2>4 DEF AcquireSecond, Goto, forwardVars
      <3>3. QED
        BY SMTT(30), <3>1, <3>2
    <2>5. CASE SecondSaturated(c)
      BY SMTT(30), <2>5 DEF SecondSaturated, Goto, forwardVars
    <2>6. CASE GiveBackFirst(c)
      BY SMTT(30), <2>6 DEF GiveBackFirst, Goto, forwardVars
    <2>7. ASSUME NEW a \in Addrs, ReceiveAnswer(c, a) PROVE LanesFollowPc'
      BY SMTT(30), <2>7 DEF ReceiveAnswer, Answered, Finish, forwardVars
    <2>8. ASSUME NEW a \in Addrs, ReceiveError(c, a) PROVE LanesFollowPc'
      BY SMTT(30), <2>8 DEF ReceiveError, Finish, forwardVars
    <2>9. CASE SingleAcquire(c)
      BY SMTT(30), <2>9 DEF SingleAcquire, Goto, forwardVars
    <2>10. CASE SingleReturns(c)
      BY SMTT(30), <2>10 DEF SingleReturns, Answered, Finish, forwardVars
    <2>11. CASE HandleBadRcode(c)
      BY SMTT(30), <2>11 DEF HandleBadRcode, Finish, forwardVars
    <2>12. CASE RetryAcquire(c)
      BY SMTT(30), <2>12 DEF RetryAcquire, Goto, forwardVars
    <2>13. CASE RetryReturns(c)
      BY SMTT(30), <2>13 DEF RetryReturns, Finish, forwardVars
    <2> HIDE DEF TypeOK, LanesFollowPc
    <2>14. QED
      BY <1>2, <2>1, <2>2, <2>3, <2>4, <2>5, <2>6, <2>7, <2>8, <2>9, <2>10, <2>11, <2>12, <2>13
         DEF CallStep
  <1>3. ASSUME NEW c \in Calls, NEW a \in Addrs, RacerStep(c, a) PROVE LanesFollowPc'
    <2>1. CASE RacerReturns(c, a)
      <3>1. PICK o \in Outcomes : exch' = [exch EXCEPT ![<<c, a>>] = o]
        BY Zenon, <2>1 DEF RacerReturns
      <3>2. exch[<<c, a>>] = "running" /\ UNCHANGED <<pc, fpc>>
        BY <2>1 DEF RacerReturns, forwardVars
      <3>3. QED
        BY SMTT(30), <3>1, <3>2
    <2>2. CASE RacerSends(c, a)
      BY SMTT(30), <2>2 DEF RacerSends, forwardVars
    <2> HIDE DEF TypeOK, LanesFollowPc
    <2>3. QED
      BY <1>3, <2>1, <2>2 DEF RacerStep
  <1>4. ASSUME NEW f \in Forwards, ForwardBegin(f) \/ ForwardStep(f) PROVE LanesFollowPc'
    BY SMTT(30), <1>4 DEF ForwardBegin, ForwardStep, ForwardAcquire, ForwardSaturated, ForwardReturns
  <1>5. CASE UNCHANGED vars
    BY <1>5 DEF vars
  <1> HIDE DEF TypeOK, LanesFollowPc
  <1>6. QED
    BY <1>1, <1>2, <1>3, <1>4, <1>5 DEF Next

-----------------------------------------------------------------------------
(* What a step does to the slots *)

\* A lane's exchange changes: the lane joins or leaves the holders, and no
\* straggler appears when the lane is not a racer.
LEMMA LaneUpdate ==
  ASSUME TypeOK, NEW l \in Lanes, NEW v \in {"idle", "held", "running"} \cup Outcomes,
         exch' = [exch EXCEPT ![l] = v]
  PROVE  /\ v \in {"held", "running"} => Holders' = Holders \cup {l}
         /\ v \notin {"held", "running"} => Holders' = Holders \ {l}
         /\ l \notin Racers => Stragglers' = Stragglers
  <1>1. exch'[l] = v /\ \A m \in Lanes : m # l => exch'[m] = exch[m]
    BY DEF TypeOK
  <1>2. ASSUME v \in {"held", "running"} PROVE Holders' = Holders \cup {l}
    BY <1>1, <1>2 DEF Holders
  <1>3. ASSUME v \notin {"held", "running"} PROVE Holders' = Holders \ {l}
    BY <1>1, <1>3 DEF Holders
  <1>4. ASSUME l \notin Racers PROVE Stragglers' = Stragglers
    <2>1. \A m \in Racers : exch'[m] = exch[m]
      BY <1>1, <1>4, LanesFinite
    <2>2. \A m \in Racers, a \in Addrs : <<m[1], a>> \in Racers
      BY DEF Racers
    <2>3. QED
      BY Zenon, <2>1, <2>2 DEF Stragglers
  <1>5. QED
    BY <1>2, <1>3, <1>4

\* Racers come in pairs, and a straggler is known by its pair.
LEMMA RacerPairs ==
  /\ \A m \in Racers : m[1] \in Calls /\ m[2] \in Addrs /\ m = <<m[1], m[2]>>
  /\ \A m \in Racers, a \in Addrs : <<m[1], a>> \in Racers
  BY DEF Racers

\* A step keeps the slots as they are ...
Kept == UNCHANGED inflight /\ Holders' = Holders /\ Stragglers' = Stragglers

\* ... takes a slot for a lane that owns none ...
Taken == /\ tryAcquire
         /\ \E l \in Lanes \ Holders : Holders' = Holders \cup {l}
         /\ Stragglers' = Stragglers

\* ... or gives a lane's slot back; then at most one running racer, whose
\* partner gave the slot back, becomes a straggler.
Given == /\ release
         /\ \E l \in Holders :
              /\ Holders' = Holders \ {l}
              /\ \/ Stragglers' = Stragglers \ {l}
                 \/ \E m \in Holders \ (Stragglers \cup {l}) :
                       l \notin Stragglers /\ Stragglers' = Stragglers \cup {m}

LEMMA SameLanes ==
  ASSUME UNCHANGED <<inflight, exch>> PROVE Kept
  BY DEF Kept, Holders, Stragglers

\* A racer that is not running, before and after, leaves the stragglers alone
\* when its partner does not run either.
LEMMA QuietRacer ==
  ASSUME TypeOK, NEW c \in Calls, NEW a \in Addrs, NEW v \in {"idle", "held"} \cup Outcomes,
         exch[<<c, a>>] # "running", exch' = [exch EXCEPT ![<<c, a>>] = v]
  PROVE  Stragglers' = Stragglers
  <1>1. \A m \in Racers : m # <<c, a>> => exch'[m] = exch[m]
    BY LanesFinite DEF TypeOK
  <1>2. exch'[<<c, a>>] = v /\ v # "running"
    BY Zenon, LaneNames DEF TypeOK
  <1>3. \A m \in Racers, b \in Addrs : <<m[1], b>> \in Racers
    BY DEF Racers
  <1>4. \A m \in Racers : exch'[m] = "running" <=> exch[m] = "running"
    BY <1>1, <1>2
  <1>5. QED
    BY Zenon, <1>3, <1>4 DEF Stragglers

LEMMA SlotSteps ==
  ASSUME TypeOK, LanesFollowPc, [Next]_vars
  PROVE  Kept \/ Taken \/ Given
  <1>1. ASSUME NEW c \in Calls, Begin(c) PROVE Kept
    BY <1>1, SameLanes DEF Begin
  <1>2. ASSUME NEW c \in Calls, CallStep(c) PROVE Kept \/ Taken \/ Given
    <2>1. CASE CheckFanout(c)
      BY SMTT(30), <2>1, SameLanes DEF CheckFanout
    <2>2. CASE AcquireFirst(c)
      <3>1. exch[<<c, "best">>] = "idle" /\ <<c, "best">> \in Lanes
        BY Zenon, <2>2, LaneNames DEF AcquireFirst, Goto, LanesFollowPc
      <3>2. exch' = [exch EXCEPT ![<<c, "best">>] = "held"]
        BY <2>2 DEF AcquireFirst
      <3>3. Holders' = Holders \cup {<<c, "best">>} /\ <<c, "best">> \notin Holders
        BY Zenon, <3>1, <3>2, LaneUpdate DEF Holders
      <3>4. Stragglers' = Stragglers
        BY Zenon, <3>1, <3>2, QuietRacer
      <3>5. QED
        BY <2>2, <3>1, <3>3, <3>4 DEF AcquireFirst, Taken
    <2>3. CASE TurnedAway(c)
      BY <2>3, SameLanes DEF TurnedAway, Saturated
    <2>4. CASE AcquireSecond(c)
      <3>1. /\ exch'[<<c, "best">>] = "running" /\ exch'[<<c, "second">>] = "running"
            /\ \A l \in Lanes \ {<<c, "best">>, <<c, "second">>} : exch'[l] = exch[l]
        BY <2>4, LaneNames DEF AcquireSecond, TypeOK
      <3>2. exch[<<c, "best">>] = "held" /\ exch[<<c, "second">>] = "idle"
        BY Zenon, <2>4 DEF AcquireSecond, Goto, LanesFollowPc
      <3>3. Holders' = Holders \cup {<<c, "second">>}
        BY <3>1, <3>2, LaneNames DEF Holders
      <3>4. <<c, "second">> \in Lanes \ Holders
        BY <3>2, LaneNames DEF Holders
      <3>5. Stragglers' = Stragglers
        <4>1. \A m \in Racers : m[1] = c => m \notin Stragglers /\ m \notin Stragglers'
          <5>1. ASSUME NEW m \in Racers, m[1] = c PROVE m \notin Stragglers /\ m \notin Stragglers'
            <6>1. m = <<c, "best">> \/ m = <<c, "second">>
              BY <5>1, RacerPairs
            <6>2. exch[m] # "running"
              BY <6>1, <3>2
            <6>3. \A a \in Addrs : exch'[<<m[1], a>>] = "running"
              BY <5>1, <3>1
            <6>4. QED
              BY Zenon, <6>2, <6>3 DEF Stragglers
          <5>2. QED
            BY <5>1
        <4>2. \A m \in Racers : m[1] # c => \A a \in Addrs : exch'[<<m[1], a>>] = exch[<<m[1], a>>]
          BY Zenon, <3>1, LaneNames DEF Racers
        <4>3. \A m \in Racers : m[1] # c => exch'[m] = exch[m]
          BY ZenonT(60), <4>2, RacerPairs
        <4>4. \A m \in Racers : m[1] # c => (m \in Stragglers' <=> m \in Stragglers)
          BY Zenon, <4>2, <4>3 DEF Stragglers
        <4>5. QED
          BY Zenon, <4>1, <4>4 DEF Stragglers
      <3>6. QED
        BY <2>4, <3>3, <3>4, <3>5 DEF AcquireSecond, Taken
    <2>5. CASE SecondSaturated(c)
      BY <2>5, SameLanes DEF SecondSaturated, Saturated
    <2>6. CASE GiveBackFirst(c)
      <3>1. exch[<<c, "best">>] = "held" /\ <<c, "best">> \in Lanes
        BY Zenon, <2>6, LaneNames DEF GiveBackFirst, Goto, LanesFollowPc
      <3>2. exch' = [exch EXCEPT ![<<c, "best">>] = "idle"]
        BY <2>6 DEF GiveBackFirst
      <3>3. Holders' = Holders \ {<<c, "best">>} /\ <<c, "best">> \in Holders
        BY Zenon, <3>1, <3>2, LaneUpdate DEF Holders
      <3>4. Stragglers' = Stragglers /\ <<c, "best">> \notin Stragglers
        BY Zenon, <3>1, <3>2, QuietRacer DEF Stragglers
      <3>5. QED
        BY <2>6, <3>3, <3>4 DEF GiveBackFirst, Given
    <2>7. ASSUME NEW a \in Addrs, ReceiveAnswer(c, a) \/ ReceiveError(c, a) PROVE Kept
      BY <2>7, SameLanes DEF ReceiveAnswer, ReceiveError
    <2>8. CASE SingleAcquire(c) \/ RetryAcquire(c)
      <3>1. exch[<<c, "self">>] = "idle" /\ <<c, "self">> \in Lanes \ Racers
        BY Zenon, <2>8, LaneNames DEF SingleAcquire, RetryAcquire, Goto, LanesFollowPc, Racers
      <3>2. exch' = [exch EXCEPT ![<<c, "self">>] = "running"] /\ tryAcquire
        BY <2>8 DEF SingleAcquire, RetryAcquire
      <3>3. Holders' = Holders \cup {<<c, "self">>} /\ <<c, "self">> \notin Holders /\ Stragglers' = Stragglers
        BY Zenon, <3>1, <3>2, LaneUpdate DEF Holders
      <3>4. QED
        BY <3>1, <3>2, <3>3 DEF Taken
    <2>9. CASE SingleReturns(c) \/ RetryReturns(c)
      <3>1. exch[<<c, "self">>] = "running" /\ <<c, "self">> \in Lanes \ Racers
        BY Zenon, <2>9, LaneNames DEF SingleReturns, RetryReturns, LanesFollowPc, Racers
      <3>2. exch' = [exch EXCEPT ![<<c, "self">>] = "idle"] /\ release
        BY <2>9 DEF SingleReturns, RetryReturns
      <3>3. Holders' = Holders \ {<<c, "self">>} /\ <<c, "self">> \in Holders /\ Stragglers' = Stragglers
        <4>1. <<c, "self">> \in Holders
          BY <3>1, <3>2 DEF Holders
        <4>2. Holders' = Holders \ {<<c, "self">>}
          BY Zenon, <3>1, <3>2, LaneUpdate, "idle" \notin {"held", "running"}
        <4>3. Stragglers' = Stragglers
          BY Zenon, <3>1, <3>2, LaneUpdate
        <4>4. QED
          BY <4>1, <4>2, <4>3
      <3>4. QED
        <4>1. <<c, "self">> \notin Stragglers
          BY <3>1 DEF Stragglers
        <4>2. Stragglers' = Stragglers \ {<<c, "self">>}
          BY <3>3, <4>1
        <4>3. QED
          BY <3>2, <3>3, <4>2 DEF Given
    <2>10. CASE HandleBadRcode(c)
      BY <2>10, SameLanes DEF HandleBadRcode
    <2>11. QED
      BY <1>2, <2>1, <2>2, <2>3, <2>4, <2>5, <2>6, <2>7, <2>8, <2>9, <2>10 DEF CallStep
  <1>3. ASSUME NEW c \in Calls, NEW a \in Addrs, RacerReturns(c, a) PROVE Given
    <2>1. PICK o \in Outcomes : exch' = [exch EXCEPT ![<<c, a>>] = o]
      BY Zenon, <1>3 DEF RacerReturns
    <2>2. exch[<<c, a>>] = "running" /\ <<c, a>> \in Racers /\ <<c, a>> \in Lanes
      BY Zenon, <1>3, LaneNames DEF RacerReturns
    <2>3. Holders' = Holders \ {<<c, a>>} /\ <<c, a>> \in Holders
      BY Zenon, <2>1, <2>2, LaneUpdate DEF Holders
    <2>4. exch'[<<c, a>>] = o /\ \A m \in Racers : m # <<c, a>> => exch'[m] = exch[m]
      BY <2>1, <2>2, LanesFinite DEF TypeOK
    <2>5. PICK b \in Addrs : b # a /\ Addrs = {a, b}
      OBVIOUS
    <2>6. <<c, b>> \in Racers /\ <<c, b>> \in Lanes /\ <<c, b>> # <<c, a>>
      BY Zenon, <2>5, LaneNames
    <2>7. <<c, a>> \notin Stragglers'
      BY <2>4 DEF Stragglers
    <2>8. \A m \in Racers : m \notin {<<c, a>>, <<c, b>>} => (m \in Stragglers' <=> m \in Stragglers)
      <3>1. ASSUME NEW m \in Racers, m \notin {<<c, a>>, <<c, b>>}
            PROVE  m \in Stragglers' <=> m \in Stragglers
        <4>1. m[1] # c
          BY <2>5, <3>1, RacerPairs
        <4>2. exch'[m] = exch[m]
          BY <2>4, <3>1
        <4>3. \A x \in Addrs : exch'[<<m[1], x>>] = exch[<<m[1], x>>]
          BY <2>4, <4>1, RacerPairs
        <4>4. QED
          BY <4>2, <4>3 DEF Stragglers
      <3>2. QED
        BY <3>1
    <2>9. CASE exch[<<c, b>>] = "running"
      <3>1. <<c, a>> \notin Stragglers /\ <<c, b>> \notin Stragglers
        BY Zenon, <2>2, <2>5, <2>9 DEF Stragglers
      <3>2. <<c, b>> \in Stragglers'
        <4>1. exch'[<<c, b>>] = "running"
          BY <2>4, <2>6, <2>9
        <4>2. a \in Addrs \ {b} /\ exch'[<<c, a>>] # "running"
          BY <2>4, <2>5
        <4>3. QED
          BY <2>6, <4>1, <4>2 DEF Stragglers
      <3>3. Stragglers' = Stragglers \cup {<<c, b>>}
        <4>1. \A m : m \in Stragglers' => m \in Racers
          BY DEF Stragglers
        <4>2. \A m : m \in Stragglers => m \in Racers
          BY DEF Stragglers
        <4>3. QED
          BY <2>7, <2>8, <3>1, <3>2, <4>1, <4>2
      <3>4. <<c, b>> \in Holders
        BY <2>6, <2>9 DEF Holders
      <3>5. QED
        BY <1>3, <2>3, <2>6, <3>1, <3>3, <3>4 DEF Given, RacerReturns
    <2>10. CASE exch[<<c, b>>] # "running"
      <3>1. <<c, b>> \notin Stragglers /\ <<c, b>> \notin Stragglers'
        BY <2>4, <2>6, <2>10 DEF Stragglers
      <3>2. Stragglers' = Stragglers \ {<<c, a>>}
        <4>1. \A m : m \in Stragglers' => m \in Racers
          BY DEF Stragglers
        <4>2. \A m : m \in Stragglers => m \in Racers
          BY DEF Stragglers
        <4>3. QED
          BY <2>7, <2>8, <3>1, <4>1, <4>2
      <3>3. QED
        BY <1>3, <2>3, <3>2 DEF Given, RacerReturns
    <2>11. QED
      BY <2>9, <2>10
  <1>4. ASSUME NEW c \in Calls, NEW a \in Addrs, RacerSends(c, a) PROVE Kept
    <2>1. exch[<<c, a>>] \in Outcomes /\ exch' = [exch EXCEPT ![<<c, a>>] = "idle"]
      BY <1>4 DEF RacerSends
    <2>2. Stragglers' = Stragglers
      BY Zenon, <2>1, QuietRacer
    <2>3. Holders' = Holders
      BY SMTT(90), <2>1, LaneNames, LaneUpdate DEF Holders
    <2>4. QED
      BY <1>4, <2>2, <2>3 DEF Kept, RacerSends
  <1>5. ASSUME NEW f \in Forwards, ForwardBegin(f) \/ ForwardStep(f) PROVE Kept \/ Taken \/ Given
    <2>0. <<f, "forward">> \in Lanes \ Racers
      BY LaneNames DEF Racers
    <2>1. CASE ForwardBegin(f) \/ ForwardSaturated(f)
      BY <2>1, SameLanes DEF ForwardBegin, ForwardSaturated, Saturated
    <2>2. CASE ForwardAcquire(f)
      <3>1. exch[<<f, "forward">>] = "idle" /\ exch' = [exch EXCEPT ![<<f, "forward">>] = "running"]
        BY <2>2 DEF ForwardAcquire, LanesFollowPc
      <3>2. Holders' = Holders \cup {<<f, "forward">>} /\ <<f, "forward">> \notin Holders /\ Stragglers' = Stragglers
        BY Zenon, <2>0, <3>1, LaneUpdate DEF Holders
      <3>3. QED
        BY <2>0, <2>2, <3>2 DEF Taken, ForwardAcquire
    <2>3. CASE ForwardReturns(f)
      <3>1. exch[<<f, "forward">>] = "running" /\ exch' = [exch EXCEPT ![<<f, "forward">>] = "idle"]
        BY <2>3 DEF ForwardReturns, LanesFollowPc
      <3>2. Holders' = Holders \ {<<f, "forward">>} /\ <<f, "forward">> \in Holders /\ Stragglers' = Stragglers
        <4>1. <<f, "forward">> \in Holders
          BY <2>0, <3>1 DEF Holders
        <4>2. Holders' = Holders \ {<<f, "forward">>}
          BY Zenon, <2>0, <3>1, LaneUpdate, "idle" \notin {"held", "running"}
        <4>3. Stragglers' = Stragglers
          BY Zenon, <2>0, <3>1, LaneUpdate
        <4>4. QED
          BY <4>1, <4>2, <4>3
      <3>3. <<f, "forward">> \notin Stragglers
        BY <2>0 DEF Stragglers
      <3>4. Stragglers' = Stragglers \ {<<f, "forward">>}
        BY <3>2, <3>3
      <3>5. QED
        BY <2>3, <3>2, <3>4 DEF Given, ForwardReturns
    <2>4. QED
      BY <1>5, <2>1, <2>2, <2>3 DEF ForwardStep
  <1>6. CASE UNCHANGED vars
    BY <1>6, SameLanes DEF vars
  <1>7. QED
    BY <1>1, <1>2, <1>3, <1>4, <1>5, <1>6 DEF Next, RacerStep

-----------------------------------------------------------------------------
(* The gate *)

\* The inductive invariant: slots follow the program counters, the counter
\* counts them, and neither the holders nor the stragglers overrun the limit.
GateInv == TypeOK /\ LanesFollowPc /\ SlotAccounting /\ GateBound /\ StragglersLeaveRoom

LEMMA GateInvInitially == Init => GateInv
  <1> SUFFICES ASSUME Init PROVE GateInv
    OBVIOUS
  <1>1. TypeOK
    BY CallsAssumption DEF Init, InitGate, TypeOK
  <1>2. LanesFollowPc
    BY LaneNames DEF Init, LanesFollowPc
  <1>3. Holders = {} /\ Stragglers = {}
    BY LanesFinite DEF Init, Holders, Stragglers
  <1>4. Cardinality(Holders) = 0 /\ Cardinality(Stragglers) = 0
    BY <1>3, FS_EmptySet
  <1>5. QED
    BY <1>1, <1>2, <1>4, LimitPositive
       DEF Init, InitGate, GateInv, SlotAccounting, GateBound, StragglersLeaveRoom

LEMMA GateInvInductive == GateInv /\ [Next]_vars => GateInv'
  <1> SUFFICES ASSUME GateInv, [Next]_vars PROVE GateInv'
    OBVIOUS
  <1>0. TypeOK /\ LanesFollowPc
    BY DEF GateInv
  <1>1. Kept \/ Taken \/ Given
    BY <1>0, SlotSteps
  <1>2. TypeOK'
    BY TypePreserved DEF GateInv
  <1>3. LanesFollowPc'
    BY LanesFollowPcInductive DEF GateInv
  <1>4. /\ IsFiniteSet(Holders) /\ Cardinality(Holders) \in Nat
        /\ IsFiniteSet(Stragglers) /\ Cardinality(Stragglers) \in Nat
        /\ inflight = Cardinality(Holders) /\ inflight <= limit
        /\ Cardinality(Stragglers) <= limit - 1 /\ limit \in Nat \ {0}
    BY HoldersFinite, LimitPositive DEF GateInv, SlotAccounting, GateBound, StragglersLeaveRoom
  <1> DEFINE Goal == /\ inflight' = Cardinality(Holders')
                     /\ Cardinality(Holders') <= limit
                     /\ Cardinality(Stragglers') <= limit - 1
  <1>5. ASSUME Kept PROVE Goal
    BY <1>4, <1>5 DEF Kept
  <1>6. ASSUME Taken PROVE Goal
    <2>1. PICK l \in Lanes \ Holders : Holders' = Holders \cup {l}
      BY <1>6 DEF Taken
    <2>2. Cardinality(Holders') = Cardinality(Holders) + 1
      BY Zenon, <1>4, <2>1, FS_AddElement
    <2>3. QED
      BY <1>4, <1>6, <2>2 DEF Taken, tryAcquire
  <1>7. ASSUME Given PROVE Goal
    <2>1. PICK l \in Holders :
            /\ Holders' = Holders \ {l}
            /\ \/ Stragglers' = Stragglers \ {l}
               \/ \E m \in Holders \ (Stragglers \cup {l}) :
                     l \notin Stragglers /\ Stragglers' = Stragglers \cup {m}
      BY <1>7 DEF Given
    <2>2. Cardinality(Holders') = Cardinality(Holders) - 1
      BY Zenon, <1>4, <2>1, FS_RemoveElement
    <2>3. inflight' = Cardinality(Holders') /\ Cardinality(Holders') <= limit
      <3>1. inflight > 0
        <4>1. Holders' \subseteq Holders /\ Holders' \in SUBSET Holders
          BY <2>1
        <4>2. Cardinality(Holders') \in Nat
          BY <1>4, <4>1, FS_Subset, FS_CardinalityType
        <4>3. QED
          BY <1>4, <2>2, <4>2
      <3>2. QED
        BY <1>4, <1>7, <2>2, <3>1 DEF Given, release
    <2>4. Cardinality(Stragglers') <= limit - 1
      <3>1. CASE Stragglers' = Stragglers \ {l}
        <4>1. Stragglers' \subseteq Stragglers /\ Stragglers' \in SUBSET Stragglers
          BY <3>1
        <4>2. Cardinality(Stragglers') <= Cardinality(Stragglers) /\ Cardinality(Stragglers') \in Nat
          BY <1>4, <4>1, FS_Subset, FS_CardinalityType
        <4>3. QED
          BY <1>4, <4>2
      <3>2. ASSUME NEW m \in Holders \ (Stragglers \cup {l}),
                   l \notin Stragglers, Stragglers' = Stragglers \cup {m}
            PROVE  Cardinality(Stragglers') <= limit - 1
        <4>1. Cardinality(Stragglers') = Cardinality(Stragglers) + 1 /\ IsFiniteSet(Stragglers')
          BY <1>4, <3>2, FS_AddElement
        <4>2. l \notin Stragglers'
          BY <3>2
        <4>3. Cardinality(Stragglers' \cup {l}) = Cardinality(Stragglers') + 1
          BY Zenon, <4>1, <4>2, FS_AddElement
        <4>4. Stragglers' \cup {l} \subseteq Holders
          BY SMTT(30), <3>2, LanesFinite DEF Stragglers, Holders
        <4>5. Cardinality(Stragglers' \cup {l}) <= Cardinality(Holders)
          BY <1>4, <4>4, FS_Subset
        <4>6. QED
          BY <1>4, <4>1, <4>3, <4>5
      <3>3. QED
        BY <2>1, <3>1, <3>2
    <2>5. QED
      BY <2>3, <2>4
  <1>8. Goal
    BY <1>1, <1>5, <1>6, <1>7
  <1>9. QED
    BY <1>2, <1>3, <1>8 DEF GateInv, SlotAccounting, GateBound, StragglersLeaveRoom, limit

\* The gate's counter is exact, its bound holds, and the losers of races
\* never fill it: for every limit, every number of calls and of forwards.
THEOREM GateSafe == Spec => [](SlotAccounting /\ GateBound /\ StragglersLeaveRoom)
  <1>1. GateInv => SlotAccounting /\ GateBound /\ StragglersLeaveRoom
    BY DEF GateInv
  <1>2. QED
    BY <1>1, GateInvInitially, GateInvInductive, PTL DEF Spec

\* At most limit exchanges are on the wire (tryAcquire is the only way to a slot).
THEOREM GateBounded == Spec => []GateBound
  BY GateSafe, PTL

\* The racers queryHappyEyeballs leaves behind never fill the gate.
THEOREM StragglersBounded == Spec => []StragglersLeaveRoom
  BY GateSafe, PTL

-----------------------------------------------------------------------------
(* The race and its blame *)

\* Where a call is tells what is left of its race: nothing was sent before
\* the racers are launched, a racer that has sent is gone, a single query has
\* no racers, and the racer whose answer handle looks at is gone.
RaceLeft(c) ==
    /\ pc[c] \in {"fanout", "acquire1", "acquire2", "undo"} =>
         \A a \in Addrs : resultCh[<<c, a>>] = "empty"
    /\ \A a \in Addrs : resultCh[<<c, a>>] # "empty" => exch[<<c, a>>] = "idle"
    /\ pc[c] \in {"single", "waiting"} => \A a \in Addrs : exch[<<c, a>>] = "idle"
    /\ pc[c] \in {"bad", "retry", "retrying"} => exch[<<c, winner[c]>>] = "idle"

\* Whatever may still lead to a RecordFailure was a fault of that address: an
\* outcome on its way to the channel or in it, and the winner's bad Rcode.
BlameDeserved(c) ==
    /\ \A a \in Addrs :
         exch[<<c, a>>] \in {"badRcode", "err"} \/ resultCh[<<c, a>>] \in {"badRcode", "err"}
           => a \in faulty[c]
    /\ pc[c] = "bad" => winner[c] \in faulty[c]
    /\ blamed[c] \subseteq faulty[c]

\* What the two say of a call depends on these parts of the state alone.
Own(c) == <<pc[c], winner[c], blamed[c], faulty[c],
            exch[<<c, "best">>], exch[<<c, "second">>],
            resultCh[<<c, "best">>], resultCh[<<c, "second">>]>>

LEMMA OwnUnchanged ==
  ASSUME TypeOK, NEW c \in Calls, RaceLeft(c), BlameDeserved(c), UNCHANGED Own(c)
  PROVE  RaceLeft(c)' /\ BlameDeserved(c)'
  <1>1. winner[c] \in Addrs
    BY DEF TypeOK
  <1>2. QED
    BY <1>1 DEF Own, RaceLeft, BlameDeserved

LEMMA OthersUntouched ==
  ASSUME TypeOK, NEW c \in Calls, NEW d \in Calls, d # c,
         Begin(c) \/ CallStep(c) \/ \E a \in Addrs : RacerStep(c, a)
  PROVE  UNCHANGED Own(d)
  <1> USE LaneNames DEF TypeOK, Own, poolVars
  <1>1. CASE Begin(c)
    BY <1>1 DEF Begin, Goto
  <1>2. CASE CallStep(c)
    <2>1. CASE CheckFanout(c) \/ AcquireFirst(c) \/ TurnedAway(c)
      BY <2>1 DEF CheckFanout, AcquireFirst, TurnedAway, Goto, Finish
    <2>2. CASE AcquireSecond(c) \/ SecondSaturated(c) \/ GiveBackFirst(c)
      BY <2>2 DEF AcquireSecond, SecondSaturated, GiveBackFirst, Goto
    <2>3. ASSUME NEW a \in Addrs, ReceiveAnswer(c, a) PROVE UNCHANGED Own(d)
      BY <2>3 DEF ReceiveAnswer, Answered, Finish
    <2>4. ASSUME NEW a \in Addrs, ReceiveError(c, a) PROVE UNCHANGED Own(d)
      BY <2>4 DEF ReceiveError, RecordFailure, Finish
    <2>5. CASE SingleAcquire(c) \/ RetryAcquire(c)
      BY <2>5 DEF SingleAcquire, RetryAcquire, Goto
    <2>6. CASE SingleReturns(c)
      BY <2>6 DEF SingleReturns, Answered, Finish, RecordFailure, NoteFault
    <2>7. CASE HandleBadRcode(c)
      BY <2>7 DEF HandleBadRcode, RecordFailure, Finish
    <2>8. CASE RetryReturns(c)
      BY <2>8 DEF RetryReturns, RecordFailure, NoteFault, Finish
    <2>9. QED
      BY <1>2, <2>1, <2>2, <2>3, <2>4, <2>5, <2>6, <2>7, <2>8, Zenon DEF CallStep
  <1>3. ASSUME NEW a \in Addrs, RacerStep(c, a) PROVE UNCHANGED Own(d)
    BY SMTT(60), <1>3 DEF RacerStep, RacerReturns, RacerSends, NoteFault
  <1>4. QED
    BY <1>1, <1>2, <1>3, Zenon

LEMMA OwnStep ==
  ASSUME TypeOK, LanesFollowPc, NEW c \in Calls, RaceLeft(c), BlameDeserved(c),
         Begin(c) \/ CallStep(c) \/ \E a \in Addrs : RacerStep(c, a)
  PROVE  RaceLeft(c)' /\ BlameDeserved(c)'
  <1>0. /\ pc[c] \in {"acquire2", "undo"} <=> exch[<<c, "best">>] = "held"
        /\ pc[c] \in {"fanout", "acquire1", "acquire2", "undo"} => exch[<<c, "second">>] = "idle"
        /\ pc[c] \in {"fanout", "acquire1"} => exch[<<c, "best">>] = "idle"
    BY Zenon DEF LanesFollowPc
  <1> USE LaneNames DEF TypeOK, LanesFollowPc, RaceLeft, BlameDeserved
  <1>1. CASE Begin(c)
    BY <1>1 DEF Begin, Goto
  <1>2. CASE CallStep(c)
    <2>1. CASE CheckFanout(c)
      <3>1. pc[c] = "fanout" /\ pc'[c] \in {"single", "acquire1"}
        BY <2>1 DEF CheckFanout, Goto
      <3>2. UNCHANGED <<exch, resultCh, winner, blamed, faulty>>
        BY <2>1 DEF CheckFanout, poolVars
      <3>3. exch[<<c, "best">>] = "idle" /\ exch[<<c, "second">>] = "idle"
        BY <1>0, <3>1
      <3>4. QED
        BY <3>1, <3>2, <3>3
    <2>2. CASE AcquireFirst(c)
      BY SMTT(60), <2>2 DEF AcquireFirst, Goto, poolVars
    <2>3. CASE TurnedAway(c)
      BY SMTT(60), <2>3 DEF TurnedAway, Finish, poolVars
    <2>4. CASE AcquireSecond(c)
      BY SMTT(60), <2>4 DEF AcquireSecond, Goto, poolVars
    <2>5. CASE SecondSaturated(c)
      BY SMTT(60), <2>5 DEF SecondSaturated, Goto, poolVars
    <2>6. CASE GiveBackFirst(c)
      <3>1. pc[c] = "undo" /\ pc'[c] = "single"
        BY <2>6 DEF GiveBackFirst, Goto
      <3>2. UNCHANGED <<resultCh, winner, blamed, faulty>>
        BY <2>6 DEF GiveBackFirst, poolVars
      <3>3. exch'[<<c, "best">>] = "idle" /\ exch'[<<c, "second">>] = "idle"
        <4>1. exch[<<c, "second">>] = "idle"
          BY <1>0, <3>1
        <4>2. exch' = [exch EXCEPT ![<<c, "best">>] = "idle"]
          BY <2>6 DEF GiveBackFirst
        <4>3. QED
          BY <4>1, <4>2
      <3>4. QED
        BY <3>1, <3>2, <3>3
    <2>7. ASSUME NEW a \in Addrs, ReceiveAnswer(c, a) PROVE RaceLeft(c)' /\ BlameDeserved(c)'
      <3>0. /\ UNCHANGED <<exch, blamed, faulty>> /\ resultCh[<<c, a>>] # "empty"
            /\ Answered(c, a, resultCh[<<c, a>>])
        BY <2>7 DEF ReceiveAnswer, poolVars, Outcomes
      <3>1. \/ pc'[c] = "idle"
            \/ pc'[c] = "bad" /\ winner'[c] = a /\ resultCh[<<c, a>>] = "badRcode"
        BY <3>0 DEF Answered, Finish
      <3>2. \A b \in Addrs : resultCh'[<<c, b>>] = IF b = a THEN "empty" ELSE resultCh[<<c, b>>]
        BY <2>7 DEF ReceiveAnswer
      <3>3. RaceLeft(c)'
        BY <3>0, <3>1, <3>2
      <3>4. BlameDeserved(c)'
        BY <3>0, <3>1, <3>2
      <3>5. QED
        BY <3>3, <3>4
    <2>8. ASSUME NEW a \in Addrs, ReceiveError(c, a) PROVE RaceLeft(c)' /\ BlameDeserved(c)'
      <3>1. /\ UNCHANGED <<exch, faulty>> /\ resultCh[<<c, a>>] = "err"
            /\ pc'[c] \in {"idle", "lastRacer"} /\ blamed'[c] = blamed[c] \cup {a}
        BY <2>8 DEF ReceiveError, RecordFailure, Finish, poolVars
      <3>2. \A b \in Addrs : resultCh'[<<c, b>>] = IF b = a THEN "empty" ELSE resultCh[<<c, b>>]
        BY <2>8 DEF ReceiveError
      <3>3. QED
        BY <3>1, <3>2
    <2>9. CASE SingleAcquire(c)
      BY SMTT(60), <2>9 DEF SingleAcquire, Goto, poolVars
    <2>10. CASE SingleReturns(c)
      BY SMTT(60), <2>10 DEF SingleReturns, Answered, Finish, RecordFailure, NoteFault, poolVars
    <2>11. CASE HandleBadRcode(c)
      BY SMTT(60), <2>11 DEF HandleBadRcode, RecordFailure, Finish, poolVars
    <2>12. CASE RetryAcquire(c)
      BY SMTT(60), <2>12 DEF RetryAcquire, Goto, poolVars
    <2>13. CASE RetryReturns(c)
      BY SMTT(60), <2>13 DEF RetryReturns, AltAddr, RecordFailure, NoteFault, Finish, poolVars
    <2> HIDE DEF TypeOK, LanesFollowPc, RaceLeft, BlameDeserved
    <2>14. QED
      BY <1>2, <2>1, <2>2, <2>3, <2>4, <2>5, <2>6, <2>7, <2>8, <2>9, <2>10, <2>11, <2>12, <2>13
         DEF CallStep
  <1>3. ASSUME NEW a \in Addrs, RacerReturns(c, a) PROVE RaceLeft(c)' /\ BlameDeserved(c)'
    <2>1. PICK o \in Outcomes : exch' = [exch EXCEPT ![<<c, a>>] = o] /\ NoteFault(c, a, o)
      BY Zenon, <1>3 DEF RacerReturns
    <2>2. exch[<<c, a>>] = "running" /\ UNCHANGED <<pc, resultCh, winner, blamed>>
      BY <1>3 DEF RacerReturns
    <2>3. QED
      BY SMTT(60), <2>1, <2>2 DEF NoteFault
  <1>4. ASSUME NEW a \in Addrs, RacerSends(c, a) PROVE RaceLeft(c)' /\ BlameDeserved(c)'
    <2>1. exch[<<c, a>>] \in Outcomes /\ UNCHANGED <<pc, winner, blamed, faulty>>
      BY <1>4 DEF RacerSends, poolVars
    <2>2. exch'[<<c, a>>] = "idle" /\ resultCh'[<<c, a>>] = exch[<<c, a>>]
      <3>1. /\ exch' = [exch EXCEPT ![<<c, a>>] = "idle"]
            /\ resultCh' = [resultCh EXCEPT ![<<c, a>>] = exch[<<c, a>>]]
        BY <1>4 DEF RacerSends
      <3>2. exch \in [Lanes -> {"idle", "held", "running"} \cup Outcomes]
            /\ resultCh \in [Racers -> {"empty"} \cup Outcomes]
        BY DEF TypeOK
      <3> HIDE DEF TypeOK, LanesFollowPc, RaceLeft, BlameDeserved
      <3>3. QED
        BY <3>1, <3>2, Zenon
    <2>3. \A b \in Addrs : b # a => /\ exch'[<<c, b>>] = exch[<<c, b>>]
                                    /\ resultCh'[<<c, b>>] = resultCh[<<c, b>>]
      BY <1>4 DEF RacerSends
    <2>4. pc[c] \notin {"fanout", "acquire1", "acquire2", "undo", "single", "waiting"}
      BY <2>1, Zenon
    <2>5. winner[c] # a => exch'[<<c, winner[c]>>] = exch[<<c, winner[c]>>]
      BY <2>3
    <2>6. RaceLeft(c)'
      BY <2>1, <2>2, <2>3, <2>4, <2>5
    <2>7. BlameDeserved(c)'
      BY <2>1, <2>2, <2>3
    <2>8. QED
      BY <2>6, <2>7
  <1> HIDE DEF TypeOK, LanesFollowPc, RaceLeft, BlameDeserved
  <1>5. QED
    BY <1>1, <1>2, <1>3, <1>4 DEF RacerStep

\* The inductive invariant of the race.
RaceInv == GateInv /\ \A c \in Calls : RaceLeft(c) /\ BlameDeserved(c)

LEMMA RaceInvInitially == Init => RaceInv
  <1> SUFFICES ASSUME Init PROVE RaceInv
    OBVIOUS
  <1>1. ASSUME NEW c \in Calls PROVE RaceLeft(c) /\ BlameDeserved(c)
    BY LaneNames DEF Init, RaceLeft, BlameDeserved
  <1>2. QED
    BY <1>1, GateInvInitially DEF RaceInv

LEMMA RaceInvInductive == RaceInv /\ [Next]_vars => RaceInv'
  <1> SUFFICES ASSUME RaceInv, [Next]_vars PROVE RaceInv'
    OBVIOUS
  <1>1. GateInv' /\ TypeOK /\ LanesFollowPc
    BY GateInvInductive DEF RaceInv, GateInv
  <1>2. ASSUME NEW d \in Calls PROVE RaceLeft(d)' /\ BlameDeserved(d)'
    <2>1. RaceLeft(d) /\ BlameDeserved(d)
      BY DEF RaceInv
    <2>2. ASSUME NEW c \in Calls, Begin(c) \/ CallStep(c) \/ \E a \in Addrs : RacerStep(c, a)
          PROVE  RaceLeft(d)' /\ BlameDeserved(d)'
      BY <1>1, <2>1, <2>2, OwnStep, OthersUntouched, OwnUnchanged
    <2>3. ASSUME NEW f \in Forwards, ForwardBegin(f) \/ ForwardStep(f) PROVE UNCHANGED Own(d)
      <3>1. UNCHANGED <<pc, winner, resultCh, blamed, faulty>>
        BY <2>3 DEF ForwardBegin, ForwardStep, ForwardAcquire, ForwardSaturated, ForwardReturns, poolVars
      <3>2. exch'[<<d, "best">>] = exch[<<d, "best">>] /\ exch'[<<d, "second">>] = exch[<<d, "second">>]
        BY <1>1, <2>3, LaneNames
           DEF TypeOK, ForwardBegin, ForwardStep, ForwardAcquire, ForwardSaturated, ForwardReturns
      <3>3. QED
        BY <3>1, <3>2 DEF Own
    <2>4. ASSUME UNCHANGED vars PROVE UNCHANGED Own(d)
      BY <2>4 DEF vars, Own
    <2>5. QED
      BY <1>1, <2>1, <2>2, <2>3, <2>4, OwnUnchanged DEF Next
  <1>3. QED
    BY <1>1, <1>2 DEF RaceInv

\* RecordFailure only ever hits an address at which the same call saw a
\* failure or a bad Rcode, in whatever order the racers' results, the retry
\* and a saturated gate come: for every limit and every number of calls.
THEOREM BlameSafe == Spec => []NoUndeservedBlame
  <1>1. RaceInv => NoUndeservedBlame
    BY Zenon DEF RaceInv, BlameDeserved, NoUndeservedBlame
  <1>2. QED
    BY <1>1, RaceInvInitially, RaceInvInductive, PTL DEF Spec

\* A call that is about to ask the gate owns at most one slot itself.
LEMMA AskingHoldsOne ==
  ASSUME RaceInv, NEW c \in Calls, pc[c] \in {"acquire1", "single", "retry"}
  PROVE  \E l : Holders \ OthersHold(c) \subseteq {l}
  <1>1. TypeOK /\ LanesFollowPc /\ RaceLeft(c)
    BY DEF RaceInv, GateInv
  <1>2. exch[<<c, "self">>] = "idle" /\ exch[<<c, "best">>] # "held" /\ exch[<<c, "second">>] # "held"
    BY <1>1 DEF LanesFollowPc
  <1>3. PICK a \in Addrs : exch[<<c, a>>] = "idle"
    <2>1. CASE pc[c] = "acquire1"
      BY <1>1, <2>1, Zenon DEF LanesFollowPc, Addrs
    <2>2. CASE pc[c] = "single"
      BY <1>1, <2>2, Zenon DEF RaceLeft, Addrs
    <2>3. CASE pc[c] = "retry"
      BY <1>1, <2>3, Zenon DEF RaceLeft, TypeOK
    <2>4. QED
      BY <2>1, <2>2, <2>3, Zenon
  <1>4. PICK b \in Addrs : Addrs = {a, b}
    OBVIOUS
  <1>5. Holders \ OthersHold(c) \subseteq {<<c, b>>}
    <2>1. ASSUME NEW l \in Holders \ OthersHold(c) PROVE l = <<c, b>>
      <3>1. l \in {c} \X (Addrs \cup {"self"}) /\ exch[l] # "idle"
        BY <2>1 DEF OthersHold, Holders
      <3>2. PICK x \in Addrs \cup {"self"} : l = <<c, x>>
        BY <3>1
      <3>3. x # "self" /\ x # a
        BY <1>2, <1>3, <3>1, <3>2
      <3>4. QED
        BY <1>4, <3>2, <3>3
    <2>2. QED
      BY <2>1
  <1>6. QED
    BY <1>5

\* A call is refused by the gate only when others own all its slots but one:
\* a call never turns itself away with slots it forgot to give back.
THEOREM OnlyOthersTurnAway == Spec => TurnedAwayByOthers
  <1>1. ASSUME RaceInv, NEW c \in Calls, TurnedAway(c)
        PROVE  Cardinality(OthersHold(c)) >= limit - 1
    <2>1. PICK l : Holders \ OthersHold(c) \subseteq {l}
      BY <1>1, AskingHoldsOne DEF TurnedAway
    <2>2. Cardinality(Holders) >= limit
      BY <1>1, HoldersFinite DEF TurnedAway, Saturated, RaceInv, GateInv, SlotAccounting
    <2>3. Holders \ {l} \subseteq OthersHold(c) /\ OthersHold(c) \subseteq Holders
      BY <2>1 DEF OthersHold
    <2>4. /\ IsFiniteSet(OthersHold(c)) /\ Cardinality(OthersHold(c)) \in Nat
          /\ Cardinality(Holders \ {l}) <= Cardinality(OthersHold(c))
      BY <2>3, HoldersFinite, FS_Subset, FS_CardinalityType
    <2>5. Cardinality(Holders \ {l}) >= Cardinality(Holders) - 1
      BY HoldersFinite, FS_RemoveElement
    <2>6. Cardinality(Holders \ {l}) \in Nat
      BY <2>3, <2>4, FS_Subset, FS_CardinalityType
    <2>7. QED
      BY <2>2, <2>4, <2>5, <2>6, HoldersFinite, LimitPositive
  <1>2. RaceInv /\ [Next]_vars =>
          [\A c \in Calls : TurnedAway(c) => Cardinality(OthersHold(c)) >= limit - 1]_vars
    BY <1>1
  <1>3. QED
    BY <1>2, RaceInvInitially, RaceInvInductive, PTL DEF Spec, TurnedAwayByOthers

=============================================================================

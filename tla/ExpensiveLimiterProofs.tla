----------------------- MODULE ExpensiveLimiterProofs -----------------------
(***************************************************************************)
(* Proofs about the limit on expensive requests, for any limit and any     *)
(* finite number of requests and of sub-queries.                           *)
(***************************************************************************)
EXTENDS ExpensiveLimiter, FiniteSetTheorems, TLAPS

GoroutinePc == Returned \cup {"check", "enter", "client", "undo", "commit", "surplus", "surplusZone"}

\* One goroutine moves: the others stay where they are.
LEMMA LaneMoves ==
  ASSUME TypeOK, NEW r \in Requests, NEW g \in Goroutines, NEW x \in GoroutinePc, Goto(r, g, x)
  PROVE  /\ gpc' \in [Lanes -> GoroutinePc]
         /\ gpc'[<<r, g>>] = x
         /\ \A q \in Requests, h \in Goroutines :
              <<q, h>> # <<r, g>> => gpc'[<<q, h>>] = gpc[<<q, h>>]
  BY DEF TypeOK, Goto, Lanes, GoroutinePc

\* GoUpstream starts some of the request's workers and no one else.
LEMMA LanesStart ==
  ASSUME TypeOK, NEW r \in Requests, NEW ws \in SUBSET Workers,
         gpc' = [l \in Lanes |-> IF l[1] = r /\ l[2] \in ws THEN "check" ELSE gpc[l]]
  PROVE  /\ gpc' \in [Lanes -> GoroutinePc]
         /\ \A q \in Requests, h \in Goroutines :
              gpc'[<<q, h>>] = IF q = r /\ h \in ws THEN "check" ELSE gpc[<<q, h>>]
  BY DEF TypeOK, Lanes, GoroutinePc

\* Leave ends every goroutine of the request and no one else's.
LEMMA LanesEnd ==
  ASSUME TypeOK, NEW r \in Requests, Leave(r)
  PROVE  /\ gpc' \in [Lanes -> GoroutinePc]
         /\ \A q \in Requests, h \in Goroutines :
              gpc'[<<q, h>>] = IF q = r THEN "idle" ELSE gpc[<<q, h>>]
  BY DEF TypeOK, Leave, Lanes, GoroutinePc, Returned

-----------------------------------------------------------------------------
(* Type correctness *)

\* Every step of holder.TryAcquire keeps the types.
LEMMA GoroutineTyped ==
  ASSUME TypeOK, NEW r \in Requests, NEW g \in Goroutines, TryAcquireStep(r, g)
  PROVE  TypeOK'
  <1>0. ClientOf[r] \in Clients /\ inflight[ClientOf[r]] \in Nat /\ <<r, g>> \in Lanes
    BY LimiterAssumption DEF TypeOK, Lanes
  <1>1. CASE Check(r, g)
    <2>1. \E x \in {"allowed", "enter"} : Goto(r, g, x)
      BY <1>1 DEF Check
    <2>2. gpc' \in [Lanes -> GoroutinePc]
      BY <2>1, LaneMoves DEF GoroutinePc, Returned
    <2>3. QED
      BY <1>1, <2>2 DEF Check, TypeOK, GoroutinePc, holderVars
  <1>2. CASE EnterHotZone(r, g)
    <2>1. \E x \in {"client", "refused"} : Goto(r, g, x)
      BY <1>2 DEF EnterHotZone
    <2>2. gpc' \in [Lanes -> GoroutinePc]
      BY <2>1, LaneMoves DEF GoroutinePc, Returned
    <2>3. active' \subseteq Lanes
      BY <1>2, <1>0 DEF EnterHotZone, TypeOK
    <2>4. QED
      BY <1>2, <2>2, <2>3 DEF EnterHotZone, TypeOK, GoroutinePc, holderVars
  <1>3. CASE AcquireClient(r, g)
    <2>1. gpc' \in [Lanes -> GoroutinePc]
      BY <1>3, LaneMoves DEF AcquireClient, GoroutinePc, Returned
    <2>2. inflight' \in [Clients -> Nat]
      BY <1>3, <1>0 DEF AcquireClient, TypeOK
    <2>3. QED
      BY <1>3, <2>1, <2>2 DEF AcquireClient, TypeOK, GoroutinePc, holderVars
  <1>4. CASE ClientSaturated(r, g)
    <2>1. \E x \in {"commit", "undo"} : Goto(r, g, x)
      BY <1>4 DEF ClientSaturated
    <2>2. gpc' \in [Lanes -> GoroutinePc]
      BY <2>1, LaneMoves DEF GoroutinePc, Returned
    <2>3. QED
      BY <1>4, <2>2 DEF ClientSaturated, TypeOK, GoroutinePc, holderVars
  <1>5. CASE UndoHotZone(r, g)
    <2>1. gpc' \in [Lanes -> GoroutinePc]
      BY <1>5, LaneMoves DEF UndoHotZone, GoroutinePc, Returned
    <2>2. QED
      BY <1>5, <2>1 DEF UndoHotZone, TypeOK, GoroutinePc, holderVars
  <1>6. CASE Commit(r, g)
    <2>1. \E x \in {"surplus", "allowed"} : Goto(r, g, x)
      BY <1>6 DEF Commit
    <2>2. gpc' \in [Lanes -> GoroutinePc]
      BY <2>1, LaneMoves DEF GoroutinePc, Returned
    <2>3. CASE held[r]
      BY <1>6, <2>2, <2>3 DEF Commit, TypeOK, GoroutinePc, holderVars
    <2>4. CASE ~held[r]
      BY <1>6, <1>0, <2>2, <2>4, Zenon DEF Commit, TypeOK, GoroutinePc
    <2>5. QED
      BY <2>3, <2>4
  <1>7. CASE ReturnSurplus(r, g)
    <2>1. gpc' \in [Lanes -> GoroutinePc]
      BY <1>7, LaneMoves DEF ReturnSurplus, GoroutinePc, Returned
    <2>2. inflight' \in [Clients -> Nat]
      BY <1>7, <1>0 DEF ReturnSurplus, Release, TypeOK
    <2>3. QED
      BY <1>7, <2>1, <2>2 DEF ReturnSurplus, TypeOK, GoroutinePc, holderVars
  <1>8. CASE ReturnSurplusZone(r, g)
    <2>1. gpc' \in [Lanes -> GoroutinePc]
      BY <1>8, LaneMoves DEF ReturnSurplusZone, GoroutinePc, Returned
    <2>2. QED
      BY <1>8, <2>1 DEF ReturnSurplusZone, TypeOK, GoroutinePc, holderVars
  <1>9. QED
    BY <1>1, <1>2, <1>3, <1>4, <1>5, <1>6, <1>7, <1>8 DEF TryAcquireStep

\* Every step of ServeDNS keeps the types.
LEMMA RequestTyped ==
  ASSUME TypeOK, NEW r \in Requests, Ask(r) \/ GoUpstreamUnasked(r) \/ RequestStep(r)
  PROVE  TypeOK'
  <1>0. ClientOf[r] \in Clients /\ inflight[ClientOf[r]] \in Nat /\ MaxAsks \in Nat \ {0} /\ "main" \in Goroutines
    BY LimiterAssumption DEF TypeOK, Goroutines
  <1>1. CASE Ask(r)
    <2>1. gpc' \in [Lanes -> GoroutinePc]
      BY <1>0, <1>1, LaneMoves, Zenon DEF Ask, GoroutinePc
    <2>2. asks' \in [Requests -> 0..MaxAsks]
      BY <1>0, <1>1 DEF Ask, TypeOK
    <2>3. QED
      BY <1>1, <2>1, <2>2 DEF Ask, TypeOK, GoroutinePc, holderVars
  <1>2. CASE GoUpstreamUnasked(r)
    <2>1. gpc' \in [Lanes -> GoroutinePc]
      BY <1>2, LanesStart, Zenon DEF GoUpstreamUnasked
    <2>2. QED
      BY <1>2, <2>1 DEF GoUpstreamUnasked, TypeOK, GoroutinePc, holderVars
  <1>3. CASE GoUpstream(r)
    <2>1. gpc' \in [Lanes -> GoroutinePc]
      BY <1>3, LanesStart, Zenon DEF GoUpstream
    <2>2. QED
      BY <1>3, <2>1 DEF GoUpstream, TypeOK, GoroutinePc, holderVars
  <1>4. CASE AskAgain(r)
    <2>1. gpc' \in [Lanes -> GoroutinePc]
      BY <1>0, <1>4, LaneMoves, Zenon DEF AskAgain, GoroutinePc
    <2>2. asks' \in [Requests -> 0..MaxAsks]
      BY <1>0, <1>4 DEF AskAgain, TypeOK
    <2>3. QED
      BY <1>4, <2>1, <2>2 DEF AskAgain, TypeOK, GoroutinePc, holderVars
  <1>5. CASE ReleaseIfHeld(r)
    BY <1>5 DEF ReleaseIfHeld, TypeOK
  <1>6. CASE NothingHeld(r)
    <2>1. gpc' \in [Lanes -> GoroutinePc]
      BY <1>6, LanesEnd DEF NothingHeld
    <2>2. asks' \in [Requests -> 0..MaxAsks]
      BY <1>0, <1>6 DEF NothingHeld, Leave, TypeOK
    <2>3. QED
      BY <1>6, <2>1, <2>2 DEF NothingHeld, Leave, TypeOK, GoroutinePc, holderVars
  <1>7. CASE ReleaseClient(r)
    <2>1. inflight' \in [Clients -> Nat]
      BY <1>7, <1>0 DEF ReleaseClient, Release, TypeOK
    <2>2. QED
      BY <1>7, <2>1 DEF ReleaseClient, TypeOK, holderVars
  <1>8. CASE ReleaseHotZone(r)
    <2>1. gpc' \in [Lanes -> GoroutinePc]
      BY <1>8, LanesEnd DEF ReleaseHotZone
    <2>2. asks' \in [Requests -> 0..MaxAsks]
      BY <1>0, <1>8 DEF ReleaseHotZone, Leave, TypeOK
    <2>3. QED
      BY <1>8, <2>1, <2>2 DEF ReleaseHotZone, Leave, TypeOK, GoroutinePc
  <1>9. QED
    BY <1>1, <1>2, <1>3, <1>4, <1>5, <1>6, <1>7, <1>8 DEF RequestStep

\* The induction step of LimiterTypeCorrect.
LEMMA TypePreserved == TypeOK /\ [Next]_vars => TypeOK'
  <1>1. CASE UNCHANGED vars
    BY <1>1 DEF vars, TypeOK
  <1>2. CASE Next
    BY <1>2, GoroutineTyped, RequestTyped DEF Next
  <1>3. QED
    BY <1>1, <1>2

\* Its base case.
LEMMA TypeInitially == Init => TypeOK
  BY LimiterAssumption DEF Init, TypeOK, Returned

\* Every reachable state of the requests, their holders and the clients'
\* counters is well typed (expensiveRequestHolder, expensiveRequestLimiter).
THEOREM LimiterTypeCorrect == Spec => []TypeOK
  BY TypeInitially, TypePreserved, PTL DEF Spec

-----------------------------------------------------------------------------
(* Where goroutines are while their request asks, resolves or releases *)

\* Where the goroutines of one request may be, and when its holder is filled.
PlacesOf(r) ==
    /\ rpc[r] = "idle" => \A g \in Goroutines : gpc[<<r, g>>] = "idle"
    /\ rpc[r] \in {"release", "releaseZone"} => \A g \in Goroutines : gpc[<<r, g>>] \in Returned
    /\ rpc[r] = "asking" => \A w \in Workers : gpc[<<r, w>>] \in Returned
    /\ held[r] => rpc[r] \in {"asking", "resolving"}

Places == \A r \in Requests : PlacesOf(r)

\* A goroutine that is inside TryAcquire belongs to a request that asks,
\* and then it is the request's own, or to one that resolves.
LEMMA Asking ==
  ASSUME TypeOK, Places, NEW r \in Requests, NEW g \in Goroutines, gpc[<<r, g>>] \notin Returned
  PROVE  \/ rpc[r] = "asking" /\ g = "main"
         \/ rpc[r] = "resolving"
  BY DEF TypeOK, Places, PlacesOf, Goroutines, Returned

\* A step of one goroutine that leaves rpc alone, and fills the holder at most.
LEMMA GoroutinePlaces ==
  ASSUME TypeOK, Places, NEW r \in Requests, NEW g \in Goroutines, NEW x \in GoroutinePc,
         gpc[<<r, g>>] \notin Returned, Goto(r, g, x), UNCHANGED rpc,
         \A q \in Requests : q # r => held'[q] = held[q]
  PROVE  Places'
  <1>1. \/ rpc[r] = "asking" /\ g = "main"
        \/ rpc[r] = "resolving"
    BY Asking
  <1>2. "main" \notin Workers
    BY LimiterAssumption
  <1>3. SUFFICES ASSUME NEW q \in Requests
                 PROVE  /\ rpc[q] = "idle" => \A h \in Goroutines : gpc'[<<q, h>>] = "idle"
                        /\ rpc[q] \in {"release", "releaseZone"} =>
                             \A h \in Goroutines : gpc'[<<q, h>>] \in Returned
                        /\ rpc[q] = "asking" => \A w \in Workers : gpc'[<<q, w>>] \in Returned
                        /\ held'[q] => rpc[q] \in {"asking", "resolving"}
    BY DEF Places, PlacesOf
  <1>4. CASE q # r
    <2>1. \A h \in Goroutines : gpc'[<<q, h>>] = gpc[<<q, h>>]
      BY <1>4, LaneMoves
    <2>2. QED
      BY <1>4, <2>1 DEF Places, PlacesOf, Goroutines
  <1>5. CASE q = r
    <2>1. \A w \in Workers : rpc[r] = "asking" => gpc'[<<r, w>>] = gpc[<<r, w>>]
      BY <1>1, <1>2, LaneMoves DEF Goroutines
    <2>2. QED
      BY <1>1, <1>5, <2>1 DEF Places, PlacesOf
  <1>6. QED
    BY <1>4, <1>5

\* The variables of the other requests, when only request r moves.
OthersStay(r) ==
    \A q \in Requests : q # r =>
        /\ rpc'[q] = rpc[q] /\ held'[q] = held[q]
        /\ \A g \in Goroutines : gpc'[<<q, g>>] = gpc[<<q, g>>]

\* A step that disturbs one request only keeps the others in place.
LEMMA OneRequestMoves ==
  ASSUME Places, NEW r \in Requests, OthersStay(r), PlacesOf(r)'
  PROVE  Places'
  <1>1. SUFFICES ASSUME NEW q \in Requests, q # r PROVE PlacesOf(q)'
    BY DEF Places, PlacesOf
  <1>2. Workers \subseteq Goroutines
    BY DEF Goroutines
  <1>3. QED
    BY <1>1, <1>2 DEF Places, PlacesOf, OthersStay

\* Places is preserved by every step of a typed state.
LEMMA PlacesInductive == TypeOK /\ Places /\ [Next]_vars => Places'
  <1> SUFFICES ASSUME TypeOK, Places, [Next]_vars PROVE Places'
    OBVIOUS
  <1>0. "main" \notin Workers /\ Workers \subseteq Goroutines /\ "main" \in Goroutines
    BY LimiterAssumption DEF Goroutines
  <1>1. ASSUME NEW r \in Requests, Ask(r) PROVE Places'
    <2>1. /\ gpc'[<<r, "main">>] = "check"
          /\ \A q \in Requests, h \in Goroutines :
               <<q, h>> # <<r, "main">> => gpc'[<<q, h>>] = gpc[<<q, h>>]
      BY <1>0, <1>1, LaneMoves DEF Ask, GoroutinePc
    <2>2. OthersStay(r)
      BY <1>1, <2>1 DEF Ask, TypeOK, OthersStay, holderVars
    <2>3. rpc'[r] = "asking" /\ held'[r] = held[r] /\ \A w \in Workers : gpc[<<r, w>>] = "idle"
      BY <1>0, <1>1 DEF Ask, TypeOK, Places, PlacesOf, holderVars
    <2>4. QED
      BY <1>0, <2>1, <2>2, <2>3, OneRequestMoves DEF PlacesOf, Returned
  <1>2. ASSUME NEW r \in Requests, GoUpstreamUnasked(r) \/ GoUpstream(r) PROVE Places'
    <2>1. PICK ws \in SUBSET Workers :
            gpc' = [l \in Lanes |-> IF l[1] = r /\ l[2] \in ws THEN "check" ELSE gpc[l]]
      BY <1>2 DEF GoUpstreamUnasked, GoUpstream
    <2>2. \A q \in Requests, h \in Goroutines : q # r => gpc'[<<q, h>>] = gpc[<<q, h>>]
      BY <2>1, LanesStart
    <2>3. OthersStay(r)
      BY <1>2, <2>2 DEF GoUpstreamUnasked, GoUpstream, TypeOK, OthersStay, holderVars
    <2>4. rpc'[r] = "resolving"
      BY <1>2 DEF GoUpstreamUnasked, GoUpstream, TypeOK
    <2>5. QED
      BY <2>3, <2>4, OneRequestMoves DEF PlacesOf
  <1>3. ASSUME NEW r \in Requests, AskAgain(r) PROVE Places'
    <2>1. \A q \in Requests, h \in Goroutines :
               <<q, h>> # <<r, "main">> => gpc'[<<q, h>>] = gpc[<<q, h>>]
      BY <1>0, <1>3, LaneMoves, Zenon DEF AskAgain, GoroutinePc
    <2>2. OthersStay(r)
      BY <1>3, <2>1 DEF AskAgain, TypeOK, OthersStay, holderVars
    <2>3. rpc'[r] = "asking" /\ \A w \in Workers : gpc'[<<r, w>>] \in Returned
      BY <1>0, <1>3, <2>1 DEF AskAgain, TypeOK
    <2>4. QED
      BY <2>2, <2>3, OneRequestMoves DEF PlacesOf
  <1>4. ASSUME NEW r \in Requests, ReleaseIfHeld(r) PROVE Places'
    <2>1. OthersStay(r)
      BY <1>4 DEF ReleaseIfHeld, TypeOK, OthersStay
    <2>2. \A g \in Goroutines : gpc[<<r, g>>] \in Returned
      BY <1>4 DEF ReleaseIfHeld, Finished, Places, PlacesOf, Goroutines, Returned
    <2>3. rpc'[r] = "release" /\ ~held'[r] /\ UNCHANGED gpc
      BY <1>4 DEF ReleaseIfHeld, TypeOK
    <2>4. QED
      BY <2>1, <2>2, <2>3, OneRequestMoves DEF PlacesOf
  <1>5. ASSUME NEW r \in Requests, NothingHeld(r) \/ ReleaseHotZone(r) PROVE Places'
    <2>1. Leave(r) /\ UNCHANGED held
      BY <1>5 DEF NothingHeld, ReleaseHotZone, holderVars
    <2>2. ~held[r]
      BY <1>5 DEF NothingHeld, ReleaseHotZone, Places, PlacesOf
    <2>3. \A q \in Requests, h \in Goroutines :
              gpc'[<<q, h>>] = IF q = r THEN "idle" ELSE gpc[<<q, h>>]
      BY <2>1, LanesEnd, Zenon
    <2>4. OthersStay(r) /\ rpc'[r] = "idle"
      BY <2>1, <2>3 DEF Leave, TypeOK, OthersStay
    <2>5. QED
      BY <2>1, <2>2, <2>3, <2>4, OneRequestMoves DEF PlacesOf
  <1>6. ASSUME NEW r \in Requests, ReleaseClient(r) PROVE Places'
    <2>1. OthersStay(r) /\ rpc[r] = "release" /\ rpc'[r] = "releaseZone" /\ UNCHANGED <<gpc, held>>
      BY <1>6 DEF ReleaseClient, TypeOK, OthersStay, holderVars
    <2>2. QED
      BY <2>1, OneRequestMoves DEF Places, PlacesOf
  <1>7. ASSUME NEW r \in Requests, NEW g \in Goroutines, TryAcquireStep(r, g) PROVE Places'
    <2>1. gpc[<<r, g>>] \notin Returned /\ UNCHANGED rpc
      BY <1>7 DEF TryAcquireStep, Check, EnterHotZone, AcquireClient, ClientSaturated, UndoHotZone,
                  Commit, ReturnSurplus, ReturnSurplusZone, Returned
    <2>2. \E x \in GoroutinePc : Goto(r, g, x)
      BY <1>7 DEF TryAcquireStep, Check, EnterHotZone, AcquireClient, ClientSaturated, UndoHotZone,
                  Commit, ReturnSurplus, ReturnSurplusZone, GoroutinePc, Returned
    <2>3. \A q \in Requests : q # r => held'[q] = held[q]
      BY <1>7 DEF TryAcquireStep, Check, EnterHotZone, AcquireClient, ClientSaturated, UndoHotZone,
                  Commit, ReturnSurplus, ReturnSurplusZone, holderVars, TypeOK
    <2>4. QED
      BY <2>1, <2>2, <2>3, GoroutinePlaces
  <1>8. CASE UNCHANGED vars
    <2>1. rpc' = rpc /\ gpc' = gpc /\ held' = held
      BY <1>8 DEF vars
    <2>2. \A r \in Requests : PlacesOf(r)
      BY DEF Places
    <2>3. ASSUME NEW r \in Requests PROVE PlacesOf(r)'
      <3>1. PlacesOf(r)' <=> PlacesOf(r)
        BY <2>1, Zenon DEF PlacesOf
      <3>2. QED
        BY <2>2, <3>1
    <2>4. QED
      BY <2>3 DEF Places
  <1>9. QED
    BY <1>1, <1>2, <1>3, <1>4, <1>5, <1>6, <1>7, <1>8 DEF Next, RequestStep

-----------------------------------------------------------------------------
(* What a step does to the slots *)

SlotNames == Requests \X (Goroutines \cup {"holder"})
Owned == {s \in SlotNames : Owns(s)}

\* A slot is a holder's or a goroutine's, never both.
LEMMA SlotCases ==
  /\ "holder" \notin Goroutines
  /\ \A q \in Requests : <<q, "holder">> \in SlotNames
  /\ \A q \in Requests, h \in Goroutines : <<q, h>> \in SlotNames
  /\ \A s \in SlotNames : \E q \in Requests :
       s = <<q, "holder">> \/ \E h \in Goroutines : s = <<q, h>>
  BY LimiterAssumption DEF SlotNames, Goroutines

\* Who owns a slot, before and after a step.
LEMMA OwnedCases ==
  /\ \A q \in Requests : <<q, "holder">> \in Owned <=> held[q] \/ rpc[q] = "release"
  /\ \A q \in Requests, h \in Goroutines :
       <<q, h>> \in Owned <=> gpc[<<q, h>>] \in {"commit", "surplus"}
  /\ \A q \in Requests : <<q, "holder">> \in Owned' <=> held'[q] \/ rpc'[q] = "release"
  /\ \A q \in Requests, h \in Goroutines :
       <<q, h>> \in Owned' <=> gpc'[<<q, h>>] \in {"commit", "surplus"}
  BY SlotCases DEF Owned, Owns

\* Two states own the same slots, up to the slots in D.
LEMMA OwnedChanges ==
  ASSUME NEW D,
         \A q \in Requests : <<q, "holder">> \notin D =>
            (held'[q] \/ rpc'[q] = "release" <=> held[q] \/ rpc[q] = "release"),
         \A q \in Requests, h \in Goroutines : <<q, h>> \notin D =>
            (gpc'[<<q, h>>] \in {"commit", "surplus"} <=> gpc[<<q, h>>] \in {"commit", "surplus"})
  PROVE  \A s \in SlotNames : s \notin D => (s \in Owned' <=> s \in Owned)
  BY SlotCases, OwnedCases

\* A step keeps the slots in use, takes one below the limit or, in observe
\* mode, without counting it, gives one back, or hands a goroutine's to the
\* holder.
Kept == Owned' = Owned /\ UNCHANGED inflight
Joins(s) ==
    /\ s \notin Owned
    /\ Owned' = Owned \cup {s}
    /\ inflight[ClientOf[s[1]]] < Limit
    /\ inflight' = [inflight EXCEPT ![ClientOf[s[1]]] = @ + 1]
Overdraws(s) ==
    /\ ObserveWouldRefuse
    /\ s \notin Owned
    /\ Owned' = Owned \cup {s}
    /\ UNCHANGED inflight
Leaves(s) ==
    /\ s \in Owned
    /\ Owned' = Owned \ {s}
    /\ Release(ClientOf[s[1]])
Moves(s, t) ==
    /\ s \in Owned /\ t \notin Owned /\ s[1] = t[1]
    /\ Owned' = (Owned \ {s}) \cup {t}
    /\ UNCHANGED inflight

SlotStep ==
    \/ Kept
    \/ \E s \in SlotNames : Joins(s) \/ Overdraws(s) \/ Leaves(s)
    \/ \E s, t \in SlotNames : Moves(s, t)

\* A step after which everyone owns what they owned.
LEMMA SameSlots ==
  ASSUME UNCHANGED inflight,
         \A q \in Requests : held'[q] \/ rpc'[q] = "release" <=> held[q] \/ rpc[q] = "release",
         \A q \in Requests, h \in Goroutines :
            gpc'[<<q, h>>] \in {"commit", "surplus"} <=> gpc[<<q, h>>] \in {"commit", "surplus"}
  PROVE  SlotStep
  <1>1. \A s \in SlotNames : s \notin {} => (s \in Owned' <=> s \in Owned)
    BY OwnedChanges
  <1>2. Owned' = Owned
    BY <1>1 DEF Owned
  <1>3. QED
    BY <1>2 DEF SlotStep, Kept

\* A step of a goroutine in TryAcquire.
LEMMA GoroutineSlots ==
  ASSUME TypeOK, Places,
         NEW r \in Requests, NEW g \in Goroutines, TryAcquireStep(r, g)
  PROVE  SlotStep
  <1>0. <<r, g>> \in SlotNames /\ <<r, "holder">> \in SlotNames /\ <<r, g>> # <<r, "holder">>
    BY SlotCases
  <1>1. ASSUME NEW x \in GoroutinePc, Goto(r, g, x), UNCHANGED <<rpc, held, inflight>>,
               x \in {"commit", "surplus"} <=> gpc[<<r, g>>] \in {"commit", "surplus"}
        PROVE  SlotStep
    <2>1. /\ gpc'[<<r, g>>] = x
          /\ \A q \in Requests, h \in Goroutines :
               <<q, h>> # <<r, g>> => gpc'[<<q, h>>] = gpc[<<q, h>>]
      BY <1>1, LaneMoves
    <2>2. \A q \in Requests, h \in Goroutines :
            gpc'[<<q, h>>] \in {"commit", "surplus"} <=> gpc[<<q, h>>] \in {"commit", "surplus"}
      BY <1>1, <2>1, Zenon
    <2>3. QED
      BY <1>1, <2>2, SameSlots
  <1>2. CASE Check(r, g)
    BY <1>1, <1>2 DEF Check, GoroutinePc, Returned, holderVars
  <1>3. CASE EnterHotZone(r, g)
    BY <1>1, <1>3 DEF EnterHotZone, GoroutinePc, Returned, holderVars
  <1>4. CASE ClientSaturated(r, g)
    <2>1. CASE ~ObserveWouldRefuse
      BY <1>1, <1>4, <2>1 DEF ClientSaturated, GoroutinePc, Returned, holderVars
    <2>2. CASE ObserveWouldRefuse
      <3>1. /\ gpc'[<<r, g>>] = "commit" /\ gpc[<<r, g>>] = "client"
            /\ \A q \in Requests, h \in Goroutines :
                 <<q, h>> # <<r, g>> => gpc'[<<q, h>>] = gpc[<<q, h>>]
        BY <1>4, <2>2, LaneMoves DEF ClientSaturated, GoroutinePc
      <3>2. UNCHANGED <<rpc, held, inflight>>
        BY <1>4 DEF ClientSaturated, holderVars
      <3>3. \A s \in SlotNames : s \notin {<<r, g>>} => (s \in Owned' <=> s \in Owned)
        BY <3>1, <3>2, OwnedChanges, Zenon
      <3>4. <<r, g>> \in Owned' /\ <<r, g>> \notin Owned
        BY <3>1, OwnedCases
      <3>5. Owned' = Owned \cup {<<r, g>>}
        BY <1>0, <3>3, <3>4 DEF Owned
      <3>6. Overdraws(<<r, g>>)
        BY <2>2, <3>2, <3>4, <3>5 DEF Overdraws
      <3>7. QED
        BY <1>0, <3>6 DEF SlotStep
    <2>3. QED
      BY <2>1, <2>2
  <1>5. CASE UndoHotZone(r, g)
    BY <1>1, <1>5 DEF UndoHotZone, GoroutinePc, Returned, holderVars
  <1>6. CASE ReturnSurplusZone(r, g)
    BY <1>1, <1>6 DEF ReturnSurplusZone, GoroutinePc, Returned, holderVars
  <1>7. CASE AcquireClient(r, g)
    <2>1. /\ gpc'[<<r, g>>] = "commit" /\ gpc[<<r, g>>] = "client"
          /\ \A q \in Requests, h \in Goroutines :
               <<q, h>> # <<r, g>> => gpc'[<<q, h>>] = gpc[<<q, h>>]
      BY <1>7, LaneMoves DEF AcquireClient, GoroutinePc
    <2>2. UNCHANGED <<rpc, held>>
      BY <1>7 DEF AcquireClient, holderVars
    <2>3. \A s \in SlotNames : s \notin {<<r, g>>} => (s \in Owned' <=> s \in Owned)
      BY <2>1, <2>2, OwnedChanges, Zenon
    <2>4. <<r, g>> \in Owned' /\ <<r, g>> \notin Owned
      BY <2>1, OwnedCases
    <2>5. Owned' = Owned \cup {<<r, g>>}
      BY <1>0, <2>3, <2>4 DEF Owned
    <2>6. Joins(<<r, g>>)
      BY <1>7, <2>4, <2>5 DEF Joins, AcquireClient
    <2>7. QED
      BY <1>0, <2>6 DEF SlotStep
  <1>8. CASE ReturnSurplus(r, g)
    <2>1. /\ gpc'[<<r, g>>] = "surplusZone" /\ gpc[<<r, g>>] = "surplus"
          /\ \A q \in Requests, h \in Goroutines :
               <<q, h>> # <<r, g>> => gpc'[<<q, h>>] = gpc[<<q, h>>]
      BY <1>8, LaneMoves DEF ReturnSurplus, GoroutinePc
    <2>2. UNCHANGED <<rpc, held>>
      BY <1>8 DEF ReturnSurplus, holderVars
    <2>3. \A s \in SlotNames : s \notin {<<r, g>>} => (s \in Owned' <=> s \in Owned)
      BY <2>1, <2>2, OwnedChanges, Zenon
    <2>4. <<r, g>> \notin Owned' /\ <<r, g>> \in Owned
      BY <2>1, OwnedCases
    <2>5. Owned' = Owned \ {<<r, g>>}
      BY <1>0, <2>3, <2>4 DEF Owned
    <2>6. Leaves(<<r, g>>)
      BY <1>8, <2>4, <2>5 DEF Leaves, ReturnSurplus
    <2>7. QED
      BY <1>0, <2>6 DEF SlotStep
  <1>9. CASE Commit(r, g) /\ held[r]
    BY <1>1, <1>9 DEF Commit, GoroutinePc, Returned, holderVars
  <1>10. CASE Commit(r, g) /\ ~held[r]
    <2>1. /\ gpc'[<<r, g>>] = "allowed" /\ gpc[<<r, g>>] = "commit"
          /\ \A q \in Requests, h \in Goroutines :
               <<q, h>> # <<r, g>> => gpc'[<<q, h>>] = gpc[<<q, h>>]
      BY <1>10, LaneMoves, Zenon DEF Commit, GoroutinePc, Returned
    <2>2. rpc[r] \in {"asking", "resolving"}
      BY <2>1, Asking DEF Returned
    <2>3. held'[r] /\ UNCHANGED <<rpc, inflight>> /\ \A q \in Requests : q # r => held'[q] = held[q]
      BY <1>10 DEF Commit, TypeOK
    <2>4. \A s \in SlotNames : s \notin {<<r, g>>, <<r, "holder">>} => (s \in Owned' <=> s \in Owned)
      BY <2>1, <2>3, OwnedChanges, Zenon
    <2>5. <<r, g>> \in Owned /\ <<r, g>> \notin Owned'
      BY <2>1, OwnedCases
    <2>6. <<r, "holder">> \notin Owned /\ <<r, "holder">> \in Owned'
      BY <1>10, <2>2, <2>3, OwnedCases
    <2>7. Owned' = (Owned \ {<<r, g>>}) \cup {<<r, "holder">>}
      BY <1>0, <2>4, <2>5, <2>6 DEF Owned
    <2>8. Moves(<<r, g>>, <<r, "holder">>)
      BY <2>3, <2>5, <2>6, <2>7 DEF Moves
    <2>9. QED
      BY <1>0, <2>8 DEF SlotStep
  <1>11. QED
    BY <1>2, <1>3, <1>4, <1>5, <1>6, <1>7, <1>8, <1>9, <1>10 DEF TryAcquireStep

\* A step of a request: only ReleaseClient gives a slot back.
LEMMA RequestKeepsSlots ==
  ASSUME TypeOK, Places, NEW r \in Requests, Ask(r) \/ GoUpstreamUnasked(r) \/ RequestStep(r)
  PROVE  SlotStep
  <1>0. "main" \in Goroutines /\ Workers \subseteq Goroutines
    BY DEF Goroutines
  <1>1. ASSUME UNCHANGED inflight,
               \A q \in Requests : q # r => rpc'[q] = rpc[q] /\ held'[q] = held[q],
               held'[r] \/ rpc'[r] = "release" <=> held[r] \/ rpc[r] = "release",
               \A q \in Requests, h \in Goroutines :
                 gpc'[<<q, h>>] = gpc[<<q, h>>] \/
                   (gpc'[<<q, h>>] \notin {"commit", "surplus"} /\ gpc[<<q, h>>] \in Returned)
        PROVE  SlotStep
    <2>1. \A q \in Requests, h \in Goroutines :
            gpc'[<<q, h>>] \in {"commit", "surplus"} <=> gpc[<<q, h>>] \in {"commit", "surplus"}
      BY <1>1, Zenon DEF Returned
    <2>2. QED
      BY <1>1, <2>1, SameSlots
  <1>2. CASE Ask(r) \/ AskAgain(r)
    <2>1. /\ UNCHANGED <<inflight, held>>
          /\ rpc'[r] = "asking" /\ rpc[r] # "release"
          /\ \A q \in Requests : q # r => rpc'[q] = rpc[q]
      BY <1>2 DEF Ask, AskAgain, TypeOK, holderVars
    <2>2. gpc[<<r, "main">>] \in Returned
      BY <1>0, <1>2 DEF Ask, AskAgain, Places, PlacesOf, Returned
    <2>3. /\ gpc'[<<r, "main">>] = "check"
          /\ \A q \in Requests, h \in Goroutines :
               <<q, h>> # <<r, "main">> => gpc'[<<q, h>>] = gpc[<<q, h>>]
      BY <1>0, <1>2, LaneMoves DEF Ask, AskAgain, GoroutinePc
    <2>4. QED
      BY <1>1, <2>1, <2>2, <2>3
  <1>3. CASE GoUpstreamUnasked(r) \/ GoUpstream(r)
    <2>1. /\ UNCHANGED <<inflight, held>>
          /\ rpc'[r] = "resolving" /\ rpc[r] # "release"
          /\ \A q \in Requests : q # r => rpc'[q] = rpc[q]
      BY <1>3 DEF GoUpstreamUnasked, GoUpstream, TypeOK, holderVars
    <2>2. \A w \in Workers : gpc[<<r, w>>] \in Returned
      BY <1>0, <1>3 DEF GoUpstreamUnasked, GoUpstream, Places, PlacesOf, Returned
    <2>3. PICK ws \in SUBSET Workers :
            gpc' = [l \in Lanes |-> IF l[1] = r /\ l[2] \in ws THEN "check" ELSE gpc[l]]
      <3>1. CASE GoUpstreamUnasked(r)
        BY <3>1, Zenon DEF GoUpstreamUnasked
      <3>2. CASE GoUpstream(r)
        BY <3>2, Zenon DEF GoUpstream
      <3>3. QED
        BY <1>3, <3>1, <3>2, Zenon
    <2>4. \A q \in Requests, h \in Goroutines :
            gpc'[<<q, h>>] = IF q = r /\ h \in ws THEN "check" ELSE gpc[<<q, h>>]
      BY <2>3 DEF TypeOK, Lanes, GoroutinePc
    <2>5. QED
      BY <1>1, <2>1, <2>2, <2>4
  <1>4. CASE ReleaseIfHeld(r)
    <2>1. /\ UNCHANGED <<inflight, gpc>> /\ held[r] /\ rpc'[r] = "release"
          /\ \A q \in Requests : q # r => rpc'[q] = rpc[q] /\ held'[q] = held[q]
      BY <1>4 DEF ReleaseIfHeld, TypeOK
    <2>2. QED
      BY SMTT(90), <1>1, <2>1
  <1>5. CASE NothingHeld(r) \/ ReleaseHotZone(r)
    <2>1. Leave(r) /\ UNCHANGED <<inflight, held>> /\ rpc[r] # "release"
      BY <1>5 DEF NothingHeld, ReleaseHotZone, Finished, holderVars
    <2>2. rpc'[r] = "idle" /\ \A q \in Requests : q # r => rpc'[q] = rpc[q]
      BY <2>1 DEF Leave, TypeOK
    <2>3. \A g \in Goroutines : gpc[<<r, g>>] \in Returned
      BY <1>5 DEF NothingHeld, ReleaseHotZone, Finished, Places, PlacesOf, Goroutines, Returned
    <2>4. \A q \in Requests, h \in Goroutines :
              gpc'[<<q, h>>] = IF q = r THEN "idle" ELSE gpc[<<q, h>>]
      BY <2>1, LanesEnd, Zenon
    <2>5. QED
      BY <1>1, <2>1, <2>2, <2>3, <2>4
  <1>6. CASE ReleaseClient(r)
    <2>1. /\ rpc[r] = "release" /\ rpc'[r] = "releaseZone" /\ UNCHANGED <<gpc, held>>
          /\ \A q \in Requests : q # r => rpc'[q] = rpc[q]
      BY <1>6 DEF ReleaseClient, TypeOK, holderVars
    <2>2. ~held[r]
      BY <2>1 DEF Places, PlacesOf
    <2>3. \A s \in SlotNames : s \notin {<<r, "holder">>} => (s \in Owned' <=> s \in Owned)
      BY <2>1, OwnedChanges, Zenon
    <2>4. <<r, "holder">> \in Owned /\ <<r, "holder">> \notin Owned' /\ <<r, "holder">> \in SlotNames
      BY <2>1, <2>2, OwnedCases, SlotCases
    <2>5. Owned' = Owned \ {<<r, "holder">>}
      BY <2>3, <2>4 DEF Owned
    <2>6. Leaves(<<r, "holder">>)
      BY <1>6, <2>4, <2>5 DEF Leaves, ReleaseClient
    <2>7. QED
      BY <2>4, <2>6 DEF SlotStep
  <1>7. QED
    BY <1>2, <1>3, <1>4, <1>5, <1>6 DEF RequestStep

-----------------------------------------------------------------------------
(* The clients' counters *)

\* A client's slots are those of all slots in use that its requests own.
LEMMA SlotsFinite ==
  /\ IsFiniteSet(SlotNames)
  /\ \A c : Slots(c) = {s \in Owned : ClientOf[s[1]] = c}
  /\ \A c : Slots(c)' = {s \in Owned' : ClientOf[s[1]] = c}
  /\ \A c : IsFiniteSet(Slots(c)) /\ Cardinality(Slots(c)) \in Nat
  <1>1. IsFiniteSet(Goroutines \cup {"holder"})
    BY Zenon, LimiterAssumption, FS_Singleton, FS_Union DEF Goroutines
  <1>2. IsFiniteSet(SlotNames)
    BY <1>1, LimiterAssumption, FS_Product DEF SlotNames
  <1>3. /\ \A c : Slots(c) = {s \in Owned : ClientOf[s[1]] = c}
        /\ \A c : Slots(c)' = {s \in Owned' : ClientOf[s[1]] = c}
    BY DEF Slots, Owned, SlotNames
  <1>4. \A c : Slots(c) \subseteq SlotNames
    BY <1>3 DEF Owned
  <1>5. QED
    BY <1>2, <1>3, <1>4, FS_Subset, FS_CardinalityType

\* The inductive invariant: the counters are exact only because a goroutine
\* inside TryAcquire belongs to a request that is not over (Places), so that
\* nobody fills a holder ReleaseIfHeld has already emptied.
ClientInv == TypeOK /\ Places /\ ClientAccounting /\ ClientBound

\* What a step does to a client's counter and to the number of its slots.
CountersMove(c) ==
    LET n == Cardinality(Slots(c))
        m == Cardinality(Slots(c)')
    IN  \/ m = n /\ inflight'[c] = inflight[c]
        \/ m = n + 1 /\ inflight[c] < Limit /\ inflight'[c] = inflight[c] + 1
        \/ m = n + 1 /\ ObserveWouldRefuse /\ inflight'[c] = inflight[c]
        \/ /\ m = n - 1 /\ n # 0
           /\ inflight'[c] = IF inflight[c] > 0 THEN inflight[c] - 1 ELSE inflight[c]

\* TryAcquire counts below the limit only, and Release gives back a slot that
\* was in use.
LEMMA CountersFollow ==
  ASSUME TypeOK, SlotStep, NEW c \in Clients
  PROVE  CountersMove(c)
  <1>0. /\ IsFiniteSet(Slots(c)) /\ Cardinality(Slots(c)) \in Nat /\ Limit \in Nat
        /\ \A s \in SlotNames : ClientOf[s[1]] \in Clients
    BY SlotsFinite, LimiterAssumption DEF SlotNames
  <1>1. CASE Kept
    BY <1>1, SlotsFinite, Zenon DEF Kept, CountersMove
  <1>2. ASSUME NEW s \in SlotNames, Joins(s) \/ Overdraws(s) PROVE CountersMove(c)
    <2>1. CASE ClientOf[s[1]] = c
      <3>1. Slots(c)' = Slots(c) \cup {s} /\ s \notin Slots(c)
        BY <1>2, <2>1, SlotsFinite DEF Joins, Overdraws
      <3>2. Cardinality(Slots(c)') = Cardinality(Slots(c)) + 1
        BY <1>0, <3>1, FS_AddElement, Zenon
      <3>3. \/ inflight[c] < Limit /\ inflight'[c] = inflight[c] + 1
            \/ ObserveWouldRefuse /\ inflight'[c] = inflight[c]
        BY <1>2, <2>1 DEF Joins, Overdraws, TypeOK
      <3>4. QED
        BY <3>2, <3>3 DEF CountersMove
    <2>2. CASE ClientOf[s[1]] # c
      <3>1. Slots(c)' = Slots(c)
        BY <1>2, <2>2, SlotsFinite, Zenon DEF Joins, Overdraws
      <3>2. inflight'[c] = inflight[c]
        <4>1. CASE Joins(s)
          BY SMTT(30), <2>2, <4>1 DEF Joins, TypeOK
        <4>2. CASE Overdraws(s)
          BY <4>2 DEF Overdraws
        <4>3. QED
          BY <1>2, <4>1, <4>2
      <3>3. QED
        BY <3>1, <3>2 DEF CountersMove
    <2>3. QED
      BY <2>1, <2>2
  <1>3. ASSUME NEW s \in SlotNames, Leaves(s) PROVE CountersMove(c)
    <2>1. CASE ClientOf[s[1]] = c
      <3>1. Slots(c)' = Slots(c) \ {s} /\ s \in Slots(c)
        BY <1>3, <2>1, SlotsFinite DEF Leaves
      <3>2. Cardinality(Slots(c)') = Cardinality(Slots(c)) - 1 /\ Cardinality(Slots(c)) # 0
        <4>1. Cardinality(Slots(c) \ {s}) = Cardinality(Slots(c)) - 1
          BY <1>0, <3>1, FS_RemoveElement, Zenon
        <4>2. Cardinality(Slots(c)) # 0
          BY <1>0, <3>1, FS_EmptySet, Zenon
        <4>3. QED
          BY <3>1, <4>1, <4>2, Zenon
      <3>3. inflight'[c] = IF inflight[c] > 0 THEN inflight[c] - 1 ELSE inflight[c]
        BY <1>3, <2>1 DEF Leaves, Release, TypeOK
      <3>4. QED
        BY <3>2, <3>3 DEF CountersMove
    <2>2. CASE ClientOf[s[1]] # c
      <3>1. Slots(c)' = Slots(c)
        <4>1. \A x : x \in Slots(c)' <=> x \in Owned \ {s} /\ ClientOf[x[1]] = c
          BY <1>3, SlotsFinite DEF Leaves
        <4>2. \A x : x \in Slots(c) <=> x \in Owned /\ ClientOf[x[1]] = c
          BY SlotsFinite
        <4>3. QED
          BY <2>2, <4>1, <4>2, Zenon
      <3>2. inflight'[c] = inflight[c]
        BY SMTT(30), <1>3, <2>2 DEF Leaves, Release, TypeOK
      <3>3. QED
        BY <3>1, <3>2 DEF CountersMove
    <2>3. QED
      BY <2>1, <2>2
  <1>4. ASSUME NEW s \in SlotNames, NEW t \in SlotNames, Moves(s, t) PROVE CountersMove(c)
    <2>1. CASE ClientOf[s[1]] = c
      <3>1. /\ Slots(c)' = (Slots(c) \ {s}) \cup {t}
            /\ s \in Slots(c) /\ t \notin Slots(c)
        BY <1>4, <2>1, SlotsFinite DEF Moves
      <3>2. /\ IsFiniteSet(Slots(c) \ {s})
            /\ Cardinality(Slots(c) \ {s}) = Cardinality(Slots(c)) - 1
        BY <1>0, <3>1, FS_RemoveElement
      <3>3. Cardinality(Slots(c)') = Cardinality(Slots(c) \ {s}) + 1
        BY ZenonT(40), <3>1, <3>2, FS_AddElement
      <3>4. Cardinality(Slots(c)') = Cardinality(Slots(c))
        BY <1>0, <3>2, <3>3
      <3>5. QED
        BY <1>4, <3>4 DEF Moves, CountersMove
    <2>2. CASE ClientOf[s[1]] # c
      <3>1. Slots(c)' = Slots(c)
        BY <1>4, <2>2, SlotsFinite, Zenon DEF Moves
      <3>2. QED
        BY <1>4, <3>1 DEF Moves, CountersMove
    <2>3. QED
      BY SMTT(90), <2>1, <2>2
  <1>5. QED
    BY <1>1, <1>2, <1>3, <1>4 DEF SlotStep

\* Every step of the requests and their goroutines is one of these.
LEMMA EveryStepCounts ==
  ASSUME TypeOK, Places, [Next]_vars, NEW c \in Clients
  PROVE  CountersMove(c)
  <1>1. UNCHANGED vars => SlotStep
    BY SameSlots DEF vars
  <1>2. Next => SlotStep
    BY RequestKeepsSlots, GoroutineSlots DEF Next
  <1>3. SlotStep
    BY <1>1, <1>2
  <1>4. QED
    BY <1>3, CountersFollow

\* The base case of ClientSafe.
LEMMA ClientInvInitially == Init => ClientInv
  <1> SUFFICES ASSUME Init PROVE ClientInv
    OBVIOUS
  <1>1. TypeOK
    BY TypeInitially
  <1>2. Places
    BY DEF Init, Places, PlacesOf, Lanes, Goroutines
  <1>3. Owned = {}
    <2>1. \A q \in Requests : <<q, "holder">> \notin Owned
      BY OwnedCases, Zenon DEF Init
    <2>2. \A q \in Requests, h \in Goroutines : <<q, h>> \notin Owned
      BY OwnedCases, Zenon DEF Init, Lanes
    <2>3. QED
      BY <2>1, <2>2, SlotCases DEF Owned
  <1>4. \A c \in Clients : Slots(c) = {} /\ inflight[c] = 0
    BY <1>3, SlotsFinite DEF Init
  <1>5. Cardinality({}) = 0 /\ 0 <= Limit
    BY FS_EmptySet, LimiterAssumption
  <1>6. ClientAccounting /\ ClientBound
    BY <1>4, <1>5 DEF ClientAccounting, ClientBound
  <1>7. QED
    BY <1>1, <1>2, <1>6 DEF ClientInv

\* Its induction step.
LEMMA ClientInvInductive == ClientInv /\ [Next]_vars => ClientInv'
  <1> SUFFICES ASSUME ClientInv, [Next]_vars PROVE ClientInv'
    OBVIOUS
  <1>1. TypeOK /\ Places /\ TypeOK' /\ Places'
    BY TypePreserved, PlacesInductive DEF ClientInv
  <1>2. CASE ObserveWouldRefuse
    BY <1>1, <1>2 DEF ClientInv, ClientAccounting, ClientBound
  <1>3. CASE ~ObserveWouldRefuse
    <2>1. \A c \in Clients : inflight[c] = Cardinality(Slots(c)) /\ Cardinality(Slots(c)) <= Limit
      BY <1>3 DEF ClientInv, ClientAccounting, ClientBound
    <2>2. ASSUME NEW c \in Clients
          PROVE  inflight'[c] = Cardinality(Slots(c)') /\ Cardinality(Slots(c)') <= Limit
      <3>1. CountersMove(c)
        BY <1>1, EveryStepCounts
      <3>2. Cardinality(Slots(c)) \in Nat /\ Limit \in Nat
        BY SlotsFinite, LimiterAssumption
      <3>3. QED
        BY <1>3, <2>1, <3>1, <3>2 DEF CountersMove
    <2>3. QED
      BY <1>1, <2>2 DEF ClientInv, ClientAccounting, ClientBound
  <1>4. QED
    BY <1>2, <1>3

\* A client's counter is exactly the number of slots its requests own, and
\* never exceeds the limit, for every limit and every number of requests and
\* sub-queries (expensiveRequestLimiter.TryAcquire and Release).
THEOREM ClientSafe == Spec => [](ClientAccounting /\ ClientBound)
  <1>1. ClientInv => ClientAccounting /\ ClientBound
    BY DEF ClientInv
  <1>2. QED
    BY <1>1, ClientInvInitially, ClientInvInductive, PTL DEF Spec

\* The requests and sub-queries of a client never own more than Limit slots.
THEOREM ClientBounded == Spec => []ClientBound
  BY ClientSafe, PTL

-----------------------------------------------------------------------------
(* The holder, its ticket and the request's own goroutine *)

\* The holder is full while it carries a ticket; ReleaseIfHeld moves the
\* ticket out; the goroutine that got it is through with TryAcquire, or looks
\* at the full holder again; and whoever was told to go on, or is about to
\* be, finds the holder full.
HolderOf(r) ==
    /\ held[r] <=> hotZoneTicket[r] # NoTicket
    /\ releasing[r] # NoTicket => rpc[r] \in {"release", "releaseZone"}
    /\ \A l \in Carried(r) : l \in {r} \X Goroutines /\ gpc[l] \in {"allowed", "check"}
    /\ \A g \in Goroutines :
         gpc[<<r, g>>] \in {"allowed", "surplus", "surplusZone"} /\ rpc[r] \in {"asking", "resolving"}
           => held[r]

\* The tickets of a request that are in use.
TicketsOf(r) ==
    \A g \in Goroutines : <<r, g>> \in active <=> Ticketed(<<r, g>>) \/ <<r, g>> \in Carried(r)

\* A request's own goroutine asks while no sub-query runs, so nobody fills
\* the holder behind its back.
MainAlone(r) ==
    /\ rpc[r] = "resolving" => gpc[<<r, "main">>] \in Returned
    /\ rpc[r] = "asking" /\ gpc[<<r, "main">>] \in {"enter", "client", "undo", "commit"} => ~held[r]

HolderSafe(r) == HolderOf(r) /\ TicketsOf(r) /\ MainAlone(r)
HolderInv == TypeOK /\ Places /\ \A r \in Requests : HolderSafe(r)

\* A counter never runs ahead of the slots, in observe mode either.
NeverAhead == \A c \in Clients : inflight[c] <= Cardinality(Slots(c))

\* What a request's invariants speak of, unchanged.
Untouched(q) ==
    /\ rpc'[q] = rpc[q] /\ held'[q] = held[q]
    /\ hotZoneTicket'[q] = hotZoneTicket[q] /\ releasing'[q] = releasing[q]
    /\ \A g \in Goroutines : /\ gpc'[<<q, g>>] = gpc[<<q, g>>]
                             /\ <<q, g>> \in active' <=> <<q, g>> \in active

LEMMA UntouchedSafe ==
  ASSUME NEW q \in Requests, HolderSafe(q), Untouched(q)
  PROVE  HolderSafe(q)'
  <1>1. Carried(q)' = Carried(q)
    BY DEF Untouched, Carried
  <1>2. \A g \in Goroutines : Ticketed(<<q, g>>)' <=> Ticketed(<<q, g>>)
    BY DEF Untouched, Ticketed
  <1>3. "main" \in Goroutines
    BY DEF Goroutines
  <1>4. HolderOf(q)'
    <2>1. ASSUME NEW l \in Carried(q)' PROVE (l \in {q} \X Goroutines /\ gpc[l] \in {"allowed", "check"})'
      <3>1. l \in {q} \X Goroutines /\ gpc[l] \in {"allowed", "check"}
        BY <1>1, <2>1 DEF HolderSafe, HolderOf
      <3>2. PICK g \in Goroutines : l = <<q, g>>
        BY <3>1
      <3>3. QED
        BY <3>1, <3>2 DEF Untouched
    <2>2. QED
      BY <2>1 DEF HolderSafe, HolderOf, Untouched
  <1>5. TicketsOf(q)'
    BY <1>1, <1>2 DEF HolderSafe, TicketsOf, Untouched
  <1>6. MainAlone(q)'
    BY <1>3 DEF HolderSafe, MainAlone, Untouched
  <1>7. QED
    BY <1>4, <1>5, <1>6 DEF HolderSafe

\* While a request asks or resolves, what its holder carries is its ticket,
\* and a goroutine in the middle of TryAcquire carries it not.
LEMMA CarriedWhileAsking ==
  ASSUME NEW r \in Requests, HolderOf(r), rpc[r] \in {"asking", "resolving"}
  PROVE  /\ ~held[r] => Carried(r) = {}
         /\ \A g \in Goroutines : gpc[<<r, g>>] \notin {"allowed", "check"} => <<r, g>> \notin Carried(r)
  BY DEF HolderOf, Carried

\* A goroutine of r moves and the holder stays as it is.
LEMMA QuietMove ==
  ASSUME TypeOK, Places, NEW r \in Requests, HolderSafe(r), NEW g \in Goroutines, NEW x \in GoroutinePc,
         gpc[<<r, g>>] \notin Returned, Goto(r, g, x), UNCHANGED <<rpc, holderVars>>,
         gpc[<<r, g>>] = "check" => x = IF held[r] THEN "allowed" ELSE "enter",
         gpc[<<r, g>>] # "check" => x # "enter",
         x \in {"allowed", "surplus", "surplusZone"} => held[r],
         \A l \in Lanes \ {<<r, g>>} : l \in active' <=> l \in active,
         <<r, g>> \in active' <=> \/ x \in {"client", "undo", "commit", "surplus", "surplusZone"}
                                  \/ <<r, g>> \in Carried(r),
         x \in {"client", "undo", "commit"} => gpc[<<r, g>>] \in {"enter", "client", "undo", "commit"}
  PROVE  HolderSafe(r)' /\ \A q \in Requests : q # r => Untouched(q)
  <1>1. /\ gpc'[<<r, g>>] = x
        /\ \A q \in Requests, h \in Goroutines :
             <<q, h>> # <<r, g>> => gpc'[<<q, h>>] = gpc[<<q, h>>]
    BY LaneMoves
  <1>2. UNCHANGED <<rpc, held, hotZoneTicket, releasing>>
    BY DEF holderVars
  <1>3. rpc[r] \in {"asking", "resolving"} /\ (rpc[r] = "asking" => g = "main")
    BY Asking
  <1>4. Carried(r)' = Carried(r)
    BY <1>2 DEF Carried
  <1>5. \A h \in Goroutines : <<r, h>> \in Lanes /\ (h # g => <<r, h>> # <<r, g>>)
    BY DEF Lanes
  <1>6. HolderOf(r)'
    <2>1. ASSUME NEW l \in Carried(r) PROVE l \in {r} \X Goroutines /\ gpc'[l] \in {"allowed", "check"}
      <3>0. l \in {r} \X Goroutines /\ gpc[l] \in {"allowed", "check"}
        BY <2>1, Zenon DEF HolderSafe, HolderOf
      <3>1. PICK h \in Goroutines : l = <<r, h>> /\ gpc[l] \in {"allowed", "check"}
        BY ONLY <3>0
      <3>2. CASE h # g
        BY <1>1, <3>1, <3>2
      <3>3. CASE h = g
        <4>1. gpc[<<r, g>>] = "check"
          BY <3>1, <3>3 DEF Returned
        <4>2. held[r]
          BY <1>3, <2>1, CarriedWhileAsking DEF HolderSafe
        <4>3. QED
          BY <1>1, <3>1, <3>3, <4>1, <4>2
      <3>4. QED
        BY <3>2, <3>3
    <2>2. ASSUME NEW h \in Goroutines, gpc'[<<r, h>>] \in {"allowed", "surplus", "surplusZone"} PROVE held[r]
      <3>1. CASE h = g
        BY <1>1, <2>2, <3>1
      <3>2. CASE h # g
        BY <1>1, <1>3, <2>2, <3>2 DEF HolderSafe, HolderOf
      <3>3. QED
        BY <3>1, <3>2
    <2>3. QED
      BY <1>2, <1>4, <2>1, <2>2 DEF HolderSafe, HolderOf
  <1>7. TicketsOf(r)'
    <2>1. ASSUME NEW h \in Goroutines
          PROVE  <<r, h>> \in active' <=> Ticketed(<<r, h>>)' \/ <<r, h>> \in Carried(r)
      <3>1. CASE h = g
        BY <1>1, <3>1 DEF Ticketed
      <3>2. CASE h # g
        BY <1>1, <1>5, <3>2 DEF Ticketed, HolderSafe, TicketsOf
      <3>3. QED
        BY <3>1, <3>2
    <2>2. QED
      BY <1>4, <2>1 DEF TicketsOf
  <1>8. MainAlone(r)'
    <2>1. "main" \in Goroutines
      BY DEF Goroutines
    <2>2. CASE g = "main"
      BY <1>1, <1>2, <1>3, <2>2 DEF HolderSafe, MainAlone
    <2>3. CASE g # "main"
      <3>1. gpc'[<<r, "main">>] = gpc[<<r, "main">>]
        BY <1>1, <2>1, <2>3
      <3>2. QED
        BY <1>2, <3>1 DEF HolderSafe, MainAlone
    <2>4. QED
      BY <2>2, <2>3
  <1>9. ASSUME NEW q \in Requests, q # r PROVE Untouched(q)
    BY <1>1, <1>2, <1>9 DEF Untouched, Lanes
  <1>10. QED
    BY <1>6, <1>7, <1>8, <1>9 DEF HolderSafe

\* Every step of holder.TryAcquire keeps the holder, its ticket and the
\* tickets in use together.
LEMMA GoroutineHolder ==
  ASSUME TypeOK, Places, NEW r \in Requests, HolderSafe(r), NEW g \in Goroutines, TryAcquireStep(r, g)
  PROVE  HolderSafe(r)' /\ \A q \in Requests : q # r => Untouched(q)
  <1>0. /\ gpc[<<r, g>>] \notin Returned
        /\ <<r, g>> \in Lanes
        /\ <<r, g>> \in active <=> Ticketed(<<r, g>>) \/ <<r, g>> \in Carried(r)
    <2>1. gpc[<<r, g>>] \notin Returned
      BY DEF TryAcquireStep, Check, EnterHotZone, AcquireClient, ClientSaturated, UndoHotZone,
             Commit, ReturnSurplus, ReturnSurplusZone, Returned
    <2>2. QED
      BY <2>1 DEF Lanes, HolderSafe, TicketsOf
  <1>1. rpc[r] \in {"asking", "resolving"}
    BY <1>0, Asking
  <1>2. gpc[<<r, g>>] # "check" => <<r, g>> \notin Carried(r)
    BY <1>0, <1>1, CarriedWhileAsking DEF HolderSafe, Returned
  <1>3. gpc[<<r, g>>] \in {"surplus", "surplusZone"} => held[r]
    BY <1>1 DEF HolderSafe, HolderOf
  <1>4. CASE Check(r, g)
    BY <1>0, <1>4, QuietMove, Zenon DEF Check, GoroutinePc, Returned, holderVars, Ticketed
  <1>5. CASE EnterHotZone(r, g)
    <2>1. CASE Goto(r, g, "client") /\ active' = active \cup {<<r, g>>}
      BY <1>0, <1>2, <1>5, <2>1, QuietMove DEF EnterHotZone, GoroutinePc, Returned, Ticketed
    <2>2. CASE Goto(r, g, "refused") /\ UNCHANGED active
      BY <1>0, <1>2, <1>5, <2>2, QuietMove, Zenon DEF EnterHotZone, GoroutinePc, Returned, Ticketed
    <2>3. QED
      BY <1>5, <2>1, <2>2 DEF EnterHotZone
  <1>6. CASE AcquireClient(r, g)
    BY <1>0, <1>2, <1>6, QuietMove DEF AcquireClient, GoroutinePc, Returned, Ticketed
  <1>7. CASE ClientSaturated(r, g)
    BY <1>0, <1>2, <1>7, QuietMove DEF ClientSaturated, GoroutinePc, Returned, Ticketed
  <1>8. CASE UndoHotZone(r, g)
    BY <1>0, <1>2, <1>8, QuietMove DEF UndoHotZone, GoroutinePc, Returned, Ticketed
  <1>9. CASE ReturnSurplus(r, g)
    BY <1>0, <1>2, <1>3, <1>9, QuietMove DEF ReturnSurplus, GoroutinePc, Returned, Ticketed
  <1>10. CASE ReturnSurplusZone(r, g)
    BY <1>0, <1>2, <1>3, <1>10, QuietMove DEF ReturnSurplusZone, GoroutinePc, Returned, Ticketed
  <1>11. CASE Commit(r, g) /\ held[r]
    BY <1>0, <1>2, <1>11, QuietMove DEF Commit, GoroutinePc, Returned, Ticketed
  <1>12. CASE Commit(r, g) /\ ~held[r]
    <2>1. /\ gpc'[<<r, g>>] = "allowed" /\ gpc[<<r, g>>] = "commit"
          /\ \A q \in Requests, h \in Goroutines :
               <<q, h>> # <<r, g>> => gpc'[<<q, h>>] = gpc[<<q, h>>]
      BY <1>12, LaneMoves, Zenon DEF Commit, GoroutinePc, Returned
    <2>2. /\ UNCHANGED <<rpc, active, releasing>>
          /\ held' = [held EXCEPT ![r] = TRUE]
          /\ hotZoneTicket' = [hotZoneTicket EXCEPT ![r] = <<r, g>>]
      BY <1>12 DEF Commit
    <2>3. held'[r] /\ hotZoneTicket'[r] = <<r, g>> /\ releasing[r] = NoTicket /\ <<r, g>> # NoTicket
      BY <1>0, <1>1, <2>2, LimiterAssumption DEF TypeOK, HolderSafe, HolderOf
    <2>4. Carried(r) = {} /\ Carried(r)' = {<<r, g>>}
      <3>1. Carried(r) = {}
        BY <1>1, <1>12, CarriedWhileAsking, Zenon DEF HolderSafe
      <3>2. Carried(r)' = {<<r, g>>}
        BY <2>2, <2>3 DEF Carried
      <3>3. QED
        BY <3>1, <3>2
    <2>5. HolderOf(r)'
      BY <1>1, <2>1, <2>2, <2>3, <2>4 DEF HolderOf
    <2>6. TicketsOf(r)'
      <3>1. ASSUME NEW h \in Goroutines, h # g
            PROVE  <<r, h>> \in active' <=> Ticketed(<<r, h>>)' \/ <<r, h>> \in Carried(r)'
        <4>1. gpc'[<<r, h>>] = gpc[<<r, h>>]
          BY <2>1, <3>1
        <4>2. QED
          BY <2>2, <2>4, <3>1, <4>1, Zenon DEF Ticketed, HolderSafe, TicketsOf
      <3>2. <<r, g>> \in active' /\ <<r, g>> \in Carried(r)'
        BY <1>0, <2>1, <2>2, <2>4, Zenon DEF Ticketed
      <3>3. QED
        BY <3>1, <3>2 DEF TicketsOf
    <2>7. MainAlone(r)'
      <3>1. "main" \in Goroutines
        BY DEF Goroutines
      <3>2. CASE g = "main"
        BY <2>1, <2>2, <3>2 DEF MainAlone, Returned
      <3>3. CASE g # "main"
        <4>1. rpc[r] = "resolving"
          BY <1>0, <3>3, Asking
        <4>2. gpc'[<<r, "main">>] = gpc[<<r, "main">>]
          BY <2>1, <3>1, <3>3
        <4>3. QED
          BY <2>2, <4>1, <4>2 DEF HolderSafe, MainAlone
      <3>4. QED
        BY <3>2, <3>3
    <2>8. ASSUME NEW q \in Requests, q # r PROVE Untouched(q)
      <3>1. held'[q] = held[q] /\ hotZoneTicket'[q] = hotZoneTicket[q]
        BY <2>2, <2>8 DEF TypeOK
      <3>2. \A h \in Goroutines : gpc'[<<q, h>>] = gpc[<<q, h>>]
        BY <2>1, <2>8
      <3>3. QED
        BY <2>2, <3>1, <3>2, Zenon DEF Untouched
    <2>9. QED
      BY <2>5, <2>6, <2>7, <2>8 DEF HolderSafe
  <1>13. QED
    BY <1>4, <1>5, <1>6, <1>7, <1>8, <1>9, <1>10, <1>11, <1>12 DEF TryAcquireStep

\* A request's own steps do the same: the ticket leaves with the slot, and
\* the request is over when it is back.
LEMMA RequestHolder ==
  ASSUME TypeOK, Places, NEW r \in Requests, HolderSafe(r), Ask(r) \/ GoUpstreamUnasked(r) \/ RequestStep(r)
  PROVE  HolderSafe(r)' /\ \A q \in Requests : q # r => Untouched(q)
  <1>0. /\ "main" \in Goroutines /\ "main" \notin Workers /\ Workers \subseteq Goroutines
        /\ PlacesOf(r) /\ NoTicket \notin Lanes
        /\ \A g \in Goroutines : <<r, g>> \in Lanes
    BY LimiterAssumption DEF Goroutines, Places, Lanes
  <1>1. CASE Ask(r) \/ AskAgain(r)
    <2>1. /\ UNCHANGED <<held, hotZoneTicket, releasing, active>>
          /\ rpc[r] \in {"idle", "resolving"} /\ rpc'[r] = "asking"
          /\ \A q \in Requests : q # r => rpc'[q] = rpc[q]
      BY <1>1 DEF Ask, AskAgain, TypeOK, holderVars
    <2>2. /\ gpc'[<<r, "main">>] = "check"
          /\ \A q \in Requests, h \in Goroutines :
               <<q, h>> # <<r, "main">> => gpc'[<<q, h>>] = gpc[<<q, h>>]
      BY <1>0, <1>1, LaneMoves DEF Ask, AskAgain, GoroutinePc
    <2>3. \A g \in Goroutines : gpc[<<r, g>>] \in Returned
      BY <1>0, <1>1 DEF Ask, AskAgain, PlacesOf, Returned
    <2>4. Carried(r)' = Carried(r)
      BY <2>1 DEF Carried
    <2>5. HolderOf(r)'
      <3>1. releasing[r] = NoTicket
        BY <2>1, Zenon DEF HolderSafe, HolderOf
      <3>2. ASSUME NEW l \in Carried(r) PROVE l \in {r} \X Goroutines /\ gpc'[l] \in {"allowed", "check"}
        <4>0. l \in {r} \X Goroutines /\ gpc[l] \in {"allowed", "check"}
          BY <3>2, Zenon DEF HolderSafe, HolderOf
        <4>1. PICK h \in Goroutines : l = <<r, h>> /\ gpc[l] \in {"allowed", "check"}
          BY ONLY <4>0
        <4>2. QED
          BY <2>2, <4>1
      <3>3. ASSUME NEW h \in Goroutines, gpc'[<<r, h>>] \in {"allowed", "surplus", "surplusZone"} PROVE held[r]
        <4>1. gpc'[<<r, h>>] = gpc[<<r, h>>]
          BY <2>2, <3>3
        <4>2. rpc[r] = "resolving"
          BY <1>0, <2>1, <3>3, <4>1 DEF PlacesOf
        <4>3. QED
          BY <3>3, <4>1, <4>2 DEF HolderSafe, HolderOf
      <3>4. QED
        BY <2>1, <2>4, <3>1, <3>2, <3>3, Zenon DEF HolderSafe, HolderOf
    <2>6. TicketsOf(r)'
      <3>1. \A g \in Goroutines : ~Ticketed(<<r, g>>)' /\ ~Ticketed(<<r, g>>)
        BY <2>2, <2>3 DEF Ticketed, Returned
      <3>2. QED
        BY <2>1, <2>4, <3>1 DEF HolderSafe, TicketsOf
    <2>7. MainAlone(r)'
      BY <2>1, <2>2 DEF MainAlone
    <2>8. ASSUME NEW q \in Requests, q # r PROVE Untouched(q)
      BY <2>1, <2>2, <2>8 DEF Untouched
    <2>9. QED
      BY <2>5, <2>6, <2>7, <2>8 DEF HolderSafe
  <1>2. CASE GoUpstreamUnasked(r) \/ GoUpstream(r)
    <2>1. /\ UNCHANGED <<held, hotZoneTicket, releasing, active>>
          /\ rpc[r] \in {"idle", "asking"} /\ rpc'[r] = "resolving"
          /\ \A q \in Requests : q # r => rpc'[q] = rpc[q]
      BY <1>2 DEF GoUpstreamUnasked, GoUpstream, TypeOK, holderVars
    <2>2. PICK ws \in SUBSET Workers :
            gpc' = [l \in Lanes |-> IF l[1] = r /\ l[2] \in ws THEN "check" ELSE gpc[l]]
      <3>1. CASE GoUpstreamUnasked(r)
        BY <3>1, Zenon DEF GoUpstreamUnasked
      <3>2. CASE GoUpstream(r)
        BY <3>2, Zenon DEF GoUpstream
      <3>3. QED
        BY <1>2, <3>1, <3>2, Zenon
    <2>3. \A q \in Requests, h \in Goroutines :
            gpc'[<<q, h>>] = IF q = r /\ h \in ws THEN "check" ELSE gpc[<<q, h>>]
      BY <2>2 DEF TypeOK, Lanes, GoroutinePc
    <2>4. \A g \in Goroutines : gpc[<<r, g>>] \in Returned
      BY <1>0, <1>2 DEF GoUpstreamUnasked, GoUpstream, PlacesOf, Returned, Goroutines
    <2>5. Carried(r)' = Carried(r)
      BY <2>1 DEF Carried
    <2>6. HolderOf(r)'
      <3>1. releasing[r] = NoTicket
        BY <2>1 DEF HolderSafe, HolderOf
      <3>2. ASSUME NEW l \in Carried(r) PROVE l \in {r} \X Goroutines /\ gpc'[l] \in {"allowed", "check"}
        <4>0. l \in {r} \X Goroutines /\ gpc[l] \in {"allowed", "check"}
          BY <3>2, Zenon DEF HolderSafe, HolderOf
        <4>1. PICK h \in Goroutines : l = <<r, h>> /\ gpc[l] \in {"allowed", "check"}
          BY ONLY <4>0
        <4>2. QED
          BY <2>3, <4>1
      <3>3. ASSUME NEW h \in Goroutines, gpc'[<<r, h>>] \in {"allowed", "surplus", "surplusZone"} PROVE held[r]
        <4>1. gpc'[<<r, h>>] = gpc[<<r, h>>]
          BY <2>3, <3>3
        <4>2. rpc[r] = "asking"
          BY <1>0, <2>1, <3>3, <4>1 DEF PlacesOf
        <4>3. QED
          BY <3>3, <4>1, <4>2 DEF HolderSafe, HolderOf
      <3>4. QED
        BY <2>1, <2>5, <3>1, <3>2, <3>3 DEF HolderSafe, HolderOf
    <2>7. TicketsOf(r)'
      <3>1. \A g \in Goroutines : ~Ticketed(<<r, g>>)' /\ ~Ticketed(<<r, g>>)
        BY <2>3, <2>4 DEF Ticketed, Returned
      <3>2. QED
        BY <2>1, <2>5, <3>1 DEF HolderSafe, TicketsOf
    <2>8. MainAlone(r)'
      <3>1. gpc'[<<r, "main">>] = gpc[<<r, "main">>]
        BY <1>0, <2>3
      <3>2. QED
        BY <1>0, <2>1, <2>4, <3>1 DEF MainAlone
    <2>9. ASSUME NEW q \in Requests, q # r PROVE Untouched(q)
      BY <2>1, <2>3, <2>9 DEF Untouched
    <2>10. QED
      BY <2>6, <2>7, <2>8, <2>9 DEF HolderSafe
  <1>3. CASE ReleaseIfHeld(r)
    <2>1. /\ UNCHANGED <<gpc, active>> /\ held[r] /\ Finished(r)
          /\ rpc'[r] = "release" /\ ~held'[r]
          /\ hotZoneTicket'[r] = NoTicket /\ releasing'[r] = hotZoneTicket[r]
          /\ \A q \in Requests : q # r => /\ rpc'[q] = rpc[q] /\ held'[q] = held[q]
                                          /\ hotZoneTicket'[q] = hotZoneTicket[q]
                                          /\ releasing'[q] = releasing[q]
      BY <1>3 DEF ReleaseIfHeld, TypeOK
    <2>2. releasing[r] = NoTicket
      BY <2>1 DEF Finished, HolderSafe, HolderOf
    <2>3. Carried(r)' = Carried(r)
      BY <2>1, <2>2 DEF Carried
    <2>4. HolderOf(r)' /\ TicketsOf(r)'
      BY <2>1, <2>3, Zenon DEF HolderSafe, HolderOf, TicketsOf, Ticketed
    <2>5. MainAlone(r)' /\ \A q \in Requests : q # r => Untouched(q)
      BY <2>1 DEF MainAlone, Untouched
    <2>6. QED
      BY <2>4, <2>5 DEF HolderSafe
  <1>4. CASE NothingHeld(r)
    <2>1. /\ UNCHANGED <<held, hotZoneTicket, releasing, active>> /\ ~held[r] /\ Finished(r) /\ Leave(r)
      BY <1>4 DEF NothingHeld, holderVars
    <2>2. \A q \in Requests, h \in Goroutines :
              gpc'[<<q, h>>] = IF q = r THEN "idle" ELSE gpc[<<q, h>>]
      BY <2>1, LanesEnd, Zenon
    <2>3. rpc'[r] = "idle" /\ \A q \in Requests : q # r => rpc'[q] = rpc[q]
      BY <2>1 DEF Leave, TypeOK
    <2>4. releasing[r] = NoTicket /\ hotZoneTicket[r] = NoTicket
      BY <2>1, Zenon DEF Finished, HolderSafe, HolderOf
    <2>5. Carried(r) = {} /\ Carried(r)' = {}
      BY <2>1, <2>4 DEF Carried
    <2>6. \A g \in Goroutines : gpc[<<r, g>>] \in Returned
      BY <1>0, <2>1 DEF Finished, PlacesOf, Returned, Goroutines
    <2>7. HolderOf(r)' /\ MainAlone(r)'
      BY <2>1, <2>3, <2>4, <2>5, Zenon DEF HolderOf, MainAlone
    <2>8. TicketsOf(r)'
      <3>1. \A g \in Goroutines : ~Ticketed(<<r, g>>)' /\ ~Ticketed(<<r, g>>)
        BY <2>2, <2>6 DEF Ticketed, Returned
      <3>2. QED
        BY <2>1, <2>5, <3>1 DEF HolderSafe, TicketsOf
    <2>9. ASSUME NEW q \in Requests, q # r PROVE Untouched(q)
      BY <2>1, <2>2, <2>3, <2>9, Zenon DEF Untouched
    <2>10. QED
      BY <2>7, <2>8, <2>9 DEF HolderSafe
  <1>5. CASE ReleaseClient(r)
    <2>1. /\ UNCHANGED <<gpc, held, hotZoneTicket, releasing, active>>
          /\ rpc[r] = "release" /\ rpc'[r] = "releaseZone"
          /\ \A q \in Requests : q # r => rpc'[q] = rpc[q]
      BY <1>5 DEF ReleaseClient, TypeOK, holderVars
    <2>2. Carried(r)' = Carried(r)
      BY <2>1 DEF Carried
    <2>3. HolderOf(r)' /\ TicketsOf(r)'
      BY <2>1, <2>2, Zenon DEF HolderSafe, HolderOf, TicketsOf, Ticketed
    <2>4. MainAlone(r)' /\ \A q \in Requests : q # r => Untouched(q)
      BY <2>1 DEF MainAlone, Untouched
    <2>5. QED
      BY <2>3, <2>4 DEF HolderSafe
  <1>6. CASE ReleaseHotZone(r)
    <2>1. /\ UNCHANGED <<held, hotZoneTicket>> /\ rpc[r] = "releaseZone" /\ Leave(r)
          /\ active' = active \ {releasing[r]}
          /\ releasing'[r] = NoTicket /\ \A q \in Requests : q # r => releasing'[q] = releasing[q]
      BY <1>6 DEF ReleaseHotZone, TypeOK
    <2>2. \A q \in Requests, h \in Goroutines :
              gpc'[<<q, h>>] = IF q = r THEN "idle" ELSE gpc[<<q, h>>]
      BY <2>1, LanesEnd, Zenon
    <2>3. rpc'[r] = "idle" /\ \A q \in Requests : q # r => rpc'[q] = rpc[q]
      BY <2>1 DEF Leave, TypeOK
    <2>4. ~held[r] /\ hotZoneTicket[r] = NoTicket
      BY <1>0, <2>1, Zenon DEF PlacesOf, HolderSafe, HolderOf
    <2>5. Carried(r) = {releasing[r]} \ {NoTicket} /\ Carried(r)' = {}
      BY <2>1, <2>4, Zenon DEF Carried
    <2>6. \A g \in Goroutines : gpc[<<r, g>>] \in Returned
      BY <1>0, <2>1 DEF PlacesOf
    <2>7. HolderOf(r)' /\ MainAlone(r)'
      BY <2>1, <2>3, <2>4, <2>5 DEF HolderOf, MainAlone
    <2>8. TicketsOf(r)'
      <3>1. \A g \in Goroutines : ~Ticketed(<<r, g>>)' /\ ~Ticketed(<<r, g>>)
        BY <2>2, <2>6 DEF Ticketed, Returned
      <3>2. \A g \in Goroutines : <<r, g>> \notin active'
        BY <1>0, <2>1, <2>5, <3>1 DEF HolderSafe, TicketsOf
      <3>3. QED
        BY <2>5, <3>1, <3>2 DEF TicketsOf
    <2>9. ASSUME NEW q \in Requests, q # r PROVE Untouched(q)
      <3>1. \A g \in Goroutines : <<q, g>> # releasing[r]
        <4>1. releasing[r] = NoTicket \/ releasing[r] \in {r} \X Goroutines
          BY <2>5 DEF HolderSafe, HolderOf
        <4>2. \A g \in Goroutines : <<q, g>> \in Lanes /\ <<q, g>> \notin {r} \X Goroutines
          BY <2>9 DEF Lanes
        <4>3. QED
          BY <1>0, <4>1, <4>2
      <3>2. QED
        BY <2>1, <2>2, <2>3, <2>9, <3>1, Zenon DEF Untouched
    <2>10. QED
      BY <2>7, <2>8, <2>9 DEF HolderSafe
  <1>7. QED
    BY <1>1, <1>2, <1>3, <1>4, <1>5, <1>6 DEF RequestStep

LEMMA HolderInvInitially == Init => HolderInv
  <1> SUFFICES ASSUME Init PROVE HolderInv
    OBVIOUS
  <1>1. TypeOK /\ Places
    BY ClientInvInitially DEF ClientInv
  <1>2. ASSUME NEW r \in Requests PROVE HolderSafe(r)
    <2>1. Carried(r) = {}
      BY DEF Init, Carried
    <2>2. /\ rpc[r] = "idle" /\ ~held[r] /\ hotZoneTicket[r] = NoTicket /\ releasing[r] = NoTicket
          /\ \A g \in Goroutines : gpc[<<r, g>>] = "idle" /\ <<r, g>> \notin active
      BY DEF Init, Lanes
    <2>3. QED
      BY <2>1, <2>2 DEF HolderSafe, HolderOf, TicketsOf, MainAlone, Ticketed
  <1>3. QED
    BY <1>1, <1>2 DEF HolderInv

LEMMA HolderInvInductive == HolderInv /\ [Next]_vars => HolderInv'
  <1> SUFFICES ASSUME HolderInv, [Next]_vars PROVE HolderInv'
    OBVIOUS
  <1>1. TypeOK /\ Places /\ TypeOK' /\ Places' /\ \A q \in Requests : HolderSafe(q)
    BY TypePreserved, PlacesInductive DEF HolderInv
  <1>2. ASSUME NEW q \in Requests PROVE HolderSafe(q)'
    <2>1. ASSUME NEW r \in Requests, Ask(r) \/ GoUpstreamUnasked(r) \/ RequestStep(r) PROVE HolderSafe(q)'
      BY <1>1, <2>1, RequestHolder, UntouchedSafe
    <2>2. ASSUME NEW r \in Requests, NEW g \in Goroutines, TryAcquireStep(r, g) PROVE HolderSafe(q)'
      BY <1>1, <2>2, GoroutineHolder, UntouchedSafe
    <2>3. CASE UNCHANGED vars
      <3>1. Untouched(q)
        BY <2>3 DEF vars, Untouched
      <3>2. QED
        BY <1>1, <3>1, UntouchedSafe
    <2>4. QED
      BY <2>1, <2>2, <2>3 DEF Next
  <1>3. QED
    BY <1>1, <1>2 DEF HolderInv

\* Every hot-zone ticket in use belongs to exactly one goroutine inside
\* TryAcquire or to exactly one holder, and a holder's ticket is its own
\* request's: ReleaseIfHeld and the surplus path return each ticket once.
THEOREM TicketsSafe == Spec => []TicketAccounting
  <1>1. HolderInv => TicketAccounting
    <2> SUFFICES ASSUME HolderInv PROVE TicketAccounting
      OBVIOUS
    <2>1. ASSUME NEW r \in Requests, NEW l \in Carried(r) PROVE l \in Lanes /\ l[1] = r /\ ~Ticketed(l)
      BY <2>1 DEF HolderInv, HolderSafe, HolderOf, Ticketed, Lanes
    <2>2. ASSUME NEW r \in Requests, NEW g \in Goroutines
          PROVE  <<r, g>> \in active <=> \/ Ticketed(<<r, g>>)
                                         \/ \E q \in Requests : <<r, g>> \in Carried(q)
      <3>1. \A q \in Requests : <<r, g>> \in Carried(q) => q = r
        BY <2>1
      <3>2. QED
        BY <3>1 DEF HolderInv, HolderSafe, TicketsOf
    <2>3. \A l \in Lanes : \E r \in Requests, g \in Goroutines : l = <<r, g>>
      BY DEF Lanes
    <2>4. \A l \in Lanes : l \in active <=> Ticketed(l) \/ \E q \in Requests : l \in Carried(q)
      BY <2>2, <2>3
    <2>5. active \subseteq Lanes
      BY DEF HolderInv, TypeOK
    <2>6. active = {l \in Lanes : Ticketed(l)} \cup UNION {Carried(r) : r \in Requests}
      BY <2>1, <2>4, <2>5
    <2>7. QED
      BY <2>1, <2>6 DEF TicketAccounting
  <1>2. QED
    BY <1>1, HolderInvInitially, HolderInvInductive, PTL DEF Spec

\* Whoever TryAcquire told to go on, through the fast path, a commit or the
\* surplus path, works under a slot its holder keeps until the request ends.
THEOREM AllowedSafe == Spec => []AllowedIsHeld
  <1>1. HolderInv => AllowedIsHeld
    BY DEF HolderInv, HolderSafe, HolderOf, AllowedIsHeld
  <1>2. QED
    BY <1>1, HolderInvInitially, HolderInvInductive, PTL DEF Spec

\* A counter that never runs ahead of the slots stays so, whatever observe
\* mode let through uncounted.
LEMMA NeverAheadInductive == TypeOK /\ Places /\ NeverAhead /\ [Next]_vars => NeverAhead'
  <1> SUFFICES ASSUME TypeOK, Places, NeverAhead, [Next]_vars, NEW c \in Clients
               PROVE  inflight'[c] <= Cardinality(Slots(c)')
    BY DEF NeverAhead
  <1>1. CountersMove(c)
    BY EveryStepCounts
  <1>2. Cardinality(Slots(c)) \in Nat /\ inflight[c] \in Nat /\ inflight[c] <= Cardinality(Slots(c))
    BY SlotsFinite DEF TypeOK, NeverAhead
  <1>3. QED
    BY <1>1, <1>2 DEF CountersMove

LEMMA NeverAheadInitially == Init => NeverAhead
  <1> SUFFICES ASSUME Init, NEW c \in Clients PROVE inflight[c] <= Cardinality(Slots(c))
    BY DEF NeverAhead
  <1>1. inflight[c] = 0 /\ Cardinality(Slots(c)) \in Nat
    BY SlotsFinite DEF Init
  <1>2. QED
    BY <1>1

\* A request that asks with its own goroutine owns no slot yet.
LEMMA AskingOwnsNothing ==
  ASSUME HolderInv, NEW r \in Requests, gpc[<<r, "main">>] = "client"
  PROVE  RequestSlots(r) = {}
  <1>1. TypeOK /\ Places /\ HolderSafe(r) /\ "main" \in Goroutines /\ "holder" \notin Goroutines
    BY SlotCases DEF HolderInv, Goroutines
  <1>2. rpc[r] = "asking"
    BY <1>1, Asking DEF HolderSafe, MainAlone, Returned
  <1>3. ~held[r] /\ \A w \in Workers : gpc[<<r, w>>] \in Returned
    BY <1>1, <1>2 DEF HolderSafe, MainAlone, Places, PlacesOf
  <1>4. \A g \in Goroutines : gpc[<<r, g>>] \notin {"commit", "surplus"}
    BY <1>3 DEF Goroutines, Returned
  <1>5. ASSUME NEW s \in {r} \X (Goroutines \cup {"holder"}) PROVE ~Owns(s)
    <2>1. CASE s[2] = "holder"
      BY <1>2, <1>3, <2>1 DEF Owns
    <2>2. CASE s[2] # "holder"
      <3>1. PICK g \in Goroutines : s = <<r, g>>
        BY <2>2
      <3>2. QED
        BY <1>4, <2>2, <3>1 DEF Owns
    <2>3. QED
      BY <2>1, <2>2
  <1>6. QED
    BY <1>5 DEF RequestSlots

\* The client limit refuses a request's own goroutine, or would in observe
\* mode, only when other requests of the client own all its slots: a request
\* is never refused because of what it holds itself.
THEOREM OnlyOthersRefuse == Spec => RefusedByOthers
  <1>1. ASSUME HolderInv, NeverAhead, NEW r \in Requests, ClientSaturated(r, "main")
        PROVE  Cardinality(Slots(ClientOf[r]) \ RequestSlots(r)) >= Limit
    <2>1. Slots(ClientOf[r]) \ RequestSlots(r) = Slots(ClientOf[r])
      BY <1>1, AskingOwnsNothing DEF ClientSaturated
    <2>2. ClientOf[r] \in Clients /\ Limit \in Nat
      BY LimiterAssumption
    <2>3. inflight[ClientOf[r]] \in Nat /\ inflight[ClientOf[r]] >= Limit
      BY <1>1, <2>2 DEF ClientSaturated, HolderInv, TypeOK
    <2>4. Cardinality(Slots(ClientOf[r])) \in Nat /\ inflight[ClientOf[r]] <= Cardinality(Slots(ClientOf[r]))
      BY <1>1, <2>2, SlotsFinite DEF NeverAhead
    <2>5. QED
      BY <2>1, <2>2, <2>3, <2>4
  <1>2. HolderInv /\ NeverAhead /\ [Next]_vars =>
          [\A r \in Requests :
             ClientSaturated(r, "main") => Cardinality(Slots(ClientOf[r]) \ RequestSlots(r)) >= Limit]_vars
    BY <1>1
  <1>3. HolderInv /\ NeverAhead /\ [Next]_vars => NeverAhead'
    BY NeverAheadInductive DEF HolderInv
  <1>4. QED
    BY <1>2, <1>3, HolderInvInitially, HolderInvInductive, NeverAheadInitially, PTL
       DEF Spec, RefusedByOthers

=============================================================================

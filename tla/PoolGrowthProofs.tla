-------------------------- MODULE PoolGrowthProofs --------------------------
(***************************************************************************)
(* Proofs about PoolGrowth, for any number of slots, first pools, timers   *)
(* and descriptors.  The inductive invariant adds which pools are ready at *)
(* each step of a growth, and that the main loop's number of pools is not  *)
(* above the real one while it is away from its loop.                      *)
(***************************************************************************)
EXTENDS PoolGrowth, TLAPS

\* Each pool up to size_pool is ready, and those added to them in a growth.
ReadySoFar ==
  /\ ready = 0..(size_pool + (IF gpc = "allocate" THEN pp ELSE 0) - 1)
  /\ gpc = "allocate" => pp <= size_pool

\* The main loop knows of no pool that is not there.
NoneMore == s <= size_pool

\* A growth that is asked for, or under way, has room.
RoomToGrow ==
  gpc \in {"woken", "allocate"} => size_pool + size_pool < PoolLimit

\* The next pool is one of those that are there.
RouteInside == idx_pool \in 0..(size_pool - 1)

GrowthInv ==
  /\ TypeOK
  /\ SizeAgrees
  /\ ReadySoFar
  /\ NoneMore
  /\ RoomToGrow
  /\ RouteInside

(***************************************************************************)
(* The remainder that C's % gives of numbers that are not negative.        *)
(***************************************************************************)
LEMMA Remainder ==
  ASSUME NEW n \in Nat, NEW d \in Nat \ {0}
  PROVE  n % d \in 0..(d - 1)
OBVIOUS

(***************************************************************************)
(* Threads times pools, the number the route after a growth begins with.   *)
(***************************************************************************)
LEMMA Product ==
  ASSUME NEW n \in Nat, NEW d \in Nat
  PROVE  n * d + 1 \in Nat
OBVIOUS

(***************************************************************************)
(* The server that init_server leaves satisfies the invariant.             *)
(***************************************************************************)
LEMMA InitInv == Init => GrowthInv
<1> SUFFICES ASSUME Init PROVE GrowthInv
  OBVIOUS
<1> USE PoolAssumption DEF Init
<1>1. TypeOK
  <2>1. missed \in BOOLEAN
    OBVIOUS
  <2>2. StartPools \in 1..PoolLimit /\ 0..(StartPools - 1) \subseteq 0..(PoolLimit - 1)
    OBVIOUS
  <2> QED
    BY <2>1, <2>2 DEF TypeOK, MainSteps, GrowthSteps
<1>2. SizeAgrees /\ ReadySoFar /\ NoneMore /\ RoomToGrow /\ RouteInside
  BY DEF SizeAgrees, ReadySoFar, NoneMore, RoomToGrow, RouteInside
<1> QED
  BY <1>1, <1>2 DEF GrowthInv

(***************************************************************************)
(* The invariant does not speak of what these leave alone.                 *)
(***************************************************************************)
LEMMA StutterInv == GrowthInv /\ UNCHANGED vars => GrowthInv'
BY DEF GrowthInv, TypeOK, SizeAgrees, ReadySoFar, NoneMore, RoomToGrow, RouteInside,
       vars, main, growth

(***************************************************************************)
(* The route after a growth, or where there can be none, is one of the     *)
(* pools that are there, whatever the product is.                          *)
(***************************************************************************)
LEMMA RerouteInside ==
  ASSUME GrowthInv, Reroute
  PROVE  idx_pool' \in 0..(size_pool - 1)
<1> USE PoolAssumption DEF GrowthInv, TypeOK
<1>1. num_thread_pool * s + 1 \in Nat
  BY Product
<1>2. size_pool \in Nat \ {0}
  OBVIOUS
<1>3. (num_thread_pool * s + 1) % size_pool \in 0..(size_pool - 1)
  BY <1>1, <1>2, Remainder
<1> QED
  BY <1>3 DEF Reroute

(***************************************************************************)
(* The steps of the main loop keep the invariant.                          *)
(***************************************************************************)
LEMMA MainInv ==
  GrowthInv /\ (Accept \/ Route \/ WaitForEnd \/ Resume) => GrowthInv'
<1> SUFFICES ASSUME GrowthInv, Accept \/ Route \/ WaitForEnd \/ Resume
             PROVE  GrowthInv'
  OBVIOUS
<1> USE PoolAssumption
    DEF GrowthInv, TypeOK, MainSteps, GrowthSteps, SizeAgrees, ReadySoFar,
        NoneMore, RoomToGrow, RouteInside, growth
<1>1. CASE Accept
  BY <1>1 DEF Accept
<1>2. CASE RouteNext
  <2>1. idx_pool + 1 \in Nat /\ s \in Nat \ {0}
    OBVIOUS
  <2>2. idx_pool' \in 0..(s - 1)
    BY <1>2, <2>1, Remainder DEF RouteNext
  <2> QED
    BY <1>2, <2>2 DEF RouteNext
<1>3. CASE RouteAtLimit
  <2>1. idx_pool' \in 0..(size_pool - 1)
    BY <1>3, RerouteInside DEF RouteAtLimit
  <2> QED
    BY <1>3, <2>1 DEF RouteAtLimit, Reroute
<1>4. CASE AskForPools
  <2>1. missed' \in BOOLEAN
    BY <1>4, Zenon DEF AskForPools
  <2>2. /\ gpc' \in GrowthSteps
        /\ gpc' = "allocate" <=> gpc = "allocate"
        /\ size_pool + size_pool < PoolLimit
    BY <1>4 DEF AskForPools
  <2> QED
    BY <1>4, <2>1, <2>2 DEF AskForPools
<1>5. CASE WaitForEnd
  BY <1>5 DEF WaitForEnd
<1>6. CASE Resume
  <2>1. idx_pool' \in 0..(size_pool - 1)
    BY <1>6, RerouteInside DEF Resume
  <2> QED
    BY <1>6, <2>1 DEF Resume, Reroute
<1> QED
  BY <1>1, <1>2, <1>3, <1>4, <1>5, <1>6 DEF Route

(***************************************************************************)
(* The steps of handle_pool keep the invariant.                            *)
(***************************************************************************)
LEMMA HandlePoolInv == GrowthInv /\ HandlePool => GrowthInv'
<1> SUFFICES ASSUME GrowthInv, HandlePool PROVE GrowthInv'
  OBVIOUS
<1> USE PoolAssumption
    DEF GrowthInv, TypeOK, MainSteps, GrowthSteps, SizeAgrees, ReadySoFar,
        NoneMore, RoomToGrow, RouteInside, main
<1>1. CASE WaitForRequest
  BY <1>1 DEF WaitForRequest
<1>2. CASE StartGrowth
  BY <1>2 DEF StartGrowth
<1>3. CASE AllocatePool
  <2>1. ready' = 0..(size_pool + pp)
    BY <1>3 DEF AllocatePool
  <2>2. size_pool + pp < PoolLimit /\ pp' = pp + 1 /\ pp' <= size_pool
    BY <1>3 DEF AllocatePool
  <2> QED
    BY <1>3, <2>1, <2>2 DEF AllocatePool
<1>4. CASE DoubleSize
  <2>1. ready = 0..(size_pool + size_pool - 1)
    BY <1>4 DEF DoubleSize
  <2> QED
    BY <1>4, <2>1 DEF DoubleSize
<1>5. CASE SignalEnd
  <2>1. missed' \in BOOLEAN
    BY <1>5, Zenon DEF SignalEnd
  <2>2. mpc' \in {"signalled", "woken"} /\ gpc' = "lock"
    BY <1>5 DEF SignalEnd
  <2> QED
    BY <1>5, <2>1, <2>2 DEF SignalEnd
<1> QED
  BY <1>1, <1>2, <1>3, <1>4, <1>5 DEF HandlePool

(***************************************************************************)
(* Clients that leave and threads that count down their timers keep it.    *)
(***************************************************************************)
LEMMA OthersInv ==
  GrowthInv /\ (Leave \/ \E t \in Timer : TakeTimer(t) \/ ReleaseTimer(t)) => GrowthInv'
<1> SUFFICES ASSUME GrowthInv,
                    Leave \/ \E t \in Timer : TakeTimer(t) \/ ReleaseTimer(t)
             PROVE  GrowthInv'
  OBVIOUS
<1> USE PoolAssumption
    DEF GrowthInv, TypeOK, SizeAgrees, ReadySoFar, NoneMore, RoomToGrow, RouteInside,
        main, growth
<1>1. CASE Leave
  BY <1>1 DEF Leave
<1>2. ASSUME NEW t \in Timer, TakeTimer(t) \/ ReleaseTimer(t) PROVE GrowthInv'
  BY <1>2 DEF TakeTimer, ReleaseTimer
<1> QED
  BY <1>1, <1>2

(***************************************************************************)
(* The invariant holds throughout.                                         *)
(***************************************************************************)
THEOREM Invariance == Spec => []GrowthInv
<1>1. GrowthInv /\ [Next]_vars => GrowthInv'
  BY MainInv, HandlePoolInv, OthersInv, StutterInv DEF Next
<1> QED
  BY InitInv, <1>1, PTL DEF Spec

(***************************************************************************)
(* The numbers of pools stay within the arrays of pools and dispatchers,   *)
(* however often the server grows.                                         *)
(***************************************************************************)
THEOREM TypeCorrect == Spec => []TypeOK
BY Invariance, PTL DEF GrowthInv

(***************************************************************************)
(* No pools are added while the main loop goes by the number it has.       *)
(***************************************************************************)
THEOREM NumberUpToDate == Spec => []SizeAgrees
BY Invariance, PTL DEF GrowthInv

(***************************************************************************)
(* A connection is only handed to a pool that has been started.            *)
(***************************************************************************)
THEOREM RoutedToReady == Spec => []PoolsReady
<1>1. GrowthInv => PoolsReady
  <2> SUFFICES ASSUME GrowthInv PROVE PoolsReady
    OBVIOUS
  <2> USE PoolAssumption
      DEF GrowthInv, TypeOK, ReadySoFar, NoneMore, RoomToGrow, RouteInside
  <2>1. 0..(size_pool - 1) \subseteq ready
    OBVIOUS
  <2>2. 0..(s - 1) \subseteq 0..(size_pool - 1)
    OBVIOUS
  <2> QED
    BY <2>1, <2>2 DEF PoolsReady
<1> QED
  BY Invariance, <1>1, PTL

=============================================================================

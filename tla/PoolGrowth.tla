----------------------------- MODULE PoolGrowth -----------------------------
(***************************************************************************)
(* How the server gets more pools.  The main loop, when it counts too many *)
(* descriptors for the pools it has, signals cond_realloc and waits for    *)
(* cond_realloc_end; the thread of handle_pool waits for the one, doubles  *)
(* the number of pools, and signals the other.  Neither wait looks at a    *)
(* predicate, and neither signal is given under the mutex of the wait it   *)
(* is for.  Meanwhile the slots' threads take mtx_realloc, once a second,  *)
(* to count down their timers.                                             *)
(*                                                                         *)
(* What becomes of a connection in its pool is module ThreadPool: here     *)
(* clients come and go, and are counted in max_descriptor.                 *)
(***************************************************************************)
EXTENDS Integers

CONSTANTS
  num_thread_pool,   \* slots of a pool, from the configuration
  StartPools,        \* size_pool in the configuration
  PoolLimit,         \* length of the arrays of pools and dispatchers, 32
  Timer,             \* threads that count down their timers
  NoOne,             \* mtx_realloc is free
  Growth,            \* the thread of handle_pool
  MaxDesc            \* bound: max_descriptor

ASSUME PoolAssumption ==
  /\ num_thread_pool \in Nat \ {0}
  /\ PoolLimit \in Nat
  /\ StartPools \in 1..PoolLimit
  /\ MaxDesc \in Nat \ {0}
  /\ NoOne \notin Timer
  /\ Growth \notin Timer \cup {NoOne}

VARIABLES
  mpc,             \* where the main loop is
  idx_pool,        \* the pool that gets the next connection
  s,               \* how many pools the main loop thinks there are
  max_descriptor,
  gpc,             \* where handle_pool is
  pp,              \* its loop variable
  size_pool,
  ready,           \* the pools that have threads and a dispatcher
  mtx_realloc,     \* the thread that holds it, or NoOne
  missed           \* history: a signal found nobody waiting for it

main == <<mpc, idx_pool, s, max_descriptor>>
growth == <<gpc, pp, size_pool, ready>>
vars == <<main, growth, mtx_realloc, missed>>

MainSteps == {"poll", "route", "signalled", "waiting", "woken"}
GrowthSteps == {"lock", "waiting", "woken", "allocate", "end"}

TypeOK ==
  /\ mpc \in MainSteps
  /\ idx_pool \in Nat
  /\ s \in 1..PoolLimit
  /\ max_descriptor \in 1..MaxDesc
  /\ gpc \in GrowthSteps
  /\ pp \in Nat
  /\ size_pool \in 1..PoolLimit
  /\ ready \subseteq 0..(PoolLimit - 1)
  /\ mtx_realloc \in Timer \cup {NoOne, Growth}
  /\ missed \in BOOLEAN

\* init_server has allocated the first pools and started their dispatchers.
Init ==
  /\ mpc = "poll"
  /\ idx_pool = 0
  /\ s = StartPools
  /\ max_descriptor = 1
  /\ gpc = "lock"
  /\ pp = 0
  /\ size_pool = StartPools
  /\ ready = 0..(StartPools - 1)
  /\ mtx_realloc = NoOne
  /\ missed = FALSE

-----------------------------------------------------------------------------
(* The main loop.                                                          *)

\* accept(), and the hand-off to the dispatcher of idx_pool.
Accept ==
  /\ mpc = "poll"
  /\ max_descriptor < MaxDesc
  /\ max_descriptor' = max_descriptor + 1
  /\ mpc' = "route"
  /\ UNCHANGED <<idx_pool, s, growth, mtx_realloc, missed>>

\* The product of two integers is halved as an integer.
Crowded == max_descriptor >= (num_thread_pool * s) \div 2

\* Mutant of RouteNext: the last pool is left out.
RouteShort ==
  /\ mpc = "route"
  /\ ~Crowded
  /\ idx_pool' = IF s = 1 THEN 0 ELSE (idx_pool + 1) % (s - 1)
  /\ mpc' = "poll"
  /\ UNCHANGED <<s, max_descriptor, growth, mtx_realloc, missed>>

\* The next connection goes to the next pool.
RouteNext ==
  /\ mpc = "route"
  /\ ~Crowded
  /\ idx_pool' = (idx_pool + 1) % s
  /\ mpc' = "poll"
  /\ UNCHANGED <<s, max_descriptor, growth, mtx_realloc, missed>>

\* After a growth, or where there can be none: from the product on.
Reroute ==
  /\ s' = size_pool
  /\ idx_pool' = (num_thread_pool * s + 1) % size_pool
  /\ mpc' = "poll"

\* Too many descriptors, and no more pools to be had.
RouteAtLimit ==
  /\ mpc = "route"
  /\ Crowded
  /\ s + s >= PoolLimit
  /\ Reroute
  /\ UNCHANGED <<max_descriptor, growth, mtx_realloc, missed>>

\* Too many descriptors: cond_realloc is signalled, with no mutex.
AskForPools ==
  /\ mpc = "route"
  /\ Crowded
  /\ s + s < PoolLimit
  /\ mpc' = "signalled"
  /\ gpc' = IF gpc = "waiting" THEN "woken" ELSE gpc
  /\ missed' = (missed \/ gpc # "waiting")
  /\ UNCHANGED <<idx_pool, s, max_descriptor, pp, size_pool, ready, mtx_realloc>>

\* mtx_realloc_end, which nobody else takes, and the wait for the end.
WaitForEnd ==
  /\ mpc = "signalled"
  /\ mpc' = "waiting"
  /\ UNCHANGED <<idx_pool, s, max_descriptor, growth, mtx_realloc, missed>>

\* The wait is over.
Resume ==
  /\ mpc = "woken"
  /\ Reroute
  /\ UNCHANGED <<max_descriptor, growth, mtx_realloc, missed>>

-----------------------------------------------------------------------------
(* handle_pool.                                                            *)

\* get_mutex and wait_cond, which gives the mutex up as the thread waits.
WaitForRequest ==
  /\ gpc = "lock"
  /\ mtx_realloc = NoOne
  /\ gpc' = "waiting"
  /\ UNCHANGED <<main, pp, size_pool, ready, mtx_realloc, missed>>

\* Mutant of StartGrowth: pp is not set to 0 anew.
StartGrowthOn ==
  /\ gpc = "woken"
  /\ mtx_realloc = NoOne
  /\ mtx_realloc' = Growth
  /\ gpc' = "allocate"
  /\ UNCHANGED <<main, pp, size_pool, ready, missed>>

\* wait_cond returns once it has the mutex again.
StartGrowth ==
  /\ gpc = "woken"
  /\ mtx_realloc = NoOne
  /\ mtx_realloc' = Growth
  /\ pp' = 0
  /\ gpc' = "allocate"
  /\ UNCHANGED <<main, size_pool, ready, missed>>

\* allocate_pool, the mutex and the condition of its dispatcher, its thread.
AllocatePool ==
  /\ gpc = "allocate"
  /\ pp < size_pool
  /\ ready' = ready \cup {size_pool + pp}
  /\ pp' = pp + 1
  /\ UNCHANGED <<main, gpc, size_pool, mtx_realloc, missed>>

DoubleSize ==
  /\ gpc = "allocate"
  /\ pp >= size_pool
  /\ size_pool' = size_pool + size_pool
  /\ gpc' = "end"
  /\ UNCHANGED <<main, pp, ready, mtx_realloc, missed>>

\* Mutant of SignalEnd: the signal is forgotten.
SignalEndNot ==
  /\ gpc = "end"
  /\ mtx_realloc' = NoOne
  /\ gpc' = "lock"
  /\ UNCHANGED <<main, pp, size_pool, ready, missed>>

\* cond_realloc_end is signalled, without its mutex, and mtx_realloc released.
SignalEnd ==
  /\ gpc = "end"
  /\ mpc' = IF mpc = "waiting" THEN "woken" ELSE mpc
  /\ missed' = (missed \/ mpc # "waiting")
  /\ mtx_realloc' = NoOne
  /\ gpc' = "lock"
  /\ UNCHANGED <<idx_pool, s, max_descriptor, pp, size_pool, ready>>

-----------------------------------------------------------------------------
(* The threads of the slots.                                               *)

\* handle_timer takes mtx_realloc for each unit of the timer ...
TakeTimer(t) ==
  /\ mtx_realloc = NoOne
  /\ mtx_realloc' = t
  /\ UNCHANGED <<main, growth, missed>>

\* ... and releases it on each way out.
ReleaseTimer(t) ==
  /\ mtx_realloc = t
  /\ mtx_realloc' = NoOne
  /\ UNCHANGED <<main, growth, missed>>

\* close_client_with_status: a client is gone.
Leave ==
  /\ max_descriptor > 1
  /\ max_descriptor' = max_descriptor - 1
  /\ UNCHANGED <<mpc, idx_pool, s, growth, mtx_realloc, missed>>

Route == RouteNext \/ RouteAtLimit \/ AskForPools

HandlePool ==
  \/ WaitForRequest
  \/ StartGrowth
  \/ AllocatePool
  \/ DoubleSize
  \/ SignalEnd

Next ==
  \/ Accept
  \/ Route
  \/ WaitForEnd
  \/ Resume
  \/ HandlePool
  \/ Leave
  \/ \E t \in Timer : TakeTimer(t) \/ ReleaseTimer(t)

Spec == Init /\ [][Next]_vars

(***************************************************************************)
(* The threads are runnable, and the new connections to the database and   *)
(* threads that AllocatePool asks for come.  Clients need not come or go.  *)
(* A timer holds mtx_realloc for some lines in each second, so that a      *)
(* thread that waits for it has it in the end: strong fairness.            *)
(***************************************************************************)
FairSpec ==
  /\ Spec
  /\ WF_vars(Route)
  /\ WF_vars(WaitForEnd)
  /\ WF_vars(Resume)
  /\ SF_vars(WaitForRequest)
  /\ SF_vars(StartGrowth)
  /\ WF_vars(AllocatePool)
  /\ WF_vars(DoubleSize)
  /\ WF_vars(SignalEnd)
  /\ \A t \in Timer : WF_vars(ReleaseTimer(t))

-----------------------------------------------------------------------------
(***************************************************************************)
(* A connection is only ever handed to a pool whose threads and dispatcher *)
(* have been started, and no pool is put beyond the arrays, although the   *)
(* main loop goes by a number of its own, s, and computes the pool after a *)
(* growth from the number of threads.                                      *)
(***************************************************************************)
PoolsReady ==
  /\ idx_pool \in ready
  /\ 0..(s - 1) \subseteq ready
  /\ gpc = "allocate" => size_pool + size_pool < PoolLimit

(***************************************************************************)
(* Pools are added only while the main loop waits for them, so that its    *)
(* number of pools is never out of date when it uses it.                   *)
(***************************************************************************)
SizeAgrees ==
  /\ mpc \in {"poll", "route"} => s = size_pool
  /\ gpc \in {"woken", "allocate", "end"} => mpc \in {"signalled", "waiting"}

-----------------------------------------------------------------------------
(***************************************************************************)
(* A main loop that has asked for pools goes on, unless one of the signals *)
(* was given when nobody waited for it: handle_pool may still have been on *)
(* its way to its wait, or done before the main loop came to its own.      *)
(***************************************************************************)
MainGoesOn == mpc = "signalled" ~> (mpc = "poll" \/ missed)

(***************************************************************************)
(* If connections keep coming, and are not too many for the pools for      *)
(* ever, every pool is given some of them.                                 *)
(***************************************************************************)
EveryPoolUsed ==
  ([]<>(mpc = "route") /\ <>[](mpc = "route" => ~Crowded)) =>
    \A k \in 0..(PoolLimit - 1) : []<>(k < size_pool => idx_pool = k)

=============================================================================

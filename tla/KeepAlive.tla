----------------------------- MODULE KeepAlive -----------------------------
(***************************************************************************)
(* How long a thread of the pool keeps its client: the timer and the quota *)
(* of requests of one slot, as handle_timer counts them down and           *)
(* handle_client tests them.  The timer does not measure the time since    *)
(* the last request: it loses one for every poll() that times out AND for  *)
(* every request that arrives while it is not 0, and it is set back to its *)
(* start only by a request that finds it at 0.                             *)
(*                                                                         *)
(* Time is counted in seconds: a poll() that finds nothing takes one, and  *)
(* so does the sleep() after it, unless a signal (SIGUSR1 has a handler)   *)
(* cuts them short.                                                        *)
(***************************************************************************)
EXTENDS Integers

CONSTANTS
  TimerStart,     \* 5 in the code
  RequestStart    \* 1000 in the code

\* What is assumed of them by the module that gives them their values, and by
\* the theorems.
StartAssumption == TimerStart \in Nat \ {0} /\ RequestStart \in Nat \ {0}

VARIABLES
  step,      \* the thread: "idle" (no client), "recv", "answer" or "poll"
  timer,     \* td->timer
  request,   \* td->request
  served,    \* history: requests of this client that were let through
  idle,      \* history: seconds since the last of them was answered
  paused,    \* history: the client has let a poll() time out
  cut        \* history: the client was closed with a request ready to be read

vars == <<step, timer, request, served, idle, paused, cut>>

TypeOK ==
  /\ step \in {"idle", "recv", "answer", "poll"}
  /\ timer \in 0..TimerStart
  /\ request \in 0..RequestStart
  /\ served \in Nat
  /\ idle \in Nat
  /\ paused \in BOOLEAN
  /\ cut \in BOOLEAN

Init ==
  /\ step = "idle"
  /\ timer = 0
  /\ request = 0
  /\ served = 0
  /\ idle = 0
  /\ paused = FALSE
  /\ cut = FALSE

\* dispatch_job gives the slot to a client.
Assign ==
  /\ step = "idle"
  /\ step' = "recv"
  /\ timer' = TimerStart
  /\ request' = RequestStart
  /\ served' = 0
  /\ idle' = 0
  /\ paused' = FALSE
  /\ cut' = FALSE

\* close_client_with_status puts the fields of the slot back.
Close ==
  /\ step' = "idle"
  /\ timer' = TimerStart
  /\ request' = RequestStart

\* A request has been received and the quota is not used up.
Receive ==
  /\ step = "recv"
  /\ request # 0
  /\ step' = "answer"
  /\ served' = served + 1
  /\ idle' = 0
  /\ UNCHANGED <<timer, request, paused, cut>>

\* Mutant of Refuse: 503 is sent and the client kept.
RefuseKeep ==
  /\ step = "recv"
  /\ request = 0
  /\ UNCHANGED vars

\* The quota is used up: 503 is sent and the client treated as if it had left.
Refuse ==
  /\ step = "recv"
  /\ request = 0
  /\ Close
  /\ UNCHANGED <<served, idle, paused, cut>>

\* The client closes its end, while it is read from or answered.
Leave ==
  /\ step \in {"recv", "answer"}
  /\ Close
  /\ UNCHANGED <<served, idle, paused, cut>>

\* The response, of whatever kind, has been sent.
Answer ==
  /\ step = "answer"
  /\ step' = "poll"
  /\ UNCHANGED <<timer, request, served, idle, paused, cut>>

\* Mutant of Renew: the request is not counted.
RenewFree ==
  /\ step = "poll"
  /\ timer = 0
  /\ timer' = TimerStart
  /\ step' = "recv"
  /\ UNCHANGED <<request, served, idle, paused, cut>>

\* poll() has something to read and the timer has run out: it is set anew.
Renew ==
  /\ step = "poll"
  /\ timer = 0
  /\ timer' = TimerStart
  /\ request' = request - 1
  /\ step' = "recv"
  /\ UNCHANGED <<served, idle, paused, cut>>

\* Mutant of Ready: the timer is only counted down by silence.
ReadyFree ==
  /\ step = "poll"
  /\ timer # 0
  /\ request' = request - 1
  /\ step' = "recv"
  /\ UNCHANGED <<timer, served, idle, paused, cut>>

\* poll() has something to read: what is left of the timer decides, and a
\* timer that has just come to 0 closes the client whose request is there.
Ready ==
  /\ step = "poll"
  /\ timer # 0
  /\ \/ /\ timer # 1
        /\ timer' = timer - 1
        /\ request' = request - 1
        /\ step' = "recv"
        /\ UNCHANGED cut
     \/ /\ timer = 1
        /\ Close
        /\ cut' = TRUE
  /\ UNCHANGED <<served, idle, paused>>

\* poll() finds nothing; the timer loses one, and the thread sleeps.
Tick ==
  /\ step = "poll"
  /\ timer # 0
  /\ timer' = timer - 1
  /\ \E seconds \in 0..2 : idle' = idle + seconds
  /\ paused' = TRUE
  /\ UNCHANGED <<step, request, served, cut>>

\* poll() finds nothing and the timer has run out.
Expire ==
  /\ step = "poll"
  /\ timer = 0
  /\ Close
  /\ \E seconds \in 0..1 : idle' = idle + seconds
  /\ UNCHANGED <<served, paused, cut>>

HandleTimer == Renew \/ Ready \/ Tick \/ Expire

Next ==
  \/ Assign
  \/ Receive
  \/ Refuse
  \/ Leave
  \/ Answer
  \/ HandleTimer

Spec == Init /\ [][Next]_vars

-----------------------------------------------------------------------------
(* Safety.                                                                 *)

(***************************************************************************)
(* The quota is tested with == 0 after each receive, and counted down by   *)
(* handle_timer only, never for the first request: the two agree, so that  *)
(* no client is answered more than RequestStart times and the counter      *)
(* never steps over 0.                                                     *)
(***************************************************************************)
QuotaHeld ==
  /\ served <= RequestStart
  /\ step = "recv" => request = RequestStart - served
  /\ step \in {"answer", "poll"} => request = RequestStart - served + 1

(***************************************************************************)
(* Once a response has been sent, a client that sends nothing more is      *)
(* closed within two seconds for each unit of the timer and one more.      *)
(***************************************************************************)
IdleBounded ==
  /\ idle <= 2 * TimerStart + 1
  /\ step = "poll" => idle + 2 * timer <= 2 * TimerStart

(***************************************************************************)
(* A client that always has its next request ready is never given more     *)
(* than TimerStart answers: each of its requests costs one of the timer,   *)
(* which is only set anew for a client that has paused.                    *)
(***************************************************************************)
PromptClientCut ==
  ~paused =>
    /\ served <= TimerStart
    /\ step = "recv" => timer = TimerStart - served
    /\ step \in {"answer", "poll"} => timer = TimerStart - served + 1

\* What is promised about one slot, without timer or quota.
L == INSTANCE Lease WITH
       MaxAnswers <- RequestStart,
       Patience   <- 2 * TimerStart + 1,
       held       <- step # "idle",
       answers    <- RequestStart - served,
       patience   <- 2 * TimerStart + 1 - idle

(***************************************************************************)
(* The timer and the quota keep that promise.                              *)
(***************************************************************************)
LeaseKept == L!Spec

=============================================================================

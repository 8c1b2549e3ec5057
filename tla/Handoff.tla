------------------------------ MODULE Handoff ------------------------------
(***************************************************************************)
(* The hand-off of an accepted connection from the main loop of            *)
(* HttpServer.c to the thread of ThreadPool.c that runs dispatch_job for   *)
(* one pool.  The two share one struct dispatcher: a field conn_sd that    *)
(* holds ONE connection, a mutex and a condition variable.  The main loop  *)
(* writes conn_sd before it takes the mutex, and signals; the dispatcher   *)
(* waits with no predicate to re-check, and reads conn_sd once it is awake.*)
(*                                                                         *)
(* A connection is named by its place in the order of acceptance, so a     *)
(* larger number is a later connection; 0 is the calloc'ed field nobody    *)
(* has written.  What the dispatcher does between reading conn_sd and      *)
(* waiting again (searching the ring for a slot, filling it) is the one    *)
(* step Done here; module ThreadPool gives it its detail.                  *)
(***************************************************************************)
EXTENDS Naturals

CONSTANT MaxConn    \* bound: connections the main loop accepts for this pool

ASSUME MaxConnAssumption == MaxConn \in Nat \ {0}

VARIABLES
  mpc,       \* the main loop: about to "accept", "store" or "signal"
  accepted,  \* the last connection accept() returned
  mailbox,   \* dispatcher[idx_pool].conn_sd
  dpc,       \* the dispatcher: at "lock", "parked" in wait_cond, "woken", "busy"
  takes,     \* history: how many times each connection was read from mailbox
  last,      \* history: the connection read last
  overrun    \* history: a connection was stored while the dispatcher was not parked

vars == <<mpc, accepted, mailbox, dpc, takes, last, overrun>>

Conn == 1..MaxConn

TypeOK ==
  /\ mpc \in {"accept", "store", "signal"}
  /\ accepted \in 0..MaxConn
  /\ mailbox \in 0..MaxConn
  /\ dpc \in {"lock", "parked", "woken", "busy"}
  /\ takes \in [Conn -> Nat]
  /\ last \in 0..MaxConn
  /\ overrun \in BOOLEAN

Init ==
  /\ mpc = "accept"
  /\ accepted = 0
  /\ mailbox = 0
  /\ dpc = "lock"
  /\ takes = [c \in Conn |-> 0]
  /\ last = 0
  /\ overrun = FALSE

-----------------------------------------------------------------------------
(* The main loop.                                                          *)

\* poll() reports the listening socket and accept() returns a connection.
Accept ==
  /\ mpc = "accept"
  /\ accepted < MaxConn
  /\ accepted' = accepted + 1
  /\ mpc' = "store"
  /\ UNCHANGED <<mailbox, dpc, takes, last, overrun>>

\* The connection goes into the dispatcher's record, with no mutex held.
Store ==
  /\ mpc = "store"
  /\ mailbox' = accepted
  /\ overrun' = (overrun \/ dpc # "parked")
  /\ mpc' = "signal"
  /\ UNCHANGED <<accepted, dpc, takes, last>>

\* Mutant of Signal: the condition variable of another pool is signalled.
SignalOther ==
  /\ mpc = "signal"
  /\ mpc' = "accept"
  /\ UNCHANGED <<accepted, mailbox, dpc, takes, last, overrun>>

\* get_mutex; signal_cond; release_mutex.  A signal nobody waits for is lost.
Signal ==
  /\ mpc = "signal"
  /\ mpc' = "accept"
  /\ dpc' = IF dpc = "parked" THEN "woken" ELSE dpc
  /\ UNCHANGED <<accepted, mailbox, takes, last, overrun>>

-----------------------------------------------------------------------------
(* The dispatcher thread.                                                  *)

\* get_mutex and wait_cond: the mutex is given up as the thread goes to wait.
Park ==
  /\ dpc = "lock"
  /\ dpc' = "parked"
  /\ UNCHANGED <<mpc, accepted, mailbox, takes, last, overrun>>

\* Mutant of Take: the dispatcher empties the mailbox it has read.
TakeAndClear ==
  /\ dpc = "woken"
  /\ dpc' = "busy"
  /\ last' = mailbox
  /\ takes' = IF mailbox = 0 THEN takes ELSE [takes EXCEPT ![mailbox] = @ + 1]
  /\ mailbox' = 0
  /\ UNCHANGED <<mpc, accepted, overrun>>

\* wait_cond returns, conn_sd is read, release_mutex.
Take ==
  /\ dpc = "woken"
  /\ dpc' = "busy"
  /\ last' = mailbox
  /\ takes' = [takes EXCEPT ![mailbox] = @ + 1]
  /\ UNCHANGED <<mpc, accepted, mailbox, overrun>>

\* Mutant of Done: the thread goes round without waiting again.
DoneNoWait ==
  /\ dpc = "busy"
  /\ dpc' \in {"lock", "woken"}
  /\ UNCHANGED <<mpc, accepted, mailbox, takes, last, overrun>>

\* The connection has been given to a slot of the pool; back to the top.
Done ==
  /\ dpc = "busy"
  /\ dpc' = "lock"
  /\ UNCHANGED <<mpc, accepted, mailbox, takes, last, overrun>>

Next ==
  \/ Accept
  \/ Store
  \/ Signal
  \/ Park
  \/ Take
  \/ Done

Spec == Init /\ [][Next]_vars

(***************************************************************************)
(* Fairness: both threads are runnable threads of one process.  Accept has *)
(* none (clients may stop coming), and in FairSpec neither has Done, which *)
(* stands for a search that can block.  PromptSpec grants it all the same. *)
(***************************************************************************)
FairSpec ==
  /\ Spec
  /\ WF_vars(Store)
  /\ WF_vars(Signal)
  /\ WF_vars(Park)
  /\ WF_vars(Take)

PromptSpec == FairSpec /\ WF_vars(Done)

-----------------------------------------------------------------------------
(* Safety.                                                                 *)

(***************************************************************************)
(* A pending wake-up belongs to some signal, and each signal is given once:*)
(* however the main loop and the dispatcher interleave, one connection is  *)
(* read from the record at most twice.  It can be read twice: the store    *)
(* precedes the signal, so a thread woken for the connection before reads  *)
(* the new one, and is then signalled for it again.                        *)
(***************************************************************************)
AtMostTwice == \A c \in Conn : takes[c] <= 2

(***************************************************************************)
(* What dispatch_job reads is a connection accept() has returned, never    *)
(* the calloc'ed 0, which would be the descriptor of standard input.       *)
(***************************************************************************)
TakesAccepted ==
  /\ dpc = "woken" => mailbox # 0
  /\ \A c \in Conn : takes[c] > 0 => c <= accepted

(***************************************************************************)
(* As long as every connection was stored while the dispatcher sat in      *)
(* wait_cond, each one is read exactly once: all but the newest already    *)
(* have been, and the newest has, or is waiting in the record for a        *)
(* dispatcher that is awake or about to be signalled.                      *)
(***************************************************************************)
ExactlyOnceUntilOverrun ==
  ~overrun =>
    /\ \A c \in Conn : c < mailbox => takes[c] = 1
    /\ mailbox # 0 =>
         \/ takes[mailbox] = 1 /\ dpc # "woken" /\ mpc # "signal"
         \/ takes[mailbox] = 0 /\ dpc = "woken" /\ mpc # "signal"
         \/ takes[mailbox] = 0 /\ dpc = "parked" /\ mpc = "signal"

(***************************************************************************)
(* Connections leave the record in the order in which they were accepted:  *)
(* some are skipped and some come twice, but none overtakes another.       *)
(***************************************************************************)
TakenInOrder == [][last' >= last]_vars

-----------------------------------------------------------------------------
(* Liveness.                                                               *)

(***************************************************************************)
(* A connection that is accepted is read by the dispatcher, or else some   *)
(* connection found the dispatcher away from wait_cond.                    *)
(***************************************************************************)
TakenOrOverrun ==
  \A c \in Conn : (accepted = c) ~> (takes[c] > 0 \/ overrun)

(***************************************************************************)
(* What HttpServer.c:92 says of the mutexes around signal_cond, that they  *)
(* "prevent the loss of a signal on the condition variable": every         *)
(* connection that is accepted reaches the dispatcher.                     *)
(***************************************************************************)
EveryConnectionTaken ==
  \A c \in Conn : (accepted = c) ~> (takes[c] > 0)

=============================================================================

----------------------------- MODULE ThreadPool -----------------------------
(***************************************************************************)
(* One pool of ThreadPool.c: a ring of slots (struct thread_data), each    *)
(* with a thread that runs handle_client, and the dispatcher thread that   *)
(* finds a free slot for every connection the main loop hands it.  The     *)
(* hand-off itself is module Handoff, of which the actions of the main     *)
(* loop and of wait_cond are used as they are; its step Done, from reading *)
(* the record to waiting again, is here taken apart.                       *)
(*                                                                         *)
(* Nothing but the `used' field keeps the dispatcher and the thread of a   *)
(* slot from working on it together, so every access to a slot that the    *)
(* other thread may see is a step of its own, in program order.            *)
(*                                                                         *)
(* A connection is known by its number in the order of acceptance and has  *)
(* a descriptor, which the system gives to a later connection once it has  *)
(* been closed: what a call on a slot's conn_sd acts upon is whatever      *)
(* connection holds that descriptor now.                                   *)
(*                                                                         *)
(* The keep-alive timer and the quota of requests are module KeepAlive;    *)
(* here handle_timer may end either way.  Which request is answered with   *)
(* what is a choice of Serve.                                              *)
(***************************************************************************)
EXTENDS Integers, FiniteSets

CONSTANTS
  MaxConn,    \* bound: connections the main loop accepts for this pool
  NumThread   \* num_thread_pool, the slots of the ring

ASSUME NumThreadAssumption == NumThread \in Nat \ {0}
ASSUME MaxConnAssumption == MaxConn \in Nat \ {0}

VARIABLES
  mpc, accepted, mailbox, dpc, takes, last, overrun,   \* see Handoff
  dstep,     \* where in get_E and dispatch_job a busy dispatcher is
  i,         \* get_E's loop variable
  E,         \* pool->E, where the search starts
  nE,        \* the slot get_E returned
  conn_sd, msg_received, used,       \* fields of each slot
  wpc,       \* where in handle_client the thread of each slot is
  max_descriptor,
  fd,        \* the descriptor of each connection accepted, 0 before
  open,      \* the connections whose descriptor is open
  got,       \* history: the slots that received a message of each connection
  crossed,   \* history: a slot was filled while its thread was closing it
  absent     \* history: some image was not present

handoff == <<mpc, accepted, mailbox, dpc, takes, last, overrun>>
slots   == <<conn_sd, msg_received, used>>
search  == <<i, E, nE>>
sockets == <<max_descriptor, fd, open>>
vars == <<handoff, dstep, search, slots, wpc, sockets, got, crossed, absent>>

H == INSTANCE Handoff

Conn == 1..MaxConn
Slot == 0..(NumThread - 1)

DispatcherSteps ==
  {"idle", "scan", "full", "cbwait", "conn", "msg", "used", "notify"}
WorkerSteps ==
  {"check", "waiting", "recv", "serve", "npclose", "npsignal", "clear", "poll",
   "free", "reset", "dec", "shut", "signal"}

TypeOK ==
  /\ H!TypeOK
  /\ dstep \in DispatcherSteps
  /\ i \in 0..NumThread
  /\ E \in Slot
  /\ nE \in Slot
  /\ conn_sd \in [Slot -> 0..MaxConn]
  /\ msg_received \in [Slot -> {0, 1}]
  /\ used \in [Slot -> {-1, 1}]
  /\ wpc \in [Slot -> WorkerSteps]
  /\ max_descriptor \in Int
  /\ fd \in [Conn -> 0..MaxConn]
  /\ open \subseteq Conn
  /\ got \in [Conn -> SUBSET Slot]
  /\ crossed \in BOOLEAN
  /\ absent \in BOOLEAN

Init ==
  /\ H!Init
  /\ dstep = "idle"
  /\ i = 0
  /\ E = 0
  /\ nE = 0
  /\ conn_sd = [s \in Slot |-> 0]
  /\ msg_received = [s \in Slot |-> 0]
  /\ used = [s \in Slot |-> -1]
  /\ wpc = [s \in Slot |-> "check"]
  /\ max_descriptor = 1
  /\ fd = [c \in Conn |-> 0]
  /\ open = {}
  /\ got = [c \in Conn |-> {}]
  /\ crossed = FALSE
  /\ absent = FALSE

\* The lowest descriptor no open connection has.
FreshFd ==
  CHOOSE n \in Conn :
    /\ \A c \in open : fd[c] # n
    /\ \A m \in 1..(n - 1) : \E c \in open : fd[c] = m

\* The open connections that a call on slot s's descriptor reaches: one or none.
Reached(s) ==
  IF conn_sd[s] = 0 THEN {} ELSE {c \in open : fd[c] = fd[conn_sd[s]]}

\* The thread of slot s has begun to close and still writes the slot or closes its fd.
Closing(s) == wpc[s] \in {"reset", "dec", "shut"}

-----------------------------------------------------------------------------
(* The main loop.                                                          *)

Accept ==
  /\ H!Accept
  /\ fd' = [fd EXCEPT ![accepted + 1] = FreshFd]
  /\ open' = open \cup {accepted + 1}
  /\ max_descriptor' = max_descriptor + 1
  /\ UNCHANGED <<dstep, search, slots, wpc, got, crossed, absent>>

Store ==
  /\ H!Store
  /\ UNCHANGED <<dstep, search, slots, wpc, sockets, got, crossed, absent>>

Signal ==
  /\ H!Signal
  /\ UNCHANGED <<dstep, search, slots, wpc, sockets, got, crossed, absent>>

-----------------------------------------------------------------------------
(* The dispatcher.  Its local conn_sd is Handoff's `last'.                 *)

Park ==
  /\ H!Park
  /\ UNCHANGED <<dstep, search, slots, wpc, sockets, got, crossed, absent>>

Take ==
  /\ H!Take
  /\ dstep' = "scan"
  /\ i' = 0
  /\ UNCHANGED <<E, nE, slots, wpc, sockets, got, crossed, absent>>

\* get_E looks at the next slot of the ring, or has looked at them all.
Scan ==
  /\ dstep = "scan"
  /\ LET s == (E + i) % NumThread IN
       \/ /\ i < NumThread
          /\ used[s] = -1
          /\ nE' = s
          /\ E' = (s + 1) % NumThread
          /\ dstep' = "conn"
          /\ crossed' = (crossed \/ Closing(s))
          /\ UNCHANGED i
       \/ /\ i < NumThread
          /\ used[s] # -1
          /\ i' = i + 1
          /\ UNCHANGED <<E, nE, dstep, crossed>>
       \/ /\ i = NumThread
          /\ dstep' = "full"
          /\ UNCHANGED <<search, crossed>>
  /\ UNCHANGED <<handoff, slots, wpc, sockets, got, absent>>

\* No slot was free: get the pool's mutex and wait for cb_not_full.
AwaitFree ==
  /\ dstep = "full"
  /\ dstep' = "cbwait"
  /\ i' = 0
  /\ UNCHANGED <<handoff, E, nE, slots, wpc, sockets, got, crossed, absent>>

\* The fields of the slot found are written one by one, with no mutex held.
SetConn ==
  /\ dstep = "conn"
  /\ conn_sd' = [conn_sd EXCEPT ![nE] = last]
  /\ dstep' = "msg"
  /\ UNCHANGED <<handoff, search, msg_received, used, wpc, sockets, got, crossed, absent>>

SetMsg ==
  /\ dstep = "msg"
  /\ msg_received' = [msg_received EXCEPT ![nE] = 1]
  /\ dstep' = "used"
  /\ UNCHANGED <<handoff, search, conn_sd, used, wpc, sockets, got, crossed, absent>>

\* Mutant of SetUsed: the slot is not marked.
SetUsedNot ==
  /\ dstep = "used"
  /\ dstep' = "notify"
  /\ UNCHANGED <<handoff, search, slots, wpc, sockets, got, crossed, absent>>

SetUsed ==
  /\ dstep = "used"
  /\ used' = [used EXCEPT ![nE] = 1]
  /\ dstep' = "notify"
  /\ UNCHANGED <<handoff, search, conn_sd, msg_received, wpc, sockets, got, crossed, absent>>

\* Mutant of Notify: the signal is forgotten.
NotifyNot ==
  /\ dstep = "notify"
  /\ dstep' = "idle"
  /\ H!Done
  /\ UNCHANGED <<search, slots, wpc, sockets, got, crossed, absent>>

\* The slot's thread is signalled under the slot's mutex, and the loop begins again.
Notify ==
  /\ dstep = "notify"
  /\ dstep' = "idle"
  /\ wpc' = [wpc EXCEPT ![nE] = IF @ = "waiting" THEN "recv" ELSE @]
  /\ H!Done
  /\ UNCHANGED <<search, slots, sockets, got, crossed, absent>>

DispatcherStep ==
  Park \/ Take \/ Scan \/ AwaitFree \/ SetConn \/ SetMsg \/ SetUsed \/ Notify

-----------------------------------------------------------------------------
(* The thread of slot s.                                                   *)

Go(s, step) == wpc' = [wpc EXCEPT ![s] = step]

\* signal_cond(cb_not_full): get_E begins its search again if it is waiting.
SignalNotFull == dstep' = IF dstep = "cbwait" THEN "scan" ELSE dstep

\* close() of the slot's descriptor.
CloseFd(s) == open' = open \ Reached(s)

\* Mutant of WaitForConnection: msg_received is not looked at and nobody waits.
GoOn(s) ==
  /\ wpc[s] = "check"
  /\ Go(s, "recv")
  /\ UNCHANGED <<handoff, dstep, search, slots, sockets, got, crossed, absent>>

\* wait_for_connection: under the slot's mutex, go on if a message is there, or wait.
WaitForConnection(s) ==
  /\ wpc[s] = "check"
  /\ Go(s, IF msg_received[s] = 1 THEN "recv" ELSE "waiting")
  /\ UNCHANGED <<handoff, dstep, search, slots, sockets, got, crossed, absent>>

\* receive_request: a request, or EMPTY_MESSAGE when the client is gone, its
\* quota is used up, or the descriptor is not open.
Receive(s) ==
  /\ wpc[s] = "recv"
  /\ \/ Reached(s) # {} /\ Go(s, "serve")
     \/ Go(s, "free")
  /\ got' = [c \in Conn |-> IF c \in Reached(s) THEN got[c] \cup {s} ELSE got[c]]
  /\ UNCHANGED <<handoff, dstep, search, slots, sockets, crossed, absent>>

\* The request is parsed and answered, or the client has gone away.
Serve(s) ==
  /\ wpc[s] = "serve"
  /\ wpc' \in {[wpc EXCEPT ![s] = step] : step \in {"clear", "free"}}
  /\ UNCHANGED <<handoff, dstep, search, slots, sockets, got, crossed, absent>>

\* IMAGE_NOT_PRESENT: a 400 is sent and the client is no longer counted...
ServeAbsent(s) ==
  /\ wpc[s] = "serve"
  /\ max_descriptor' = max_descriptor - 1
  /\ absent' = TRUE
  /\ Go(s, "npclose")
  /\ UNCHANGED <<handoff, dstep, search, slots, fd, open, got, crossed>>

\* ... its descriptor is closed, though the slot keeps it ...
CloseAbsent(s) ==
  /\ wpc[s] = "npclose"
  /\ CloseFd(s)
  /\ Go(s, "npsignal")
  /\ UNCHANGED <<handoff, dstep, search, slots, max_descriptor, fd, got, crossed, absent>>

\* ... and the dispatcher is signalled, though the slot is still in use.
SignalAbsent(s) ==
  /\ wpc[s] = "npsignal"
  /\ SignalNotFull
  /\ Go(s, "clear")
  /\ UNCHANGED <<handoff, search, slots, sockets, got, crossed, absent>>

ClearMsg(s) ==
  /\ wpc[s] = "clear"
  /\ msg_received' = [msg_received EXCEPT ![s] = 0]
  /\ Go(s, "poll")
  /\ UNCHANGED <<handoff, dstep, search, conn_sd, used, sockets, got, crossed, absent>>

\* handle_timer: something to read (a closed descriptor counts as such), which
\* with the timer at 1 still closes the connection; or the time is up.
HandleTimer(s) ==
  /\ wpc[s] = "poll"
  /\ \/ /\ msg_received' = [msg_received EXCEPT ![s] = 1]
        /\ wpc' \in {[wpc EXCEPT ![s] = step] : step \in {"check", "free"}}
     \/ Go(s, "free") /\ UNCHANGED msg_received
  /\ UNCHANGED <<handoff, dstep, search, conn_sd, used, sockets, got, crossed, absent>>

(* close_client_with_status, in its order.                                 *)

FreeSlot(s) ==
  /\ wpc[s] = "free"
  /\ used' = [used EXCEPT ![s] = -1]
  /\ crossed' = (crossed \/ (nE = s /\ dstep \in {"used", "notify"}))
  /\ Go(s, "reset")
  /\ UNCHANGED <<handoff, dstep, search, conn_sd, msg_received, sockets, got, absent>>

\* Mutant of ResetMsg: the field is left as it is.
KeepMsg(s) ==
  /\ wpc[s] = "reset"
  /\ Go(s, "dec")
  /\ UNCHANGED <<handoff, dstep, search, slots, sockets, got, crossed, absent>>

ResetMsg(s) ==
  /\ wpc[s] = "reset"
  /\ msg_received' = [msg_received EXCEPT ![s] = 0]
  /\ Go(s, "dec")
  /\ UNCHANGED <<handoff, dstep, search, conn_sd, used, sockets, got, crossed, absent>>

\* Mutant of Uncount: max_descriptor is forgotten.
UncountNot(s) ==
  /\ wpc[s] = "dec"
  /\ Go(s, "shut")
  /\ UNCHANGED <<handoff, dstep, search, slots, sockets, got, crossed, absent>>

Uncount(s) ==
  /\ wpc[s] = "dec"
  /\ max_descriptor' = max_descriptor - 1
  /\ Go(s, "shut")
  /\ UNCHANGED <<handoff, dstep, search, slots, fd, open, got, crossed, absent>>

Shut(s) ==
  /\ wpc[s] = "shut"
  /\ CloseFd(s)
  /\ Go(s, "signal")
  /\ UNCHANGED <<handoff, dstep, search, slots, max_descriptor, fd, got, crossed, absent>>

SignalFree(s) ==
  /\ wpc[s] = "signal"
  /\ SignalNotFull
  /\ Go(s, "check")
  /\ UNCHANGED <<handoff, search, slots, sockets, got, crossed, absent>>

WorkerStep(s) ==
  \/ WaitForConnection(s)
  \/ Serve(s)
  \/ ServeAbsent(s)
  \/ CloseAbsent(s)
  \/ SignalAbsent(s)
  \/ ClearMsg(s)
  \/ HandleTimer(s)
  \/ FreeSlot(s)
  \/ ResetMsg(s)
  \/ Uncount(s)
  \/ Shut(s)
  \/ SignalFree(s)

Next ==
  \/ Accept
  \/ Store
  \/ Signal
  \/ DispatcherStep
  \/ \E s \in Slot : WorkerStep(s) \/ Receive(s)

Spec == Init /\ [][Next]_vars

(***************************************************************************)
(* Every thread is runnable and every call but accept() and recv() comes   *)
(* back, so all their steps are weakly fair.  A client may stay silent for *)
(* ever, so Receive is fair only in LivelySpec, where clients always send  *)
(* something or go away.                                                   *)
(***************************************************************************)
FairSpec ==
  /\ Spec
  /\ WF_vars(Store \/ Signal)
  /\ WF_vars(DispatcherStep)
  /\ \A s \in Slot : WF_vars(WorkerStep(s))

LivelySpec == FairSpec /\ \A s \in Slot : WF_vars(Receive(s))

-----------------------------------------------------------------------------
(* Safety.                                                                 *)

\* None of the three faults this module exhibits has happened yet.
Clean == ~overrun /\ ~crossed /\ ~absent

(***************************************************************************)
(* What Handoff promises holds with a dispatcher that searches for a slot  *)
(* between one reading of the record and the next: no connection is given  *)
(* to the pool a third time ...                                            *)
(***************************************************************************)
AtMostTwice == H!AtMostTwice

(***************************************************************************)
(* ... each is given to it exactly once, until one is stored while the     *)
(* dispatcher is away ...                                                  *)
(***************************************************************************)
ExactlyOnceUntilOverrun == H!ExactlyOnceUntilOverrun

(***************************************************************************)
(* ... and none after a later one.                                         *)
(***************************************************************************)
TakenInOrder == H!TakenInOrder

(***************************************************************************)
(* No thread ever works on a slot that has not been given a connection: a  *)
(* thread may pass wait_for_connection as soon as it sees msg_received,    *)
(* before it is signalled, and conn_sd must be there by then (0 is         *)
(* standard input).                                                        *)
(***************************************************************************)
NoWorkBeforeConnection ==
  \A s \in Slot : wpc[s] \notin {"check", "waiting"} => conn_sd[s] # 0

(***************************************************************************)
(* A slot that is in use has a thread that works for it: the thread is not *)
(* left waiting in wait_for_connection, except for the signal the          *)
(* dispatcher is about to give, and will not wait if it has yet to look.   *)
(* It fails once a slot is filled while its thread is still closing it.    *)
(***************************************************************************)
SlotNotLost ==
  ~crossed =>
    \A s \in Slot :
      used[s] = 1 =>
        /\ wpc[s] = "waiting" => dstep = "notify" /\ nE = s
        /\ wpc[s] = "check" => msg_received[s] = 1

(***************************************************************************)
(* A connection's messages are received by one thread only, and by one     *)
(* before it is closed, although a descriptor is reused as soon as it is   *)
(* closed while slots keep its number: as long as no connection was stored *)
(* over another, no slot was filled while it was being closed, and no      *)
(* image was missing.                                                      *)
(***************************************************************************)
OneThreadPerConnection ==
  Clean => /\ \A c \in Conn : Cardinality(got[c]) <= 1
           /\ \A c \in (1..accepted) \ open : got[c] # {}

(***************************************************************************)
(* Under the same conditions max_descriptor, by which the main loop        *)
(* decides to grow, is one more than the open connections, less those      *)
(* whose thread stands between decrementing it and close().                *)
(***************************************************************************)
DescriptorsCounted ==
  Clean =>
    max_descriptor =
      1 + Cardinality(open) - Cardinality({s \in Slot : wpc[s] = "shut"})

(***************************************************************************)
(* The descriptor of a slot is not replaced while its thread is working    *)
(* with it, which reads td->conn_sd anew for every call it makes.          *)
(***************************************************************************)
DescriptorStable ==
  [][\A s \in Slot :
       conn_sd'[s] # conn_sd[s] =>
         crossed \/ wpc[s] \in {"check", "waiting", "signal"}]_vars

-----------------------------------------------------------------------------
(* Liveness.                                                               *)

(***************************************************************************)
(* End to end: if clients never stay silent for ever, a connection that is *)
(* accepted is received from by some thread, unless it or another was      *)
(* stored while the dispatcher was away, a slot was filled while it was    *)
(* being closed, some image was missing, or get_E waits for a free slot.   *)
(***************************************************************************)
ReceivedUnlessRaced ==
  \A c \in Conn : accepted = c ~> (got[c] # {} \/ ~Clean \/ dstep = "cbwait")

(***************************************************************************)
(* ThreadPool.h:53 says of cb_not_full that it "is used to signal or wait  *)
(* for buffer not full": the search that waits for a slot goes on when     *)
(* there is one.                                                           *)
(***************************************************************************)
FullWaitEnds ==
  (dstep = "cbwait" /\ \E s \in Slot : used[s] = -1) ~> dstep # "cbwait"

=============================================================================

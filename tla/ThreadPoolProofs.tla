-------------------------- MODULE ThreadPoolProofs --------------------------
(***************************************************************************)
(* Proofs about Handoff and ThreadPool, for any number of slots and        *)
(* connections.                                                            *)
(*                                                                         *)
(* The invariant of the hand-off says how the record and the counters move *)
(* together, and counts the readings of the newest connection that are     *)
(* still due (one for a dispatcher that is awake, one for a signal about   *)
(* to be given) along with those made.  It holds in the pool too.          *)
(*                                                                         *)
(* Beside it the invariant of the pool has three parts: which fields of a  *)
(* slot have been written when its thread sees them; that the dispatcher   *)
(* and the thread of a slot work on it by turns, as long as no slot was    *)
(* filled while it was being closed (crossed); and, as long as nothing     *)
(* else has gone wrong either (Clean), that every open connection has a    *)
(* descriptor of its own, is held by one slot at most, and has been        *)
(* received from by the thread of that slot and no other.                  *)
(***************************************************************************)
EXTENDS ThreadPool, FiniteSetTheorems, WellFoundedInduction, TLAPS

-----------------------------------------------------------------------------
(* The hand-off.                                                           *)

\* Readings of the record that are yet to come without a further connection.
Due ==
  (IF dpc = "woken" THEN 1 ELSE 0) + (IF mpc = "signal" THEN 1 ELSE 0)

\* The record holds the newest connection but while it is being stored.
RecordCurrent ==
  /\ mpc = "store" => mailbox = accepted - 1
  /\ mpc # "store" => mailbox = accepted
  /\ last <= mailbox
  /\ dpc = "woken" \/ mpc = "signal" => mailbox # 0

\* Nothing is read before it is stored, and readings made and due are two at most.
TakesCounted ==
  /\ \A c \in H!Conn : c > mailbox => takes[c] = 0
  /\ \A c \in H!Conn : takes[c] <= 2
  /\ mailbox # 0 => takes[mailbox] + Due <= 2

HandoffInv ==
  H!TypeOK /\ RecordCurrent /\ TakesCounted /\ H!ExactlyOnceUntilOverrun

(***************************************************************************)
(* The calloc'ed record and the counters at 0 satisfy the invariant.       *)
(***************************************************************************)
LEMMA HandoffInit == H!Init => HandoffInv
<1> SUFFICES ASSUME H!Init PROVE HandoffInv
  OBVIOUS
<1>1. H!TypeOK
  <2>1. takes \in [H!Conn -> Nat]
    BY DEF H!Init
  <2>2. overrun \in BOOLEAN
    BY DEF H!Init
  <2>3. accepted \in 0..MaxConn /\ mailbox \in 0..MaxConn /\ last \in 0..MaxConn
    BY MaxConnAssumption DEF H!Init
  <2>4. mpc \in {"accept", "store", "signal"} /\ dpc \in {"lock", "parked", "woken", "busy"}
    BY DEF H!Init
  <2> QED
    BY <2>1, <2>2, <2>3, <2>4 DEF H!TypeOK
<1>2. RecordCurrent /\ TakesCounted
  BY MaxConnAssumption DEF H!Init, RecordCurrent, TakesCounted, H!Conn
<1>3. H!ExactlyOnceUntilOverrun
  BY MaxConnAssumption DEF H!Init, H!ExactlyOnceUntilOverrun, H!Conn
<1> QED
  BY <1>1, <1>2, <1>3 DEF HandoffInv

(***************************************************************************)
(* Every step of the main loop and of the dispatcher preserves it.         *)
(***************************************************************************)
LEMMA HandoffNext == HandoffInv /\ [H!Next]_(H!vars) => HandoffInv'
<1> SUFFICES ASSUME HandoffInv, [H!Next]_(H!vars)
             PROVE  HandoffInv'
  OBVIOUS
<1> USE MaxConnAssumption
<1>1. CASE H!Accept
  <2>1. H!TypeOK'
    BY <1>1 DEF HandoffInv, H!TypeOK, H!Accept
  <2>2. RecordCurrent' /\ TakesCounted'
    BY <1>1 DEF HandoffInv, H!TypeOK, RecordCurrent, TakesCounted, Due, H!Conn, H!Accept
  <2>3. H!ExactlyOnceUntilOverrun'
    BY <1>1 DEF HandoffInv, H!TypeOK, H!ExactlyOnceUntilOverrun, H!Conn, H!Accept
  <2> QED BY <2>1, <2>2, <2>3 DEF HandoffInv
<1>2. CASE H!Store
  <2>1. H!TypeOK'
    BY <1>2 DEF HandoffInv, H!TypeOK, H!Store
  <2>2. RecordCurrent' /\ TakesCounted'
    BY <1>2 DEF HandoffInv, H!TypeOK, RecordCurrent, TakesCounted, Due, H!Conn, H!Store
  <2>3. H!ExactlyOnceUntilOverrun'
    <3> SUFFICES ASSUME ~overrun'
                 PROVE  H!ExactlyOnceUntilOverrun'
      BY DEF H!ExactlyOnceUntilOverrun
    <3>1. dpc = "parked" /\ ~overrun /\ mpc = "store"
      BY <1>2 DEF HandoffInv, H!TypeOK, H!Store
    <3>2. mailbox = accepted - 1 /\ accepted \in H!Conn /\ mailbox \in Nat
      BY <1>2, <3>1 DEF HandoffInv, H!TypeOK, RecordCurrent, H!Conn
    <3>3. takes[accepted] = 0
      BY <3>2 DEF HandoffInv, TakesCounted, H!Conn
    <3>4. \A c \in H!Conn : c < accepted => takes[c] = 1
      BY <3>1, <3>2 DEF HandoffInv, H!ExactlyOnceUntilOverrun, H!Conn
    <3> QED
      BY <1>2, <3>1, <3>2, <3>3, <3>4 DEF H!Store, H!ExactlyOnceUntilOverrun, H!Conn
  <2> QED BY <2>1, <2>2, <2>3 DEF HandoffInv
<1>3. CASE H!Signal
  <2>1. H!TypeOK'
    BY <1>3 DEF HandoffInv, H!TypeOK, H!Signal
  <2>2. RecordCurrent' /\ TakesCounted'
    BY <1>3 DEF HandoffInv, H!TypeOK, RecordCurrent, TakesCounted, Due, H!Conn, H!Signal
  <2>3. H!ExactlyOnceUntilOverrun'
    BY <1>3 DEF HandoffInv, H!TypeOK, H!ExactlyOnceUntilOverrun, H!Conn, H!Signal
  <2> QED BY <2>1, <2>2, <2>3 DEF HandoffInv
<1>4. CASE H!Park
  <2>1. H!TypeOK'
    BY <1>4 DEF HandoffInv, H!TypeOK, H!Park
  <2>2. RecordCurrent' /\ TakesCounted'
    BY <1>4 DEF HandoffInv, H!TypeOK, RecordCurrent, TakesCounted, Due, H!Conn, H!Park
  <2>3. H!ExactlyOnceUntilOverrun'
    BY <1>4 DEF HandoffInv, H!TypeOK, H!ExactlyOnceUntilOverrun, H!Conn, H!Park
  <2> QED BY <2>1, <2>2, <2>3 DEF HandoffInv
<1>5. CASE H!Take
  <2>1. H!TypeOK'
    BY <1>5 DEF HandoffInv, H!TypeOK, RecordCurrent, H!Conn, H!Take
  <2>2. RecordCurrent'
    BY <1>5 DEF HandoffInv, H!TypeOK, RecordCurrent, H!Take
  <2>3. TakesCounted'
    BY <1>5 DEF HandoffInv, H!TypeOK, RecordCurrent, TakesCounted, Due, H!Conn, H!Take
  <2>4. H!ExactlyOnceUntilOverrun'
    BY <1>5 DEF HandoffInv, H!TypeOK, RecordCurrent, H!ExactlyOnceUntilOverrun, H!Conn, H!Take
  <2> QED BY <2>1, <2>2, <2>3, <2>4 DEF HandoffInv
<1>6. CASE H!Done
  <2>1. H!TypeOK'
    BY <1>6 DEF HandoffInv, H!TypeOK, H!Done
  <2>2. RecordCurrent' /\ TakesCounted'
    BY <1>6 DEF HandoffInv, H!TypeOK, RecordCurrent, TakesCounted, Due, H!Conn, H!Done
  <2>3. H!ExactlyOnceUntilOverrun'
    BY <1>6 DEF HandoffInv, H!TypeOK, H!ExactlyOnceUntilOverrun, H!Conn, H!Done
  <2> QED BY <2>1, <2>2, <2>3 DEF HandoffInv
<1>7. CASE UNCHANGED H!vars
  BY <1>7
  DEF HandoffInv, H!TypeOK, RecordCurrent, TakesCounted, Due,
      H!ExactlyOnceUntilOverrun, H!vars
<1> QED
  BY <1>1, <1>2, <1>3, <1>4, <1>5, <1>6, <1>7 DEF H!Next

(***************************************************************************)
(* The invariant holds in every state of every behaviour.                  *)
(***************************************************************************)
THEOREM HandoffInvariance == H!Spec => []HandoffInv
  BY HandoffInit, HandoffNext, PTL DEF H!Spec

(***************************************************************************)
(* Type correctness of the hand-off.                                       *)
(***************************************************************************)
THEOREM HandoffTypes == H!Spec => []H!TypeOK
<1>1. HandoffInv => H!TypeOK
  BY DEF HandoffInv
<1> QED
  BY HandoffInvariance, <1>1, PTL

(***************************************************************************)
(* However many connections come, and however the main loop and the        *)
(* dispatcher interleave, none is read from the record a third time.       *)
(***************************************************************************)
THEOREM HandoffTwice == H!Spec => []H!AtMostTwice
<1>1. HandoffInv => H!AtMostTwice
  BY DEF HandoffInv, TakesCounted, H!AtMostTwice
<1> QED
  BY HandoffInvariance, <1>1, PTL

(***************************************************************************)
(* The dispatcher never reads the record before the main loop wrote it.    *)
(***************************************************************************)
THEOREM HandoffAccepted == H!Spec => []H!TakesAccepted
<1>1. HandoffInv => H!TakesAccepted
  BY MaxConnAssumption
  DEF HandoffInv, H!TypeOK, RecordCurrent, TakesCounted, H!TakesAccepted, H!Conn
<1> QED
  BY HandoffInvariance, <1>1, PTL

(***************************************************************************)
(* Until a connection is stored while the dispatcher is not waiting, every *)
(* connection is read exactly once.                                        *)
(***************************************************************************)
THEOREM HandoffOnce == H!Spec => []H!ExactlyOnceUntilOverrun
<1>1. HandoffInv => H!ExactlyOnceUntilOverrun
  BY DEF HandoffInv
<1> QED
  BY HandoffInvariance, <1>1, PTL

(***************************************************************************)
(* No connection is read after a later one.                                *)
(***************************************************************************)
THEOREM HandoffOrder == H!Spec => H!TakenInOrder
<1>1. HandoffInv /\ [H!Next]_(H!vars) => [last' >= last]_(H!vars)
  <2> SUFFICES ASSUME HandoffInv, H!Next
               PROVE  last' >= last
    BY DEF H!vars
  <2>1. CASE H!Take
    BY <2>1 DEF HandoffInv, H!TypeOK, RecordCurrent, H!Take
  <2>2. CASE H!Accept \/ H!Store \/ H!Signal \/ H!Park \/ H!Done
    BY <2>2 DEF HandoffInv, H!TypeOK, H!Accept, H!Store, H!Signal, H!Park, H!Done
  <2> QED
    BY <2>1, <2>2 DEF H!Next
<1> QED
  BY HandoffInvariance, <1>1, PTL DEF H!Spec, H!TakenInOrder

-----------------------------------------------------------------------------
(* The pool.                                                               *)

\* The dispatcher has read a connection, and no slot has it yet.
Carrying == dstep \in {"scan", "full", "cbwait", "conn"}

\* The thread of a slot works for a connection, waits for one, or has done so.
AtWork == {"recv", "serve", "npclose", "npsignal", "clear", "poll", "free"}

\* The dispatcher has told slot s of a connection, and its thread has not given
\* it back.
Given(s) == used[s] = 1 \/ (nE = s /\ dstep \in {"used", "notify"})

\* Slot s has the connection whose number stands in it.
Holds(s) == Given(s) \/ (nE = s /\ dstep = "msg") \/ Closing(s)

-----------------------------------------------------------------------------
\* The steps of the dispatcher here are Handoff's step Done in detail; what it
\* has read is a connection, and was counted.
DispatcherBusy ==
  /\ (dstep # "idle") = (dpc = "busy")
  /\ dpc = "busy" => last # 0
  /\ last # 0 => takes[last] > 0

\* A slot whose thread has something to look at has a connection.
NumberWritten ==
  /\ \A s \in Slot :
       msg_received[s] = 1 \/ wpc[s] \notin {"check", "waiting"} => conn_sd[s] # 0
  /\ dstep \in {"msg", "used", "notify"} => conn_sd[nE] # 0

\* The dispatcher marks the slot it has found.
MarkedLast ==
  /\ dstep \in {"conn", "msg", "used"} => used[nE] = -1
  /\ dstep = "notify" => used[nE] = 1

\* A slot that is given to its thread is not being closed, and the thread looks
\* at the message there, or is signalled, before it waits.
ThreadTakes ==
  \A s \in Slot : Given(s) =>
    /\ ~Closing(s)
    /\ wpc[s] \in {"check", "signal"} => msg_received[s] = 1
    /\ wpc[s] = "waiting" /\ used[s] = 1 => dstep = "notify" /\ nE = s

\* A slot that is not given has an idle thread, or one that gives it back, and
\* no message that the thread would take for a connection.
ThreadLeaves ==
  \A s \in Slot : ~Given(s) =>
    /\ wpc[s] \notin AtWork
    /\ wpc[s] # "reset" => msg_received[s] = 0
    /\ nE = s /\ dstep \in {"conn", "msg"} => ~Closing(s)

ByTurns == ~crossed => MarkedLast /\ ThreadTakes /\ ThreadLeaves

\* Only connections that have been accepted are open.
OpenAccepted == open \subseteq 1..accepted

\* Open connections have descriptors of their own.
OwnDescriptor ==
  /\ \A c, d \in open : fd[c] = fd[d] => c = d
  /\ \A c \in open : fd[c] # 0

\* A slot that holds a connection holds one that is open, and that is neither in
\* the dispatcher's hands nor yet to come; and no other slot holds it.
HeldOnce ==
  /\ \A s \in Slot : Holds(s) =>
       /\ conn_sd[s] \in open
       /\ conn_sd[s] <= last
       /\ Carrying => conn_sd[s] # last
  /\ \A s, t \in Slot : Holds(s) /\ Holds(t) /\ conn_sd[s] = conn_sd[t] => s = t

\* A connection that has not been given to a slot is open once it is accepted, and
\* has been received from by nobody ...
NotYetGiven ==
  \A c \in Conn : c > last \/ (c = last /\ Carrying) =>
    /\ got[c] = {}
    /\ c <= accepted => c \in open

\* ... one that a slot holds, by the thread of that slot only ...
GotByHolder ==
  \A s \in Slot : Holds(s) =>
    /\ got[conn_sd[s]] \subseteq {s}
    /\ wpc[s] \notin {"check", "waiting", "signal", "recv"} => got[conn_sd[s]] = {s}

\* ... and one that is closed, by one thread.
GotByOne ==
  \A c \in Conn :
    /\ got[c] = {} \/ \E s \in Slot : got[c] = {s}
    /\ c <= accepted /\ c \notin open => got[c] # {}

\* Threads that have counted their connection off and not closed it, and what
\* the count is apart from them.
Uncounted == {s \in Slot : wpc[s] = "shut"}
CountHolds == max_descriptor = 1 + Cardinality(open) - Cardinality(Uncounted)

\* A missing image is remembered.
AbsentKept == \A s \in Slot : wpc[s] \in {"npclose", "npsignal"} => absent

HeldApart ==
  /\ OwnDescriptor
  /\ HeldOnce
  /\ NotYetGiven
  /\ GotByHolder
  /\ GotByOne
  /\ CountHolds

Apart == Clean => HeldApart

PoolInv ==
  /\ HandoffInv
  /\ TypeOK
  /\ DispatcherBusy
  /\ NumberWritten
  /\ AbsentKept
  /\ OpenAccepted
  /\ ByTurns
  /\ Apart

-----------------------------------------------------------------------------
(***************************************************************************)
(* A step of the pool is a step of the main loop or of the dispatcher in   *)
(* Handoff, or leaves the record alone; the dispatcher's search for a slot *)
(* lies inside Done.                                                       *)
(***************************************************************************)
LEMMA HandoffStep == DispatcherBusy /\ [Next]_vars => [H!Next]_(H!vars)
<1> SUFFICES ASSUME DispatcherBusy, [Next]_vars
             PROVE  [H!Next]_(H!vars)
  OBVIOUS
<1>1. CASE Accept \/ Store \/ Signal
  BY <1>1 DEF Accept, Store, Signal, H!Next
<1>2. CASE Park \/ Take \/ Notify
  BY <1>2 DEF Park, Take, Notify, H!Next
<1>3. CASE Scan \/ AwaitFree \/ SetConn \/ SetMsg \/ SetUsed
  BY <1>3 DEF Scan, AwaitFree, SetConn, SetMsg, SetUsed, handoff, H!vars
<1>4. ASSUME NEW s \in Slot, WorkerStep(s) \/ Receive(s)
      PROVE  UNCHANGED handoff
  BY <1>4
  DEF WorkerStep, WaitForConnection, Receive, Serve, ServeAbsent, CloseAbsent,
      SignalAbsent, ClearMsg, HandleTimer, FreeSlot, ResetMsg, Uncount, Shut,
      SignalFree
<1>5. CASE UNCHANGED vars
  BY <1>5 DEF vars, handoff, H!vars
<1> QED
  BY <1>1, <1>2, <1>3, <1>4, <1>5 DEF Next, DispatcherStep, handoff, H!vars

(***************************************************************************)
(* So it keeps the invariant of the hand-off.                              *)
(***************************************************************************)
LEMMA HandoffKept == PoolInv /\ [Next]_vars => HandoffInv'
BY HandoffStep, HandoffNext DEF PoolInv

(***************************************************************************)
(* What the invariant of Handoff says of the record, in the pool's terms.  *)
(***************************************************************************)
LEMMA Record ==
  ASSUME HandoffInv
  PROVE  /\ H!TypeOK
         /\ accepted \in 0..MaxConn /\ mailbox \in 0..MaxConn /\ last \in 0..MaxConn
         /\ takes \in [Conn -> Nat]
         /\ last <= mailbox /\ mailbox <= accepted
         /\ dpc = "woken" => mailbox # 0
         /\ dpc = "woken" /\ ~overrun => takes[mailbox] = 0
<1> USE MaxConnAssumption
<1>1. H!TypeOK /\ RecordCurrent /\ H!ExactlyOnceUntilOverrun
  BY DEF HandoffInv
<1>2. accepted \in 0..MaxConn /\ mailbox \in 0..MaxConn /\ last \in 0..MaxConn
      /\ takes \in [Conn -> Nat]
  BY <1>1 DEF H!TypeOK, H!Conn, Conn
<1>3. last <= mailbox /\ mailbox <= accepted /\ (dpc = "woken" => mailbox # 0)
  BY <1>1, <1>2 DEF RecordCurrent
<1>4. dpc = "woken" /\ ~overrun => takes[mailbox] = 0
  BY <1>1, <1>2, <1>3 DEF H!ExactlyOnceUntilOverrun
<1> QED
  BY <1>1, <1>2, <1>3, <1>4

-----------------------------------------------------------------------------
(***************************************************************************)
(* Every set of numbers has a least one.                                   *)
(***************************************************************************)
LEMMA LeastNumber ==
  ASSUME NEW T \in SUBSET Nat, T # {}
  PROVE  \E n \in T : \A m \in T : n <= m
<1> DEFINE R == {ss \in Nat \X Nat : ss[1] < ss[2]}
<1>1. IsWellFoundedOn(R, Nat)
  BY NatLessThanWellFounded DEF OpToRel
<1> HIDE DEF R
<1>2. PICK n \in T : \A m \in T : ~(<<m, n>> \in R)
  BY <1>1, WFMin
<1>3. \A m \in T : ~(m < n)
  BY <1>2 DEF R
<1> QED
  BY <1>3

(***************************************************************************)
(* As long as fewer connections are open than can be, the system has a     *)
(* descriptor for the next, which no open connection has.                  *)
(***************************************************************************)
LEMMA FreshDescriptor ==
  ASSUME fd \in [Conn -> 0..MaxConn], accepted \in 0..(MaxConn - 1),
         open \subseteq 1..accepted
  PROVE  FreshFd \in Conn /\ \A c \in open : fd[c] # FreshFd
<1> USE MaxConnAssumption
<1> DEFINE Unused == {n \in Conn : \A c \in open : fd[c] # n}
<1>1. Unused # {}
  <2> SUFFICES ASSUME \A n \in Conn : \E c \in open : fd[c] = n
               PROVE  FALSE
    OBVIOUS
  <2> DEFINE holder == [n \in Conn |-> CHOOSE c \in open : fd[c] = n]
  <2>1. \A n \in Conn : holder[n] \in open /\ fd[holder[n]] = n
    OBVIOUS
  <2>2. holder \in [Conn -> 1..accepted]
    BY <2>1
  <2>3. IsFiniteSet(Conn) /\ Cardinality(Conn) = MaxConn
    BY FS_Interval, 1 \in Int, MaxConn \in Int DEF Conn
  <2>4. IsFiniteSet(1..accepted) /\ Cardinality(1..accepted) = accepted
    BY FS_Interval, 1 \in Int, accepted \in Int
  <2> HIDE DEF holder
  <2>5. PICK x \in Conn, y \in Conn : x # y /\ holder[x] = holder[y]
    BY <2>2, <2>3, <2>4, FS_PigeonHole
  <2> QED
    BY <2>1, <2>5
<1>2. PICK n \in Unused : \A m \in Unused : n <= m
  <2>1. Unused \in SUBSET Nat
    BY DEF Conn
  <2> HIDE DEF Unused
  <2> QED
    BY <1>1, <2>1, LeastNumber
<1>3. \A m \in 1..(n - 1) : \E c \in open : fd[c] = m
  BY <1>2 DEF Conn
<1>4. \E k \in Conn :
        /\ \A c \in open : fd[c] # k
        /\ \A m \in 1..(k - 1) : \E c \in open : fd[c] = m
  BY <1>3
<1> QED
  BY <1>4 DEF FreshFd

-----------------------------------------------------------------------------
(***************************************************************************)
(* The calloc'ed ring, with a thread in each slot, satisfies the invariant.*)
(***************************************************************************)
LEMMA InitInv == Init => PoolInv
<1> SUFFICES ASSUME Init PROVE PoolInv
  OBVIOUS
<1> USE NumThreadAssumption, MaxConnAssumption DEF Init, H!Init
<1>1. HandoffInv
  BY HandoffInit
<1>2. TypeOK
  <2>1. E \in Slot /\ nE \in Slot /\ i \in 0..NumThread
    BY DEF Slot
  <2>2. conn_sd \in [Slot -> 0..MaxConn] /\ fd \in [Conn -> 0..MaxConn]
    OBVIOUS
  <2>3. crossed \in BOOLEAN /\ absent \in BOOLEAN
    OBVIOUS
  <2>4. H!TypeOK
    BY <1>1, Record
  <2> QED
    BY <2>1, <2>2, <2>3, <2>4 DEF TypeOK, DispatcherSteps, WorkerSteps
<1>3. DispatcherBusy /\ NumberWritten /\ AbsentKept /\ OpenAccepted
  BY DEF DispatcherBusy, NumberWritten, AbsentKept, OpenAccepted
<1>4. ByTurns
  BY DEF ByTurns, MarkedLast, ThreadTakes, ThreadLeaves, Given, Closing, AtWork
<1>5. Apart
  <2>1. \A s \in Slot : ~Holds(s)
    BY DEF Holds, Given, Closing
  <2>2. Cardinality(open) = 0
    BY FS_EmptySet
  <2>3. Cardinality(Uncounted) = 0
    <3>1. Uncounted = {}
      BY DEF Uncounted
    <3> QED
      BY <3>1, FS_EmptySet
  <2> QED
    BY <2>1, <2>2, <2>3
    DEF Apart, HeldApart, OwnDescriptor, HeldOnce, NotYetGiven, GotByHolder,
        GotByOne, CountHolds, Conn
<1> QED
  BY <1>1, <1>2, <1>3, <1>4, <1>5 DEF PoolInv

-----------------------------------------------------------------------------
(***************************************************************************)
(* Type correctness is preserved.                                          *)
(***************************************************************************)
LEMMA TypeKept == PoolInv /\ [Next]_vars => TypeOK'
<1> SUFFICES ASSUME PoolInv, [Next]_vars
             PROVE  TypeOK'
  OBVIOUS
<1> USE NumThreadAssumption, MaxConnAssumption DEF TypeOK, handoff, slots, search, sockets
<1>1. TypeOK /\ HandoffInv
  BY DEF PoolInv
<1>2. H!TypeOK'
  BY HandoffKept DEF HandoffInv
<1>3. last \in 0..MaxConn /\ accepted \in 0..MaxConn
  BY <1>1, Record
<1>4. CASE Accept
  <2>1. accepted < MaxConn
    BY <1>4 DEF Accept, H!Accept
  <2>2. accepted + 1 \in Conn
    BY <1>3, <2>1 DEF Conn
  <2>3. FreshFd \in 0..MaxConn
    <3>1. FreshFd \in Conn
      BY <1>1, <1>3, <2>1, FreshDescriptor DEF PoolInv, OpenAccepted
    <3> QED
      BY <3>1 DEF Conn
  <2>4. fd' \in [Conn -> 0..MaxConn] /\ open' \subseteq Conn
    BY <1>1, <1>4, <2>2, <2>3 DEF Accept
  <2>5. max_descriptor' \in Int
    BY <1>1, <1>4 DEF Accept
  <2> QED
    BY <1>1, <1>2, <1>4, <2>4, <2>5 DEF Accept
<1>5. CASE Store \/ Signal \/ Park \/ Take
  BY <1>1, <1>2, <1>5 DEF Store, Signal, Park, Take, DispatcherSteps
<1>6. CASE Scan
  <2>1. (E + i) % NumThread \in Slot /\ (nE' \in Slot)
    BY <1>1, <1>6 DEF Scan, Slot
  <2>2. E' \in Slot /\ i' \in 0..NumThread
    BY <1>1, <1>6 DEF Scan, Slot
  <2>3. crossed' \in BOOLEAN /\ dstep' \in DispatcherSteps
    BY <1>1, <1>6 DEF Scan, DispatcherSteps
  <2> QED
    BY <1>1, <1>2, <1>6, <2>1, <2>2, <2>3 DEF Scan
<1>7. CASE AwaitFree \/ SetConn \/ SetMsg \/ SetUsed \/ Notify
  BY <1>1, <1>2, <1>3, <1>7
  DEF AwaitFree, SetConn, SetMsg, SetUsed, Notify, DispatcherSteps, WorkerSteps
<1>8. ASSUME NEW s \in Slot, Receive(s)
      PROVE  TypeOK'
  BY <1>1, <1>2, <1>8 DEF Receive, Go, WorkerSteps
<1>9. ASSUME NEW s \in Slot, WorkerStep(s)
      PROVE  TypeOK'
  <2>1. CASE WaitForConnection(s) \/ Serve(s) \/ CloseAbsent(s)
    BY <1>1, <1>2, <2>1
    DEF WaitForConnection, Serve, CloseAbsent, CloseFd, Go, WorkerSteps
  <2>2. CASE ServeAbsent(s)
    BY <1>1, <1>2, <2>2 DEF ServeAbsent, Go, WorkerSteps
  <2>3. CASE SignalAbsent(s) \/ ClearMsg(s) \/ HandleTimer(s)
    BY <1>1, <1>2, <2>3
    DEF SignalAbsent, ClearMsg, HandleTimer, SignalNotFull, Go,
        WorkerSteps, DispatcherSteps
  <2>4. CASE FreeSlot(s)
    <3>1. crossed' \in BOOLEAN
      BY <2>4 DEF FreeSlot
    <3> QED
      BY <1>1, <1>2, <2>4, <3>1 DEF FreeSlot, Go, WorkerSteps
  <2>5. CASE ResetMsg(s) \/ Uncount(s) \/ Shut(s) \/ SignalFree(s)
    BY <1>1, <1>2, <2>5
    DEF ResetMsg, Uncount, Shut, SignalFree, SignalNotFull, CloseFd, Go,
        WorkerSteps, DispatcherSteps
  <2> QED
    BY <1>9, <2>1, <2>2, <2>3, <2>4, <2>5 DEF WorkerStep
<1>10. CASE UNCHANGED vars
  BY <1>1, <1>2, <1>10 DEF vars
<1> QED
  BY <1>4, <1>5, <1>6, <1>7, <1>8, <1>9, <1>10 DEF Next, DispatcherStep

(***************************************************************************)
(* The dispatcher is busy from Take to Notify, with a connection it has    *)
(* counted.                                                                *)
(***************************************************************************)
LEMMA BusyKept == PoolInv /\ [Next]_vars => DispatcherBusy'
<1> SUFFICES ASSUME PoolInv, [Next]_vars
             PROVE  DispatcherBusy'
  OBVIOUS
<1> USE DEF DispatcherBusy, handoff, search
<1>1. DispatcherBusy /\ HandoffInv
  BY DEF PoolInv
<1>2. CASE Accept \/ Store \/ Signal
  BY <1>1, <1>2 DEF Accept, Store, Signal, H!Accept, H!Store, H!Signal
<1>3. CASE Park
  BY <1>1, <1>3 DEF Park, H!Park
<1>4. CASE Take
  <2>1. mailbox \in Conn /\ takes \in [Conn -> Nat]
    BY <1>1, <1>4, Record DEF Take, H!Take, Conn
  <2>2. last' = mailbox /\ takes' = [takes EXCEPT ![mailbox] = @ + 1]
        /\ dpc' = "busy" /\ dstep' = "scan"
    BY <1>4 DEF Take, H!Take
  <2>3. last' # 0 /\ takes'[last'] > 0
    BY <2>1, <2>2 DEF Conn
  <2> QED
    BY <2>2, <2>3
<1>5. CASE Scan \/ AwaitFree \/ SetConn \/ SetMsg \/ SetUsed
  BY <1>1, <1>5 DEF Scan, AwaitFree, SetConn, SetMsg, SetUsed
<1>6. CASE Notify
  BY <1>1, <1>6 DEF Notify, H!Done
<1>7. ASSUME NEW s \in Slot, WorkerStep(s) \/ Receive(s)
      PROVE  DispatcherBusy'
  BY <1>1, <1>7
  DEF WorkerStep, WaitForConnection, Receive, Serve, ServeAbsent, CloseAbsent,
      SignalAbsent, ClearMsg, HandleTimer, FreeSlot, ResetMsg, Uncount, Shut,
      SignalFree, SignalNotFull
<1>8. CASE UNCHANGED vars
  BY <1>1, <1>8 DEF vars
<1> QED
  BY <1>2, <1>3, <1>4, <1>5, <1>6, <1>7, <1>8 DEF Next, DispatcherStep

(***************************************************************************)
(* A slot's number is written before anything that makes its thread look   *)
(* at it, and is never taken back.                                         *)
(***************************************************************************)
LEMMA WrittenKept == PoolInv /\ [Next]_vars => NumberWritten'
<1> SUFFICES ASSUME PoolInv, [Next]_vars
             PROVE  NumberWritten'
  OBVIOUS
<1> USE DEF NumberWritten, TypeOK, handoff, slots, search
<1>1. NumberWritten /\ TypeOK /\ DispatcherBusy
  BY DEF PoolInv
<1>2. CASE Accept \/ Store \/ Signal \/ Park
  BY <1>1, <1>2 DEF Accept, Store, Signal, Park
<1>3. CASE Take \/ Scan \/ AwaitFree
  BY <1>1, <1>3 DEF Take, Scan, AwaitFree
<1>4. CASE SetConn
  BY <1>1, <1>4 DEF SetConn, DispatcherBusy
<1>5. CASE SetMsg \/ SetUsed
  BY <1>1, <1>5 DEF SetMsg, SetUsed
<1>6. CASE Notify
  BY <1>1, <1>6 DEF Notify
<1>7. ASSUME NEW s \in Slot, WorkerStep(s) \/ Receive(s)
      PROVE  NumberWritten'
  <2>1. CASE WaitForConnection(s)
    BY <1>1, <2>1 DEF WaitForConnection, Go
  <2>2. CASE Receive(s) \/ Serve(s) \/ ServeAbsent(s) \/ CloseAbsent(s)
    BY <1>1, <2>2 DEF Receive, Serve, ServeAbsent, CloseAbsent, Go
  <2>3. CASE SignalAbsent(s) \/ ClearMsg(s) \/ HandleTimer(s) \/ FreeSlot(s)
    BY <1>1, <2>3
    DEF SignalAbsent, ClearMsg, HandleTimer, FreeSlot, SignalNotFull, Go
  <2>4. CASE ResetMsg(s) \/ Uncount(s) \/ Shut(s) \/ SignalFree(s)
    BY <1>1, <2>4 DEF ResetMsg, Uncount, Shut, SignalFree, SignalNotFull, Go
  <2> QED
    BY <1>7, <2>1, <2>2, <2>3, <2>4 DEF WorkerStep
<1>8. CASE UNCHANGED vars
  BY <1>1, <1>8 DEF vars
<1> QED
  BY <1>2, <1>3, <1>4, <1>5, <1>6, <1>7, <1>8 DEF Next, DispatcherStep

(***************************************************************************)
(* What is open was accepted, and a missing image is remembered.           *)
(***************************************************************************)
LEMMA OpenKept == PoolInv /\ [Next]_vars => OpenAccepted' /\ AbsentKept'
<1> SUFFICES ASSUME PoolInv, [Next]_vars
             PROVE  OpenAccepted' /\ AbsentKept'
  OBVIOUS
<1> USE DEF OpenAccepted, AbsentKept, TypeOK, handoff, sockets
<1>1. OpenAccepted /\ AbsentKept /\ TypeOK /\ accepted \in Nat
  BY Record DEF PoolInv
<1>2. CASE Accept \/ Store \/ Signal
  <2>1. CASE Accept
    BY <1>1, <2>1 DEF Accept, H!Accept
  <2> QED
    BY <1>1, <1>2, <2>1 DEF Store, Signal, H!Store, H!Signal
<1>3. CASE Park \/ Take
  BY <1>1, <1>3 DEF Park, Take, H!Park, H!Take
<1>4. CASE Scan \/ AwaitFree \/ SetConn \/ SetMsg \/ SetUsed
  BY <1>1, <1>4 DEF Scan, AwaitFree, SetConn, SetMsg, SetUsed
<1>5. CASE Notify
  BY <1>1, <1>5 DEF Notify, H!Done
<1>6. ASSUME NEW s \in Slot, WorkerStep(s) \/ Receive(s)
      PROVE  OpenAccepted' /\ AbsentKept'
  <2>1. CASE WaitForConnection(s) \/ Receive(s) \/ Serve(s) \/ ServeAbsent(s)
    BY <1>1, <2>1 DEF WaitForConnection, Receive, Serve, ServeAbsent, Go
  <2>2. CASE CloseAbsent(s) \/ SignalAbsent(s) \/ ClearMsg(s) \/ HandleTimer(s)
    BY <1>1, <2>2 DEF CloseAbsent, SignalAbsent, ClearMsg, HandleTimer, CloseFd, Go
  <2>3. CASE FreeSlot(s) \/ ResetMsg(s) \/ Uncount(s) \/ Shut(s) \/ SignalFree(s)
    BY <1>1, <2>3 DEF FreeSlot, ResetMsg, Uncount, Shut, SignalFree, CloseFd, Go
  <2> QED
    BY <1>6, <2>1, <2>2, <2>3 DEF WorkerStep
<1>7. CASE UNCHANGED vars
  BY <1>1, <1>7 DEF vars
<1> QED
  BY <1>2, <1>3, <1>4, <1>5, <1>6, <1>7 DEF Next, DispatcherStep

(***************************************************************************)
(* The flags of what went wrong are never taken back.                      *)
(***************************************************************************)
LEMMA FaultsStay ==
  ASSUME TypeOK, [Next]_vars
  PROVE  /\ crossed => crossed'
         /\ Clean' => Clean
<1> USE DEF TypeOK, H!TypeOK, Clean, handoff
<1>1. CASE Accept \/ Signal \/ Park \/ Take
  BY <1>1
  DEF Accept, Signal, Park, Take, H!Accept, H!Signal, H!Park, H!Take
<1>2. CASE Store
  BY <1>2 DEF Store, H!Store
<1>3. CASE Scan
  BY <1>3 DEF Scan
<1>4. CASE AwaitFree \/ SetConn \/ SetMsg \/ SetUsed \/ Notify
  BY <1>4 DEF AwaitFree, SetConn, SetMsg, SetUsed, Notify, H!Done
<1>5. ASSUME NEW s \in Slot, WorkerStep(s) \/ Receive(s)
      PROVE  /\ crossed => crossed'
             /\ Clean' => Clean
  <2>1. CASE FreeSlot(s)
    BY <2>1 DEF FreeSlot
  <2> QED
    BY <1>5, <2>1
    DEF WorkerStep, WaitForConnection, Receive, Serve, ServeAbsent, CloseAbsent,
        SignalAbsent, ClearMsg, HandleTimer, ResetMsg, Uncount, Shut, SignalFree
<1>6. CASE UNCHANGED vars
  BY <1>6 DEF vars
<1> QED
  BY <1>1, <1>2, <1>3, <1>4, <1>5, <1>6 DEF Next, DispatcherStep

(***************************************************************************)
(* Unless the step fills a slot that is being closed, or closes one that   *)
(* is being filled, dispatcher and thread go on working on it by turns.    *)
(***************************************************************************)
LEMMA TurnsKept == PoolInv /\ [Next]_vars => ByTurns'
<1> SUFFICES ASSUME PoolInv, [Next]_vars, ~crossed'
             PROVE  MarkedLast' /\ ThreadTakes' /\ ThreadLeaves'
  BY DEF ByTurns
<1> USE DEF TypeOK, handoff, slots, search, MarkedLast, ThreadTakes, ThreadLeaves,
            Given, Closing, AtWork
<1>1. TypeOK
  BY DEF PoolInv
<1>2. ~crossed /\ MarkedLast /\ ThreadTakes /\ ThreadLeaves
  BY <1>1, FaultsStay DEF PoolInv, ByTurns
<1>3. CASE Accept \/ Store \/ Signal \/ Park
  BY <1>1, <1>2, <1>3 DEF Accept, Store, Signal, Park
<1>4. CASE Take
  BY <1>1, <1>2, <1>4 DEF Take, H!Take, PoolInv, DispatcherBusy
<1>5. CASE Scan
  BY <1>1, <1>2, <1>5 DEF Scan
<1>6. CASE AwaitFree
  BY <1>1, <1>2, <1>6 DEF AwaitFree
<1>7. CASE SetConn
  BY <1>1, <1>2, <1>7 DEF SetConn
<1>8. CASE SetMsg
  BY <1>1, <1>2, <1>8 DEF SetMsg
<1>9. CASE SetUsed
  BY <1>1, <1>2, <1>9 DEF SetUsed
<1>10. CASE Notify
  BY <1>1, <1>2, <1>10 DEF Notify
<1>11. ASSUME NEW s \in Slot, WorkerStep(s) \/ Receive(s)
       PROVE  MarkedLast' /\ ThreadTakes' /\ ThreadLeaves'
  <2>1. CASE WaitForConnection(s)
    BY <1>1, <1>2, <2>1 DEF WaitForConnection, Go
  <2>2. CASE Receive(s)
    BY <1>1, <1>2, <2>2 DEF Receive, Go
  <2>3. CASE Serve(s)
    BY <1>1, <1>2, <2>3 DEF Serve
  <2>4. CASE ServeAbsent(s)
    BY <1>1, <1>2, <2>4 DEF ServeAbsent, Go
  <2>5. CASE CloseAbsent(s)
    BY <1>1, <1>2, <2>5 DEF CloseAbsent, Go
  <2>6. CASE SignalAbsent(s)
    BY <1>1, <1>2, <2>6 DEF SignalAbsent, SignalNotFull, Go
  <2>7. CASE ClearMsg(s)
    BY <1>1, <1>2, <2>7 DEF ClearMsg, Go
  <2>8. CASE HandleTimer(s)
    BY <1>1, <1>2, <2>8 DEF HandleTimer, Go
  <2>9. CASE FreeSlot(s)
    <3>1. ~(nE = s /\ dstep \in {"used", "notify"})
      BY <2>9 DEF FreeSlot
    <3>2. ~(nE = s /\ dstep \in {"conn", "msg", "used", "notify"})
      BY <1>1, <1>2, <2>9, <3>1 DEF FreeSlot
    <3> QED
      BY <1>1, <1>2, <2>9, <3>2 DEF FreeSlot, Go
  <2>10. CASE ResetMsg(s)
    BY <1>1, <1>2, <2>10 DEF ResetMsg, Go
  <2>11. CASE Uncount(s)
    BY <1>1, <1>2, <2>11 DEF Uncount, Go
  <2>12. CASE Shut(s)
    BY <1>1, <1>2, <2>12 DEF Shut, Go
  <2>13. CASE SignalFree(s)
    BY <1>1, <1>2, <2>13 DEF SignalFree, SignalNotFull, Go
  <2> QED
    BY <1>11, <2>1, <2>2, <2>3, <2>4, <2>5, <2>6, <2>7, <2>8, <2>9, <2>10, <2>11,
       <2>12, <2>13
    DEF WorkerStep
<1>12. CASE UNCHANGED vars
  BY <1>1, <1>2, <1>12 DEF vars
<1> QED
  BY <1>3, <1>4, <1>5, <1>6, <1>7, <1>8, <1>9, <1>10, <1>11, <1>12
  DEF Next, DispatcherStep

-----------------------------------------------------------------------------
(***************************************************************************)
(* As long as nothing has gone wrong, a thread that works, or closes, has  *)
(* a slot that holds a connection, and its descriptor reaches that and no  *)
(* other.                                                                  *)
(***************************************************************************)
LEMMA WorkerHolds ==
  ASSUME PoolInv, Clean, NEW s \in Slot, wpc[s] \in AtWork \/ Closing(s)
  PROVE  /\ Holds(s)
         /\ conn_sd[s] \in open
         /\ Reached(s) = {conn_sd[s]}
<1>1. Holds(s)
  BY DEF PoolInv, ByTurns, Clean, ThreadLeaves, Holds
<1>2. HeldApart /\ TypeOK
  BY DEF PoolInv, Apart
<1>3. conn_sd[s] \in open /\ conn_sd[s] # 0
  BY <1>1, <1>2, MaxConnAssumption DEF HeldApart, HeldOnce, TypeOK, Conn
<1>4. Reached(s) = {conn_sd[s]}
  BY <1>2, <1>3 DEF Reached, HeldApart, OwnDescriptor
<1> QED
  BY <1>1, <1>3, <1>4

\* The thread has not received from the connection its slot holds.
Early == {"check", "waiting", "signal", "recv"}

(***************************************************************************)
(* A step that neither accepts, takes, gives, receives from nor closes a   *)
(* connection leaves them apart.                                           *)
(***************************************************************************)
LEMMA Frame ==
  ASSUME HeldApart,
         UNCHANGED <<open, fd, got, conn_sd, last, accepted, max_descriptor>>,
         Carrying' => Carrying,
         \A s \in Slot : Holds(s)' => Holds(s),
         \A s \in Slot : wpc[s] \in Early => wpc'[s] \in Early,
         \A s \in Slot : wpc[s] = "shut" <=> wpc'[s] = "shut"
  PROVE  HeldApart'
<1>1. OwnDescriptor' /\ HeldOnce'
  BY DEF HeldApart, OwnDescriptor, HeldOnce
<1>2. NotYetGiven' /\ GotByHolder' /\ GotByOne'
  BY DEF HeldApart, NotYetGiven, GotByHolder, GotByOne, Early
<1>3. Uncounted' = Uncounted
  BY DEF Uncounted
<1>4. CountHolds'
  BY <1>3 DEF HeldApart, CountHolds
<1> QED
  BY <1>1, <1>2, <1>4 DEF HeldApart

(***************************************************************************)
(* The steps of main loop and dispatcher that Frame is about.              *)
(***************************************************************************)
LEMMA DispatcherFrame ==
  ASSUME PoolInv, Clean,
         Store \/ Signal \/ Park \/ Scan \/ AwaitFree \/ SetMsg \/ SetUsed \/ Notify
  PROVE  HeldApart'
<1> USE DEF TypeOK, handoff, slots, search, sockets, Carrying, Holds, Given, Closing, Early
<1>1. TypeOK /\ HeldApart
  BY DEF PoolInv, Apart
<1>2. CASE Store \/ Signal \/ Park
  BY <1>1, <1>2, Frame DEF Store, Signal, Park, H!Store, H!Signal, H!Park
<1>3. CASE Scan
  BY <1>1, <1>3, Frame DEF Scan
<1>4. CASE AwaitFree \/ SetMsg
  BY <1>1, <1>4, Frame DEF AwaitFree, SetMsg
<1>5. CASE SetUsed
  BY <1>1, <1>5, Frame DEF SetUsed
<1>6. CASE Notify
  BY <1>1, <1>6, Frame DEF Notify, H!Done
<1> QED
  BY <1>2, <1>3, <1>4, <1>5, <1>6

(***************************************************************************)
(* The steps of a slot's thread that Frame is about.  Those that follow a  *)
(* missing image are not taken, or are the fault itself.                   *)
(***************************************************************************)
LEMMA WorkerFrame ==
  ASSUME PoolInv, Clean', Clean, NEW s \in Slot,
         WorkerStep(s), ~Uncount(s), ~Shut(s)
  PROVE  HeldApart'
<1> USE DEF TypeOK, handoff, slots, search, sockets, Carrying, Holds, Given, Closing, Early
<1>1. TypeOK /\ HeldApart /\ AbsentKept
  BY DEF PoolInv, Apart
<1>2. CASE WaitForConnection(s)
  BY <1>1, <1>2, Frame DEF WaitForConnection, Go
<1>3. CASE Serve(s)
  BY <1>1, <1>3, Frame DEF Serve
<1>4. CASE ServeAbsent(s)
  BY <1>4 DEF ServeAbsent, Clean
<1>5. CASE CloseAbsent(s) \/ SignalAbsent(s)
  BY <1>1, <1>5 DEF CloseAbsent, SignalAbsent, AbsentKept, Clean
<1>6. CASE ClearMsg(s)
  BY <1>1, <1>6, Frame DEF ClearMsg, Go
<1>7. CASE HandleTimer(s)
  <2>1. PICK step \in {"check", "free"} : wpc' = [wpc EXCEPT ![s] = step]
    BY <1>7 DEF HandleTimer, Go
  <2> QED
    BY <1>1, <1>7, <2>1, Frame DEF HandleTimer
<1>8. CASE FreeSlot(s)
  <2>1. Holds(s)
    BY <1>8, WorkerHolds DEF FreeSlot, AtWork
  <2> QED
    BY <1>1, <1>8, <2>1, Frame DEF FreeSlot, Go
<1>9. CASE ResetMsg(s)
  BY <1>1, <1>9, Frame DEF ResetMsg, Go
<1>10. CASE SignalFree(s)
  BY <1>1, <1>10, Frame DEF SignalFree, SignalNotFull, Go
<1> QED
  BY <1>2, <1>3, <1>4, <1>5, <1>6, <1>7, <1>8, <1>9, <1>10 DEF WorkerStep

(***************************************************************************)
(* Sets of connections and of slots are finite.                            *)
(***************************************************************************)
LEMMA Finite ==
  ASSUME TypeOK
  PROVE  IsFiniteSet(open) /\ IsFiniteSet(Uncounted) /\ IsFiniteSet(Slot)
<1>1. IsFiniteSet(Conn)
  BY FS_Interval, MaxConnAssumption, 1 \in Int, MaxConn \in Int DEF Conn
<1>2. IsFiniteSet(Slot)
  BY FS_Interval, NumThreadAssumption, 0 \in Int, NumThread - 1 \in Int DEF Slot
<1>3. open \in SUBSET Conn /\ Uncounted \in SUBSET Slot
  BY DEF TypeOK, Uncounted
<1> QED
  BY <1>1, <1>2, <1>3, FS_Subset

(***************************************************************************)
(* A connection that is accepted is given a descriptor no other has.       *)
(***************************************************************************)
LEMMA AcceptApart ==
  ASSUME PoolInv, Clean, Accept
  PROVE  HeldApart'
<1> DEFINE c == accepted + 1
<1>1. TypeOK /\ HeldApart /\ OpenAccepted
  BY DEF PoolInv, Apart
<1>2. accepted \in 0..(MaxConn - 1) /\ last \in Nat /\ last <= accepted
  BY MaxConnAssumption, Record DEF PoolInv, Accept, H!Accept
<1>3. c \in Conn /\ c \notin open /\ c > last
  BY <1>1, <1>2, MaxConnAssumption DEF Conn, OpenAccepted
<1>4. FreshFd \in Conn /\ \A d \in open : fd[d] # FreshFd
  BY <1>1, <1>2, FreshDescriptor DEF TypeOK, OpenAccepted
<1>5. /\ open' = open \cup {c}
      /\ fd' = [fd EXCEPT ![c] = FreshFd]
      /\ accepted' = c
      /\ max_descriptor' = max_descriptor + 1
      /\ UNCHANGED <<last, dstep, nE, conn_sd, used, wpc, got>>
  BY DEF Accept, H!Accept, slots, search
<1>6. \A s \in Slot : Holds(s)' = Holds(s)
  BY <1>5 DEF Holds, Given, Closing
<1>7. Carrying' = Carrying
  BY <1>5 DEF Carrying
<1>8. OwnDescriptor'
  <2>1. fd'[c] = FreshFd /\ FreshFd # 0 /\ \A d \in open : fd'[d] = fd[d]
    BY <1>1, <1>3, <1>4, <1>5 DEF TypeOK, Conn
  <2> QED
    BY <1>1, <1>4, <1>5, <2>1 DEF HeldApart, OwnDescriptor
<1>9. HeldOnce'
  BY <1>1, <1>5, <1>6, <1>7 DEF HeldApart, HeldOnce
<1>10. NotYetGiven'
  BY <1>1, <1>2, <1>3, <1>5, <1>7 DEF HeldApart, NotYetGiven, Conn
<1>11. GotByHolder'
  BY <1>1, <1>5, <1>6 DEF HeldApart, GotByHolder
<1>12. GotByOne'
  BY <1>1, <1>2, <1>3, <1>5 DEF HeldApart, GotByOne, Conn
<1>13. CountHolds'
  <2>1. Cardinality(open') = Cardinality(open) + 1
    BY <1>1, <1>3, <1>5, Finite, FS_AddElement
  <2>2. Cardinality(open) \in Int /\ Cardinality(Uncounted) \in Int
    BY <1>1, Finite, FS_CardinalityType
  <2>3. Uncounted' = Uncounted
    BY <1>5 DEF Uncounted
  <2> QED
    BY <1>1, <1>5, <2>1, <2>2, <2>3 DEF HeldApart, CountHolds, TypeOK
<1> QED
  BY <1>8, <1>9, <1>10, <1>11, <1>12, <1>13 DEF HeldApart

(***************************************************************************)
(* What the dispatcher reads is a connection it has not had before.        *)
(***************************************************************************)
LEMMA TakeApart ==
  ASSUME PoolInv, Clean, Take
  PROVE  HeldApart'
<1>1. TypeOK /\ HeldApart
  BY DEF PoolInv, Apart
<1>2. /\ last \in Nat /\ mailbox \in Nat /\ last <= mailbox
      /\ takes[mailbox] = 0 /\ mailbox # 0
  BY Record DEF PoolInv, Take, H!Take, Clean
<1>3. last < mailbox
  BY <1>2 DEF PoolInv, DispatcherBusy
<1>4. /\ last' = mailbox
      /\ dstep' = "scan" /\ dstep = "idle"
      /\ UNCHANGED <<accepted, nE, conn_sd, used, wpc, fd, open, got, max_descriptor>>
  BY DEF Take, H!Take, slots, sockets, PoolInv, DispatcherBusy
<1>5. \A s \in Slot : Holds(s)' => Holds(s)
  BY <1>4 DEF Holds, Given, Closing
<1>6. OwnDescriptor'
  BY <1>1, <1>4 DEF HeldApart, OwnDescriptor
<1>7. HeldOnce'
  BY <1>1, <1>2, <1>3, <1>4, <1>5 DEF HeldApart, HeldOnce, TypeOK
<1>8. NotYetGiven'
  BY <1>1, <1>2, <1>3, <1>4 DEF HeldApart, NotYetGiven, Conn
<1>9. GotByHolder' /\ GotByOne'
  BY <1>1, <1>4, <1>5 DEF HeldApart, GotByHolder, GotByOne
<1>10. CountHolds'
  BY <1>1, <1>4 DEF HeldApart, CountHolds, Uncounted
<1> QED
  BY <1>6, <1>7, <1>8, <1>9, <1>10 DEF HeldApart

(***************************************************************************)
(* The slot that is given it held none, and holds it alone.                *)
(***************************************************************************)
LEMMA SetConnApart ==
  ASSUME PoolInv, Clean, SetConn
  PROVE  HeldApart'
<1>1. TypeOK /\ HeldApart /\ OpenAccepted /\ DispatcherBusy
  BY DEF PoolInv, Apart
<1>2. last \in Conn /\ last <= accepted
  BY <1>1, Record DEF PoolInv, SetConn, DispatcherBusy, Conn
<1>3. /\ conn_sd' = [conn_sd EXCEPT ![nE] = last]
      /\ dstep' = "msg" /\ dstep = "conn"
      /\ UNCHANGED <<accepted, last, nE, used, wpc, fd, open, got, max_descriptor>>
  BY DEF SetConn, handoff, search, sockets
<1>4. last \in open /\ got[last] = {}
  BY <1>1, <1>2, <1>3 DEF HeldApart, NotYetGiven, Carrying
<1>5. nE \in Slot /\ conn_sd'[nE] = last /\ \A s \in Slot \ {nE} : conn_sd'[s] = conn_sd[s]
  BY <1>1, <1>3 DEF TypeOK
<1>6. used[nE] = -1 /\ wpc[nE] \in Early
  <2>1. used[nE] = -1
    BY <1>3 DEF PoolInv, ByTurns, Clean, MarkedLast
  <2>2. ~Given(nE)
    BY <1>3, <2>1 DEF Given
  <2> QED
    BY <1>1, <1>3, <1>5, <2>1, <2>2
    DEF PoolInv, ByTurns, Clean, ThreadLeaves, TypeOK, WorkerSteps, Closing, AtWork, Early
<1>7. \A s \in Slot \ {nE} : Holds(s)' = Holds(s)
  BY <1>3 DEF Holds, Given, Closing
<1>8. \A s \in Slot \ {nE} : Holds(s) => conn_sd[s] # last /\ conn_sd[s] <= last
  BY <1>1, <1>3 DEF HeldApart, HeldOnce, Carrying
<1>9. OwnDescriptor'
  BY <1>1, <1>3 DEF HeldApart, OwnDescriptor
<1>10. HeldOnce'
  <2>1. \A s \in Slot : Holds(s)' => conn_sd'[s] \in open /\ conn_sd'[s] <= last
    BY <1>1, <1>2, <1>4, <1>5, <1>7, <1>8 DEF HeldApart, HeldOnce, Conn
  <2>2. ASSUME NEW s \in Slot, NEW r \in Slot,
               Holds(s)', Holds(r)', conn_sd'[s] = conn_sd'[r]
        PROVE  s = r
    BY <1>1, <1>5, <1>7, <1>8, <2>2 DEF HeldApart, HeldOnce
  <2> QED
    BY <1>3, <2>1, <2>2 DEF HeldOnce, Carrying
<1>11. NotYetGiven'
  BY <1>1, <1>3 DEF HeldApart, NotYetGiven, Carrying
<1>12. GotByHolder'
  BY <1>1, <1>3, <1>4, <1>5, <1>6, <1>7 DEF HeldApart, GotByHolder, Early
<1>13. GotByOne' /\ CountHolds'
  BY <1>1, <1>3 DEF HeldApart, GotByOne, CountHolds, Uncounted
<1> QED
  BY <1>9, <1>10, <1>11, <1>12, <1>13 DEF HeldApart

(***************************************************************************)
(* A thread receives from the connection its slot holds, and from no other.*)
(***************************************************************************)
LEMMA ReceiveApart ==
  ASSUME PoolInv, Clean, NEW s \in Slot, Receive(s)
  PROVE  HeldApart'
<1>1. TypeOK /\ HeldApart /\ OpenAccepted
  BY DEF PoolInv, Apart
<1>2. Holds(s) /\ conn_sd[s] \in open /\ Reached(s) = {conn_sd[s]} /\ conn_sd[s] \in Conn
  BY <1>1, WorkerHolds DEF Receive, AtWork, TypeOK
<1>3. /\ wpc[s] = "recv"
      /\ \A t \in Slot \ {s} : wpc'[t] = wpc[t]
      /\ wpc'[s] \in {"serve", "free"}
      /\ got' = [c \in Conn |-> IF c = conn_sd[s] THEN got[c] \cup {s} ELSE got[c]]
      /\ UNCHANGED <<accepted, last, dstep, nE, used, conn_sd, fd, open, max_descriptor>>
  BY <1>1, <1>2 DEF Receive, Go, handoff, search, slots, sockets, TypeOK
<1>4. got'[conn_sd[s]] = {s} /\ \A c \in Conn : c # conn_sd[s] => got'[c] = got[c]
  <2>1. got[conn_sd[s]] \subseteq {s}
    BY <1>1, <1>2 DEF HeldApart, GotByHolder
  <2> QED
    BY <1>2, <1>3, <2>1
<1>5. \A t \in Slot : Holds(t)' = Holds(t)
  BY <1>3 DEF Holds, Given, Closing
<1>6. OwnDescriptor' /\ HeldOnce'
  BY <1>1, <1>3, <1>5 DEF HeldApart, OwnDescriptor, HeldOnce, Carrying
<1>7. NotYetGiven'
  <2>1. last \in Nat /\ conn_sd[s] \in Nat /\ conn_sd[s] <= last
        /\ (Carrying => conn_sd[s] # last)
    BY <1>1, <1>2, Record DEF HeldApart, HeldOnce, PoolInv, Conn
  <2>2. \A c \in Conn : c > last \/ (c = last /\ Carrying) => c # conn_sd[s]
    BY <2>1 DEF Conn
  <2> QED
    BY <1>1, <1>3, <1>4, <2>2 DEF HeldApart, NotYetGiven, Carrying
<1>8. GotByHolder'
  <2>1. \A t \in Slot : Holds(t) => conn_sd[t] \in Conn /\ (conn_sd[t] = conn_sd[s] => t = s)
    BY <1>1, <1>2 DEF HeldApart, HeldOnce, TypeOK
  <2> QED
    BY <1>1, <1>3, <1>4, <1>5, <2>1 DEF HeldApart, GotByHolder
<1>9. GotByOne'
  BY <1>1, <1>2, <1>3, <1>4 DEF HeldApart, GotByOne
<1>10. CountHolds'
  <2>1. Uncounted' = Uncounted
    BY <1>3 DEF Uncounted
  <2> QED
    BY <1>1, <1>3, <2>1 DEF HeldApart, CountHolds
<1> QED
  BY <1>6, <1>7, <1>8, <1>9, <1>10 DEF HeldApart

(***************************************************************************)
(* A connection that is no longer counted is open until it is closed.      *)
(***************************************************************************)
LEMMA UncountApart ==
  ASSUME PoolInv, Clean, NEW s \in Slot, Uncount(s)
  PROVE  HeldApart'
<1>1. TypeOK /\ HeldApart
  BY DEF PoolInv, Apart
<1>2. /\ wpc[s] = "dec"
      /\ wpc' = [wpc EXCEPT ![s] = "shut"]
      /\ max_descriptor' = max_descriptor - 1
      /\ UNCHANGED <<accepted, last, dstep, nE, used, conn_sd, fd, open, got>>
  BY DEF Uncount, Go, handoff, search, slots
<1>3. \A t \in Slot : Holds(t)' = Holds(t)
  BY <1>1, <1>2 DEF Holds, Given, Closing, TypeOK
<1>4. OwnDescriptor' /\ HeldOnce' /\ NotYetGiven' /\ GotByOne'
  BY <1>1, <1>2, <1>3 DEF HeldApart, OwnDescriptor, HeldOnce, NotYetGiven, GotByOne, Carrying
<1>5. GotByHolder'
  BY <1>1, <1>2, <1>3 DEF HeldApart, GotByHolder, TypeOK
<1>6. CountHolds'
  <2>1. Uncounted' = Uncounted \cup {s} /\ s \notin Uncounted
    BY <1>1, <1>2 DEF Uncounted, TypeOK
  <2>2. Cardinality(Uncounted') = Cardinality(Uncounted) + 1
    BY <1>1, <2>1, Finite, FS_AddElement
  <2>3. Cardinality(open) \in Int /\ Cardinality(Uncounted) \in Int
    BY <1>1, Finite, FS_CardinalityType
  <2> QED
    BY <1>1, <1>2, <2>2, <2>3 DEF HeldApart, CountHolds, TypeOK
<1> QED
  BY <1>4, <1>5, <1>6 DEF HeldApart

(***************************************************************************)
(* A thread closes the connection its slot holds, and no other.            *)
(***************************************************************************)
LEMMA ShutApart ==
  ASSUME PoolInv, Clean, NEW s \in Slot, Shut(s)
  PROVE  HeldApart'
<1> DEFINE c == conn_sd[s]
<1>1. TypeOK /\ HeldApart
  BY DEF PoolInv, Apart
<1>2. Holds(s) /\ c \in open /\ Reached(s) = {c}
  BY WorkerHolds DEF Shut, Closing
<1>3. /\ wpc[s] = "shut"
      /\ wpc' = [wpc EXCEPT ![s] = "signal"]
      /\ open' = open \ {c}
      /\ UNCHANGED <<accepted, last, dstep, nE, used, conn_sd, fd, got, max_descriptor>>
  BY <1>2 DEF Shut, Go, CloseFd, handoff, search, slots
<1>4. ~Holds(s)' /\ \A t \in Slot \ {s} : Holds(t)' = Holds(t)
  <2>1. ~Given(s)
    BY <1>3 DEF PoolInv, ByTurns, Clean, ThreadTakes, Closing
  <2>2. ~(nE = s /\ dstep = "msg")
    BY <1>3, <2>1 DEF PoolInv, ByTurns, Clean, ThreadLeaves, Closing
  <2> QED
    BY <1>1, <1>3, <2>1, <2>2 DEF Holds, Given, Closing, TypeOK
<1>5. OwnDescriptor'
  BY <1>1, <1>3 DEF HeldApart, OwnDescriptor
<1>6. HeldOnce'
  BY <1>1, <1>2, <1>3, <1>4 DEF HeldApart, HeldOnce, Carrying
<1>7. NotYetGiven'
  <2>1. last \in Nat /\ c \in Nat /\ c <= last /\ (Carrying => c # last)
    BY <1>1, <1>2, Record DEF HeldApart, HeldOnce, PoolInv, TypeOK, Conn
  <2>2. \A d \in Conn : d > last \/ (d = last /\ Carrying) => d # c
    BY <2>1 DEF Conn
  <2> QED
    BY <1>1, <1>3, <2>2 DEF HeldApart, NotYetGiven, Carrying
<1>8. GotByHolder'
  BY <1>1, <1>3, <1>4 DEF HeldApart, GotByHolder, TypeOK
<1>9. GotByOne'
  <2>1. got[c] = {s}
    BY <1>1, <1>2, <1>3 DEF HeldApart, GotByHolder
  <2> QED
    BY <1>1, <1>3, <2>1 DEF HeldApart, GotByOne
<1>10. CountHolds'
  <2>1. Uncounted' = Uncounted \ {s} /\ s \in Uncounted
    BY <1>1, <1>3 DEF Uncounted, TypeOK
  <2>2. Cardinality(Uncounted') = Cardinality(Uncounted) - 1
    BY <1>1, <2>1, Finite, FS_RemoveElement
  <2>3. Cardinality(open') = Cardinality(open) - 1
    BY <1>1, <1>2, <1>3, Finite, FS_RemoveElement
  <2>4. Cardinality(open) \in Int /\ Cardinality(Uncounted) \in Int
    BY <1>1, Finite, FS_CardinalityType
  <2> QED
    BY <1>1, <1>3, <2>2, <2>3, <2>4 DEF HeldApart, CountHolds, TypeOK
<1> QED
  BY <1>5, <1>6, <1>7, <1>8, <1>9, <1>10 DEF HeldApart

(***************************************************************************)
(* Every step that leaves the pool clean leaves its connections apart.     *)
(***************************************************************************)
LEMMA ApartKept == PoolInv /\ [Next]_vars => Apart'
<1> SUFFICES ASSUME PoolInv, [Next]_vars, Clean'
             PROVE  HeldApart'
  BY DEF Apart
<1>1. Clean
  BY FaultsStay DEF PoolInv
<1>2. CASE Accept \/ Take \/ SetConn
  BY <1>1, <1>2, AcceptApart, TakeApart, SetConnApart
<1>3. CASE Store \/ Signal \/ Park \/ Scan \/ AwaitFree \/ SetMsg \/ SetUsed \/ Notify
  BY <1>1, <1>3, DispatcherFrame
<1>4. ASSUME NEW s \in Slot, WorkerStep(s) \/ Receive(s)
      PROVE  HeldApart'
  BY <1>1, <1>4, WorkerFrame, ReceiveApart, UncountApart, ShutApart
<1>5. CASE UNCHANGED vars
  BY <1>1, <1>5, Frame
  DEF vars, handoff, slots, search, sockets, PoolInv, Apart, Carrying, Holds,
      Given, Closing, Early
<1> QED
  BY <1>2, <1>3, <1>4, <1>5 DEF Next, DispatcherStep

-----------------------------------------------------------------------------
(***************************************************************************)
(* The invariant holds in every state of every behaviour.                  *)
(***************************************************************************)
THEOREM PoolInvariance == Spec => []PoolInv
<1>1. PoolInv /\ [Next]_vars => PoolInv'
  BY HandoffKept, TypeKept, BusyKept, WrittenKept, OpenKept, TurnsKept, ApartKept
  DEF PoolInv
<1> QED
  BY InitInv, <1>1, PTL DEF Spec

(***************************************************************************)
(* Type correctness of the pool.                                           *)
(***************************************************************************)
THEOREM TypeCorrect == Spec => []TypeOK
<1>1. PoolInv => TypeOK
  BY DEF PoolInv
<1> QED
  BY PoolInvariance, <1>1, PTL

(***************************************************************************)
(* The pool, with its search for a slot and its threads, hands connections *)
(* over as Handoff says.                                                   *)
(***************************************************************************)
THEOREM HandoffRefined == Spec => H!Spec
<1>1. Init => H!Init
  BY DEF Init
<1>2. PoolInv /\ [Next]_vars => [H!Next]_(H!vars)
  BY HandoffStep DEF PoolInv
<1> QED
  BY PoolInvariance, <1>1, <1>2, PTL DEF Spec, H!Spec

(***************************************************************************)
(* So no connection is given to the pool a third time, even after it was   *)
(* stored over another and the dispatcher was long away.                   *)
(***************************************************************************)
THEOREM NeverThrice == Spec => []AtMostTwice
  BY HandoffRefined, HandoffTwice, PTL DEF AtMostTwice

(***************************************************************************)
(* And what is given to it has been accepted.                              *)
(***************************************************************************)
THEOREM OnlyAccepted == Spec => []H!TakesAccepted
  BY HandoffRefined, HandoffAccepted, PTL

(***************************************************************************)
(* Until the first connection that is stored while the dispatcher is away, *)
(* each is given to the pool exactly once.                                 *)
(***************************************************************************)
THEOREM ExactlyOnce == Spec => []ExactlyOnceUntilOverrun
  BY HandoffRefined, HandoffOnce, PTL DEF ExactlyOnceUntilOverrun

(***************************************************************************)
(* The pool is given no connection after a later one.                      *)
(***************************************************************************)
THEOREM InOrder == Spec => TakenInOrder
  BY HandoffRefined, HandoffOrder, PTL DEF TakenInOrder

(***************************************************************************)
(* No thread works on a slot, be it woken or not, before the number of a   *)
(* connection stands in it.                                                *)
(***************************************************************************)
THEOREM NumberFirst == Spec => []NoWorkBeforeConnection
<1>1. PoolInv => NoWorkBeforeConnection
  BY DEF PoolInv, NumberWritten, NoWorkBeforeConnection
<1> QED
  BY PoolInvariance, <1>1, PTL

(***************************************************************************)
(* No slot in use has a thread that waits for ever, or is about to, unless *)
(* one was filled while it was being closed.                               *)
(***************************************************************************)
THEOREM NoSlotLost == Spec => []SlotNotLost
<1>1. PoolInv => SlotNotLost
  BY DEF PoolInv, ByTurns, ThreadTakes, Given, SlotNotLost
<1> QED
  BY PoolInvariance, <1>1, PTL

(***************************************************************************)
(* A connection is received from by one thread, and by one before it is    *)
(* closed, however descriptors are used again, as long as the pool is      *)
(* clean.                                                                  *)
(***************************************************************************)
THEOREM OneThread == Spec => []OneThreadPerConnection
<1>1. PoolInv => OneThreadPerConnection
  <2> SUFFICES ASSUME PoolInv, Clean
               PROVE  /\ \A c \in Conn : Cardinality(got[c]) <= 1
                      /\ \A c \in (1..accepted) \ open : got[c] # {}
    BY DEF OneThreadPerConnection
  <2>1. GotByOne /\ accepted \in 0..MaxConn
    BY Record DEF PoolInv, Apart, HeldApart
  <2>2. \A c \in Conn : Cardinality(got[c]) <= 1
    BY <2>1, FS_EmptySet, FS_Singleton DEF GotByOne
  <2>3. \A c \in (1..accepted) \ open : got[c] # {}
    BY <2>1, MaxConnAssumption DEF GotByOne, Conn
  <2> QED
    BY <2>2, <2>3
<1> QED
  BY PoolInvariance, <1>1, PTL

(***************************************************************************)
(* max_descriptor counts the open connections, but for those about to be   *)
(* closed, as long as the pool is clean.                                   *)
(***************************************************************************)
THEOREM CountedRight == Spec => []DescriptorsCounted
<1>1. PoolInv => DescriptorsCounted
  BY DEF PoolInv, Apart, HeldApart, CountHolds, Uncounted, DescriptorsCounted
<1> QED
  BY PoolInvariance, <1>1, PTL

(***************************************************************************)
(* The number in a slot is not replaced under the thread that works with   *)
(* it, unless a slot was filled while it was being closed.                 *)
(***************************************************************************)
THEOREM StableDescriptor == Spec => DescriptorStable
<1> DEFINE Kept == \A s \in Slot :
                     conn_sd'[s] # conn_sd[s] =>
                       crossed \/ wpc[s] \in {"check", "waiting", "signal"}
<1>1. PoolInv /\ [Next]_vars => [Kept]_vars
  <2> SUFFICES ASSUME PoolInv, Next
               PROVE  Kept
    OBVIOUS
  <2> USE DEF slots
  <2>1. TypeOK /\ ByTurns
    BY DEF PoolInv
  <2>2. CASE SetConn
    <3> SUFFICES ASSUME ~crossed
                 PROVE  wpc[nE] \in {"check", "waiting", "signal"}
      BY <2>1, <2>2 DEF SetConn, TypeOK
    <3>1. ~Given(nE)
      BY <2>1, <2>2 DEF SetConn, ByTurns, MarkedLast, Given
    <3> QED
      BY <2>1, <2>2, <3>1
      DEF SetConn, ByTurns, ThreadLeaves, TypeOK, WorkerSteps, AtWork, Closing
  <2>3. CASE Accept \/ Store \/ Signal \/ Park \/ Take \/ Scan \/ AwaitFree
    BY <2>3 DEF Accept, Store, Signal, Park, Take, Scan, AwaitFree
  <2>4. CASE SetMsg \/ SetUsed \/ Notify
    BY <2>4 DEF SetMsg, SetUsed, Notify
  <2>5. ASSUME NEW s \in Slot, WorkerStep(s) \/ Receive(s)
        PROVE  Kept
    BY <2>5
    DEF WorkerStep, WaitForConnection, Receive, Serve, ServeAbsent, CloseAbsent,
        SignalAbsent, ClearMsg, HandleTimer, FreeSlot, ResetMsg, Uncount, Shut,
        SignalFree
  <2> QED
    BY <2>2, <2>3, <2>4, <2>5 DEF Next, DispatcherStep
<1> QED
  BY PoolInvariance, <1>1, PTL DEF Spec, DescriptorStable

=============================================================================

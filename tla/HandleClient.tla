---------------------------- MODULE HandleClient ----------------------------
(***************************************************************************)
(* The loop of handle_client for one thread of a pool, over all the        *)
(* connections it is given: module KeepAlive says how long it keeps a      *)
(* client, module RequestMemory what it allocates and frees, and here is   *)
(* what it reads.  receive_request puts what comes into one of a ring of   *)
(* NumMsg message buffers, the next one for each receive, from its first   *)
(* byte on, and takes the request for complete when the names of three     *)
(* headers stand anywhere in the buffer.  A buffer is cleared when what    *)
(* lay in it has been answered, and not when nothing has been received.    *)
(*                                                                         *)
(* A request consists of Parts parts, each in its place in the buffer,     *)
(* and a part is known by the connection it came from; all clients put     *)
(* their headers in the same order.  A client sends its next request when  *)
(* it has its response; its requests are shorter than a buffer.  Errors of *)
(* recv() that end the process, and the dispatcher (module ThreadPool),    *)
(* are left out.                                                           *)
(***************************************************************************)
EXTENDS RequestMemory

CONSTANTS
  TimerStart,     \* 5 in the code
  RequestStart,   \* 1000 in the code
  NumMsg,         \* 5 in the code
  Parts           \* bound: parts of a request that arrive one by one

VARIABLES
  slot_step, timer, quota, served, idle, paused, cut,   \* of KeepAlive
  idx,         \* the buffer of this receive
  message,     \* td->message: whose each part is, 0 if it is empty
  received,    \* of receive_request: what it has read
  retry,       \* of receive_request: the interrupts it still takes
  outcome,     \* what it returns, "none" as long as it reads
  closed,      \* who has closed the connection: "none", "client" or "thread"
  left         \* history: the connections of which a message was left

slot == <<slot_step, timer, quota, served, idle, paused, cut>>
receive == <<idx, received, retry, outcome>>
clientVars == <<vars, slot, message, receive, closed, left>>

K == INSTANCE KeepAlive WITH step <- slot_step, request <- quota

Buffer == 0..(NumMsg - 1)
Part == 1..Parts
Empty == [k \in Part |-> 0]

ASSUME ClientAssumption ==
  /\ K!StartAssumption
  /\ NumMsg \in Nat \ {0}
  /\ Parts \in Nat \ {0}

ClientTypeOK ==
  /\ TypeOK
  /\ K!TypeOK
  /\ idx \in Buffer
  /\ message \in [Buffer -> [Part -> 0..MaxConn]]
  /\ received \in 0..Parts
  /\ retry \in 0..2
  /\ outcome \in {"none", "REQUEST_RECEIVED", "EMPTY_MESSAGE"}
  /\ closed \in {"none", "client", "thread"}
  /\ left \subseteq 1..MaxConn

ClientInit ==
  /\ Init
  /\ K!Init
  /\ idx = 0
  /\ message = [b \in Buffer |-> Empty]
  /\ received = 0
  /\ retry = 2
  /\ outcome = "none"
  /\ closed = "none"
  /\ left = {}

-----------------------------------------------------------------------------
(* receive_request.                                                        *)

\* Each receive takes the next buffer.
BeginReceive ==
  /\ idx' = (idx + 1) % NumMsg
  /\ received' = 0
  /\ retry' = 2
  /\ outcome' = "none"

Receiving == step = "recv" /\ outcome = "none"

Complete(text) == \A k \in Part : text[k] # 0

\* recv() gives some of the request.
ReceivePart ==
  /\ Receiving
  /\ closed = "none"
  /\ \E v \in 1..(Parts - received) :
       /\ received' = received + v
       /\ message' =
            [message EXCEPT ![idx] =
               [k \in Part |-> IF k \in received + 1 .. received + v THEN conns ELSE @[k]]]
  /\ outcome' = IF Complete(message'[idx]) THEN "REQUEST_RECEIVED" ELSE "none"
  /\ UNCHANGED <<vars, slot, idx, retry, closed, left>>

\* recv() gives 0, for the client has closed; but the buffer is looked at first.
ReceiveEnd ==
  /\ Receiving
  /\ closed # "thread"
  /\ closed' = "client"
  /\ outcome' =
       IF Complete(message[idx]) THEN "REQUEST_RECEIVED" ELSE "EMPTY_MESSAGE"
  /\ UNCHANGED <<vars, slot, idx, received, retry, message, left>>

\* A signal interrupts recv(): it is called once more, and no more than that.
ReceiveInterrupted ==
  /\ Receiving
  /\ retry' = retry - 1
  /\ outcome' = IF retry' = 0 THEN "EMPTY_MESSAGE" ELSE "none"
  /\ UNCHANGED <<vars, slot, idx, received, message, closed, left>>

\* ECONNRESET, or EBADF of a connection the thread itself has closed.
ReceiveReset ==
  /\ Receiving
  /\ closed' = IF closed = "thread" THEN closed ELSE "client"
  /\ outcome' = "EMPTY_MESSAGE"
  /\ UNCHANGED <<vars, slot, idx, received, retry, message, left>>

-----------------------------------------------------------------------------
(* handle_client.                                                          *)

\* wait_for_connection returns with a client.
NewClient ==
  /\ K!Assign
  /\ Connect
  /\ BeginReceive
  /\ closed' = "none"
  /\ UNCHANGED <<message, left>>

\* Nothing was received, or the quota is used up, whatever was received: the
\* buffer stays as it is.
LetGo ==
  /\ outcome # "none"
  /\ \/ K!Refuse
     \/ outcome = "EMPTY_MESSAGE" /\ quota # 0 /\ K!Leave
  /\ ReceiveNone
  /\ left' = left \cup {conns}
  /\ outcome' = "none"
  /\ UNCHANGED <<message, idx, received, retry, closed>>

Parse ==
  /\ outcome = "REQUEST_RECEIVED"
  /\ K!Receive
  /\ ParseImage \/ ParseOther
  /\ outcome' = "none"
  /\ UNCHANGED <<message, idx, received, retry, closed, left>>

LookUp ==
  /\ MakeImage
  /\ UNCHANGED <<slot, message, receive, closed, left>>

\* Mutant of Reply: the buffer is not cleared.
ReplyOnly ==
  /\ K!Answer
  /\ Respond
  /\ \/ parsed \in images /\ closed' = "thread"
     \/ UNCHANGED closed
  /\ UNCHANGED <<message, receive, left>>

\* The response, of whatever kind; an image that is missing closes the
\* connection, and the loop goes on with it.
Reply ==
  /\ K!Answer
  /\ Respond
  /\ message' = [message EXCEPT ![idx] = Empty]
  /\ \/ parsed \in images /\ closed' = "thread"
     \/ UNCHANGED closed
  /\ UNCHANGED <<receive, left>>

\* The client has gone while the image was sent.
ReplyGone ==
  /\ K!Leave
  /\ RespondGone
  /\ message' = [message EXCEPT ![idx] = Empty]
  /\ UNCHANGED <<receive, closed, left>>

\* handle_timer: there is something to read, or the connection was closed ...
NextRequest ==
  /\ K!Renew \/ K!Ready
  /\ slot_step' = "recv"
  /\ TimerReady
  /\ BeginReceive
  /\ UNCHANGED <<message, closed, left>>

\* ... a second goes by ...
Wait ==
  /\ closed = "none"
  /\ K!Tick
  /\ UNCHANGED <<vars, message, receive, closed, left>>

\* ... or the timer ends it.
EndByTimer ==
  /\ K!Ready \/ (closed = "none" /\ K!Expire)
  /\ slot_step' = "idle"
  /\ TimerOut
  /\ UNCHANGED <<message, receive, closed, left>>

Free ==
  /\ DestroyRequest \/ DestroyImage
  /\ UNCHANGED <<slot, message, receive, closed, left>>

ThreadStep ==
  \/ ReceivePart \/ ReceiveEnd \/ ReceiveInterrupted \/ ReceiveReset
  \/ LetGo \/ Parse \/ LookUp \/ Reply \/ ReplyGone
  \/ NextRequest \/ Wait \/ EndByTimer \/ Free

ClientNext == NewClient \/ ThreadStep

ClientSpec == ClientInit /\ [][ClientNext]_clientVars

(***************************************************************************)
(* The thread is runnable; poll() and sleep() come back within a second,   *)
(* sends end, and a client that is read from sends, or closes, in time.    *)
(***************************************************************************)
FairClientSpec == ClientSpec /\ WF_clientVars(ThreadStep)

-----------------------------------------------------------------------------
(***************************************************************************)
(* What is parsed, looked up and answered as a client's request comes from *)
(* that client, but for parts of connections that ended without an answer  *)
(* to what they had sent last: an answered request never comes back.  A    *)
(* client that sent nothing is answered only if it found the whole of a    *)
(* request in its buffer, left by one such connection or several.          *)
(***************************************************************************)
OwnRequest ==
  step \in {"image", "respond"} =>
    \A k \in Part :
      message[idx][k] \in left \cup (IF k <= received THEN {conns} ELSE {})

(***************************************************************************)
(* A client that always has its next request ready is let go after as many *)
(* answers as the timer counts, and 5 of the 10 that responses advertise.  *)
(***************************************************************************)
PromptClientCut == K!PromptClientCut

(***************************************************************************)
(* The loop keeps the lease: no client is answered beyond its quota, nor   *)
(* waited for longer than the timer allows since it was last answered.     *)
(***************************************************************************)
LeaseKept == K!LeaseKept

(***************************************************************************)
(* A client loses its slot in the end, if it is not silent for ever while  *)
(* it is read from; unless the thread misuses its memory.                  *)
(***************************************************************************)
SlotComesBack == slot_step = "recv" ~> (slot_step = "idle" \/ fault # "none")

=============================================================================

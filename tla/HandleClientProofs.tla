------------------------- MODULE HandleClientProofs -------------------------
(***************************************************************************)
(* Proofs about HandleClient: seen from its slot, the loop is KeepAlive,   *)
(* seen from its memory it is RequestMemory, whatever the buffers hold; so *)
(* what is proved of these two holds of the loop, for any timer, quota,    *)
(* ring of buffers and number of connections.                              *)
(***************************************************************************)
EXTENDS HandleClient, TLAPS

-----------------------------------------------------------------------------
(* The memory of a thread: what is allocated for each request at each      *)
(* step, and which request the thread holds when it comes to free it.      *)

\* What is allocated for the request parsed last.
Held ==
  IF parsed \in last
    THEN IF step = "free_image" THEN ImagePart ELSE {}
    ELSE IF step = "image"
      THEN (RequestPart \ {"cache_name"}) \cup {"ext"}
      ELSE Memory(parsed)

\* What is allocated for each request: for the earlier ones all or nothing.
MemoryExact ==
  \A n \in Request :
    live[n] = IF n = parsed THEN Held
              ELSE IF n \in (1..parsed) \ last THEN Memory(n) ELSE {}

\* The pointers are those of the request parsed last, and of its image.
Pointers ==
  /\ request = parsed
  /\ parsed \in images /\ step # "image" => image_info = parsed

\* When the last request has been freed, and when there is none yet.
FreedWhen ==
  /\ step = "idle" \/ quiet => parsed = 0 \/ parsed \in last
  /\ step \in {"recv", "image", "respond", "timer", "free"} /\ ~quiet => parsed \notin last
  /\ step = "free_image" => parsed \in last
  /\ step \in {"image", "respond", "timer", "free_image"} => ~quiet
  /\ ~quiet => parsed # 0
  /\ step = "image" => parsed \in images

\* Only the requests for images are ever freed.
FreedImages == last \subseteq images

\* A fault is the end.
FaultLast == fault # "none" => step = "fault"

MemInv ==
  /\ TypeOK
  /\ MemoryExact
  /\ Pointers
  /\ FreedWhen
  /\ FreedImages
  /\ FaultLast
  /\ FaultsNamed

(***************************************************************************)
(* A thread that has had no connection satisfies the invariant.            *)
(***************************************************************************)
LEMMA InitInv == Init => MemInv
<1> SUFFICES ASSUME Init PROVE MemInv
  OBVIOUS
<1> USE MemoryAssumption DEF Init
<1>1. TypeOK
  <2>1. quiet \in BOOLEAN
    OBVIOUS
  <2>2. live \in [Request -> SUBSET (RequestPart \cup ImagePart)]
    OBVIOUS
  <2> QED
    BY <2>1, <2>2 DEF TypeOK, Steps
<1>2. MemoryExact
  BY DEF MemoryExact, Request
<1>3. Pointers /\ FreedWhen /\ FreedImages /\ FaultLast /\ FaultsNamed
  BY DEF Pointers, FreedWhen, FreedImages, FaultLast, FaultsNamed
<1> QED
  BY <1>1, <1>2, <1>3 DEF MemInv

(***************************************************************************)
(* The steps that allocate and free nothing keep the invariant.            *)
(***************************************************************************)
LEMMA QuietSteps ==
  MemInv /\ (Connect \/ ReceiveNone \/ Respond \/ RespondGone \/ TimerReady \/ TimerOut)
    => MemInv'
<1> SUFFICES ASSUME MemInv,
                    Connect \/ ReceiveNone \/ Respond \/ RespondGone \/ TimerReady \/ TimerOut
             PROVE  MemInv'
  OBVIOUS
<1> USE MemoryAssumption
    DEF MemInv, TypeOK, Steps, MemoryExact, Held, Memory, Pointers, FreedWhen,
        FreedImages, FaultLast, FaultsNamed, heap, history
<1>1. CASE Connect
  BY <1>1 DEF Connect
<1>2. CASE ReceiveNone
  BY <1>2 DEF ReceiveNone
<1>3. CASE Respond
  BY <1>3 DEF Respond
<1>4. CASE RespondGone
  BY <1>4 DEF RespondGone
<1>5. CASE TimerReady
  BY <1>5 DEF TimerReady
<1>6. CASE TimerOut
  BY <1>6 DEF TimerOut
<1> QED
  BY <1>1, <1>2, <1>3, <1>4, <1>5, <1>6

(***************************************************************************)
(* A request that is parsed takes the place of one that was freed with its *)
(* connection, or leaves that behind whole.                                *)
(***************************************************************************)
LEMMA ParseSteps == MemInv /\ (ParseImage \/ ParseOther) => MemInv'
<1> SUFFICES ASSUME MemInv, ParseImage \/ ParseOther PROVE MemInv'
  OBVIOUS
<1> USE MemoryAssumption DEF MemInv
<1>1. /\ step = "recv" /\ parsed \in Nat /\ parsed + 1 \in Request
      /\ parsed' = parsed + 1 /\ request' = parsed + 1
      /\ image_info' = image_info /\ last' = last /\ fault' = fault /\ conns' = conns
      /\ quiet' = FALSE /\ status_r' = "REQUEST_RECEIVED"
  BY DEF TypeOK, ParseImage, ParseOther, Request
<1>2. parsed + 1 \notin last /\ parsed + 1 \notin images
  BY <1>1 DEF TypeOK
<1>3. \/ /\ step' = "image" /\ images' = images \cup {parsed + 1}
         /\ live' = [live EXCEPT ![parsed + 1] =
                       (RequestPart \ {"cache_name"}) \cup {"ext"}]
      \/ /\ step' = "respond" /\ images' = images
         /\ live' = [live EXCEPT ![parsed + 1] = {"request"}]
  BY DEF ParseImage, ParseOther
<1>4. TypeOK'
  <2>1. quiet' \in BOOLEAN
    BY <1>1
  <2>2. live' \in [Request -> SUBSET (RequestPart \cup ImagePart)]
    BY <1>1, <1>3 DEF TypeOK, RequestPart, ImagePart
  <2>3. images' \subseteq images \cup {parsed + 1}
    BY <1>3
  <2>4. 1..parsed \subseteq 1..(parsed') /\ parsed + 1 \in 1..(parsed')
    BY <1>1
  <2>5. images' \subseteq 1..(parsed') /\ last' \subseteq 1..(parsed')
    BY <1>1, <2>3, <2>4 DEF TypeOK
  <2> QED
    BY <1>1, <1>3, <2>1, <2>2, <2>5 DEF TypeOK, Steps, Request
<1>5. MemoryExact'
  <2> SUFFICES ASSUME NEW n \in Request
               PROVE  live'[n] = IF n = parsed' THEN Held'
                                 ELSE IF n \in (1..(parsed')) \ last' THEN Memory(n)' ELSE {}
    BY DEF MemoryExact
  <2>1. CASE n = parsed + 1
    BY <2>1, <1>1, <1>2, <1>3 DEF TypeOK, Held, Memory
  <2>2. CASE n = parsed
    <3>1. live'[n] = Held
      BY <2>2, <1>1, <1>3 DEF TypeOK, MemoryExact
    <3>2. Held = IF parsed \in last THEN {} ELSE Memory(parsed)
      BY <1>1 DEF Held
    <3>3. Memory(n)' = Memory(n)
      BY <2>2, <1>1, <1>3 DEF Memory
    <3>4. n \in 1..(parsed') /\ n # parsed'
      BY <2>2, <1>1 DEF Request
    <3> QED
      BY <3>1, <3>2, <3>3, <3>4, <2>2, <1>1
  <2>3. CASE n # parsed /\ n # parsed + 1
    <3>1. live'[n] = live[n]
      BY <2>3, <1>1, <1>3 DEF TypeOK
    <3>2. Memory(n)' = Memory(n)
      BY <2>3, <1>1, <1>3 DEF Memory
    <3>3. n \in 1..(parsed') <=> n \in 1..parsed
      BY <2>3, <1>1 DEF Request
    <3> QED
      BY <3>1, <3>2, <3>3, <2>3, <1>1 DEF MemoryExact
  <2> QED
    BY <2>1, <2>2, <2>3
<1>6. Pointers' /\ FreedWhen' /\ FreedImages' /\ FaultLast' /\ FaultsNamed'
  BY <1>1, <1>2, <1>3
     DEF Pointers, FreedWhen, FreedImages, FaultLast, FaultsNamed, TypeOK
<1> QED
  BY <1>4, <1>5, <1>6

(***************************************************************************)
(* The image completes what is allocated for its request.                  *)
(***************************************************************************)
LEMMA MakeStep == MemInv /\ MakeImage => MemInv'
<1> SUFFICES ASSUME MemInv, MakeImage PROVE MemInv'
  OBVIOUS
<1> USE MemoryAssumption DEF MemInv, MakeImage, history
<1>1. request = parsed /\ parsed \in Request /\ parsed \in images /\ parsed \notin last
  BY DEF Pointers, FreedWhen, TypeOK, Request
<1>2. live[parsed] = (RequestPart \ {"cache_name"}) \cup {"ext"}
  BY <1>1 DEF MemoryExact, Held
<1>3. live' = [live EXCEPT ![parsed] = RequestPart \cup ImagePart]
  BY <1>1, <1>2 DEF TypeOK, RequestPart, ImagePart
<1>4. TypeOK'
  <2>1. live' \in [Request -> SUBSET (RequestPart \cup ImagePart)]
    BY <1>3 DEF TypeOK
  <2>2. quiet' \in BOOLEAN
    BY DEF TypeOK
  <2> QED
    BY <2>1, <2>2, <1>1 DEF TypeOK, Steps, Request
<1>5. MemoryExact'
  BY <1>1, <1>3 DEF MemoryExact, Held, Memory, TypeOK
<1>6. Pointers' /\ FreedWhen' /\ FreedImages' /\ FaultLast' /\ FaultsNamed'
  BY <1>1 DEF Pointers, FreedWhen, FreedImages, FaultLast, FaultsNamed
<1> QED
  BY <1>4, <1>5, <1>6

(***************************************************************************)
(* The fourth case of destroy_request is that of an image that was not     *)
(* freed yet; the others are those that FaultsNamed names.                 *)
(***************************************************************************)
LEMMA FreeStep == MemInv /\ DestroyRequest => MemInv'
<1> SUFFICES ASSUME MemInv, DestroyRequest PROVE MemInv'
  OBVIOUS
<1> USE MemoryAssumption DEF MemInv
<1>1. /\ step = "free" /\ request = parsed /\ status_r # "MESSAGE_NOT_CORRECT"
      /\ parsed = 0 \/ parsed \in Request
  BY DEF DestroyRequest, Pointers, TypeOK, Request
<1>2. parsed # 0 => live[parsed] = IF parsed \in last THEN {} ELSE Memory(parsed)
  BY <1>1 DEF MemoryExact, Held
<1>3. parsed # 0 => (Freed(request) <=> parsed \in last)
  BY <1>1, <1>2 DEF Freed, Memory, RequestPart
<1>4. CASE \E how \in {"null", "literal", "again"} : Fault(how)
  <2>1. FaultsNamed' /\ FaultLast'
    BY <1>1, <1>3, <1>4
       DEF DestroyRequest, Fault, Literal, FaultsNamed, FaultLast, FreedWhen, heap, history
  <2>2. Held' = Held
    BY <1>1, <1>4 DEF Fault, Held, Memory, history
  <2>3. MemoryExact'
    BY <1>4, <2>2 DEF Fault, MemoryExact, Memory, heap, history
  <2>4. TypeOK' /\ Pointers' /\ FreedWhen' /\ FreedImages'
    BY <1>1, <1>4
       DEF Fault, TypeOK, Steps, Pointers, FreedWhen, FreedImages, heap, history
  <2> QED
    BY <2>1, <2>3, <2>4
<1>5. CASE /\ request # 0 /\ ~Freed(request) /\ ~Literal(request)
           /\ live' = [live EXCEPT ![request] = @ \ RequestPart]
           /\ last' = last \cup {request}
           /\ step' = "free_image"
           /\ UNCHANGED <<request, image_info, status_r, conns, parsed, images, quiet, fault>>
  <2>1. parsed \in Request /\ parsed \notin last /\ parsed \in images /\ ~quiet
    BY <1>1, <1>3, <1>5 DEF Literal, FreedWhen
  <2>2. live' = [live EXCEPT ![parsed] = ImagePart]
    BY <1>1, <1>2, <1>5, <2>1 DEF Memory, RequestPart, ImagePart
  <2>3. TypeOK'
    <3>1. live' \in [Request -> SUBSET (RequestPart \cup ImagePart)]
      BY <2>2 DEF TypeOK
    <3>2. quiet' \in BOOLEAN
      BY <1>5 DEF TypeOK
    <3>3. last' \subseteq 1..(parsed')
      BY <1>1, <1>5, <2>1 DEF TypeOK, Request
    <3> QED
      BY <1>5, <3>1, <3>2, <3>3 DEF TypeOK, Steps
  <2>4. MemoryExact'
    BY <1>1, <1>5, <2>1, <2>2 DEF MemoryExact, Held, Memory, TypeOK
  <2>5. Pointers' /\ FreedWhen' /\ FreedImages' /\ FaultLast' /\ FaultsNamed'
    BY <1>1, <1>5, <2>1 DEF Pointers, FreedWhen, FreedImages, FaultLast, FaultsNamed, TypeOK, Request
  <2> QED
    BY <2>3, <2>4, <2>5
<1> QED
  BY <1>4, <1>5 DEF DestroyRequest

(***************************************************************************)
(* destroy_image is given the image of the request that was freed.         *)
(***************************************************************************)
LEMMA FreeImageStep == MemInv /\ DestroyImage => MemInv'
<1> SUFFICES ASSUME MemInv, DestroyImage PROVE MemInv'
  OBVIOUS
<1> USE MemoryAssumption DEF MemInv
<1>1. /\ step = "free_image" /\ parsed \in last /\ parsed \in images /\ ~quiet
      /\ parsed \in Request /\ image_info = parsed
  BY DEF DestroyImage, FreedWhen, FreedImages, Pointers, TypeOK, Request
<1>2. live[parsed] = ImagePart
  BY <1>1 DEF MemoryExact, Held
<1>3. /\ live' = [live EXCEPT ![parsed] = {}] /\ step' = "idle"
      /\ UNCHANGED <<request, image_info, status_r, conns, parsed, images, last, quiet, fault>>
  BY <1>1, <1>2 DEF DestroyImage, ImagePart, TypeOK, Request, history
<1>4. TypeOK'
  <2>1. live' \in [Request -> SUBSET (RequestPart \cup ImagePart)]
    BY <1>3 DEF TypeOK
  <2>2. quiet' \in BOOLEAN
    BY <1>3 DEF TypeOK
  <2> QED
    BY <1>3, <2>1, <2>2 DEF TypeOK, Steps
<1>5. MemoryExact'
  BY <1>1, <1>3 DEF MemoryExact, Held, Memory, TypeOK
<1>6. Pointers' /\ FreedWhen' /\ FreedImages' /\ FaultLast' /\ FaultsNamed'
  BY <1>1, <1>3 DEF Pointers, FreedWhen, FreedImages, FaultLast, FaultsNamed
<1> QED
  BY <1>4, <1>5, <1>6

(***************************************************************************)
(* A step that changes nothing.                                            *)
(***************************************************************************)
LEMMA StutterInv == MemInv /\ UNCHANGED vars => MemInv'
BY DEF MemInv, TypeOK, MemoryExact, Held, Memory, Pointers, FreedWhen, FreedImages,
       FaultLast, FaultsNamed, vars, heap, history

(***************************************************************************)
(* The invariant holds throughout.                                         *)
(***************************************************************************)
THEOREM Invariance == Spec => []MemInv
<1>1. MemInv /\ [Next]_vars => MemInv'
  BY QuietSteps, ParseSteps, MakeStep, FreeStep, FreeImageStep, StutterInv DEF Next
<1> QED
  BY InitInv, <1>1, PTL DEF Spec

(***************************************************************************)
(* Memory is misused in the ways that are named, and no other.             *)
(***************************************************************************)
THEOREM OnlyNamedFaults == Spec => []FaultsNamed
BY Invariance, PTL DEF MemInv

(***************************************************************************)
(* Between connections exactly the requests before the last of each        *)
(* connection are left.                                                    *)
(***************************************************************************)
THEOREM LeftExactly == Spec => []LeftBehind
<1>1. MemInv => LeftBehind
  BY DEF MemInv, LeftBehind, MemoryExact, Held, FreedWhen, FreedImages, Request
<1> QED
  BY Invariance, <1>1, PTL

(***************************************************************************)
(* What a request uses is there.                                           *)
(***************************************************************************)
THEOREM NoUseAfterFree == Spec => []UsedIsLive
<1>1. MemInv => UsedIsLive
  <2> SUFFICES ASSUME MemInv PROVE UsedIsLive
    OBVIOUS
  <2> USE DEF MemInv, FreedWhen, Pointers
  <2>1. CASE step = "image"
    BY <2>1 DEF UsedIsLive, MemoryExact, Held, TypeOK, Request, RequestPart
  <2>2. CASE step = "respond"
    <3>1. parsed \in Request /\ parsed \notin last
      BY <2>2 DEF TypeOK, Request
    <3>2. live[request] = Memory(parsed)
      BY <2>2, <3>1 DEF MemoryExact, Held
    <3> QED
      BY <2>2, <3>1, <3>2 DEF UsedIsLive, Memory, RequestPart
  <2> QED
    BY <2>1, <2>2 DEF UsedIsLive
<1> QED
  BY Invariance, <1>1, PTL

-----------------------------------------------------------------------------
(* The slot of a thread, for every start of the timer and every quota, so  *)
(* for the 5 and the 1000 of the code.  The invariants are inductive       *)
(* together with two facts about the moments between them: a thread that   *)
(* answers has waited no time since it received, and one that receives has *)
(* something left on the timer.                                            *)

FreshAnswer == slot_step = "answer" => idle = 0

TimerLeft == slot_step = "recv" => timer # 0

SlotInv ==
  /\ K!TypeOK
  /\ K!QuotaHeld
  /\ K!IdleBounded
  /\ K!PromptClientCut
  /\ FreshAnswer
  /\ TimerLeft

(***************************************************************************)
(* A slot that has never been used satisfies the invariant.                *)
(***************************************************************************)
LEMMA SlotInit == K!Init => SlotInv
<1> SUFFICES ASSUME K!Init PROVE SlotInv
  OBVIOUS
<1> USE ClientAssumption DEF K!StartAssumption
<1>1. K!TypeOK
  <2>1. paused \in BOOLEAN /\ cut \in BOOLEAN
    BY DEF K!Init
  <2>2. timer \in 0..TimerStart /\ quota \in 0..RequestStart
    BY DEF K!Init
  <2>3. served \in Nat /\ idle \in Nat /\ slot_step \in {"idle", "recv", "answer", "poll"}
    BY DEF K!Init
  <2> QED
    BY <2>1, <2>2, <2>3 DEF K!TypeOK
<1>2. K!QuotaHeld /\ K!IdleBounded
  BY DEF K!Init, K!QuotaHeld, K!IdleBounded
<1>3. K!PromptClientCut /\ FreshAnswer /\ TimerLeft
  BY DEF K!Init, K!PromptClientCut, FreshAnswer, TimerLeft
<1> QED
  BY <1>1, <1>2, <1>3 DEF SlotInv

(***************************************************************************)
(* Every step of the thread and of its client preserves it.                *)
(***************************************************************************)
LEMMA SlotNext ==
  SlotInv /\ [K!Next]_(K!vars) => SlotInv'
<1> SUFFICES ASSUME SlotInv, [K!Next]_(K!vars)
             PROVE  SlotInv'
  OBVIOUS
<1> USE ClientAssumption DEF K!StartAssumption
<1>1. CASE K!Assign
  <2>1. K!TypeOK'
    <3>1. paused' \in BOOLEAN /\ cut' \in BOOLEAN
      BY <1>1 DEF K!Assign
    <3>2. timer' \in 0..TimerStart /\ quota' \in 0..RequestStart
      BY <1>1 DEF K!Assign
    <3>3. served' \in Nat /\ idle' \in Nat /\ slot_step' = "recv"
      BY <1>1 DEF K!Assign
    <3> QED
      BY <3>1, <3>2, <3>3 DEF K!TypeOK
  <2>2. K!QuotaHeld' /\ K!IdleBounded'
    BY <1>1 DEF K!Assign, K!QuotaHeld, K!IdleBounded
  <2>3. K!PromptClientCut' /\ FreshAnswer' /\ TimerLeft'
    BY <1>1 DEF K!Assign, K!PromptClientCut, FreshAnswer, TimerLeft
  <2> QED
    BY <2>1, <2>2, <2>3 DEF SlotInv
<1>2. CASE K!Receive
  <2>1. K!TypeOK'
    BY <1>2 DEF SlotInv, K!TypeOK, K!Receive
  <2>2. K!QuotaHeld' /\ K!IdleBounded'
    BY <1>2 DEF SlotInv, K!TypeOK, K!Receive, K!QuotaHeld, K!IdleBounded
  <2>3. K!PromptClientCut' /\ FreshAnswer' /\ TimerLeft'
    BY <1>2
    DEF SlotInv, K!TypeOK, K!Receive, K!PromptClientCut, FreshAnswer, TimerLeft
  <2> QED
    BY <2>1, <2>2, <2>3 DEF SlotInv
<1>3. CASE K!Refuse \/ K!Leave
  <2>1. K!TypeOK'
    BY <1>3 DEF SlotInv, K!TypeOK, K!Refuse, K!Leave, K!Close
  <2>2. K!QuotaHeld' /\ K!IdleBounded'
    BY <1>3 DEF SlotInv, K!TypeOK, K!Refuse, K!Leave, K!Close, K!QuotaHeld, K!IdleBounded
  <2>3. K!PromptClientCut' /\ FreshAnswer' /\ TimerLeft'
    BY <1>3
    DEF SlotInv, K!Refuse, K!Leave, K!Close, K!PromptClientCut, FreshAnswer, TimerLeft
  <2> QED
    BY <2>1, <2>2, <2>3 DEF SlotInv
<1>4. CASE K!Answer
  <2>1. K!TypeOK'
    BY <1>4 DEF SlotInv, K!TypeOK, K!Answer
  <2>2. K!QuotaHeld' /\ K!IdleBounded'
    BY <1>4 DEF SlotInv, K!TypeOK, K!Answer, K!QuotaHeld, K!IdleBounded, FreshAnswer
  <2>3. K!PromptClientCut' /\ FreshAnswer' /\ TimerLeft'
    BY <1>4 DEF SlotInv, K!Answer, K!PromptClientCut, FreshAnswer, TimerLeft
  <2> QED
    BY <2>1, <2>2, <2>3 DEF SlotInv
<1>5. CASE K!Renew
  <2>1. K!TypeOK'
    BY <1>5 DEF SlotInv, K!TypeOK, K!QuotaHeld, K!Renew
  <2>2. K!QuotaHeld' /\ K!IdleBounded'
    BY <1>5 DEF SlotInv, K!TypeOK, K!Renew, K!QuotaHeld, K!IdleBounded
  <2>3. K!PromptClientCut' /\ FreshAnswer' /\ TimerLeft'
    BY <1>5 DEF SlotInv, K!TypeOK, K!Renew, K!PromptClientCut, FreshAnswer, TimerLeft
  <2> QED
    BY <2>1, <2>2, <2>3 DEF SlotInv
<1>6. CASE K!Ready
  <2>1. K!TypeOK'
    <3>1. cut' \in BOOLEAN
      BY <1>6 DEF SlotInv, K!TypeOK, K!Ready
    <3>2. timer' \in 0..TimerStart /\ quota' \in 0..RequestStart
      BY <1>6 DEF SlotInv, K!TypeOK, K!QuotaHeld, K!Ready, K!Close
    <3> QED
      BY <1>6, <3>1, <3>2 DEF SlotInv, K!TypeOK, K!Ready, K!Close
  <2>2. K!QuotaHeld' /\ K!IdleBounded'
    BY <1>6 DEF SlotInv, K!TypeOK, K!Ready, K!Close, K!QuotaHeld, K!IdleBounded
  <2>3. K!PromptClientCut' /\ FreshAnswer' /\ TimerLeft'
    BY <1>6
    DEF SlotInv, K!TypeOK, K!Ready, K!Close, K!PromptClientCut, FreshAnswer, TimerLeft
  <2> QED
    BY <2>1, <2>2, <2>3 DEF SlotInv
<1>7. CASE K!Tick
  <2>1. K!TypeOK'
    BY <1>7 DEF SlotInv, K!TypeOK, K!Tick
  <2>2. K!QuotaHeld' /\ K!IdleBounded'
    BY <1>7 DEF SlotInv, K!TypeOK, K!Tick, K!QuotaHeld, K!IdleBounded
  <2>3. K!PromptClientCut' /\ FreshAnswer' /\ TimerLeft'
    BY <1>7 DEF K!Tick, K!PromptClientCut, FreshAnswer, TimerLeft
  <2> QED
    BY <2>1, <2>2, <2>3 DEF SlotInv
<1>8. CASE K!Expire
  <2>1. K!TypeOK'
    BY <1>8 DEF SlotInv, K!TypeOK, K!Expire, K!Close
  <2>2. K!QuotaHeld' /\ K!IdleBounded'
    BY <1>8 DEF SlotInv, K!TypeOK, K!Expire, K!Close, K!QuotaHeld, K!IdleBounded
  <2>3. K!PromptClientCut' /\ FreshAnswer' /\ TimerLeft'
    BY <1>8 DEF SlotInv, K!Expire, K!Close, K!PromptClientCut, FreshAnswer, TimerLeft
  <2> QED
    BY <2>1, <2>2, <2>3 DEF SlotInv
<1>9. CASE UNCHANGED K!vars
  BY <1>9
  DEF SlotInv, K!TypeOK, K!QuotaHeld, K!IdleBounded, K!PromptClientCut, FreshAnswer,
      TimerLeft, K!vars
<1> QED
  BY <1>1, <1>2, <1>3, <1>4, <1>5, <1>6, <1>7, <1>8, <1>9 DEF K!Next, K!HandleTimer

(***************************************************************************)
(* The invariant holds in every state of every behaviour.                  *)
(***************************************************************************)
THEOREM SlotInvariance == K!Spec => []SlotInv
  BY SlotInit, SlotNext, PTL DEF K!Spec

(***************************************************************************)
(* Type correctness: the timer and the quota stay within their starts, and *)
(* neither goes below 0, where a test for == 0 would miss it.              *)
(***************************************************************************)
THEOREM SlotTypes == K!Spec => []K!TypeOK
<1>1. SlotInv => K!TypeOK
  BY DEF SlotInv
<1> QED
  BY SlotInvariance, <1>1, PTL

(***************************************************************************)
(* No client is let through more often than the quota says.                *)
(***************************************************************************)
THEOREM QuotaIsHeld == K!Spec => []K!QuotaHeld
<1>1. SlotInv => K!QuotaHeld
  BY DEF SlotInv
<1> QED
  BY SlotInvariance, <1>1, PTL

(***************************************************************************)
(* A silent client is closed within 2 * TimerStart + 1 seconds: eleven.    *)
(***************************************************************************)
THEOREM IdleIsBounded == K!Spec => []K!IdleBounded
<1>1. SlotInv => K!IdleBounded
  BY DEF SlotInv
<1> QED
  BY SlotInvariance, <1>1, PTL

(***************************************************************************)
(* A client that never pauses is given TimerStart answers at most: five.   *)
(***************************************************************************)
THEOREM PromptClientIsCut == K!Spec => []K!PromptClientCut
<1>1. SlotInv => K!PromptClientCut
  BY DEF SlotInv
<1> QED
  BY SlotInvariance, <1>1, PTL

(***************************************************************************)
(* handle_timer and the test of the quota keep the promise of Lease: each  *)
(* of their steps is one of its steps, or leaves its state as it is.       *)
(***************************************************************************)
THEOREM LeaseRefined == K!Spec => K!LeaseKept
<1> USE ClientAssumption DEF K!StartAssumption
<1>1. K!Init => K!L!Init
  BY DEF K!Init, K!L!Init
<1>2. SlotInv /\ [K!Next]_(K!vars) => [K!L!Next]_(K!L!vars)
  <2> SUFFICES ASSUME SlotInv, [K!Next]_(K!vars)
               PROVE  [K!L!Next]_(K!L!vars)
    OBVIOUS
  <2>1. CASE K!Assign
    <3>1. K!L!Grant
      BY <2>1 DEF K!Assign, K!L!Grant
    <3> QED
      BY <3>1 DEF K!L!Next
  <2>2. CASE K!Receive
    <3>1. K!L!Answer
      BY <2>2 DEF SlotInv, K!TypeOK, K!QuotaHeld, K!Receive, K!L!Answer
    <3> QED
      BY <3>1 DEF K!L!Next
  <2>3. CASE K!Refuse \/ K!Leave \/ K!Expire
    <3>1. K!L!GiveUp
      BY <2>3
      DEF SlotInv, K!TypeOK, K!IdleBounded, K!Refuse, K!Leave, K!Expire, K!Close, K!L!GiveUp
    <3> QED
      BY <3>1 DEF K!L!Next
  <2>4. CASE K!Ready
    <3>1. CASE timer = 1
      <4>1. K!L!GiveUp
        BY <2>4, <3>1 DEF SlotInv, K!TypeOK, K!IdleBounded, K!Ready, K!Close, K!L!GiveUp
      <4> QED
        BY <4>1 DEF K!L!Next
    <3>2. CASE timer # 1
      BY <2>4, <3>2 DEF K!Ready, K!L!vars
    <3> QED
      BY <3>1, <3>2
  <2>5. CASE K!Tick
    <3>1. K!L!Wait
      BY <2>5 DEF SlotInv, K!TypeOK, K!IdleBounded, K!Tick, K!L!Wait
    <3> QED
      BY <3>1 DEF K!L!Next
  <2>6. CASE K!Answer \/ K!Renew \/ UNCHANGED K!vars
    BY <2>6 DEF K!Answer, K!Renew, K!vars, K!L!vars
  <2> QED
    BY <2>1, <2>2, <2>3, <2>4, <2>5, <2>6 DEF K!Next, K!HandleTimer
<1> QED
  BY SlotInvariance, <1>1, <1>2, PTL DEF K!Spec, K!LeaseKept, K!L!Spec

-----------------------------------------------------------------------------
(* The loop.                                                               *)

(***************************************************************************)
(* Every step of the loop is a step of the memory, or leaves it.           *)
(***************************************************************************)
THEOREM MemoryRefined == ClientSpec => Spec
<1>1. ClientInit => Init
  BY DEF ClientInit
<1>2. [ClientNext]_clientVars => [Next]_vars
  <2> SUFFICES ASSUME [ClientNext]_clientVars
               PROVE  [Next]_vars
    OBVIOUS
  <2>1. CASE NewClient \/ LetGo \/ Parse \/ LookUp
    BY <2>1 DEF NewClient, LetGo, Parse, LookUp, Next
  <2>2. CASE Reply \/ ReplyGone \/ NextRequest \/ EndByTimer \/ Free
    BY <2>2 DEF Reply, ReplyGone, NextRequest, EndByTimer, Free, Next
  <2>3. CASE ReceivePart \/ ReceiveEnd \/ ReceiveInterrupted \/ ReceiveReset \/ Wait
    BY <2>3 DEF ReceivePart, ReceiveEnd, ReceiveInterrupted, ReceiveReset, Wait
  <2>4. CASE UNCHANGED clientVars
    BY <2>4 DEF clientVars
  <2> QED
    BY <2>1, <2>2, <2>3, <2>4 DEF ClientNext, ThreadStep
<1> QED
  BY <1>1, <1>2, PTL DEF ClientSpec, Spec

(***************************************************************************)
(* Every step of the loop is a step of the slot's timer and quota, or      *)
(* leaves them.                                                            *)
(***************************************************************************)
THEOREM SlotRefined == ClientSpec => K!Spec
<1>1. ClientInit => K!Init
  BY DEF ClientInit
<1>2. [ClientNext]_clientVars => [K!Next]_(K!vars)
  <2> SUFFICES ASSUME [ClientNext]_clientVars
               PROVE  [K!Next]_(K!vars)
    OBVIOUS
  <2>1. CASE NewClient \/ LetGo \/ Parse
    BY <2>1 DEF NewClient, LetGo, Parse, K!Next
  <2>2. CASE Reply \/ ReplyGone
    BY <2>2 DEF Reply, ReplyGone, K!Next
  <2>3. CASE NextRequest \/ EndByTimer \/ Wait
    BY <2>3 DEF NextRequest, EndByTimer, Wait, K!Next, K!HandleTimer
  <2>4. CASE ReceivePart \/ ReceiveEnd \/ ReceiveInterrupted \/ ReceiveReset
    BY <2>4
    DEF ReceivePart, ReceiveEnd, ReceiveInterrupted, ReceiveReset, slot, K!vars
  <2>5. CASE LookUp \/ Free \/ UNCHANGED clientVars
    BY <2>5 DEF LookUp, Free, clientVars, slot, K!vars
  <2> QED
    BY <2>1, <2>2, <2>3, <2>4, <2>5 DEF ClientNext, ThreadStep
<1> QED
  BY <1>1, <1>2, PTL DEF ClientSpec, K!Spec

(***************************************************************************)
(* The thread misuses its memory only in the cases named.                  *)
(***************************************************************************)
THEOREM ClientFaultsNamed == ClientSpec => []FaultsNamed
  BY MemoryRefined, OnlyNamedFaults, PTL

(***************************************************************************)
(* Of the memory of the requests a thread had before, it has lost what     *)
(* LeftBehind names, and freed the rest, on every connection.              *)
(***************************************************************************)
THEOREM ClientLeftBehind == ClientSpec => []LeftBehind
  BY MemoryRefined, LeftExactly, PTL

(***************************************************************************)
(* The request and the image that the loop reads are allocated, and are    *)
(* those of the request it answers.                                        *)
(***************************************************************************)
THEOREM ClientUsedIsLive == ClientSpec => []UsedIsLive
  BY MemoryRefined, NoUseAfterFree, PTL

(***************************************************************************)
(* A client that always has its next request ready gets no more answers    *)
(* than the timer counts.                                                  *)
(***************************************************************************)
THEOREM ClientPromptCut == ClientSpec => []PromptClientCut
  BY SlotRefined, PromptClientIsCut, PTL DEF PromptClientCut

(***************************************************************************)
(* The loop keeps the promise of Lease.                                    *)
(***************************************************************************)
THEOREM ClientLease == ClientSpec => LeaseKept
  BY SlotRefined, LeaseRefined, PTL DEF LeaseKept

-----------------------------------------------------------------------------
(* What is read.                                                           *)

\* The parts this receive has put into its buffer, as long as they are needed.
Mine(b, k) == b = idx /\ k <= received /\ step \in {"recv", "image", "respond"}

\* Whatever lies in the buffers, in parts that are empty or of somebody.
BufferOwners ==
  \A b \in Buffer, k \in Part :
    message[b][k] \in left \cup {0} \cup (IF Mine(b, k) THEN {conns} ELSE {})

\* A request that is parsed, or answered, is complete.
CompleteWhenUsed ==
  /\ outcome = "REQUEST_RECEIVED" => step = "recv" /\ Complete(message[idx])
  /\ step \in {"image", "respond"} => Complete(message[idx])

BufferTypeOK ==
  /\ idx \in Buffer
  /\ received \in Nat
  /\ conns \in Nat
  /\ message \in [Buffer -> [Part -> Nat]]

ReceiveInv == BufferTypeOK /\ BufferOwners /\ CompleteWhenUsed

(***************************************************************************)
(* At the start every buffer is empty.                                     *)
(***************************************************************************)
LEMMA ReceiveInit == ClientInit => ReceiveInv
<1> SUFFICES ASSUME ClientInit PROVE ReceiveInv
  OBVIOUS
<1> USE ClientAssumption DEF ClientInit, Init
<1>1. BufferTypeOK
  BY DEF BufferTypeOK, Buffer, Part, Empty
<1>2. BufferOwners /\ CompleteWhenUsed
  BY DEF BufferOwners, CompleteWhenUsed, Mine, Empty, Part
<1> QED
  BY <1>1, <1>2 DEF ReceiveInv

(***************************************************************************)
(* A receive begins with the next buffer, when no part of any buffer is    *)
(* the thread's own any more.                                              *)
(***************************************************************************)
LEMMA BeginStep == ReceiveInv /\ (NewClient \/ NextRequest) => ReceiveInv'
<1> SUFFICES ASSUME ReceiveInv, NewClient \/ NextRequest PROVE ReceiveInv'
  OBVIOUS
<1> USE ClientAssumption DEF ReceiveInv, BufferTypeOK
<1>1. /\ step \in {"idle", "timer"} /\ step' = "recv"
      /\ BeginReceive /\ UNCHANGED <<message, left>>
      /\ conns' \in Nat
  BY DEF NewClient, NextRequest, Connect, TimerReady
<1>2. BufferTypeOK'
  BY <1>1 DEF BeginReceive, Buffer
<1>3. BufferOwners'
  BY <1>1 DEF BufferOwners, Mine, Part
<1>4. CompleteWhenUsed'
  BY <1>1 DEF CompleteWhenUsed, BeginReceive
<1> QED
  BY <1>2, <1>3, <1>4

(***************************************************************************)
(* What recv() gives is put behind what it gave before.                    *)
(***************************************************************************)
LEMMA ReceiveStep ==
  ReceiveInv /\ (ReceivePart \/ ReceiveEnd \/ ReceiveInterrupted \/ ReceiveReset)
    => ReceiveInv'
<1> SUFFICES ASSUME ReceiveInv,
                    ReceivePart \/ ReceiveEnd \/ ReceiveInterrupted \/ ReceiveReset
             PROVE  ReceiveInv'
  OBVIOUS
<1> USE ClientAssumption DEF ReceiveInv, BufferTypeOK, Receiving
<1>1. CASE ReceivePart
  <2>1. PICK v \in 1..(Parts - received) :
          /\ received' = received + v
          /\ message' =
               [message EXCEPT ![idx] =
                  [k \in Part |-> IF k \in received + 1 .. received + v THEN conns ELSE @[k]]]
    BY <1>1 DEF ReceivePart
  <2>2. /\ step = "recv" /\ UNCHANGED <<step, conns, idx, left>>
        /\ outcome' = IF Complete(message'[idx]) THEN "REQUEST_RECEIVED" ELSE "none"
    BY <1>1 DEF ReceivePart, vars
  <2>3. BufferTypeOK'
    BY <2>1, <2>2
  <2>4. BufferOwners'
    BY <2>1, <2>2 DEF BufferOwners, Mine, Part
  <2>5. CompleteWhenUsed'
    BY <2>2 DEF CompleteWhenUsed
  <2> QED
    BY <2>3, <2>4, <2>5
<1>2. CASE ReceiveEnd \/ ReceiveInterrupted \/ ReceiveReset
  <2>1. /\ step = "recv"
        /\ UNCHANGED <<step, conns, idx, received, message, left>>
        /\ outcome' = "REQUEST_RECEIVED" => Complete(message[idx])
    BY <1>2 DEF ReceiveEnd, ReceiveInterrupted, ReceiveReset, vars
  <2>2. BufferTypeOK' /\ BufferOwners'
    BY <2>1 DEF BufferOwners, Mine
  <2>3. CompleteWhenUsed'
    BY <2>1 DEF CompleteWhenUsed
  <2> QED
    BY <2>2, <2>3
<1> QED
  BY <1>1, <1>2

(***************************************************************************)
(* What is not answered is left, with its owner named; what is answered is *)
(* cleared.                                                                *)
(***************************************************************************)
LEMMA HandleStep ==
  ReceiveInv /\ (LetGo \/ Parse \/ LookUp \/ Reply \/ ReplyGone) => ReceiveInv'
<1> SUFFICES ASSUME ReceiveInv, LetGo \/ Parse \/ LookUp \/ Reply \/ ReplyGone
             PROVE  ReceiveInv'
  OBVIOUS
<1> USE ClientAssumption DEF ReceiveInv, BufferTypeOK
<1>1. CASE LetGo
  <2>1. /\ step = "recv" /\ step' = "free"
        /\ left' = left \cup {conns} /\ outcome' = "none"
        /\ UNCHANGED <<message, idx, received, conns>>
    BY <1>1 DEF LetGo, ReceiveNone
  <2> QED
    BY <2>1 DEF BufferOwners, Mine, CompleteWhenUsed
<1>2. CASE Parse
  <2>1. /\ step = "recv" /\ step' \in {"image", "respond"}
        /\ outcome = "REQUEST_RECEIVED" /\ outcome' = "none"
        /\ UNCHANGED <<message, idx, received, conns, left>>
    BY <1>2 DEF Parse, ParseImage, ParseOther
  <2> QED
    BY <2>1 DEF BufferOwners, Mine, CompleteWhenUsed, Complete
<1>3. CASE LookUp
  <2>1. /\ step = "image" /\ step' = "respond"
        /\ UNCHANGED <<message, idx, received, outcome, conns, left>>
    BY <1>3 DEF LookUp, MakeImage, receive
  <2> QED
    BY <2>1 DEF BufferOwners, Mine, CompleteWhenUsed, Complete
<1>4. CASE Reply \/ ReplyGone
  <2>1. /\ step = "respond" /\ step' \in {"timer", "free"}
        /\ message' = [message EXCEPT ![idx] = Empty]
        /\ UNCHANGED <<idx, received, outcome, conns, left>>
    BY <1>4 DEF Reply, ReplyGone, Respond, RespondGone, receive
  <2>2. outcome # "REQUEST_RECEIVED"
    BY <2>1 DEF CompleteWhenUsed
  <2>3. BufferTypeOK'
    BY <2>1 DEF Empty
  <2>4. BufferOwners'
    BY <2>1 DEF BufferOwners, Mine, Empty
  <2>5. CompleteWhenUsed'
    BY <2>1, <2>2 DEF CompleteWhenUsed
  <2> QED
    BY <2>3, <2>4, <2>5
<1> QED
  BY <1>1, <1>2, <1>3, <1>4

(***************************************************************************)
(* The other steps neither read nor write a buffer.                        *)
(***************************************************************************)
LEMMA OtherStep ==
  ReceiveInv /\ (Wait \/ EndByTimer \/ Free \/ UNCHANGED clientVars) => ReceiveInv'
<1> SUFFICES ASSUME ReceiveInv, Wait \/ EndByTimer \/ Free \/ UNCHANGED clientVars
             PROVE  ReceiveInv'
  OBVIOUS
<1>1. CASE EndByTimer \/ Free
  <2>1. /\ step \in {"timer", "free", "free_image"}
        /\ step' \in {"free", "free_image", "idle", "fault"}
        /\ UNCHANGED <<message, idx, received, outcome, conns, left>>
    BY <1>1 DEF EndByTimer, Free, TimerOut, DestroyRequest, DestroyImage, Fault, receive
  <2> QED
    BY <2>1 DEF ReceiveInv, BufferTypeOK, BufferOwners, Mine, CompleteWhenUsed
<1>2. CASE Wait \/ UNCHANGED clientVars
  <2>1. UNCHANGED <<step, message, idx, received, outcome, conns, left>>
    BY <1>2 DEF Wait, clientVars, vars, receive
  <2> QED
    BY <2>1 DEF ReceiveInv, BufferTypeOK, BufferOwners, Mine, CompleteWhenUsed
<1> QED
  BY <1>1, <1>2

(***************************************************************************)
(* A request is answered from parts of its own client, and of connections  *)
(* that ended with parts unanswered, for any ring of buffers.              *)
(***************************************************************************)
THEOREM ClientOwnRequest == ClientSpec => []OwnRequest
<1>1. ReceiveInv /\ [ClientNext]_clientVars => ReceiveInv'
  BY BeginStep, ReceiveStep, HandleStep, OtherStep DEF ClientNext, ThreadStep
<1>2. ReceiveInv => OwnRequest
  <2> SUFFICES ASSUME ReceiveInv, step \in {"image", "respond"}, NEW k \in Part
               PROVE  message[idx][k] \in left \cup (IF k <= received THEN {conns} ELSE {})
    BY DEF OwnRequest
  <2>1. message[idx][k] # 0
    BY DEF ReceiveInv, CompleteWhenUsed, Complete
  <2> QED
    BY <2>1 DEF ReceiveInv, BufferTypeOK, BufferOwners, Mine
<1> QED
  BY ReceiveInit, <1>1, <1>2, PTL DEF ClientSpec

=============================================================================

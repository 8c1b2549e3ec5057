--------------------------- MODULE RequestMemory ---------------------------
(***************************************************************************)
(* The memory of handle_client: two pointers of a slot's thread, request   *)
(* and image_info, that live as long as the thread, over all connections   *)
(* and requests it is given.  A request is allocated by parse_request, an  *)
(* image by handle_client, each with its parts; some parts hang on both.   *)
(* They are freed by destroy_request and destroy_image when a connection   *)
(* ends, whether or not it sent a request, and the pointers keep their     *)
(* values.                                                                 *)
(*                                                                         *)
(* A piece of memory is known by its part and the number of the request it *)
(* was allocated for.  A free() of what is no memory from the heap, or not *)
(* any more, or the use of a null pointer, is undefined: the module follows*)
(* the thread up to there, to the step "fault".                            *)
(***************************************************************************)
EXTENDS Integers

CONSTANTS
  MaxConn,     \* bound: connections that are given to the thread
  MaxRequest   \* bound: requests they send

ASSUME MemoryAssumption == MaxConn \in Nat /\ MaxRequest \in Nat

VARIABLES
  step,        \* where handle_client is
  request,     \* the number of the request it points to, 0 for NULL
  image_info,  \* likewise
  status_r,    \* what destroy_request is told
  live,        \* for each request, its parts that are allocated
  conns,       \* how many connections there were
  parsed,      \* how many requests have been parsed
  images,      \* history: the requests that were for an image
  last,        \* history: the requests a connection has ended with
  quiet,       \* history: the connection has sent no request yet
  fault        \* history: how the thread came to "fault"

heap == <<request, image_info, live>>
history == <<parsed, images, last>>
vars == <<step, heap, status_r, conns, history, quiet, fault>>

Steps == {"idle", "recv", "image", "respond", "timer", "free", "free_image", "fault"}

\* What destroy_request and destroy_image free, the struct last.
RequestPart == {"user_agent", "image_list", "image_name", "cache_name", "request"}
ImagePart == {"image_path", "cache_path", "ext", "image_info"}

Request == 1..MaxRequest

\* All that is allocated for a request, from its parsing to its response.
Memory(n) ==
  IF n \in images THEN RequestPart \cup ImagePart ELSE {"request"}

TypeOK ==
  /\ step \in Steps
  /\ request \in 0..MaxRequest
  /\ image_info \in 0..MaxRequest
  /\ status_r \in {"OK", "REQUEST_RECEIVED", "EMPTY_MESSAGE", "CONNECTION_CLOSED"}
  /\ live \in [Request -> SUBSET (RequestPart \cup ImagePart)]
  /\ conns \in 0..MaxConn
  /\ parsed \in 0..MaxRequest
  /\ images \subseteq 1..parsed
  /\ last \subseteq 1..parsed
  /\ quiet \in BOOLEAN
  /\ fault \in {"none", "null", "literal", "again"}

Init ==
  /\ step = "idle"
  /\ request = 0
  /\ image_info = 0
  /\ status_r = "OK"
  /\ live = [n \in Request |-> {}]
  /\ conns = 0
  /\ parsed = 0
  /\ images = {}
  /\ last = {}
  /\ quiet = TRUE
  /\ fault = "none"

-----------------------------------------------------------------------------
(* A request and its response.                                             *)

\* wait_for_connection has returned.
Connect ==
  /\ step = "idle"
  /\ conns < MaxConn
  /\ conns' = conns + 1
  /\ quiet' = TRUE
  /\ step' = "recv"
  /\ UNCHANGED <<heap, status_r, history, fault>>

\* The client has gone, or its quota is used up.
ReceiveNone ==
  /\ step = "recv"
  /\ status_r' = "EMPTY_MESSAGE"
  /\ step' = "free"
  /\ UNCHANGED <<heap, conns, history, quiet, fault>>

\* Mutant of ParseImage: a request that is there is filled anew.
ParseImageAgain ==
  /\ step = "recv"
  /\ parsed < MaxRequest
  /\ parsed' = parsed + 1
  /\ images' = images \cup {parsed + 1}
  /\ request' = IF request = 0 THEN parsed + 1 ELSE request
  /\ live' =
       [live EXCEPT ![parsed + 1] = (RequestPart \ {"cache_name"}) \cup {"ext"}]
  /\ status_r' = "REQUEST_RECEIVED"
  /\ quiet' = FALSE
  /\ step' = "image"
  /\ UNCHANGED <<image_info, conns, last, fault>>

\* parse_request of a request for an image; the pointer to the last is lost.
ParseImage ==
  /\ step = "recv"
  /\ parsed < MaxRequest
  /\ parsed' = parsed + 1
  /\ images' = images \cup {parsed + 1}
  /\ request' = parsed + 1
  /\ live' =
       [live EXCEPT ![parsed + 1] = (RequestPart \ {"cache_name"}) \cup {"ext"}]
  /\ status_r' = "REQUEST_RECEIVED"
  /\ quiet' = FALSE
  /\ step' = "image"
  /\ UNCHANGED <<image_info, conns, last, fault>>

\* The icon, or a request that is not correct: the name of the image becomes a
\* literal, and the other parts stay NULL.
ParseOther ==
  /\ step = "recv"
  /\ parsed < MaxRequest
  /\ parsed' = parsed + 1
  /\ request' = parsed + 1
  /\ live' = [live EXCEPT ![parsed + 1] = {"request"}]
  /\ status_r' = "REQUEST_RECEIVED"
  /\ quiet' = FALSE
  /\ step' = "respond"
  /\ UNCHANGED <<image_info, conns, images, last, fault>>

\* Mutant of MakeImage: the image of the last request is filled anew.
MakeImageAgain ==
  /\ step = "image"
  /\ image_info' = IF image_info = 0 THEN request ELSE image_info
  /\ live' =
       [live EXCEPT ![request] =
          @ \cup {"cache_name", "image_path", "cache_path", "image_info"}]
  /\ step' = "respond"
  /\ UNCHANGED <<request, status_r, conns, history, quiet, fault>>

\* retrieve_dim_from_DB gives the name in the cache; then the image, its paths.
MakeImage ==
  /\ step = "image"
  /\ image_info' = request
  /\ live' =
       [live EXCEPT ![request] =
          @ \cup {"cache_name", "image_path", "cache_path", "image_info"}]
  /\ step' = "respond"
  /\ UNCHANGED <<request, status_r, conns, history, quiet, fault>>

\* The image, the icon, or the page that says that there is none.
Respond ==
  /\ step = "respond"
  /\ step' = "timer"
  /\ UNCHANGED <<heap, status_r, conns, history, quiet, fault>>

\* send_image finds the client gone; for the icon nobody asks what it found.
RespondGone ==
  /\ step = "respond"
  /\ parsed \in images
  /\ status_r' = "CONNECTION_CLOSED"
  /\ step' = "free"
  /\ UNCHANGED <<heap, conns, history, quiet, fault>>

\* handle_timer: there is more to read ...
TimerReady ==
  /\ step = "timer"
  /\ step' = "recv"
  /\ UNCHANGED <<heap, status_r, conns, history, quiet, fault>>

\* ... or the connection ends, and status_r is still that of its last request.
TimerOut ==
  /\ step = "timer"
  /\ step' = "free"
  /\ UNCHANGED <<heap, status_r, conns, history, quiet, fault>>

-----------------------------------------------------------------------------
(* The end of a connection.                                                *)

Fault(how) ==
  /\ fault' = how
  /\ step' = "fault"
  /\ UNCHANGED <<heap, status_r, conns, history, quiet>>

\* The name is freed unless destroy_request is told that the request was not
\* correct, which no caller tells it; a literal cannot be freed.
Literal(n) == n \notin images /\ status_r # "MESSAGE_NOT_CORRECT"

Freed(n) == "request" \notin live[n]

\* Mutant of DestroyRequest: the name in the cache is not freed.
DestroyRequestPart ==
  /\ step = "free"
  /\ \/ request = 0 /\ Fault("null")
     \/ request # 0 /\ Freed(request) /\ Fault("again")
     \/ request # 0 /\ ~Freed(request) /\ Literal(request) /\ Fault("literal")
     \/ /\ request # 0 /\ ~Freed(request) /\ ~Literal(request)
        /\ live' = [live EXCEPT ![request] = @ \ (RequestPart \ {"cache_name"})]
        /\ last' = last \cup {request}
        /\ step' = "free_image"
        /\ UNCHANGED <<request, image_info, status_r, conns, parsed, images, quiet, fault>>

\* destroy_request, which asks neither whether there is a request nor whether
\* it was freed before.
DestroyRequest ==
  /\ step = "free"
  /\ \/ request = 0 /\ Fault("null")
     \/ request # 0 /\ Freed(request) /\ Fault("again")
     \/ request # 0 /\ ~Freed(request) /\ Literal(request) /\ Fault("literal")
     \/ /\ request # 0 /\ ~Freed(request) /\ ~Literal(request)
        /\ live' = [live EXCEPT ![request] = @ \ RequestPart]
        /\ last' = last \cup {request}
        /\ step' = "free_image"
        /\ UNCHANGED <<request, image_info, status_r, conns, parsed, images, quiet, fault>>

\* destroy_image, likewise.
DestroyImage ==
  /\ step = "free_image"
  /\ \/ image_info = 0 /\ Fault("null")
     \/ image_info # 0 /\ "image_info" \notin live[image_info] /\ Fault("again")
     \/ /\ image_info # 0 /\ "image_info" \in live[image_info]
        /\ live' = [live EXCEPT ![image_info] = @ \ ImagePart]
        /\ step' = "idle"
        /\ UNCHANGED <<request, image_info, status_r, conns, history, quiet, fault>>

Next ==
  \/ Connect
  \/ ReceiveNone
  \/ ParseImage
  \/ ParseOther
  \/ MakeImage
  \/ Respond
  \/ RespondGone
  \/ TimerReady
  \/ TimerOut
  \/ DestroyRequest
  \/ DestroyImage

Spec == Init /\ [][Next]_vars

-----------------------------------------------------------------------------
(***************************************************************************)
(* The memory is only misused at the end of a connection that sent no      *)
(* request (where there is none yet, or that of an earlier connection is   *)
(* freed again), or whose last request was not for an image.  destroy_image*)
(* is never given what it must not free, for destroy_request has been given*)
(* it before.                                                              *)
(***************************************************************************)
FaultsNamed ==
  /\ fault = "null" => quiet /\ parsed = 0
  /\ fault = "again" => quiet /\ parsed \in last
  /\ fault = "literal" => ~quiet /\ parsed \notin images

(***************************************************************************)
(* Between connections what is left is all the memory of every request but *)
(* the last one of each connection, and none of those: it is never freed,  *)
(* and every connection that was closed had ended with an image.           *)
(***************************************************************************)
LeftBehind ==
  step = "idle" =>
    /\ \A n \in Request :
         live[n] = IF n \in (1..parsed) \ last THEN Memory(n) ELSE {}
    /\ last \subseteq images

(***************************************************************************)
(* While a request is looked up and answered its memory is there, and the  *)
(* image is the one made for it, not that of a request before.             *)
(***************************************************************************)
UsedIsLive ==
  /\ step \in {"image", "respond"} => "request" \in live[request]
  /\ step = "respond" /\ parsed \in images =>
       image_info = request /\ Memory(request) \subseteq live[request]

=============================================================================

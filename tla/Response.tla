------------------------------ MODULE Response ------------------------------
(***************************************************************************)
(* What handle_client sends for one request: an image, or the header of    *)
(* one (module SendFile), or a page that says why there is none (SendPage).*)
(***************************************************************************)
EXTENDS SendFile

CONSTANTS MaxPage, PageHeadLen, MemLen, Word

VARIABLES
  kind,    \* "image" or "page"
  at, page_len, head_sent, w, buf, size, v, count, part, broken   \* of SendPage

page == <<at, page_len, head_sent, w, buf, size, v, count, part, broken>>

P == INSTANCE SendPage WITH PageError <- ErrorCode, PageClosed <- ClosedCode

ASSUME ResponseAssumption == P!PageAssumption

\* What is not sent is of no size.
ResponseInit ==
  /\ Init
  /\ P!PageInit
  /\ \/ kind = "image" /\ page_len = 1
     \/ kind = "page" /\ file_size = 0 /\ cmd = "GET"

SendImage ==
  /\ kind = "image"
  /\ Next
  /\ UNCHANGED <<kind, page>>

SendErrorPage ==
  /\ kind = "page"
  /\ P!PageNext
  /\ UNCHANGED <<kind, vars>>

responseVars == <<kind, vars, page>>

ResponseNext == SendImage \/ SendErrorPage

(***************************************************************************)
(* A client that reads, or goes away, lets every call come back.           *)
(***************************************************************************)
ResponseSpec ==
  /\ ResponseInit
  /\ [][ResponseNext]_responseVars
  /\ WF_responseVars(SendImage /\ ServerStep)
  /\ WF_responseVars(SendErrorPage /\ P!PageStep)

(***************************************************************************)
(* Sending an image comes to an end, unless a call gave some of the bytes  *)
(* only or the file is shorter than it was said to be.                     *)
(***************************************************************************)
ImageEnds ==
  kind = "image" /\ step = "head" ~> (step = "done" \/ short \/ file_len < file_size)

(***************************************************************************)
(* Sending a page comes to an end, unless a write() gave a part of it only *)
(* or a call failed: send_bad_request then goes by a number of bytes that  *)
(* was never sent, and may miss the length of the text for ever.           *)
(***************************************************************************)
PageEnds ==
  kind = "page" /\ at = "head" ~> (at = "done" \/ part \/ broken)

(***************************************************************************)
(* A page that is done was sent as SendPage says.                          *)
(***************************************************************************)
PageRight == P!PageRight

=============================================================================

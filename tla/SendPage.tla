------------------------------ MODULE SendPage ------------------------------
(***************************************************************************)
(* The pages that say that a request was bad or that the server is not     *)
(* available: send_bad_request and send_service_unavailable, which differ  *)
(* in the length of the text only (both headers say 400), and write_block, *)
(* which they call until the text is sent.                                 *)
(*                                                                         *)
(* write_block takes what the last write() gave into account twice, once   *)
(* in buf and size and once more in the next call; it returns an error     *)
(* code, or no value at all, for which its callers find what the last      *)
(* write() gave (gcc leaves it in the register, with any optimisation) and *)
(* count it as sent, as they do with an error code.  Lengths are unsigned, *)
(* modulo Word.  A byte is known by its position; those from page_len on   *)
(* are whatever lies behind the text, and from MemLen on there is nothing. *)
(*                                                                         *)
(* A client that has gone is an error here, not the end of the process:    *)
(* the library of the database has SIGPIPE ignored.                        *)
(***************************************************************************)
EXTENDS Integers

CONSTANTS
  MaxPage,      \* bound: length of the text with its NUL, 291 or 258 in the code
  PageHeadLen,  \* len_header
  PageError,    \* ERROR_SENDING_MESSAGE, 11 in the code
  PageClosed,   \* CONNECTION_CLOSED, 12 in the code
  MemLen,       \* bound: where what can be read behind the text ends
  Word          \* 2^64 in the code

PageAssumption ==
  /\ MaxPage \in Nat \ {0}
  /\ PageHeadLen \in Nat \ {0}
  /\ Word \in Nat
  /\ {PageError, PageClosed} \subseteq 1..(Word - 1)
  /\ MemLen \in MaxPage..(Word - 1)

VARIABLES
  at,            \* "head", "loop", "block" or "done"
  page_len,      \* len_bad, len_ser
  head_sent,     \* sent
  w,             \* what the callers think that has been sent
  buf, size, v,  \* of write_block
  count,         \* history: bytes of the text sent; beyond MemLen, if some came twice,
                 \* out of order or from behind the text
  part,          \* history: a write() gave some of the bytes asked for only
  broken         \* history: a call gave -1

page == <<at, page_len, head_sent, w, buf, size, v, count, part, broken>>

PageInit ==
  /\ at = "head"
  /\ page_len \in 1..MaxPage
  /\ head_sent = 0
  /\ w = 0
  /\ buf = 0
  /\ size = 0
  /\ v = 0
  /\ count = 0
  /\ part = FALSE
  /\ broken = FALSE

\* send() of the header, as in SendFile.
PageHead ==
  /\ at = "head"
  /\ head_sent < PageHeadLen
  /\ \E s \in 1..PageHeadLen : head_sent' = head_sent + s
  /\ UNCHANGED <<at, page_len, w, buf, size, v, count, part, broken>>

PageHeadFail ==
  /\ at = "head"
  /\ head_sent < PageHeadLen
  /\ at' = "done"
  /\ broken' = TRUE
  /\ UNCHANGED <<page_len, head_sent, w, buf, size, v, count, part>>

PageHeadDone ==
  /\ at = "head"
  /\ head_sent >= PageHeadLen
  /\ at' = "loop"
  /\ UNCHANGED <<page_len, head_sent, w, buf, size, v, count, part, broken>>

\* Mutant of PageLoop: the last byte of the text is not asked for.
PageLoopShort ==
  /\ at = "loop"
  /\ \/ w + 1 = page_len /\ at' = "done" /\ UNCHANGED <<buf, size, v>>
     \/ /\ w + 1 # page_len
        /\ at' = "block"
        /\ buf' = w
        /\ size' = (page_len - 1 - w) % Word
        /\ v' = 0
  /\ UNCHANGED <<page_len, head_sent, w, count, part, broken>>

\* The test of len - w, and the call of write_block for what is left.
PageLoop ==
  /\ at = "loop"
  /\ \/ w = page_len /\ at' = "done" /\ UNCHANGED <<buf, size, v>>
     \/ /\ w # page_len
        /\ at' = "block"
        /\ buf' = w
        /\ size' = (page_len - w) % Word
        /\ v' = 0
  /\ UNCHANGED <<page_len, head_sent, w, count, part, broken>>

\* write(): any part of the bytes asked for that are there.
PageWrite ==
  LET from == (buf + v) % Word
      ask == (size - v) % Word
  IN /\ at = "block"
     /\ size > 0
     /\ \E n \in 0..ask :
          /\ from + n <= MemLen
          /\ n = 0 => ask = 0
          /\ v' = n
          /\ size' = (size - n) % Word
          /\ buf' = (buf + n) % Word
          /\ count' = IF from = count /\ from + n <= page_len THEN count + n ELSE MemLen + 1
          /\ part' = (part \/ n < ask)
     /\ UNCHANGED <<at, page_len, head_sent, w, broken>>

\* Mutant of PageReturn: what was sent is not counted.
PageReturnUncounted ==
  /\ at = "block"
  /\ size = 0
  /\ at' = "loop"
  /\ UNCHANGED <<page_len, head_sent, w, buf, size, v, count, part, broken>>

\* All has been written, write_block thinks.
PageReturn ==
  /\ at = "block"
  /\ size = 0
  /\ w' = (w + v) % Word
  /\ at' = "loop"
  /\ UNCHANGED <<page_len, head_sent, buf, size, v, count, part, broken>>

\* write() gives -1: the code of the error is counted as bytes.
PageFail ==
  /\ at = "block"
  /\ size > 0
  /\ \E code \in {PageError, PageClosed} : w' = (w + code) % Word
  /\ at' = "loop"
  /\ broken' = TRUE
  /\ UNCHANGED <<page_len, head_sent, buf, size, v, count, part>>

PageStep == PageHead \/ PageHeadDone \/ PageLoop \/ PageWrite \/ PageReturn

PageNext == PageStep \/ PageHeadFail \/ PageFail

(***************************************************************************)
(* A page that is done has been sent whole, in order and without anything  *)
(* behind it, unless a write() gave a part of it only or a call failed.    *)
(***************************************************************************)
PageRight == at = "done" => count = page_len \/ part \/ broken

=============================================================================

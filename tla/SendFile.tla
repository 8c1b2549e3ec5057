------------------------------ MODULE SendFile ------------------------------
(***************************************************************************)
(* One response of send_image: the header, by send(), and the file, by     *)
(* send_file_fd, which calls sendfile() until it has sent as many bytes as *)
(* it was told the file has.  sendfile() may give fewer bytes than it is   *)
(* asked for (a signal, the end of the file), and advances the offset by   *)
(* those it gave; the loop then advances it by as many again.              *)
(*                                                                         *)
(* A byte of the file is known by its position.  The file may be truncated *)
(* and written, by threads that convert the same image, while it is sent.  *)
(***************************************************************************)
EXTENDS Integers

CONSTANTS
  MaxSize,      \* bound: size of the file, as send_image is told
  HeadLen,      \* len_header
  ErrorCode,    \* ERROR_SENDING_MESSAGE, 11 in the code
  ClosedCode,   \* CONNECTION_CLOSED, 12 in the code
  MaxTrunc      \* bound: how often the file is truncated

ASSUME SizeAssumption ==
  /\ MaxSize \in Nat
  /\ HeadLen \in Nat \ {0}
  /\ ErrorCode \in Nat
  /\ ClosedCode \in Nat
  /\ MaxTrunc \in Nat

VARIABLES
  step,        \* "head", "body" or "done"
  cmd,         \* "GET" or "HEAD"
  file_size,   \* image->file_size
  sent,        \* bytes of the header sent
  offset, len, \* of send_file_fd
  result,      \* what send_image returns; "any" when it returns nothing
  file_len,    \* the length of the file just now
  truncated,   \* how often it has been truncated
  longest,     \* history: the greatest length the file has had
  got,         \* history: the positions whose bytes were sent
  short,       \* history: a call gave some of the bytes asked for, not all
  failed       \* history: a call gave -1

answer == <<step, cmd, file_size, sent, offset, len, result, got, short, failed>>
file == <<file_len, truncated, longest>>
vars == <<answer, file>>

Result == {"none", "OK", "ERROR_SENDING_MESSAGE", "CONNECTION_CLOSED", "any"}

TypeOK ==
  /\ step \in {"head", "body", "done"}
  /\ cmd \in {"GET", "HEAD"}
  /\ file_size \in 0..MaxSize
  /\ sent \in 0..(2 * HeadLen - 1)
  /\ offset \in 0..(2 * MaxSize)
  /\ len \in 0..file_size
  /\ result \in Result
  /\ file_len \in Nat
  /\ truncated \in 0..MaxTrunc
  /\ longest \in Nat
  /\ got \subseteq Nat
  /\ short \in BOOLEAN
  /\ failed \in BOOLEAN

Init ==
  /\ step = "head"
  /\ cmd \in {"GET", "HEAD"}
  /\ file_size \in 0..MaxSize
  /\ sent = 0
  /\ offset = 0
  /\ len = 0
  /\ result = "none"
  /\ file_len = file_size
  /\ truncated = 0
  /\ longest = file_size
  /\ got = {}
  /\ short = FALSE
  /\ failed = FALSE

-----------------------------------------------------------------------------
(* send_image and send_file_fd.                                            *)

\* send() of the whole length of the header, from where it has come to: after
\* a send in part it goes beyond the header's end.
SendHead ==
  /\ step = "head"
  /\ sent < HeadLen
  /\ \E s \in 1..HeadLen : sent' = sent + s
  /\ UNCHANGED <<step, cmd, file_size, offset, len, result, got, short, failed, file>>

\* The header has been sent; for HEAD the function ends without a value.
HeadDone ==
  /\ step = "head"
  /\ sent >= HeadLen
  /\ \/ cmd = "GET" /\ step' = "body" /\ UNCHANGED result
     \/ cmd = "HEAD" /\ step' = "done" /\ result' = "any"
  /\ UNCHANGED <<cmd, file_size, sent, offset, len, got, short, failed, file>>

\* Mutants of SendBody: the offset stays; what was sent is not counted.
SendBodyAgain ==
  /\ step = "body"
  /\ len < file_size
  /\ \E v \in 1..(file_size - len) :
       /\ offset + v <= file_len
       /\ len' = len + v
       /\ got' = got \cup offset..(offset + v - 1)
       /\ short' = (short \/ v < file_size - len)
  /\ UNCHANGED <<step, cmd, file_size, sent, offset, result, failed, file>>

SendBodyUncounted ==
  /\ step = "body"
  /\ len < file_size
  /\ \E v \in 1..(file_size - len) :
       /\ offset + v <= file_len
       /\ offset' = offset + v + v
       /\ got' = got \cup offset..(offset + v - 1)
       /\ short' = (short \/ v < file_size - len)
  /\ UNCHANGED <<step, cmd, file_size, sent, len, result, failed, file>>

\* sendfile() of the bytes that are left; at the end of the file it gives 0,
\* and the loop tries again, which changes nothing.
SendBody ==
  /\ step = "body"
  /\ len < file_size
  /\ \E v \in 1..(file_size - len) :
       /\ offset + v <= file_len
       /\ offset' = offset + v + v
       /\ len' = len + v
       /\ got' = got \cup offset..(offset + v - 1)
       /\ short' = (short \/ v < file_size - len)
  /\ UNCHANGED <<step, cmd, file_size, sent, result, failed, file>>

\* send() or sendfile() gives -1.
Fail ==
  /\ \/ step = "head" /\ sent < HeadLen /\ result' = "ERROR_SENDING_MESSAGE"
     \/ /\ step = "body"
        /\ len < file_size
        /\ result' \in {"ERROR_SENDING_MESSAGE", "CONNECTION_CLOSED"}
  /\ step' = "done"
  /\ failed' = TRUE
  /\ UNCHANGED <<cmd, file_size, sent, offset, len, got, short, file>>

\* Mutant of Return: one byte too early.
ReturnEarly ==
  /\ step = "body"
  /\ len + 1 >= file_size
  /\ step' = "done"
  /\ result' =
       IF len = ErrorCode THEN "ERROR_SENDING_MESSAGE"
       ELSE IF len = ClosedCode THEN "CONNECTION_CLOSED" ELSE "OK"
  /\ UNCHANGED <<cmd, file_size, sent, offset, len, got, short, failed, file>>

\* send_file_fd returns how many bytes it has sent, and send_image looks first
\* whether that number is one of its error codes.  It would retry if the
\* number were not the size, but len never differs from it here.
Return ==
  /\ step = "body"
  /\ len >= file_size
  /\ step' = "done"
  /\ result' =
       IF len = ErrorCode THEN "ERROR_SENDING_MESSAGE"
       ELSE IF len = ClosedCode THEN "CONNECTION_CLOSED" ELSE "OK"
  /\ UNCHANGED <<cmd, file_size, sent, offset, len, got, short, failed, file>>

ServerStep == SendHead \/ HeadDone \/ SendBody \/ Return

-----------------------------------------------------------------------------
(* The file, which other threads may write again while it is sent.         *)

Truncate ==
  /\ truncated < MaxTrunc
  /\ truncated' = truncated + 1
  /\ file_len' = 0
  /\ UNCHANGED <<answer, longest>>

\* It grows, perhaps beyond a size that was taken while it was being written.
Write ==
  /\ file_len <= MaxSize
  /\ file_len' = file_len + 1
  /\ longest' = IF longest > file_len THEN longest ELSE file_len + 1
  /\ UNCHANGED <<answer, truncated>>

Next ==
  \/ ServerStep
  \/ Fail
  \/ Truncate
  \/ Write

Spec == Init /\ [][Next]_vars

-----------------------------------------------------------------------------
(***************************************************************************)
(* Although the offset is advanced twice no byte of the file is sent a     *)
(* second time, and none after a later one: bytes are skipped at most.     *)
(***************************************************************************)
BytesOnce ==
  [][/\ \A p \in got, n \in got' \ got : p < n
     /\ len' # len => got' # got]_vars

(***************************************************************************)
(* If send_image returns OK and the file was never longer than the size    *)
(* given, every byte of it has been sent, for all that calls may give some *)
(* of the bytes only: once bytes have been skipped, too few are left for   *)
(* the loop to end.                                                        *)
(***************************************************************************)
AllSent ==
  result = "OK" /\ longest <= file_size => got = 0..(file_size - 1)

(***************************************************************************)
(* send_image reports an error only if a call failed, or if the number of  *)
(* bytes sent happens to be the code of that error.                        *)
(***************************************************************************)
StatusTrue ==
  /\ result = "ERROR_SENDING_MESSAGE" => failed \/ file_size = ErrorCode
  /\ result = "CONNECTION_CLOSED" => failed \/ file_size = ClosedCode

=============================================================================

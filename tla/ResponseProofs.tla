--------------------------- MODULE ResponseProofs ---------------------------
(***************************************************************************)
(* Proofs about Response, for a file and a page of any size.               *)
(*                                                                         *)
(* Of SendFile, the inductive invariant says that the offset is twice the  *)
(* bytes sent: a call that ends the loop after len bytes reads up to       *)
(* len + file_size, which lies beyond a file of file_size bytes unless len *)
(* is 0.  Of SendPage, it says that a page to which nothing happens is     *)
(* asked for once, and whole, and that modulo Word its length is what it   *)
(* is.  A response is one or the other, and leaves the other's variables   *)
(* alone.                                                                  *)
(***************************************************************************)
EXTENDS Response, TLAPS

\* sendfile() and the loop advance the offset by the same number.
OffsetDoubled == offset = 2 * len

\* What has been sent lies before the offset, and nothing has been at first.
SentBefore ==
  /\ got \subseteq 0..(offset - 1)
  /\ len = 0 => got = {}

\* The history of the file's length.
LongestKept == file_len <= longest

\* Once as many bytes are sent as the file has, they are those of the file.
WholeAtEnd == len = file_size /\ longest <= file_size => got = 0..(file_size - 1)

\* OK is only returned then.
OKAtEnd == result = "OK" => step = "done" /\ len = file_size

\* No result, and no failure, before the end.
NoneBefore == step # "done" => result = "none"

SendInv ==
  /\ TypeOK
  /\ OffsetDoubled
  /\ SentBefore
  /\ LongestKept
  /\ WholeAtEnd
  /\ OKAtEnd
  /\ NoneBefore
  /\ StatusTrue

(***************************************************************************)
(* A response that has not begun satisfies the invariant.                  *)
(***************************************************************************)
LEMMA InitInv == Init => SendInv
<1> SUFFICES ASSUME Init PROVE SendInv
  OBVIOUS
<1> USE SizeAssumption DEF Init
<1>1. TypeOK
  <2>1. short \in BOOLEAN /\ failed \in BOOLEAN
    OBVIOUS
  <2>2. offset \in 0..(2 * MaxSize) /\ len \in 0..file_size /\ sent \in 0..(2 * HeadLen - 1)
    OBVIOUS
  <2>3. file_len \in Nat /\ longest \in Nat /\ truncated \in 0..MaxTrunc
    OBVIOUS
  <2> QED
    BY <2>1, <2>2, <2>3 DEF TypeOK, Result
<1>2. OffsetDoubled /\ SentBefore /\ LongestKept /\ WholeAtEnd
  BY <1>1 DEF TypeOK, OffsetDoubled, SentBefore, LongestKept, WholeAtEnd
<1>3. OKAtEnd /\ NoneBefore /\ StatusTrue
  BY DEF OKAtEnd, NoneBefore, StatusTrue
<1> QED
  BY <1>1, <1>2, <1>3 DEF SendInv

(***************************************************************************)
(* A call that gives b bytes: the positions it sends follow all those sent *)
(* before, and if it ends the loop it was the only one.                    *)
(***************************************************************************)
LEMMA BodyStep ==
  ASSUME SendInv, SendBody
  PROVE  /\ len' \in 0..file_size
         /\ offset' = 2 * len'
         /\ got' \subseteq 0..(offset' - 1)
         /\ len' # 0
         /\ len' # len /\ got' # got
         /\ \A p \in got, n \in got' \ got : p < n
         /\ WholeAtEnd'
<1> USE SizeAssumption DEF SendInv, TypeOK
<1>1. PICK b \in 1..(file_size - len) :
        /\ offset + b <= file_len
        /\ offset' = offset + b + b
        /\ len' = len + b
        /\ got' = got \cup offset..(offset + b - 1)
  BY DEF SendBody
<1>2. file_size' = file_size /\ longest' = longest
  BY DEF SendBody, file
<1>3. len' \in 0..file_size /\ len' # 0 /\ len' # len
  BY <1>1
<1>4. offset' = 2 * len'
  BY <1>1 DEF OffsetDoubled
<1>5. got' \subseteq 0..(offset' - 1)
  BY <1>1 DEF SentBefore
<1>6. \A p \in got, n \in got' \ got : p < n
  BY <1>1 DEF SentBefore
<1>7. got' # got
  <2>1. offset \in got' /\ offset \notin got
    BY <1>1 DEF SentBefore
  <2> QED
    BY <2>1
<1>8. WholeAtEnd'
  <2> SUFFICES ASSUME len' = file_size, longest <= file_size
               PROVE  got' = 0..(file_size - 1)
    BY <1>2 DEF WholeAtEnd
  <2>1. len = 0 /\ b = file_size
    BY <1>1 DEF OffsetDoubled, LongestKept
  <2>2. offset = 0 /\ got = {}
    BY <2>1 DEF OffsetDoubled, SentBefore
  <2> QED
    BY <1>1, <2>1, <2>2
<1> QED
  BY <1>3, <1>4, <1>5, <1>6, <1>7, <1>8

(***************************************************************************)
(* Every step keeps the invariant.                                         *)
(***************************************************************************)
LEMMA NextInv == SendInv /\ [Next]_vars => SendInv'
<1> SUFFICES ASSUME SendInv, [Next]_vars
             PROVE  SendInv'
  OBVIOUS
<1> USE SizeAssumption
<1>1. CASE SendHead
  <2>1. TypeOK'
    BY <1>1 DEF SendInv, TypeOK, SendHead, file
  <2> QED
    BY <1>1, <2>1 DEF SendInv, SendHead, file, OffsetDoubled, SentBefore,
      LongestKept, WholeAtEnd, OKAtEnd, NoneBefore, StatusTrue
<1>2. CASE HeadDone
  <2>1. TypeOK'
    BY <1>2 DEF SendInv, TypeOK, HeadDone, file, Result
  <2> QED
    BY <1>2, <2>1 DEF SendInv, HeadDone, file, OffsetDoubled, SentBefore,
      LongestKept, WholeAtEnd, OKAtEnd, NoneBefore, StatusTrue
<1>3. CASE SendBody
  <2>1. /\ UNCHANGED <<step, cmd, file_size, sent, result, failed, file>>
        /\ short' \in BOOLEAN
        /\ step = "body"
    BY <1>3 DEF SendInv, TypeOK, SendBody
  <2>2. TypeOK'
    BY <1>3, <2>1, BodyStep DEF SendInv, TypeOK, file
  <2>3. OffsetDoubled' /\ SentBefore' /\ WholeAtEnd'
    BY <1>3, BodyStep DEF OffsetDoubled, SentBefore
  <2>4. LongestKept' /\ OKAtEnd' /\ NoneBefore' /\ StatusTrue'
    BY <2>1 DEF SendInv, file, LongestKept, OKAtEnd, NoneBefore, StatusTrue
  <2> QED
    BY <2>2, <2>3, <2>4 DEF SendInv
<1>4. CASE Fail
  <2>1. TypeOK'
    BY <1>4 DEF SendInv, TypeOK, Fail, file, Result
  <2> QED
    BY <1>4, <2>1 DEF SendInv, Fail, file, OffsetDoubled, SentBefore,
      LongestKept, WholeAtEnd, OKAtEnd, NoneBefore, StatusTrue
<1>5. CASE Return
  <2>1. TypeOK'
    BY <1>5 DEF SendInv, TypeOK, Return, file, Result
  <2>2. len = file_size
    BY <1>5 DEF SendInv, TypeOK, Return
  <2> QED
    BY <1>5, <2>1, <2>2 DEF SendInv, Return, file, OffsetDoubled, SentBefore,
      LongestKept, WholeAtEnd, OKAtEnd, NoneBefore, StatusTrue
<1>6. CASE Truncate
  <2>1. TypeOK'
    BY <1>6 DEF SendInv, TypeOK, Truncate, answer
  <2> QED
    BY <1>6, <2>1 DEF SendInv, TypeOK, Truncate, answer, OffsetDoubled, SentBefore,
      LongestKept, WholeAtEnd, OKAtEnd, NoneBefore, StatusTrue
<1>7. CASE Write
  <2>1. TypeOK'
    BY <1>7 DEF SendInv, TypeOK, Write, answer
  <2> QED
    BY <1>7, <2>1 DEF SendInv, TypeOK, Write, answer, OffsetDoubled, SentBefore,
      LongestKept, WholeAtEnd, OKAtEnd, NoneBefore, StatusTrue
<1>8. CASE UNCHANGED vars
  BY <1>8 DEF SendInv, vars, answer, file, TypeOK, OffsetDoubled, SentBefore,
    LongestKept, WholeAtEnd, OKAtEnd, NoneBefore, StatusTrue
<1> QED
  BY <1>1, <1>2, <1>3, <1>4, <1>5, <1>6, <1>7, <1>8 DEF Next, ServerStep

(***************************************************************************)
(* The invariant holds throughout, for any file (SendFile).                *)
(***************************************************************************)
THEOREM Invariance == Spec => []SendInv
<1>1. Init => SendInv
  BY InitInv
<1>2. SendInv /\ [Next]_vars => SendInv'
  BY NextInv
<1> QED
  BY <1>1, <1>2, PTL DEF Spec

(***************************************************************************)
(* The variables of send_image and send_file_fd keep their types: what     *)
(* send_file_fd has sent never differs from the size but by being less, so *)
(* that send_image never retries.                                          *)
(***************************************************************************)
THEOREM TypeCorrect == Spec => []TypeOK
<1>1. SendInv => TypeOK
  BY DEF SendInv
<1> QED
  BY <1>1, Invariance, PTL

(***************************************************************************)
(* OK means that the whole file was sent, if it was never longer than the  *)
(* size given (AllSent).                                                   *)
(***************************************************************************)
THEOREM OKMeansAll == Spec => []AllSent
<1>1. SendInv => AllSent
  BY DEF SendInv, OKAtEnd, WholeAtEnd, AllSent
<1> QED
  BY <1>1, Invariance, PTL

(***************************************************************************)
(* An error is reported if there was one, or if the bytes sent are as many *)
(* as its code (StatusTrue).                                               *)
(***************************************************************************)
THEOREM ErrorMeansError == Spec => []StatusTrue
<1>1. SendInv => StatusTrue
  BY DEF SendInv
<1> QED
  BY <1>1, Invariance, PTL

(***************************************************************************)
(* No byte of the file is sent twice, or after a later one (BytesOnce).    *)
(***************************************************************************)
THEOREM NoByteTwice == Spec => BytesOnce
<1> DEFINE Forward == /\ \A p \in got, n \in got' \ got : p < n
                      /\ len' # len => got' # got
<1>1. SendInv /\ [Next]_vars => [Forward]_vars
  <2> SUFFICES ASSUME SendInv, Next PROVE Forward
    BY DEF vars
  <2>1. CASE SendBody
    BY <2>1, BodyStep
  <2>2. CASE ~SendBody
    <3>1. got' = got /\ len' = len
      BY <2>2 DEF Next, ServerStep, SendHead, HeadDone, Fail, Return, Truncate,
        Write, answer
    <3> QED
      BY <3>1
  <2> QED
    BY <2>1, <2>2
<1> QED
  BY <1>1, Invariance, PTL DEF Spec, BytesOnce

-----------------------------------------------------------------------------
(* Pages.                                                                  *)

\* The length of a page is below Word, so that nothing is lost modulo Word.
PageFits == page_len \in 1..MaxPage

\* Where the callers of write_block are with a page to which nothing happens:
\* they have asked for none of it or for all of it.
CallerAt ==
  /\ at = "head" => w = 0 /\ count = 0
  /\ at = "loop" => (w = 0 /\ count = 0) \/ (w = page_len /\ count = page_len)
  /\ at = "done" => count = page_len

\* Where write_block is: before the one write() or behind it.
BlockAt ==
  at = "block" =>
    /\ w = 0
    /\ \/ buf = 0 /\ v = 0 /\ size = page_len /\ count = 0
       \/ v = page_len /\ size = 0 /\ count = page_len

PageInv ==
  /\ PageFits
  /\ at \in {"head", "loop", "block", "done"}
  /\ ~part /\ ~broken => CallerAt /\ BlockAt

(***************************************************************************)
(* Up to the length of a page, and for 0, the unsigned numbers of          *)
(* write_block are the numbers themselves.                                 *)
(***************************************************************************)
LEMMA NothingLost ==
  ASSUME NEW n \in 0..MaxPage
  PROVE  n % Word = n
<1>1. Word \in Nat /\ MaxPage \in Nat /\ MaxPage < Word
  BY ResponseAssumption DEF P!PageAssumption
<1> QED
  BY <1>1

(***************************************************************************)
(* A page about to be sent satisfies the invariant.                        *)
(***************************************************************************)
LEMMA PageInitInv == P!PageInit => PageInv
  BY DEF P!PageInit, PageInv, PageFits, CallerAt, BlockAt

(***************************************************************************)
(* Every step of sending it keeps the invariant.                           *)
(***************************************************************************)
LEMMA PageNextInv == PageInv /\ P!PageNext => PageInv'
<1> SUFFICES ASSUME PageInv, P!PageNext
             PROVE  PageInv'
  OBVIOUS
<1> USE DEF PageInv, PageFits
<1>1. /\ MaxPage \in Nat /\ page_len \in 1..MaxPage /\ Word \in Nat
      /\ page_len % Word = page_len /\ 0 % Word = 0
  BY NothingLost, ResponseAssumption DEF P!PageAssumption
<1>2. CASE P!PageHead \/ P!PageHeadDone
  BY <1>1, <1>2 DEF P!PageHead, P!PageHeadDone, CallerAt, BlockAt
<1>3. CASE P!PageLoop
  <2> SUFFICES ASSUME ~part, ~broken
               PROVE  PageInv'
    BY <1>3 DEF P!PageLoop
  <2>1. CASE w = page_len
    BY <1>1, <1>3, <2>1 DEF P!PageLoop, CallerAt, BlockAt
  <2>2. CASE w # page_len
    <3>1. w = 0 /\ count = 0 /\ page_len - w = page_len
      BY <1>1, <1>3, <2>2 DEF P!PageLoop, CallerAt
    <3>2. at' = "block" /\ buf' = 0 /\ size' = page_len /\ v' = 0
      BY <1>1, <1>3, <2>2, <3>1 DEF P!PageLoop
    <3> QED
      BY <1>1, <1>3, <3>1, <3>2 DEF P!PageLoop, CallerAt, BlockAt
  <2> QED
    BY <2>1, <2>2
<1>4. CASE P!PageWrite
  <2> SUFFICES ASSUME ~part', ~broken'
               PROVE  CallerAt' /\ BlockAt'
    BY <1>4 DEF P!PageWrite
  <2> DEFINE from == (buf + v) % Word
             ask == (size - v) % Word
  <2>1. PICK n \in 0..ask :
          /\ v' = n
          /\ size' = (size - n) % Word
          /\ count' = IF from = count /\ from + n <= page_len THEN count + n ELSE MemLen + 1
          /\ part' = (part \/ n < ask)
    BY <1>4 DEF P!PageWrite
  <2>2. ~part /\ ~broken /\ at = "block" /\ size > 0
        /\ UNCHANGED <<at, page_len, w, broken>>
    BY <1>4, <2>1 DEF P!PageWrite
  <2>3. w = 0 /\ buf = 0 /\ v = 0 /\ size = page_len /\ count = 0
    BY <1>1, <2>2 DEF BlockAt
  <2>4. from = 0 /\ ask = page_len
    BY <1>1, <2>3
  <2> HIDE DEF from, ask
  <2>5. n = page_len
    <3>1. ~(n < ask)
      BY <2>1, Zenon
    <3>2. n \in 0..page_len
      BY <2>4
    <3>3. ~(n < page_len)
      BY <3>1, <2>4
    <3> QED
      BY <1>1, <3>2, <3>3
  <2>6. v' = page_len /\ size' = 0 /\ count' = page_len
    BY <1>1, <2>1, <2>3, <2>4, <2>5
  <2> QED
    BY <2>2, <2>3, <2>6 DEF CallerAt, BlockAt
<1>5. CASE P!PageReturn
  <2> SUFFICES ASSUME ~part, ~broken
               PROVE  CallerAt' /\ BlockAt'
    BY <1>5 DEF P!PageReturn
  <2>1. at = "block" /\ size = 0 /\ at' = "loop" /\ w' = (w + v) % Word
        /\ UNCHANGED <<page_len, count>>
    BY <1>5 DEF P!PageReturn
  <2>2. w = 0 /\ v = page_len /\ count = page_len
    BY <1>1, <2>1 DEF BlockAt
  <2>3. w' = page_len
    BY <1>1, <2>1, <2>2
  <2> QED
    BY <2>1, <2>2, <2>3 DEF CallerAt, BlockAt
<1>6. CASE P!PageHeadFail \/ P!PageFail
  BY <1>1, <1>6 DEF P!PageHeadFail, P!PageFail
<1> QED
  BY <1>2, <1>3, <1>4, <1>5, <1>6 DEF P!PageNext, P!PageStep

-----------------------------------------------------------------------------
(* Responses.                                                              *)

(***************************************************************************)
(* Of a response that is an image, or of none, SendFile speaks.            *)
(***************************************************************************)
THEOREM ImageRefined == ResponseSpec => Spec
<1>1. ResponseInit => Init
  BY DEF ResponseInit
<1>2. [ResponseNext]_responseVars => [Next]_vars
  BY DEF ResponseNext, SendImage, SendErrorPage, responseVars
<1> QED
  BY <1>1, <1>2, PTL DEF ResponseSpec, Spec

(***************************************************************************)
(* A response that is OK has sent the whole file, if it was never longer   *)
(* than the size given.                                                    *)
(***************************************************************************)
THEOREM ResponseSent == ResponseSpec => []AllSent
  BY ImageRefined, OKMeansAll, PTL

(***************************************************************************)
(* No response sends a byte of the file twice, or after a later one.       *)
(***************************************************************************)
THEOREM ResponseOnce == ResponseSpec => BytesOnce
  BY ImageRefined, NoByteTwice, PTL

(***************************************************************************)
(* A page of any length that is done has been sent whole, once and in      *)
(* order, unless a write() gave a part of it only or a call failed.        *)
(***************************************************************************)
THEOREM PageWhole == ResponseSpec => []PageRight
<1>1. ResponseInit => PageInv
  BY PageInitInv DEF ResponseInit
<1>2. PageInv /\ [ResponseNext]_responseVars => PageInv'
  <2>1. PageInv /\ UNCHANGED page => PageInv'
    BY DEF page, PageInv, PageFits, CallerAt, BlockAt
  <2> QED
    BY <2>1, PageNextInv DEF ResponseNext, SendImage, SendErrorPage, responseVars
<1>3. PageInv => PageRight
  BY DEF PageInv, CallerAt, PageRight, P!PageRight
<1> QED
  BY <1>1, <1>2, <1>3, PTL DEF ResponseSpec

=============================================================================

-------------------------- MODULE ImageCacheProofs --------------------------
(***************************************************************************)
(* Proofs about ImageCache, for any number of threads and images, any size *)
(* of the ring and any number of restarts.  The inductive invariant says   *)
(* which thread is entering an image and how far it is with the ring, who  *)
(* may have written part of a file only, what stands in the ring beside    *)
(* each path, and what a thread that has come to a place of the list, the  *)
(* right one or one too great, can have read so far.                       *)
(***************************************************************************)
EXTENDS ImageCache, FiniteSetTheorems, TLAPS

-----------------------------------------------------------------------------
(* The inductive invariant.                                                *)

Entering == {"append_path", "append_fd", "append_size", "append_next"}
Converted == {"measure", "append"} \cup Entering
Asking == Steps \ {"down", "idle"}

\* What a thread knows of its image at each step.
Asked ==
  \A w \in Worker :
    /\ pc[w] \in Asking => asked[w] \in Image
    /\ pc[w] \in {"write"} \cup Converted => asked[w] \notin Missing
    /\ pc[w] \in {"append"} \cup Entering => image_size[w] \in Nat

\* The mutex is held for as long as an image is being entered, by who does it.
Holder == \A w \in Worker : pc[w] \in Entering <=> fd_cache_mtx = w

\* When the process has ended nothing of the ring is left.
Cleared ==
  (\A w \in Worker : pc[w] = "down") =>
    /\ E = 0
    /\ fd_cache_mtx = NoOne
    /\ file_size = [k \in Place |-> 0]

\* All threads are down or none is.
Together == \A w, v \in Worker : pc[w] = "down" => pc[v] = "down"

\* Places of the list whose descriptor and size are in the ring.
Settled(k) == k < Len(list) \/ fd_cache_mtx = NoOne

\* The end of the list, or the path that is being entered, is at E.
Beside ==
  Running =>
    /\ IF fd_cache_mtx = NoOne THEN E = Len(list) % Ring
       ELSE Len(list) # 0 /\ E = (Len(list) - 1) % Ring /\ list[Len(list)] = asked[fd_cache_mtx]
    /\ \A k \in 1..Len(list) :
         k + Ring > Len(list) /\ Settled(k) => fd[(k - 1) % Ring] = list[k]
    /\ \A w \in Worker : pc[w] \in {"append_size", "append_next"} => fd[E] = asked[w]

\* The threads that missed an image and have not entered it.
Missed(im) ==
  {w \in Worker :
     /\ pc[w] \in {"beyond", "open", "read", "write", "measure", "append"}
     /\ asked[w] = im}

FewCopies ==
  \A im \in Image : Cardinality(Copies(im)) + Cardinality(Missed(im)) <= Cardinality(Worker)

NoneMissing == \A k \in 1..Len(list) : list[k] \notin Missing

\* Two threads that write a file at a time, or one that begins again before the
\* other has measured it, have clashed.
Apart ==
  \A w, v \in Worker :
    /\ w # v /\ pc[w] = "write" /\ pc[v] \in {"write", "measure"} /\ asked[w] = asked[v]
         => asked[w] \in clash

\* The size of a file, but where two threads wrote it.
Measured ==
  \A w \in Worker :
    /\ pc[w] = "measure" => disk[asked[w]] = Length[asked[w]] \/ asked[w] \in clash
    /\ pc[w] \in {"append"} \cup Entering => image_size[w] = Length[asked[w]] \/ asked[w] \in clash

\* What is in the ring beside a path, until the ring comes round.
Sizes ==
  Running /\ Len(list) <= Ring =>
    /\ \A k \in 1..Len(list) :
         Settled(k) => file_size[k - 1] = Length[list[k]] \/ list[k] \in clash
    /\ \A k \in Place : k >= Len(list) => file_size[k] = 0
    /\ \A w \in Worker :
         /\ pc[w] \in {"append_path", "append_fd", "append_size"} => file_size[E] = 0
         /\ pc[w] = "append_next" => file_size[E] = Length[asked[w]] \/ asked[w] \in clash

\* What a thread finds at a place of the list that is beside its own in the ring.
Paired(w) ==
  /\ idx[w] \in 0..(Len(list) - 1)
  /\ fd[idx[w]] = list[idx[w] + 1]
  /\ \/ image_size[w] = Length[list[idx[w] + 1]]
     \/ list[idx[w] + 1] \in clash

\* A size that sends nothing, or one from beyond the ring.
NoSize(w) ==
  \/ image_size[w] = 0 /\ (early[w] \/ late[w])
  \/ late[w] /\ idx[w] >= Ring

\* What a thread sends in the end.
Sent(w) ==
  /\ image_fd[w] \in Image
  /\ image_size[w] = Length[image_fd[w]] \/ image_fd[w] \in clash
  /\ ~late[w] => Matches(asked[w], image_fd[w])

\* What a thread has read, or will read, at the place it found.
HitRight(w) ==
  /\ pc[w] \in {"hit_size", "hit_fd"} =>
       /\ idx[w] \in Nat
       /\ ~late[w] => /\ idx[w] \in 0..(Len(list) - 1)
                      /\ Matches(asked[w], list[idx[w] + 1])
                      /\ ~early[w] => Settled(idx[w] + 1)
  /\ pc[w] = "hit_fd" /\ Len(list) <= Ring => NoSize(w) \/ Paired(w)
  /\ pc[w] = "send" /\ Len(list) <= Ring => NoSize(w) \/ Sent(w)

Hits == \A w \in Worker : HitRight(w)

CacheInv ==
  /\ TypeOK
  /\ Asked /\ Holder /\ Cleared /\ Together
  /\ Beside
  /\ FewCopies /\ NoneMissing
  /\ Apart /\ Measured /\ Sizes /\ Hits

-----------------------------------------------------------------------------
(* Places of a ring.                                                       *)

(***************************************************************************)
(* A number is made of its quotient and its remainder.                     *)
(***************************************************************************)
LEMMA Division ==
  ASSUME NEW n \in Nat, NEW d \in Nat \ {0}
  PROVE  /\ n \div d \in Nat
         /\ n % d \in 0..(d - 1)
         /\ n = d * (n \div d) + (n % d)
<1>1. n \div d \in Nat
  OBVIOUS
<1>2. n % d \in 0..(d - 1)
  OBVIOUS
<1>3. n = d * (n \div d) + (n % d)
  OBVIOUS
<1> QED
  BY <1>1, <1>2, <1>3

(***************************************************************************)
(* Multiples lie a whole divisor apart.                                    *)
(***************************************************************************)
LEMMA Multiples ==
  ASSUME NEW d \in Nat, NEW q \in Int, NEW p \in Int, q + 1 <= p
  PROVE  d * q + d <= d * p
<1> DEFINE k == p - (q + 1)
<1>1. k \in Nat /\ p = q + 1 + k
  OBVIOUS
<1>2. \A x \in Nat : d * x \in Nat
  OBVIOUS
<1> HIDE DEF k
<1>3. d * k \in Nat
  BY <1>1, <1>2
<1>4. d * (q + 1 + k) = d * q + d + d * k
  BY <1>1
<1>5. d * q \in Int
  OBVIOUS
<1> QED
  BY <1>1, <1>3, <1>4, <1>5

(***************************************************************************)
(* Numbers less than a ring apart have different places in it.             *)
(***************************************************************************)
LEMMA PlacesDiffer ==
  ASSUME NEW d \in Nat \ {0}, NEW a \in Nat, NEW b \in Nat, a < b, b < a + d
  PROVE  a % d # b % d
<1> SUFFICES ASSUME a % d = b % d PROVE FALSE
  OBVIOUS
<1> DEFINE q == a \div d
           p == b \div d
           r == a % d
<1>1. q \in Nat /\ p \in Nat /\ r \in 0..(d - 1)
  BY Division
<1>2. a = d * q + r /\ b = d * p + r
  BY Division
<1> HIDE DEF q, p, r
<1>3. d * q \in Int /\ d * p \in Int
  BY <1>1
<1>4. d * q < d * p /\ d * p < d * q + d
  BY <1>1, <1>2, <1>3
<1>5. CASE q >= p + 1
  BY <1>5, <1>1, <1>4, <1>3, Multiples
<1>6. CASE q = p
  BY <1>6, <1>4, <1>3
<1>7. CASE p >= q + 1
  BY <1>7, <1>1, <1>4, <1>3, Multiples
<1> QED
  BY <1>5, <1>6, <1>7, <1>1

(***************************************************************************)
(* The place after that of a number is the place of the next.              *)
(***************************************************************************)
LEMMA NextPlace ==
  ASSUME NEW d \in Nat \ {0}, NEW n \in Nat
  PROVE  ((n % d) + 1) % d = (n + 1) % d
<1> DEFINE q == n \div d
           r == n % d
           p == (n + 1) \div d
           s == (n + 1) % d
<1>1. n + 1 \in Nat
  OBVIOUS
<1>2. q \in Nat /\ p \in Nat /\ r \in 0..(d - 1) /\ s \in 0..(d - 1)
  BY <1>1, Division
<1>3. n = d * q + r /\ n + 1 = d * p + s
  BY <1>1, Division
<1>4. (r + 1) % d = s
  <2> HIDE DEF q, p, r, s
  <2>1. d * q \in Int /\ d * p \in Int
    BY <1>2
  <2>2. CASE p >= q + 2
    <3>1. q + 1 <= p - 1 /\ p - 1 \in Int /\ (p - 1) + 1 <= p
      BY <2>2, <1>2
    <3>2. d * q + d <= d * (p - 1)
      BY <3>1, <1>2, Multiples
    <3>3. d * (p - 1) + d <= d * p
      BY <3>1, <1>2, Multiples
    <3>4. d * (p - 1) \in Int
      BY <1>2
    <3> QED
      BY <3>2, <3>3, <3>4, <1>2, <1>3, <2>1
  <2>3. CASE p + 1 <= q
    <3>1. d * p + d <= d * q
      BY <2>3, <1>2, Multiples
    <3> QED
      BY <3>1, <1>2, <1>3, <2>1
  <2>4. CASE p = q
    <3>1. r + 1 = s
      BY <2>4, <1>2, <1>3, <2>1
    <3> QED
      BY <3>1, <1>2
  <2>5. CASE p = q + 1
    <3>1. d * q + d = d * p
      BY <2>5, <1>2
    <3>2. r + 1 = d /\ s = 0
      BY <3>1, <1>2, <1>3, <2>1
    <3>3. d % d = 0
      OBVIOUS
    <3> QED
      BY <3>2, <3>3
  <2> QED
    BY <2>2, <2>3, <2>4, <2>5, <1>2
<1> QED
  BY <1>4

-----------------------------------------------------------------------------
(* A server that has just been started.                                    *)

(***************************************************************************)
(* It satisfies the invariant.                                             *)
(***************************************************************************)
LEMMA InitInv == Init => CacheInv
<1> SUFFICES ASSUME Init PROVE CacheInv
  OBVIOUS
<1>1. TypeOK
  <2>1. Ring - 1 \in Nat /\ 0 \in Place
    BY ImageAssumption DEF Place
  <2>2. early \in [Worker -> BOOLEAN] /\ late \in [Worker -> BOOLEAN]
    BY DEF Init
  <2> QED
    BY <2>1, <2>2, ImageAssumption DEF Init, TypeOK, Steps
<1>2. Asked /\ Holder /\ Cleared /\ Together
  BY ImageAssumption DEF Init, Asked, Holder, Cleared, Together, Asking, Converted, Entering
<1>3. Len(list) = 0
  BY DEF Init
<1>4. Beside
  <2>1. 0 % Ring = 0
    BY ImageAssumption
  <2> QED
    BY <1>3, <2>1 DEF Init, Beside
<1>5. FewCopies
  <2> SUFFICES ASSUME NEW im \in Image
               PROVE  Cardinality(Copies(im)) + Cardinality(Missed(im)) <= Cardinality(Worker)
    BY DEF FewCopies
  <2>1. Copies(im) = {} /\ Missed(im) = {}
    BY <1>3 DEF Init, Copies, Missed
  <2> QED
    BY <2>1, FS_EmptySet, FS_CardinalityType, ImageAssumption
<1>6. NoneMissing /\ Apart /\ Measured /\ Hits
  BY <1>3 DEF Init, NoneMissing, Apart, Measured, Hits, HitRight, Converted, Entering
<1>7. Sizes
  BY <1>3 DEF Init, Sizes
<1> QED
  BY <1>1, <1>2, <1>4, <1>5, <1>6, <1>7 DEF CacheInv

-----------------------------------------------------------------------------
(* Types.                                                                  *)

(***************************************************************************)
(* A step that does not end the process, nor start it, is one thread's.    *)
(***************************************************************************)
Others(w) ==
  \A v \in Worker \ {w} :
    /\ pc'[v] = pc[v]
    /\ asked'[v] = asked[v]
    /\ idx'[v] = idx[v]
    /\ image_fd'[v] = image_fd[v]
    /\ image_size'[v] = image_size[v]
    /\ early'[v] = early[v]
    /\ late'[v] = late[v]

\* Steps that leave the list, the ring and the mutex alone.
Searching(w) ==
  SearchNone(w) \/ SearchHit(w) \/ SearchPast(w) \/ SearchLate(w) \/ SearchEnd(w)
Beginning(w) == Ask(w) \/ Searching(w) \/ HitSize(w) \/ HitFd(w) \/ Open(w)
Ending(w) == NotPresent(w) \/ Send(w) \/ SendShort(w) \/ SendLate(w)
Working(w) == WriteBegin(w) \/ WriteEnd(w) \/ Measure(w)
Entry(w) == AppendPath(w) \/ AppendEnd(w) \/ AppendFd(w) \/ AppendSize(w) \/ AppendNext(w)

(***************************************************************************)
(* These are all the steps there are.                                      *)
(***************************************************************************)
LEMMA AllSteps ==
  [Next]_vars <=>
    \/ \E w \in Worker : Beginning(w) \/ Ending(w) \/ Working(w) \/ Entry(w) \/ Abort(w)
    \/ Crash \/ Restart \/ UNCHANGED vars
BY DEF Next, WorkerStep, Beginning, Searching, Ending, Working, Entry

(***************************************************************************)
(* What the ring and the sizes of files are made of.                       *)
(***************************************************************************)
LEMMA Sorts ==
  /\ 0 \in Place
  /\ \A n \in Nat : n % Ring \in Place
  /\ \A k \in Place : (k + 1) % Ring \in Place
  /\ Place \subseteq Nat
<1>1. Ring \in Nat \ {0}
  BY ImageAssumption
<1>2. \A n \in Nat : n % Ring \in Place
  BY <1>1, Division DEF Place
<1> QED
  BY <1>1, <1>2 DEF Place

(***************************************************************************)
(* Every step keeps the types.                                             *)
(***************************************************************************)
LEMMA TypeKept == CacheInv /\ [Next]_vars => TypeOK'
<1> SUFFICES ASSUME CacheInv, [Next]_vars PROVE TypeOK'
  OBVIOUS
<1> USE DEF CacheInv, TypeOK, Steps, Go, local, cache
<1>1. ASSUME NEW w \in Worker, Ask(w) PROVE TypeOK'
  BY <1>1 DEF Ask
<1>2. ASSUME NEW w \in Worker, Searching(w) PROVE TypeOK'
  <2>1. ASSUME NEW k \in Nat, NEW p \in Nat, Hit(w, k, p), late' \in [Worker -> BOOLEAN]
        PROVE  TypeOK'
    <3>1. early' \in [Worker -> BOOLEAN]
      BY <2>1 DEF Hit
    <3> QED
      BY <2>1, <3>1 DEF Hit
  <2>2. CASE Miss(w)
    BY <2>2 DEF Miss
  <2>3. CASE SearchHit(w)
    <3>1. PICK k \in 1..Len(list) : Hit(w, k, k - 1)
      BY <2>3 DEF SearchHit, Listed
    <3>2. k \in Nat /\ k - 1 \in Nat
      OBVIOUS
    <3>3. late' \in [Worker -> BOOLEAN]
      BY <2>3 DEF SearchHit
    <3> QED
      BY <2>1, <3>1, <3>2, <3>3
  <2>4. CASE SearchLate(w)
    <3>1. PICK k \in 1..Len(list) : \E p \in k..(Size - 1) : Hit(w, k, p)
      BY <2>4 DEF SearchLate, Listed
    <3>2. PICK p \in k..(Size - 1) : Hit(w, k, p)
      BY <3>1
    <3>3. late' \in [Worker -> BOOLEAN]
      BY <2>4 DEF SearchLate
    <3>4. k \in Nat /\ p \in Nat
      BY ImageAssumption
    <3> QED
      BY <2>1, <3>2, <3>3, <3>4
  <2>5. CASE SearchPast(w)
    <3>1. PICK n \in Seen : passed' = [passed EXCEPT ![w] = n]
      BY <2>5 DEF SearchPast
    <3>2. n \in Nat
      BY <2>5 DEF SearchPast, Seen
    <3> QED
      BY <2>5, <3>1, <3>2 DEF SearchPast
  <2> QED
    BY <1>2, <2>2, <2>3, <2>4, <2>5 DEF Searching, SearchNone, SearchEnd
<1>3. ASSUME NEW w \in Worker, HitSize(w) PROVE TypeOK'
  BY <1>3 DEF HitSize
<1>4. ASSUME NEW w \in Worker, HitFd(w) PROVE TypeOK'
  BY <1>4 DEF HitFd
<1>5. ASSUME NEW w \in Worker, Open(w) PROVE TypeOK'
  BY <1>5 DEF Open
<1>6. ASSUME NEW w \in Worker, Ending(w) PROVE TypeOK'
  <2>1. CASE Finish(w) /\ UNCHANGED <<cache, disk, boots, clash>>
    BY <2>1, ImageAssumption DEF Finish
  <2>2. CASE SendShort(w)
    BY <2>2 DEF SendShort
  <2> QED
    BY <1>6, <2>1, <2>2 DEF Ending, NotPresent, Send, SendLate
<1>7. ASSUME NEW w \in Worker, WriteBegin(w) PROVE TypeOK'
  <2>1. disk' \in [Image -> Nat]
    <3>1. asked[w] \in Image
      BY <1>7 DEF WriteBegin, Asked, Asking
    <3>2. PICK s \in 0..(Length[asked[w]] - 1) : disk' = [disk EXCEPT ![asked[w]] = s]
      BY <1>7 DEF WriteBegin
    <3>3. Length[asked[w]] \in Nat \ {0}
      BY <3>1, ImageAssumption
    <3>4. s \in Nat
      BY <3>3
    <3> QED
      BY <3>2, <3>4
  <2>2. clash' \subseteq Image
    BY <1>7 DEF WriteBegin, Asked, Asking
  <2> QED
    BY <1>7, <2>1, <2>2 DEF WriteBegin
<1>8. ASSUME NEW w \in Worker, WriteEnd(w) PROVE TypeOK'
  <2>1. disk' \in [Image -> Nat]
    <3>1. asked[w] \in Image
      BY <1>8 DEF WriteEnd, Asked, Asking
    <3>2. PICK s \in 0..Length[asked[w]] : disk' = [disk EXCEPT ![asked[w]] = s]
      BY <1>8 DEF WriteEnd
    <3>3. Length[asked[w]] \in Nat \ {0}
      BY <3>1, ImageAssumption
    <3>4. s \in Nat
      BY <3>3
    <3> QED
      BY <3>2, <3>4
  <2> QED
    BY <1>8, <2>1 DEF WriteEnd
<1>9. ASSUME NEW w \in Worker, Measure(w) PROVE TypeOK'
  BY <1>9 DEF Measure, Asked, Asking
<1>10. ASSUME NEW w \in Worker, AppendPath(w) PROVE TypeOK'
  <2>1. asked[w] \in Image
    BY <1>10 DEF AppendPath, Asked, Asking
  <2>2. list' \in Seq(Image)
    BY <1>10, <2>1 DEF AppendPath
  <2> QED
    BY <1>10, <2>2 DEF AppendPath
<1>11. ASSUME NEW w \in Worker, AppendEnd(w) \/ AppendFd(w) PROVE TypeOK'
  BY <1>11 DEF AppendEnd, AppendFd, Asked, Asking
<1>12. ASSUME NEW w \in Worker, AppendSize(w) PROVE TypeOK'
  BY <1>12 DEF AppendSize, Asked, Entering
<1>13. ASSUME NEW w \in Worker, AppendNext(w) PROVE TypeOK'
  BY <1>13, Sorts DEF AppendNext, Asked, Asking
<1>14. ASSUME Halt PROVE TypeOK'
  <2>1. early' \in [Worker -> BOOLEAN] /\ late' \in [Worker -> BOOLEAN]
    BY <1>14 DEF Halt
  <2> QED
    BY <1>14, <2>1, Sorts DEF Halt
<1>15. ASSUME Restart PROVE TypeOK'
  BY <1>15, ImageAssumption DEF Restart
<1>16. ASSUME UNCHANGED vars PROVE TypeOK'
  BY <1>16 DEF vars
<1> QED
  BY <1>1, <1>2, <1>3, <1>4, <1>5, <1>6, <1>7, <1>8, <1>9, <1>10, <1>11, <1>12, <1>13,
     <1>14, <1>15, <1>16, AllSteps DEF Beginning, Working, Entry, Abort, Crash

(***************************************************************************)
(* What a step of one thread does to the others: nothing.                  *)
(***************************************************************************)
LEMMA OthersStay ==
  ASSUME TypeOK, NEW w \in Worker,
         Beginning(w) \/ Ending(w) \/ Working(w) \/ Entry(w)
  PROVE  Others(w)
<1> USE DEF TypeOK, Others, Go, local, cache
<1>1. CASE Beginning(w)
  BY <1>1 DEF Beginning, Searching, Ask, SearchNone, SearchHit, SearchPast,
                SearchLate, SearchEnd, Hit, Miss, HitSize, HitFd, Open
<1>2. CASE Ending(w)
  BY <1>2 DEF Ending, NotPresent, Send, SendShort, SendLate, Finish
<1>3. CASE Working(w)
  BY <1>3 DEF Working, WriteBegin, WriteEnd, Measure
<1>4. CASE Entry(w)
  BY <1>4 DEF Entry, AppendPath, AppendEnd, AppendFd, AppendSize, AppendNext
<1> QED
  BY <1>1, <1>2, <1>3, <1>4

(***************************************************************************)
(* Steps that are not those of an entry leave the list, the ring and the   *)
(* mutex alone, and their thread has nothing to do with them.              *)
(***************************************************************************)
LEMMA CacheStays ==
  ASSUME TypeOK, NEW w \in Worker, Beginning(w) \/ Ending(w) \/ Working(w)
  PROVE  /\ UNCHANGED cache
         /\ pc[w] \notin Entering \cup {"down"}
         /\ pc'[w] \notin Entering \cup {"down"}
<1> USE DEF TypeOK, Go, local, cache, Entering
<1>1. CASE Beginning(w)
  BY <1>1 DEF Beginning, Searching, Ask, SearchNone, SearchHit, SearchPast,
                SearchLate, SearchEnd, Hit, Miss, HitSize, HitFd, Open
<1>2. CASE Ending(w)
  BY <1>2 DEF Ending, NotPresent, Send, SendShort, SendLate, Finish
<1>3. CASE Working(w)
  BY <1>3 DEF Working, WriteBegin, WriteEnd, Measure
<1> QED
  BY <1>1, <1>2, <1>3

(***************************************************************************)
(* Every step keeps what a thread knows of its image.                      *)
(***************************************************************************)
LEMMA AskedKept == CacheInv /\ [Next]_vars => Asked'
<1> SUFFICES ASSUME CacheInv, [Next]_vars PROVE Asked'
  OBVIOUS
<1> USE DEF CacheInv
<1> DEFINE Knows(v) ==
      /\ pc[v] \in Asking => asked[v] \in Image
      /\ pc[v] \in {"write"} \cup Converted => asked[v] \notin Missing
      /\ pc[v] \in {"append"} \cup Entering => image_size[v] \in Nat
<1>1. ASSUME NEW w \in Worker, Others(w), NEW v \in Worker \ {w} PROVE Knows(v)'
  BY <1>1 DEF Others, Asked
<1>2. ASSUME NEW w \in Worker, Beginning(w) PROVE Knows(w)'
  <2> USE <1>2 DEF TypeOK, Asked, Asking, Converted, Entering, Steps, Go, local
  <2>1. CASE Ask(w)
    BY <2>1 DEF Ask
  <2>2. CASE Searching(w)
    BY <2>2 DEF Searching, SearchNone, SearchHit, SearchPast, SearchLate, SearchEnd, Hit, Miss
  <2>3. CASE HitSize(w)
    BY <2>3 DEF HitSize
  <2>4. CASE HitFd(w)
    BY <2>4 DEF HitFd
  <2>5. CASE Open(w)
    BY <2>5 DEF Open
  <2> QED
    BY <2>1, <2>2, <2>3, <2>4, <2>5 DEF Beginning
<1>3. ASSUME NEW w \in Worker, Ending(w) PROVE Knows(w)'
  BY <1>3 DEF Ending, NotPresent, Send, SendShort, SendLate, Finish, TypeOK, Asked, Asking,
              Converted, Entering, Steps, Go, local
<1>4. ASSUME NEW w \in Worker, Working(w) PROVE Knows(w)'
  BY <1>4 DEF Working, WriteBegin, WriteEnd, Measure, TypeOK, Asked, Asking, Converted,
              Entering, Steps, Go, local
<1>5. ASSUME NEW w \in Worker, Entry(w) PROVE Knows(w)'
  BY <1>5 DEF Entry, AppendPath, AppendEnd, AppendFd, AppendSize, AppendNext, TypeOK, Asked, Asking,
              Converted, Entering, Steps, Go, local
<1>6. ASSUME Halt PROVE Asked'
  BY <1>6 DEF Halt, Asked, Asking, Converted, Entering
<1>7. ASSUME Restart PROVE Asked'
  BY <1>7 DEF Restart, Asked, Asking, Converted, Entering
<1>8. ASSUME UNCHANGED vars PROVE Asked'
  BY <1>8 DEF vars, local, Asked
<1> HIDE DEF Knows
<1>9. ASSUME NEW w \in Worker, Others(w), Knows(w)' PROVE \A v \in Worker : Knows(v)'
  BY <1>1, <1>9
<1>10. (\A v \in Worker : Knows(v)') => Asked'
  BY DEF Asked, Knows
<1> QED
  BY <1>2, <1>3, <1>4, <1>5, <1>6, <1>7, <1>8, <1>9, <1>10, OthersStay, AllSteps
     DEF Abort, Crash

-----------------------------------------------------------------------------
(* The mutex and the ring.                                                 *)

(***************************************************************************)
(* Every step keeps who holds the mutex.                                   *)
(***************************************************************************)
LEMMA HolderKept == CacheInv /\ [Next]_vars => Holder'
<1> SUFFICES ASSUME CacheInv, [Next]_vars PROVE Holder'
  OBVIOUS
<1> USE DEF CacheInv, TypeOK, Entering
<1>1. ASSUME NEW w \in Worker, Beginning(w) \/ Ending(w) \/ Working(w) PROVE Holder'
  <2>1. /\ fd_cache_mtx' = fd_cache_mtx /\ Others(w)
        /\ pc[w] \notin Entering /\ pc'[w] \notin Entering
    BY <1>1, CacheStays, OthersStay DEF cache
  <2> QED
    BY <2>1 DEF Holder, Others
<1>2. ASSUME NEW w \in Worker, Entry(w) PROVE Holder'
  <2> USE ImageAssumption DEF Holder, Go
  <2>1. CASE AppendPath(w)
    BY <2>1 DEF AppendPath
  <2>2. CASE AppendEnd(w) \/ AppendFd(w)
    BY <2>2 DEF AppendEnd, AppendFd, cache
  <2>3. CASE AppendSize(w)
    BY <2>3 DEF AppendSize
  <2>4. CASE AppendNext(w)
    BY <2>4 DEF AppendNext
  <2> QED
    BY <1>2, <2>1, <2>2, <2>3, <2>4 DEF Entry
<1>3. ASSUME Halt PROVE Holder'
  BY <1>3, ImageAssumption DEF Halt, Holder
<1>4. ASSUME Restart PROVE Holder'
  BY <1>4 DEF Restart, Holder, cache
<1>5. ASSUME UNCHANGED vars PROVE Holder'
  BY <1>5 DEF vars, cache, Holder
<1> QED
  BY <1>1, <1>2, <1>3, <1>4, <1>5, AllSteps DEF Abort, Crash

(***************************************************************************)
(* A thread that takes a step is not down, and so none is.                 *)
(***************************************************************************)
LEMMA StillRunning ==
  ASSUME TypeOK, Together, NEW w \in Worker,
         Beginning(w) \/ Ending(w) \/ Working(w) \/ Entry(w)
  PROVE  Running /\ Running'
<1>1. pc[w] # "down" /\ pc'[w] # "down"
  <2>1. CASE Entry(w)
    BY <2>1 DEF Entry, AppendPath, AppendEnd, AppendFd, AppendSize, AppendNext, Go, TypeOK
  <2> QED
    BY <2>1, CacheStays
<1>2. Running
  BY <1>1 DEF Together, Running
<1>3. Others(w)
  BY OthersStay
<1> QED
  BY <1>1, <1>2, <1>3 DEF Running, Others

(***************************************************************************)
(* Every step keeps what is left of a server that has ended.               *)
(***************************************************************************)
LEMMA ClearedKept == CacheInv /\ [Next]_vars => Cleared' /\ Together'
<1> SUFFICES ASSUME CacheInv, [Next]_vars PROVE Cleared' /\ Together'
  OBVIOUS
<1> USE DEF CacheInv
<1>1. ASSUME NEW w \in Worker, Beginning(w) \/ Ending(w) \/ Working(w) \/ Entry(w)
      PROVE  Cleared' /\ Together'
  BY <1>1, StillRunning DEF Running, Cleared, Together
<1>2. ASSUME Halt PROVE Cleared' /\ Together'
  BY <1>2 DEF Halt, Cleared, Together, Place
<1>3. ASSUME Restart PROVE Cleared' /\ Together'
  BY <1>3 DEF Restart, Cleared, Together, Place
<1>4. ASSUME UNCHANGED vars PROVE Cleared' /\ Together'
  BY <1>4 DEF vars, cache, Cleared, Together, Place
<1> QED
  BY <1>1, <1>2, <1>3, <1>4, AllSteps DEF Abort, Crash

(***************************************************************************)
(* The five steps of an entry keep the ring beside the end of the list.    *)
(***************************************************************************)
LEMMA EntryBeside ==
  ASSUME CacheInv, NEW w \in Worker, Entry(w)
  PROVE  Beside'
<1> USE DEF CacheInv
<1> DEFINE n == Len(list)
<1>1. /\ Running /\ n \in Nat /\ Ring \in Nat \ {0} /\ w # NoOne /\ asked[w] \in Image
      /\ \A k \in 1..n : k - 1 \in Nat
  <2>1. pc[w] \in {"append"} \cup Entering
    BY DEF Entry, AppendPath, AppendEnd, AppendFd, AppendSize, AppendNext, Entering
  <2>2. asked[w] \in Image
    BY <2>1 DEF Asked, Asking, Steps, Entering
  <2> QED
    BY <2>2, StillRunning, ImageAssumption DEF TypeOK
<1>2. CASE AppendPath(w)
  <2>1. /\ pc' = [pc EXCEPT ![w] = "append_path"] /\ fd_cache_mtx = NoOne /\ fd_cache_mtx' = w
        /\ list' = Append(list, asked[w]) /\ UNCHANGED <<asked, fd, E>>
    BY <1>2 DEF AppendPath, Go, local
  <2>2. /\ Len(list') = n + 1 /\ list'[n + 1] = asked[w]
        /\ \A k \in 1..n : list'[k] = list[k]
    BY <2>1, <1>1 DEF TypeOK
  <2>3. E' = (Len(list') - 1) % Ring
    BY <1>1, <2>1, <2>2 DEF Beside
  <2>4. \A k \in 1..Len(list') :
          k + Ring > Len(list') /\ Settled(k)' => fd'[(k - 1) % Ring] = list'[k]
    BY <1>1, <2>1, <2>2 DEF Beside, Settled
  <2>5. \A v \in Worker : pc'[v] \notin {"append_size", "append_next"}
    BY <2>1, ImageAssumption DEF Holder, Entering, TypeOK
  <2> QED
    BY <1>1, <2>1, <2>2, <2>3, <2>4, <2>5 DEF Beside
<1>3. ASSUME NEW v \in Worker, v # w, pc[w] \in Entering PROVE pc[v] \notin Entering
  BY <1>3 DEF Holder
<1>4. ASSUME pc[w] \in Entering
      PROVE  /\ fd_cache_mtx = w /\ n # 0 /\ E = (n - 1) % Ring /\ list[n] = asked[w]
             /\ E \in Place /\ n - 1 \in Nat
  BY <1>1, <1>4 DEF Holder, Beside, TypeOK
<1>5. CASE AppendFd(w)
  <2>1. /\ pc[w] = "append_fd" /\ pc' = [pc EXCEPT ![w] = "append_size"]
        /\ fd' = [fd EXCEPT ![E] = asked[w]]
        /\ UNCHANGED <<asked, list, E, fd_cache_mtx>>
    BY <1>5 DEF AppendFd, Go, local
  <2>2. ASSUME NEW k \in 1..n, k + Ring > n, Settled(k)
        PROVE  fd'[(k - 1) % Ring] = list[k]
    <3>1. k < n /\ k - 1 \in Nat
      BY <2>1, <2>2, <1>1, <1>4 DEF Settled, Entering
    <3>2. (k - 1) % Ring # (n - 1) % Ring
      <4>1. n - 1 \in Nat /\ k - 1 < n - 1 /\ n - 1 < (k - 1) + Ring
        BY <1>1, <2>2, <3>1
      <4> QED
        BY <1>1, <3>1, <4>1, PlacesDiffer
    <3>3. (k - 1) % Ring \in Place
      BY <3>1, Sorts
    <3>4. fd[(k - 1) % Ring] = list[k]
      BY <2>2, <1>1 DEF Beside
    <3> QED
      BY <3>2, <3>3, <3>4, <2>1, <1>4 DEF TypeOK, Entering
  <2>3. fd'[E] = asked[w]
    BY <2>1, <1>4 DEF TypeOK, Entering
  <2>4. \A v \in Worker : v # w => pc'[v] \notin {"append_size", "append_next"}
    BY <2>1, <1>3 DEF TypeOK, Entering
  <2>5. \A k \in 1..n : Settled(k)' = Settled(k)
    BY <2>1 DEF Settled
  <2> QED
    BY <1>1, <1>4, <2>1, <2>2, <2>3, <2>4, <2>5 DEF Beside, Entering
<1>6. CASE AppendEnd(w) \/ AppendSize(w)
  BY <1>1, <1>6 DEF AppendEnd, AppendSize, Go, local, cache, Beside, Settled, TypeOK
<1>7. CASE AppendNext(w)
  <2>1. /\ pc[w] = "append_next" /\ pc' = [pc EXCEPT ![w] = "send"]
        /\ E' = (E + 1) % Ring /\ fd_cache_mtx' = NoOne
        /\ UNCHANGED <<asked, list, fd>>
    BY <1>7 DEF AppendNext, Go
  <2>2. E' = n % Ring
    <3>1. E = (n - 1) % Ring /\ n - 1 \in Nat /\ (n - 1) + 1 = n
      BY <1>1, <1>4, <2>1 DEF Entering
    <3>2. (((n - 1) % Ring) + 1) % Ring = ((n - 1) + 1) % Ring
      BY <1>1, <3>1, NextPlace
    <3> QED
      BY <2>1, <3>1, <3>2
  <2>3. ASSUME NEW k \in 1..n, k + Ring > n
        PROVE  fd[(k - 1) % Ring] = list[k]
    <3>1. CASE k < n
      BY <3>1, <2>3, <1>1 DEF Beside, Settled
    <3>2. CASE k = n
      BY <3>2, <2>1, <1>1, <1>4 DEF Beside, Entering
    <3> QED
      BY <3>1, <3>2, <1>1
  <2>4. \A v \in Worker : pc'[v] \notin {"append_size", "append_next"}
    BY <2>1, <1>3 DEF TypeOK, Entering
  <2> QED
    BY <2>1, <2>2, <2>3, <2>4 DEF Beside
<1> QED
  BY <1>2, <1>5, <1>6, <1>7 DEF Entry

(***************************************************************************)
(* Every step keeps the ring beside the end of the list.                   *)
(***************************************************************************)
LEMMA BesideKept == CacheInv /\ [Next]_vars => Beside'
<1> SUFFICES ASSUME CacheInv, [Next]_vars PROVE Beside'
  OBVIOUS
<1> USE DEF CacheInv
<1>1. ASSUME NEW w \in Worker, Beginning(w) \/ Ending(w) \/ Working(w) PROVE Beside'
  <2>1. /\ Others(w) /\ Running /\ UNCHANGED <<list, fd, E, fd_cache_mtx>>
        /\ pc[w] \notin Entering /\ pc'[w] \notin Entering
    BY <1>1, CacheStays, OthersStay, StillRunning DEF cache
  <2>2. fd_cache_mtx # NoOne => asked'[fd_cache_mtx] = asked[fd_cache_mtx]
    BY <2>1 DEF Holder, Others, TypeOK
  <2>3. \A v \in Worker :
          pc'[v] \in {"append_size", "append_next"} => fd[E] = asked'[v]
    BY <2>1 DEF Others, Beside, Entering
  <2> QED
    BY <2>1, <2>2, <2>3 DEF Beside, Settled
<1>2. ASSUME NEW w \in Worker, Halt PROVE Beside'
  BY <1>2 DEF Halt, Beside, Running
<1>3. ASSUME Restart PROVE Beside'
  <2>1. E' = 0 /\ fd_cache_mtx' = NoOne /\ Len(list') = 0
    BY <1>3 DEF Restart, Cleared
  <2>2. 0 % Ring = 0
    BY ImageAssumption
  <2>3. \A v \in Worker : pc'[v] = "idle"
    BY <1>3 DEF Restart
  <2> QED
    BY <2>1, <2>2, <2>3 DEF Beside
<1>4. ASSUME UNCHANGED vars PROVE Beside'
  BY <1>4 DEF vars, local, cache, Beside, Settled, Running
<1> QED
  BY <1>1, <1>2, <1>3, <1>4, EntryBeside, AllSteps DEF Abort, Crash

-----------------------------------------------------------------------------
(* Copies of an image.                                                     *)

(***************************************************************************)
(* What is counted is finite, and no more threads miss an image than there *)
(* are.                                                                    *)
(***************************************************************************)
LEMMA Counted ==
  ASSUME TypeOK, NEW im \in Image
  PROVE  /\ IsFiniteSet(Copies(im)) /\ Cardinality(Copies(im)) \in Nat
         /\ IsFiniteSet(Missed(im)) /\ Cardinality(Missed(im)) \in Nat
         /\ Cardinality(Missed(im)) <= Cardinality(Worker) /\ Cardinality(Worker) \in Nat
<1>1. Len(list) \in Int /\ 1 \in Int
  BY DEF TypeOK
<1>2. IsFiniteSet(1..Len(list))
  BY <1>1, FS_Interval
<1>3. Copies(im) \in SUBSET (1..Len(list)) /\ Missed(im) \in SUBSET Worker
  BY DEF Copies, Missed
<1>4. IsFiniteSet(Copies(im))
  BY <1>2, <1>3, FS_Subset
<1>5. IsFiniteSet(Missed(im)) /\ Cardinality(Missed(im)) <= Cardinality(Worker)
  BY <1>3, FS_Subset, ImageAssumption
<1> QED
  BY <1>4, <1>5, FS_CardinalityType, ImageAssumption

(***************************************************************************)
(* An image of which there are no more copies, and which no more threads   *)
(* miss, stays within the bound.                                           *)
(***************************************************************************)
LEMMA NoMoreCopies ==
  ASSUME CacheInv, NEW im \in Image,
         Copies(im)' = Copies(im), Missed(im)' \subseteq Missed(im)
  PROVE  (Cardinality(Copies(im)) + Cardinality(Missed(im)) <= Cardinality(Worker))'
<1> DEFINE T == Missed(im)'
<1>1. T \in SUBSET Missed(im)
  OBVIOUS
<1> HIDE DEF T
<1>2. /\ IsFiniteSet(Missed(im)) /\ Cardinality(Missed(im)) \in Nat
      /\ Cardinality(Copies(im)) \in Nat /\ Cardinality(Worker) \in Nat
  BY Counted DEF CacheInv
<1>3. Cardinality(T) \in Nat /\ Cardinality(T) <= Cardinality(Missed(im))
  BY <1>1, <1>2, FS_Subset, FS_CardinalityType
<1>4. Cardinality(Copies(im)) + Cardinality(Missed(im)) <= Cardinality(Worker)
  BY DEF CacheInv, FewCopies
<1>5. Cardinality(Copies(im)) + Cardinality(T) <= Cardinality(Worker)
  BY <1>2, <1>3, <1>4
<1> QED
  BY <1>5 DEF T

(***************************************************************************)
(* A search that passes the list finds no copy of its image there, but one *)
(* perhaps that is just being entered, by a thread that misses nothing.    *)
(***************************************************************************)
LEMMA FewWhenPassed ==
  ASSUME CacheInv, NEW im \in Image, NEW n \in Seen, Listed(im, n) = {},
         NEW T \in SUBSET {w \in Worker : pc[w] # "append_path"}
  PROVE  Cardinality(Copies(im)) + Cardinality(T) <= Cardinality(Worker)
<1> USE DEF CacheInv
<1>1. /\ IsFiniteSet(Worker) /\ Cardinality(Worker) \in Nat /\ Len(list) \in Nat
      /\ T \in SUBSET Worker
  BY ImageAssumption, FS_CardinalityType DEF TypeOK
<1>2. IsFiniteSet(T) /\ Cardinality(T) \in Nat /\ Cardinality(T) <= Cardinality(Worker)
  BY <1>1, FS_Subset, FS_CardinalityType
<1>3. \A k \in 1..n : list[k] # im
  BY DEF Listed, Matches
<1>4. CASE n = Len(list)
  <2>1. Copies(im) = {}
    BY <1>3, <1>4 DEF Copies
  <2> QED
    BY <2>1, <1>1, <1>2, FS_EmptySet
<1>5. CASE n # Len(list)
  <2>1. PICK v \in Worker : pc[v] = "append_path" /\ n = Len(list) - 1
    BY <1>5 DEF Seen
  <2>2. Copies(im) \in SUBSET {Len(list)}
    BY <1>1, <1>3, <2>1 DEF Copies
  <2>3. Cardinality(Copies(im)) \in Nat /\ Cardinality(Copies(im)) <= 1
    <3>1. IsFiniteSet({Len(list)}) /\ Cardinality({Len(list)}) = 1
      BY FS_Singleton
    <3> QED
      BY <2>2, <3>1, FS_Subset, FS_CardinalityType
  <2>4. T \in SUBSET (Worker \ {v})
    BY <1>1, <2>1
  <2>5. IsFiniteSet(Worker \ {v}) /\ Cardinality(Worker \ {v}) = Cardinality(Worker) - 1
    BY <1>1, FS_RemoveElement
  <2>6. Cardinality(T) <= Cardinality(Worker) - 1
    BY <2>4, <2>5, FS_Subset
  <2> QED
    BY <1>1, <1>2, <2>3, <2>6
<1> QED
  BY <1>4, <1>5

(***************************************************************************)
(* Every step keeps the number of copies within the number of threads.     *)
(***************************************************************************)
LEMMA CopiesKept == CacheInv /\ [Next]_vars => FewCopies'
<1> SUFFICES ASSUME CacheInv, [Next]_vars, NEW im \in Image
             PROVE  (Cardinality(Copies(im)) + Cardinality(Missed(im)) <= Cardinality(Worker))'
  BY DEF FewCopies
<1> DEFINE Bound == Cardinality(Copies(im)) + Cardinality(Missed(im)) <= Cardinality(Worker)
<1>1. TypeOK /\ TypeOK'
  BY TypeKept DEF CacheInv
<1>2. list' = list => Copies(im)' = Copies(im)
  BY DEF Copies
<1>3. ASSUME NEW w \in Worker, Beginning(w) \/ Ending(w) \/ Working(w),
             ~SearchNone(w), ~SearchPast(w)
      PROVE  Bound'
  <2>1. Others(w) /\ list' = list
    BY <1>1, <1>3, OthersStay, CacheStays DEF cache
  <2>2. w \in Missed(im)' => w \in Missed(im)
    BY <1>1, <1>3
       DEF Beginning, Searching, Ask, SearchHit, SearchLate, SearchEnd, Hit, Miss, HitSize,
           HitFd, Open, Ending, NotPresent, Send, SendShort, SendLate, Finish,
           Working, WriteBegin, WriteEnd, Measure, Missed, TypeOK, Go, local
  <2>3. Missed(im)' \subseteq Missed(im)
    BY <2>1, <2>2 DEF Others, Missed
  <2> QED
    BY <1>2, <2>1, <2>3, NoMoreCopies
<1>4. ASSUME NEW w \in Worker, SearchNone(w) \/ SearchPast(w) PROVE Bound'
  <2>1. Others(w) /\ list' = list /\ asked' = asked
    BY <1>1, <1>4, OthersStay, CacheStays
       DEF Beginning, Searching, SearchNone, SearchPast, Miss, cache
  <2>2. pc[w] = "search" /\ pc'[w] \in {"open", "beyond"}
    BY <1>1, <1>4 DEF SearchNone, SearchPast, Miss, Go, TypeOK
  <2>3. CASE asked[w] = im
    <3>1. PICK n \in Seen : Listed(im, n) = {}
      BY <1>4, <2>3 DEF SearchNone, SearchPast, Listed
    <3>2. Missed(im)' \in SUBSET {v \in Worker : pc[v] # "append_path"}
      BY <2>1, <2>2 DEF Others, Missed
    <3> DEFINE T == Missed(im)'
    <3> HIDE DEF T
    <3>3. T \in SUBSET {v \in Worker : pc[v] # "append_path"}
      BY <3>2 DEF T
    <3>4. Cardinality(Copies(im)) + Cardinality(T) <= Cardinality(Worker)
      BY <3>1, <3>3, FewWhenPassed
    <3> QED
      BY <1>2, <2>1, <3>4 DEF T
  <2>4. CASE asked[w] # im
    <3>1. w \notin Missed(im)'
      BY <2>1, <2>4 DEF Missed
    <3>2. Missed(im)' \subseteq Missed(im)
      BY <2>1, <3>1 DEF Others, Missed
    <3> QED
      BY <1>2, <2>1, <3>2, NoMoreCopies
  <2> QED
    BY <2>3, <2>4
<1>5. ASSUME NEW w \in Worker, AppendPath(w) PROVE Bound'
  <2>1. /\ pc[w] = "append" /\ pc' = [pc EXCEPT ![w] = "append_path"]
        /\ list' = Append(list, asked[w]) /\ asked' = asked /\ asked[w] \in Image
    BY <1>5 DEF AppendPath, Go, local, CacheInv, Asked, Asking, Steps
  <2>2. Missed(im)' = Missed(im) \ {w}
    BY <1>1, <2>1 DEF Missed, TypeOK
  <2>3. /\ Len(list) \in Nat /\ Len(list') = Len(list) + 1 /\ list'[Len(list) + 1] = asked[w]
        /\ \A k \in 1..Len(list) : list'[k] = list[k]
    BY <1>1, <2>1 DEF TypeOK
  <2>4. CASE asked[w] = im
    <3>1. w \in Missed(im)
      BY <2>1, <2>4 DEF Missed
    <3>2. Copies(im)' = Copies(im) \cup {Len(list) + 1} /\ Len(list) + 1 \notin Copies(im)
      BY <2>3, <2>4 DEF Copies
    <3>3. /\ Cardinality(Copies(im)') = Cardinality(Copies(im)) + 1
          /\ Cardinality(Missed(im)') = Cardinality(Missed(im)) - 1
      <4>1. IsFiniteSet(Copies(im)) /\ IsFiniteSet(Missed(im))
        BY <1>1, Counted
      <4>2. Cardinality(Copies(im) \cup {Len(list) + 1}) = Cardinality(Copies(im)) + 1
        BY <3>2, <4>1, FS_AddElement
      <4>3. Cardinality(Missed(im) \ {w}) = Cardinality(Missed(im)) - 1
        BY <3>1, <4>1, FS_RemoveElement
      <4> QED
        BY <2>2, <3>2, <4>2, <4>3
    <3>4. /\ Cardinality(Copies(im)) + Cardinality(Missed(im)) <= Cardinality(Worker)
          /\ Cardinality(Copies(im)) \in Nat /\ Cardinality(Missed(im)) \in Nat
          /\ Cardinality(Worker) \in Nat
      BY <1>1, Counted DEF CacheInv, FewCopies
    <3> QED
      BY <3>3, <3>4
  <2>5. CASE asked[w] # im
    <3>1. Copies(im)' = Copies(im)
      BY <2>3, <2>5 DEF Copies
    <3> QED
      BY <2>2, <3>1, NoMoreCopies
  <2> QED
    BY <2>4, <2>5
<1>6. ASSUME NEW w \in Worker, AppendEnd(w) \/ AppendFd(w) \/ AppendSize(w) \/ AppendNext(w)
      PROVE  Bound'
  <2>1. Others(w) /\ list' = list
    BY <1>1, <1>6, OthersStay DEF Entry, cache, AppendEnd, AppendFd, AppendSize, AppendNext
  <2>2. w \notin Missed(im)'
    BY <1>1, <1>6 DEF AppendEnd, AppendFd, AppendSize, AppendNext, Missed, TypeOK, Go
  <2>3. Missed(im)' \subseteq Missed(im)
    BY <2>1, <2>2 DEF Others, Missed
  <2> QED
    BY <1>2, <2>1, <2>3, NoMoreCopies
<1>7. ASSUME Halt PROVE Bound'
  <2>1. list' = list /\ Missed(im)' = {}
    BY <1>7 DEF Halt, Missed
  <2> QED
    BY <1>2, <2>1, NoMoreCopies
<1>8. ASSUME Restart PROVE Bound'
  <2>1. Copies(im)' = {} /\ Missed(im)' = {}
    BY <1>8 DEF Restart, Copies, Missed
  <2> QED
    BY <2>1, FS_EmptySet, FS_CardinalityType, ImageAssumption
<1>9. ASSUME UNCHANGED vars PROVE Bound'
  <2>1. list' = list /\ Missed(im)' = Missed(im)
    BY <1>9 DEF vars, local, cache, Missed
  <2> QED
    BY <1>2, <2>1, NoMoreCopies
<1> HIDE DEF Bound
<1>10. Bound'
  BY <1>3, <1>4, <1>5, <1>6, <1>7, <1>8, <1>9, AllSteps DEF Entry, Abort, Crash
<1> QED
  BY <1>10 DEF Bound

(***************************************************************************)
(* Every step keeps images that are missing out of the list.               *)
(***************************************************************************)
LEMMA NoneKept == CacheInv /\ [Next]_vars => NoneMissing'
<1> SUFFICES ASSUME CacheInv, [Next]_vars PROVE NoneMissing'
  OBVIOUS
<1> USE DEF CacheInv
<1>1. ASSUME list' = list PROVE NoneMissing'
  BY <1>1 DEF NoneMissing
<1>2. ASSUME NEW w \in Worker, AppendPath(w) PROVE NoneMissing'
  <2>1. list' = Append(list, asked[w]) /\ asked[w] \in Image /\ asked[w] \notin Missing
    BY <1>2 DEF AppendPath, Asked, Asking, Steps, Converted
  <2>2. /\ Len(list) \in Nat /\ Len(list') = Len(list) + 1 /\ list'[Len(list) + 1] = asked[w]
        /\ \A k \in 1..Len(list) : list'[k] = list[k]
    BY <2>1 DEF TypeOK
  <2> QED
    BY <2>1, <2>2 DEF NoneMissing
<1>3. ASSUME NEW w \in Worker, Beginning(w) \/ Ending(w) \/ Working(w) PROVE list' = list
  BY <1>3, CacheStays DEF cache
<1>4. ASSUME NEW w \in Worker, Entry(w), ~AppendPath(w) PROVE list' = list
  BY <1>4 DEF Entry, cache, AppendEnd, AppendFd, AppendSize, AppendNext
<1>5. ASSUME Restart PROVE NoneMissing'
  BY <1>5 DEF Restart, NoneMissing
<1>6. Halt \/ UNCHANGED vars => list' = list
  BY DEF Halt, vars, cache
<1> QED
  BY <1>1, <1>2, <1>3, <1>4, <1>5, <1>6, AllSteps DEF Abort, Crash

-----------------------------------------------------------------------------
(* Files and their sizes.                                                  *)

(***************************************************************************)
(* Who has clashed stays so.                                               *)
(***************************************************************************)
LEMMA ClashStays == [Next]_vars => clash \subseteq clash'
<1> SUFFICES ASSUME [Next]_vars PROVE clash \subseteq clash'
  OBVIOUS
<1>1. ASSUME NEW w \in Worker, WriteBegin(w) PROVE clash \subseteq clash'
  BY <1>1 DEF WriteBegin
<1>2. ASSUME NEW w \in Worker, Beginning(w) \/ Ending(w) \/ Entry(w) \/ WriteEnd(w) \/ Measure(w)
      PROVE  clash' = clash
  BY <1>2 DEF Beginning, Searching, Ask, SearchNone, SearchHit, SearchPast,
                SearchLate, SearchEnd, Hit, Miss, HitSize, HitFd, Open,
              Ending, NotPresent, Send, SendShort, SendLate,
              Entry, AppendPath, AppendEnd, AppendFd, AppendSize, AppendNext, WriteEnd, Measure
<1>3. Halt \/ Restart \/ UNCHANGED vars => clash' = clash
  BY DEF Halt, Restart, vars
<1> QED
  BY <1>1, <1>2, <1>3, AllSteps DEF Working, Abort, Crash

(***************************************************************************)
(* Every step keeps that threads that write one file have clashed.         *)
(***************************************************************************)
LEMMA ApartKept == CacheInv /\ [Next]_vars => Apart'
<1> SUFFICES ASSUME CacheInv, [Next]_vars PROVE Apart'
  OBVIOUS
<1> USE DEF CacheInv
<1>1. clash \subseteq clash'
  BY ClashStays
<1>2. ASSUME NEW u \in Worker, Beginning(u) \/ Ending(u) \/ Entry(u) \/ Measure(u)
      PROVE  Apart'
  <2>1. Others(u)
    BY <1>2, OthersStay DEF Working
  <2>2. pc'[u] \notin {"write", "measure"}
    BY <1>2 DEF Beginning, Searching, Ask, SearchNone, SearchHit, SearchPast,
                SearchLate, SearchEnd, Hit, Miss, HitSize, HitFd, Open,
                Ending, NotPresent, Send, SendShort, SendLate, Finish,
                Entry, AppendPath, AppendEnd, AppendFd, AppendSize, AppendNext, Measure, TypeOK, Go
  <2> QED
    BY <1>1, <2>1, <2>2 DEF Others, Apart
<1>3. ASSUME NEW u \in Worker, WriteBegin(u) PROVE Apart'
  <2>1. Others(u)
    BY <1>3, OthersStay DEF Working
  <2>2. asked' = asked /\ pc'[u] = "write"
    BY <1>3 DEF WriteBegin, local, TypeOK, Go
  <2>3. ASSUME NEW v \in Worker \ {u}, pc[v] \in {"write", "measure"}, asked[v] = asked[u]
        PROVE  asked[u] \in clash'
    BY <1>3, <2>3 DEF WriteBegin, Writing
  <2> QED
    BY <1>1, <2>1, <2>2, <2>3 DEF Others, Apart
<1>4. ASSUME NEW u \in Worker, WriteEnd(u) PROVE Apart'
  <2>1. Others(u)
    BY <1>4, OthersStay DEF Working
  <2>2. asked' = asked /\ pc[u] = "write" /\ pc'[u] = "measure"
    BY <1>4 DEF WriteEnd, local, TypeOK, Go
  <2> QED
    BY <1>1, <2>1, <2>2 DEF Others, Apart
<1>5. ASSUME Halt \/ Restart PROVE Apart'
  BY <1>5 DEF Halt, Restart, Apart
<1>6. ASSUME UNCHANGED vars PROVE Apart'
  BY <1>6 DEF vars, local, Apart
<1> QED
  BY <1>2, <1>3, <1>4, <1>5, <1>6, AllSteps DEF Working, Abort, Crash

(***************************************************************************)
(* Every step keeps that a size is that of a whole file, or of one that    *)
(* two threads wrote.                                                      *)
(***************************************************************************)
LEMMA MeasuredKept == CacheInv /\ [Next]_vars => Measured'
<1> SUFFICES ASSUME CacheInv, [Next]_vars PROVE Measured'
  OBVIOUS
<1> USE DEF CacheInv
<1> DEFINE Right(v) ==
      /\ pc[v] = "measure" => disk[asked[v]] = Length[asked[v]] \/ asked[v] \in clash
      /\ pc[v] \in {"append"} \cup Entering => image_size[v] = Length[asked[v]] \/ asked[v] \in clash
<1>1. clash \subseteq clash'
  BY ClashStays
<1>2. ASSUME NEW u \in Worker, Others(u), disk' = disk, NEW v \in Worker \ {u}
      PROVE  Right(v)'
  BY <1>1, <1>2 DEF Others, Measured
<1>3. ASSUME NEW u \in Worker, Beginning(u) \/ Ending(u) PROVE Right(u)' /\ disk' = disk
  BY <1>3 DEF Beginning, Searching, Ask, SearchNone, SearchHit, SearchPast,
                SearchLate, SearchEnd, Hit, Miss, HitSize, HitFd, Open, Ending, NotPresent, Send, SendShort,
              SendLate, Finish, TypeOK, Go, Entering
<1>4. ASSUME NEW u \in Worker, Entry(u) \/ Measure(u) PROVE Right(u)' /\ disk' = disk
  BY <1>1, <1>4 DEF Entry, AppendPath, AppendEnd, AppendFd, AppendSize, AppendNext, Measure, TypeOK, Go,
                    local, Entering, Measured
<1>6. ASSUME NEW u \in Worker, WriteBegin(u), NEW v \in Worker PROVE Right(v)'
  <2>1. Others(u) /\ asked' = asked /\ image_size' = image_size
    BY <1>6, OthersStay DEF Working, WriteBegin, local
  <2>2. pc'[u] = "write"
    BY <1>6 DEF WriteBegin, TypeOK, Go
  <2>3. v # u /\ pc[v] = "measure" /\ asked[v] = asked[u] => asked[v] \in clash'
    BY <1>6 DEF WriteBegin
  <2>4. asked[v] # asked[u] => disk'[asked[v]] = disk[asked[v]]
    BY <1>6 DEF WriteBegin, TypeOK
  <2> QED
    BY <1>1, <2>1, <2>2, <2>3, <2>4 DEF Others, Measured, Entering
<1>7. ASSUME NEW u \in Worker, WriteEnd(u), NEW v \in Worker PROVE Right(v)'
  <2>1. /\ Others(u) /\ asked' = asked /\ image_size' = image_size
        /\ asked[u] \in Image /\ pc[u] = "write"
    BY <1>7, OthersStay DEF Working, WriteEnd, local, Asked, Asking, Steps
  <2>2. pc'[u] = "measure"
    BY <1>7 DEF WriteEnd, TypeOK, Go
  <2>3. disk'[asked[u]] = Length[asked[u]] \/ asked[u] \in clash
    <3>1. PICK s \in 0..Length[asked[u]] :
            /\ s < Length[asked[u]] => \E x \in Worker \ {u} : Writing(x, asked[u])
            /\ disk' = [disk EXCEPT ![asked[u]] = s]
      BY <1>7 DEF WriteEnd
    <3>2. disk'[asked[u]] = s
      BY <2>1, <3>1 DEF TypeOK
    <3>3. CASE s = Length[asked[u]]
      BY <3>2, <3>3
    <3>4. CASE s < Length[asked[u]]
      BY <2>1, <3>1, <3>4 DEF Writing, Apart
    <3> QED
      BY <2>1, <3>3, <3>4, ImageAssumption
  <2>4. asked[v] # asked[u] => disk'[asked[v]] = disk[asked[v]]
    BY <1>7 DEF WriteEnd, TypeOK
  <2>5. v # u => Right(v)'
    BY <1>1, <2>1, <2>3, <2>4 DEF Others, Measured, Entering
  <2> QED
    BY <1>1, <2>1, <2>2, <2>3, <2>5 DEF Entering
<1>8. ASSUME Halt \/ Restart PROVE Measured'
  BY <1>8 DEF Halt, Restart, Measured, Entering
<1>9. ASSUME UNCHANGED vars PROVE Measured'
  BY <1>9 DEF vars, local, Measured
<1>10. (\A v \in Worker : Right(v)') => Measured'
  BY DEF Measured
<1> HIDE DEF Right
<1>11. ASSUME NEW u \in Worker,
              Beginning(u) \/ Ending(u) \/ Entry(u) \/ Measure(u)
       PROVE  Measured'
  <2>1. Others(u)
    BY <1>11, OthersStay DEF Working
  <2>2. disk' = disk /\ Right(u)'
    BY <1>3, <1>4, <1>11
  <2> QED
    BY <1>2, <1>10, <2>1, <2>2
<1>12. ASSUME NEW u \in Worker, WriteBegin(u) \/ WriteEnd(u) PROVE Measured'
  BY <1>6, <1>7, <1>10, <1>12
<1> QED
  BY <1>8, <1>9, <1>11, <1>12, AllSteps DEF Working, Abort, Crash

-----------------------------------------------------------------------------
(* Until the ring comes round.                                             *)

(***************************************************************************)
(* A place of the list that is no more than the ring is its own place in   *)
(* the ring.                                                               *)
(***************************************************************************)
LEMMA OwnPlace ==
  ASSUME NEW n \in Nat, NEW k \in 1..n, n <= Ring
  PROVE  k - 1 \in Place /\ (k - 1) % Ring = k - 1
<1>1. Ring \in Nat \ {0} /\ k - 1 \in 0..(Ring - 1)
  BY ImageAssumption
<1> QED
  BY <1>1 DEF Place

(***************************************************************************)
(* Where the entry stands that a thread is about to make.                  *)
(***************************************************************************)
LEMMA EntryPlace ==
  ASSUME CacheInv, NEW w \in Worker, pc[w] \in Entering
  PROVE  /\ fd_cache_mtx = w /\ fd_cache_mtx # NoOne /\ Running
         /\ Len(list) \in Nat \ {0} /\ list[Len(list)] = asked[w] /\ E \in Place
         /\ Len(list) <= Ring => E = Len(list) - 1
<1> USE DEF CacheInv
<1>1. fd_cache_mtx = w /\ fd_cache_mtx # NoOne
  BY ImageAssumption DEF Holder
<1>2. Running
  BY DEF Together, Running, Entering
<1>3. /\ Len(list) \in Nat \ {0} /\ list[Len(list)] = asked[w] /\ E \in Place
      /\ E = (Len(list) - 1) % Ring
  BY <1>1, <1>2 DEF Beside, TypeOK
<1>4. Len(list) <= Ring => (Len(list) - 1) % Ring = Len(list) - 1
  BY <1>3, OwnPlace
<1> QED
  BY <1>1, <1>2, <1>3, <1>4

(***************************************************************************)
(* The five steps of an entry keep what stands in the ring beside it.      *)
(***************************************************************************)
LEMMA EntrySizes ==
  ASSUME CacheInv, NEW w \in Worker, Entry(w)
  PROVE  Sizes'
<1> USE DEF CacheInv
<1> DEFINE n == Len(list)
<1>1. /\ Running /\ n \in Nat /\ Ring \in Nat \ {0} /\ w # NoOne /\ asked[w] \in Image
  <2>1. pc[w] \in {"append"} \cup Entering
    BY DEF Entry, AppendPath, AppendEnd, AppendFd, AppendSize, AppendNext, Entering
  <2>2. asked[w] \in Image
    BY <2>1 DEF Asked, Asking, Steps, Entering
  <2> QED
    BY <2>2, StillRunning, ImageAssumption DEF TypeOK
<1>2. ASSUME NEW v \in Worker, v # w, pc[w] \in Entering PROVE pc[v] \notin Entering
  BY <1>2 DEF Holder
<1>3. CASE AppendPath(w)
  <2> SUFFICES ASSUME Len(list') <= Ring PROVE Sizes'
    BY DEF Sizes
  <2>1. /\ pc' = [pc EXCEPT ![w] = "append_path"] /\ fd_cache_mtx = NoOne /\ fd_cache_mtx' = w
        /\ list' = Append(list, asked[w]) /\ UNCHANGED <<asked, file_size, E, clash>>
    BY <1>3 DEF AppendPath, Go, local
  <2>2. /\ Len(list') = n + 1 /\ n < Ring
        /\ \A k \in 1..n : list'[k] = list[k]
    BY <2>1, <1>1 DEF TypeOK
  <2>3. \A k \in 1..Len(list') :
          Settled(k)' => file_size'[k - 1] = Length[list'[k]] \/ list'[k] \in clash'
    BY <1>1, <2>1, <2>2 DEF Sizes, Settled
  <2>4. \A k \in Place : k >= Len(list') => file_size'[k] = 0
    BY <1>1, <2>1, <2>2 DEF Sizes, Place
  <2>5. E = n /\ n \in Place
    <3>1. n \in 0..(Ring - 1)
      BY <1>1, <2>2
    <3>2. n % Ring = n
      BY <1>1, <3>1
    <3> QED
      BY <1>1, <2>1, <3>1, <3>2 DEF Beside, Place
  <2>6. file_size'[E'] = 0
    BY <1>1, <2>1, <2>2, <2>5 DEF Sizes
  <2>7. \A v \in Worker : pc'[v] # "append_next"
    BY <2>1, ImageAssumption DEF Holder, Entering, TypeOK
  <2> QED
    BY <2>3, <2>4, <2>6, <2>7 DEF Sizes
<1>4. CASE AppendEnd(w) \/ AppendFd(w)
  <2>1. /\ pc[w] \in {"append_path", "append_fd"}
        /\ pc' = [pc EXCEPT ![w] = "append_fd"] \/ pc' = [pc EXCEPT ![w] = "append_size"]
        /\ UNCHANGED <<asked, list, E, file_size, fd_cache_mtx, clash>>
    BY <1>4 DEF AppendEnd, AppendFd, Go, local, cache
  <2> QED
    BY <1>1, <2>1 DEF Sizes, Settled, TypeOK
<1>5. CASE AppendSize(w)
  <2> SUFFICES ASSUME n <= Ring PROVE Sizes'
    BY <1>5 DEF AppendSize, Sizes
  <2>1. /\ pc[w] = "append_size" /\ pc' = [pc EXCEPT ![w] = "append_next"]
        /\ file_size' = [file_size EXCEPT ![E] = image_size[w]]
        /\ UNCHANGED <<asked, list, E, fd_cache_mtx, clash>>
    BY <1>5 DEF AppendSize, Go, local
  <2>2. fd_cache_mtx = w /\ n # 0 /\ E = n - 1 /\ E \in Place
    BY <2>1, EntryPlace DEF Entering
  <2>3. \A k \in 1..n : Settled(k)' => file_size'[k - 1] = Length[list'[k]] \/ list'[k] \in clash'
    <3> SUFFICES ASSUME NEW k \in 1..n, Settled(k)'
                 PROVE  file_size'[k - 1] = Length[list[k]] \/ list[k] \in clash
      BY <2>1
    <3>1. k < n
      BY <1>1, <2>1, <2>2 DEF Settled
    <3>2. k - 1 \in Place /\ k - 1 # E
      BY <1>1, <2>2, <3>1, OwnPlace
    <3>3. file_size'[k - 1] = file_size[k - 1]
      BY <2>1, <3>2 DEF TypeOK
    <3> QED
      BY <1>1, <3>1, <3>3 DEF Sizes, Settled
  <2>4. \A k \in Place : k >= n => file_size'[k] = 0
    <3> SUFFICES ASSUME NEW k \in Place, k >= n PROVE file_size'[k] = 0
      OBVIOUS
    <3>1. k # E
      BY <1>1, <2>2, Sorts
    <3>2. file_size'[k] = file_size[k]
      BY <2>1, <2>2, <3>1 DEF TypeOK
    <3> QED
      BY <1>1, <3>2 DEF Sizes
  <2>5. file_size'[E] = Length[asked[w]] \/ asked[w] \in clash
    BY <2>1, <2>2 DEF Measured, Entering, TypeOK
  <2>6. \A v \in Worker : v # w => pc'[v] \notin Entering
    BY <1>2, <2>1 DEF TypeOK, Entering
  <2>7. pc'[w] = "append_next"
    BY <2>1 DEF TypeOK
  <2> QED
    BY <2>1, <2>3, <2>4, <2>5, <2>6, <2>7 DEF Sizes, Entering
<1>6. CASE AppendNext(w)
  <2> SUFFICES ASSUME n <= Ring PROVE Sizes'
    BY <1>6 DEF AppendNext, Sizes
  <2>1. /\ pc[w] = "append_next" /\ pc' = [pc EXCEPT ![w] = "send"]
        /\ fd_cache_mtx' = NoOne
        /\ UNCHANGED <<asked, list, file_size, clash>>
    BY <1>6 DEF AppendNext, Go
  <2>2. n # 0 /\ E = n - 1 /\ list[n] = asked[w]
    BY <2>1, EntryPlace DEF Entering
  <2>3. \A k \in 1..n : file_size[k - 1] = Length[list[k]] \/ list[k] \in clash
    BY <1>1, <2>1, <2>2 DEF Sizes, Settled
  <2>4. \A v \in Worker : pc'[v] \notin Entering
    BY <1>2, <2>1 DEF TypeOK, Entering
  <2> QED
    BY <1>1, <2>1, <2>3, <2>4 DEF Sizes, Entering
<1> QED
  BY <1>3, <1>4, <1>5, <1>6 DEF Entry

(***************************************************************************)
(* Every step keeps what stands in the ring.                               *)
(***************************************************************************)
LEMMA SizesKept == CacheInv /\ [Next]_vars => Sizes'
<1> SUFFICES ASSUME CacheInv, [Next]_vars PROVE Sizes'
  OBVIOUS
<1> USE DEF CacheInv
<1>1. clash \subseteq clash'
  BY ClashStays
<1>2. ASSUME NEW u \in Worker, Beginning(u) \/ Ending(u) \/ Working(u) PROVE Sizes'
  <2>1. /\ Others(u) /\ Running /\ UNCHANGED <<list, file_size, E, fd_cache_mtx>>
        /\ pc[u] \notin Entering /\ pc'[u] \notin Entering
    BY <1>2, CacheStays, OthersStay, StillRunning DEF cache
  <2>2. \A v \in Worker : pc'[v] \in Entering => pc'[v] = pc[v] /\ asked'[v] = asked[v]
    BY <2>1 DEF Others
  <2>3. Len(list) <= Ring =>
          /\ \A k \in 1..Len(list) :
               Settled(k)' => file_size[k - 1] = Length[list[k]] \/ list[k] \in clash'
          /\ \A k \in Place : k >= Len(list) => file_size[k] = 0
    BY <1>1, <2>1 DEF Sizes, Settled
  <2>4. Len(list) <= Ring => \A v \in Worker :
          /\ pc'[v] \in {"append_path", "append_fd", "append_size"} => file_size[E] = 0
          /\ pc'[v] = "append_next" => file_size[E] = Length[asked'[v]] \/ asked'[v] \in clash'
    BY <1>1, <2>1, <2>2 DEF Sizes, Entering
  <2> QED
    BY <2>1, <2>3, <2>4 DEF Sizes, Place
<1>3. ASSUME NEW u \in Worker, Halt PROVE Sizes'
  BY <1>3 DEF Halt, Sizes, Running
<1>4. ASSUME Restart PROVE Sizes'
  <2>1. Len(list') = 0 /\ file_size' = [k \in Place |-> 0]
    BY <1>4 DEF Restart, Cleared
  <2>2. \A v \in Worker : pc'[v] = "idle"
    BY <1>4 DEF Restart
  <2>3. Place' = Place
    BY DEF Place
  <2> QED
    BY <2>1, <2>2, <2>3 DEF Sizes
<1>5. ASSUME UNCHANGED vars PROVE Sizes'
  BY <1>5 DEF vars, local, cache, Sizes, Settled, Running, Place
<1> QED
  BY <1>2, <1>3, <1>4, <1>5, EntrySizes, AllSteps DEF Abort, Crash

-----------------------------------------------------------------------------
(* Hits.                                                                   *)

(***************************************************************************)
(* What a step of a thread leaves of the list and of the ring: the list    *)
(* keeps its paths, a place once settled stays so, and until the list      *)
(* outgrows the ring a descriptor that is beside its path is not replaced. *)
(***************************************************************************)
LEMMA PlacesStay ==
  ASSUME CacheInv, NEW u \in Worker,
         Beginning(u) \/ Ending(u) \/ Working(u) \/ Entry(u)
  PROVE  /\ Len(list) \in Nat /\ Len(list') \in Nat /\ Len(list) <= Len(list')
         /\ \A k \in 1..Len(list) :
              /\ list'[k] = list[k]
              /\ Settled(k) => Settled(k)'
              /\ Len(list') <= Ring /\ fd[k - 1] = list[k] => fd'[k - 1] = list[k]
<1> USE DEF CacheInv
<1> DEFINE n == Len(list)
<1>1. n \in Nat
  BY DEF TypeOK
<1>2. CASE Beginning(u) \/ Ending(u) \/ Working(u)
  BY <1>1, <1>2, CacheStays DEF cache, Settled
<1>3. CASE AppendPath(u)
  <2>1. list' = Append(list, asked[u]) /\ asked[u] \in Image /\ fd' = fd
    BY <1>3 DEF AppendPath, Asked, Asking, Steps
  <2>2. Len(list') = n + 1 /\ \A k \in 1..n : list'[k] = list[k]
    BY <2>1 DEF TypeOK
  <2> QED
    BY <1>1, <2>1, <2>2 DEF Settled
<1>4. CASE AppendFd(u)
  <2>1. /\ pc[u] = "append_fd" /\ fd' = [fd EXCEPT ![E] = asked[u]]
        /\ UNCHANGED <<list, fd_cache_mtx>>
    BY <1>4 DEF AppendFd
  <2>2. n <= Ring => E = n - 1 /\ E \in Place /\ list[n] = asked[u]
    BY <2>1, EntryPlace DEF Entering
  <2>3. ASSUME NEW k \in 1..n, n <= Ring, fd[k - 1] = list[k] PROVE fd'[k - 1] = list[k]
    BY <1>1, <2>1, <2>2, <2>3 DEF TypeOK
  <2> QED
    BY <1>1, <2>1, <2>3 DEF Settled
<1>5. CASE AppendEnd(u) \/ AppendSize(u)
  BY <1>1, <1>5 DEF AppendEnd, AppendSize, cache, Settled
<1>6. CASE AppendNext(u)
  BY <1>1, <1>6 DEF AppendNext, Settled
<1> QED
  BY <1>2, <1>3, <1>4, <1>5, <1>6 DEF Entry

(***************************************************************************)
(* A step of one thread leaves right what another has read.                *)
(***************************************************************************)
LEMMA OtherHits ==
  ASSUME CacheInv, [Next]_vars, NEW u \in Worker, NEW v \in Worker \ {u},
         Beginning(u) \/ Ending(u) \/ Working(u) \/ Entry(u)
  PROVE  HitRight(v)'
<1>1. HitRight(v)
  BY DEF CacheInv, Hits
<1>2. /\ pc'[v] = pc[v] /\ asked'[v] = asked[v] /\ idx'[v] = idx[v]
      /\ image_fd'[v] = image_fd[v] /\ image_size'[v] = image_size[v]
      /\ early'[v] = early[v] /\ late'[v] = late[v]
  BY OthersStay DEF Others, CacheInv
<1>3. clash \subseteq clash'
  BY ClashStays
<1>4. /\ Len(list) \in Nat /\ Len(list') \in Nat /\ Len(list) <= Len(list')
      /\ Len(list') <= Ring => Len(list) <= Ring
  BY PlacesStay, ImageAssumption
<1>5. ASSUME idx[v] \in 0..(Len(list) - 1)
      PROVE  /\ idx[v] \in 0..(Len(list') - 1)
             /\ list'[idx[v] + 1] = list[idx[v] + 1]
             /\ Settled(idx[v] + 1) => idx[v] + 1 < Len(list') \/ fd_cache_mtx' = NoOne
             /\ Len(list') <= Ring /\ fd[idx[v]] = list[idx[v] + 1]
                  => fd'[idx[v]] = list[idx[v] + 1]
  <2>1. PICK k \in 1..Len(list) : k = idx[v] + 1 /\ k - 1 = idx[v]
    BY <1>4, <1>5
  <2>2. /\ list'[k] = list[k]
        /\ Settled(k) => k < Len(list') \/ fd_cache_mtx' = NoOne
        /\ Len(list') <= Ring /\ fd[k - 1] = list[k] => fd'[k - 1] = list[k]
    BY PlacesStay DEF Settled
  <2> QED
    BY <1>4, <1>5, <2>1, <2>2
<1>6. NoSize(v) => NoSize(v)'
  BY <1>2 DEF NoSize
<1>7. Len(list') <= Ring /\ Paired(v) => Paired(v)'
  BY <1>2, <1>3, <1>5 DEF Paired
<1>8. Sent(v) => Sent(v)'
  BY <1>2, <1>3 DEF Sent, Matches
<1>9. ASSUME pc[v] \in {"hit_size", "hit_fd"}
      PROVE  /\ idx'[v] \in Nat
             /\ ~late'[v] => /\ idx'[v] \in 0..(Len(list') - 1)
                             /\ Matches(asked'[v], list'[idx'[v] + 1])
                             /\ ~early'[v] => Settled(idx[v] + 1)'
  <2>1. idx[v] \in Nat
    BY <1>1, <1>9 DEF HitRight
  <2>2. ASSUME ~late[v]
        PROVE  /\ idx[v] \in 0..(Len(list) - 1)
               /\ Matches(asked[v], list[idx[v] + 1])
               /\ ~early[v] => Settled(idx[v] + 1)
    BY <1>1, <1>9, <2>2 DEF HitRight
  <2>3. ~late[v] /\ ~early[v] => Settled(idx[v] + 1)'
    BY <1>2, <1>5, <2>2 DEF Settled
  <2> QED
    BY <1>2, <1>5, <2>1, <2>2, <2>3
<1> QED
  BY <1>1, <1>2, <1>4, <1>6, <1>7, <1>8, <1>9 DEF HitRight

(***************************************************************************)
(* What a thread reads as a size within the ring is that of the path at    *)
(* its place, whose descriptor is there as well, or it is none.            *)
(***************************************************************************)
LEMMA SizeRead ==
  ASSUME CacheInv, NEW i \in Nat, i < Len(list), Len(list) <= Ring, Running
  PROVE  \/ file_size[i] = 0 /\ ~Settled(i + 1)
         \/ /\ fd[i] = list[i + 1]
            /\ file_size[i] = Length[list[i + 1]] \/ list[i + 1] \in clash
<1> USE DEF CacheInv
<1>1. Len(list) \in Nat /\ Ring \in Nat \ {0}
  BY ImageAssumption DEF TypeOK
<1>2. PICK k \in 1..Len(list) : k = i + 1 /\ k - 1 = i
  BY <1>1
<1>3. k - 1 \in Place /\ (k - 1) % Ring = k - 1 /\ k + Ring > Len(list)
  BY <1>1, OwnPlace
<1>4. CASE Settled(k)
  <2>1. fd[(k - 1) % Ring] = list[k]
    BY <1>3, <1>4 DEF Beside
  <2>2. file_size[k - 1] = Length[list[k]] \/ list[k] \in clash
    BY <1>4 DEF Sizes
  <2> QED
    BY <1>2, <1>3, <2>1, <2>2
<1>5. CASE ~Settled(k)
  <2>1. k = Len(list) /\ fd_cache_mtx # NoOne
    BY <1>1, <1>5 DEF Settled
  <2>2. PICK v \in Worker : fd_cache_mtx = v /\ pc[v] \in Entering
    BY <2>1 DEF Holder, TypeOK
  <2>3. E = Len(list) - 1 /\ list[Len(list)] = asked[v]
    BY <2>2, EntryPlace
  <2>4. CASE pc[v] \in {"append_path", "append_fd", "append_size"}
    BY <1>2, <1>5, <2>1, <2>3, <2>4 DEF Sizes
  <2>5. CASE pc[v] = "append_next"
    <3>1. fd[E] = asked[v]
      BY <2>5 DEF Beside
    <3>2. file_size[E] = Length[asked[v]] \/ asked[v] \in clash
      BY <2>5 DEF Sizes
    <3> QED
      BY <1>2, <2>1, <2>3, <3>1, <3>2
  <2> QED
    BY <2>2, <2>4, <2>5 DEF Entering
<1> QED
  BY <1>4, <1>5

(***************************************************************************)
(* A thread's own steps leave right what it has read.                      *)
(***************************************************************************)
LEMMA OwnHits ==
  ASSUME CacheInv, [Next]_vars, NEW u \in Worker,
         Beginning(u) \/ Ending(u) \/ Working(u) \/ Entry(u)
  PROVE  HitRight(u)'
<1> USE DEF CacheInv
<1>1. HitRight(u) /\ Len(list) \in Nat
  BY DEF Hits, TypeOK
<1>2. CASE SearchHit(u)
  <2>1. PICK k \in Listed(asked[u], Len(list)) : Hit(u, k, k - 1)
    BY <1>2 DEF SearchHit
  <2>2. k \in 1..Len(list) /\ Matches(asked[u], list[k])
    BY <2>1 DEF Listed
  <2>3. /\ pc'[u] = "hit_size" /\ idx'[u] = k - 1 /\ idx'[u] + 1 = k
        /\ idx'[u] \in 0..(Len(list) - 1) /\ idx'[u] \in Nat
        /\ UNCHANGED <<list, fd_cache_mtx, asked>>
    BY <1>1, <2>1, <2>2 DEF Hit, Go, TypeOK, cache
  <2>4. early'[u] = (fd_cache_mtx # NoOne /\ k = Len(list))
    BY <2>1 DEF Hit, TypeOK
  <2>5. ~early'[u] => fd_cache_mtx = NoOne \/ k # Len(list)
    BY <2>4, Zenon
  <2>6. ~early'[u] => Settled(idx[u] + 1)'
    BY <1>1, <2>2, <2>3, <2>5 DEF Settled
  <2> QED
    BY <2>2, <2>3, <2>6 DEF HitRight, Matches
<1>3. CASE SearchLate(u)
  <2>1. PICK k \in Listed(asked[u], Len(list)) : \E p \in k..(Size - 1) : Hit(u, k, p)
    BY <1>3 DEF SearchLate
  <2>2. PICK p \in k..(Size - 1) : Hit(u, k, p)
    BY <2>1
  <2>3. p \in Nat
    BY <2>1, ImageAssumption DEF Listed
  <2>4. pc'[u] = "hit_size" /\ idx'[u] = p
    BY <2>2 DEF Hit, Go, TypeOK
  <2>5. late'[u]
    BY <1>3 DEF SearchLate, TypeOK
  <2> QED
    BY <2>3, <2>4, <2>5 DEF HitRight
<1>4. CASE HitSize(u)
  <2>1. /\ pc[u] = "hit_size" /\ pc'[u] = "hit_fd"
        /\ image_size'[u] = IF idx[u] \in Place THEN file_size[idx[u]] ELSE Junk
        /\ UNCHANGED <<asked, idx, early, late, list, fd, fd_cache_mtx, clash>>
    BY <1>4 DEF HitSize, Go, TypeOK, cache
  <2>2. idx[u] \in Nat
    BY <1>1, <2>1 DEF HitRight
  <2>3. ASSUME ~late[u]
        PROVE  /\ idx[u] \in 0..(Len(list) - 1)
               /\ Matches(asked[u], list[idx[u] + 1])
               /\ ~early[u] => Settled(idx[u] + 1)
    BY <1>1, <2>1, <2>3 DEF HitRight
  <2>4. ~late'[u] /\ ~early'[u] => Settled(idx[u] + 1)'
    BY <2>1, <2>3 DEF Settled
  <2>5. ASSUME Len(list) <= Ring, ~(late[u] /\ idx[u] >= Ring)
        PROVE  \/ image_size'[u] = 0 /\ (early[u] \/ late[u])
               \/ /\ idx[u] \in 0..(Len(list) - 1)
                  /\ fd[idx[u]] = list[idx[u] + 1]
                  /\ \/ image_size'[u] = Length[list[idx[u] + 1]]
                     \/ list[idx[u] + 1] \in clash
    <3>1. Running
      BY StillRunning DEF Running
    <3>2. idx[u] \in Place
      BY <1>1, <2>2, <2>3, <2>5, ImageAssumption DEF Place
    <3>3. CASE idx[u] < Len(list)
      <4>1. \/ file_size[idx[u]] = 0 /\ ~Settled(idx[u] + 1)
            \/ /\ fd[idx[u]] = list[idx[u] + 1]
               /\ file_size[idx[u]] = Length[list[idx[u] + 1]] \/ list[idx[u] + 1] \in clash
        BY <2>2, <2>5, <3>1, <3>3, SizeRead
      <4>2. idx[u] \in 0..(Len(list) - 1)
        BY <1>1, <2>2, <3>3
      <4> QED
        BY <2>1, <2>3, <3>2, <4>1, <4>2
    <3>4. CASE idx[u] >= Len(list)
      <4>1. late[u]
        BY <1>1, <2>3, <3>4
      <4>2. file_size[idx[u]] = 0
        BY <2>5, <3>1, <3>2, <3>4 DEF Sizes
      <4> QED
        BY <2>1, <3>2, <4>1, <4>2
    <3> QED
      BY <1>1, <2>2, <3>3, <3>4
  <2>6. Len(list') <= Ring => NoSize(u)' \/ Paired(u)'
    BY <2>1, <2>5 DEF NoSize, Paired
  <2>7. /\ idx'[u] \in Nat
        /\ ~late'[u] => /\ idx'[u] \in 0..(Len(list') - 1)
                        /\ Matches(asked'[u], list'[idx'[u] + 1])
                        /\ ~early'[u] => Settled(idx[u] + 1)'
    BY <2>1, <2>2, <2>3, <2>4
  <2> QED
    BY <2>1, <2>6, <2>7 DEF HitRight
<1>5. CASE HitFd(u)
  <2>1. /\ pc[u] = "hit_fd" /\ pc'[u] = "send"
        /\ image_fd'[u] = IF idx[u] \in Place THEN fd[idx[u]] ELSE Junk
        /\ UNCHANGED <<asked, idx, early, late, image_size, list, clash>>
    BY <1>5 DEF HitFd, Go, TypeOK, cache
  <2> SUFFICES ASSUME Len(list) <= Ring PROVE NoSize(u)' \/ Sent(u)'
    BY <2>1 DEF HitRight
  <2>2. CASE NoSize(u)
    BY <2>1, <2>2 DEF NoSize
  <2>3. CASE Paired(u)
    <3>1. idx[u] \in Place /\ idx[u] + 1 \in 1..Len(list)
      BY <1>1, <2>3, ImageAssumption DEF Paired, Place
    <3>2. image_fd'[u] = list[idx[u] + 1] /\ list[idx[u] + 1] \in Image
      BY <2>1, <2>3, <3>1 DEF Paired, TypeOK
    <3>3. ~late[u] => Matches(asked[u], list[idx[u] + 1])
      BY <1>1, <2>1 DEF HitRight
    <3> QED
      BY <2>1, <2>3, <3>2, <3>3 DEF Paired, Sent, Matches
  <2> QED
    BY <1>1, <2>1, <2>2, <2>3 DEF HitRight
<1>6. CASE AppendNext(u)
  <2>1. /\ pc[u] = "append_next" /\ pc'[u] = "send" /\ image_fd'[u] = asked[u]
        /\ UNCHANGED <<asked, image_size, late, list, clash>>
    BY <1>6 DEF AppendNext, Go, TypeOK
  <2>2. image_size[u] = Length[asked[u]] \/ asked[u] \in clash
    BY <2>1 DEF Measured, Entering
  <2>3. asked[u] \in Image
    BY <2>1 DEF Asked, Asking, Steps
  <2> QED
    BY <2>1, <2>2, <2>3 DEF HitRight, Sent, Matches
<1>7. CASE Ask(u) \/ SearchNone(u) \/ SearchPast(u) \/ SearchEnd(u) \/ Open(u)
            \/ Ending(u) \/ Working(u)
            \/ AppendPath(u) \/ AppendEnd(u) \/ AppendFd(u) \/ AppendSize(u)
  <2>1. pc'[u] \notin {"hit_size", "hit_fd", "send"}
    BY <1>7 DEF Ask, SearchNone, SearchPast, SearchEnd, Miss, Open,
                Ending, NotPresent, Send, SendShort, SendLate, Finish,
                Working, WriteBegin, WriteEnd, Measure,
                AppendPath, AppendEnd, AppendFd, AppendSize, TypeOK, Go
  <2> QED
    BY <2>1 DEF HitRight
<1> QED
  BY <1>2, <1>3, <1>4, <1>5, <1>6, <1>7 DEF Beginning, Searching, Entry

(***************************************************************************)
(* Every step leaves right what threads have read.                         *)
(***************************************************************************)
LEMMA HitsKept == CacheInv /\ [Next]_vars => Hits'
<1> SUFFICES ASSUME CacheInv, [Next]_vars PROVE Hits'
  OBVIOUS
<1>1. (\A v \in Worker : HitRight(v)') => Hits'
  BY DEF Hits
<1>2. ASSUME NEW u \in Worker, Beginning(u) \/ Ending(u) \/ Working(u) \/ Entry(u)
      PROVE  Hits'
  <2>1. HitRight(u)'
    BY <1>2, OwnHits
  <2>2. \A v \in Worker \ {u} : HitRight(v)'
    BY <1>2, OtherHits
  <2> QED
    BY <1>1, <2>1, <2>2
<1>3. ASSUME Halt \/ Restart PROVE Hits'
  BY <1>3 DEF Halt, Restart, Hits, HitRight
<1>4. ASSUME UNCHANGED vars PROVE Hits'
  BY <1>4 DEF vars, local, cache, CacheInv, Hits, HitRight, Settled, Sent,
              NoSize, Paired, Matches
<1> QED
  BY <1>2, <1>3, <1>4, AllSteps DEF Abort, Crash

-----------------------------------------------------------------------------
(* The theorems.                                                           *)

(***************************************************************************)
(* The invariant holds throughout.                                         *)
(***************************************************************************)
THEOREM ImageInvariance == Spec => []CacheInv
<1>1. CacheInv /\ [Next]_vars => CacheInv'
  <2> SUFFICES ASSUME CacheInv, [Next]_vars PROVE CacheInv'
    OBVIOUS
  <2>1. TypeOK' /\ Asked' /\ Holder' /\ Cleared' /\ Together' /\ Beside'
    BY TypeKept, AskedKept, HolderKept, ClearedKept, BesideKept
  <2>2. FewCopies' /\ NoneMissing' /\ Apart' /\ Measured' /\ Sizes' /\ Hits'
    BY CopiesKept, NoneKept, ApartKept, MeasuredKept, SizesKept, HitsKept
  <2> QED
    BY <2>1, <2>2 DEF CacheInv
<1> QED
  BY InitInv, <1>1, PTL DEF Spec

(***************************************************************************)
(* The variables have the types that the declarations of get_image_to_send *)
(* and of fd_image_cache give them, and an entry is within its arrays.     *)
(***************************************************************************)
THEOREM TypeCorrect == Spec => []TypeOK
BY ImageInvariance, PTL DEF CacheInv

(***************************************************************************)
(* The ring of descriptors stands beside the end of the list of paths,     *)
(* whatever threads do between the steps of an entry, however often either *)
(* has come round, and whenever the process has ended: its index and its   *)
(* contents are the last Ring entries of the list.                         *)
(***************************************************************************)
THEOREM RingKeepsUp == Spec => []RingBesideList
<1>1. CacheInv => RingBesideList
  <2> SUFFICES ASSUME CacheInv, Running, fd_cache_mtx = NoOne PROVE RingBesideList
    BY DEF RingBesideList
  <2> QED
    BY DEF CacheInv, Beside, Settled, RingBesideList
<1> QED
  BY ImageInvariance, <1>1, PTL

(***************************************************************************)
(* Until the list outgrows the ring, an image that is sent is the one that *)
(* was asked for, or one whose path begins with its path, and whole,       *)
(* unless two threads wrote it at a time; a hit that comes too early has   *)
(* no size, and sends nothing.  A place that was found too late may be     *)
(* that of another image, but within the ring it has no size, or the size  *)
(* and the descriptor of one and the same.                                 *)
(***************************************************************************)
THEOREM ImageIsRight == Spec => []RightImage
<1>1. CacheInv => RightImage
  BY DEF CacheInv, Hits, HitRight, NoSize, Sent, RightImage
<1> QED
  BY ImageInvariance, <1>1, PTL

(***************************************************************************)
(* An image is entered at most once by each thread, however many miss it   *)
(* at a time, and an image that is missing is not entered.                 *)
(***************************************************************************)
THEOREM NoMoreThanThreads == Spec => []CopiesBounded
<1>1. CacheInv => CopiesBounded
  <2> SUFFICES ASSUME CacheInv PROVE CopiesBounded
    OBVIOUS
  <2>1. ASSUME NEW im \in Image PROVE Cardinality(Copies(im)) <= Cardinality(Worker)
    <3>1. /\ Cardinality(Copies(im)) \in Nat /\ Cardinality(Missed(im)) \in Nat
          /\ Cardinality(Worker) \in Nat
          /\ Cardinality(Copies(im)) + Cardinality(Missed(im)) <= Cardinality(Worker)
      BY Counted DEF CacheInv, FewCopies
    <3> QED
      BY <3>1
  <2>2. \A im \in Missing : Copies(im) = {}
    BY DEF CacheInv, NoneMissing, Copies
  <2> QED
    BY <2>1, <2>2 DEF CopiesBounded
<1> QED
  BY ImageInvariance, <1>1, PTL

=============================================================================

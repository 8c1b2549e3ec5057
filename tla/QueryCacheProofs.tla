-------------------------- MODULE QueryCacheProofs --------------------------
(***************************************************************************)
(* Proofs about QueryCache, for any threads, queries and size of the ring. *)
(* The inductive invariant follows an entry through its life: whole while  *)
(* nobody fills it; filled by the one thread that holds the mutex, up to   *)
(* the field that thread has come to; and, for a thread that reads it      *)
(* without the mutex, the entry it found for as long as nobody has filled  *)
(* it again.                                                               *)
(***************************************************************************)
EXTENDS QueryCache, TLAPS

Filling == {"fill_colors", "fill_width", "fill_height", "fill_state"}
Reading == {"colors", "width", "height"}

\* Entry k is that of query q, as far as the fields go.
Holds(k, q) ==
  /\ cache[k].query = q
  /\ cache[k].colors = Row(q)
  /\ cache[k].width = Row(q)
  /\ cache[k].height = Row(q)

\* Either it has the row of its query, or it says that there is none, which is
\* true unless the query has failed.
Whole(k) ==
  Filled(k) =>
    \/ /\ cache[k].state = "VALUE_DB"
       /\ Holds(k, cache[k].query)
       /\ cache[k].query \in Known
    \/ /\ cache[k].state = "NO_VALUE_IN_DB"
       /\ cache[k].colors = NoRow
       /\ cache[k].width = NoRow
       /\ cache[k].height = NoRow
       /\ cache[k].query \in Known => cache[k].query \in failed

\* The mutex is held by the thread that is filling, and by no other.
MutexHeld ==
  \A w \in Worker : (pc[w] \in Filling) = (db_mtx_cache = w)

\* A thread at work has a query, and one that has missed it has what the
\* database gave.
AnswerKnown ==
  \A w \in Worker :
    /\ pc[w] # "idle" => asked[w] \in Query
    /\ pc[w] \in Filling \cup {"fill"} => answer[w] \in Given(asked[w])

\* Every entry but the one being filled is whole ...
OthersWhole ==
  \A k \in Index : db_mtx_cache = NoOne \/ k # idx_cache => Whole(k)

\* ... and that one has the fields that have been written.
FilledSoFar ==
  \A w \in Worker :
    /\ pc[w] \in Filling => cache[idx_cache].query = asked[w]
    /\ pc[w] \in Filling \ {"fill_colors"} =>
         cache[idx_cache].colors = answer[w].colors
    /\ pc[w] \in {"fill_height", "fill_state"} =>
         cache[idx_cache].width = answer[w].width
    /\ pc[w] = "fill_state" => cache[idx_cache].height = answer[w].height

\* What a thread has found stays as it was until it is filled again.
FoundHolds ==
  \A w \in Worker :
    pc[w] \in Reading /\ ~overwritten[w] =>
      /\ Holds(found[w], asked[w])
      /\ db_mtx_cache # NoOne => found[w] # idx_cache

\* So what it has read of it is right.
ReadBy(w) ==
  /\ pc[w] \in {"width", "height"} => answer[w].colors = Row(asked[w])
  /\ pc[w] = "height" => answer[w].width = Row(asked[w])

ReadSoFar == \A w \in Worker : ~overwritten[w] => ReadBy(w)

\* An entry has been filled by somebody or is empty ...
FilledBy == \A k \in Index : Filled(k) = (by[k] # NoOne)

\* ... and before the ring comes round no entry that is read is filled.
NoneOverwritten ==
  ~wrapped => \A w \in Worker : pc[w] \in Reading => ~overwritten[w]

CacheInv ==
  /\ TypeOK
  /\ MutexHeld
  /\ AnswerKnown
  /\ OthersWhole
  /\ FilledSoFar
  /\ FoundHolds
  /\ ReadSoFar
  /\ FilledBy
  /\ NoneOverwritten
  /\ RightUnlessOverwritten
  /\ RightUntilWrapped
  /\ OneCopyPerWorker

(***************************************************************************)
(* The thread that fills holds the mutex, alone, and writes what is right. *)
(***************************************************************************)
LEMMA Filler ==
  ASSUME NEW w \in Worker, CacheInv, pc[w] \in Filling
  PROVE  /\ db_mtx_cache = w
         /\ db_mtx_cache # NoOne
         /\ \A v \in Worker : pc[v] \in Filling => v = w
         /\ asked[w] \in Query
         /\ answer[w] \in Given(asked[w])
  BY CacheAssumption DEF CacheInv, MutexHeld, AnswerKnown, Given, Filling

(***************************************************************************)
(* The row of a display the database has is not the one of those it has    *)
(* not.                                                                    *)
(***************************************************************************)
LEMMA RowOfKnown == \A q \in Known : Row(q) = q /\ q # NoRow
  BY CacheAssumption DEF Row

(*****************************************************************************)
(* A new query leaves the cache alone.                                       *)
(*****************************************************************************)
LEMMA AskInv ==
  ASSUME NEW w \in Worker, CacheInv, Ask(w)
  PROVE  CacheInv'
<1> USE CacheAssumption DEF CacheInv, Go, shared, Ask
<1>1. TypeOK'
  <2>1. pc' \in [Worker -> Steps]
    BY DEF TypeOK, Steps
  <2> QED
    BY <2>1 DEF TypeOK
<1>2. MutexHeld' /\ AnswerKnown'
  BY DEF TypeOK, MutexHeld, AnswerKnown, Given, Filling
<1>3. OthersWhole' /\ FilledSoFar'
  BY DEF TypeOK, OthersWhole, FilledSoFar, Whole, Holds, Filled, Filling
<1>4. FoundHolds'
  BY DEF TypeOK, FoundHolds, Reading, Holds
<1>5. ReadSoFar'
  BY DEF TypeOK, ReadSoFar, ReadBy
<1>6. FilledBy' /\ NoneOverwritten'
  BY DEF TypeOK, FilledBy, NoneOverwritten, Filled, Reading
<1>7. RightUnlessOverwritten' /\ RightUntilWrapped'
  BY DEF TypeOK, RightUnlessOverwritten, RightUntilWrapped, Given
<1>8. OneCopyPerWorker'
  BY DEF TypeOK, OneCopyPerWorker, Filled
<1> QED
  BY <1>1, <1>2, <1>3, <1>4, <1>5, <1>6, <1>7, <1>8

(*****************************************************************************)
(* A search ends at an entry that is whole.                                  *)
(*****************************************************************************)
LEMMA SearchInv ==
  ASSUME NEW w \in Worker, CacheInv, Search(w)
  PROVE  CacheInv'
<1> USE CacheAssumption DEF CacheInv, Go, shared, Search
<1>1. TypeOK'
  <2>1. found' \in [Worker -> Index] /\ overwritten' \in [Worker -> BOOLEAN]
    <3>1. \A k \in Index : [found EXCEPT ![w] = k] \in [Worker -> Index]
      BY DEF TypeOK
    <3>2. [overwritten EXCEPT ![w] = FALSE] \in [Worker -> BOOLEAN]
      BY Zenon DEF TypeOK
    <3>3. \/ found' = found
          \/ \E k \in Index : found' = [found EXCEPT ![w] = k]
      BY Zenon DEF LookUp
    <3> QED
      BY <3>1, <3>2, <3>3, Zenon DEF TypeOK
  <2>2. NoAnswer \in Answer
    BY DEF NoAnswer, Answer, Value
  <2>3. answer' \in [Worker -> Answer]
    BY <2>2 DEF TypeOK, LookUp
  <2>4. pc' \in [Worker -> Steps]
    BY DEF TypeOK, LookUp, Steps
  <2> QED
    BY <2>1, <2>3, <2>4 DEF TypeOK
<1>2. MutexHeld' /\ AnswerKnown'
  BY DEF TypeOK, MutexHeld, AnswerKnown, Given, Filling, LookUp, FirstHit, Hits
<1>3. OthersWhole' /\ FilledSoFar'
  BY DEF TypeOK, OthersWhole, FilledSoFar, Whole, Holds, Filled, Filling,
    LookUp, FirstHit, Hits
<1>4. FoundHolds'
  <2> SUFFICES ASSUME NEW v \in Worker, pc'[v] \in Reading, ~overwritten'[v]
               PROVE  Holds(found[v], asked[v])' /\ db_mtx_cache' = NoOne
    BY DEF FoundHolds
  <2>1. CASE v # w
    <3>1. /\ pc[v] \in Reading /\ ~overwritten[v]
          /\ found'[v] = found[v]
      BY <2>1 DEF TypeOK, LookUp
    <3>2. Holds(found[v], asked[v])
      BY <3>1 DEF FoundHolds
    <3> QED
      BY <3>1, <3>2 DEF Holds
  <2>2. CASE v = w
    <3>1. PICK k \in Index :
            /\ FirstHit(w, k)
            /\ found' = [found EXCEPT ![w] = k]
            /\ cache[k].state = "VALUE_DB"
      BY <2>2 DEF TypeOK, LookUp, Reading
    <3>2. cache[k].query = asked[w] /\ asked[w] \in Query
      BY <3>1 DEF FirstHit, Hits, AnswerKnown
    <3>3. Holds(k, asked[w])
      BY <3>1, <3>2 DEF OthersWhole, Whole, Filled
    <3>4. found'[w] = k
      BY <3>1 DEF TypeOK
    <3> QED
      BY <2>2, <3>3, <3>4 DEF Holds
  <2> QED
    BY <2>1, <2>2
<1>5. ReadSoFar'
  BY DEF TypeOK, ReadSoFar, ReadBy, LookUp, FirstHit, Hits
<1>6. FilledBy' /\ NoneOverwritten'
  BY DEF TypeOK, FilledBy, NoneOverwritten, Filled, Reading, LookUp,
    FirstHit, Hits
<1>7. RightUnlessOverwritten' /\ RightUntilWrapped'
  <2> SUFFICES ASSUME NEW v \in Worker, pc'[v] = "done"
               PROVE  \/ answer'[v] \in Given(asked[v])'
                      \/ overwritten'[v] /\ wrapped
    BY DEF RightUnlessOverwritten, RightUntilWrapped, Given
  <2>1. CASE v # w
    <3>1. /\ pc[v] = "done" /\ answer'[v] = answer[v]
          /\ overwritten'[v] = overwritten[v]
      BY <2>1 DEF TypeOK, LookUp
    <3>2. answer[v] \in Given(asked[v]) \/ overwritten[v]
      BY <3>1 DEF RightUnlessOverwritten
    <3>3. answer[v] \in Given(asked[v]) \/ wrapped
      BY <3>1 DEF RightUntilWrapped
    <3> QED
      BY <3>1, <3>2, <3>3 DEF Given
  <2>2. CASE v = w
    <3>1. PICK k \in Index :
            /\ FirstHit(w, k)
            /\ cache[k].state = "NO_VALUE_IN_DB"
            /\ answer' = [answer EXCEPT ![w] = NoAnswer]
      BY <2>2 DEF TypeOK, LookUp
    <3>2. cache[k].query = asked[w] /\ asked[w] \in Query
      BY <3>1 DEF FirstHit, Hits, AnswerKnown
    <3>3. asked[w] \in Known => asked[w] \in failed
      BY <3>1, <3>2 DEF OthersWhole, Whole, Filled
    <3>4. NoAnswer \in Given(asked[w])
      BY <3>3 DEF NoAnswer, RightAnswer, Row, Given
    <3> QED
      BY <2>2, <3>1, <3>4 DEF TypeOK, Given
  <2> QED
    BY <2>1, <2>2
<1>8. OneCopyPerWorker'
  BY DEF TypeOK, OneCopyPerWorker, Filled, LookUp, FirstHit, Hits
<1> QED
  BY <1>1, <1>2, <1>3, <1>4, <1>5, <1>6, <1>7, <1>8

(*****************************************************************************)
(* Reading a field of the entry found:                                       *)
(*****************************************************************************)
LEMMA ReadColorsInv ==
  ASSUME NEW w \in Worker, CacheInv, ReadColors(w)
  PROVE  CacheInv'
<1> USE CacheAssumption DEF CacheInv, Go, shared, ReadColors
<1>1. TypeOK'
  <2>1. cache[found[w]].colors \in Value
    BY DEF TypeOK, Entry
  <2>2. answer[w] \in Answer
    BY DEF TypeOK
  <2>3. [answer[w] EXCEPT !.colors = cache[found[w]].colors] \in Answer
    BY <2>1, <2>2 DEF Answer
  <2>4. answer' \in [Worker -> Answer]
    BY <2>3 DEF TypeOK
  <2>5. pc' \in [Worker -> Steps]
    BY DEF TypeOK, Steps
  <2> QED
    BY <2>4, <2>5 DEF TypeOK
<1>2. MutexHeld' /\ AnswerKnown'
  BY DEF TypeOK, MutexHeld, AnswerKnown, Given, Filling
<1>3. OthersWhole' /\ FilledSoFar'
  BY DEF TypeOK, OthersWhole, FilledSoFar, Whole, Holds, Filled, Filling
<1>4. FoundHolds'
  BY DEF TypeOK, FoundHolds, Reading, Holds
<1>5. ReadSoFar'
  <2> SUFFICES ASSUME NEW v \in Worker, ~overwritten[v]
               PROVE  ReadBy(v)'
    BY DEF ReadSoFar
  <2>1. CASE v # w
    BY <2>1 DEF TypeOK, ReadSoFar, ReadBy
  <2>2. CASE v = w
    <3>1. cache[found[w]].colors = Row(asked[w])
      BY <2>2 DEF FoundHolds, Reading, Holds
    <3>2. answer[w] \in Answer /\ answer' = [answer EXCEPT ![w] = answer'[w]]
      BY DEF TypeOK
    <3>3. answer'[w] = [answer[w] EXCEPT !.colors = cache[found[w]].colors]
      BY DEF TypeOK
    <3>4. answer'[w].colors = Row(asked[w])
      BY <2>2, <3>1, <3>2, <3>3 DEF Answer, ReadSoFar, ReadBy
    <3> QED
      BY <2>2, <3>4 DEF TypeOK, ReadBy
  <2> QED
    BY <2>1, <2>2
<1>6. FilledBy' /\ NoneOverwritten'
  BY DEF TypeOK, FilledBy, NoneOverwritten, Filled, Reading
<1>7. RightUnlessOverwritten' /\ RightUntilWrapped'
  BY DEF TypeOK, RightUnlessOverwritten, RightUntilWrapped, Given
<1>8. OneCopyPerWorker'
  BY DEF TypeOK, OneCopyPerWorker, Filled
<1> QED
  BY <1>1, <1>2, <1>3, <1>4, <1>5, <1>6, <1>7, <1>8

(*****************************************************************************)
(* and the next,                                                             *)
(*****************************************************************************)
LEMMA ReadWidthInv ==
  ASSUME NEW w \in Worker, CacheInv, ReadWidth(w)
  PROVE  CacheInv'
<1> USE CacheAssumption DEF CacheInv, Go, shared, ReadWidth
<1>1. TypeOK'
  <2>1. cache[found[w]].width \in Value
    BY DEF TypeOK, Entry
  <2>2. answer[w] \in Answer
    BY DEF TypeOK
  <2>3. [answer[w] EXCEPT !.width = cache[found[w]].width] \in Answer
    BY <2>1, <2>2 DEF Answer
  <2>4. answer' \in [Worker -> Answer]
    BY <2>3 DEF TypeOK
  <2>5. pc' \in [Worker -> Steps]
    BY DEF TypeOK, Steps
  <2> QED
    BY <2>4, <2>5 DEF TypeOK
<1>2. MutexHeld' /\ AnswerKnown'
  BY DEF TypeOK, MutexHeld, AnswerKnown, Given, Filling
<1>3. OthersWhole' /\ FilledSoFar'
  BY DEF TypeOK, OthersWhole, FilledSoFar, Whole, Holds, Filled, Filling
<1>4. FoundHolds'
  BY DEF TypeOK, FoundHolds, Reading, Holds
<1>5. ReadSoFar'
  <2> SUFFICES ASSUME NEW v \in Worker, ~overwritten[v]
               PROVE  ReadBy(v)'
    BY DEF ReadSoFar
  <2>1. CASE v # w
    BY <2>1 DEF TypeOK, ReadSoFar, ReadBy
  <2>2. CASE v = w
    <3>1. cache[found[w]].width = Row(asked[w])
      BY <2>2 DEF FoundHolds, Reading, Holds
    <3>2. answer[w] \in Answer /\ answer' = [answer EXCEPT ![w] = answer'[w]]
      BY DEF TypeOK
    <3>3. answer'[w] = [answer[w] EXCEPT !.width = cache[found[w]].width]
      BY DEF TypeOK
    <3>4. answer'[w].width = Row(asked[w]) /\ answer'[w].colors = Row(asked[w])
      BY <2>2, <3>1, <3>2, <3>3 DEF Answer, ReadSoFar, ReadBy
    <3> QED
      BY <2>2, <3>4 DEF TypeOK, ReadBy
  <2> QED
    BY <2>1, <2>2
<1>6. FilledBy' /\ NoneOverwritten'
  BY DEF TypeOK, FilledBy, NoneOverwritten, Filled, Reading
<1>7. RightUnlessOverwritten' /\ RightUntilWrapped'
  BY DEF TypeOK, RightUnlessOverwritten, RightUntilWrapped, Given
<1>8. OneCopyPerWorker'
  BY DEF TypeOK, OneCopyPerWorker, Filled
<1> QED
  BY <1>1, <1>2, <1>3, <1>4, <1>5, <1>6, <1>7, <1>8

(*****************************************************************************)
(* and the last.                                                             *)
(*****************************************************************************)
LEMMA ReadHeightInv ==
  ASSUME NEW w \in Worker, CacheInv, ReadHeight(w)
  PROVE  CacheInv'
<1> USE CacheAssumption DEF CacheInv, Go, shared, ReadHeight
<1>1. TypeOK'
  <2>1. cache[found[w]].height \in Value
    BY DEF TypeOK, Entry
  <2>2. answer[w] \in Answer
    BY DEF TypeOK
  <2>3. [answer[w] EXCEPT !.height = cache[found[w]].height] \in Answer
    BY <2>1, <2>2 DEF Answer
  <2>4. answer' \in [Worker -> Answer]
    BY <2>3 DEF TypeOK
  <2>5. pc' \in [Worker -> Steps]
    BY DEF TypeOK, Steps
  <2> QED
    BY <2>4, <2>5 DEF TypeOK
<1>2. MutexHeld' /\ AnswerKnown'
  BY DEF TypeOK, MutexHeld, AnswerKnown, Given, Filling
<1>3. OthersWhole' /\ FilledSoFar'
  BY DEF TypeOK, OthersWhole, FilledSoFar, Whole, Holds, Filled, Filling
<1>4. FoundHolds'
  BY DEF TypeOK, FoundHolds, Reading, Holds
<1>5. ReadSoFar'
  BY DEF TypeOK, ReadSoFar, ReadBy
<1>6. FilledBy' /\ NoneOverwritten'
  BY DEF TypeOK, FilledBy, NoneOverwritten, Filled, Reading
<1>7. RightUnlessOverwritten' /\ RightUntilWrapped'
  <2> SUFFICES ASSUME NEW v \in Worker, pc'[v] = "done"
               PROVE  \/ answer'[v] \in Given(asked[v])'
                      \/ overwritten[v] /\ wrapped
    BY DEF RightUnlessOverwritten, RightUntilWrapped, Given
  <2>1. CASE v # w
    <3>1. pc[v] = "done" /\ answer'[v] = answer[v]
      BY <2>1 DEF TypeOK
    <3>2. answer[v] \in Given(asked[v]) \/ overwritten[v]
      BY <3>1 DEF RightUnlessOverwritten
    <3>3. answer[v] \in Given(asked[v]) \/ wrapped
      BY <3>1 DEF RightUntilWrapped
    <3> QED
      BY <3>1, <3>2, <3>3 DEF Given
  <2>2. CASE v = w /\ ~overwritten[w]
    <3>1. cache[found[w]].height = Row(asked[w])
      BY <2>2 DEF FoundHolds, Reading, Holds
    <3>2. answer[w].colors = Row(asked[w]) /\ answer[w].width = Row(asked[w])
      BY <2>2 DEF ReadSoFar, ReadBy
    <3>3. answer[w] \in Answer
      BY DEF TypeOK
    <3>4. answer'[w] = [answer[w] EXCEPT !.height = cache[found[w]].height]
      BY DEF TypeOK
    <3>5. answer'[w] = RightAnswer(asked[w])
      BY <3>1, <3>2, <3>3, <3>4 DEF Answer, RightAnswer
    <3> QED
      BY <2>2, <3>5 DEF Given
  <2>3. CASE v = w /\ overwritten[w]
    <3>1. wrapped
      BY <2>3 DEF NoneOverwritten, Reading
    <3> QED
      BY <2>3, <3>1
  <2> QED
    BY <2>1, <2>2, <2>3
<1>8. OneCopyPerWorker'
  BY DEF TypeOK, OneCopyPerWorker, Filled
<1> QED
  BY <1>1, <1>2, <1>3, <1>4, <1>5, <1>6, <1>7, <1>8

(*****************************************************************************)
(* The database answers rightly, or the query fails and is noted.            *)
(*****************************************************************************)
LEMMA AskDBInv ==
  ASSUME NEW w \in Worker, CacheInv, AskDB(w)
  PROVE  CacheInv'
<1> USE CacheAssumption DEF CacheInv, Go, shared, AskDB
<1>0. failed \subseteq failed' /\ failed' \subseteq Known
  BY DEF TypeOK
<1>1. TypeOK'
  <2>1. RightAnswer(asked[w]) \in Answer /\ NoAnswer \in Answer
    BY DEF TypeOK, Answer, RightAnswer, NoAnswer, Row, Value
  <2>2. answer' \in [Worker -> Answer]
    BY <2>1 DEF TypeOK
  <2>3. pc' \in [Worker -> Steps]
    BY DEF TypeOK, Steps
  <2> QED
    BY <1>0, <2>2, <2>3 DEF TypeOK
<1>2. MutexHeld' /\ AnswerKnown'
  <2>1. MutexHeld'
    BY DEF TypeOK, MutexHeld, Filling
  <2>2. answer'[w] \in Given(asked[w])'
    <3>1. asked[w] \notin Known => NoAnswer = RightAnswer(asked[w])
      BY DEF NoAnswer, RightAnswer, Row
    <3> QED
      BY <3>1 DEF TypeOK, Given
  <2>3. \A v \in Worker \ {w} : answer'[v] = answer[v] /\ pc'[v] = pc[v]
    BY DEF TypeOK
  <2>4. pc[w] # "idle"
    OBVIOUS
  <2> QED
    BY <1>0, <2>1, <2>2, <2>3, <2>4 DEF AnswerKnown, Given
<1>3. OthersWhole' /\ FilledSoFar'
  BY DEF TypeOK, OthersWhole, FilledSoFar, Whole, Holds, Filled, Filling
<1>4. FoundHolds'
  BY DEF TypeOK, FoundHolds, Reading, Holds
<1>5. ReadSoFar'
  BY DEF TypeOK, ReadSoFar, ReadBy
<1>6. FilledBy' /\ NoneOverwritten'
  BY DEF TypeOK, FilledBy, NoneOverwritten, Filled, Reading
<1>7. RightUnlessOverwritten' /\ RightUntilWrapped'
  BY DEF TypeOK, RightUnlessOverwritten, RightUntilWrapped, Given
<1>8. OneCopyPerWorker'
  BY DEF TypeOK, OneCopyPerWorker, Filled
<1> QED
  BY <1>1, <1>2, <1>3, <1>4, <1>5, <1>6, <1>7, <1>8

(*****************************************************************************)
(* An entry is taken over, and whoever had found it is noted.                *)
(*****************************************************************************)
LEMMA FillQueryInv ==
  ASSUME NEW w \in Worker, CacheInv, FillQuery(w)
  PROVE  CacheInv'
<1> USE CacheAssumption DEF CacheInv, Go, FillQuery
<1>1. idx_cache \in Index /\ cache \in [Index -> Entry] /\ asked[w] \in Query
  BY DEF TypeOK, AnswerKnown
<1>2. /\ cache' \in [Index -> Entry]
      /\ \A k \in Index \ {idx_cache} : cache'[k] = cache[k]
      /\ cache'[idx_cache].query = asked[w]
  BY <1>1 DEF Entry
<1>3. /\ by' \in [Index -> Worker \cup {NoOne}]
      /\ \A k \in Index \ {idx_cache} : by'[k] = by[k]
      /\ by'[idx_cache] = w
  BY <1>1 DEF TypeOK
<1>4. overwritten' \in [Worker -> BOOLEAN] /\ wrapped' \in BOOLEAN
  <2>1. \A v \in Worker :
          (overwritten[v] \/ (pc[v] \in {"colors", "width", "height"} /\ found[v] = idx_cache))
            \in BOOLEAN
    OBVIOUS
  <2>2. (wrapped \/ by[idx_cache] # NoOne) \in BOOLEAN
    OBVIOUS
  <2> QED
    BY <2>1, <2>2
<1>5. TypeOK'
  <2>1. pc' \in [Worker -> Steps]
    BY DEF TypeOK, Steps
  <2> QED
    BY <1>2, <1>3, <1>4, <2>1 DEF TypeOK
<1>6. MutexHeld' /\ AnswerKnown'
  BY DEF TypeOK, MutexHeld, AnswerKnown, Given, Filling
<1>7. OthersWhole'
  BY <1>2 DEF OthersWhole, Whole, Holds, Filled
<1>8. FilledSoFar'
  <2>1. \A v \in Worker : pc'[v] \in Filling => v = w
    BY <1>6 DEF MutexHeld
  <2>2. pc'[w] = "fill_colors"
    BY DEF TypeOK
  <2> QED
    BY <1>2, <2>1, <2>2 DEF FilledSoFar
<1>9. FoundHolds'
  <2> SUFFICES ASSUME NEW v \in Worker, pc'[v] \in Reading, ~overwritten'[v]
               PROVE  Holds(found[v], asked[v])' /\ found[v] # idx_cache
    BY DEF FoundHolds
  <2>1. pc[v] \in Reading
    BY DEF TypeOK, Reading
  <2>2. ~overwritten[v] /\ found[v] # idx_cache
    BY <2>1 DEF Reading
  <2>3. found[v] \in Index /\ Holds(found[v], asked[v])
    BY <2>1, <2>2 DEF TypeOK, FoundHolds
  <2> QED
    BY <1>2, <2>2, <2>3 DEF Holds
<1>10. ReadSoFar'
  <2> SUFFICES ASSUME NEW v \in Worker, ~overwritten'[v]
               PROVE  ReadBy(v)'
    BY DEF ReadSoFar
  <2>1. ~overwritten[v]
    OBVIOUS
  <2> QED
    BY <2>1 DEF TypeOK, ReadSoFar, ReadBy
<1>11. FilledBy'
  BY <1>1, <1>2, <1>3 DEF FilledBy, Filled
<1>12. NoneOverwritten'
  <2> SUFFICES ASSUME ~wrapped', NEW v \in Worker, pc'[v] \in Reading
               PROVE  ~overwritten'[v]
    BY DEF NoneOverwritten
  <2>1. ~wrapped /\ by[idx_cache] = NoOne
    OBVIOUS
  <2>2. pc[v] \in Reading
    BY DEF TypeOK, Reading
  <2>3. ~overwritten[v]
    BY <2>1, <2>2 DEF NoneOverwritten
  <2>4. cache[found[v]].query \in Query /\ found[v] \in Index
    <3>1. pc[v] # "idle"
      BY <2>2 DEF Reading
    <3>2. asked[v] \in Query
      BY <3>1 DEF AnswerKnown
    <3> QED
      BY <2>2, <2>3, <3>2 DEF TypeOK, FoundHolds, Holds
  <2>5. Filled(found[v])
    BY <2>4 DEF Filled
  <2>6. found[v] # idx_cache
    BY <1>1, <2>1, <2>4, <2>5 DEF FilledBy
  <2> QED
    BY <2>3, <2>6
<1>13. RightUnlessOverwritten' /\ RightUntilWrapped'
  <2> SUFFICES ASSUME NEW v \in Worker, pc'[v] = "done"
               PROVE  \/ answer[v] \in Given(asked[v])
                      \/ overwritten'[v] /\ wrapped'
    BY DEF RightUnlessOverwritten, RightUntilWrapped, Given
  <2>1. pc[v] = "done"
    BY DEF TypeOK
  <2>2. answer[v] \in Given(asked[v]) \/ overwritten[v]
    BY <2>1 DEF RightUnlessOverwritten
  <2>3. answer[v] \in Given(asked[v]) \/ wrapped
    BY <2>1 DEF RightUntilWrapped
  <2> QED
    BY <2>2, <2>3
<1>14. OneCopyPerWorker'
  <2>1. \A k \in Index : by[k] = w => cache[k].query # asked[w]
    BY DEF OneCopyPerWorker
  <2>2. \A j, k \in Index :
          (Filled(j) /\ cache[j].query = cache[k].query /\ by[j] = by[k])' => j = k
    BY <1>1, <1>2, <1>3, <2>1 DEF OneCopyPerWorker, Filled
  <2>3. \A v \in Worker, k \in Index :
          pc'[v] \in {"db", "fill"} /\ by'[k] = v => cache'[k].query # asked[v]
    BY <1>2, <1>3 DEF TypeOK, OneCopyPerWorker
  <2> QED
    BY <2>2, <2>3 DEF OneCopyPerWorker
<1> QED
  BY <1>5, <1>6, <1>7, <1>8, <1>9, <1>10, <1>11, <1>12, <1>13, <1>14

(*****************************************************************************)
(* Filling a field disturbs no entry but that one:                           *)
(*****************************************************************************)
LEMMA FillColorsInv ==
  ASSUME NEW w \in Worker, CacheInv, FillColors(w)
  PROVE  CacheInv'
<1> USE DEF CacheInv, Go, FillColors
<1>1. pc[w] = "fill_colors" /\ pc[w] \in Filling
  BY DEF Filling
<1>2. /\ db_mtx_cache = w
      /\ db_mtx_cache # NoOne
      /\ \A v \in Worker : pc[v] \in Filling => v = w
      /\ asked[w] \in Query
      /\ answer[w] \in Given(asked[w])
  BY <1>1, Filler
<1>3. answer[w].colors \in Value
  BY DEF TypeOK, Answer
<1>4. idx_cache \in Index /\ cache \in [Index -> Entry]
  BY DEF TypeOK
<1>5. /\ cache' \in [Index -> Entry]
      /\ \A k \in Index \ {idx_cache} : cache'[k] = cache[k]
      /\ cache'[idx_cache].colors = answer[w].colors
      /\ cache'[idx_cache].query = cache[idx_cache].query
      /\ cache'[idx_cache].width = cache[idx_cache].width
      /\ cache'[idx_cache].height = cache[idx_cache].height
      /\ cache'[idx_cache].state = cache[idx_cache].state
  BY <1>3, <1>4 DEF Entry
<1>6. TypeOK'
  BY <1>5 DEF TypeOK, Steps
<1>7. MutexHeld' /\ AnswerKnown'
  BY <1>1 DEF TypeOK, MutexHeld, AnswerKnown, Given, Filling
<1>8. OthersWhole'
  BY <1>2, <1>4, <1>5 DEF OthersWhole, Whole, Holds, Filled
<1>9. FilledSoFar'
  BY <1>1, <1>2, <1>5 DEF TypeOK, FilledSoFar, Filling
<1>10. FoundHolds'
  BY <1>1, <1>2, <1>5 DEF TypeOK, FoundHolds, Holds, Reading
<1>11. ReadSoFar' /\ NoneOverwritten'
  BY <1>1 DEF TypeOK, ReadSoFar, ReadBy, NoneOverwritten, Reading
<1>12. FilledBy'
  BY <1>4, <1>5 DEF FilledBy, Filled
<1>13. RightUnlessOverwritten' /\ RightUntilWrapped'
  BY <1>1 DEF TypeOK, RightUnlessOverwritten, RightUntilWrapped, Given
<1>14. OneCopyPerWorker'
  BY <1>1, <1>4, <1>5 DEF TypeOK, OneCopyPerWorker, Filled
<1> QED
  BY <1>6, <1>7, <1>8, <1>9, <1>10, <1>11, <1>12, <1>13, <1>14

(*****************************************************************************)
(* nor the next field,                                                       *)
(*****************************************************************************)
LEMMA FillWidthInv ==
  ASSUME NEW w \in Worker, CacheInv, FillWidth(w)
  PROVE  CacheInv'
<1> USE DEF CacheInv, Go, FillWidth
<1>1. pc[w] = "fill_width" /\ pc[w] \in Filling
  BY DEF Filling
<1>2. /\ db_mtx_cache = w
      /\ db_mtx_cache # NoOne
      /\ \A v \in Worker : pc[v] \in Filling => v = w
      /\ asked[w] \in Query
      /\ answer[w] \in Given(asked[w])
  BY <1>1, Filler
<1>3. answer[w].width \in Value
  BY DEF TypeOK, Answer
<1>4. idx_cache \in Index /\ cache \in [Index -> Entry]
  BY DEF TypeOK
<1>5. /\ cache' \in [Index -> Entry]
      /\ \A k \in Index \ {idx_cache} : cache'[k] = cache[k]
      /\ cache'[idx_cache].width = answer[w].width
      /\ cache'[idx_cache].query = cache[idx_cache].query
      /\ cache'[idx_cache].colors = cache[idx_cache].colors
      /\ cache'[idx_cache].height = cache[idx_cache].height
      /\ cache'[idx_cache].state = cache[idx_cache].state
  BY <1>3, <1>4 DEF Entry
<1>6. TypeOK'
  BY <1>5 DEF TypeOK, Steps
<1>7. MutexHeld' /\ AnswerKnown'
  BY <1>1 DEF TypeOK, MutexHeld, AnswerKnown, Given, Filling
<1>8. OthersWhole'
  BY <1>2, <1>4, <1>5 DEF OthersWhole, Whole, Holds, Filled
<1>9. FilledSoFar'
  BY <1>1, <1>2, <1>5 DEF TypeOK, FilledSoFar, Filling
<1>10. FoundHolds'
  BY <1>1, <1>2, <1>5 DEF TypeOK, FoundHolds, Holds, Reading
<1>11. ReadSoFar' /\ NoneOverwritten'
  BY <1>1 DEF TypeOK, ReadSoFar, ReadBy, NoneOverwritten, Reading
<1>12. FilledBy'
  BY <1>4, <1>5 DEF FilledBy, Filled
<1>13. RightUnlessOverwritten' /\ RightUntilWrapped'
  BY <1>1 DEF TypeOK, RightUnlessOverwritten, RightUntilWrapped, Given
<1>14. OneCopyPerWorker'
  BY <1>1, <1>4, <1>5 DEF TypeOK, OneCopyPerWorker, Filled
<1> QED
  BY <1>6, <1>7, <1>8, <1>9, <1>10, <1>11, <1>12, <1>13, <1>14

(*****************************************************************************)
(* nor the last.                                                             *)
(*****************************************************************************)
LEMMA FillHeightInv ==
  ASSUME NEW w \in Worker, CacheInv, FillHeight(w)
  PROVE  CacheInv'
<1> USE DEF CacheInv, Go, FillHeight
<1>1. pc[w] = "fill_height" /\ pc[w] \in Filling
  BY DEF Filling
<1>2. /\ db_mtx_cache = w
      /\ db_mtx_cache # NoOne
      /\ \A v \in Worker : pc[v] \in Filling => v = w
      /\ asked[w] \in Query
      /\ answer[w] \in Given(asked[w])
  BY <1>1, Filler
<1>3. answer[w].height \in Value
  BY DEF TypeOK, Answer
<1>4. idx_cache \in Index /\ cache \in [Index -> Entry]
  BY DEF TypeOK
<1>5. /\ cache' \in [Index -> Entry]
      /\ \A k \in Index \ {idx_cache} : cache'[k] = cache[k]
      /\ cache'[idx_cache].height = answer[w].height
      /\ cache'[idx_cache].query = cache[idx_cache].query
      /\ cache'[idx_cache].colors = cache[idx_cache].colors
      /\ cache'[idx_cache].width = cache[idx_cache].width
      /\ cache'[idx_cache].state = cache[idx_cache].state
  BY <1>3, <1>4 DEF Entry
<1>6. TypeOK'
  BY <1>5 DEF TypeOK, Steps
<1>7. MutexHeld' /\ AnswerKnown'
  BY <1>1 DEF TypeOK, MutexHeld, AnswerKnown, Given, Filling
<1>8. OthersWhole'
  BY <1>2, <1>4, <1>5 DEF OthersWhole, Whole, Holds, Filled
<1>9. FilledSoFar'
  BY <1>1, <1>2, <1>5 DEF TypeOK, FilledSoFar, Filling
<1>10. FoundHolds'
  BY <1>1, <1>2, <1>5 DEF TypeOK, FoundHolds, Holds, Reading
<1>11. ReadSoFar' /\ NoneOverwritten'
  BY <1>1 DEF TypeOK, ReadSoFar, ReadBy, NoneOverwritten, Reading
<1>12. FilledBy'
  BY <1>4, <1>5 DEF FilledBy, Filled
<1>13. RightUnlessOverwritten' /\ RightUntilWrapped'
  BY <1>1 DEF TypeOK, RightUnlessOverwritten, RightUntilWrapped, Given
<1>14. OneCopyPerWorker'
  BY <1>1, <1>4, <1>5 DEF TypeOK, OneCopyPerWorker, Filled
<1> QED
  BY <1>6, <1>7, <1>8, <1>9, <1>10, <1>11, <1>12, <1>13, <1>14

(*****************************************************************************)
(* With its state the entry is whole, and the mutex is given back.           *)
(*****************************************************************************)
LEMMA FillStateInv ==
  ASSUME NEW w \in Worker, CacheInv, FillState(w)
  PROVE  CacheInv'
<1> USE DEF CacheInv, Go, FillState
<1>1. pc[w] = "fill_state" /\ pc[w] \in Filling
  BY DEF Filling
<1>2. /\ db_mtx_cache = w
      /\ db_mtx_cache # NoOne
      /\ \A v \in Worker : pc[v] \in Filling => v = w
      /\ asked[w] \in Query
      /\ answer[w] \in Given(asked[w])
  BY <1>1, Filler
<1>3. idx_cache \in Index /\ cache \in [Index -> Entry]
  BY DEF TypeOK
<1>4. /\ cache' \in [Index -> Entry]
      /\ \A k \in Index \ {idx_cache} : cache'[k] = cache[k]
      /\ cache'[idx_cache].query = cache[idx_cache].query
      /\ cache'[idx_cache].colors = cache[idx_cache].colors
      /\ cache'[idx_cache].width = cache[idx_cache].width
      /\ cache'[idx_cache].height = cache[idx_cache].height
      /\ cache'[idx_cache].state =
           IF answer[w] # NoAnswer THEN "VALUE_DB" ELSE "NO_VALUE_IN_DB"
  BY <1>3 DEF Entry
<1>5. idx_cache' \in Index
  BY <1>3, CacheAssumption DEF Index
<1>6. TypeOK'
  <2>1. pc' \in [Worker -> Steps]
    BY DEF TypeOK, Steps
  <2> QED
    BY <1>4, <1>5, <2>1 DEF TypeOK
<1>7. /\ ~(pc'[w] \in Filling \cup {"fill"})
      /\ pc'[w] # "idle"
      /\ \A v \in Worker \ {w} : pc'[v] = pc[v] /\ pc'[v] \notin Filling
  BY <1>2 DEF TypeOK, Filling
<1>8. MutexHeld' /\ AnswerKnown'
  BY <1>2, <1>7, CacheAssumption DEF MutexHeld, AnswerKnown, Given, Filling
<1>9. OthersWhole'
  <2>1. \A k \in Index \ {idx_cache} : Whole(k)
    BY DEF OthersWhole
  <2>2. /\ cache'[idx_cache].query = asked[w]
        /\ cache'[idx_cache].colors = answer[w].colors
        /\ cache'[idx_cache].width = answer[w].width
        /\ cache'[idx_cache].height = answer[w].height
    BY <1>1, <1>4 DEF FilledSoFar, Filling
  <2>3. ASSUME NEW k \in Index, k = idx_cache PROVE Whole(k)'
    <3>1. CASE answer[w] = NoAnswer
      <4>1. NoAnswer = RightAnswer(asked[w]) => asked[w] \notin Known
        BY <1>2, RowOfKnown DEF NoAnswer, RightAnswer
      <4>2. asked[w] \in Known => asked[w] \in failed
        BY <1>2, <3>1, <4>1 DEF Given
      <4> QED
        BY <1>4, <2>2, <2>3, <3>1, <4>2 DEF Whole, Filled, NoAnswer
    <3>2. CASE answer[w] # NoAnswer
      <4>1. answer[w] = RightAnswer(asked[w])
        BY <1>2, <3>2 DEF Given
      <4>2. asked[w] \in Known
        BY <3>2, <4>1 DEF NoAnswer, RightAnswer, Row
      <4> QED
        BY <1>4, <2>2, <2>3, <3>2, <4>1, <4>2 DEF Whole, Holds, Filled, RightAnswer
    <3> QED
      BY <3>1, <3>2
  <2>4. \A k \in Index \ {idx_cache} : Whole(k)'
    BY <1>4, <2>1 DEF Whole, Holds, Filled
  <2> QED
    BY <1>3, <2>3, <2>4 DEF OthersWhole
<1>10. FilledSoFar'
  BY <1>2, <1>7 DEF FilledSoFar, Filling
<1>11. FoundHolds'
  BY <1>1, <1>2, <1>4, <1>7 DEF TypeOK, FoundHolds, Holds, Reading, Filling
<1>12. ReadSoFar' /\ NoneOverwritten'
  BY <1>1 DEF TypeOK, ReadSoFar, ReadBy, NoneOverwritten, Reading
<1>13. FilledBy'
  BY <1>3, <1>4 DEF FilledBy, Filled
<1>14. RightUnlessOverwritten' /\ RightUntilWrapped'
  BY <1>2 DEF TypeOK, RightUnlessOverwritten, RightUntilWrapped, Given
<1>15. OneCopyPerWorker'
  BY <1>3, <1>4 DEF TypeOK, OneCopyPerWorker, Filled
<1> QED
  BY <1>6, <1>8, <1>9, <1>10, <1>11, <1>12, <1>13, <1>14, <1>15

(*****************************************************************************)
(* A thread that is done leaves the cache alone.                             *)
(*****************************************************************************)
LEMMA FinishInv ==
  ASSUME NEW w \in Worker, CacheInv, Finish(w)
  PROVE  CacheInv'
<1> USE CacheAssumption DEF CacheInv, Go, shared, Finish
<1>1. TypeOK'
  <2>1. pc' \in [Worker -> Steps]
    BY DEF TypeOK, Steps
  <2> QED
    BY <2>1 DEF TypeOK
<1>2. MutexHeld' /\ AnswerKnown'
  BY DEF TypeOK, MutexHeld, AnswerKnown, Given, Filling
<1>3. OthersWhole' /\ FilledSoFar'
  BY DEF TypeOK, OthersWhole, FilledSoFar, Whole, Holds, Filled, Filling
<1>4. FoundHolds'
  BY DEF TypeOK, FoundHolds, Reading, Holds
<1>5. ReadSoFar'
  BY DEF TypeOK, ReadSoFar, ReadBy
<1>6. FilledBy' /\ NoneOverwritten'
  BY DEF TypeOK, FilledBy, NoneOverwritten, Filled, Reading
<1>7. RightUnlessOverwritten' /\ RightUntilWrapped'
  BY DEF TypeOK, RightUnlessOverwritten, RightUntilWrapped, Given
<1>8. OneCopyPerWorker'
  BY DEF TypeOK, OneCopyPerWorker, Filled
<1> QED
  BY <1>1, <1>2, <1>3, <1>4, <1>5, <1>6, <1>7, <1>8

(***************************************************************************)
(* At the start nobody is at work and every entry is empty.                *)
(***************************************************************************)
LEMMA InitInv == Init => CacheInv
<1> SUFFICES ASSUME Init PROVE CacheInv
  OBVIOUS
<1> USE CacheAssumption DEF Init
<1>1. 0 \in Index
  BY DEF Index
<1>2. NoAnswer \in Answer
  BY DEF NoAnswer, Answer, Value
<1>3. \A k \in Index :
        [query |-> NoQuery, colors |-> NoRow, width |-> NoRow,
         height |-> NoRow, state |-> "NO_VALUE_IN_DB"] \in Entry
  BY DEF Entry, Value
<1>4. TypeOK
  BY <1>1, <1>2, <1>3 DEF TypeOK, Steps
<1>5. \A k \in Index : ~Filled(k)
  BY DEF Filled
<1>6. MutexHeld /\ AnswerKnown
  BY DEF MutexHeld, AnswerKnown, Given, Filling
<1>7. OthersWhole /\ FilledBy
  <2>1. \A k \in Index : by[k] = NoOne /\ cache[k].query = NoQuery
    OBVIOUS
  <2> QED
    BY <2>1 DEF OthersWhole, Whole, FilledBy, Filled
<1>8. FilledSoFar
  BY DEF FilledSoFar, Filling
<1>9. FoundHolds /\ ReadSoFar /\ NoneOverwritten
  BY DEF FoundHolds, ReadSoFar, ReadBy, NoneOverwritten, Reading
<1>10. RightUnlessOverwritten /\ RightUntilWrapped
  BY DEF RightUnlessOverwritten, RightUntilWrapped, Given
<1>11. OneCopyPerWorker
  BY <1>5 DEF OneCopyPerWorker
<1> QED
  BY <1>4, <1>6, <1>7, <1>8, <1>9, <1>10, <1>11 DEF CacheInv

(***************************************************************************)
(* Every step of every thread keeps the invariant.                         *)
(***************************************************************************)
LEMMA NextInv == CacheInv /\ [Next]_vars => CacheInv'
<1> SUFFICES ASSUME CacheInv, [Next]_vars PROVE CacheInv'
  OBVIOUS
<1>1. CASE Next
  <2> PICK w \in Worker :
        \/ Ask(w)
        \/ Search(w)
        \/ ReadColors(w)
        \/ ReadWidth(w)
        \/ ReadHeight(w)
        \/ AskDB(w)
        \/ FillQuery(w)
        \/ FillColors(w)
        \/ FillWidth(w)
        \/ FillHeight(w)
        \/ FillState(w)
        \/ Finish(w)
    BY <1>1 DEF Next
  <2> QED
    BY AskInv, SearchInv, ReadColorsInv, ReadWidthInv, ReadHeightInv, AskDBInv,
       FillQueryInv, FillColorsInv, FillWidthInv, FillHeightInv, FillStateInv,
       FinishInv
<1>2. CASE UNCHANGED vars
  <2> USE <1>2 DEF vars, shared, CacheInv
  <2>1. TypeOK' /\ MutexHeld' /\ AnswerKnown'
    BY DEF TypeOK, MutexHeld, AnswerKnown, Given
  <2>2. OthersWhole' /\ FilledSoFar'
    BY DEF OthersWhole, Whole, Holds, Filled, FilledSoFar
  <2>3. FoundHolds' /\ ReadSoFar'
    BY DEF FoundHolds, Holds, ReadSoFar, ReadBy
  <2>4. FilledBy' /\ NoneOverwritten'
    BY DEF FilledBy, Filled, NoneOverwritten
  <2>5. RightUnlessOverwritten' /\ RightUntilWrapped' /\ OneCopyPerWorker'
    BY DEF RightUnlessOverwritten, RightUntilWrapped, Given,
      OneCopyPerWorker, Filled
  <2> QED
    BY <2>1, <2>2, <2>3, <2>4, <2>5
<1> QED
  BY <1>1, <1>2

(***************************************************************************)
(* The invariant holds of every state retrieve_dim_from_DB can reach.      *)
(***************************************************************************)
THEOREM Invariance == Spec => []CacheInv
  BY InitInv, NextInv, PTL DEF Spec

(***************************************************************************)
(* The variables of retrieve_dim_from_DB keep their types: idx_cache stays *)
(* inside the ring.                                                        *)
(***************************************************************************)
THEOREM TypeCorrect == Spec => []TypeOK
<1>1. CacheInv => TypeOK
  BY DEF CacheInv
<1> QED
  BY <1>1, Invariance, PTL

(***************************************************************************)
(* Whenever the mutex of the ring is free, every entry of it is whole: the *)
(* fields and the state are those of the query (HandleDB.c:90-125).        *)
(***************************************************************************)
THEOREM WholeWhenFree == Spec => []EntriesWhole
<1>1. CacheInv => EntriesWhole
  BY CacheAssumption DEF CacheInv, EntriesWhole, OthersWhole, Whole, Holds, Row
<1> QED
  BY <1>1, Invariance, PTL

(***************************************************************************)
(* Reading an entry without the mutex (HandleDB.c:127-139) gives the right *)
(* answer unless the entry was filled again since it was found.            *)
(***************************************************************************)
THEOREM RightOrOverwritten == Spec => []RightUnlessOverwritten
<1>1. CacheInv => RightUnlessOverwritten
  BY DEF CacheInv
<1> QED
  BY <1>1, Invariance, PTL

(***************************************************************************)
(* Until idx_cache has come round the ring, every answer is right.         *)
(***************************************************************************)
THEOREM RightAtFirst == Spec => []RightUntilWrapped
<1>1. CacheInv => RightUntilWrapped
  BY DEF CacheInv
<1> QED
  BY <1>1, Invariance, PTL

(***************************************************************************)
(* A thread enters no second copy of a query into the ring, although it    *)
(* does not search again before it fills (HandleDB.c:47-90).               *)
(***************************************************************************)
THEOREM OneCopy == Spec => []OneCopyPerWorker
<1>1. CacheInv => OneCopyPerWorker
  BY DEF CacheInv
<1> QED
  BY <1>1, Invariance, PTL

=============================================================================

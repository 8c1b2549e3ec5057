--------------------------- MODULE PathListProofs ---------------------------
(***************************************************************************)
(* Proofs about PathList, for any number of threads, any requests and a    *)
(* mapping of any size.  What is shown of the bytes holds until seek_cache *)
(* has come round (wrapped).  Below seek_cache they are the paths entered, *)
(* from it on they are empty but for those a thread is just writing; and   *)
(* what a search has passed is related to the place it has counted: it is  *)
(* at the next path exactly, or has passed the end of the list (late) and  *)
(* counted as many strings as there are places at least.                   *)
(*                                                                         *)
(* The recursive functions Digits and Start are shown to exist, and to be  *)
(* what their definitions say, by least elements of sets of numbers.       *)
(***************************************************************************)
EXTENDS PathList, WellFoundedInduction, SequenceTheorems, TLAPS

\* What can stand in a path, but for the NUL.
Names == {r.name : r \in Request}
Symbol == Names \cup (0..9) \cup Character

-----------------------------------------------------------------------------
\* A thread has a request from the start of its search on, and what it knows of
\* a search is of this one.
Searching(w) ==
  /\ pc[w] \in {"search", "found", "missed", "write"} => asked[w] \in Request
  /\ pc[w] = "idle" => len[w] = 0 /\ i[w] = 0 /\ ~known[w] /\ ~late[w]

\* What KnownIsFound and HitIsRight say of a thread.
Sure(w) == pc[w] \in {"missed", "write"} /\ known[w] => wrapped

InPlace(w) ==
  \E k \in 1..Len(Log) :
    /\ Begins(Path(w), Log[k])
    /\ k <= i[w] + 1
    /\ ~late[w] => k = i[w] + 1

Right(w) == pc[w] = "found" /\ ~wrapped => InPlace(w)

\* A search that is not late is at the start of the path whose place it has
\* counted.
Exact(w) ==
  pc[w] = "search" /\ ~late[w] => i[w] <= Len(entered) /\ len[w] = Start[i[w]]

\* The places there are, and where the next begins, with the path that is just
\* being entered.
Places == Len(entered) + (IF fd_cache_mtx = NoOne THEN 0 ELSE 1)

PlacesEnd ==
  seek_cache + (IF fd_cache_mtx = NoOne THEN 0 ELSE Len(Path(fd_cache_mtx)) + 1)

\* A search has counted the strings it has passed, and each NUL behind them.
Counted(w) ==
  pc[w] = "search" =>
    /\ \A k \in 0..Len(entered) : len[w] >= Start[k] => i[w] >= k
    /\ len[w] >= PlacesEnd => i[w] >= Places + (len[w] - PlacesEnd)

\* A path that was in the list lies before the search that was begun then.
Ahead(w) ==
  pc[w] = "search" /\ known[w] =>
    ~late[w] /\ \E k \in 1..Len(entered) : k > i[w] /\ Paths[k] = Path(w)

Thread(w) ==
  /\ Searching(w)
  /\ Sure(w)
  /\ Right(w)
  /\ ~wrapped => Exact(w) /\ Counted(w) /\ Ahead(w)

\* The thread that writes has the mutex.
Writing ==
  /\ \A w \in Worker : (pc[w] = "write") = (fd_cache_mtx = w)
  /\ left \subseteq IF fd_cache_mtx = NoOne THEN {} ELSE 1..Len(Path(fd_cache_mtx))

\* The mapping is a function, and a NUL stands behind all that is written.
Bytes == /\ file_map = [p \in Cell |-> file_map[p]]
         /\ file_map[2 * Size] = NUL

\* The paths entered stand one behind the other, each with its NUL.
Entered ==
  /\ seek_cache = Start[Len(entered)]
  /\ \A k \in 1..Len(entered) :
       /\ \A j \in 1..Len(Paths[k]) : file_map[Start[k - 1] + j - 1] = Paths[k][j]
       /\ file_map[Start[k] - 1] = NUL

\* From seek_cache on there is nothing but what the thread with the mutex has
\* written of its path; behind the mapping that may be lost.
Blank ==
  \A p \in Cell :
    p >= seek_cache /\ file_map[p] # NUL =>
      /\ fd_cache_mtx # NoOne
      /\ p - seek_cache + 1 \in 1..Len(Path(fd_cache_mtx))
      /\ file_map[p] = Path(fd_cache_mtx)[p - seek_cache + 1]

Written ==
  fd_cache_mtx # NoOne =>
    \A j \in 1..Len(Path(fd_cache_mtx)) \ left :
      seek_cache + j - 1 < Size =>
        file_map[seek_cache + j - 1] = Path(fd_cache_mtx)[j]

ListInv ==
  /\ TypeOK
  /\ \A w \in Worker : Thread(w)
  /\ Writing
  /\ Bytes
  /\ ~wrapped => Entered /\ Blank /\ Written

-----------------------------------------------------------------------------
(***************************************************************************)
(* Every set of numbers has a least one.                                   *)
(***************************************************************************)
LEMMA LeastNumber ==
  ASSUME NEW T \in SUBSET Nat, T # {}
  PROVE  \E n \in T : \A m \in T : n <= m
<1> DEFINE R == {ss \in Nat \X Nat : ss[1] < ss[2]}
<1>1. IsWellFoundedOn(R, Nat)
  BY NatLessThanWellFounded DEF OpToRel
<1> HIDE DEF R
<1>2. PICK n \in T : \A m \in T : ~(<<m, n>> \in R)
  BY <1>1, WFMin
<1>3. \A m \in T : ~(m < n)
  BY <1>2 DEF R
<1> QED
  BY <1>3

(***************************************************************************)
(* A set of numbers of D that has each number whose predecessor it has is  *)
(* all of D.                                                               *)
(***************************************************************************)
LEMMA AllNumbers ==
  ASSUME NEW D \in SUBSET Nat, NEW pred, NEW T,
         \A n \in D : n # 0 => pred[n] \in D /\ pred[n] < n,
         \A n \in D : n = 0 \/ pred[n] \in T => n \in T
  PROVE  \A n \in D : n \in T
<1> DEFINE S == {n \in D : n \notin T}
<1> SUFFICES ASSUME S # {} PROVE FALSE
  OBVIOUS
<1>1. PICK n \in S : \A m \in S : n <= m
  BY LeastNumber
<1>2. n \in D /\ n # 0 /\ pred[n] \notin T
  OBVIOUS
<1>3. pred[n] \in S /\ pred[n] < n /\ n \in Nat /\ pred[n] \in Nat
  BY <1>2
<1>4. n <= pred[n]
  BY <1>1, <1>3
<1> QED
  BY <1>3, <1>4

\* f is defined by recursion.
Recursive(f, D, pred, V, base, st) ==
  /\ f \in [D -> V]
  /\ \A n \in D : f[n] = IF n = 0 THEN base ELSE st[<<f[pred[n]], n>>]

(***************************************************************************)
(* There is a function on D that is base at 0, and elsewhere what st gives *)
(* for its value at the predecessor.                                       *)
(***************************************************************************)
LEMMA RecursiveFunction ==
  ASSUME NEW D \in SUBSET Nat, NEW pred, NEW V, NEW base \in V,
         NEW st \in [V \X D -> V],
         \A n \in D : n # 0 => pred[n] \in D /\ pred[n] < n
  PROVE  \E f : Recursive(f, D, pred, V, base, st)
<1> DEFINE Part(m) == {n \in D : n <= m}
           Good(f, m) == \A n \in Part(m) :
                           f[n] = IF n = 0 THEN base ELSE st[<<f[pred[n]], n>>]
           Has == {m \in D : \E f \in [Part(m) -> V] : Good(f, m)}
<1>n. \A n \in D : /\ n \in Nat
                  /\ n # 0 => pred[n] \in D /\ pred[n] \in Nat /\ pred[n] < n
  OBVIOUS
<1>1. ASSUME NEW m \in D, NEW h \in D, NEW f, NEW g, Good(f, m), Good(g, h)
      PROVE  \A n \in D : n <= m /\ n <= h => f[n] = g[n]
  <2> DEFINE T == {n \in D : n <= m /\ n <= h => f[n] = g[n]}
  <2>1. ASSUME NEW n \in D, n = 0 \/ pred[n] \in T
        PROVE  n \in T
    <3>1. CASE n = 0
      BY <1>1, <3>1
    <3>2. CASE n # 0 /\ n <= m /\ n <= h
      <4>1. pred[n] \in D /\ pred[n] <= m /\ pred[n] <= h
        BY <1>n, <3>2
      <4>2. f[pred[n]] = g[pred[n]]
        BY <4>1, <3>2, <2>1
      <4>3. f[n] = st[<<f[pred[n]], n>>] /\ g[n] = st[<<g[pred[n]], n>>]
        BY <1>1, <3>2
      <4> QED
        BY <4>2, <4>3
    <3> QED
      BY <3>1, <3>2
  <2> HIDE DEF T
  <2>2. \A n \in D : n \in T
    BY <2>1, AllNumbers
  <2> QED
    BY <2>2 DEF T
<1> DEFINE F(k) == CHOOSE f : f \in [Part(k) -> V] /\ Good(f, k)
           v(k) == F(k)[k]
<1>2. ASSUME NEW k \in D, k \in Has
      PROVE  F(k) \in [Part(k) -> V] /\ Good(F(k), k) /\ v(k) \in V
  <2>1. \E f : f \in [Part(k) -> V] /\ Good(f, k)
    BY <1>2
  <2>2. F(k) \in [Part(k) -> V] /\ Good(F(k), k)
    BY <2>1
  <2>3. k \in Part(k)
    BY <1>n
  <2> HIDE DEF F, Part, Good
  <2> QED
    BY <2>2, <2>3
<1>3. ASSUME NEW k \in D, k \in Has, k # 0 => pred[k] \in Has
      PROVE  v(k) = IF k = 0 THEN base ELSE st[<<v(pred[k]), k>>]
  <2>1. F(k)[k] = IF k = 0 THEN base ELSE st[<<F(k)[pred[k]], k>>]
    <3>1. k \in Part(k)
      BY <1>n
    <3>2. Good(F(k), k)
      BY <1>2, <1>3
    <3> HIDE DEF F, Part
    <3> QED
      BY <3>1, <3>2
  <2>2. ASSUME k # 0 PROVE F(k)[pred[k]] = v(pred[k])
    <3>1. pred[k] \in D /\ pred[k] <= k /\ pred[k] <= pred[k]
      BY <1>n, <2>2
    <3>2. Good(F(k), k) /\ Good(F(pred[k]), pred[k])
      <4> HIDE DEF Good, F, Has
      <4> QED
        BY <1>2, <1>3, <2>2, <3>1
    <3> HIDE DEF Good, F
    <3>3. PICK p \in D : p = pred[k]
      BY <3>1
    <3>4. Good(F(p), p) /\ p <= k
      BY <3>1, <3>2, <3>3
    <3>5. \A n \in D : n <= k /\ n <= p => F(k)[n] = F(p)[n]
      BY <1>1, <3>2, <3>4
    <3>6. F(k)[p] = F(p)[p]
      BY <1>n, <3>4, <3>5
    <3> QED
      BY <3>3, <3>6
  <2> HIDE DEF F
  <2> QED
    BY <2>1, <2>2
<1>4. \A m \in D : m \in Has
  <2> DEFINE S == {m \in D : m \notin Has}
  <2> SUFFICES ASSUME S # {} PROVE FALSE
    OBVIOUS
  <2>1. PICK m \in S : \A n \in S : m <= n
    BY LeastNumber
  <2>2. \A k \in D : k < m => k \in Has
    BY <2>1
  <2> DEFINE f == [n \in Part(m) |->
                     IF n < m THEN v(n)
                     ELSE IF m = 0 THEN base ELSE st[<<v(pred[m]), m>>]]
  <2>3. \A k \in D : k < m => /\ v(k) \in V
                             /\ v(k) = IF k = 0 THEN base ELSE st[<<v(pred[k]), k>>]
    <3> SUFFICES ASSUME NEW k \in D, k < m
                 PROVE  /\ v(k) \in V
                        /\ v(k) = IF k = 0 THEN base ELSE st[<<v(pred[k]), k>>]
      OBVIOUS
    <3>1. k \in Has /\ (k # 0 => pred[k] \in Has)
      <4>1. m \in Nat /\ k \in Nat
        BY <1>n
      <4>2. k # 0 => pred[k] \in D /\ pred[k] < m
        BY <1>n, <4>1
      <4> HIDE DEF Has
      <4> QED
        BY <2>2, <4>2
    <3> HIDE DEF Has, v
    <3> QED
      BY <1>2, <1>3, <3>1
  <2> HIDE DEF v
  <2>4. m \in D /\ m \in Nat /\ (m # 0 => pred[m] \in D /\ pred[m] < m)
    BY <1>n
  <2>5. f \in [Part(m) -> V]
    BY <2>3, <2>4
  <2>6. ASSUME NEW n \in Part(m)
        PROVE  f[n] = IF n = 0 THEN base ELSE st[<<f[pred[n]], n>>]
    <3>1. n \in D /\ n \in Nat /\ m \in Nat /\ n <= m
      BY <1>n
    <3>2. n # 0 => pred[n] \in Part(m) /\ pred[n] < m
      BY <1>n, <3>1
    <3>3. n # 0 => f[pred[n]] = v(pred[n])
      BY <3>2
    <3>4. CASE n < m
      BY <3>1, <3>3, <3>4, <2>3
    <3>5. CASE n = m
      <4>1. n \in Part(m) /\ ~(n < m)
        BY <3>1, <3>5
      <4> QED
        BY <3>3, <3>5, <4>1
    <3> QED
      BY <3>1, <3>4, <3>5
  <2> HIDE DEF f
  <2> QED
    BY <2>5, <2>6
<1> DEFINE G == [n \in D |-> v(n)]
<1>5. \A k \in D : /\ v(k) \in V
                  /\ v(k) = IF k = 0 THEN base ELSE st[<<v(pred[k]), k>>]
  <2> HIDE DEF Has, v
  <2> QED
    BY <1>2, <1>3, <1>4
<1> HIDE DEF v
<1>6. G \in [D -> V]
  BY <1>5
<1>7. \A n \in D : G[n] = IF n = 0 THEN base ELSE st[<<G[pred[n]], n>>]
  BY <1>5
<1> QED
  BY <1>6, <1>7 DEF Recursive


(***************************************************************************)
(* convert_int_to_string gives digits, for every number.                   *)
(***************************************************************************)
LEMMA DigitsAre ==
  /\ Digits \in [Nat -> Seq(0..9)]
  /\ \A n \in Nat : Digits[n] = IF n = 0 THEN <<>> ELSE Append(Digits[n \div 10], n % 10)
<1> DEFINE D == Nat
           V == Seq(0..9)
           pred == [n \in Nat |-> n \div 10]
           st == [x \in V \X D |-> Append(x[1], x[2] % 10)]
<1>1. \A n \in Nat : n # 0 => n \div 10 \in Nat /\ n \div 10 < n
  OBVIOUS
<1>2. \A n \in D : n # 0 => pred[n] \in D /\ pred[n] < n
  BY <1>1
<1>3. \A x \in V, n \in D : Append(x, n % 10) \in V
  <2> SUFFICES ASSUME NEW x \in Seq(0..9), NEW n \in Nat
               PROVE  Append(x, n % 10) \in Seq(0..9)
    OBVIOUS
  <2>1. n % 10 \in 0..9
    OBVIOUS
  <2> QED
    BY <2>1
<1>4. st \in [V \X D -> V]
  BY <1>3
<1>5. <<>> \in V /\ D \in SUBSET Nat
  OBVIOUS
<1>6. PICK f : Recursive(f, D, pred, V, <<>>, st)
  <2> HIDE DEF D, V, pred, st
  <2> QED
    BY <1>2, <1>4, <1>5, RecursiveFunction
<1>7. f = [n \in Nat |-> IF n = 0 THEN <<>> ELSE Append(f[n \div 10], n % 10)]
  BY <1>1, <1>6 DEF Recursive
<1>8. Digits = [n \in Nat |-> IF n = 0 THEN <<>> ELSE Append(Digits[n \div 10], n % 10)]
  BY <1>7 DEF Digits
<1> DEFINE T == {n \in D : Digits[n] \in V}
<1>9. \A n \in D : n = 0 \/ pred[n] \in T => n \in T
  <2> SUFFICES ASSUME NEW n \in Nat, n = 0 \/ Digits[n \div 10] \in V
               PROVE  Digits[n] \in V
    OBVIOUS
  <2> QED
    BY <1>3, <1>5, <1>8
<1>10. \A n \in D : n \in T
  <2> HIDE DEF D, T, pred
  <2> QED
    BY <1>2, <1>5, <1>9, AllNumbers
<1>11. \A n \in Nat :
         Digits[n] = IF n = 0 THEN <<>> ELSE Append(Digits[n \div 10], n % 10)
  BY <1>8
<1> QED
  BY <1>8, <1>10, <1>11

LEMMA DigitsAreDigits == Digits \in [Nat -> Seq(0..9)]
BY DigitsAre

(***************************************************************************)
(* A number that is not 0 has a digit.                                     *)
(***************************************************************************)
LEMMA SomeDigits ==
  ASSUME NEW n \in Nat \ {0}
  PROVE  Digits[n] # <<>>
<1>1. Digits[n \div 10] \in Seq(0..9) /\ n % 10 \in 0..9
  BY DigitsAre
<1>2. Digits[n] = Append(Digits[n \div 10], n % 10)
  BY DigitsAre
<1> QED
  BY <1>1, <1>2

(***************************************************************************)
(* What stands between the name and the extension is digits, one at least. *)
(***************************************************************************)
LEMMA FiguresAreDigits ==
  ASSUME NEW r \in Request
  PROVE  /\ Quality(r.q) \in Seq(0..9)
         /\ Numbers(r) \in Seq(0..9)
         /\ Figures(r) \in Seq(0..9)
         /\ Len(Quality(r.q)) \in Nat \ {0}
         /\ Len(Figures(r)) = Len(Quality(r.q)) + Len(Numbers(r))
         /\ \A j \in 1..Len(Quality(r.q)) : Figures(r)[j] = Quality(r.q)[j]
         /\ \A j \in 1..Len(Numbers(r)) :
              Figures(r)[Len(Quality(r.q)) + j] = Numbers(r)[j]
<1> DEFINE q == Quality(r.q)
           d == Numbers(r)
<1>1. /\ Digits[r.width] \in Seq(0..9)
      /\ Digits[r.height] \in Seq(0..9)
      /\ Digits[r.colors] \in Seq(0..9)
      /\ Digits[r.q] \in Seq(0..9)
      /\ Digits[Unit] \in Seq(0..9)
  BY DigitsAreDigits, ListAssumption
<1>2. d \in Seq(0..9)
  BY <1>1 DEF Numbers
<1>3. q \in Seq(0..9) /\ Len(q) \in Nat \ {0}
  <2>1. CASE r.q < Unit
    <3>1. <<0>> \in Seq(0..9) /\ Len(<<0>>) = 1
      OBVIOUS
    <3>2. q = <<0>> \o Digits[r.q]
      BY <2>1 DEF Quality
    <3>3. Len(q) = 1 + Len(Digits[r.q]) /\ q \in Seq(0..9)
      BY <1>1, <3>1, <3>2, ConcatProperties
    <3> QED
      BY <1>1, <3>3
  <2>2. CASE ~(r.q < Unit)
    <3>1. q = Digits[Unit]
      BY <2>2 DEF Quality
    <3>2. Digits[Unit] # <<>>
      BY ListAssumption, SomeDigits
    <3> QED
      BY <1>1, <3>1, <3>2
  <2> QED
    BY <2>1, <2>2
<1>4. Figures(r) = q \o d
  BY DEF Figures
<1> HIDE DEF q, d
<1>5. /\ q \o d \in Seq(0..9) /\ Len(q \o d) = Len(q) + Len(d)
      /\ \A j \in 1..(Len(q) + Len(d)) :
           (q \o d)[j] = IF j <= Len(q) THEN q[j] ELSE d[j - Len(q)]
  BY <1>2, <1>3, ConcatProperties
<1>6. \A j \in 1..Len(q) : (q \o d)[j] = q[j]
  BY <1>2, <1>3, <1>5
<1>7. ASSUME NEW j \in 1..Len(d) PROVE (q \o d)[Len(q) + j] = d[j]
  <2>1. Len(q) + j \in 1..(Len(q) + Len(d)) /\ ~(Len(q) + j <= Len(q))
        /\ (Len(q) + j) - Len(q) = j
    BY <1>2, <1>3
  <2> QED
    BY <1>5, <2>1
<1> QED
  BY <1>2, <1>3, <1>4, <1>5, <1>6, <1>7 DEF q, d

(***************************************************************************)
(* A path is its name, the digits and its extension.                       *)
(***************************************************************************)
LEMMA PathShape ==
  ASSUME NEW r \in Request
  PROVE  /\ CachePath(r) \in Seq(Symbol)
         /\ Len(CachePath(r)) = 1 + Len(Figures(r)) + Len(r.ext)
         /\ CachePath(r)[1] = r.name
         /\ \A j \in 1..Len(Figures(r)) : CachePath(r)[1 + j] = Figures(r)[j]
         /\ \A j \in 1..Len(r.ext) : CachePath(r)[1 + Len(Figures(r)) + j] = r.ext[j]
<1> DEFINE first == <<r.name>>
           d == Figures(r)
           e == r.ext
<1>1. first \in Seq(Symbol) /\ Len(first) = 1 /\ first[1] = r.name
  BY DEF Symbol, Names
<1>2. d \in Seq(Symbol) /\ e \in Seq(Symbol)
  <2>1. 0..9 \subseteq Symbol /\ Character \subseteq Symbol
    BY DEF Symbol
  <2>2. d \in Seq(0..9) /\ e \in Seq(Character)
    BY FiguresAreDigits, ListAssumption
  <2> HIDE DEF d, e
  <2> QED
    BY <2>1, <2>2
<1> DEFINE s == first \o d
<1>3. CachePath(r) = s \o e
  BY DEF CachePath
<1> HIDE DEF first, d, e
<1>4. /\ s \in Seq(Symbol) /\ Len(s) = Len(first) + Len(d)
      /\ \A j \in 1..(Len(first) + Len(d)) :
           s[j] = IF j <= Len(first) THEN first[j] ELSE d[j - Len(first)]
  BY <1>1, <1>2, ConcatProperties
<1>5. s[1] = r.name /\ \A j \in 1..Len(d) : s[1 + j] = d[j]
  <2>1. Len(d) \in Nat
    BY <1>2
  <2>2. \A j \in 1..(1 + Len(d)) : s[j] = IF j <= 1 THEN first[j] ELSE d[j - 1]
    BY <1>1, <1>4
  <2> HIDE DEF s
  <2>3. s[1] = r.name
    BY <1>1, <2>1, <2>2
  <2>4. ASSUME NEW j \in 1..Len(d) PROVE s[1 + j] = d[j]
    <3>1. 1 + j \in 1..(1 + Len(d)) /\ ~(1 + j <= 1) /\ (1 + j) - 1 = j
      BY <2>1
    <3> QED
      BY <2>2, <3>1
  <2> QED
    BY <2>3, <2>4
<1> HIDE DEF s
<1>6. /\ s \o e \in Seq(Symbol) /\ Len(s \o e) = Len(s) + Len(e)
      /\ \A j \in 1..(Len(s) + Len(e)) :
           (s \o e)[j] = IF j <= Len(s) THEN s[j] ELSE e[j - Len(s)]
  BY <1>2, <1>4, ConcatProperties
<1>7. Len(s) = 1 + Len(d) /\ Len(s) \in Nat /\ Len(d) \in Nat /\ Len(e) \in Nat
  BY <1>1, <1>2, <1>4
<1>8. \A j \in 1..Len(s) : (s \o e)[j] = s[j]
  BY <1>6, <1>7
<1>9. ASSUME NEW j \in 1..Len(e) PROVE (s \o e)[1 + Len(d) + j] = e[j]
  <2>1. 1 + Len(d) + j \in 1..(Len(s) + Len(e)) /\ ~(1 + Len(d) + j <= Len(s))
        /\ (1 + Len(d) + j) - Len(s) = j
    BY <1>7
  <2> QED
    BY <1>6, <2>1
<1>10. (s \o e)[1] = r.name /\ \A j \in 1..Len(d) : (s \o e)[1 + j] = d[j]
  <2>1. 1 \in 1..Len(s) /\ \A j \in 1..Len(d) : 1 + j \in 1..Len(s)
    BY <1>7
  <2> QED
    BY <1>5, <1>8, <2>1
<1>11. Len(s \o e) = 1 + Len(d) + Len(e)
  BY <1>6, <1>7
<1> QED
  BY <1>3, <1>6, <1>9, <1>10, <1>11 DEF d, e


(***************************************************************************)
(* The name is nowhere in a path but at its start, and a NUL nowhere.      *)
(***************************************************************************)
LEMMA PathFacts ==
  ASSUME NEW r \in Request
  PROVE  /\ CachePath(r) \in Seq(Symbol)
         /\ Len(CachePath(r)) \in 3..(Size - 1)
         /\ \A j \in 1..Len(CachePath(r)) : CachePath(r)[j] # NUL
         /\ CachePath(r)[1] \in Names
         /\ \A j \in 2..Len(CachePath(r)) : CachePath(r)[j] \notin Names
<1> DEFINE p == CachePath(r)
           d == Figures(r)
           e == r.ext
<1>1. /\ p \in Seq(Symbol) /\ Len(p) = 1 + Len(d) + Len(e) /\ p[1] = r.name
      /\ \A j \in 1..Len(d) : p[1 + j] = d[j]
      /\ \A j \in 1..Len(e) : p[1 + Len(d) + j] = e[j]
  BY PathShape
<1>2. Size \in Nat /\ Len(p) < Size
  BY ListAssumption
<1>3. /\ NUL \notin Names \cup (0..9) \cup Character
      /\ Names \cap ((0..9) \cup Character) = {}
  BY ListAssumption DEF Names
<1>4. r.name \in Names
  BY DEF Names
<1>5. d \in Seq(0..9) /\ Len(d) \in Nat \ {0}
  BY FiguresAreDigits
<1>6. e \in Seq(Character) /\ Len(e) \in Nat \ {0}
  BY ListAssumption
<1> HIDE DEF p, d, e
<1>7. Len(p) \in 3..(Size - 1)
  BY <1>1, <1>2, <1>5, <1>6
<1>8. ASSUME NEW j \in 2..Len(p) PROVE p[j] \in (0..9) \cup Character
  <2>1. CASE j <= 1 + Len(d)
    <3>1. j - 1 \in 1..Len(d) /\ 1 + (j - 1) = j
      BY <1>5, <1>7, <2>1
    <3>2. p[j] = d[j - 1]
      BY <1>1, <3>1
    <3> QED
      BY <1>5, <3>1, <3>2
  <2>2. CASE j > 1 + Len(d)
    <3> DEFINE m == j - (1 + Len(d))
    <3>1. m \in 1..Len(e) /\ 1 + Len(d) + m = j
      BY <1>1, <1>5, <1>6, <1>7, <2>2
    <3>2. p[j] = e[m]
      <4> HIDE DEF m
      <4> QED
        BY <1>1, <3>1
    <3> QED
      BY <1>6, <3>1, <3>2
  <2> QED
    BY <1>5, <1>7, <2>1, <2>2
<1>9. \A j \in 2..Len(p) : p[j] \notin Names
  BY <1>3, <1>8
<1>10. \A j \in 1..Len(p) : j = 1 \/ j \in 2..Len(p)
  BY <1>7
<1>11. \A j \in 1..Len(p) : p[j] # NUL
  BY <1>1, <1>3, <1>4, <1>8, <1>10
<1> QED
  BY <1>1, <1>4, <1>7, <1>9, <1>11 DEF p

(***************************************************************************)
(* A path that occurs in a path begins it.                                 *)
(***************************************************************************)
LEMMA PathInPath ==
  ASSUME NEW r \in Request, NEW s \in Request, NEW k \in Int,
         \A j \in 1..Len(CachePath(r)) :
           /\ k + j \in 1..Len(CachePath(s))
           /\ CachePath(s)[k + j] = CachePath(r)[j]
  PROVE  k = 0 /\ Begins(CachePath(r), CachePath(s))
<1> DEFINE p == CachePath(r)
           t == CachePath(s)
<1>1. Len(p) \in Nat /\ Len(p) >= 3 /\ p[1] \in Names
  BY PathFacts, ListAssumption
<1>2. Len(t) \in Nat /\ \A j \in 2..Len(t) : t[j] \notin Names
  BY PathFacts, ListAssumption
<1>3. \A j \in 1..Len(p) : k + j \in 1..Len(t) /\ t[k + j] = p[j]
  OBVIOUS
<1> HIDE DEF p, t
<1>4. k + 1 \in 1..Len(t) /\ t[k + 1] \in Names
  BY <1>1, <1>3
<1>5. k = 0
  BY <1>2, <1>4
<1>6. Len(p) \in 1..Len(t)
  BY <1>1, <1>3, <1>5
<1>7. \A j \in 1..Len(p) : t[j] = p[j]
  BY <1>1, <1>3, <1>5
<1>8. Begins(p, t)
  BY <1>2, <1>6, <1>7 DEF Begins
<1> QED
  BY <1>5, <1>8 DEF p, t

(***************************************************************************)
(* A path that begins another has its name and its digits, and begins to   *)
(* say its extension: that is where the digits end, in both.               *)
(***************************************************************************)
LEMMA PathTells ==
  ASSUME NEW r \in Request, NEW s \in Request, Begins(CachePath(r), CachePath(s))
  PROVE  /\ r.name = s.name
         /\ Begins(r.ext, s.ext)
         /\ Figures(r) = Figures(s)
<1> DEFINE p == CachePath(r)
           t == CachePath(s)
           d == Figures(r)
           f == Figures(s)
           e == r.ext
           g == s.ext
<1>1. /\ Len(p) = 1 + Len(d) + Len(e) /\ p[1] = r.name
      /\ \A j \in 1..Len(d) : p[1 + j] = d[j]
      /\ \A j \in 1..Len(e) : p[1 + Len(d) + j] = e[j]
  BY PathShape
<1>2. /\ Len(t) = 1 + Len(f) + Len(g) /\ t[1] = s.name
      /\ \A j \in 1..Len(f) : t[1 + j] = f[j]
      /\ \A j \in 1..Len(g) : t[1 + Len(f) + j] = g[j]
  BY PathShape
<1>3. /\ d \in Seq(0..9) /\ Len(d) \in Nat \ {0}
      /\ f \in Seq(0..9) /\ Len(f) \in Nat \ {0}
  BY FiguresAreDigits
<1>4. /\ Len(e) \in Nat \ {0} /\ e[1] \notin 0..9
      /\ Len(g) \in Nat \ {0} /\ g[1] \notin 0..9
  BY ListAssumption
<1>5. Len(p) <= Len(t) /\ \A j \in 1..Len(p) : t[j] = p[j]
  BY DEF Begins
<1> HIDE DEF p, t, d, f, e, g
<1>6. r.name = s.name
  BY <1>1, <1>2, <1>3, <1>4, <1>5
<1>7. ~(Len(d) < Len(f))
  <2> SUFFICES ASSUME Len(d) < Len(f) PROVE FALSE
    OBVIOUS
  <2>1. Len(d) + 1 \in 1..Len(f) /\ 1 + (Len(d) + 1) = 1 + Len(d) + 1
        /\ 1 + Len(d) + 1 \in 1..Len(p) /\ 1 \in 1..Len(e)
    BY <1>1, <1>3, <1>4
  <2>2. t[1 + Len(d) + 1] = f[Len(d) + 1] /\ p[1 + Len(d) + 1] = e[1]
    BY <1>1, <1>2, <2>1
  <2>3. f[Len(d) + 1] \in 0..9
    BY <1>3, <2>1
  <2> QED
    BY <1>4, <1>5, <2>1, <2>2, <2>3
<1>8. ~(Len(f) < Len(d))
  <2> SUFFICES ASSUME Len(f) < Len(d) PROVE FALSE
    OBVIOUS
  <2>1. Len(f) + 1 \in 1..Len(d) /\ 1 + (Len(f) + 1) = 1 + Len(f) + 1
        /\ 1 + Len(f) + 1 \in 1..Len(p) /\ 1 \in 1..Len(g)
    BY <1>1, <1>3, <1>4
  <2>2. p[1 + Len(f) + 1] = d[Len(f) + 1] /\ t[1 + Len(f) + 1] = g[1]
    BY <1>1, <1>2, <2>1
  <2>3. d[Len(f) + 1] \in 0..9
    BY <1>3, <2>1
  <2> QED
    BY <1>4, <1>5, <2>1, <2>2, <2>3
<1>9. Len(d) = Len(f)
  BY <1>3, <1>7, <1>8
<1>10. ASSUME NEW j \in 1..Len(d) PROVE d[j] = f[j]
  <2>1. 1 + j \in 1..Len(p) /\ j \in 1..Len(f)
    BY <1>1, <1>3, <1>4, <1>9
  <2> QED
    BY <1>1, <1>2, <1>5, <2>1
<1>11. d = f
  BY <1>3, <1>9, <1>10
<1>12. Begins(e, g)
  <2>1. Len(e) <= Len(g)
    BY <1>1, <1>2, <1>3, <1>4, <1>5, <1>9
  <2>2. ASSUME NEW j \in 1..Len(e) PROVE g[j] = e[j]
    <3>1. 1 + Len(d) + j \in 1..Len(p) /\ j \in 1..Len(g)
      BY <1>1, <1>3, <1>4, <2>1
    <3>2. p[1 + Len(d) + j] = e[j] /\ t[1 + Len(d) + j] = g[j]
      BY <1>1, <1>2, <1>9, <3>1
    <3> QED
      BY <1>5, <3>1, <3>2
  <2> QED
    BY <2>1, <2>2 DEF Begins
<1> QED
  BY <1>6, <1>11, <1>12 DEF d, f, e, g

(***************************************************************************)
(* Where two qualities have as many digits, the same digits are the same   *)
(* quality and the same numbers.                                           *)
(***************************************************************************)
LEMMA QualityTells ==
  ASSUME NEW r \in Request, NEW s \in Request, Figures(r) = Figures(s),
         Len(Quality(r.q)) = Len(Quality(s.q))
  PROVE  Quality(r.q) = Quality(s.q) /\ Numbers(r) = Numbers(s)
<1> DEFINE q == Quality(r.q)
           d == Numbers(r)
           h == Quality(s.q)
           f == Numbers(s)
<1>1. /\ q \in Seq(0..9) /\ d \in Seq(0..9)
      /\ Len(Figures(r)) = Len(q) + Len(d)
      /\ \A j \in 1..Len(q) : Figures(r)[j] = q[j]
      /\ \A j \in 1..Len(d) : Figures(r)[Len(q) + j] = d[j]
  BY FiguresAreDigits
<1>2. /\ h \in Seq(0..9) /\ f \in Seq(0..9)
      /\ Len(Figures(r)) = Len(h) + Len(f)
      /\ \A j \in 1..Len(h) : Figures(r)[j] = h[j]
      /\ \A j \in 1..Len(f) : Figures(r)[Len(h) + j] = f[j]
  BY FiguresAreDigits
<1>3. Len(q) = Len(h)
  OBVIOUS
<1> HIDE DEF q, d, h, f
<1>4. q = h
  BY <1>1, <1>2, <1>3
<1>5. Len(d) = Len(f)
  BY <1>1, <1>2, <1>3
<1>6. d = f
  BY <1>1, <1>2, <1>3, <1>5
<1> QED
  BY <1>4, <1>6 DEF q, d, h, f


(***************************************************************************)
(* Start is what its definition says: a number for each place.             *)
(***************************************************************************)
StartRight ==
  /\ Start \in [0..Len(entered) -> Nat]
  /\ Start[0] = 0
  /\ \A k \in 1..Len(entered) : /\ Paths[k] = CachePath(entered[k])
                                /\ Start[k] = Start[k - 1] + Len(Paths[k]) + 1

LEMMA StartIs == entered \in Seq(Request) => StartRight
<1> SUFFICES ASSUME entered \in Seq(Request) PROVE StartRight
  OBVIOUS
<1> DEFINE D == 0..Len(entered)
           size(k) == IF k = 0 THEN 0 ELSE Len(Paths[k]) + 1
           pred == [k \in D |-> k - 1]
           st == [x \in Nat \X D |-> x[1] + size(x[2])]
<1>1. Len(entered) \in Nat
  OBVIOUS
<1>2. \A k \in 1..Len(entered) : /\ Paths[k] = CachePath(entered[k])
                                 /\ Len(Paths[k]) \in Nat
  BY PathFacts, ListAssumption DEF Paths
<1>3. \A k \in D : k # 0 => pred[k] \in D /\ pred[k] < k
  BY <1>1
<1>4. \A k \in D : size(k) \in Nat
  BY <1>1, <1>2
<1>5. st \in [Nat \X D -> Nat]
  <2> HIDE DEF size
  <2> QED
    BY <1>4
<1>6. 0 \in Nat /\ D \in SUBSET Nat
  OBVIOUS
<1>7. PICK f : Recursive(f, D, pred, Nat, 0, st)
  <2> HIDE DEF D, pred, st
  <2> QED
    BY <1>3, <1>5, <1>6, RecursiveFunction
<1>8. f = [k \in 0..Len(entered) |-> IF k = 0 THEN 0 ELSE f[k - 1] + Len(Paths[k]) + 1]
  <2>1. f \in [D -> Nat]
    BY <1>7 DEF Recursive
  <2>2. ASSUME NEW k \in D
        PROVE  f[k] = IF k = 0 THEN 0 ELSE f[k - 1] + Len(Paths[k]) + 1
    <3>1. f[k] = IF k = 0 THEN 0 ELSE st[<<f[pred[k]], k>>]
      BY <1>7, <2>2 DEF Recursive
    <3>2. CASE k # 0
      <4>1. pred[k] = k - 1 /\ k - 1 \in D /\ k \in 1..Len(entered)
        BY <1>1, <3>2
      <4>2. f[k - 1] \in Nat
        BY <2>1, <4>1
      <4>3. st[<<f[k - 1], k>>] = f[k - 1] + (Len(Paths[k]) + 1)
        BY <3>2, <4>2
      <4>4. Len(Paths[k]) \in Nat
        BY <1>2, <4>1
      <4> QED
        BY <3>1, <3>2, <4>1, <4>2, <4>3, <4>4
    <3> QED
      BY <3>1, <3>2
  <2> QED
    BY <2>1, <2>2
<1>9. Start = [k \in 0..Len(entered) |->
                 IF k = 0 THEN 0 ELSE Start[k - 1] + Len(Paths[k]) + 1]
  BY <1>8 DEF Start
<1> DEFINE T == {k \in D : Start[k] \in Nat}
<1>10. \A k \in D : k = 0 \/ pred[k] \in T => k \in T
  <2> SUFFICES ASSUME NEW k \in D, k = 0 \/ pred[k] \in T PROVE Start[k] \in Nat
    OBVIOUS
  <2>1. CASE k = 0
    BY <1>9, <2>1
  <2>2. CASE k # 0
    <3>1. pred[k] = k - 1 /\ k - 1 \in D /\ k \in 1..Len(entered)
      BY <1>1, <2>2
    <3>2. Start[k - 1] \in Nat
      BY <2>2, <3>1
    <3>3. Start[k] = Start[k - 1] + Len(Paths[k]) + 1
      BY <1>9, <2>2
    <3> QED
      BY <1>2, <3>1, <3>2, <3>3
  <2> QED
    BY <2>1, <2>2
<1>11. \A k \in D : k \in T
  <2> HIDE DEF D, T, pred
  <2> QED
    BY <1>3, <1>6, <1>10, AllNumbers
<1>12. Start \in [D -> Nat] /\ Start[0] = 0
  BY <1>1, <1>9, <1>11
<1>13. \A k \in 1..Len(entered) : Start[k] = Start[k - 1] + Len(Paths[k]) + 1
  BY <1>1, <1>9
<1> QED
  BY <1>2, <1>12, <1>13 DEF StartRight


(***************************************************************************)
(* Numbers that grow with each step grow over many.                        *)
(***************************************************************************)
LEMMA Growing ==
  ASSUME NEW N \in Nat, NEW f \in [0..N -> Nat], \A k \in 1..N : f[k - 1] < f[k]
  PROVE  \A j, k \in 0..N : j < k => f[j] < f[k]
<1> SUFFICES ASSUME NEW j \in 0..N
             PROVE  \A k \in 0..N : j < k => f[j] < f[k]
  OBVIOUS
<1> DEFINE D == 0..N
           pred == [k \in D |-> k - 1]
           T == {k \in D : j < k => f[j] < f[k]}
<1>1. D \in SUBSET Nat
  OBVIOUS
<1>2. \A k \in D : k # 0 => pred[k] \in D /\ pred[k] < k
  OBVIOUS
<1>3. ASSUME NEW k \in D, k = 0 \/ pred[k] \in T PROVE k \in T
  <2> SUFFICES ASSUME j < k PROVE f[j] < f[k]
    OBVIOUS
  <2>1. k \in 1..N /\ k - 1 \in 0..N /\ pred[k] = k - 1
    OBVIOUS
  <2>2. f[k - 1] < f[k] /\ f[k - 1] \in Nat /\ f[k] \in Nat /\ f[j] \in Nat
    BY <2>1
  <2>3. j = k - 1 \/ f[j] < f[k - 1]
    BY <1>3, <2>1
  <2>4. CASE j = k - 1
    BY <2>2, <2>4
  <2>5. CASE f[j] < f[k - 1]
    <3> HIDE DEF D, T, pred
    <3> QED
      BY <2>2, <2>5
  <2> QED
    BY <2>3, <2>4, <2>5
<1>4. \A k \in D : k \in T
  <2> HIDE DEF D, pred, T
  <2> QED
    BY <1>1, <1>2, <1>3, AllNumbers
<1> QED
  BY <1>4

(***************************************************************************)
(* A number below the last of them lies between two.                       *)
(***************************************************************************)
LEMMA Between ==
  ASSUME NEW N \in Nat, NEW f \in [0..N -> Nat], NEW x \in Nat, f[0] <= x, x < f[N]
  PROVE  \E k \in 1..N : f[k - 1] <= x /\ x < f[k]
<1> DEFINE T == {k \in 0..N : x < f[k]}
<1>1. T \in SUBSET Nat /\ N \in T
  OBVIOUS
<1>2. PICK k \in T : \A m \in T : k <= m
  <2> HIDE DEF T
  <2> QED
    BY <1>1, LeastNumber
<1>3. k \in 0..N /\ x < f[k] /\ k # 0
  OBVIOUS
<1>4. k \in 1..N /\ k - 1 \in 0..N /\ f[k - 1] \in Nat
  BY <1>3
<1>5. k - 1 \notin T
  <2>1. k \in Nat /\ ~(k <= k - 1)
    BY <1>3
  <2> HIDE DEF T
  <2> QED
    BY <1>2, <2>1
<1>6. f[k - 1] <= x
  BY <1>4, <1>5
<1> QED
  BY <1>3, <1>4, <1>6

(***************************************************************************)
(* The paths entered keep their places when one is added, which begins     *)
(* where they end.                                                         *)
(***************************************************************************)
LEMMA PlacesKept ==
  ASSUME entered \in Seq(Request), NEW r \in Request, entered' = Append(entered, r)
  PROVE  /\ Len(entered') = Len(entered) + 1
         /\ StartRight /\ StartRight'
         /\ \A k \in 0..Len(entered) : Start'[k] = Start[k]
         /\ \A k \in 1..Len(entered) : Paths'[k] = Paths[k]
         /\ Paths'[Len(entered) + 1] = CachePath(r)
         /\ Start'[Len(entered) + 1] = Start[Len(entered)] + Len(CachePath(r)) + 1
<1>1. (entered \in Seq(Request) => StartRight)'
  BY StartIs, PTL
<1>2. StartRight /\ StartRight'
  BY <1>1, StartIs
<1> DEFINE N == Len(entered)
<1>3. /\ N \in Nat /\ Len(entered') = N + 1 /\ entered'[N + 1] = r
      /\ \A k \in 1..N : entered'[k] = entered[k]
  OBVIOUS
<1>4. \A k \in 1..N : Paths'[k] = Paths[k]
  BY <1>2, <1>3 DEF StartRight
<1>5. Paths'[N + 1] = CachePath(r)
  BY <1>2, <1>3 DEF StartRight
<1> DEFINE D == 0..N
           pred == [k \in D |-> k - 1]
           T == {k \in D : Start'[k] = Start[k]}
<1>6. D \in SUBSET Nat /\ \A k \in D : k # 0 => pred[k] \in D /\ pred[k] < k
  BY <1>3
<1>7. ASSUME NEW k \in D, k = 0 \/ pred[k] \in T PROVE k \in T
  <2>1. CASE k = 0
    BY <1>2, <2>1 DEF StartRight
  <2>2. CASE k # 0
    <3>1. k \in 1..N /\ k \in 1..(N + 1) /\ pred[k] = k - 1
      BY <1>3, <2>2
    <3>2. Start'[k - 1] = Start[k - 1]
      BY <1>7, <2>2, <3>1
    <3>3. Start[k] = Start[k - 1] + Len(Paths[k]) + 1
      BY <1>2, <3>1 DEF StartRight
    <3>4. Start'[k] = Start'[k - 1] + Len(Paths'[k]) + 1
      BY <1>2, <1>3, <3>1 DEF StartRight
    <3> QED
      BY <1>4, <3>1, <3>2, <3>3, <3>4
  <2> QED
    BY <2>1, <2>2
<1>8. \A k \in D : k \in T
  <2> HIDE DEF D, pred, T
  <2> QED
    BY <1>6, <1>7, AllNumbers
<1>9. Start'[N + 1] = Start[N] + Len(CachePath(r)) + 1
  <2>1. N + 1 \in 1..(N + 1) /\ (N + 1) - 1 = N /\ N \in D
    BY <1>3
  <2>2. Start'[N + 1] = Start'[(N + 1) - 1] + Len(Paths'[N + 1]) + 1
    BY <1>2, <1>3, <2>1 DEF StartRight
  <2>3. Start'[N] = Start[N]
    BY <1>8, <2>1
  <2> QED
    BY <1>5, <2>1, <2>2, <2>3
<1> QED
  BY <1>2, <1>3, <1>4, <1>5, <1>8, <1>9


-----------------------------------------------------------------------------
\* The string at p ends at e.
EndsAt(p, e) ==
  /\ e \in Cell
  /\ e >= p
  /\ file_map[e] = NUL
  /\ \A q \in p..(e - 1) : file_map[q] # NUL

(***************************************************************************)
(* A string is what lies before its end.                                   *)
(***************************************************************************)
LEMMA StringIs ==
  ASSUME NEW p \in Nat, NEW e, EndsAt(p, e)
  PROVE  /\ e - p \in Nat
         /\ StringAt(p) = [m \in 1..(e - p) |-> file_map[p + m - 1]]
         /\ Len(StringAt(p)) = e - p
<1>1. Cell \subseteq Nat
  BY ListAssumption DEF Cell
<1>2. e \in Cell /\ e \in Nat /\ e >= p
  BY <1>1 DEF EndsAt
<1>3. ASSUME NEW d \in Cell, EndsAt(p, d) PROVE d = e
  <2>1. d \in Nat
    BY <1>1
  <2>2. ~(d < e) /\ ~(e < d)
    BY <1>2, <1>3, <2>1 DEF EndsAt
  <2> QED
    BY <1>2, <2>1, <2>2
<1> DEFINE end == CHOOSE d \in Cell : /\ d >= p
                                      /\ file_map[d] = NUL
                                      /\ \A q \in p..(d - 1) : file_map[q] # NUL
<1>4. end \in Cell /\ EndsAt(p, end)
  BY <1>2 DEF EndsAt
<1> HIDE DEF end
<1>5. end = e
  BY <1>3, <1>4
<1>6. StringAt(p) = [m \in 1..(e - p) |-> file_map[p + m - 1]]
  BY <1>5 DEF StringAt, end
<1>7. e - p \in Nat
  BY <1>2
<1>8. Len(StringAt(p)) = e - p
  <2> DEFINE d == e - p
  <2>1. d \in Nat /\ StringAt(p) = [m \in 1..d |-> file_map[p + m - 1]]
    BY <1>6, <1>7
  <2> HIDE DEF d
  <2>2. Len(StringAt(p)) = d
    BY <2>1
  <2> QED
    BY <2>2 DEF d
<1> QED
  BY <1>6, <1>7, <1>8

(***************************************************************************)
(* Every string that begins in the mapping or behind it ends.              *)
(***************************************************************************)
LEMMA StringEnds ==
  ASSUME Bytes, NEW p \in 0..(2 * Size)
  PROVE  \E e \in Cell : EndsAt(p, e)
<1> DEFINE T == {e \in Cell : e >= p /\ file_map[e] = NUL}
<1>1. Size \in Nat /\ Cell \subseteq Nat
  BY ListAssumption DEF Cell
<1>2. T \in SUBSET Nat /\ 2 * Size \in T
  BY <1>1 DEF Bytes, Cell
<1>3. PICK e \in T : \A d \in T : e <= d
  <2> HIDE DEF T
  <2> QED
    BY <1>2, LeastNumber
<1>4. e \in Cell /\ e \in Nat /\ e >= p /\ file_map[e] = NUL
  BY <1>1
<1>5. ASSUME NEW q \in p..(e - 1) PROVE file_map[q] # NUL
  <2>1. q \in Cell /\ q >= p /\ ~(e <= q)
    BY <1>1, <1>4 DEF Cell
  <2> QED
    BY <1>3, <2>1
<1> QED
  BY <1>4, <1>5 DEF EndsAt

(***************************************************************************)
(* Where the paths lie, as long as seek_cache has not come round.          *)
(***************************************************************************)
LEMMA PlacesOf ==
  ASSUME ListInv, ~wrapped
  PROVE  /\ Len(entered) \in Nat
         /\ StartRight
         /\ Start[Len(entered)] = seek_cache
         /\ seek_cache \in 0..(Size - 1)
         /\ \A k \in 1..Len(entered) : Start[k - 1] \in Nat /\ Start[k] \in Nat
         /\ \A j, k \in 0..Len(entered) : j < k => Start[j] < Start[k]
         /\ \A k \in 0..Len(entered) : Start[k] \in Nat /\ Start[k] <= seek_cache
<1>1. entered \in Seq(Request) /\ seek_cache \in 0..(Size - 1) /\ Size \in Nat
  BY ListAssumption DEF ListInv, TypeOK
<1>2. StartRight /\ Len(entered) \in Nat
  BY <1>1, StartIs
<1>3. \A k \in 1..Len(entered) : k \in 0..Len(entered) /\ k - 1 \in 0..Len(entered)
  BY <1>2
<1>4. \A k \in 1..Len(entered) : Start[k - 1] < Start[k]
  <2> SUFFICES ASSUME NEW k \in 1..Len(entered) PROVE Start[k - 1] < Start[k]
    OBVIOUS
  <2>1. Start[k] = Start[k - 1] + Len(Paths[k]) + 1 /\ Paths[k] = CachePath(entered[k])
    BY <1>2 DEF StartRight
  <2>2. entered[k] \in Request
    BY <1>1
  <2>3. Len(Paths[k]) \in Nat
    BY <1>1, <2>1, <2>2, PathFacts
  <2>4. Start[k - 1] \in Nat
    BY <1>2, <1>3 DEF StartRight
  <2> QED
    BY <2>1, <2>3, <2>4
<1>5. \A j, k \in 0..Len(entered) : j < k => Start[j] < Start[k]
  BY <1>2, <1>4, Growing DEF StartRight
<1>6. Start[Len(entered)] = seek_cache
  BY DEF ListInv, Entered
<1>7. \A k \in 0..Len(entered) : Start[k] \in Nat
  BY <1>2 DEF StartRight
<1>8. \A k \in 0..Len(entered) : Start[k] <= seek_cache
  <2> SUFFICES ASSUME NEW k \in 0..Len(entered) PROVE Start[k] <= seek_cache
    OBVIOUS
  <2>1. k = Len(entered) \/ (k < Len(entered) /\ Len(entered) \in 0..Len(entered))
    BY <1>2
  <2> QED
    BY <1>1, <1>5, <1>6, <1>7, <2>1
<1> QED
  BY <1>1, <1>2, <1>3, <1>5, <1>6, <1>7, <1>8


(***************************************************************************)
(* A thread with the mutex writes the path of a request.                   *)
(***************************************************************************)
LEMMA WriterIs ==
  ASSUME ListInv, fd_cache_mtx # NoOne
  PROVE  /\ fd_cache_mtx \in Worker
         /\ pc[fd_cache_mtx] = "write"
         /\ asked[fd_cache_mtx] \in Request
         /\ Path(fd_cache_mtx) = CachePath(asked[fd_cache_mtx])
         /\ Len(Path(fd_cache_mtx)) \in 3..(Size - 1)
<1>1. fd_cache_mtx \in Worker
  BY DEF ListInv, TypeOK
<1>2. pc[fd_cache_mtx] = "write" /\ asked[fd_cache_mtx] \in Request
  BY <1>1 DEF ListInv, Writing, Thread, Searching
<1> QED
  BY <1>1, <1>2, PathFacts DEF Path

(***************************************************************************)
(* Below seek_cache a string ends with the path it is in; above, where it  *)
(* begins, unless it begins in the path that is just being written, where  *)
(* it ends with this at the latest.                                        *)
(***************************************************************************)
LEMMA StringEnd ==
  ASSUME ListInv, ~wrapped, NEW x \in 0..(Size - 1)
  PROVE  \/ \E k \in 1..Len(entered) :
              Start[k - 1] <= x /\ x < Start[k] /\ EndsAt(x, Start[k] - 1)
         \/ x >= seek_cache /\ fd_cache_mtx = NoOne /\ EndsAt(x, x)
         \/ /\ x >= seek_cache /\ fd_cache_mtx # NoOne
            /\ x > seek_cache + Len(Path(fd_cache_mtx)) /\ EndsAt(x, x)
         \/ /\ x >= seek_cache /\ fd_cache_mtx # NoOne
            /\ x <= seek_cache + Len(Path(fd_cache_mtx))
            /\ \E e \in Cell : EndsAt(x, e) /\ e <= seek_cache + Len(Path(fd_cache_mtx))
<1> DEFINE n == Len(entered)
           L == Len(Path(fd_cache_mtx))
<1>1. /\ n \in Nat /\ StartRight
      /\ Start[n] = seek_cache /\ seek_cache \in 0..(Size - 1)
      /\ \A k \in 0..n : Start[k] \in Nat /\ Start[k] <= seek_cache
  BY PlacesOf
<1>2. Size \in Nat /\ Cell = 0..(2 * Size) /\ Bytes /\ Entered /\ Blank
  BY ListAssumption DEF ListInv, Cell
<1>3. x \in Nat /\ x \in Cell /\ x < Size
  BY <1>2
<1>4. CASE x < seek_cache
  <2>1. Start \in [0..n -> Nat] /\ Start[0] <= x /\ x < Start[n]
    BY <1>1, <1>3, <1>4 DEF StartRight
  <2>2. PICK k \in 1..n : Start[k - 1] <= x /\ x < Start[k]
    <3> HIDE DEF n
    <3> QED
      BY <1>1, <1>3, <2>1, Between
  <2>3. k \in 0..n /\ k - 1 \in 0..n /\ Start[k] \in Nat /\ Start[k - 1] \in Nat
        /\ Start[k] <= seek_cache
    BY <1>1
  <2>4. /\ Start[k] = Start[k - 1] + Len(Paths[k]) + 1
        /\ Paths[k] = CachePath(entered[k])
    BY <1>1 DEF StartRight
  <2>5. entered[k] \in Request
    BY DEF ListInv, TypeOK
  <2>6. /\ Len(Paths[k]) \in Nat
        /\ \A j \in 1..Len(Paths[k]) : Paths[k][j] # NUL
    BY <1>2, <2>4, <2>5, PathFacts
  <2>7. file_map[Start[k] - 1] = NUL
    BY <1>2 DEF Entered
  <2>8. ASSUME NEW q \in x..((Start[k] - 1) - 1) PROVE file_map[q] # NUL
    <3> DEFINE j == q - Start[k - 1] + 1
    <3>1. j \in 1..Len(Paths[k]) /\ Start[k - 1] + j - 1 = q
      <4> DEFINE a == Start[k - 1]
                 b == Start[k]
                 c == Len(Paths[k])
      <4>1. a \in Nat /\ b \in Nat /\ c \in Nat /\ a <= x /\ b = a + c + 1
        BY <2>2, <2>3, <2>4, <2>6
      <4>2. q \in x..((b - 1) - 1)
        OBVIOUS
      <4> HIDE DEF a, b, c
      <4>3. q - a + 1 \in 1..c /\ a + (q - a + 1) - 1 = q
        BY <1>3, <4>1, <4>2
      <4> QED
        BY <4>3 DEF a, c
    <3>2. file_map[Start[k - 1] + j - 1] = Paths[k][j]
      <4> HIDE DEF j
      <4> QED
        BY <1>2, <3>1 DEF Entered
    <3> QED
      BY <2>6, <3>1, <3>2
  <2>9. Start[k] - 1 \in Cell /\ Start[k] - 1 >= x
    BY <1>1, <1>2, <1>3, <2>2, <2>3
  <2>10. EndsAt(x, Start[k] - 1)
    BY <2>7, <2>8, <2>9 DEF EndsAt
  <2> QED
    BY <2>2, <2>10
<1>5. CASE x >= seek_cache /\ fd_cache_mtx = NoOne
  <2>1. file_map[x] = NUL
    BY <1>2, <1>3, <1>5 DEF Blank
  <2> QED
    BY <1>3, <1>5, <2>1 DEF EndsAt
<1>6. CASE x >= seek_cache /\ fd_cache_mtx # NoOne
  <2>1. L \in 3..(Size - 1)
    BY <1>6, WriterIs
  <2> HIDE DEF L
  <2>2. \A p \in Cell : p >= seek_cache /\ file_map[p] # NUL =>
                          p - seek_cache + 1 \in 1..L
    BY <1>2 DEF Blank, L
  <2>3. CASE x > seek_cache + L
    <3>1. x - seek_cache + 1 \notin 1..L
      BY <1>1, <1>3, <2>1, <2>3
    <3>2. file_map[x] = NUL
      BY <1>3, <1>6, <2>2, <3>1
    <3> QED
      BY <1>3, <1>6, <2>3, <3>2 DEF EndsAt, L
  <2>4. CASE x <= seek_cache + L
    <3> DEFINE top == seek_cache + L
    <3>1. top \in Cell /\ top \in Nat /\ top >= seek_cache /\ top - seek_cache + 1 \notin 1..L
      BY <1>1, <1>2, <2>1
    <3>2. file_map[top] = NUL
      <4> HIDE DEF top
      <4> QED
        BY <2>2, <3>1
    <3>3. PICK e \in Cell : EndsAt(x, e)
      BY <1>2, <1>3, StringEnds
    <3>4. e \in Nat
      BY <1>2
    <3>5. ~(top < e)
      <4> HIDE DEF top
      <4>1. x <= top
        BY <2>4 DEF top
      <4> QED
        BY <1>3, <3>1, <3>2, <3>3, <3>4, <4>1 DEF EndsAt
    <3>6. e <= top
      BY <3>1, <3>4, <3>5
    <3> QED
      BY <1>6, <2>4, <3>3, <3>6 DEF L
  <2> QED
    BY <1>1, <1>3, <2>1, <2>3, <2>4
<1> QED
  BY <1>1, <1>3, <1>4, <1>5, <1>6


(***************************************************************************)
(* The log is the paths entered, and the path being written behind them.   *)
(***************************************************************************)
LogRight ==
  /\ Len(entered) \in Nat
  /\ Len(Paths) = Len(entered)
  /\ Len(Log) = Len(entered) + (IF fd_cache_mtx = NoOne THEN 0 ELSE 1)
  /\ \A k \in 1..Len(entered) : Log[k] = Paths[k] /\ Paths[k] = CachePath(entered[k])
  /\ fd_cache_mtx # NoOne => Log[Len(entered) + 1] = Path(fd_cache_mtx)

LEMMA LogIs == entered \in Seq(Request) => LogRight
<1> SUFFICES ASSUME entered \in Seq(Request) PROVE LogRight
  OBVIOUS
<1> DEFINE n == Len(entered)
           V == {CachePath(r) : r \in Request} \cup {Path(fd_cache_mtx)}
<1>1. n \in Nat /\ \A k \in 1..n : entered[k] \in Request
  OBVIOUS
<1> HIDE DEF n
<1>2. Paths = [k \in 1..n |-> CachePath(entered[k])]
  BY DEF Paths, n
<1>3. Paths \in [1..n -> V]
  BY <1>1, <1>2
<1>4. Path(fd_cache_mtx) \in V
  OBVIOUS
<1> HIDE DEF V
<1>5. Paths \in Seq(V) /\ Len(Paths) = n
  BY <1>1, <1>3
<1>6. CASE fd_cache_mtx = NoOne
  BY <1>1, <1>2, <1>5, <1>6 DEF Log, LogRight, n
<1>7. CASE fd_cache_mtx # NoOne
  <2>1. Log = Append(Paths, Path(fd_cache_mtx))
    BY <1>7 DEF Log
  <2>2. /\ Len(Log) = n + 1 /\ Log[n + 1] = Path(fd_cache_mtx)
        /\ \A k \in 1..n : Log[k] = Paths[k]
    BY <1>1, <1>4, <1>5, <2>1
  <2> QED
    BY <1>1, <1>2, <1>5, <1>7, <2>2 DEF LogRight, n
<1> QED
  BY <1>6, <1>7

(***************************************************************************)
(* strstr() finds a path in no string but its own and those it begins, and *)
(* in these only when the string is read from its start.                   *)
(***************************************************************************)
LEMMA FoundPath ==
  ASSUME ListInv, ~wrapped, NEW x \in 0..(Size - 1), NEW r \in Request,
         Occurs(CachePath(r), StringAt(x))
  PROVE  \E k \in 1..Len(Log) : Begins(CachePath(r), Log[k]) /\ x = Start[k - 1]
<1> DEFINE n == Len(entered)
           p == CachePath(r)
<1>1. /\ n \in Nat /\ StartRight
      /\ Start[n] = seek_cache /\ seek_cache \in 0..(Size - 1)
      /\ \A k \in 0..n : Start[k] \in Nat /\ Start[k] <= seek_cache
  BY PlacesOf
<1>2. entered \in Seq(Request) /\ Size \in Nat /\ x \in Nat /\ Blank /\ Entered
      /\ Cell = 0..(2 * Size)
  BY ListAssumption DEF ListInv, TypeOK, Cell
<1>3. /\ Len(Log) = n + (IF fd_cache_mtx = NoOne THEN 0 ELSE 1)
      /\ \A k \in 1..n : Log[k] = Paths[k] /\ Paths[k] = CachePath(entered[k])
      /\ fd_cache_mtx # NoOne => Log[n + 1] = Path(fd_cache_mtx)
  BY <1>2, LogIs DEF LogRight
<1>4. Len(p) \in Nat /\ Len(p) >= 3
  BY <1>2, PathFacts
<1>5. ASSUME NEW e \in Nat, EndsAt(x, e)
      PROVE  \E k \in Nat : \A j \in 1..Len(p) :
               /\ x + k + j - 1 \in x..(e - 1)
               /\ file_map[x + k + j - 1] = p[j]
  <2>1. /\ e - x \in Nat
        /\ StringAt(x) = [m \in 1..(e - x) |-> file_map[x + m - 1]]
        /\ Len(StringAt(x)) = e - x
    BY <1>2, <1>5, StringIs
  <2>2. PICK k \in 0..((e - x) - Len(p)) :
          \A j \in 1..Len(p) : StringAt(x)[k + j] = p[j]
    BY <2>1 DEF Occurs
  <2> HIDE DEF p
  <2>3. k \in Nat /\ k + Len(p) <= e - x
    BY <1>2, <1>4, <2>1
  <2>4. ASSUME NEW j \in 1..Len(p)
        PROVE  /\ x + k + j - 1 \in x..(e - 1)
               /\ file_map[x + k + j - 1] = p[j]
    <3>1. k + j \in 1..(e - x) /\ x + k + j - 1 \in x..(e - 1)
          /\ x + (k + j) - 1 = x + k + j - 1
      BY <1>2, <1>4, <1>5, <2>1, <2>3
    <3> QED
      BY <2>1, <2>2, <3>1
  <2> QED
    BY <2>3, <2>4
<1>6. ASSUME EndsAt(x, x) PROVE FALSE
  <2>1. PICK k \in Nat : \A j \in 1..Len(p) : x + k + j - 1 \in x..(x - 1)
    BY <1>2, <1>5, <1>6
  <2> HIDE DEF p
  <2>2. x + k + 1 - 1 \in x..(x - 1)
    BY <1>4, <2>1
  <2> QED
    BY <1>2, <2>2
<1>7. ASSUME NEW k \in 1..n, Start[k - 1] <= x, x < Start[k], EndsAt(x, Start[k] - 1)
      PROVE  Begins(p, Paths[k]) /\ x = Start[k - 1]
  <2> DEFINE t == Paths[k]
             a == Start[k - 1]
  <2>1. /\ a \in Nat /\ Start[k] \in Nat /\ Start[k] = a + Len(t) + 1
        /\ t = CachePath(entered[k]) /\ entered[k] \in Request
    <3>1. k - 1 \in 0..n /\ k \in 0..n
      BY <1>1
    <3> QED
      BY <1>1, <1>2, <3>1 DEF StartRight
  <2>2. Len(t) \in Nat
    BY <1>2, <2>1, PathFacts
  <2>3. \A j \in 1..Len(t) : file_map[a + j - 1] = t[j]
    BY <1>2 DEF Entered
  <2>4. Start[k] - 1 \in Nat /\ Start[k] - 1 = a + Len(t) /\ a <= x
    BY <1>7, <2>1, <2>2
  <2>5. PICK m \in Nat : \A j \in 1..Len(p) :
               /\ x + m + j - 1 \in x..((Start[k] - 1) - 1)
               /\ file_map[x + m + j - 1] = p[j]
    BY <1>5, <1>7, <2>4
  <2> HIDE DEF p, t, a
  <2>6. ASSUME NEW j \in 1..Len(p)
        PROVE  ((x + m) - a) + j \in 1..Len(t) /\ t[((x + m) - a) + j] = p[j]
    <3> DEFINE q == ((x + m) - a) + j
    <3>1. q \in 1..Len(t) /\ a + q - 1 = x + m + j - 1
      BY <1>2, <1>4, <2>1, <2>2, <2>4, <2>5
    <3>2. file_map[a + q - 1] = t[q]
      <4> HIDE DEF q
      <4> QED
        BY <2>3, <3>1
    <3> QED
      BY <2>5, <3>1, <3>2
  <2>7. (x + m) - a \in Int
    BY <1>2, <2>1
  <2>8. (x + m) - a = 0 /\ Begins(p, t)
    BY <2>1, <2>6, <2>7, PathInPath DEF p
  <2>9. x = a
    BY <1>2, <2>1, <2>4, <2>8
  <2> QED
    BY <2>8, <2>9 DEF t, a
<1>8. ASSUME x >= seek_cache, fd_cache_mtx # NoOne, NEW e \in Cell, EndsAt(x, e)
      PROVE  Begins(p, Path(fd_cache_mtx)) /\ x = seek_cache
  <2> DEFINE t == Path(fd_cache_mtx)
  <2>1. /\ t = CachePath(asked[fd_cache_mtx]) /\ asked[fd_cache_mtx] \in Request
        /\ Len(t) \in Nat
    BY <1>2, <1>8, WriterIs
  <2>2. \A q \in Cell : q >= seek_cache /\ file_map[q] # NUL =>
          q - seek_cache + 1 \in 1..Len(t) /\ file_map[q] = t[q - seek_cache + 1]
    BY <1>2 DEF Blank
  <2>3. e \in Nat /\ e <= 2 * Size
    BY <1>2
  <2>4. PICK m \in Nat : \A j \in 1..Len(p) :
               /\ x + m + j - 1 \in x..(e - 1)
               /\ file_map[x + m + j - 1] = p[j]
    BY <1>5, <1>8, <2>3
  <2> HIDE DEF p, t
  <2>5. ASSUME NEW j \in 1..Len(p)
        PROVE  ((x + m) - seek_cache) + j \in 1..Len(t)
               /\ t[((x + m) - seek_cache) + j] = p[j]
    <3> DEFINE q == x + m + j - 1
    <3>1. q \in x..(e - 1) /\ file_map[q] = p[j]
      BY <2>4
    <3>2. q \in Cell /\ q >= seek_cache
      BY <1>1, <1>2, <1>8, <2>3, <3>1
    <3>3. file_map[q] # NUL
      BY <1>8, <3>1 DEF EndsAt
    <3>4. q - seek_cache + 1 = ((x + m) - seek_cache) + j
      BY <1>1, <1>2, <1>4
    <3> HIDE DEF q
    <3> QED
      BY <2>2, <3>1, <3>2, <3>3, <3>4
  <2>6. (x + m) - seek_cache \in Int
    BY <1>1, <1>2
  <2>7. (x + m) - seek_cache = 0 /\ Begins(p, t)
    BY <2>1, <2>5, <2>6, PathInPath DEF p
  <2>8. x = seek_cache
    BY <1>1, <1>2, <1>8, <2>7
  <2> QED
    BY <2>7, <2>8 DEF t
<1>9. CASE \E k \in 1..n : Start[k - 1] <= x /\ x < Start[k] /\ EndsAt(x, Start[k] - 1)
  <2>1. PICK k \in 1..n : Start[k - 1] <= x /\ x < Start[k] /\ EndsAt(x, Start[k] - 1)
    BY <1>9
  <2>2. Begins(p, Paths[k]) /\ x = Start[k - 1]
    BY <1>7, <2>1
  <2>3. k \in 1..Len(Log) /\ Log[k] = Paths[k]
    BY <1>1, <1>3
  <2> QED
    BY <2>2, <2>3
<1>10. CASE \E e \in Cell : x >= seek_cache /\ fd_cache_mtx # NoOne /\ EndsAt(x, e)
  <2>1. Begins(p, Path(fd_cache_mtx)) /\ x = seek_cache
    BY <1>8, <1>10
  <2>2. n + 1 \in 1..Len(Log) /\ Begins(p, Log[n + 1]) /\ (n + 1) - 1 = n
    BY <1>1, <1>3, <1>10, <2>1
  <2> HIDE DEF n, p
  <2>3. Begins(p, Log[n + 1]) /\ x = Start[(n + 1) - 1]
    BY <1>1, <2>1, <2>2
  <2> QED
    BY <2>2, <2>3 DEF p
<1> QED
  BY <1>2, <1>6, <1>9, <1>10, StringEnd


-----------------------------------------------------------------------------
(***************************************************************************)
(* A step that enters nothing, and leaves the thread with the mutex as it  *)
(* is, moves no place.                                                     *)
(***************************************************************************)
LEMMA PlacesStay ==
  ASSUME UNCHANGED <<seek_cache, fd_cache_mtx, entered>>,
         fd_cache_mtx # NoOne => asked'[fd_cache_mtx] = asked[fd_cache_mtx]
  PROVE  /\ Start' = Start /\ Paths' = Paths
         /\ fd_cache_mtx # NoOne => Path(fd_cache_mtx)' = Path(fd_cache_mtx)
         /\ Log' = Log /\ Places' = Places /\ PlacesEnd' = PlacesEnd
<1>1. Paths' = Paths
  BY DEF Paths
<1>2. Start' = Start
  BY <1>1 DEF Start
<1>3. fd_cache_mtx # NoOne => Path(fd_cache_mtx)' = Path(fd_cache_mtx)
  BY DEF Path
<1>4. Log' = Log
  BY <1>1, <1>3 DEF Log
<1>5. Places' = Places /\ PlacesEnd' = PlacesEnd
  BY <1>3 DEF Places, PlacesEnd
<1> QED
  BY <1>1, <1>2, <1>3, <1>4, <1>5

(***************************************************************************)
(* A step of a search leaves the list as it is.                            *)
(***************************************************************************)
LEMMA StoreStays ==
  ASSUME ListInv, UNCHANGED store,
         fd_cache_mtx # NoOne => asked'[fd_cache_mtx] = asked[fd_cache_mtx]
  PROVE  Bytes' /\ (~wrapped' => Entered' /\ Blank' /\ Written')
<1> USE DEF store
<1>1. /\ Start' = Start /\ Paths' = Paths
      /\ fd_cache_mtx # NoOne => Path(fd_cache_mtx)' = Path(fd_cache_mtx)
  BY PlacesStay
<1>2. Bytes'
  BY DEF ListInv, Bytes, Cell
<1>3. ASSUME ~wrapped' PROVE Entered'
  BY <1>1, <1>3 DEF ListInv, Entered
<1>4. ASSUME ~wrapped' PROVE Blank'
  BY <1>1, <1>4 DEF ListInv, Blank, Cell
<1>5. ASSUME ~wrapped' PROVE Written'
  BY <1>1, <1>5 DEF ListInv, Written
<1> QED
  BY <1>2, <1>3, <1>4, <1>5

(***************************************************************************)
(* The other threads notice nothing of such a step.                        *)
(***************************************************************************)
Alike(v) ==
  /\ pc'[v] = pc[v] /\ asked'[v] = asked[v] /\ len'[v] = len[v] /\ i'[v] = i[v]
  /\ known'[v] = known[v] /\ late'[v] = late[v]

LEMMA OthersStay ==
  ASSUME UNCHANGED <<seek_cache, fd_cache_mtx, entered, wrapped>>,
         fd_cache_mtx # NoOne => asked'[fd_cache_mtx] = asked[fd_cache_mtx],
         NEW v \in Worker, Thread(v), Alike(v)
  PROVE  Thread(v)'
<1>1. /\ Start' = Start /\ Paths' = Paths /\ Log' = Log
      /\ Places' = Places /\ PlacesEnd' = PlacesEnd
  BY PlacesStay
<1>2. Path(v)' = Path(v)
  BY DEF Alike, Path
<1>3. Searching(v)'
  BY DEF Searching, Thread, Alike
<1>4. Sure(v)'
  BY DEF Sure, Thread, Alike
<1>5. Right(v)'
  BY <1>1, <1>2 DEF Right, InPlace, Thread, Alike
<1>6. ASSUME ~wrapped' PROVE Exact(v)' /\ Counted(v)'
  BY <1>1, <1>6 DEF Exact, Counted, Thread, Alike
<1>7. ASSUME ~wrapped' PROVE Ahead(v)'
  BY <1>1, <1>2, <1>7 DEF Ahead, Thread, Alike
<1> QED
  BY <1>3, <1>4, <1>5, <1>6, <1>7 DEF Thread


(***************************************************************************)
(* Memory that has just been mapped, and a process that has ended, satisfy *)
(* the invariant.                                                          *)
(***************************************************************************)
Empty ==
  /\ \E where \in {"idle", "down"} : pc = [w \in Worker |-> where]
  /\ asked = [w \in Worker |-> NoRequest]
  /\ len = [w \in Worker |-> 0]
  /\ i = [w \in Worker |-> 0]
  /\ file_map = [p \in Cell |-> NUL]
  /\ seek_cache = 0
  /\ left = {}
  /\ fd_cache_mtx = NoOne
  /\ entered = <<>>
  /\ wrapped \in BOOLEAN
  /\ known = [w \in Worker |-> FALSE]
  /\ late = [w \in Worker |-> FALSE]

LEMMA EmptyInv == Empty => ListInv
<1> SUFFICES ASSUME Empty PROVE ListInv
  OBVIOUS
<1>1. PICK where \in {"idle", "down"} : pc = [w \in Worker |-> where]
  BY DEF Empty
<1>2. Size \in Nat /\ Size > 0 /\ NoOne \notin Worker
  BY ListAssumption
<1>3. TypeOK
  BY <1>1, <1>2 DEF Empty, TypeOK
<1>4. ASSUME NEW w \in Worker PROVE Thread(w)
  <2>1. pc[w] \in {"idle", "down"} /\ len[w] = 0 /\ i[w] = 0
        /\ known[w] = FALSE /\ late[w] = FALSE
    BY <1>1 DEF Empty
  <2> QED
    BY <2>1 DEF Thread, Searching, Sure, Right, Exact, Counted, Ahead
<1>5. Writing
  <2>1. \A w \in Worker : (pc[w] = "write") = FALSE /\ (fd_cache_mtx = w) = FALSE
    BY <1>1, <1>2 DEF Empty
  <2> QED
    BY <2>1 DEF Empty, Writing
<1>6. Bytes
  BY <1>2 DEF Empty, Bytes, Cell
<1>7. Entered
  <2>1. entered \in Seq(Request) /\ Len(entered) = 0 /\ seek_cache = 0
    BY DEF Empty
  <2>2. Start[0] = 0
    BY <2>1, StartIs DEF StartRight
  <2> QED
    BY <2>1, <2>2 DEF Entered
<1>8. Blank /\ Written
  BY DEF Empty, Blank, Written
<1> QED
  BY <1>3, <1>4, <1>5, <1>6, <1>7, <1>8 DEF ListInv

LEMMA InitInv == Init => ListInv
<1> SUFFICES ASSUME Init PROVE Empty
  BY EmptyInv
<1> QED
  BY DEF Init, Empty

LEMMA HaltInv == wrapped \in BOOLEAN /\ Halt => ListInv'
<1>1. (Empty => ListInv)'
  BY EmptyInv, PTL
<1> SUFFICES ASSUME wrapped \in BOOLEAN, Halt PROVE Empty'
  BY <1>1
<1> QED
  BY DEF Halt, Empty, Cell

(***************************************************************************)
(* A step of one thread that writes nothing.                               *)
(***************************************************************************)
LEMMA SearchStep ==
  ASSUME ListInv, NEW w \in Worker, UNCHANGED store, TypeOK',
         pc[w] # "write", pc'[w] # "write",
         \A v \in Worker \ {w} : Alike(v),
         Thread(w)'
  PROVE  ListInv'
<1>1. Writing /\ fd_cache_mtx \in Worker \cup {NoOne}
  BY DEF ListInv, TypeOK
<1>2. w # fd_cache_mtx
  BY <1>1 DEF Writing
<1>3. fd_cache_mtx # NoOne => asked'[fd_cache_mtx] = asked[fd_cache_mtx]
  BY <1>1, <1>2 DEF Alike
<1>4. Bytes' /\ (~wrapped' => Entered' /\ Blank' /\ Written')
  BY <1>3, StoreStays
<1>5. Writing'
  <2>1. \A v \in Worker : (pc'[v] = "write") = (fd_cache_mtx' = v)
    BY <1>1, <1>2 DEF Writing, Alike, store
  <2>2. left' \subseteq IF fd_cache_mtx' = NoOne THEN {} ELSE 1..Len(Path(fd_cache_mtx))'
    BY <1>1, <1>3 DEF Writing, Path, store
  <2> QED
    BY <2>1, <2>2 DEF Writing
<1>6. ASSUME NEW v \in Worker PROVE Thread(v)'
  BY <1>3, OthersStay DEF ListInv, store
<1> QED
  BY <1>4, <1>5, <1>6 DEF ListInv

(***************************************************************************)
(* A search begins, in a list that is empty or not.                        *)
(***************************************************************************)
LEMMA AskInv ==
  ASSUME ListInv, NEW w \in Worker, Ask(w)
  PROVE  ListInv'
<1>1. PICK r \in Request :
        /\ asked' = [asked EXCEPT ![w] = r]
        /\ known' = [known EXCEPT ![w] = Listed(CachePath(r))]
  BY DEF Ask
<1>2. /\ pc[w] = "idle" /\ UNCHANGED <<len, i, late, store>>
      /\ pc' = [pc EXCEPT ![w] = IF file_map[0] = NUL THEN "missed" ELSE "search"]
  BY DEF Ask, Go
<1>3. TypeOK /\ Writing /\ Searching(w)
  BY DEF ListInv, Thread
<1>4. \A v \in Worker \ {w} : Alike(v)
  BY <1>1, <1>2, <1>3 DEF TypeOK, Alike
<1>5. TypeOK'
  <2>1. Listed(CachePath(r)) \in BOOLEAN
    BY DEF Listed
  <2> QED
    BY <1>1, <1>2, <1>3, <2>1 DEF TypeOK, store
<1>6. fd_cache_mtx # NoOne => asked'[fd_cache_mtx] = asked[fd_cache_mtx]
  BY <1>1, <1>2, <1>3 DEF TypeOK, Writing
<1>7. /\ asked'[w] = r /\ known'[w] = Listed(CachePath(r))
      /\ len'[w] = 0 /\ i'[w] = 0 /\ ~late'[w]
      /\ pc'[w] = IF file_map[0] = NUL THEN "missed" ELSE "search"
  BY <1>1, <1>2, <1>3 DEF TypeOK, Searching
<1>8. /\ Start' = Start /\ Paths' = Paths
      /\ Places' = Places /\ PlacesEnd' = PlacesEnd
  BY <1>2, <1>6, PlacesStay DEF store
<1>9. wrapped' = wrapped /\ entered' = entered
  BY <1>2 DEF store
<1>10. ASSUME ~wrapped
      PROVE  /\ Start[0] = 0 /\ Len(entered) \in Nat
             /\ \A k \in 0..Len(entered) : 0 >= Start[k] => k = 0
             /\ PlacesEnd \in Nat /\ (0 >= PlacesEnd => Places = 0 /\ PlacesEnd = 0)
             /\ Len(entered) > 0 => file_map[0] # NUL
  <2>1. /\ Len(entered) \in Nat /\ StartRight
        /\ Start[Len(entered)] = seek_cache /\ seek_cache \in Nat
        /\ \A j, k \in 0..Len(entered) : j < k => Start[j] < Start[k]
        /\ \A k \in 0..Len(entered) : Start[k] \in Nat
    BY <1>10, PlacesOf
  <2>2. Start[0] = 0
    BY <2>1 DEF StartRight
  <2>3. \A k \in 0..Len(entered) : 0 >= Start[k] => k = 0
    BY <2>1, <2>2
  <2>4. fd_cache_mtx # NoOne => Len(Path(fd_cache_mtx)) \in Nat
    BY WriterIs, ListAssumption
  <2>5. PlacesEnd \in Nat /\ (0 >= PlacesEnd => fd_cache_mtx = NoOne /\ PlacesEnd = seek_cache)
    BY <2>1, <2>4 DEF PlacesEnd
  <2>6. 0 >= PlacesEnd => Places = 0 /\ PlacesEnd = 0
    BY <2>1, <2>3, <2>5 DEF Places
  <2>7. ASSUME Len(entered) > 0 PROVE file_map[0] # NUL
    <3>1. 1 \in 1..Len(entered) /\ entered[1] \in Request
      BY <1>3, <2>1, <2>7 DEF TypeOK
    <3>2. Paths[1] = CachePath(entered[1])
      BY <2>1, <3>1 DEF StartRight
    <3>3. 1 \in 1..Len(Paths[1]) /\ Paths[1][1] # NUL
      BY <3>1, <3>2, PathFacts, ListAssumption
    <3>4. file_map[Start[1 - 1] + 1 - 1] = Paths[1][1]
      BY <1>10, <3>1, <3>3 DEF ListInv, Entered
    <3>5. Start[1 - 1] + 1 - 1 = 0
      BY <2>2
    <3> QED
      BY <3>3, <3>4, <3>5
  <2> QED
    BY <2>1, <2>2, <2>3, <2>5, <2>6, <2>7
<1>11. ASSUME ~wrapped, Listed(CachePath(r))
      PROVE  \E k \in 1..Len(entered) : k > 0 /\ Paths[k] = CachePath(r)
  BY <1>10, <1>11 DEF Listed
<1>12. Searching(w)'
  BY <1>7 DEF Searching
<1>13. Sure(w)'
  <2> SUFFICES ASSUME ~wrapped, Listed(CachePath(r)), file_map[0] = NUL PROVE FALSE
    BY <1>7, <1>9 DEF Sure
  <2>1. Len(entered) \in Nat /\ ~(Len(entered) > 0)
    BY <1>10
  <2> QED
    BY <1>11, <2>1
<1>14. Right(w)'
  BY <1>7 DEF Right
<1>15. ASSUME ~wrapped' PROVE Exact(w)' /\ Counted(w)'
  BY <1>7, <1>8, <1>9, <1>10, <1>15 DEF Exact, Counted
<1>16. ASSUME ~wrapped' PROVE Ahead(w)'
  <2>1. Path(w)' = CachePath(r)
    BY <1>7 DEF Path
  <2> QED
    BY <1>7, <1>8, <1>9, <1>11, <1>16, <2>1 DEF Ahead
<1> QED
  BY <1>2, <1>4, <1>5, <1>7, <1>12, <1>13, <1>14, <1>15, <1>16, SearchStep DEF Thread


(***************************************************************************)
(* The string behind the one that was read: a search that steps over a     *)
(* place counts it.                                                        *)
(***************************************************************************)
LEMMA NextString ==
  ASSUME ListInv, ~wrapped, NEW w \in Worker, pc[w] = "search", len[w] < Size
  PROVE  LET next == len[w] + Len(StringAt(len[w])) + 1
         IN /\ \A k \in 0..Len(entered) : next >= Start[k] => i[w] + 1 >= k
            /\ next >= PlacesEnd => i[w] + 1 >= Places + (next - PlacesEnd)
            /\ ~late[w] /\ len[w] < seek_cache =>
                 /\ i[w] + 1 \in 1..Len(entered)
                 /\ next = Start[i[w] + 1]
                 /\ StringAt(len[w]) = Paths[i[w] + 1]
<1> DEFINE x == len[w]
           c == i[w]
           n == Len(entered)
           L == Len(Path(fd_cache_mtx))
           next == x + Len(StringAt(x)) + 1
<1>1. /\ n \in Nat /\ StartRight
      /\ Start[n] = seek_cache /\ seek_cache \in Nat
      /\ \A j, k \in 0..n : j < k => Start[j] < Start[k]
      /\ \A k \in 0..n : Start[k] \in Nat /\ Start[k] <= seek_cache
  BY PlacesOf
<1>2. Size \in Nat /\ x \in Nat /\ c \in Nat /\ x \in 0..(Size - 1)
      /\ entered \in Seq(Request)
  BY ListAssumption DEF ListInv, TypeOK
<1>3. /\ Exact(w) /\ Counted(w) /\ Entered
  BY DEF ListInv, Thread
<1>4. \A k \in 0..n : x >= Start[k] => c >= k
  BY <1>3 DEF Counted
<1>5. x >= PlacesEnd => c >= Places + (x - PlacesEnd)
  BY <1>3 DEF Counted
<1>6. Cell \subseteq Nat
  BY <1>2 DEF Cell
<1>7. \A e \in Nat : EndsAt(x, e) => next = e + 1 /\ e >= x
  <2> SUFFICES ASSUME NEW e \in Nat, EndsAt(x, e) PROVE next = e + 1 /\ e >= x
    OBVIOUS
  <2>1. Len(StringAt(x)) = e - x
    BY <1>2, StringIs
  <2> QED
    BY <1>2, <2>1 DEF EndsAt
<1> DEFINE Goal == /\ \A k \in 0..n : next >= Start[k] => c + 1 >= k
                   /\ next >= PlacesEnd => c + 1 >= Places + (next - PlacesEnd)
                   /\ ~late[w] /\ x < seek_cache =>
                        c + 1 \in 1..n /\ next = Start[c + 1] /\ StringAt(x) = Paths[c + 1]
<1> HIDE DEF next
<1>8. ASSUME NEW K \in 1..n, Start[K - 1] <= x, x < Start[K], EndsAt(x, Start[K] - 1)
      PROVE  Goal
  <2>1. K \in 0..n /\ K - 1 \in 0..n /\ Start[K] \in Nat /\ Start[K - 1] \in Nat
        /\ Start[K] <= seek_cache
    BY <1>1
  <2>2. Start[K] - 1 \in Nat
    BY <1>2, <1>8, <2>1
  <2>3. next = Start[K]
    BY <1>7, <1>8, <2>1, <2>2
  <2>4. c >= K - 1
    BY <1>4, <1>8, <2>1
  <2>5. ASSUME NEW k \in 0..n, next >= Start[k] PROVE c + 1 >= k
    <3>1. ~(K < k)
      BY <1>1, <2>1, <2>3, <2>5
    <3> QED
      BY <1>2, <2>4, <3>1
  <2>6. ASSUME next >= PlacesEnd PROVE c + 1 >= Places + (next - PlacesEnd)
    <3>1. fd_cache_mtx = NoOne
      <4> SUFFICES ASSUME fd_cache_mtx # NoOne PROVE FALSE
        OBVIOUS
      <4>1. L \in Nat
        BY <1>2, WriterIs
      <4> HIDE DEF L
      <4>2. PlacesEnd = seek_cache + (L + 1)
        BY DEF PlacesEnd, L
      <4> QED
        BY <1>1, <2>1, <2>3, <2>6, <4>1, <4>2
    <3>2. PlacesEnd = seek_cache /\ Places = n
      BY <1>1, <3>1 DEF PlacesEnd, Places
    <3>3. next = seek_cache
      BY <1>1, <2>1, <2>3, <2>6, <3>2
    <3>4. c + 1 >= n
      BY <1>1, <2>5, <3>3
    <3> QED
      BY <1>1, <1>2, <3>2, <3>3, <3>4
  <2>7. ASSUME ~late[w], x < seek_cache
        PROVE  c + 1 \in 1..n /\ next = Start[c + 1] /\ StringAt(x) = Paths[c + 1]
    <3>1. c \in 0..n /\ x = Start[c]
      BY <1>1, <1>2, <1>3, <2>7 DEF Exact
    <3>2. c = K - 1
      <4>1. c # K
        BY <1>2, <1>8, <2>1, <3>1
      <4>2. ~(K < c)
        <5>1. K < c => Start[K] < Start[c]
          BY <1>1, <2>1, <3>1
        <5> QED
          BY <1>2, <1>8, <2>1, <3>1, <5>1
      <4> HIDE DEF c
      <4> QED
        BY <1>2, <2>4, <4>1, <4>2
    <3>3. c + 1 = K
      BY <3>2
    <3>4. StringAt(x) = Paths[K]
      <4> DEFINE t == Paths[K]
                 b == Start[K]
      <4>1. t = CachePath(entered[K]) /\ b = x + Len(t) + 1
        BY <1>1, <3>1, <3>2 DEF StartRight
      <4>2. entered[K] \in Request
        BY <1>2
      <4>3. t \in Seq(Symbol) /\ Len(t) \in Nat
        BY <1>2, <4>1, <4>2, PathFacts
      <4>4. StringAt(x) = [m \in 1..((b - 1) - x) |-> file_map[x + m - 1]]
        BY <1>2, <1>8, StringIs
      <4>5. \A m \in 1..Len(t) : file_map[x + m - 1] = t[m]
        BY <1>3, <3>1, <3>2 DEF Entered
      <4> HIDE DEF t, b
      <4>6. (b - 1) - x = Len(t)
        BY <1>2, <4>1, <4>3
      <4>7. StringAt(x) = [m \in 1..Len(t) |-> t[m]]
        BY <4>4, <4>5, <4>6
      <4>8. t = [m \in 1..Len(t) |-> t[m]]
        BY <4>3
      <4> QED
        BY <4>7, <4>8 DEF t
    <3> QED
      BY <2>3, <3>3, <3>4
  <2> QED
    BY <2>5, <2>6, <2>7
<1>9. ASSUME x >= seek_cache, EndsAt(x, x), (PlacesEnd = seek_cache /\ Places = n) \/ x >= PlacesEnd,
             PlacesEnd \in Nat, Places \in Nat
      PROVE  Goal
  <2>1. next = x + 1
    BY <1>2, <1>7, <1>9
  <2>2. c >= n
    BY <1>1, <1>4, <1>9
  <2>3. \A k \in 0..n : c + 1 >= k
    BY <1>1, <1>2, <2>2
  <2>4. next >= PlacesEnd => c + 1 >= Places + (next - PlacesEnd)
    BY <1>1, <1>2, <1>5, <1>9, <2>1
  <2>5. ~(x < seek_cache)
    BY <1>1, <1>2, <1>9
  <2> QED
    BY <2>3, <2>4, <2>5
<1>10. ASSUME x >= seek_cache, fd_cache_mtx # NoOne, x <= seek_cache + L,
              NEW e \in Cell, EndsAt(x, e), e <= seek_cache + L
       PROVE  Goal
  <2>1. L \in Nat
    BY <1>2, <1>10, WriterIs
  <2>2. PlacesEnd = seek_cache + (L + 1) /\ Places = n + 1
    BY <1>10 DEF PlacesEnd, Places
  <2>3. next = e + 1 /\ e \in Nat
    BY <1>6, <1>7, <1>10
  <2>4. c >= n
    BY <1>1, <1>4, <1>10
  <2>5. \A k \in 0..n : c + 1 >= k
    BY <1>1, <1>2, <2>4
  <2>6. next >= PlacesEnd => c + 1 >= Places + (next - PlacesEnd)
    <3> HIDE DEF L
    <3> QED
      BY <1>1, <1>2, <1>10, <2>1, <2>2, <2>3, <2>4
  <2>7. ~(x < seek_cache)
    BY <1>1, <1>2, <1>10
  <2> QED
    BY <2>5, <2>6, <2>7
<1>11. Goal
  <2>1. CASE \E K \in 1..n : Start[K - 1] <= x /\ x < Start[K] /\ EndsAt(x, Start[K] - 1)
    BY <1>8, <2>1
  <2>2. CASE x >= seek_cache /\ fd_cache_mtx = NoOne /\ EndsAt(x, x)
    <3>1. PlacesEnd = seek_cache /\ Places = n
      BY <1>1, <2>2 DEF PlacesEnd, Places
    <3> QED
      BY <1>1, <1>9, <2>2, <3>1
  <2>3. CASE x >= seek_cache /\ fd_cache_mtx # NoOne /\ x > seek_cache + L /\ EndsAt(x, x)
    <3>1. L \in Nat
      BY <1>2, <2>3, WriterIs
    <3>2. PlacesEnd = seek_cache + (L + 1) /\ Places = n + 1
      BY <2>3 DEF PlacesEnd, Places
    <3>3. PlacesEnd \in Nat /\ Places \in Nat /\ x >= PlacesEnd
      <4> HIDE DEF L
      <4> QED
        BY <1>1, <1>2, <2>3, <3>1, <3>2
    <3> QED
      BY <1>9, <2>3, <3>3
  <2>4. CASE /\ x >= seek_cache /\ fd_cache_mtx # NoOne /\ x <= seek_cache + L
             /\ \E e \in Cell : EndsAt(x, e) /\ e <= seek_cache + L
    BY <1>10, <2>4
  <2> QED
    BY <1>2, <2>1, <2>2, <2>3, <2>4, StringEnd
<1> QED
  BY <1>11 DEF next


(***************************************************************************)
(* One string is compared.                                                 *)
(***************************************************************************)
LEMMA CompareInv ==
  ASSUME ListInv, NEW w \in Worker, Compare(w)
  PROVE  ListInv'
<1> DEFINE x == len[w]
           next == x + Len(StringAt(x)) + 1
<1>1. TypeOK /\ Writing /\ Bytes /\ Thread(w)
  BY DEF ListInv
<1>2. pc[w] = "search" /\ x < Size /\ UNCHANGED <<asked, known, store>>
  BY DEF Compare
<1>3. x \in Nat /\ i[w] \in Nat /\ x \in 0..(Size - 1) /\ x \in 0..(2 * Size)
      /\ Size \in Nat /\ asked[w] \in Request /\ entered \in Seq(Request)
  BY <1>1, <1>2, ListAssumption DEF TypeOK, Thread, Searching
<1>4. wrapped' = wrapped /\ entered' = entered /\ seek_cache' = seek_cache
  BY <1>2 DEF store
<1>5. fd_cache_mtx # NoOne => asked'[fd_cache_mtx] = asked[fd_cache_mtx]
  BY <1>2
<1>6. /\ Start' = Start /\ Paths' = Paths /\ Log' = Log
      /\ Places' = Places /\ PlacesEnd' = PlacesEnd /\ Path(w)' = Path(w)
  BY <1>2, <1>5, PlacesStay DEF store, Path
<1>7. CASE Occurs(Path(w), StringAt(x))
  <2>1. pc' = [pc EXCEPT ![w] = "found"] /\ UNCHANGED <<len, i, late>>
    BY <1>7 DEF Compare, Go
  <2>2. TypeOK'
    BY <1>1, <1>2, <2>1 DEF TypeOK, store
  <2>3. \A v \in Worker \ {w} : Alike(v)
    BY <1>1, <1>2, <2>1 DEF TypeOK, Alike
  <2>4. pc'[w] = "found"
    BY <1>1, <2>1 DEF TypeOK
  <2>5. ASSUME ~wrapped
        PROVE  InPlace(w)
    <3>1. PICK k \in 1..Len(Log) : Begins(Path(w), Log[k]) /\ x = Start[k - 1]
      BY <1>3, <1>7, <2>5, FoundPath DEF Path
    <3>2. /\ Len(entered) \in Nat
          /\ \A h, j \in 0..Len(entered) : h < j => Start[h] < Start[j]
          /\ \A h \in 0..Len(entered) : Start[h] \in Nat
      BY <2>5, PlacesOf
    <3>3. Len(Log) = Len(entered) + (IF fd_cache_mtx = NoOne THEN 0 ELSE 1)
      BY <1>3, LogIs DEF LogRight
    <3>4. k - 1 \in 0..Len(entered)
      BY <3>2, <3>3
    <3>5. i[w] >= k - 1
      BY <1>1, <1>2, <1>3, <2>5, <3>1, <3>2, <3>4 DEF Thread, Counted
    <3>6. ASSUME ~late[w] PROVE i[w] = k - 1
      <4>1. i[w] \in 0..Len(entered) /\ Start[i[w]] = x
        BY <1>1, <1>2, <1>3, <2>5, <3>2, <3>6 DEF Thread, Exact
      <4>2. ~(k - 1 < i[w])
        <5>1. k - 1 < i[w] => Start[k - 1] < Start[i[w]]
          BY <3>2, <3>4, <4>1
        <5> QED
          BY <1>3, <3>1, <4>1, <5>1
      <4> QED
        BY <1>3, <3>4, <3>5, <4>2
    <3>7. k <= i[w] + 1 /\ (~late[w] => k = i[w] + 1)
      BY <1>3, <3>5, <3>6
    <3> QED
      BY <3>1, <3>7 DEF InPlace
  <2>6. Thread(w)'
    <3>1. Searching(w)' /\ Sure(w)'
      BY <1>2, <1>3, <2>4 DEF Searching, Sure
    <3>2. Right(w)'
      BY <1>4, <1>6, <2>1, <2>5 DEF Right, InPlace
    <3>3. Exact(w)' /\ Counted(w)' /\ Ahead(w)'
      BY <2>4 DEF Exact, Counted, Ahead
    <3> QED
      BY <3>1, <3>2, <3>3 DEF Thread
  <2> QED
    BY <1>2, <2>2, <2>3, <2>4, <2>6, SearchStep
<1>8. CASE ~Occurs(Path(w), StringAt(x))
  <2>1. /\ len' = [len EXCEPT ![w] = x + Len(StringAt(x)) + 1]
        /\ i' = [i EXCEPT ![w] = i[w] + 1]
        /\ late' = [late EXCEPT ![w] = late[w] \/ x >= seek_cache]
        /\ pc' = pc
    BY <1>8 DEF Compare
  <2>2. next \in Nat
    <3>1. PICK e \in Cell : EndsAt(x, e)
      BY <1>1, <1>3, StringEnds
    <3>2. Len(StringAt(x)) \in Nat
      BY <1>3, <3>1, StringIs
    <3> QED
      BY <1>3, <3>2
  <2> HIDE DEF next
  <2>3. (late[w] \/ x >= seek_cache) \in BOOLEAN
    BY <1>1 DEF TypeOK
  <2>4. TypeOK'
    <3>1. len' \in [Worker -> Nat]
      BY <1>1, <2>1, <2>2 DEF TypeOK, next
    <3>2. late' \in [Worker -> BOOLEAN]
      BY <1>1, <2>1, <2>3 DEF TypeOK
    <3>3. i' \in [Worker -> Nat]
      BY <1>1, <1>3, <2>1 DEF TypeOK
    <3> QED
      BY <1>1, <1>2, <2>1, <3>1, <3>2, <3>3 DEF TypeOK, store
  <2>5. \A v \in Worker \ {w} : Alike(v)
    BY <1>1, <1>2, <2>1 DEF TypeOK, Alike
  <2>6. /\ len'[w] = next /\ i'[w] = i[w] + 1
        /\ late'[w] <=> late[w] \/ x >= seek_cache
        /\ pc'[w] = "search"
    BY <1>1, <1>2, <2>1 DEF TypeOK, next
  <2>7. ASSUME ~wrapped
        PROVE  /\ \A k \in 0..Len(entered) : next >= Start[k] => i[w] + 1 >= k
               /\ next >= PlacesEnd => i[w] + 1 >= Places + (next - PlacesEnd)
               /\ ~late[w] /\ x < seek_cache =>
                    /\ i[w] + 1 \in 1..Len(entered)
                    /\ next = Start[i[w] + 1]
                    /\ StringAt(x) = Paths[i[w] + 1]
    BY <1>2, <2>7, NextString DEF next
  <2>8. seek_cache \in Nat /\ Len(entered) \in Nat
    BY <1>1, <1>3 DEF TypeOK
  <2>9. ASSUME ~wrapped' PROVE Exact(w)'
    <3> SUFFICES ASSUME ~late[w], x < seek_cache
                 PROVE  i[w] + 1 <= Len(entered) /\ next = Start[i[w] + 1]
      BY <1>3, <1>4, <1>6, <2>6, <2>8 DEF Exact
    <3> QED
      BY <1>4, <2>7, <2>9
  <2>10. ASSUME ~wrapped' PROVE Counted(w)'
    BY <1>4, <1>6, <2>6, <2>7, <2>10 DEF Counted
  <2>11. ASSUME ~wrapped' PROVE Ahead(w)'
    <3> SUFFICES ASSUME known[w]
                 PROVE  /\ ~late[w] /\ x < seek_cache
                        /\ \E k \in 1..Len(entered) : k > i[w] + 1 /\ Paths[k] = Path(w)
      BY <1>2, <1>3, <1>4, <1>6, <2>6, <2>8 DEF Ahead
    <3>1. ~late[w] /\ \E k \in 1..Len(entered) : k > i[w] /\ Paths[k] = Path(w)
      BY <1>1, <1>2, <1>4, <2>11 DEF Thread, Ahead
    <3>2. PICK k \in 1..Len(entered) : k > i[w] /\ Paths[k] = Path(w)
      BY <3>1
    <3>3. x < seek_cache
      <4>1. /\ Start[Len(entered)] = seek_cache
            /\ \A h, j \in 0..Len(entered) : h < j => Start[h] < Start[j]
        BY <1>4, <2>11, PlacesOf
      <4>2. x = Start[i[w]]
        BY <1>1, <1>2, <1>4, <2>11, <3>1 DEF Thread, Exact
      <4>3. i[w] \in 0..Len(entered) /\ i[w] < Len(entered)
            /\ Len(entered) \in 0..Len(entered)
        BY <1>3, <2>8, <3>2
      <4> QED
        BY <4>1, <4>2, <4>3
    <3>4. StringAt(x) = Paths[i[w] + 1]
      BY <1>4, <2>7, <2>11, <3>1, <3>3
    <3>5. Len(Path(w)) \in Nat
      BY <1>3, PathFacts DEF Path
    <3>6. k # i[w] + 1
      <4> SUFFICES ASSUME StringAt(x) = Path(w) PROVE Occurs(Path(w), StringAt(x))
        BY <1>8, <3>2, <3>4
      <4> DEFINE p == Path(w)
      <4> HIDE DEF p
      <4>1. 0 \in 0..(Len(p) - Len(p)) /\ \A j \in 1..Len(p) : p[0 + j] = p[j]
        BY <3>5 DEF p
      <4> QED
        BY <4>1 DEF Occurs, p
    <3>7. k > i[w] + 1
      BY <1>3, <3>2, <3>6
    <3> QED
      BY <3>1, <3>2, <3>3, <3>7
  <2>12. Searching(w)' /\ Sure(w)' /\ Right(w)'
    BY <1>2, <1>3, <2>6 DEF Searching, Sure, Right
  <2>13. Thread(w)'
    BY <2>9, <2>10, <2>11, <2>12 DEF Thread
  <2> QED
    BY <1>2, <2>4, <2>5, <2>6, <2>13, SearchStep
<1> QED
  BY <1>7, <1>8


(***************************************************************************)
(* The end of the mapping, which nobody reaches who looks for a path that  *)
(* is in the list.                                                         *)
(***************************************************************************)
LEMMA CompareNoneInv ==
  ASSUME ListInv, NEW w \in Worker, CompareNone(w)
  PROVE  ListInv'
<1>1. TypeOK /\ Thread(w) /\ Size \in Nat
  BY ListAssumption DEF ListInv
<1>2. pc[w] = "search" /\ len[w] >= Size /\ pc' = [pc EXCEPT ![w] = "missed"]
      /\ UNCHANGED <<search, store>>
  BY DEF CompareNone, Go
<1>3. TypeOK' /\ pc'[w] = "missed" /\ \A v \in Worker \ {w} : Alike(v)
  BY <1>1, <1>2 DEF TypeOK, Alike, search, store
<1>4. Sure(w)'
  <2> SUFFICES ASSUME known[w], ~wrapped PROVE FALSE
    BY <1>2 DEF Sure, search, store
  <2>1. ~late[w] /\ len[w] = Start[i[w]] /\ i[w] <= Len(entered)
    BY <1>1, <1>2 DEF Thread, Ahead, Exact
  <2>2. /\ Len(entered) \in Nat /\ seek_cache \in 0..(Size - 1)
        /\ \A k \in 0..Len(entered) : Start[k] \in Nat /\ Start[k] <= seek_cache
    BY PlacesOf
  <2>3. i[w] \in 0..Len(entered)
    BY <1>1, <2>1, <2>2 DEF TypeOK
  <2> QED
    BY <1>1, <1>2, <2>1, <2>2, <2>3
<1>5. Searching(w)' /\ Right(w)' /\ Exact(w)' /\ Counted(w)' /\ Ahead(w)'
  BY <1>1, <1>2, <1>3 DEF Thread, Searching, Right, Exact, Counted, Ahead, search
<1> QED
  BY <1>2, <1>3, <1>4, <1>5, SearchStep DEF Thread

(***************************************************************************)
(* The image is sent, or there is none: the thread forgets its request.    *)
(***************************************************************************)
LEMMA ForgetInv ==
  ASSUME ListInv, NEW w \in Worker, Send(w) \/ NotPresent(w)
  PROVE  ListInv'
<1>1. TypeOK
  BY DEF ListInv
<1>2. pc[w] \in {"found", "missed"} /\ pc' = [pc EXCEPT ![w] = "idle"]
      /\ Forget(w) /\ UNCHANGED store
  BY DEF Send, NotPresent, Go
<1>3. TypeOK' /\ \A v \in Worker \ {w} : Alike(v)
  BY <1>1, <1>2 DEF TypeOK, Alike, Forget, store
<1>4. pc'[w] = "idle" /\ len'[w] = 0 /\ i'[w] = 0 /\ ~known'[w] /\ ~late'[w]
  BY <1>1, <1>2 DEF TypeOK, Forget
<1>5. Thread(w)'
  BY <1>4 DEF Thread, Searching, Sure, Right, Exact, Counted, Ahead
<1> QED
  BY <1>2, <1>3, <1>4, <1>5, SearchStep

(***************************************************************************)
(* A thread takes the mutex, to enter its path.                            *)
(***************************************************************************)
LEMMA LockInv ==
  ASSUME ListInv, NEW w \in Worker, Lock(w)
  PROVE  ListInv'
<1> DEFINE L == Len(Path(w))
<1>1. TypeOK /\ Writing /\ Thread(w) /\ NoOne \notin Worker
  BY ListAssumption DEF ListInv
<1>2. /\ pc[w] = "missed" /\ fd_cache_mtx = NoOne /\ fd_cache_mtx' = w
      /\ left' = 1..L /\ pc' = [pc EXCEPT ![w] = "write"]
      /\ UNCHANGED <<search, file_map, seek_cache, entered, wrapped>>
  BY DEF Lock, Go
<1>3. asked[w] \in Request /\ Path(w) = CachePath(asked[w]) /\ w # NoOne
  BY <1>1, <1>2 DEF Thread, Searching, Path
<1>4. L \in Nat /\ entered \in Seq(Request) /\ Len(entered) \in Nat /\ seek_cache \in Nat
  BY <1>1, <1>3, PathFacts, ListAssumption DEF TypeOK
<1>5. \A v \in Worker : Path(v)' = Path(v)
  BY <1>2 DEF Path, search
<1>6. Paths' = Paths /\ Start' = Start
  BY <1>2 DEF Paths, Start
<1>7. TypeOK'
  BY <1>1, <1>2, <1>4 DEF TypeOK, search
<1>8. Writing'
  <2>1. \A v \in Worker : (pc'[v] = "write") = (fd_cache_mtx' = v)
    BY <1>1, <1>2 DEF TypeOK, Writing
  <2>2. left' \subseteq 1..Len(Path(fd_cache_mtx))' /\ fd_cache_mtx' # NoOne
    BY <1>2, <1>3, <1>5
  <2> QED
    BY <2>1, <2>2 DEF Writing
<1>9. Bytes'
  BY <1>2 DEF ListInv, Bytes, Cell
<1>10. ASSUME ~wrapped' PROVE Entered' /\ Blank' /\ Written'
  <2>1. Entered'
    BY <1>2, <1>6, <1>10 DEF ListInv, Entered
  <2>2. \A p \in Cell : p >= seek_cache => file_map[p] = NUL
    BY <1>2, <1>10 DEF ListInv, Blank
  <2>3. Blank'
    BY <1>2, <2>2 DEF Blank, Cell
  <2>4. Written'
    <3>1. Path(fd_cache_mtx)' = Path(w)
      BY <1>2, <1>5
    <3> QED
      BY <1>2, <3>1 DEF Written
  <2> QED
    BY <2>1, <2>3, <2>4
<1>11. ASSUME NEW v \in Worker PROVE Thread(v)'
  <2>1. Thread(v) /\ (v # w => pc'[v] = pc[v]) /\ pc'[w] = "write"
    BY <1>1, <1>2 DEF ListInv, TypeOK
  <2>2. Searching(v)' /\ Sure(v)'
    BY <1>2, <1>3, <2>1 DEF Thread, Searching, Sure, search
  <2>3. ASSUME ~wrapped' PROVE Exact(v)' /\ Ahead(v)'
    BY <1>2, <1>5, <1>6, <2>1, <2>3 DEF Thread, Exact, Ahead, search
  <2>4. ASSUME ~wrapped' PROVE Counted(v)'
    <3>1. /\ Places = Len(entered) /\ PlacesEnd = seek_cache
          /\ Places' = Len(entered) + 1 /\ PlacesEnd' = seek_cache + (L + 1)
      BY <1>2, <1>3, <1>4, <1>5 DEF Places, PlacesEnd
    <3>2. len[v] \in Nat /\ i[v] \in Nat
      BY <1>1 DEF TypeOK
    <3> HIDE DEF L
    <3>3. /\ len'[v] = len[v] /\ i'[v] = i[v] /\ Start' = Start
          /\ Len(entered') = Len(entered) /\ ~wrapped
      BY <1>2, <1>6, <2>4 DEF search
    <3> SUFFICES ASSUME pc'[v] = "search"
                 PROVE  /\ \A k \in 0..Len(entered) : len[v] >= Start[k] => i[v] >= k
                        /\ len[v] >= seek_cache + (L + 1) =>
                             i[v] >= (Len(entered) + 1) + (len[v] - (seek_cache + (L + 1)))
      BY <3>1, <3>3 DEF Counted
    <3>4. pc[v] = "search"
      BY <2>1
    <3>5. /\ \A k \in 0..Len(entered) : len[v] >= Start[k] => i[v] >= k
          /\ len[v] >= seek_cache => i[v] >= Len(entered) + (len[v] - seek_cache)
      BY <2>1, <3>1, <3>3, <3>4 DEF Thread, Counted
    <3>6. ASSUME len[v] >= seek_cache + (L + 1)
          PROVE  i[v] >= (Len(entered) + 1) + (len[v] - (seek_cache + (L + 1)))
      <4>1. len[v] >= seek_cache
        BY <1>4, <3>2, <3>6
      <4>2. i[v] >= Len(entered) + (len[v] - seek_cache)
        BY <3>5, <4>1
      <4> QED
        BY <1>4, <3>2, <4>2
    <3> QED
      BY <3>5, <3>6
  <2>5. Right(v)'
    <3> SUFFICES ASSUME pc'[v] = "found", ~wrapped' PROVE InPlace(v)'
      BY DEF Right
    <3>1. pc[v] = "found" /\ ~wrapped /\ i'[v] = i[v] /\ late'[v] = late[v]
      BY <1>2, <2>1 DEF search
    <3>2. PICK k \in 1..Len(Log) : /\ Begins(Path(v), Log[k])
                                   /\ k <= i[v] + 1
                                   /\ ~late[v] => k = i[v] + 1
      BY <2>1, <3>1 DEF Thread, Right, InPlace
    <3>3. /\ Len(Log) = Len(entered)
          /\ \A h \in 1..Len(entered) : Log[h] = Paths[h]
      BY <1>2, <1>4, LogIs DEF LogRight
    <3>4. (entered \in Seq(Request) => LogRight)'
      BY LogIs, PTL
    <3>5. /\ Len(Log)' = Len(entered) + 1
          /\ \A h \in 1..Len(entered) : Log'[h] = Paths[h]
      BY <1>2, <1>3, <1>4, <1>6, <3>4 DEF LogRight
    <3>6. k \in 1..Len(Log)' /\ Log'[k] = Log[k]
      BY <1>4, <3>3, <3>5
    <3> QED
      BY <1>5, <3>1, <3>2, <3>6 DEF InPlace
  <2> QED
    BY <2>2, <2>3, <2>4, <2>5 DEF Thread
<1> QED
  BY <1>7, <1>8, <1>9, <1>10, <1>11 DEF ListInv


(***************************************************************************)
(* A step that only writes bytes.                                          *)
(***************************************************************************)
LEMMA ByteStep ==
  ASSUME ListInv,
         UNCHANGED <<pc, search, seek_cache, fd_cache_mtx, entered, wrapped>>,
         left' \subseteq left,
         Bytes', ~wrapped => Entered' /\ Blank' /\ Written'
  PROVE  ListInv'
<1>1. TypeOK /\ Writing
  BY DEF ListInv
<1>2. TypeOK'
  <2>1. DOMAIN file_map' = Cell
    BY DEF Bytes, Cell
  <2> QED
    BY <1>1, <2>1 DEF TypeOK, search
<1>3. Writing'
  BY <1>1 DEF Writing, Path, search
<1>4. ASSUME NEW v \in Worker PROVE Thread(v)'
  <2>1. Alike(v)
    BY DEF Alike, search
  <2>2. fd_cache_mtx # NoOne => asked'[fd_cache_mtx] = asked[fd_cache_mtx]
    BY DEF search
  <2> QED
    BY <2>1, <2>2, OthersStay DEF ListInv
<1> QED
  BY <1>2, <1>3, <1>4 DEF ListInv

(***************************************************************************)
(* As long as no byte below seek_cache changes, the paths entered remain.  *)
(***************************************************************************)
LEMMA PathsKept ==
  ASSUME ListInv, ~wrapped, \A c \in Cell : c < seek_cache => file_map'[c] = file_map[c]
  PROVE  \A h \in 1..Len(entered) :
           /\ \A j \in 1..Len(Paths[h]) : file_map'[Start[h - 1] + j - 1] = Paths[h][j]
           /\ file_map'[Start[h] - 1] = NUL
<1>1. TypeOK /\ Entered /\ Size \in Nat /\ Cell = 0..(2 * Size)
  BY ListAssumption DEF ListInv, Cell
<1>2. /\ Len(entered) \in Nat /\ StartRight /\ seek_cache \in 0..(Size - 1)
      /\ \A h \in 0..Len(entered) : Start[h] \in Nat /\ Start[h] <= seek_cache
  BY PlacesOf
<1> SUFFICES ASSUME NEW h \in 1..Len(entered)
             PROVE  /\ \A j \in 1..Len(Paths[h]) :
                         file_map'[Start[h - 1] + j - 1] = Paths[h][j]
                    /\ file_map'[Start[h] - 1] = NUL
  OBVIOUS
<1>3. /\ Start[h] = Start[h - 1] + Len(Paths[h]) + 1
      /\ Paths[h] = CachePath(entered[h]) /\ entered[h] \in Request
  BY <1>1, <1>2 DEF StartRight, TypeOK
<1>4. Len(Paths[h]) \in Nat
  BY <1>1, <1>3, PathFacts
<1>5. Start[h - 1] \in Nat /\ Start[h] \in Nat /\ Start[h] <= seek_cache
  BY <1>2
<1>6. ASSUME NEW j \in 1..Len(Paths[h])
      PROVE  Start[h - 1] + j - 1 \in Cell /\ Start[h - 1] + j - 1 < seek_cache
  BY <1>1, <1>2, <1>3, <1>4, <1>5
<1>7. Start[h] - 1 \in Cell /\ Start[h] - 1 < seek_cache
  BY <1>1, <1>2, <1>3, <1>4, <1>5
<1> QED
  BY <1>1, <1>6, <1>7 DEF Entered

(***************************************************************************)
(* One byte of a path, behind all paths entered.                           *)
(***************************************************************************)
LEMMA WriteInv ==
  ASSUME ListInv, NEW w \in Worker, Write(w)
  PROVE  ListInv'
<1> DEFINE p == Path(w)
<1>1. TypeOK /\ Writing /\ Bytes
  BY DEF ListInv
<1>2. PICK k \in left : /\ file_map' = [file_map EXCEPT ![seek_cache + k - 1] = p[k]]
                        /\ left' = left \ {k}
  BY DEF Write
<1>3. pc[w] = "write" /\ UNCHANGED <<pc, search, seek_cache, fd_cache_mtx, entered, wrapped>>
  BY DEF Write
<1>4. fd_cache_mtx = w /\ fd_cache_mtx # NoOne
  <2>1. (pc[w] = "write") = (fd_cache_mtx = w)
    BY <1>1 DEF Writing
  <2> QED
    BY <1>3, <2>1, ListAssumption
<1>5. /\ Len(p) \in 3..(Size - 1) /\ p = CachePath(asked[w]) /\ asked[w] \in Request
      /\ k \in 1..Len(p)
  BY <1>1, <1>4, WriterIs DEF Writing
<1>6. Size \in Nat /\ seek_cache \in 0..(Size - 1) /\ Cell = 0..(2 * Size)
  BY <1>1, ListAssumption DEF TypeOK, Cell
<1> DEFINE q == seek_cache + k - 1
<1>7. q \in Cell /\ q \in Nat /\ q >= seek_cache /\ q # 2 * Size /\ q - seek_cache + 1 = k
  BY <1>5, <1>6
<1>8. p[k] # NUL /\ Path(w)' = Path(w)
  BY <1>3, <1>5, PathFacts DEF Path, search
<1> HIDE DEF q, p
<1>9. /\ file_map'[q] = p[k]
      /\ \A c \in Cell : c # q => file_map'[c] = file_map[c]
      /\ file_map' = [c \in Cell |-> file_map'[c]]
  BY <1>1, <1>2, <1>7 DEF Bytes, q
<1>10. Bytes'
  <2>1. 2 * Size \in Cell
    BY <1>6
  <2> QED
    BY <1>1, <1>7, <1>9, <2>1 DEF Bytes, Cell
<1>11. ASSUME ~wrapped PROVE Entered' /\ Blank' /\ Written'
  <2>1. Paths' = Paths /\ Start' = Start
    BY <1>3, <1>4, PlacesStay DEF search
  <2>2. /\ Len(entered) \in Nat /\ StartRight
        /\ \A h \in 0..Len(entered) : Start[h] \in Nat /\ Start[h] <= seek_cache
    BY <1>11, PlacesOf
  <2>3. Entered /\ Blank /\ Written
    BY <1>11 DEF ListInv
  <2>4. \A c \in Cell : c < seek_cache => file_map'[c] = file_map[c]
    BY <1>6, <1>7, <1>9
  <2>5. Entered'
    <3>1. seek_cache' = Start'[Len(entered')]
      BY <1>3, <2>1, <2>3 DEF Entered
    <3>2. \A h \in 1..Len(entered) :
            /\ \A j \in 1..Len(Paths[h]) : file_map'[Start[h - 1] + j - 1] = Paths[h][j]
            /\ file_map'[Start[h] - 1] = NUL
      BY <1>11, <2>4, PathsKept
    <3> QED
      BY <1>3, <2>1, <3>1, <3>2 DEF Entered
  <2>6. Blank'
    <3> SUFFICES ASSUME NEW c \in Cell, c >= seek_cache, file_map'[c] # NUL
                 PROVE  /\ c - seek_cache + 1 \in 1..Len(p)
                        /\ file_map'[c] = p[c - seek_cache + 1]
      BY <1>3, <1>4, <1>8 DEF Blank, Cell, p
    <3>1. CASE c = q
      BY <1>5, <1>7, <1>9, <3>1
    <3>2. CASE c # q
      BY <1>4, <1>9, <2>3, <3>2 DEF Blank, p
    <3> QED
      BY <3>1, <3>2
  <2>7. Written'
    <3> SUFFICES ASSUME NEW j \in 1..Len(p) \ left', seek_cache + j - 1 < Size
                 PROVE  file_map'[seek_cache + j - 1] = p[j]
      BY <1>3, <1>4, <1>8 DEF Written, p
    <3>1. CASE j = k
      BY <1>9, <3>1 DEF q
    <3>2. CASE j # k
      <4>1. j \in 1..Len(p) \ left
        BY <1>2, <3>2
      <4>2. seek_cache + j - 1 \in Cell /\ seek_cache + j - 1 # q
        BY <1>5, <1>6, <3>2 DEF q
      <4>3. file_map[seek_cache + j - 1] = p[j]
        BY <1>4, <2>3, <4>1 DEF Written, p
      <4> QED
        BY <1>9, <4>2, <4>3
    <3> QED
      BY <3>1, <3>2
  <2> QED
    BY <2>5, <2>6, <2>7
<1> QED
  BY <1>2, <1>3, <1>10, <1>11, ByteStep

(***************************************************************************)
(* What was written behind the mapping is lost.                            *)
(***************************************************************************)
LEMMA BeyondInv ==
  ASSUME ListInv, Beyond
  PROVE  ListInv'
<1>1. file_map' = [c \in Cell |-> IF c < Size THEN file_map[c] ELSE NUL]
  BY DEF Beyond
<1>2. UNCHANGED <<pc, search, seek_cache, left, fd_cache_mtx, entered, wrapped>>
  BY DEF Beyond
<1>3. TypeOK /\ Bytes /\ Size \in Nat /\ Size > 0 /\ Cell = 0..(2 * Size)
  BY ListAssumption DEF ListInv, Cell
<1>4. /\ \A c \in Cell : file_map'[c] = NUL \/ file_map'[c] = file_map[c]
      /\ \A c \in Cell : c < Size => file_map'[c] = file_map[c]
  BY <1>1
<1>5. Bytes'
  BY <1>1, <1>3 DEF Bytes, Cell
<1>6. ASSUME ~wrapped PROVE Entered' /\ Blank' /\ Written'
  <2>1. fd_cache_mtx # NoOne => Path(fd_cache_mtx)' = Path(fd_cache_mtx)
    BY <1>2 DEF Path, search
  <2>2. Paths' = Paths /\ Start' = Start
    BY <1>2 DEF Paths, Start
  <2>3. /\ Len(entered) \in Nat /\ StartRight /\ seek_cache \in 0..(Size - 1)
        /\ \A h \in 0..Len(entered) : Start[h] \in Nat /\ Start[h] <= seek_cache
    BY <1>6, PlacesOf
  <2>4. Entered /\ Blank /\ Written
    BY <1>6 DEF ListInv
  <2>5. Entered'
    <3>1. seek_cache' = Start'[Len(entered')]
      BY <1>2, <2>2, <2>4 DEF Entered
    <3>2. \A c \in Cell : c < seek_cache => file_map'[c] = file_map[c]
      BY <1>3, <1>4, <2>3
    <3>3. \A h \in 1..Len(entered) :
            /\ \A j \in 1..Len(Paths[h]) : file_map'[Start[h - 1] + j - 1] = Paths[h][j]
            /\ file_map'[Start[h] - 1] = NUL
      BY <1>6, <3>2, PathsKept
    <3> QED
      BY <1>2, <2>2, <3>1, <3>3 DEF Entered
  <2>6. Blank'
    BY <1>2, <1>4, <2>1, <2>4 DEF Blank, Cell
  <2>7. Written'
    <3> SUFFICES ASSUME fd_cache_mtx # NoOne,
                        NEW j \in 1..Len(Path(fd_cache_mtx)) \ left, seek_cache + j - 1 < Size
                 PROVE  file_map'[seek_cache + j - 1] = Path(fd_cache_mtx)[j]
      BY <1>2, <2>1 DEF Written
    <3>1. Len(Path(fd_cache_mtx)) \in Nat
      BY <1>3, WriterIs
    <3>2. seek_cache + j - 1 \in Cell
      BY <1>3, <2>3, <3>1
    <3> QED
      BY <1>4, <2>4, <3>2 DEF Written
  <2> QED
    BY <2>5, <2>6, <2>7
<1> QED
  BY <1>2, <1>5, <1>6, ByteStep


(***************************************************************************)
(* The NUL behind a path, with which it is entered.                        *)
(***************************************************************************)
LEMMA WriteEndInv ==
  ASSUME ListInv, NEW w \in Worker, WriteEnd(w)
  PROVE  ListInv'
<1> DEFINE p == Path(w)
           L == Len(p)
           end == seek_cache + L
           n == Len(entered)
<1>1. TypeOK /\ Writing /\ Bytes /\ Thread(w) /\ NoOne \notin Worker
  BY ListAssumption DEF ListInv
<1>2. /\ pc[w] = "write" /\ left = {} /\ left' = {}
      /\ file_map' = [file_map EXCEPT ![end] = NUL]
      /\ seek_cache' = (end + 1) % Size
      /\ wrapped' = (wrapped \/ end + 1 >= Size)
      /\ entered' = Append(entered, asked[w])
      /\ fd_cache_mtx' = NoOne
      /\ pc' = [pc EXCEPT ![w] = "idle"] /\ Forget(w)
  BY DEF WriteEnd, Go
<1>3. fd_cache_mtx = w /\ fd_cache_mtx # NoOne
  <2>1. (pc[w] = "write") = (fd_cache_mtx = w)
    BY <1>1 DEF Writing
  <2> QED
    BY <1>1, <1>2, <2>1
<1>4. L \in 3..(Size - 1) /\ p = CachePath(asked[w]) /\ asked[w] \in Request
  BY <1>3, WriterIs
<1>5. Size \in Nat /\ Size > 0 /\ seek_cache \in 0..(Size - 1) /\ Cell = 0..(2 * Size)
      /\ entered \in Seq(Request) /\ n \in Nat
  BY <1>1, ListAssumption DEF TypeOK, Cell
<1> HIDE DEF L, p
<1>6. end \in Cell /\ end \in Nat /\ end >= seek_cache
  BY <1>4, <1>5
<1>7. entered' \in Seq(Request) /\ Len(entered') = n + 1
  BY <1>2, <1>4, <1>5
<1>8. \A v \in Worker \ {w} : Alike(v)
  BY <1>1, <1>2 DEF TypeOK, Alike, Forget
<1>9. pc'[w] = "idle" /\ len'[w] = 0 /\ i'[w] = 0 /\ ~known'[w] /\ ~late'[w]
  BY <1>1, <1>2 DEF TypeOK, Forget
<1>10. /\ file_map'[end] = NUL
       /\ \A c \in Cell : c # end => file_map'[c] = file_map[c]
       /\ file_map' = [c \in Cell |-> file_map'[c]]
  BY <1>1, <1>2, <1>6 DEF Bytes
<1>11. Bytes'
  <2>1. 2 * Size \in Cell
    BY <1>5
  <2> QED
    BY <1>1, <1>10, <2>1 DEF Bytes, Cell
<1>12. (end + 1) % Size \in 0..(Size - 1)
  BY <1>5, <1>6
<1>13. (wrapped \/ end + 1 >= Size) \in BOOLEAN
  BY <1>1 DEF TypeOK
<1>14. TypeOK'
  <2>1. DOMAIN file_map' = Cell
    BY <1>10
  <2>2. /\ asked' \in [Worker -> Request \cup {NoRequest}]
        /\ len' \in [Worker -> Nat] /\ i' \in [Worker -> Nat]
        /\ known' \in [Worker -> BOOLEAN] /\ late' \in [Worker -> BOOLEAN]
    BY <1>1, <1>2 DEF TypeOK, Forget
  <2>3. pc' \in [Worker -> {"idle", "search", "found", "missed", "write", "down"}]
    BY <1>1, <1>2 DEF TypeOK
  <2>4. seek_cache' \in 0..(Size - 1) /\ wrapped' \in BOOLEAN
    BY <1>2, <1>12, <1>13
  <2> QED
    BY <1>2, <1>7, <2>1, <2>2, <2>3, <2>4 DEF TypeOK
<1>15. Writing'
  <2>1. ASSUME NEW v \in Worker PROVE (pc'[v] = "write") = (fd_cache_mtx' = v)
    <3>1. fd_cache_mtx' # v
      BY <1>1, <1>2
    <3>2. pc'[v] # "write"
      <4>1. CASE v = w
        BY <1>9, <4>1
      <4>2. CASE v # w
        BY <1>1, <1>3, <1>8, <4>2 DEF Writing, Alike
      <4> QED
        BY <4>1, <4>2
    <3> QED
      BY <3>1, <3>2
  <2> QED
    BY <1>2, <2>1 DEF Writing
<1>16. /\ StartRight /\ StartRight'
       /\ \A k \in 0..n : Start'[k] = Start[k]
       /\ \A k \in 1..n : Paths'[k] = Paths[k]
       /\ Paths'[n + 1] = p
       /\ Start'[n + 1] = Start[n] + L + 1
  BY <1>2, <1>4, <1>5, PlacesKept DEF L
<1>17. ASSUME ~wrapped'
       PROVE  /\ ~wrapped /\ end + 1 < Size /\ seek_cache' = end + 1
              /\ Start[n] = seek_cache /\ Start'[n + 1] = end + 1
  <2>1. ~wrapped /\ ~(end + 1 >= Size)
    BY <1>2, <1>17
  <2>2. (end + 1) % Size = end + 1
    BY <1>5, <1>6, <2>1
  <2>3. Start[n] = seek_cache
    BY <2>1, PlacesOf
  <2>4. Start'[n + 1] = end + 1
    BY <1>4, <1>5, <1>16, <2>3
  <2> QED
    BY <1>2, <1>5, <1>6, <2>1, <2>2, <2>3, <2>4
<1>18. ASSUME ~wrapped' PROVE Entered' /\ Blank' /\ Written'
  <2>1. /\ ~wrapped /\ end + 1 < Size /\ seek_cache' = end + 1
        /\ Start[n] = seek_cache /\ Start'[n + 1] = end + 1
    BY <1>17, <1>18
  <2>2. Blank /\ Written
    BY <2>1 DEF ListInv
  <2>3. Entered'
    <3>1. seek_cache' = Start'[Len(entered')]
      BY <1>7, <2>1
    <3>2. \A c \in Cell : c < seek_cache => file_map'[c] = file_map[c]
      BY <1>5, <1>6, <1>10
    <3>3. \A h \in 1..n :
            /\ \A j \in 1..Len(Paths[h]) : file_map'[Start[h - 1] + j - 1] = Paths[h][j]
            /\ file_map'[Start[h] - 1] = NUL
      BY <2>1, <3>2, PathsKept
    <3>4. ASSUME NEW h \in 1..n
          PROVE  /\ \A j \in 1..Len(Paths'[h]) :
                      file_map'[Start'[h - 1] + j - 1] = Paths'[h][j]
                 /\ file_map'[Start'[h] - 1] = NUL
      <4>1. h \in 0..n /\ h - 1 \in 0..n
        BY <1>5
      <4> QED
        BY <1>16, <3>3, <4>1
    <3>5. /\ \A j \in 1..Len(Paths'[n + 1]) :
                file_map'[Start'[(n + 1) - 1] + j - 1] = Paths'[n + 1][j]
          /\ file_map'[Start'[n + 1] - 1] = NUL
      <4>1. Start'[(n + 1) - 1] = seek_cache
        BY <1>5, <1>16, <2>1
      <4>2. ASSUME NEW j \in 1..L PROVE file_map'[seek_cache + j - 1] = p[j]
        <5>1. seek_cache + j - 1 < Size /\ seek_cache + j - 1 \in Cell
              /\ seek_cache + j - 1 # end
          BY <1>4, <1>5, <2>1
        <5>2. file_map[seek_cache + j - 1] = p[j]
          BY <1>2, <1>3, <2>2, <5>1 DEF Written, p, L
        <5> QED
          BY <1>10, <5>1, <5>2
      <4>3. Start'[n + 1] - 1 = end
        BY <1>6, <2>1
      <4> QED
        BY <1>10, <1>16, <4>1, <4>2, <4>3 DEF L
    <3> HIDE DEF n
    <3>6. \A h \in 1..(n + 1) : h \in 1..n \/ h = n + 1
      BY <1>5
    <3> QED
      BY <1>7, <3>1, <3>4, <3>5, <3>6 DEF Entered
  <2>4. Blank'
    <3> SUFFICES ASSUME NEW c \in Cell, c >= seek_cache', file_map'[c] # NUL PROVE FALSE
      BY DEF Blank, Cell
    <3>1. c # end /\ c >= seek_cache /\ c - seek_cache + 1 \notin 1..L
      BY <1>4, <1>5, <1>6, <2>1
    <3>2. file_map[c] # NUL
      BY <1>10, <3>1
    <3> QED
      BY <1>3, <2>2, <3>1, <3>2 DEF Blank, L, p
  <2>5. Written'
    BY <1>2 DEF Written
  <2> QED
    BY <2>3, <2>4, <2>5
<1>19. ASSUME NEW v \in Worker PROVE Thread(v)'
  <2>1. CASE v = w
    BY <1>9, <2>1 DEF Thread, Searching, Sure, Right, Exact, Counted, Ahead
  <2>2. CASE v # w
    <3>1. Alike(v) /\ Thread(v) /\ Path(v)' = Path(v) /\ len[v] \in Nat /\ i[v] \in Nat
      BY <1>1, <1>8, <2>2 DEF ListInv, TypeOK, Alike, Path
    <3>2. Searching(v)'
      BY <3>1 DEF Thread, Searching, Alike
    <3>3. Sure(v)'
      BY <1>2, <3>1 DEF Thread, Sure, Alike
    <3>4. Right(v)'
      <4> SUFFICES ASSUME pc'[v] = "found", ~wrapped' PROVE InPlace(v)'
        BY DEF Right
      <4>1. InPlace(v)
        BY <1>17, <3>1 DEF Thread, Right, Alike
      <4>2. /\ Len(Log) = n + 1 /\ Log[n + 1] = p
            /\ \A k \in 1..n : Log[k] = Paths[k]
        BY <1>3, <1>5, LogIs DEF LogRight, p
      <4>3. (entered \in Seq(Request) => LogRight)'
        BY LogIs, PTL
      <4>4. Len(Log') = n + 1 /\ \A k \in 1..(n + 1) : Log'[k] = Paths'[k]
        BY <1>2, <1>5, <1>7, <4>3 DEF LogRight
      <4>5. \A k \in 1..(n + 1) : Log'[k] = Log[k]
        <5> HIDE DEF n
        <5> QED
          BY <1>5, <1>16, <4>2, <4>4
      <4> QED
        BY <3>1, <4>1, <4>2, <4>4, <4>5 DEF InPlace, Alike
    <3>5. ASSUME ~wrapped' PROVE Exact(v)'
      <4> SUFFICES ASSUME pc[v] = "search", ~late[v]
                   PROVE  i[v] <= n + 1 /\ len[v] = Start'[i[v]]
        BY <1>7, <3>1 DEF Exact, Alike
      <4>1. i[v] <= n /\ len[v] = Start[i[v]]
        BY <1>17, <3>1, <3>5 DEF Thread, Exact
      <4> QED
        BY <1>5, <1>16, <3>1, <4>1
    <3>6. ASSUME ~wrapped' PROVE Counted(v)'
      <4>1. Places = n + 1 /\ PlacesEnd = seek_cache + (L + 1)
        BY <1>3 DEF Places, PlacesEnd, L, p
      <4>2. Places' = n + 1 /\ PlacesEnd' = end + 1
        BY <1>2, <1>5, <1>6, <1>7, <1>17, <3>6 DEF Places, PlacesEnd
      <4>3. PlacesEnd = end + 1 /\ end + 1 \in Nat
        BY <1>4, <1>5, <4>1
      <4> SUFFICES ASSUME pc[v] = "search"
                   PROVE  /\ \A k \in 0..(n + 1) : len[v] >= Start'[k] => i[v] >= k
                          /\ len[v] >= end + 1 => i[v] >= (n + 1) + (len[v] - (end + 1))
        BY <1>7, <3>1, <4>2 DEF Counted, Alike
      <4>4. /\ \A k \in 0..n : len[v] >= Start[k] => i[v] >= k
            /\ len[v] >= end + 1 => i[v] >= (n + 1) + (len[v] - (end + 1))
        BY <1>17, <3>1, <3>6, <4>1, <4>3 DEF Thread, Counted
      <4>5. len[v] >= Start'[n + 1] => i[v] >= n + 1
        BY <1>5, <1>17, <3>1, <3>6, <4>3, <4>4
      <4> HIDE DEF n, end
      <4>6. \A k \in 0..(n + 1) : k \in 0..n \/ k = n + 1
        BY <1>5
      <4> QED
        BY <1>16, <4>4, <4>5, <4>6
    <3>7. ASSUME ~wrapped' PROVE Ahead(v)'
      <4> SUFFICES ASSUME pc[v] = "search", known[v]
                   PROVE  /\ ~late[v]
                          /\ \E k \in 1..(n + 1) : k > i[v] /\ Paths'[k] = Path(v)
        BY <1>7, <3>1 DEF Ahead, Alike
      <4>1. ~late[v] /\ \E k \in 1..n : k > i[v] /\ Paths[k] = Path(v)
        BY <1>17, <3>1, <3>7 DEF Thread, Ahead
      <4> QED
        BY <1>5, <1>16, <4>1
    <3> QED
      BY <3>2, <3>3, <3>4, <3>5, <3>6, <3>7 DEF Thread
  <2> QED
    BY <2>1, <2>2
<1> QED
  BY <1>11, <1>14, <1>15, <1>18, <1>19 DEF ListInv

(***************************************************************************)
(* Every step of a thread, and of whoever has the memory behind the        *)
(* mapping, keeps the invariant.                                           *)
(***************************************************************************)
LEMMA NextInv == ListInv /\ [Next]_vars => ListInv'
<1> SUFFICES ASSUME ListInv, [Next]_vars PROVE ListInv'
  OBVIOUS
<1>1. wrapped \in BOOLEAN
  BY DEF ListInv, TypeOK
<1>2. ASSUME NEW w \in Worker, Ask(w) PROVE ListInv'
  BY <1>2, AskInv
<1>3. ASSUME NEW w \in Worker, Find(w) PROVE ListInv'
  <2>1. CASE Compare(w)
    BY <2>1, CompareInv
  <2>2. CASE CompareBeyond(w)
    BY <1>1, <2>2, HaltInv DEF CompareBeyond
  <2>3. CASE CompareNone(w)
    BY <2>3, CompareNoneInv
  <2> QED
    BY <1>3, <2>1, <2>2, <2>3 DEF Find
<1>4. ASSUME NEW w \in Worker, Send(w) \/ NotPresent(w) PROVE ListInv'
  BY <1>4, ForgetInv
<1>5. ASSUME NEW w \in Worker, Lock(w) PROVE ListInv'
  BY <1>5, LockInv
<1>6. ASSUME NEW w \in Worker, Write(w) PROVE ListInv'
  BY <1>6, WriteInv
<1>7. ASSUME NEW w \in Worker, WriteBeyond(w) PROVE ListInv'
  BY <1>1, <1>7, HaltInv DEF WriteBeyond
<1>8. ASSUME NEW w \in Worker, WriteEnd(w) PROVE ListInv'
  BY <1>8, WriteEndInv
<1>9. ASSUME Beyond PROVE ListInv'
  BY <1>9, BeyondInv
<1>10. ASSUME UNCHANGED vars PROVE ListInv'
  <2>1. UNCHANGED <<pc, asked, len, i, known, late, seek_cache, left, fd_cache_mtx, entered, wrapped>>
        /\ UNCHANGED store /\ UNCHANGED file_map
    BY <1>10 DEF vars, search, store
  <2>2. TypeOK' /\ Writing'
    BY <2>1 DEF ListInv, TypeOK, Writing, Path
  <2>3. \A v \in Worker : Thread(v)'
    BY <2>1, OthersStay DEF ListInv, Alike
  <2>4. Bytes' /\ (~wrapped' => Entered' /\ Blank' /\ Written')
    BY <2>1, StoreStays
  <2> QED
    BY <2>2, <2>3, <2>4 DEF ListInv
<1> QED
  BY <1>2, <1>3, <1>4, <1>5, <1>6, <1>7, <1>8, <1>9, <1>10 DEF Next

(***************************************************************************)
(* The invariant holds of every run: of the bytes while paths are written  *)
(* and read with no mutex in common, and of what each search has counted.  *)
(***************************************************************************)
THEOREM ListInvariance == Spec => []ListInv
BY InitInv, NextInv, PTL DEF Spec

(***************************************************************************)
(* The variables have the types that find_file_in_cache and                *)
(* get_image_to_send give them, and seek_cache stays within the mapping.   *)
(***************************************************************************)
THEOREM TypeCorrect == Spec => []TypeOK
<1>1. ListInv => TypeOK
  BY DEF ListInv
<1> QED
  BY ListInvariance, <1>1, PTL

(***************************************************************************)
(* Until seek_cache comes round, and whenever nobody writes, the strings   *)
(* of the mapping are the paths entered, in the order of their entry.      *)
(***************************************************************************)
THEOREM ListIsRight == Spec => []ListIsLog
<1>1. ListInv => ListIsLog
  <2> SUFFICES ASSUME ListInv, ~wrapped, fd_cache_mtx = NoOne
               PROVE  /\ \A k \in 1..Len(entered) : StringAt(Start[k - 1]) = Paths[k]
                      /\ seek_cache = Start[Len(entered)]
    BY DEF ListIsLog
  <2>1. /\ Len(entered) \in Nat /\ StartRight
        /\ Start[Len(entered)] = seek_cache /\ seek_cache \in 0..(Size - 1)
        /\ \A k \in 0..Len(entered) : Start[k] \in Nat /\ Start[k] <= seek_cache
    BY PlacesOf
  <2>2. ASSUME NEW k \in 1..Len(entered) PROVE StringAt(Start[k - 1]) = Paths[k]
    <3> DEFINE p == Start[k - 1]
               e == Start[k] - 1
               path == Paths[k]
    <3>1. k \in 0..Len(entered) /\ k - 1 \in 0..Len(entered)
      BY <2>1
    <3>2. p \in Nat /\ Start[k] \in Nat /\ Start[k] <= seek_cache
      BY <2>1, <3>1
    <3>3. /\ path = CachePath(entered[k]) /\ entered[k] \in Request
          /\ Start[k] = p + Len(path) + 1
      BY <2>1 DEF StartRight, ListInv, TypeOK
    <3>4. path \in Seq(Symbol) /\ \A j \in 1..Len(path) : path[j] # NUL
      BY <3>3, PathFacts, PathShape
    <3>5. Len(path) \in Nat /\ path = [m \in 1..Len(path) |-> path[m]]
      BY <3>4
    <3>6. /\ \A j \in 1..Len(path) : file_map[p + j - 1] = path[j]
          /\ file_map[e] = NUL
      BY DEF ListInv, Entered
    <3> HIDE DEF p, path
    <3>7. e \in Nat /\ e = p + Len(path) /\ e - p = Len(path)
      BY <3>2, <3>3, <3>5
    <3>8. e \in Cell
      <4>1. seek_cache \in Nat /\ seek_cache < Size /\ Size \in Nat
        BY <2>1, ListAssumption
      <4>2. e < Size
        BY <3>2, <4>1
      <4> HIDE DEF e
      <4> QED
        BY <3>7, <4>1, <4>2 DEF Cell
    <3> HIDE DEF e
    <3>9. ASSUME NEW q \in p..(e - 1) PROVE file_map[q] # NUL
      <4>1. q - p + 1 \in 1..Len(path) /\ p + (q - p + 1) - 1 = q
        BY <3>2, <3>5, <3>7
      <4>2. file_map[p + (q - p + 1) - 1] = path[q - p + 1]
        BY <3>6, <4>1
      <4> QED
        BY <3>4, <4>1, <4>2
    <3>10. EndsAt(p, e)
      BY <3>2, <3>5, <3>6, <3>7, <3>8, <3>9 DEF EndsAt
    <3>11. StringAt(p) = [m \in 1..(e - p) |-> file_map[p + m - 1]]
      BY <3>2, <3>10, StringIs
    <3>12. StringAt(p) = [m \in 1..Len(path) |-> path[m]]
      BY <3>6, <3>7, <3>11
    <3> QED
      BY <3>5, <3>12 DEF p, path
  <2> QED
    BY <2>1, <2>2
<1> QED
  BY ListInvariance, <1>1, PTL

(***************************************************************************)
(* The place that find_file_in_cache returns is that of a path that begins *)
(* with the one it was asked for, although it reads with no mutex; one     *)
(* that had gone beyond the end of the list returns a later place, never   *)
(* an earlier.                                                             *)
(***************************************************************************)
THEOREM PlaceIsRight == Spec => []HitIsRight
<1>1. ListInv => HitIsRight
  BY DEF ListInv, Thread, Right, InPlace, HitIsRight
<1> QED
  BY ListInvariance, <1>1, PTL

(***************************************************************************)
(* A path that was in the list when the search began is found: no thread   *)
(* converts again an image it could have seen there.                       *)
(***************************************************************************)
THEOREM KnownFound == Spec => []KnownIsFound
<1>1. ListInv => KnownIsFound
  BY DEF ListInv, Thread, Sure, KnownIsFound
<1> QED
  BY ListInvariance, <1>1, PTL

(***************************************************************************)
(* What is found under a path is the image asked for, with an extension    *)
(* that begins with the one asked for; the digits of its quality and of    *)
(* its display are those asked for, all together, which is all that        *)
(* build_image_name_cache keeps of them, and one by one where the          *)
(* qualities have as many digits.                                          *)
(***************************************************************************)
THEOREM DisplayIsSame == Spec => []SameDisplay
<1>1. ListInv => SameDisplay
  <2> SUFFICES ASSUME ListInv, NEW w \in Worker,
                      pc[w] = "found", ~wrapped, ~late[w], i[w] < Len(entered)
               PROVE  LET r == asked[w]
                          s == entered[i[w] + 1]
                      IN /\ r.name = s.name
                         /\ Begins(r.ext, s.ext)
                         /\ Figures(r) = Figures(s)
                         /\ Len(Quality(r.q)) = Len(Quality(s.q)) =>
                              /\ Quality(r.q) = Quality(s.q)
                              /\ Numbers(r) = Numbers(s)
    BY DEF SameDisplay
  <2>1. /\ asked[w] \in Request /\ InPlace(w)
        /\ i[w] \in Nat /\ entered \in Seq(Request)
    BY DEF ListInv, Thread, Searching, Right, TypeOK
  <2>2. /\ Len(entered) \in Nat
        /\ \A k \in 1..Len(entered) : Log[k] = Paths[k]
    BY <2>1, LogIs DEF LogRight
  <2>3. i[w] + 1 \in 1..Len(entered) /\ entered[i[w] + 1] \in Request
    BY <2>1, <2>2
  <2>4. Begins(Path(w), Log[i[w] + 1])
    BY <2>1 DEF InPlace
  <2>5. Begins(CachePath(asked[w]), CachePath(entered[i[w] + 1]))
    <3>1. Paths[i[w] + 1] = CachePath(entered[i[w] + 1])
      BY <2>3 DEF Paths
    <3> QED
      BY <2>2, <2>3, <2>4, <3>1 DEF Path
  <2> QED
    BY <2>1, <2>3, <2>5, PathTells, QualityTells
<1> QED
  BY ListInvariance, <1>1, PTL

=============================================================================

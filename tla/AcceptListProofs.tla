-------------------------- MODULE AcceptListProofs --------------------------
(***************************************************************************)
(* Proofs about AcceptList, for any number of threads, any lines and a     *)
(* list of any size.  Three things are said, one on the other.  Of all     *)
(* threads, whatever they do to each other: a pointer is into a text that  *)
(* has been made, and not behind its end.  Of a thread from which nothing  *)
(* was taken (crossed): how far it is with its line, and then with each    *)
(* type.  And of a thread whose line begins with a type that the server    *)
(* knows: that no call of strtok(), by whoever it is, writes upon the name *)
(* of a type.                                                              *)
(***************************************************************************)
EXTENDS AcceptList, FiniteSetTheorems, SequenceTheorems, WellFoundedInduction, TLAPS

-----------------------------------------------------------------------------
(* All threads.                                                            *)

Ended(t) == t \in Seq(STRING) /\ t # <<>> /\ t[Len(t)] = NUL

\* A text that is allocated has a NUL at its end.
Texts ==
  /\ heap = [b \in Buffer |-> heap[b]]
  /\ \A b \in Buffer : heap[b] = <<>> \/ Ended(heap[b])

\* A pointer is into a text that has been made, and not behind its end.
Made(p) ==
  /\ p \in Pointer
  /\ pc[p.buf[1]] # "idle"
  /\ p.buf[2] <= dim[p.buf[1]]
  /\ ~Freed(p) => p.pos \in 1..Len(heap[p.buf])

Pointers ==
  /\ olds # Null => Made(olds)
  /\ \A w \in Worker :
       /\ at[w] # Null => Made(at[w])
       /\ token1[w] # Null => Made(token1[w])
       /\ token2[w] # Null => Made(token2[w])

\* The texts of a thread are there until it is done.
Allocated ==
  \A w \in Worker : pc[w] \notin {"idle", "done"} =>
    \A n \in 0..dim[w] : heap[<<w, n>>] # <<>>

Splits == {"split", "take"}
Cuts == {"second", "param", "enter"}
Entries == {"first"} \cup Cuts

\* The text a thread is at, of its n-th type, from p on.
In(w, n, p) == [buf |-> <<w, n>>, pos |-> p]

\* Where a thread is with its list.
StepOf(w) ==
  /\ pc[w] = "idle" => dim[w] = 0 /\ list[w] = <<>> /\ ~crossed[w] /\ at[w] = Null
  /\ pc[w] # "idle" => line[w] \in Line[w] /\ at[w] # Null
  /\ pc[w] \notin {"idle", "split"} => olds # Null
  /\ pc[w] \in Splits => list[w] = <<>>
  /\ pc[w] \in Entries => Len(list[w]) < dim[w]
  /\ pc[w] = "first" => at[w] = In(w, Len(list[w]) + 1, 1)
  /\ pc[w] \in Cuts /\ token1[w] # Null => token1[w].buf = <<w, Len(list[w]) + 1>>
  /\ pc[w] = "done" => Len(list[w]) = dim[w] /\ dim[w] # 0

Steps == \A w \in Worker : StepOf(w)

\* The list is given no entry that it has no room for.
Room == fault = "none" => \A w \in Worker : dim[w] < preallocation

Basic == TypeOK /\ Texts /\ Pointers /\ Allocated /\ Steps /\ Room

-----------------------------------------------------------------------------
(* A thread that goes on in its own texts only.                            *)

\* The types kept that end before p.
Behind(l, p) == {r \in Kept(l) : r[2] < p}

\* The string at a place of a text.
StringFrom(t, p) == SubSeq(t, p, FirstIn(t, p, {NUL}) - 1)

\* The copy of a type.
Copy(l, r) == Append(SubSeq(l, r[1], r[2]), NUL)

\* A type that has been copied, and one of which an entry has been made.
Waiting(w, n) ==
  \E r \in Kept(line[w]) : Place(line[w], r) = n /\ heap[<<w, n>>] = Copy(line[w], r)

EntryOf(l, r) ==
  LET name == Name(l, r)
      quality == Quality(l, r)
  IN [extension |-> ReadFormat(name, quality), q |-> ReadQuality(name, quality)]

Done(w, n) ==
  \E r \in Kept(line[w]) : Place(line[w], r) = n /\ list[w][n] = EntryOf(line[w], r)

\* A place in a line where a type can begin, from which on it is untouched.
FromHere(w, p) ==
  LET l == line[w]
  IN /\ p \in 1..Len(l)
     /\ p = 1 \/ l[p - 1] = Comma \/ p = Len(l)
     /\ Len(heap[<<w, 0>>]) = Len(l)
     /\ \A k \in p..Len(l) : heap[<<w, 0>>][k] = l[k]

\* The types that have been copied.
Copied(w, p) ==
  /\ dim[w] = Cardinality(Behind(line[w], p))
  /\ \A n \in 1..dim[w] : Waiting(w, n)

\* The token of the line that was cut out is the next of its types.
Taken(w, p) ==
  LET l == line[w]
  IN IF token1[w] = Null THEN Behind(l, p) = Kept(l) /\ Copied(w, p)
     ELSE \E r \in Types(l) :
            /\ token1[w] = In(w, 0, r[1])
            /\ StringFrom(heap[<<w, 0>>], r[1]) = SubSeq(l, r[1], r[2])
            /\ Behind(l, p) = Behind(l, r[1]) \cup ({r} \cap Kept(l))
            /\ r \in Kept(l) => r \notin Behind(l, r[1]) /\ Place(l, r) = Cardinality(Behind(l, p))
            /\ Copied(w, r[1])

Splitting(w) ==
  pc[w] = "split" => \E p \in Nat : at[w] = In(w, 0, p) /\ FromHere(w, p) /\ Copied(w, p)

Taking(w) ==
  pc[w] = "take" => \E p \in Nat : olds = In(w, 0, p) /\ FromHere(w, p) /\ Taken(w, p)

\* In the copy of a type, the place of the k-th symbol of the line.
Here(r, k) == k - r[1] + 1

\* The name p is cut off in the text t at b, and stands before q.
NameCut(l, r, p, b, t, q) ==
  LET f == First(Parts(l, r))
  IN IF Parts(l, r) = {} THEN p = Null
     ELSE /\ p = [buf |-> b, pos |-> Here(r, f)]
          /\ Here(r, f) < q
          /\ t[Here(r, f)] = Name(l, r)
          /\ t[Here(r, f) + 1] = NUL

\* From q on the text is that of the copy, and has all parts but the name.
RestFrom(l, r, t, q) ==
  /\ q \in 1..Len(Copy(l, r))
  /\ Len(t) = Len(Copy(l, r))
  /\ \A k \in q..Len(Copy(l, r)) : t[k] = Copy(l, r)[k]
  /\ \A k \in Parts(l, r) : Here(r, k) >= q <=> k # First(Parts(l, r))

\* The quality p is cut off.
QualityCut(l, r, p, b, t) ==
  IF Quality(l, r) = NUL THEN p = Null
  ELSE p # Null /\ p.buf = b /\ StringFrom(t, p.pos) = <<Quality(l, r)>>

Cutting(w) ==
  pc[w] \in Cuts =>
    LET l == line[w]
        n == Len(list[w]) + 1
        t == heap[<<w, n>>]
    IN \E r \in Kept(l) :
         /\ Place(l, r) = n
         /\ pc[w] # "enter" =>
              \E q \in Nat :
                /\ In(w, n, q) = IF pc[w] = "second" THEN olds ELSE at[w]
                /\ NameCut(l, r, token1[w], <<w, n>>, t, q) /\ RestFrom(l, r, t, q)
         /\ pc[w] = "enter" =>
              /\ \E q \in Nat : NameCut(l, r, token1[w], <<w, n>>, t, q)
              /\ Parts(l, r) # {} => QualityCut(l, r, token2[w], <<w, n>>, t)

\* The entries made, and the types still to be looked at.
Listing(w) ==
  pc[w] \in Entries \cup {"done"} =>
    /\ dim[w] = Cardinality(Kept(line[w]))
    /\ \A n \in 1..Len(list[w]) : Done(w, n)
    /\ \A n \in (Len(list[w]) + 1)..dim[w] :
         n # Len(list[w]) + 1 \/ pc[w] = "first" => Waiting(w, n)

AloneOf(w) == ~crossed[w] => Splitting(w) /\ Taking(w) /\ Cutting(w) /\ Listing(w)

Alone == \A w \in Worker : AloneOf(w)

-----------------------------------------------------------------------------
(* A thread whose line begins with a type that is known, and kept.         *)

Known(w) ==
  /\ pc[w] # "idle"
  /\ line[w][1] \in Jpg \cup {"image/png", "*/*"}
  /\ \E r \in Kept(line[w]) : r[1] = 1

\* Nothing has been written into the line but at the end of tokens.
Held(t, l) ==
  /\ Len(t) = Len(l)
  /\ \A k \in 1..Len(l) : t[k] = l[k] \/ t[k] = NUL
  /\ t[1] = l[1]

\* A token has been cut off in the line's first type, or at its end.
FirstCut(t, l) == \E n \in 2..Len(l) : t[n] = NUL /\ \A k \in 1..(n - 1) : l[k] # Comma

\* A text begins with a name.
Begins(t, name) == Len(t) >= 2 /\ t[1] = name /\ (t[2] = Semicolon \/ t[2] = NUL)

\* The first token is the first type, or some of it.
FirstToken(w) ==
  dim[w] = 0 =>
    \/ pc[w] = "split" /\ at[w] = In(w, 0, 1)
    \/ pc[w] = "take" /\ token1[w] = In(w, 0, 1) /\ FirstCut(heap[<<w, 0>>], line[w])

\* The first type begins with its name, and is looked at first.
FirstType(w) ==
  dim[w] # 0 /\ list[w] = <<>> =>
    /\ Begins(heap[<<w, 1>>], line[w][1])
    /\ pc[w] \in Cuts => token1[w] = In(w, 1, 1) /\ heap[<<w, 1>>][2] = NUL

FirstEntry(w) ==
  list[w] # <<>> => list[w][1].extension = ReadFormat(line[w][1], NUL)

FirstOf(w) ==
  Known(w) =>
    /\ pc[w] # "done" => Held(heap[<<w, 0>>], line[w]) /\ FirstToken(w) /\ FirstType(w)
    /\ FirstEntry(w)

FirstHeld == \A w \in Worker : FirstOf(w)

AcceptInv == Basic /\ Alone /\ FirstHeld /\ AcceptFaults

-----------------------------------------------------------------------------
(* The operators of the model.                                             *)

(***************************************************************************)
(* A set of numbers that is not empty has a least number.                  *)
(***************************************************************************)
LEMMA LeastNumber ==
  ASSUME NEW T \in SUBSET Nat, T # {}
  PROVE  \E n \in T : \A m \in T : n <= m
<1> DEFINE R == {ss \in Nat \X Nat : ss[1] < ss[2]}
<1>1. IsWellFoundedOn(R, Nat)
  BY NatLessThanWellFounded DEF OpToRel
<1> HIDE DEF R
<1>2. PICK n \in T : \A m \in T : ~(<<m, n>> \in R)
  BY <1>1, WFMin
<1>3. \A m \in T : ~(m < n)
  BY <1>2 DEF R
<1> QED
  BY <1>3

(***************************************************************************)
(* FirstIn finds the first of the symbols, if there is one.                *)
(***************************************************************************)
LEMMA FirstInIs ==
  ASSUME NEW text \in Seq(STRING), NEW p \in Nat, p # 0, NEW S,
         NEW n \in p..Len(text), text[n] \in S
  PROVE  LET e == FirstIn(text, p, S)
         IN /\ e \in p..n
            /\ text[e] \in S
            /\ \A k \in p..(e - 1) : text[k] \notin S
<1> DEFINE T == {k \in p..Len(text) : text[k] \in S}
           Is(e) == text[e] \in S /\ \A k \in p..(e - 1) : text[k] \notin S
<1>1. PICK e \in T : \A m \in T : e <= m
  <2>1. T \in SUBSET Nat /\ n \in T
    OBVIOUS
  <2> HIDE DEF T
  <2> QED
    BY <2>1, LeastNumber
<1>2. e \in p..Len(text) /\ Is(e)
  BY <1>1
<1>3. FirstIn(text, p, S) \in p..Len(text) /\ Is(FirstIn(text, p, S))
  BY <1>2 DEF FirstIn
<1> QED
  BY <1>3

(***************************************************************************)
(* It is the only place of which this is true.                             *)
(***************************************************************************)
LEMMA FirstInOnly ==
  ASSUME NEW text \in Seq(STRING), NEW p \in Nat, p # 0, NEW S,
         NEW e \in p..Len(text), text[e] \in S,
         \A k \in p..(e - 1) : text[k] \notin S
  PROVE  FirstIn(text, p, S) = e
<1> DEFINE f == FirstIn(text, p, S)
<1>1. f \in p..e /\ text[f] \in S
  BY FirstInIs
<1> QED
  BY <1>1

(***************************************************************************)
(* A text with a NUL at its end has a length.                              *)
(***************************************************************************)
LEMMA EndedIs ==
  ASSUME NEW t, Ended(t)
  PROVE  t \in Seq(STRING) /\ t # <<>> /\ Len(t) \in Nat /\ Len(t) # 0 /\ t[Len(t)] = NUL
BY DEF Ended

\* A token of a text from s to e, looked for from p on.
IsToken(t, p, sep, s, e) ==
  /\ s \in p..Len(t) /\ e \in s..Len(t)
  /\ \A k \in p..(s - 1) : t[k] = sep
  /\ t[s] # sep
  /\ t[e] \in {sep, NUL}
  /\ \A k \in s..(e - 1) : t[k] # sep /\ t[k] # NUL
  /\ t[s] # NUL => s < e

(***************************************************************************)
(* What strtok() looks for is there, in a text that has a NUL at its end.  *)
(***************************************************************************)
LEMMA TokenIs ==
  ASSUME NEW t, Ended(t), NEW p \in 1..Len(t), NEW sep, sep # NUL
  PROVE  LET s == FirstIn(t, p, Symbols(t) \ {sep})
             e == FirstIn(t, s, {sep, NUL})
         IN s \in Nat /\ e \in Nat /\ IsToken(t, p, sep, s, e)
<1> DEFINE S == Symbols(t) \ {sep}
           s == FirstIn(t, p, S)
           e == FirstIn(t, s, {sep, NUL})
<1>1. t \in Seq(STRING) /\ Len(t) \in Nat /\ Len(t) # 0 /\ t[Len(t)] = NUL
  BY EndedIs
<1>2. p \in Nat /\ p # 0 /\ Len(t) \in p..Len(t)
  BY <1>1
<1>3. t[Len(t)] \in S /\ \A k \in 1..Len(t) : t[k] \in S <=> t[k] # sep
  BY <1>1 DEF Symbols
<1> HIDE DEF S
<1>4. s \in p..Len(t) /\ t[s] \in S /\ \A k \in p..(s - 1) : t[k] \notin S
  BY <1>1, <1>2, <1>3, FirstInIs
<1> HIDE DEF s
<1>5. s \in Nat /\ s # 0 /\ Len(t) \in s..Len(t) /\ t[Len(t)] \in {sep, NUL}
  BY <1>1, <1>2, <1>4
<1>6. e \in s..Len(t) /\ t[e] \in {sep, NUL} /\ \A k \in s..(e - 1) : t[k] \notin {sep, NUL}
  BY <1>1, <1>5, FirstInIs
<1> HIDE DEF e
<1>7. t[s] # NUL => s < e
  BY <1>1, <1>2, <1>3, <1>4, <1>6
<1>8. \A k \in p..(s - 1) : t[k] = sep
  BY <1>1, <1>2, <1>3, <1>4
<1>9. t[s] # sep
  BY <1>1, <1>2, <1>3, <1>4
<1>10. s \in Nat /\ e \in Nat /\ IsToken(t, p, sep, s, e)
  BY <1>1, <1>2, <1>4, <1>5, <1>6, <1>7, <1>8, <1>9 DEF IsToken
<1> QED
  BY <1>10 DEF s, e, S

\* What is written at the end of the token.
Ending(t, e) == [t EXCEPT ![e] = NUL]

\* It is as long, and else the same.
LEMMA EndingIs ==
  ASSUME NEW S, NUL \in S, NEW t \in Seq(S), NEW e \in 1..Len(t)
  PROVE  /\ Ending(t, e) \in Seq(S) /\ Len(Ending(t, e)) = Len(t)
         /\ \A k \in 1..Len(t) : Ending(t, e)[k] = IF k = e THEN NUL ELSE t[k]
BY ExceptSeq DEF Ending

\* A call of strtok() that finds its token from s to e.
CutAt(w, sep, s, e) ==
  LET b == at[w].buf
      t == heap[b]
  IN /\ IsToken(t, at[w].pos, sep, s, e)
     /\ Token(w, sep) = IF t[s] = NUL THEN Null ELSE [buf |-> b, pos |-> s]
     /\ olds' = [buf |-> b, pos |-> IF t[e] = NUL THEN e ELSE e + 1]
     /\ heap' = [heap EXCEPT ![b] = Ending(t, e)]
     /\ Crosses(w)

(***************************************************************************)
(* Each call finds one.                                                    *)
(***************************************************************************)
LEMMA CutIs ==
  ASSUME TypeOK, Texts, Pointers, NEW w \in Worker, NEW sep, sep # NUL,
         at[w] # Null, ~Freed(at[w]), Cut(w, sep)
  PROVE  \E s, e \in Nat : CutAt(w, sep, s, e)
<1> DEFINE b == at[w].buf
           p == at[w].pos
           t == heap[b]
           s == Start(w, sep)
           e == End(w, sep)
<1>1. at[w] \in Pointer /\ b \in Buffer /\ at[w] = [buf |-> b, pos |-> p]
  BY DEF TypeOK, Pointer
<1>2. Ended(t) /\ p \in 1..Len(t)
  BY <1>1 DEF Texts, Freed, Pointers, Made
<1>3. /\ s = FirstIn(t, p, Symbols(t) \ {sep})
      /\ e = FirstIn(t, s, {sep, NUL})
  BY DEF Start, End
<1>4. s \in Nat /\ e \in Nat /\ IsToken(t, p, sep, s, e)
  <2> HIDE DEF t, p, s, e
  <2> QED
    BY <1>2, <1>3, TokenIs
<1>5. Token(w, sep) = IF t[s] = NUL THEN Null ELSE [buf |-> b, pos |-> s]
  <2>1. Token(w, sep) = IF t[s] = NUL THEN Null ELSE [at[w] EXCEPT !.pos = s]
    BY DEF Token
  <2> HIDE DEF s
  <2> QED
    BY <1>1, <2>1
<1>6. /\ olds' = [buf |-> b, pos |-> IF t[e] = NUL THEN e ELSE e + 1]
      /\ heap' = [heap EXCEPT ![b] = Ending(t, e)]
      /\ Crosses(w)
  <2>1. /\ olds' = [at[w] EXCEPT !.pos = IF t[e] = NUL THEN e ELSE e + 1]
        /\ heap' = [heap EXCEPT ![b][e] = NUL]
        /\ Crosses(w)
    BY DEF Cut
  <2> HIDE DEF e
  <2>2. heap' = [heap EXCEPT ![b] = Ending(t, e)]
    BY <2>1 DEF Ending
  <2> QED
    BY <1>1, <2>1, <2>2
<1>7. CutAt(w, sep, s, e)
  <2> HIDE DEF s, e
  <2> QED
    BY <1>4, <1>5, <1>6 DEF CutAt
<1> QED
  BY <1>4, <1>7

-----------------------------------------------------------------------------
(* Lines and their types.                                                  *)

(***************************************************************************)
(* A line has one NUL, at its end, and what is no separator is followed by *)
(* one.                                                                    *)
(***************************************************************************)
LEMMA LineIs ==
  ASSUME NEW l, IsText(l)
  PROVE  /\ Ended(l)
         /\ \A k \in 1..Len(l) : l[k] = NUL => k = Len(l)
         /\ \A k \in 1..Len(l) : l[k] \notin Separator => k + 1 \in 1..Len(l) /\ l[k + 1] \in Separator
<1>1. l \in Seq(STRING) /\ l # <<>> /\ Len(l) \in Nat /\ Len(l) # 0
  BY DEF IsText
<1>2. \A k \in 1..Len(l) : l[k] = NUL <=> k = Len(l)
  BY DEF IsText
<1>3. NUL \in Separator
  BY DEF Separator
<1>4. ASSUME NEW k \in 1..Len(l), l[k] \notin Separator
      PROVE  k + 1 \in 1..Len(l) /\ l[k + 1] \in Separator
  <2>1. k \in 1..(Len(l) - 1)
    BY <1>1, <1>2, <1>3, <1>4
  <2> QED
    BY <1>1, <1>4, <2>1 DEF IsText
<1> QED
  BY <1>1, <1>2, <1>4 DEF Ended

(***************************************************************************)
(* Where a type of a line is.                                              *)
(***************************************************************************)
LEMMA TypeIs ==
  ASSUME NEW l, IsText(l), NEW r \in Types(l)
  PROVE  /\ r = <<r[1], r[2]>>
         /\ r[1] \in 1..Len(l) /\ r[2] \in r[1]..(Len(l) - 1)
         /\ \A k \in r[1]..r[2] : l[k] # Comma /\ l[k] # NUL
         /\ r[1] = 1 \/ l[r[1] - 1] = Comma
         /\ l[r[2] + 1] = Comma \/ l[r[2] + 1] = NUL
<1>1. Ended(l)
  BY LineIs
<1>2. Len(l) \in Nat /\ l[Len(l)] = NUL
  BY <1>1, EndedIs
<1>3. /\ r \in (1..Len(l)) \X (1..Len(l))
      /\ r[1] <= r[2]
      /\ \A k \in r[1]..r[2] : l[k] # Comma /\ l[k] # NUL
      /\ r[1] = 1 \/ l[r[1] - 1] = Comma
      /\ l[r[2] + 1] = Comma \/ l[r[2] + 1] = NUL
  BY DEF Types
<1>4. r[2] \in r[1]..r[2] /\ r[2] # Len(l)
  BY <1>2, <1>3
<1> QED
  BY <1>2, <1>3, <1>4

(***************************************************************************)
(* No type ends in a row of commas.                                        *)
(***************************************************************************)
LEMMA NoTypeInCommas ==
  ASSUME NEW l, IsText(l), NEW p \in Nat, NEW s \in Nat, p <= s,
         \A k \in p..(s - 1) : l[k] = Comma
  PROVE  Behind(l, s) = Behind(l, p)
<1>1. ASSUME NEW r \in Kept(l)
      PROVE  r[2] < s <=> r[2] < p
  <2>1. r \in Types(l)
    BY DEF Kept
  <2>2. r[2] \in Nat /\ r[1] \in Nat /\ r[2] \in r[1]..r[2] /\ l[r[2]] # Comma
    <3>1. /\ r[1] \in 1..Len(l) /\ r[2] \in r[1]..(Len(l) - 1)
          /\ \A k \in r[1]..r[2] : l[k] # Comma /\ l[k] # NUL
      BY <2>1, TypeIs
    <3>2. Len(l) \in Nat
      BY LineIs, EndedIs
    <3> QED
      BY <3>1, <3>2
  <2> QED
    BY <2>2
<1> QED
  BY <1>1 DEF Behind

(***************************************************************************)
(* What stands between two commas is a type; no other begins or ends in    *)
(* it.                                                                     *)
(***************************************************************************)
LEMMA TokenIsType ==
  ASSUME NEW l, IsText(l), NEW s \in 1..Len(l), NEW e \in 1..Len(l), s < e,
         \A k \in s..(e - 1) : l[k] # Comma /\ l[k] # NUL,
         s = 1 \/ l[s - 1] = Comma,
         l[e] = Comma \/ l[e] = NUL
  PROVE  /\ <<s, e - 1>> \in Types(l)
         /\ \A r \in Types(l) :
              /\ r[1] <= s => r = <<s, e - 1>> \/ r[2] < s
              /\ r[2] <= e => r = <<s, e - 1>> \/ (r[2] < s /\ r[1] <= s)
<1>1. Len(l) \in Nat
  BY LineIs, EndedIs
<1>2. <<s, e - 1>> \in Types(l)
  BY <1>1 DEF Types
<1>3. ASSUME NEW r \in Types(l)
      PROVE  /\ r[1] <= s => r = <<s, e - 1>> \/ r[2] < s
             /\ r[2] <= e => r = <<s, e - 1>> \/ (r[2] < s /\ r[1] <= s)
  <2> DEFINE a == r[1]
             z == r[2]
  <2>1. /\ r = <<a, z>>
        /\ a \in 1..Len(l) /\ z \in a..(Len(l) - 1)
        /\ \A k \in a..z : l[k] # Comma /\ l[k] # NUL
        /\ a = 1 \/ l[a - 1] = Comma
        /\ l[z + 1] = Comma \/ l[z + 1] = NUL
    BY TypeIs
  <2> HIDE DEF a, z
  <2>2. a \in Nat /\ z \in Nat /\ a <= z
    BY <1>1, <2>1
  <2>3. ASSUME a <= s, s <= z
        PROVE  a = s /\ z = e - 1
    <3>1. a = s
      BY <1>1, <2>1, <2>2, <2>3
    <3>2. z <= e - 1
      BY <1>1, <2>1, <2>2, <2>3
    <3>3. ~(z < e - 1)
      <4>1. SUFFICES ASSUME z < e - 1 PROVE FALSE
        OBVIOUS
      <4>2. z + 1 \in s..(e - 1)
        BY <1>1, <2>2, <2>3, <4>1
      <4> QED
        BY <2>1, <4>2
    <3> QED
      BY <1>1, <2>2, <3>1, <3>2, <3>3
  <2>4. z <= e /\ s <= z => a <= s
    <3>1. SUFFICES ASSUME z <= e, s <= z, s < a PROVE FALSE
      BY <2>2
    <3>2. a - 1 \in s..(e - 1) /\ a # 1
      BY <1>1, <2>2, <3>1
    <3> QED
      BY <2>1, <3>2
  <2>5. z < s => a <= s
    BY <2>2
  <2> QED
    BY <1>1, <2>1, <2>2, <2>3, <2>4, <2>5 DEF a, z
<1> QED
  BY <1>2, <1>3

(***************************************************************************)
(* The types kept are finitely many, and so are some of them.              *)
(***************************************************************************)
LEMMA KeptFinite ==
  ASSUME NEW l, IsText(l)
  PROVE  /\ IsFiniteSet(Kept(l))
         /\ Cardinality(Kept(l)) \in Nat
         /\ \A S \in SUBSET Kept(l) :
              /\ IsFiniteSet(S)
              /\ Cardinality(S) \in Nat
              /\ Cardinality(S) <= Cardinality(Kept(l))
              /\ Cardinality(S) = Cardinality(Kept(l)) <=> S = Kept(l)
<1>1. Len(l) \in Nat
  BY LineIs, EndedIs
<1>2. IsFiniteSet(1..Len(l))
  BY <1>1, FS_Interval
<1>3. IsFiniteSet((1..Len(l)) \X (1..Len(l)))
  BY <1>2, FS_Product
<1>4. Kept(l) \in SUBSET ((1..Len(l)) \X (1..Len(l)))
  BY DEF Kept, Types
<1>5. IsFiniteSet(Kept(l))
  BY <1>3, <1>4, FS_Subset
<1>6. Cardinality(Kept(l)) \in Nat
  BY <1>5, FS_CardinalityType
<1>7. ASSUME NEW S \in SUBSET Kept(l)
      PROVE  /\ IsFiniteSet(S)
             /\ Cardinality(S) \in Nat
             /\ Cardinality(S) <= Cardinality(Kept(l))
             /\ Cardinality(S) = Cardinality(Kept(l)) <=> S = Kept(l)
  <2>1. IsFiniteSet(S) /\ Cardinality(S) <= Cardinality(Kept(l))
    BY <1>5, FS_Subset
  <2>2. Cardinality(S) = Cardinality(Kept(l)) => S = Kept(l)
    BY <1>5, FS_Subset
  <2>3. Cardinality(S) \in Nat
    BY <2>1, FS_CardinalityType
  <2> QED
    BY <2>1, <2>2, <2>3
<1> QED
  BY <1>5, <1>6, <1>7

(***************************************************************************)
(* Each type kept has a place of its own.                                  *)
(***************************************************************************)
LEMMA PlaceIs ==
  ASSUME NEW l, IsText(l), NEW r \in Kept(l)
  PROVE  /\ Place(l, r) \in 1..Cardinality(Kept(l))
         /\ \A o \in Kept(l) : Place(l, o) = Place(l, r) => o = r
<1> DEFINE Upto(o) == {s \in Kept(l) : s[1] <= o[1]}
<1>1. \A o \in Kept(l) : o \in Types(l) /\ o = <<o[1], o[2]>> /\ o[1] \in Nat /\ o[2] \in Nat
  BY TypeIs, LineIs, EndedIs DEF Kept
<1>2. \A o \in Kept(l) : Upto(o) \in SUBSET Kept(l) /\ o \in Upto(o) /\ Place(l, o) = Cardinality(Upto(o))
  BY <1>1 DEF Place
<1>3. Upto(r) # {} /\ IsFiniteSet(Upto(r))
  BY <1>2, KeptFinite
<1>4. Place(l, r) \in 1..Cardinality(Kept(l))
  <2> HIDE DEF Upto
  <2>1. Cardinality(Upto(r)) # 0
    BY <1>3, FS_EmptySet
  <2>2. Cardinality(Upto(r)) \in Nat /\ Cardinality(Upto(r)) <= Cardinality(Kept(l))
    BY <1>2, KeptFinite
  <2>3. Cardinality(Kept(l)) \in Nat
    BY KeptFinite
  <2> QED
    BY <1>2, <2>1, <2>2, <2>3
<1>5. ASSUME NEW o \in Kept(l), Place(l, o) = Place(l, r)
      PROVE  o = r
  <2>1. Upto(o) \subseteq Upto(r) \/ Upto(r) \subseteq Upto(o)
    <3>1. o[1] <= r[1] \/ r[1] <= o[1]
      BY <1>1
    <3>2. CASE o[1] <= r[1]
      BY <1>1, <3>2
    <3>3. CASE r[1] <= o[1]
      BY <1>1, <3>3
    <3> QED
      BY <3>1, <3>2, <3>3
  <2>2. IsFiniteSet(Upto(o)) /\ IsFiniteSet(Upto(r)) /\ Cardinality(Upto(o)) = Cardinality(Upto(r))
    BY <1>2, <1>5, KeptFinite
  <2>3. Upto(o) = Upto(r)
    <3> HIDE DEF Upto
    <3> QED
      BY <2>1, <2>2, FS_Subset
  <2>4. o[1] = r[1]
    BY <1>1, <1>2, <2>3
  <2>5. o[2] = r[2]
    <3>1. /\ r[2] \in r[1]..(Len(l) - 1) /\ o[2] \in o[1]..(Len(l) - 1)
          /\ \A k \in r[1]..r[2] : l[k] # Comma /\ l[k] # NUL
          /\ \A k \in o[1]..o[2] : l[k] # Comma /\ l[k] # NUL
          /\ l[r[2] + 1] = Comma \/ l[r[2] + 1] = NUL
          /\ l[o[2] + 1] = Comma \/ l[o[2] + 1] = NUL
      BY <1>1, TypeIs
    <3>2. Len(l) \in Nat
      BY LineIs, EndedIs
    <3>3. ~(r[2] < o[2])
      <4>1. r[2] < o[2] => r[2] + 1 \in o[1]..o[2]
        BY <1>1, <2>4, <3>1, <3>2
      <4> QED
        BY <3>1, <4>1
    <3>4. ~(o[2] < r[2])
      <4>1. o[2] < r[2] => o[2] + 1 \in r[1]..r[2]
        BY <1>1, <2>4, <3>1, <3>2
      <4> QED
        BY <3>1, <4>1
    <3> QED
      BY <1>1, <3>3, <3>4
  <2> QED
    BY <1>1, <2>4, <2>5
<1> QED
  BY <1>4, <1>5

(***************************************************************************)
(* The copy of a type: the k-th symbol of the line is at Here(r, k), a NUL *)
(* behind the last, and what is no semicolon is followed by one, or by     *)
(* the NUL.                                                                *)
(***************************************************************************)
LEMMA CopyIs ==
  ASSUME NEW l, IsText(l), NEW r \in Types(l)
  PROVE  LET c == Copy(l, r)
             n == r[2] - r[1] + 2
         IN /\ Ended(c)
            /\ Len(c) = n /\ n \in Nat /\ n >= 2
            /\ \A k \in 1..n : c[k] = NUL <=> k = n
            /\ \A k \in 1..(n - 1) : c[k] = l[k + r[1] - 1]
            /\ \A k \in r[1]..r[2] : c[Here(r, k)] = l[k] /\ Here(r, k) \in 1..(n - 1)
            /\ \A k \in 1..(n - 1) : c[k] # Semicolon => c[k + 1] \in {Semicolon, NUL}
<1> DEFINE a == r[1]
           z == r[2]
           n == z - a + 2
           c == Copy(l, r)
<1>1. /\ l \in Seq(STRING) /\ Len(l) \in Nat
      /\ a \in 1..Len(l) /\ z \in a..(Len(l) - 1)
      /\ \A k \in a..z : l[k] # Comma /\ l[k] # NUL
  BY TypeIs, LineIs, EndedIs
<1>2. c = Append(SubSeq(l, a, z), NUL)
  BY DEF Copy
<1> HIDE DEF a, z, c
<1>3. NUL \in STRING
  <2>1. l[Len(l)] = NUL /\ Len(l) # 0
    BY LineIs, EndedIs
  <2> QED
    BY <1>1, <2>1
<1>4. /\ SubSeq(l, a, z) \in Seq(STRING) /\ Len(SubSeq(l, a, z)) = z - a + 1
      /\ \A k \in 1..(z - a + 1) : SubSeq(l, a, z)[k] = l[k + a - 1]
  BY <1>1
<1>5. n \in Nat /\ n >= 2
  BY <1>1
<1>6. /\ c \in Seq(STRING) /\ Len(c) = n /\ c[n] = NUL
      /\ \A k \in 1..(n - 1) : c[k] = l[k + a - 1]
  <2> DEFINE t == SubSeq(l, a, z)
             m == z - a + 1
  <2>1. t \in Seq(STRING) /\ Len(t) = m /\ \A k \in 1..m : t[k] = l[k + a - 1]
    BY <1>4
  <2>2. c = Append(t, NUL)
    BY <1>2
  <2>3. m \in Nat /\ n = m + 1
    BY <1>1
  <2> HIDE DEF t, m, n
  <2>4. c \in Seq(STRING) /\ Len(c) = m + 1 /\ c[m + 1] = NUL
    BY <1>3, <2>1, <2>2, AppendProperties
  <2>5. \A k \in 1..m : c[k] = t[k]
    <3>1. \A k \in 1..Len(t) : Append(t, NUL)[k] = t[k]
      <4>1. t \in Seq(STRING)
        BY <2>1
      <4> QED
        BY <1>3, <4>1, AppendProperties
    <3> QED
      BY <2>1, <2>2, <3>1
  <2>7. n - 1 = m
    BY <2>3
  <2> QED
    BY <2>1, <2>3, <2>4, <2>5, <2>7
<1>7. \A k \in 1..(n - 1) : k + a - 1 \in a..z
  BY <1>1, <1>5
<1>8. Ended(c)
  BY <1>5, <1>6 DEF Ended
<1>9. \A k \in 1..n : c[k] = NUL <=> k = n
  <2>1. ASSUME NEW k \in 1..n, k # n
        PROVE  c[k] # NUL
    <3>1. k \in 1..(n - 1)
      BY <1>5, <2>1
    <3> QED
      BY <1>1, <1>6, <1>7, <3>1
  <2> QED
    BY <1>6, <2>1
<1>10. \A k \in a..z : Here(r, k) \in 1..(n - 1) /\ c[Here(r, k)] = l[k]
  <2> SUFFICES ASSUME NEW k \in a..z
               PROVE  Here(r, k) \in 1..(n - 1) /\ c[Here(r, k)] = l[k]
    OBVIOUS
  <2> DEFINE j == k - a + 1
  <2>1. Here(r, k) = j
    BY DEF Here, a
  <2>2. j \in 1..(n - 1) /\ j + a - 1 = k
    BY <1>1, <1>5
  <2> HIDE DEF j
  <2> QED
    BY <1>6, <2>1, <2>2
<1>11. ASSUME NEW k \in 1..(n - 1), c[k] # Semicolon
       PROVE  c[k + 1] \in {Semicolon, NUL}
  <2> DEFINE j == k + a - 1
  <2>1. j \in a..z /\ c[k] = l[j] /\ j \in 1..Len(l)
    <3>1. j \in a..z /\ c[k] = l[j]
      BY <1>6, <1>7
    <3> HIDE DEF j
    <3> QED
      BY <1>1, <3>1
  <2>2. l[j] \notin Separator
    BY <1>1, <1>11, <2>1 DEF Separator
  <2>3. l[j + 1] \in Separator
    BY <2>1, <2>2, LineIs
  <2>4. CASE k = n - 1
    BY <1>5, <1>6, <2>4
  <2>5. CASE k # n - 1
    <3>1. k + 1 \in 1..(n - 1) /\ c[k + 1] = l[j + 1]
      BY <1>1, <1>5, <1>6, <2>5
    <3>2. l[j + 1] # Comma
      <4>1. j + 1 \in a..z
        BY <1>1, <1>5, <2>1, <3>1
      <4> QED
        BY <1>1, <4>1
    <3> QED
      BY <2>3, <3>1, <3>2 DEF Separator
  <2> QED
    BY <2>4, <2>5
<1>12. \A k \in 1..(n - 1) : c[k] # Semicolon => c[k + 1] \in {Semicolon, NUL}
  BY <1>11
<1>13. Len(c) = n
  BY <1>6
<1>14. \A k \in 1..(n - 1) : c[k] = l[k + a - 1]
  BY <1>6
<1> QED
  BY <1>5, <1>8, <1>9, <1>10, <1>12, <1>13, <1>14 DEF a, z, c

(***************************************************************************)
(* First finds the least.                                                  *)
(***************************************************************************)
LEMMA FirstIs ==
  ASSUME NEW S \in SUBSET Nat, NEW n \in S, \A j \in S : n <= j
  PROVE  First(S) = n
<1> DEFINE m == First(S)
<1>1. m \in S /\ \A j \in S : m <= j
  BY DEF First
<1> HIDE DEF m
<1>2. n \in Nat /\ m \in Nat /\ n <= m /\ m <= n
  BY <1>1
<1>3. n = m
  BY <1>2
<1> QED
  BY <1>3 DEF m

(***************************************************************************)
(* The first token of a copy is the name of the type, and the next symbol  *)
(* ends it; if there is none, the type has semicolons only.                *)
(***************************************************************************)
LEMMA TokenIsName ==
  ASSUME NEW l, IsText(l), NEW r \in Types(l), NEW s \in Nat, NEW e \in Nat,
         IsToken(Copy(l, r), 1, Semicolon, s, e)
  PROVE  LET c == Copy(l, r)
             f == First(Parts(l, r))
         IN /\ c[s] = NUL => Parts(l, r) = {} /\ e = Len(c)
            /\ c[s] # NUL => /\ f \in Parts(l, r) /\ \A k \in Parts(l, r) : f <= k
                             /\ s = Here(r, f) /\ e = s + 1
                             /\ c[s] = Name(l, r)
<1> DEFINE a == r[1]
           z == r[2]
           n == z - a + 2
           c == Copy(l, r)
<1>1. /\ Len(l) \in Nat
      /\ a \in 1..Len(l) /\ z \in a..(Len(l) - 1)
  BY TypeIs, LineIs, EndedIs
<1>2. /\ Len(c) = n /\ n \in Nat
      /\ \A k \in 1..n : c[k] = NUL <=> k = n
      /\ \A k \in a..z : c[Here(r, k)] = l[k] /\ Here(r, k) \in 1..(n - 1)
      /\ \A k \in 1..(n - 1) : c[k] = l[k + a - 1]
      /\ \A k \in 1..(n - 1) : c[k] # Semicolon => c[k + 1] = Semicolon \/ c[k + 1] = NUL
  BY CopyIs
<1>3. /\ s \in 1..Len(c) /\ e \in s..Len(c)
      /\ \A k \in 1..(s - 1) : c[k] = Semicolon
      /\ c[s] # Semicolon
      /\ c[e] = Semicolon \/ c[e] = NUL
      /\ \A k \in s..(e - 1) : c[k] # Semicolon /\ c[k] # NUL
      /\ c[s] # NUL => s < e
  BY DEF IsToken
<1> HIDE DEF c
<1>4. Parts(l, r) = {k \in a..z : l[k] # Semicolon}
  BY DEF Parts
<1> HIDE DEF a, z
<1>5. \A k : Here(r, k) = k - a + 1
  BY DEF Here, a
<1>6. ASSUME c[s] = NUL
      PROVE  Parts(l, r) = {} /\ e = Len(c)
  <2>1. s = n
    BY <1>2, <1>3, <1>6
  <2>2. ASSUME NEW k \in a..z
        PROVE  l[k] = Semicolon
    BY <1>2, <1>3, <2>1
  <2> QED
    BY <1>2, <1>3, <1>4, <2>1, <2>2
<1>7. ASSUME c[s] # NUL
      PROVE  LET f == First(Parts(l, r))
             IN /\ f \in Parts(l, r) /\ \A k \in Parts(l, r) : f <= k
                /\ s = Here(r, f) /\ e = s + 1
                /\ c[s] = Name(l, r)
  <2> DEFINE f == s + a - 1
  <2>1. s \in 1..(n - 1)
    BY <1>2, <1>3, <1>7
  <2>2. f \in a..z /\ l[f] = c[s] /\ f \in Nat
    BY <1>1, <1>2, <2>1
  <2>3. ASSUME NEW k \in a..z, k < f
        PROVE  l[k] = Semicolon
    <3>1. a \in Nat /\ k \in Nat /\ a <= k /\ s \in Nat
      BY <1>1, <2>3
    <3>2. k - a + 1 \in 1..(s - 1)
      BY <2>3, <3>1
    <3>3. Here(r, k) \in 1..(s - 1)
      BY <1>5, <3>2
    <3> QED
      BY <1>2, <1>3, <3>3
  <2>4. f \in Parts(l, r) /\ \A k \in Parts(l, r) : f <= k
    <3>1. f \in Parts(l, r)
      BY <1>3, <1>4, <2>2
    <3>2. ASSUME NEW k \in Parts(l, r) PROVE f <= k
      BY <1>1, <1>4, <2>2, <2>3
    <3> QED
      BY <3>1, <3>2
  <2>5. First(Parts(l, r)) = f
    <3>1. Parts(l, r) \in SUBSET Nat
      BY <1>1, <1>4
    <3> HIDE DEF f
    <3> QED
      BY <2>4, <3>1, FirstIs
  <2>6. e = s + 1
    <3>1. s + 1 \in 1..Len(c) /\ (c[s + 1] = Semicolon \/ c[s + 1] = NUL) /\ s < e
      BY <1>2, <1>3, <1>7, <2>1
    <3>2. ~(s + 1 < e)
      BY <1>2, <1>3, <3>1
    <3> QED
      BY <1>2, <1>3, <3>1, <3>2
  <2>7. s = Here(r, f)
    BY <1>1, <1>5
  <2> QED
    BY <2>2, <2>4, <2>5, <2>6, <2>7 DEF Name
<1> QED
  BY <1>6, <1>7 DEF c

(***************************************************************************)
(* The first token behind the name is the quality, if the text is still    *)
(* that of the copy there.                                                 *)
(***************************************************************************)
LEMMA TokenIsQuality ==
  ASSUME NEW l, IsText(l), NEW r \in Types(l), NEW s \in Nat, NEW e \in Nat,
         NEW q \in Nat, NEW t, q \in 1..Len(Copy(l, r)), Len(t) = Len(Copy(l, r)),
         \A k \in q..Len(t) : t[k] = Copy(l, r)[k],
         Parts(l, r) # {},
         \A k \in Parts(l, r) : Here(r, k) >= q <=> k # First(Parts(l, r)),
         IsToken(t, q, Semicolon, s, e)
  PROVE  /\ t[s] = NUL => Quality(l, r) = NUL
         /\ t[s] # NUL => Quality(l, r) = t[s] /\ e = s + 1 /\ t[e] \in {Semicolon, NUL}
<1> DEFINE a == r[1]
           z == r[2]
           n == z - a + 2
           c == Copy(l, r)
           rest == Parts(l, r) \ {First(Parts(l, r))}
<1>1. /\ Len(l) \in Nat
      /\ a \in 1..Len(l) /\ z \in a..(Len(l) - 1)
  BY TypeIs, LineIs, EndedIs
<1>2. /\ Len(c) = n /\ n \in Nat
      /\ \A k \in 1..n : c[k] = NUL <=> k = n
      /\ \A k \in a..z : c[Here(r, k)] = l[k] /\ Here(r, k) \in 1..(n - 1)
      /\ \A k \in 1..(n - 1) : c[k] = l[k + a - 1]
      /\ \A k \in 1..(n - 1) : c[k] # Semicolon => c[k + 1] = Semicolon \/ c[k + 1] = NUL
  BY CopyIs
<1>3. /\ s \in q..Len(c) /\ e \in s..Len(c)
      /\ \A k \in q..(s - 1) : c[k] = Semicolon
      /\ c[s] # Semicolon
      /\ c[e] = Semicolon \/ c[e] = NUL
      /\ \A k \in s..(e - 1) : c[k] # Semicolon /\ c[k] # NUL
      /\ c[s] # NUL => s < e
      /\ t[s] = c[s] /\ t[e] = c[e]
  <2>1. /\ s \in q..Len(t) /\ e \in s..Len(t)
        /\ \A k \in q..(s - 1) : t[k] = Semicolon
        /\ t[s] # Semicolon
        /\ t[e] = Semicolon \/ t[e] = NUL
        /\ \A k \in s..(e - 1) : t[k] # Semicolon /\ t[k] # NUL
        /\ t[s] # NUL => s < e
    BY DEF IsToken
  <2>2. Len(t) = n /\ \A k \in q..n : t[k] = c[k]
    BY <1>2
  <2> HIDE DEF c
  <2> QED
    BY <1>1, <1>2, <2>1, <2>2
<1>4. Parts(l, r) = {k \in a..z : l[k] # Semicolon} /\ q \in 1..Len(c)
  BY DEF Parts
<1>5. rest = {k \in a..z : l[k] # Semicolon /\ Here(r, k) >= q}
  <2>1. \A k \in Parts(l, r) : k \in rest <=> Here(r, k) >= q
    OBVIOUS
  <2> HIDE DEF rest
  <2>2. rest \subseteq Parts(l, r)
    BY DEF rest
  <2> QED
    BY <1>4, <2>1, <2>2
<1>6. Quality(l, r) = IF rest = {} THEN NUL ELSE l[First(rest)]
  BY DEF Quality
<1> HIDE DEF c, a, z, rest
<1>7. \A k : Here(r, k) = k - a + 1
  BY DEF Here, a
<1>8. ASSUME c[s] = NUL
      PROVE  Quality(l, r) = NUL
  <2>1. s = n
    BY <1>2, <1>3, <1>4, <1>8
  <2>2. ASSUME NEW k \in a..z, Here(r, k) >= q
        PROVE  l[k] = Semicolon
    <3>1. Here(r, k) \in q..(s - 1)
      BY <1>2, <1>4, <2>1, <2>2
    <3> QED
      BY <1>2, <1>3, <3>1
  <2> QED
    BY <1>5, <1>6, <2>2
<1>9. ASSUME c[s] # NUL
      PROVE  Quality(l, r) = c[s] /\ e = s + 1
  <2> DEFINE f == s + a - 1
  <2>1. s \in 1..(n - 1)
    BY <1>2, <1>3, <1>4, <1>9
  <2>2. f \in a..z /\ l[f] = c[s] /\ f \in Nat /\ Here(r, f) = s
    <3>1. f \in a..z /\ l[f] = c[s] /\ f \in Nat
      BY <1>1, <1>2, <2>1
    <3>2. Here(r, f) = f - a + 1
      BY <1>7
    <3>3. f - a + 1 = s
      BY <1>1, <2>1
    <3> QED
      BY <3>1, <3>2, <3>3
  <2>3. ASSUME NEW k \in a..z, k < f, Here(r, k) >= q
        PROVE  l[k] = Semicolon
    <3>1. Here(r, k) \in q..(s - 1)
      <4>1. Here(r, k) = k - a + 1 /\ Here(r, k) \in 1..(n - 1)
        BY <1>2, <1>7, <2>3
      <4> QED
        BY <1>1, <1>2, <1>4, <2>1, <2>3, <4>1
    <3> QED
      BY <1>2, <1>3, <3>1
  <2>4. f \in rest /\ \A k \in rest : f <= k
    <3>1. f \in rest
      BY <1>3, <1>4, <1>5, <2>2
    <3>2. ASSUME NEW k \in rest PROVE f <= k
      BY <1>1, <1>5, <2>2, <2>3
    <3> QED
      BY <3>1, <3>2
  <2>5. First(rest) = f
    <3>1. rest \in SUBSET Nat
      BY <1>1, <1>5
    <3> HIDE DEF f
    <3> QED
      BY <2>4, <3>1, FirstIs
  <2>6. e = s + 1
    <3>1. s + 1 \in 1..Len(c) /\ (c[s + 1] = Semicolon \/ c[s + 1] = NUL) /\ s < e
      BY <1>2, <1>3, <1>9, <2>1
    <3>2. ~(s + 1 < e)
      BY <1>2, <1>3, <3>1
    <3> QED
      BY <1>2, <1>3, <3>1, <3>2
  <2> QED
    BY <1>6, <2>2, <2>4, <2>5, <2>6
<1> QED
  BY <1>3, <1>8, <1>9

-----------------------------------------------------------------------------
(* Strings and entries.                                                    *)

(***************************************************************************)
(* The string at a place of a text that has a NUL at its end.              *)
(***************************************************************************)
LEMMA StringIs ==
  ASSUME NEW t, Ended(t), NEW p \in 1..Len(t)
  PROVE  LET string == StringFrom(t, p)
             n == Len(string)
         IN /\ string \in Seq(STRING) /\ n \in Nat /\ NUL \in STRING
            /\ p + n <= Len(t) /\ t[p + n] = NUL
            /\ \A k \in 1..n : string[k] = t[p + k - 1] /\ string[k] # NUL
<1> DEFINE e == FirstIn(t, p, {NUL})
           string == StringFrom(t, p)
           n == Len(string)
<1>1. t \in Seq(STRING) /\ Len(t) \in Nat /\ Len(t) # 0 /\ t[Len(t)] = NUL
  BY EndedIs
<1>2. p \in Nat /\ p # 0 /\ Len(t) \in p..Len(t) /\ t[Len(t)] \in {NUL}
  BY <1>1
<1>3. e \in p..Len(t) /\ t[e] \in {NUL} /\ \A k \in p..(e - 1) : t[k] \notin {NUL}
  BY <1>1, <1>2, FirstInIs
<1>4. string = SubSeq(t, p, e - 1)
  BY DEF StringFrom
<1> HIDE DEF e
<1>5. string \in Seq(STRING) /\ n = e - p
  BY <1>1, <1>2, <1>3, <1>4
<1>6. \A k \in 1..(e - p) : string[k] = t[p + k - 1]
  BY <1>1, <1>2, <1>3, <1>4
<1>7. \A k \in 1..(e - p) : p + k - 1 \in p..(e - 1)
  BY <1>1, <1>2, <1>3
<1>8. e - p \in Nat /\ p + (e - p) = e
  BY <1>1, <1>2, <1>3
<1>9. NUL \in STRING
  BY <1>1
<1> HIDE DEF string
<1>10. p + n <= Len(t) /\ t[p + n] = NUL /\ n \in Nat
  BY <1>1, <1>3, <1>5, <1>8
<1>11. ASSUME NEW k \in 1..n
       PROVE  string[k] = t[p + k - 1] /\ string[k] # NUL
  <2>1. string[k] = t[p + k - 1] /\ p + k - 1 \in p..(e - 1)
    BY <1>5, <1>6, <1>7
  <2> QED
    BY <1>3, <2>1
<1> QED
  BY <1>5, <1>9, <1>10, <1>11 DEF string

(***************************************************************************)
(* It ends at the first NUL.                                               *)
(***************************************************************************)
LEMMA StringEnds ==
  ASSUME NEW t, Ended(t), NEW p \in 1..Len(t), NEW e \in p..Len(t), t[e] = NUL,
         \A k \in p..(e - 1) : t[k] # NUL
  PROVE  StringFrom(t, p) = SubSeq(t, p, e - 1)
<1>1. t \in Seq(STRING) /\ p \in Nat /\ p # 0
  BY EndedIs
<1>2. FirstIn(t, p, {NUL}) = e
  BY <1>1, FirstInOnly
<1> QED
  BY <1>2 DEF StringFrom

(***************************************************************************)
(* A string of one symbol.                                                 *)
(***************************************************************************)
LEMMA StringOne ==
  ASSUME NEW t, Ended(t), NEW p \in 1..Len(t), t[p] # NUL, t[p + 1] = NUL
  PROVE  StringFrom(t, p) = <<t[p]>>
<1>1. t \in Seq(STRING) /\ Len(t) \in Nat /\ t[Len(t)] = NUL
  BY EndedIs
<1> DEFINE e == p + 1
<1>2. e \in p..Len(t) /\ t[e] = NUL /\ e - 1 = p /\ \A k \in p..(e - 1) : t[k] # NUL
  BY <1>1
<1> HIDE DEF e
<1>3. StringFrom(t, p) = SubSeq(t, p, e - 1)
  BY <1>2, StringEnds
<1>4. SubSeq(t, p, p) = <<t[p]>>
  <2>1. t[p] \in STRING
    BY <1>1
  <2>2. /\ SubSeq(t, p, p) \in Seq(STRING) /\ Len(SubSeq(t, p, p)) = 1
        /\ SubSeq(t, p, p)[1] = t[p]
    BY <1>1
  <2>3. /\ <<t[p]>> \in Seq(STRING) /\ Len(<<t[p]>>) = 1
        /\ <<t[p]>>[1] = t[p]
    BY <2>1
  <2> DEFINE x == SubSeq(t, p, p)
             y == <<t[p]>>
  <2> HIDE DEF x, y
  <2>4. x \in Seq(STRING) /\ y \in Seq(STRING) /\ Len(x) = Len(y)
    BY <2>2, <2>3 DEF x, y
  <2>5. \A k \in 1..Len(x) : x[k] = y[k]
    BY <2>2, <2>3 DEF x, y
  <2>6. x = y
    BY <2>4, <2>5, SeqEqual
  <2> QED
    BY <2>6 DEF x, y
<1> QED
  BY <1>2, <1>3, <1>4

\* strstr() of one symbol.
LEMMA HasOne ==
  ASSUME NEW x, NEW words
  PROVE  Has(<<x>>, words) <=> x \in words
<1>1. Symbols(<<x>>) = {x}
  BY DEF Symbols
<1> QED
  BY <1>1 DEF Has

(***************************************************************************)
(* What Entry makes of a name and a quality is what they say.              *)
(***************************************************************************)
LEMMA EntryIs ==
  ASSUME NEW name, NEW quality
  PROVE  LET rated == quality # NUL
         IN Entry(<<name>>, rated, IF rated THEN <<quality>> ELSE <<>>) =
              [extension |-> ReadFormat(name, quality), q |-> ReadQuality(name, quality)]
<1> DEFINE rated == quality # NUL
           string == IF rated THEN <<quality>> ELSE <<>>
           q == Strtof(string)
<1>0. One \notin Half /\ One # NUL /\ NUL \notin Half
  BY DEF One, Half, NUL
<1>1. q = IF quality = NUL THEN 0
          ELSE IF quality = One THEN 10 ELSE IF quality \in Half THEN 5 ELSE 0
  <2>1. CASE quality = NUL
    BY <2>1 DEF Strtof
  <2>2. CASE quality # NUL
    <3>1. string # <<>> /\ Head(string) = quality
      BY <2>2
    <3> HIDE DEF string
    <3>2. q = CASE quality = One -> 10 [] quality \in Half -> 5 [] OTHER -> 0
      BY <3>1 DEF Strtof
    <3> QED
      BY <1>0, <2>2, <3>2
  <2> QED
    BY <2>1, <2>2
<1> HIDE DEF q, string
<1>2. <<name>> = <<"image/*">> <=> name = "image/*"
  OBVIOUS
<1>3. Entry(<<name>>, rated, string) =
        CASE name \in ImageType /\ ~rated ->
               [extension |-> IF name = "image/*" THEN "ALL_EXT"
                              ELSE IF name = "image/png" THEN "PNG"
                              ELSE IF name = "image/webp" THEN "WEBP"
                              ELSE IF name = "image/jxr" THEN "JXR" ELSE "JPG",
                q |-> 10]
          [] name = "*/*" ->
               [extension |-> "ALL_EXT", q |-> IF rated /\ q = 0 THEN 8 ELSE q]
          [] OTHER ->
               [extension |-> IF name = "image/png" THEN "PNG" ELSE "JPG", q |-> q]
  <2>1. /\ Has(<<name>>, ImageType) <=> name \in ImageType
        /\ Has(<<name>>, {"*/*"}) <=> name = "*/*"
        /\ Has(<<name>>, {"image/png"}) <=> name = "image/png"
        /\ Has(<<name>>, {"image/webp"}) <=> name = "image/webp"
        /\ Has(<<name>>, {"image/jxr"}) <=> name = "image/jxr"
    BY HasOne
  <2> QED
    BY <1>2, <2>1 DEF Entry, q
<1>4. "*/*" \notin ImageType /\ "image/png" \in ImageType /\ "image/*" \in ImageType
      /\ "image/webp" \in ImageType /\ "image/jxr" \in ImageType
  BY DEF ImageType, Jpg
<1>5. CASE name \in ImageType /\ ~rated
  <2>1. Entry(<<name>>, rated, string) =
               [extension |-> IF name = "image/*" THEN "ALL_EXT"
                              ELSE IF name = "image/png" THEN "PNG"
                              ELSE IF name = "image/webp" THEN "WEBP"
                              ELSE IF name = "image/jxr" THEN "JXR" ELSE "JPG",
                q |-> 10]
    BY <1>3, <1>4, <1>5
  <2>2. ReadFormat(name, quality) = IF name = "image/*" THEN "ALL_EXT"
                              ELSE IF name = "image/png" THEN "PNG"
                              ELSE IF name = "image/webp" THEN "WEBP"
                              ELSE IF name = "image/jxr" THEN "JXR" ELSE "JPG"
    BY <1>4, <1>5 DEF ReadFormat
  <2>3. ReadQuality(name, quality) = 10
    BY <1>0, <1>5 DEF ReadQuality
  <2> QED
    BY <2>1, <2>2, <2>3 DEF string
<1>6. CASE name = "*/*"
  <2>1. Entry(<<name>>, rated, string) =
          [extension |-> "ALL_EXT", q |-> IF rated /\ q = 0 THEN 8 ELSE q]
    BY <1>3, <1>4, <1>6
  <2>2. ReadFormat(name, quality) = "ALL_EXT"
    BY <1>6 DEF ReadFormat
  <2>3. ReadQuality(name, quality) = IF rated /\ q = 0 THEN 8 ELSE q
    <3>1. ReadQuality(name, quality) = IF quality = NUL THEN 0
             ELSE IF quality = One THEN 10 ELSE IF quality \in Half THEN 5 ELSE 8
      BY <1>0, <1>4, <1>6 DEF ReadQuality
    <3> QED
      BY <1>1, <3>1
  <2> QED
    BY <2>1, <2>2, <2>3 DEF string
<1>7. CASE ~(name \in ImageType /\ ~rated) /\ name # "*/*"
  <2>1. Entry(<<name>>, rated, string) =
          [extension |-> IF name = "image/png" THEN "PNG" ELSE "JPG", q |-> q]
    BY <1>3, <1>7
  <2>2. ReadFormat(name, quality) = IF name = "image/png" THEN "PNG" ELSE "JPG"
    BY <1>4, <1>7 DEF ReadFormat
  <2>3. ReadQuality(name, quality) = q
    <3>1. ReadQuality(name, quality) = IF quality = NUL THEN 0
             ELSE IF quality = One THEN 10 ELSE IF quality \in Half THEN 5 ELSE 0
      BY <1>0, <1>7 DEF ReadQuality
    <3> QED
      BY <1>1, <3>1
  <2> QED
    BY <2>1, <2>2, <2>3 DEF string
<1> QED
  BY <1>5, <1>6, <1>7 DEF string

(***************************************************************************)
(* Whatever is made of a name, it is an entry; the format of some names is *)
(* seen with any quality.                                                  *)
(***************************************************************************)
LEMMA EntryType ==
  ASSUME NEW name, NEW rated, NEW quality
  PROVE  Entry(name, rated, quality) \in [extension : Extension, q : 0..10]
<1> DEFINE q == Strtof(quality)
<1>1. q \in 0..10
  BY DEF Strtof
<1> HIDE DEF q
<1> QED
  BY <1>1 DEF Entry, Extension, q

\* The format of these names is seen with any quality.
LEMMA FormatSeen ==
  ASSUME NEW name \in Jpg \cup {"image/png", "*/*"}, NEW rated, NEW quality
  PROVE  Entry(<<name>>, rated, quality).extension = ReadFormat(name, NUL)
<1> DEFINE q == Strtof(quality)
<1>1. /\ Has(<<name>>, ImageType) <=> name \in ImageType
      /\ Has(<<name>>, {"*/*"}) <=> name = "*/*"
      /\ Has(<<name>>, {"image/png"}) <=> name = "image/png"
      /\ Has(<<name>>, {"image/webp"}) <=> name = "image/webp"
      /\ Has(<<name>>, {"image/jxr"}) <=> name = "image/jxr"
  BY HasOne
<1>2. <<name>> = <<"image/*">> <=> name = "image/*"
  OBVIOUS
<1> HIDE DEF q
<1>3. name \in {"image/jpg", "image/jpeg", "image/png", "*/*"}
  BY DEF Jpg
<1>4. "*/*" \notin ImageType /\ {"image/jpg", "image/jpeg", "image/png"} \subseteq ImageType
  BY DEF ImageType, Jpg
<1>5. CASE name = "*/*"
  BY <1>1, <1>4, <1>5 DEF Entry, ReadFormat
<1>6. CASE name = "image/png"
  BY <1>1, <1>2, <1>4, <1>6 DEF Entry, ReadFormat
<1>7. CASE name \in {"image/jpg", "image/jpeg"}
  BY <1>1, <1>2, <1>4, <1>7 DEF Entry, ReadFormat
<1> QED
  BY <1>3, <1>5, <1>6, <1>7

-----------------------------------------------------------------------------
(* All threads: each step keeps the texts and the pointers.                *)

\* What is assumed of the constants.
LEMMA Constants ==
  /\ preallocation \in Nat /\ preallocation # 0 /\ Null \notin Pointer
  /\ \A w \in Worker : \A l \in Line[w] : IsText(l)
BY AcceptAssumption

(***************************************************************************)
(* The number of types a thread has kept is within the list.               *)
(***************************************************************************)
LEMMA DimIs ==
  ASSUME TypeOK, NEW v \in Worker
  PROVE  dim[v] \in Nat /\ dim[v] <= preallocation /\ \A n \in 0..dim[v] : <<v, n>> \in Buffer
<1>1. dim[v] \in 0..preallocation
  BY DEF TypeOK
<1> QED
  BY <1>1, Constants DEF Buffer

\* A thread is where it can call strtok().
Calls(w, sep) ==
  /\ TypeOK /\ Texts /\ Pointers
  /\ w \in Worker /\ sep # NUL
  /\ at[w] # Null /\ ~Freed(at[w])

(***************************************************************************)
(* What a call does: a NUL is written into one text, at the end of the     *)
(* token, and the place behind it is kept.                                 *)
(***************************************************************************)
LEMMA CutDoes ==
  ASSUME NEW w, NEW sep, Calls(w, sep), NEW s \in Nat, NEW e \in Nat, CutAt(w, sep, s, e)
  PROVE  LET b == at[w].buf
             t == heap[b]
             q == olds'.pos
         IN /\ b \in Buffer /\ Ended(t) /\ at[w].pos \in 1..Len(t)
            /\ s \in 1..Len(t) /\ e \in 1..Len(t)
            /\ DOMAIN heap' = Buffer /\ heap' = [c \in Buffer |-> heap'[c]]
            /\ Ended(heap'[b]) /\ Len(heap'[b]) = Len(t)
            /\ heap'[b][e] = NUL /\ \A k \in 1..Len(t) : k # e => heap'[b][k] = t[k]
            /\ \A c \in Buffer : c # b => heap'[c] = heap[c]
            /\ olds' = [buf |-> b, pos |-> q] /\ olds' \in Pointer
            /\ q \in 1..Len(t) /\ ((q = e /\ t[e] = NUL) \/ (q = e + 1 /\ t[e] = sep))
            /\ Token(w, sep) = IF t[s] = NUL THEN Null ELSE [buf |-> b, pos |-> s]
            /\ Token(w, sep) \in Pointer \cup {Null}
<1> DEFINE b == at[w].buf
           t == heap[b]
           p == at[w].pos
           q == IF t[e] = NUL THEN e ELSE e + 1
<1>1. at[w] \in Pointer /\ b \in Buffer /\ at[w] = [buf |-> b, pos |-> p]
  BY DEF TypeOK, Pointer, Calls
<1>2. Ended(t) /\ p \in 1..Len(t)
  BY <1>1 DEF Texts, Freed, Pointers, Made, Calls
<1>3. /\ t \in Seq(STRING) /\ Len(t) \in Nat /\ t[Len(t)] = NUL /\ Len(t) # 0
  BY <1>2, EndedIs
<1>4. /\ s \in p..Len(t) /\ e \in s..Len(t)
      /\ t[e] = sep \/ t[e] = NUL
  BY DEF CutAt, IsToken
<1>5. s \in 1..Len(t) /\ e \in 1..Len(t)
  BY <1>2, <1>3, <1>4
<1>6. heap' = [heap EXCEPT ![b] = Ending(t, e)] /\ DOMAIN heap = Buffer
  BY DEF CutAt, Calls, TypeOK
<1>7. /\ DOMAIN heap' = Buffer /\ heap' = [c \in Buffer |-> heap'[c]]
      /\ heap'[b] = Ending(t, e)
      /\ \A c \in Buffer : c # b => heap'[c] = heap[c]
  <2> HIDE DEF b, t
  <2> QED
    BY <1>1, <1>6
<1>8. /\ Ending(t, e) \in Seq(STRING) /\ Len(Ending(t, e)) = Len(t)
      /\ Ending(t, e)[e] = NUL /\ \A k \in 1..Len(t) : k # e => Ending(t, e)[k] = t[k]
  <2> HIDE DEF t
  <2>1. NUL \in STRING
    BY <1>3
  <2>2. t \in Seq(STRING) /\ e \in 1..Len(t)
    BY <1>3, <1>5
  <2>3. /\ Ending(t, e) \in Seq(STRING) /\ Len(Ending(t, e)) = Len(t)
        /\ \A k \in 1..Len(t) : Ending(t, e)[k] = IF k = e THEN NUL ELSE t[k]
    BY <2>1, <2>2, EndingIs
  <2> QED
    BY <2>2, <2>3
<1>9. Ended(heap'[b])
  <2> HIDE DEF b, t
  <2>1. Ending(t, e) # <<>> /\ Ending(t, e)[Len(t)] = NUL
    BY <1>3, <1>5, <1>8
  <2> QED
    BY <1>7, <1>8, <2>1 DEF Ended
<1>10. q \in 1..Len(t) /\ q \in Nat /\ ((q = e /\ t[e] = NUL) \/ (q = e + 1 /\ t[e] = sep))
  <2> HIDE DEF t
  <2> QED
    BY <1>3, <1>4, <1>5
<1>11. olds' = [buf |-> b, pos |-> q]
  BY DEF CutAt
<1> HIDE DEF q
<1>12. olds'.pos = q /\ olds' \in Pointer
  BY <1>1, <1>10, <1>11 DEF Pointer
<1>13. Token(w, sep) = IF t[s] = NUL THEN Null ELSE [buf |-> b, pos |-> s]
  BY DEF CutAt
<1>14. Token(w, sep) \in Pointer \cup {Null}
  BY <1>1, <1>13 DEF Pointer
<1> HIDE DEF b, t, p
<1> QED
  BY <1>1, <1>2, <1>5, <1>7, <1>8, <1>9, <1>10, <1>11, <1>12, <1>13, <1>14 DEF b, t, p

\* No thread goes back, and no text that has been made is made longer or shorter.
Stays ==
  /\ \A v \in Worker : (pc[v] # "idle" => pc'[v] # "idle") /\ dim[v] <= dim'[v]
  /\ \A b \in Buffer :
       pc[b[1]] # "idle" /\ b[2] <= dim[b[1]] =>
         \/ heap'[b] = <<>>
         \/ heap[b] # <<>> /\ Len(heap'[b]) = Len(heap[b])

(***************************************************************************)
(* Then a pointer stays where it may point to.                             *)
(***************************************************************************)
LEMMA MadeStays ==
  ASSUME TypeOK, Stays, TypeOK'
  PROVE  \A p \in Pointer : Made(p) => Made(p)'
<1> SUFFICES ASSUME NEW p \in Pointer, Made(p)
             PROVE  Made(p)'
  OBVIOUS
<1> DEFINE b == p.buf
<1>1. b \in Buffer /\ b[1] \in Worker /\ b[2] \in 0..preallocation
  BY DEF Pointer, Buffer
<1>2. pc[b[1]] # "idle" /\ b[2] <= dim[b[1]]
  BY DEF Made
<1>3. pc'[b[1]] # "idle"
  BY <1>1, <1>2 DEF Stays
<1>4. dim[b[1]] \in Nat /\ dim'[b[1]] \in Nat /\ dim[b[1]] <= dim'[b[1]] /\ b[2] \in Nat
  <2>1. dim[b[1]] \in 0..preallocation /\ dim'[b[1]] \in 0..preallocation
    BY <1>1 DEF TypeOK
  <2> QED
    BY <1>1, <2>1, Constants DEF Stays
<1>5. b[2] <= dim'[b[1]]
  BY <1>2, <1>4
<1>6. heap'[b] # <<>> => p.pos \in 1..Len(heap'[b])
  BY <1>1, <1>2 DEF Stays, Made, Freed
<1> QED
  BY <1>3, <1>5, <1>6 DEF Made, Freed

(***************************************************************************)
(* The steps that are a call of strtok().                                  *)
(***************************************************************************)
CutStep(w, sep, s, e) ==
  /\ Calls(w, sep) /\ CutAt(w, sep, s, e)
  /\ s \in Nat /\ e \in Nat
  /\ UNCHANGED <<dim, line, at, list, fault>>
  /\ \A v \in Worker : v # w => pc'[v] = pc[v] /\ token1'[v] = token1[v] /\ token2'[v] = token2[v]
  /\ token1'[w] \in {token1[w], Token(w, sep)} /\ token2'[w] \in {token2[w], Token(w, sep)}
  /\ pc[w] \notin {"idle", "done"} /\ pc'[w] \notin {"idle", "done"}

(***************************************************************************)
(* They keep the texts and the pointers.                                   *)
(***************************************************************************)
LEMMA CutKeeps ==
  ASSUME Basic, NEW w, NEW sep, NEW s, NEW e, CutStep(w, sep, s, e), TypeOK'
  PROVE  Texts' /\ Pointers' /\ Allocated' /\ Room' /\ olds' # Null
<1> DEFINE b == at[w].buf
           t == heap[b]
<1>1. Calls(w, sep) /\ CutAt(w, sep, s, e) /\ s \in Nat /\ e \in Nat /\ w \in Worker
  BY DEF CutStep, Calls
<1>2. /\ b \in Buffer /\ Ended(t) /\ s \in 1..Len(t)
      /\ DOMAIN heap' = Buffer /\ heap' = [c \in Buffer |-> heap'[c]]
      /\ Ended(heap'[b]) /\ Len(heap'[b]) = Len(t)
      /\ \A c \in Buffer : c # b => heap'[c] = heap[c]
      /\ olds' = [buf |-> b, pos |-> olds'.pos] /\ olds' \in Pointer /\ olds'.pos \in 1..Len(t)
      /\ Token(w, sep) = IF t[s] = NUL THEN Null ELSE [buf |-> b, pos |-> s]
      /\ Token(w, sep) \in Pointer \cup {Null}
  <2> DEFINE q == olds'.pos
  <2>1. /\ b \in Buffer /\ Ended(t) /\ s \in 1..Len(t)
        /\ DOMAIN heap' = Buffer /\ heap' = [c \in Buffer |-> heap'[c]]
        /\ Ended(heap'[b]) /\ Len(heap'[b]) = Len(t)
        /\ \A c \in Buffer : c # b => heap'[c] = heap[c]
    BY <1>1, CutDoes
  <2>2. /\ olds' = [buf |-> b, pos |-> q] /\ olds' \in Pointer
        /\ q \in 1..Len(t)
    BY <1>1, CutDoes
  <2>3. /\ Token(w, sep) = IF t[s] = NUL THEN Null ELSE [buf |-> b, pos |-> s]
        /\ Token(w, sep) \in Pointer \cup {Null}
    BY <1>1, CutDoes
  <2> QED
    BY <2>1, <2>2, <2>3
<1>3. t # <<>> /\ heap'[b] # <<>>
  BY <1>2, EndedIs
<1> HIDE DEF t
<1>4. Texts'
  BY <1>2 DEF Basic, Texts
<1>5. Stays
  <2>1. \A v \in Worker : dim'[v] = dim[v] /\ dim[v] \in Nat /\ (pc[v] # "idle" => pc'[v] # "idle")
    BY DimIs DEF CutStep, Basic
  <2>2. \A c \in Buffer : heap'[c] = heap[c] \/ (heap[c] # <<>> /\ Len(heap'[c]) = Len(heap[c]))
    BY <1>2, <1>3 DEF t
  <2>3. \A v \in Worker : dim[v] <= dim'[v]
    BY <2>1
  <2> HIDE DEF b
  <2>4. \A c \in Buffer : heap'[c] = <<>> \/ (heap[c] # <<>> /\ Len(heap'[c]) = Len(heap[c]))
    BY <2>2
  <2> QED
    BY <2>1, <2>3, <2>4 DEF Stays
<1>6. \A p \in Pointer : Made(p) => Made(p)'
  BY <1>5, MadeStays DEF Basic
<1>7. Made(at[w]) /\ at[w] \in Pointer /\ at'[w] = at[w]
  BY <1>1 DEF Basic, Pointers, Calls, TypeOK, CutStep
<1>8. /\ pc'[b[1]] # "idle" /\ b[2] <= dim'[b[1]]
  BY <1>6, <1>7 DEF Made
<1>9. ASSUME NEW p \in Pointer, p.buf = b, p.pos \in 1..Len(t)
      PROVE  Made(p)'
  BY <1>2, <1>8, <1>9 DEF Made, Freed
<1>10. Made(olds)'
  <2> DEFINE p == olds'
  <2>1. p \in Pointer /\ p.buf = b /\ p.pos \in 1..Len(t)
    BY <1>2
  <2> HIDE DEF p
  <2>2. /\ p \in Pointer /\ pc'[p.buf[1]] # "idle" /\ p.buf[2] <= dim'[p.buf[1]]
        /\ heap'[p.buf] # <<>> => p.pos \in 1..Len(heap'[p.buf])
    BY <1>2, <1>8, <2>1
  <2> QED
    BY <2>2 DEF Made, Freed, p
<1>11. ASSUME Token(w, sep) # Null
       PROVE  LET p == Token(w, sep)
              IN /\ p \in Pointer /\ pc'[p.buf[1]] # "idle" /\ p.buf[2] <= dim'[p.buf[1]]
                 /\ heap'[p.buf] # <<>> => p.pos \in 1..Len(heap'[p.buf])
  <2>1. Token(w, sep) = [buf |-> b, pos |-> s] /\ Token(w, sep) \in Pointer
    BY <1>2, <1>11
  <2> QED
    BY <1>2, <1>8, <2>1
<1>12. Pointers'
  <2>1. ASSUME NEW v \in Worker
        PROVE  /\ at'[v] # Null => Made(at[v])'
               /\ token1'[v] # Null => Made(token1[v])'
               /\ token2'[v] # Null => Made(token2[v])'
    <3>1. at'[v] = at[v] /\ at[v] \in Pointer \cup {Null} /\ (at[v] # Null => Made(at[v]))
      BY DEF CutStep, Basic, TypeOK, Pointers
    <3>2. at'[v] # Null => Made(at[v])'
      BY <1>6, <3>1 DEF Made, Freed
    <3>3. /\ token1[v] \in Pointer \cup {Null} /\ (token1[v] # Null => Made(token1[v]))
          /\ token2[v] \in Pointer \cup {Null} /\ (token2[v] # Null => Made(token2[v]))
      BY DEF Basic, TypeOK, Pointers
    <3>4. token1'[v] \in {token1[v], Token(w, sep)} /\ token2'[v] \in {token2[v], Token(w, sep)}
      BY DEF CutStep
    <3>5. token1'[v] # Null => Made(token1[v])'
      BY <1>6, <1>11, <3>3, <3>4 DEF Made, Freed
    <3>6. token2'[v] # Null => Made(token2[v])'
      BY <1>6, <1>11, <3>3, <3>4 DEF Made, Freed
    <3> QED
      BY <3>2, <3>5, <3>6
  <2> QED
    BY <1>10, <2>1 DEF Pointers
<1>13. Allocated'
  <2>1. ASSUME NEW v \in Worker, pc'[v] \notin {"idle", "done"}, NEW n \in 0..dim'[v]
        PROVE  heap'[<<v, n>>] # <<>>
    <3>1. pc[v] \notin {"idle", "done"} /\ n \in 0..dim[v]
      BY <2>1 DEF CutStep
    <3>2. heap[<<v, n>>] # <<>>
      BY <3>1 DEF Basic, Allocated
    <3>3. <<v, n>> \in Buffer
      BY <3>1, DimIs DEF Basic
    <3> QED
      BY <1>2, <1>3, <3>2, <3>3
  <2> QED
    BY <2>1 DEF Allocated
<1>14. Room'
  BY DEF Basic, Room, CutStep
<1>15. olds' # Null
  BY <1>2, Constants
<1> QED
  BY <1>4, <1>12, <1>13, <1>14, <1>15

-----------------------------------------------------------------------------
(* What a step of one thread is to the others.                             *)

Same(v) ==
  /\ pc'[v] = pc[v] /\ line'[v] = line[v] /\ at'[v] = at[v]
  /\ token1'[v] = token1[v] /\ token2'[v] = token2[v]
  /\ dim'[v] = dim[v] /\ list'[v] = list[v]

(***************************************************************************)
(* A step changes the variables of its thread only.                        *)
(***************************************************************************)
LEMMA OthersSame ==
  ASSUME TypeOK, NEW w \in Worker, ThreadStep(w)
  PROVE  \A v \in Worker : v # w => Same(v)
<1> SUFFICES ASSUME NEW v \in Worker, v # w
             PROVE  Same(v)
  OBVIOUS
<1> USE DEF TypeOK
<1>1. CASE Parse(w)
  BY <1>1 DEF Parse, Same, Go
<1>2. CASE Split(w)
  BY <1>2 DEF Split, Same, Go
<1>3. CASE Discard(w)
  BY <1>3 DEF Discard, Same, Go, Resume
<1>4. CASE Keep(w)
  BY <1>4 DEF Keep, Same, Go, Resume
<1>5. CASE SplitEnd(w)
  BY <1>5 DEF SplitEnd, Same, Go, NextType
<1>6. CASE CutName(w)
  BY <1>6 DEF CutName, Same, Go
<1>7. CASE GoOn(w)
  BY <1>7 DEF GoOn, Same, Go, Resume
<1>8. CASE CutQuality(w)
  BY <1>8 DEF CutQuality, Same, Go
<1>9. CASE Enter(w)
  BY <1>9 DEF Enter, EntryMade, Same, Go, NextType
<1>10. CASE Return(w)
  BY <1>10 DEF Return, EntryMade, Same, Go
<1>11. CASE EnterNull(w) \/ Dangle(w)
  BY <1>11 DEF EnterNull, Dangle, Same, thread
<1> QED
  BY <1>1, <1>2, <1>3, <1>4, <1>5, <1>6, <1>7, <1>8, <1>9, <1>10, <1>11
  DEF ThreadStep, ParseOn

(***************************************************************************)
(* A thread crosses others only, and none that has not begun.              *)
(***************************************************************************)
LEMMA CrossedGrows ==
  ASSUME Basic, NEW w \in Worker, ThreadStep(w)
  PROVE  /\ crossed' \in [Worker -> BOOLEAN]
         /\ crossed'[w] = crossed[w]
         /\ \A v \in Worker : crossed[v] => crossed'[v]
         /\ \A v \in Worker : pc[v] = "idle" => crossed'[v] = crossed[v]
<1>0. crossed \in [Worker -> BOOLEAN]
  BY DEF Basic, TypeOK
<1>1. CASE crossed' = crossed
  BY <1>0, <1>1
<1>2. CASE Crosses(w) /\ at[w] # Null
  <2>1. crossed' = [o \in Worker |->
          crossed[o] \/ (o # w /\ (pc[o] \in {"take", "second"} \/ at[w].buf[1] = o))]
    BY <1>2 DEF Crosses
  <2>2. crossed' \in [Worker -> BOOLEAN]
    BY <2>1
  <2>3. crossed'[w] = crossed[w] /\ \A v \in Worker : crossed[v] => crossed'[v]
    BY <1>0, <2>1, Zenon
  <2>4. pc[at[w].buf[1]] # "idle"
    BY <1>2 DEF Basic, Pointers, Made
  <2>5. \A v \in Worker : pc[v] = "idle" => crossed'[v] = crossed[v]
    BY <1>0, <2>1, <2>4, Zenon
  <2> QED
    BY <2>2, <2>3, <2>5
<1>3. pc[w] # "idle" => at[w] # Null
  BY DEF Basic, Steps, StepOf
<1>4. crossed' = crossed \/ (Crosses(w) /\ at[w] # Null)
  <2>1. CASE Parse(w)
    BY <2>1 DEF Parse
  <2>2. CASE Split(w)
    BY <1>3, <2>2 DEF Split, Cut
  <2>3. CASE Discard(w)
    BY <2>3 DEF Discard
  <2>4. CASE Keep(w)
    BY <2>4 DEF Keep
  <2>5. CASE SplitEnd(w)
    BY <2>5 DEF SplitEnd
  <2>6. CASE CutName(w)
    BY <1>3, <2>6 DEF CutName, Cut
  <2>7. CASE GoOn(w)
    BY <2>7 DEF GoOn
  <2>8. CASE CutQuality(w)
    BY <1>3, <2>8 DEF CutQuality, Cut
  <2>9. CASE Enter(w)
    BY <2>9 DEF Enter
  <2>10. CASE Return(w)
    BY <2>10 DEF Return
  <2>11. CASE EnterNull(w) \/ Dangle(w)
    BY <2>11 DEF EnterNull, Dangle
  <2> QED
    BY <2>1, <2>2, <2>3, <2>4, <2>5, <2>6, <2>7, <2>8, <2>9, <2>10, <2>11
    DEF ThreadStep, ParseOn
<1> QED
  BY <1>1, <1>2, <1>4

(***************************************************************************)
(* Where the other threads are they still are, if strtok() still has a     *)
(* place to go on from.                                                    *)
(***************************************************************************)
LEMMA StepsKept ==
  ASSUME Basic, NEW w \in Worker, ThreadStep(w), olds # Null => olds' # Null, StepOf(w)'
  PROVE  Steps'
<1> SUFFICES ASSUME NEW v \in Worker, v # w
             PROVE  StepOf(v)'
  BY DEF Steps
<1>1. Same(v)
  BY OthersSame DEF Basic
<1>2. StepOf(v)
  BY DEF Basic, Steps
<1>3. pc[v] = "idle" => crossed'[v] = crossed[v]
  BY CrossedGrows
<1> QED
  BY <1>1, <1>2, <1>3 DEF Same, StepOf, Splits, Cuts, Entries

(***************************************************************************)
(* A step that leaves the texts as they are.                               *)
(***************************************************************************)
StillStep(w) ==
  /\ heap' = heap /\ dim' = dim /\ fault = "none"
  /\ pc[w] \notin {"idle", "done"} /\ pc'[w] \notin {"idle", "done"}
  /\ \A v \in Worker : v # w => pc'[v] = pc[v]

\* It keeps what is said of texts and pointers.
LEMMA StillKeeps ==
  ASSUME Basic, NEW w \in Worker, StillStep(w), TypeOK'
  PROVE  Texts' /\ Allocated' /\ Room' /\ \A p \in Pointer : Made(p) => Made(p)'
<1>1. Texts' /\ Room'
  BY DEF Basic, Texts, Room, StillStep
<1>2. Allocated'
  BY DEF Basic, Allocated, StillStep
<1>3. Stays
  <2>1. \A v \in Worker : dim[v] <= dim'[v]
    BY DimIs DEF Basic, StillStep
  <2> QED
    BY <2>1 DEF StillStep, Stays
<1>4. \A p \in Pointer : Made(p) => Made(p)'
  BY <1>3, MadeStays DEF Basic
<1> QED
  BY <1>1, <1>2, <1>4

(***************************************************************************)
(* Each of the three calls is one of strtok().                             *)
(***************************************************************************)
LEMMA SplitCuts ==
  ASSUME Basic, NEW w \in Worker, fault = "none", Split(w)
  PROVE  \E s, e \in Nat : CutStep(w, Comma, s, e)
<1>1. Calls(w, Comma)
  <2>1. Comma # NUL
    BY DEF Comma, NUL
  <2> QED
    BY <2>1 DEF Basic, Steps, StepOf, Split, Calls
<1>2. PICK s, e \in Nat : CutAt(w, Comma, s, e)
  BY <1>1, CutIs DEF Split, Calls
<1>3. CutStep(w, Comma, s, e)
  BY <1>1, <1>2 DEF CutStep, Split, Go, Calls, TypeOK
<1> QED
  BY <1>3

\* The call for a name.
LEMMA NameCuts ==
  ASSUME Basic, NEW w \in Worker, fault = "none", CutName(w)
  PROVE  \E s, e \in Nat : CutStep(w, Semicolon, s, e)
<1>1. Calls(w, Semicolon)
  <2>1. Semicolon # NUL
    BY DEF Semicolon, NUL
  <2>2. /\ at[w] = In(w, Len(list[w]) + 1, 1) /\ at[w] # Null
        /\ Len(list[w]) \in Nat /\ Len(list[w]) + 1 \in 0..dim[w]
    <3>1. list[w] \in Seq([extension : Extension, q : 0..10])
      BY DEF Basic, TypeOK
    <3>2. at[w] = In(w, Len(list[w]) + 1, 1) /\ at[w] # Null /\ Len(list[w]) < dim[w]
      BY DEF Basic, Steps, StepOf, CutName, Entries, Cuts
    <3> QED
      BY <3>1, <3>2, DimIs DEF Basic
  <2>3. ~Freed(at[w])
    BY <2>2 DEF Basic, Allocated, CutName, Freed, In
  <2> QED
    BY <2>1, <2>2, <2>3 DEF Basic, Calls
<1>2. PICK s, e \in Nat : CutAt(w, Semicolon, s, e)
  BY <1>1, CutIs DEF CutName, Calls
<1>3. CutStep(w, Semicolon, s, e)
  BY <1>1, <1>2 DEF CutStep, CutName, Go, Calls, TypeOK
<1> QED
  BY <1>3

\* The call for a quality.
LEMMA QualityCuts ==
  ASSUME Basic, NEW w \in Worker, fault = "none", CutQuality(w)
  PROVE  \E s, e \in Nat : CutStep(w, Semicolon, s, e)
<1>1. Calls(w, Semicolon)
  <2>1. Semicolon # NUL
    BY DEF Semicolon, NUL
  <2> QED
    BY <2>1 DEF Basic, Steps, StepOf, CutQuality, Calls
<1>2. PICK s, e \in Nat : CutAt(w, Semicolon, s, e)
  BY <1>1, CutIs DEF CutQuality, Calls
<1>3. CutStep(w, Semicolon, s, e)
  BY <1>1, <1>2 DEF CutStep, CutQuality, Go, Calls, TypeOK
<1> QED
  BY <1>3

(***************************************************************************)
(* Each action keeps what is said of all threads.                          *)
(***************************************************************************)
LEMMA ParseBasic ==
  ASSUME Basic, NEW w \in Worker, ThreadStep(w), Parse(w)
  PROVE  Basic'
<1>1. PICK l \in Line[w] :
        /\ line' = [line EXCEPT ![w] = l]
        /\ heap' = [heap EXCEPT ![<<w, 0>>] = l]
  BY DEF Parse
<1>2. /\ pc[w] = "idle" /\ dim[w] = 0 /\ list[w] = <<>> /\ ~crossed[w]
  BY DEF Parse, Basic, Steps, StepOf
<1>3. /\ pc' = [pc EXCEPT ![w] = "split"]
      /\ at' = [at EXCEPT ![w] = In(w, 0, 1)]
      /\ UNCHANGED <<token1, token2, dim, list, olds, crossed, fault>>
  BY DEF Parse, Go, In
<1>4. <<w, 0>> \in Buffer /\ In(w, 0, 1) \in Pointer /\ In(w, 0, 1) # Null
  BY Constants DEF Buffer, Pointer, In
<1>5. Ended(l) /\ Len(l) \in Nat /\ Len(l) # 0
  BY Constants, LineIs, EndedIs
<1>6. TypeOK'
  <2>1. DOMAIN heap' = Buffer /\ DOMAIN line' = Worker
    BY <1>1 DEF Basic, TypeOK
  <2>2. at' \in [Worker -> Pointer \cup {Null}]
    BY <1>3, <1>4 DEF Basic, TypeOK
  <2>3. pc' \in [Worker -> {"idle", "split", "take", "first", "second", "param", "enter", "done"}]
    BY <1>3 DEF Basic, TypeOK
  <2>4. \A v \in Worker : line'[v] \in Line[v] \cup {<<>>}
    BY <1>1 DEF Basic, TypeOK
  <2> QED
    BY <1>3, <2>1, <2>2, <2>3, <2>4 DEF Basic, TypeOK
<1>7. /\ heap' = [b \in Buffer |-> heap'[b]]
      /\ heap'[<<w, 0>>] = l
      /\ \A b \in Buffer : b # <<w, 0>> => heap'[b] = heap[b]
  BY <1>1, <1>4 DEF Basic, TypeOK
<1>8. Texts'
  BY <1>5, <1>7 DEF Basic, Texts
<1>9. Stays
  <2>1. \A v \in Worker : dim[v] <= dim'[v] /\ (pc[v] # "idle" => pc'[v] # "idle")
    <3>1. \A v \in Worker : dim[v] \in Nat
      BY DimIs DEF Basic
    <3>2. \A v \in Worker : pc[v] # "idle" => pc'[v] # "idle"
      BY <1>3 DEF Basic, TypeOK
    <3> QED
      BY <1>3, <3>1, <3>2
  <2>2. \A b \in Buffer : pc[b[1]] # "idle" => b # <<w, 0>>
    BY <1>2
  <2> QED
    BY <1>7, <2>1, <2>2 DEF Stays
<1>10. \A p \in Pointer : Made(p) => Made(p)'
  BY <1>6, <1>9, MadeStays DEF Basic
<1>11. Pointers'
  <2>1. pc'[w] = "split" /\ dim'[w] = 0
    BY <1>2, <1>3 DEF Basic, TypeOK
  <2>2. 1 \in 1..Len(heap'[<<w, 0>>])
    BY <1>5, <1>7
  <2>3. \A v \in Worker : at'[v] = IF v = w THEN In(w, 0, 1) ELSE at[v]
    BY <1>3 DEF Basic, TypeOK
  <2>4. at'[w] # Null => Made(at[w])'
    BY <1>4, <2>1, <2>2, <2>3 DEF Made, Freed, In
  <2>5. ASSUME NEW v \in Worker
        PROVE  at'[v] # Null => Made(at[v])'
    <3>1. CASE v = w
      BY <2>4, <3>1
    <3>2. CASE v # w
      BY <1>10, <2>3, <3>2 DEF Basic, Pointers, Made, Freed, TypeOK
    <3> QED
      BY <3>1, <3>2
  <2>6. olds' # Null => Made(olds)'
    BY <1>3, <1>10 DEF Basic, Pointers, Made, Freed, TypeOK
  <2>7. ASSUME NEW v \in Worker
        PROVE  (token1'[v] # Null => Made(token1[v])') /\ (token2'[v] # Null => Made(token2[v])')
    BY <1>3, <1>10 DEF Basic, Pointers, Made, Freed, TypeOK
  <2> QED
    BY <2>5, <2>6, <2>7 DEF Pointers
<1>12. Allocated'
  <2>1. ASSUME NEW v \in Worker, pc'[v] \notin {"idle", "done"}, NEW n \in 0..dim'[v]
        PROVE  heap'[<<v, n>>] # <<>>
    <3>1. CASE v = w
      <4>1. n = 0
        BY <1>2, <1>3, <2>1, <3>1
      <4> QED
        BY <1>5, <1>7, <3>1, <4>1, EndedIs
    <3>2. CASE v # w
      <4>1. pc[v] \notin {"idle", "done"} /\ n \in 0..dim[v]
        BY <1>3, <2>1, <3>2 DEF Basic, TypeOK
      <4>2. <<v, n>> \in Buffer /\ heap[<<v, n>>] # <<>>
        BY <4>1, DimIs DEF Basic, Allocated
      <4> QED
        BY <1>7, <3>2, <4>2
    <3> QED
      BY <3>1, <3>2
  <2> QED
    BY <2>1 DEF Allocated
<1>13. Room'
  BY <1>3 DEF Basic, Room
<1>14. StepOf(w)'
  <2>1. /\ pc'[w] = "split" /\ line'[w] = l /\ at'[w] = In(w, 0, 1) /\ list'[w] = <<>>
    BY <1>1, <1>2, <1>3 DEF Basic, TypeOK
  <2> QED
    BY <1>1, <1>4, <2>1 DEF StepOf, Splits, Entries, Cuts
<1>15. Steps'
  BY <1>3, <1>14, StepsKept
<1> QED
  BY <1>6, <1>8, <1>11, <1>12, <1>13, <1>15 DEF Basic

\* The calls of strtok().
LEMMA CutBasic ==
  ASSUME Basic, NEW w \in Worker, ThreadStep(w), Split(w) \/ CutName(w) \/ CutQuality(w)
  PROVE  Basic'
<1>1. fault = "none"
  BY DEF ThreadStep
<1>2. PICK sep, s, e : CutStep(w, sep, s, e) /\ (Split(w) \/ CutName(w) => token1'[w] = Token(w, sep))
  <2>1. CASE Split(w)
    BY <1>1, <2>1, SplitCuts DEF Split, Basic, TypeOK, CutName
  <2>2. CASE CutName(w)
    BY <1>1, <2>2, NameCuts DEF CutName, Basic, TypeOK, Split
  <2>3. CASE CutQuality(w)
    BY <1>1, <2>3, QualityCuts DEF CutQuality, CutName, Split
  <2> QED
    BY <2>1, <2>2, <2>3
<1>3. Calls(w, sep) /\ CutAt(w, sep, s, e) /\ s \in Nat /\ e \in Nat
  BY <1>2 DEF CutStep
<1>4. /\ DOMAIN heap' = Buffer /\ olds' \in Pointer
      /\ Token(w, sep) \in Pointer \cup {Null}
      /\ Token(w, sep) # Null => Token(w, sep).buf = at[w].buf
  <2>1. DOMAIN heap' = Buffer /\ olds' \in Pointer
    BY <1>3, CutDoes
  <2>2. /\ Token(w, sep) \in Pointer \cup {Null}
        /\ Token(w, sep) = IF heap[at[w].buf][s] = NUL THEN Null ELSE [buf |-> at[w].buf, pos |-> s]
    BY <1>3, CutDoes
  <2> QED
    BY <2>1, <2>2
<1>5. crossed' \in [Worker -> BOOLEAN] /\ crossed'[w] = crossed[w]
  BY CrossedGrows
<1>6. TypeOK'
  <2>1. UNCHANGED <<dim, line, at, list, fault>>
    BY <1>2 DEF CutStep
  <2>2. pc' \in [Worker -> {"idle", "split", "take", "first", "second", "param", "enter", "done"}]
    BY DEF Basic, TypeOK, Split, CutName, CutQuality, Go
  <2>3. token1' \in [Worker -> Pointer \cup {Null}] /\ token2' \in [Worker -> Pointer \cup {Null}]
    <3>1. token1' = token1 \/ token1' = [token1 EXCEPT ![w] = token1'[w]]
      BY DEF Split, CutName, CutQuality, Basic, TypeOK
    <3>2. token2' = token2 \/ token2' = [token2 EXCEPT ![w] = token2'[w]]
      BY DEF Split, CutName, CutQuality, Basic, TypeOK
    <3>3. token1'[w] \in Pointer \cup {Null} /\ token2'[w] \in Pointer \cup {Null}
      BY <1>2, <1>4 DEF CutStep, Basic, TypeOK
    <3> QED
      BY <3>1, <3>2, <3>3 DEF Basic, TypeOK
  <2> QED
    BY <1>4, <1>5, <2>1, <2>2, <2>3 DEF Basic, TypeOK
<1>7. Texts' /\ Pointers' /\ Allocated' /\ Room' /\ olds' # Null
  BY <1>2, <1>6, CutKeeps
<1>8. StepOf(w)'
  <2>1. StepOf(w) /\ UNCHANGED <<dim, line, at, list, fault>> /\ crossed'[w] = crossed[w]
    BY <1>2, <1>5 DEF CutStep, Basic, Steps
  <2>2. CASE Split(w)
    <3>1. pc[w] = "split" /\ pc'[w] = "take"
      BY <2>2 DEF Split, Go, Basic, TypeOK
    <3> QED
      BY <1>7, <2>1, <3>1 DEF StepOf, Splits, Entries, Cuts
  <2>3. CASE CutName(w)
    <3>1. pc[w] = "first" /\ pc'[w] = "second"
      BY <2>3 DEF CutName, Go, Basic, TypeOK
    <3>2. token1'[w] # Null => token1'[w].buf = <<w, Len(list[w]) + 1>>
      BY <1>2, <1>4, <2>1, <2>3, <3>1 DEF StepOf, In
    <3> QED
      BY <1>7, <2>1, <3>1, <3>2 DEF StepOf, Splits, Entries, Cuts
  <2>4. CASE CutQuality(w)
    <3>1. pc[w] = "param" /\ pc'[w] = "enter" /\ token1' = token1
      BY <2>4 DEF CutQuality, Go, Basic, TypeOK
    <3> QED
      BY <1>7, <2>1, <3>1 DEF StepOf, Splits, Entries, Cuts
  <2> QED
    BY <2>2, <2>3, <2>4
<1>9. Steps'
  BY <1>7, <1>8, StepsKept
<1> QED
  BY <1>6, <1>7, <1>9 DEF Basic

\* The steps that only take the place to go on from.
LEMMA ResumeBasic ==
  ASSUME Basic, NEW w \in Worker, ThreadStep(w), Discard(w) \/ GoOn(w)
  PROVE  Basic'
<1>1. /\ at' = [at EXCEPT ![w] = olds] /\ olds # Null
      /\ UNCHANGED <<line, token1, token2, dim, list, heap, olds, crossed, fault>>
      /\ \/ pc[w] = "take" /\ pc' = [pc EXCEPT ![w] = "split"]
         \/ pc[w] = "second" /\ pc' = [pc EXCEPT ![w] = "param"]
  BY DEF Discard, GoOn, Resume, Go, Basic, Steps, StepOf
<1>2. TypeOK'
  BY <1>1 DEF Basic, TypeOK
<1>3. StillStep(w)
  BY <1>1 DEF StillStep, ThreadStep, Basic, TypeOK
<1>4. Texts' /\ Allocated' /\ Room' /\ \A p \in Pointer : Made(p) => Made(p)'
  BY <1>2, <1>3, StillKeeps
<1>5. Pointers'
  <2>1. \A v \in Worker : at'[v] = IF v = w THEN olds ELSE at[v]
    BY <1>1 DEF Basic, TypeOK
  <2>2. ASSUME NEW v \in Worker
        PROVE  at'[v] # Null => Made(at[v])'
    BY <1>4, <2>1 DEF Basic, Pointers, Made, Freed, TypeOK
  <2>3. olds' # Null => Made(olds)'
    BY <1>1, <1>4 DEF Basic, Pointers, Made, Freed, TypeOK
  <2>4. ASSUME NEW v \in Worker
        PROVE  (token1'[v] # Null => Made(token1[v])') /\ (token2'[v] # Null => Made(token2[v])')
    BY <1>1, <1>4 DEF Basic, Pointers, Made, Freed, TypeOK
  <2> QED
    BY <2>2, <2>3, <2>4 DEF Pointers
<1>6. StepOf(w)'
  <2>1. at'[w] = olds /\ StepOf(w) /\ pc'[w] = IF pc[w] = "take" THEN "split" ELSE "param"
    BY <1>1 DEF Basic, TypeOK, Steps
  <2>2. CASE pc[w] = "take"
    BY <1>1, <2>1, <2>2 DEF StepOf, Splits, Cuts, Entries
  <2>3. CASE pc[w] = "second"
    BY <1>1, <2>1, <2>3 DEF StepOf, Splits, Cuts, Entries
  <2> QED
    BY <1>1, <2>2, <2>3
<1>7. Steps'
  BY <1>1, <1>6, StepsKept
<1> QED
  BY <1>2, <1>4, <1>5, <1>7 DEF Basic

\* A type is copied: a new text.
LEMMA KeepBasic ==
  ASSUME Basic, NEW w \in Worker, ThreadStep(w), Keep(w)
  PROVE  Basic'
<1> DEFINE d == dim[w] + 1
           string == StringAt(token1[w])
           c == <<w, d>>
<1>1. /\ pc[w] = "take" /\ token1[w] # Null /\ ~Freed(token1[w])
      /\ at' = [at EXCEPT ![w] = olds] /\ olds # Null
      /\ pc' = [pc EXCEPT ![w] = "split"]
      /\ dim' = [dim EXCEPT ![w] = d]
      /\ UNCHANGED <<line, token1, token2, list, olds, crossed>>
      /\ fault = "none"
  BY DEF Keep, Resume, Go, Basic, Steps, StepOf, ThreadStep
<1>2. dim[w] \in Nat /\ dim[w] < preallocation /\ dim'[w] = d /\ d \in 0..preallocation
  BY <1>1, DimIs, Constants DEF Basic, Room, TypeOK
<1>3. /\ heap' = [heap EXCEPT ![c] = Append(string, NUL)]
      /\ fault' = IF d = preallocation THEN "overrun" ELSE "none"
  BY <1>2 DEF Keep
<1>4. c \in Buffer
  BY <1>2 DEF Buffer
<1> HIDE DEF c, string
<1>5. Ended(Append(string, NUL))
  <2>1. token1[w] \in Pointer /\ Made(token1[w])
    BY <1>1 DEF Basic, TypeOK, Pointers
  <2> DEFINE t == heap[token1[w].buf]
             p == token1[w].pos
  <2>2. Ended(t) /\ p \in 1..Len(t)
    BY <1>1, <2>1 DEF Basic, Texts, Made, Freed, Pointer
  <2>3. string = StringFrom(t, p)
    BY DEF string, StringAt, StringFrom
  <2> HIDE DEF t, p
  <2>4. string \in Seq(STRING) /\ NUL \in STRING
    BY <2>2, <2>3, StringIs
  <2>5. /\ Append(string, NUL) \in Seq(STRING) /\ Len(Append(string, NUL)) = Len(string) + 1
        /\ Append(string, NUL)[Len(string) + 1] = NUL
    BY <2>4, AppendProperties
  <2>6. Append(string, NUL) # <<>>
    BY <2>4, AppendProperties
  <2> QED
    BY <2>5, <2>6 DEF Ended
<1>6. /\ DOMAIN heap' = Buffer /\ heap' = [b \in Buffer |-> heap'[b]]
      /\ heap'[c] = Append(string, NUL)
      /\ \A b \in Buffer : b # c => heap'[b] = heap[b]
  BY <1>3, <1>4 DEF Basic, TypeOK
<1>7. TypeOK'
  <2>1. dim' \in [Worker -> 0..preallocation]
    BY <1>1, <1>2 DEF Basic, TypeOK
  <2>2. at' \in [Worker -> Pointer \cup {Null}]
    BY <1>1 DEF Basic, TypeOK
  <2>3. pc' \in [Worker -> {"idle", "split", "take", "first", "second", "param", "enter", "done"}]
    BY <1>1 DEF Basic, TypeOK
  <2>4. fault' \in {"none", "overrun"}
    BY <1>3
  <2> QED
    BY <1>1, <1>6, <2>1, <2>2, <2>3, <2>4 DEF Basic, TypeOK
<1>8. Texts'
  BY <1>5, <1>6 DEF Basic, Texts
<1>9. Stays
  <2>1. ASSUME NEW v \in Worker
        PROVE  dim[v] <= dim'[v]
    <3>1. dim[v] \in Nat
      BY DimIs DEF Basic
    <3>2. dim'[v] = IF v = w THEN d ELSE dim[v]
      BY <1>1 DEF Basic, TypeOK
    <3> QED
      BY <3>1, <3>2
  <2>2. \A v \in Worker : pc'[v] # "idle" \/ pc'[v] = pc[v]
    BY <1>1 DEF Basic, TypeOK
  <2>3. \A b \in Buffer : b[2] <= dim[b[1]] => b # c
    BY <1>2 DEF c
  <2> QED
    BY <1>6, <2>1, <2>2, <2>3 DEF Stays
<1>10. \A p \in Pointer : Made(p) => Made(p)'
  BY <1>7, <1>9, MadeStays DEF Basic
<1>11. Pointers'
  <2>1. \A v \in Worker : at'[v] = IF v = w THEN olds ELSE at[v]
    BY <1>1 DEF Basic, TypeOK
  <2>2. ASSUME NEW v \in Worker
        PROVE  at'[v] # Null => Made(at[v])'
    BY <1>10, <2>1 DEF Basic, Pointers, Made, Freed, TypeOK
  <2>3. olds' # Null => Made(olds)'
    BY <1>1, <1>10 DEF Basic, Pointers, Made, Freed, TypeOK
  <2>4. ASSUME NEW v \in Worker
        PROVE  (token1'[v] # Null => Made(token1[v])') /\ (token2'[v] # Null => Made(token2[v])')
    BY <1>1, <1>10 DEF Basic, Pointers, Made, Freed, TypeOK
  <2> QED
    BY <2>2, <2>3, <2>4 DEF Pointers
<1>12. Allocated'
  <2>1. ASSUME NEW v \in Worker, pc'[v] \notin {"idle", "done"}, NEW n \in 0..dim'[v]
        PROVE  heap'[<<v, n>>] # <<>>
    <3>1. <<v, n>> \in Buffer
      <4>1. dim'[v] \in 0..preallocation
        BY <1>7 DEF TypeOK
      <4>2. n \in 0..preallocation
        BY <2>1, <4>1, Constants
      <4> QED
        BY <4>2 DEF Buffer
    <3>2. CASE <<v, n>> = c
      BY <1>5, <1>6, <3>2, EndedIs
    <3>3. CASE <<v, n>> # c
      <4>1. pc[v] \notin {"idle", "done"} /\ n \in 0..dim[v]
        <5>1. CASE v = w
          <6>1. n # d /\ n \in 0..d
            BY <1>2, <2>1, <3>3, <5>1 DEF c
          <6> QED
            BY <1>1, <1>2, <5>1, <6>1
        <5>2. CASE v # w
          <6>1. pc'[v] = pc[v] /\ dim'[v] = dim[v]
            BY <1>1, <5>2 DEF Basic, TypeOK
          <6> QED
            BY <2>1, <6>1
        <5> QED
          BY <5>1, <5>2
      <4>2. heap[<<v, n>>] # <<>>
        BY <4>1 DEF Basic, Allocated
      <4> QED
        BY <1>6, <3>1, <3>3, <4>2
    <3> QED
      BY <3>2, <3>3
  <2> QED
    BY <2>1 DEF Allocated
<1>13. Room'
  <2>1. ASSUME fault' = "none", NEW v \in Worker
        PROVE  dim'[v] < preallocation
    <3>1. d # preallocation
      BY <1>3, <2>1
    <3>2. dim[v] < preallocation
      BY <1>1 DEF Basic, Room
    <3>3. dim'[v] = IF v = w THEN d ELSE dim[v]
      BY <1>1 DEF Basic, TypeOK
    <3> QED
      BY <1>2, <3>1, <3>2, <3>3, Constants
  <2> QED
    BY <2>1 DEF Room
<1>14. StepOf(w)'
  <2>1. at'[w] = olds /\ StepOf(w) /\ pc'[w] = "split"
    BY <1>1 DEF Basic, TypeOK, Steps
  <2> QED
    BY <1>1, <2>1 DEF StepOf, Splits, Cuts, Entries
<1>15. Steps'
  BY <1>1, <1>14, StepsKept
<1> QED
  BY <1>7, <1>8, <1>11, <1>12, <1>13, <1>15 DEF Basic

\* The first copy is looked at.
LEMMA SplitEndBasic ==
  ASSUME Basic, NEW w \in Worker, ThreadStep(w), SplitEnd(w)
  PROVE  Basic'
<1>1. /\ pc[w] = "take" /\ fault = "none"
      /\ UNCHANGED <<line, token1, token2, dim, list, heap, olds, crossed>>
      /\ \/ fault' = "no types" /\ UNCHANGED <<pc, at>>
         \/ /\ dim[w] # 0
            /\ at' = [at EXCEPT ![w] = In(w, 1, 1)]
            /\ pc' = [pc EXCEPT ![w] = "first"]
            /\ fault' = fault
  BY DEF SplitEnd, NextType, Go, ThreadStep, In
<1>2. dim[w] # 0 => In(w, 1, 1) \in Pointer /\ In(w, 1, 1) # Null /\ 1 \in 0..dim[w]
  <2>1. dim[w] # 0 => 1 \in 0..dim[w]
    BY DimIs DEF Basic
  <2>2. dim[w] # 0 => <<w, 1>> \in Buffer
    BY <2>1, DimIs DEF Basic
  <2> QED
    BY <2>1, <2>2, Constants DEF Pointer, In
<1>3. TypeOK'
  <2>1. at' \in [Worker -> Pointer \cup {Null}]
    BY <1>1, <1>2 DEF Basic, TypeOK
  <2>2. pc' \in [Worker -> {"idle", "split", "take", "first", "second", "param", "enter", "done"}]
    BY <1>1 DEF Basic, TypeOK
  <2>3. fault' \in {"none", "no types"}
    BY <1>1
  <2> QED
    BY <1>1, <2>1, <2>2, <2>3 DEF Basic, TypeOK
<1>4. StillStep(w)
  BY <1>1 DEF StillStep, Basic, TypeOK
<1>5. Texts' /\ Allocated' /\ Room' /\ \A p \in Pointer : Made(p) => Made(p)'
  BY <1>3, <1>4, StillKeeps
<1>6. Pointers'
  <2>1. ASSUME NEW v \in Worker
        PROVE  at'[v] # Null => Made(at[v])'
    <3>1. CASE at'[v] = at[v]
      BY <1>5, <3>1 DEF Basic, Pointers, Made, Freed, TypeOK
    <3>2. CASE at'[v] # at[v]
      <4>1. v = w /\ at'[v] = In(w, 1, 1) /\ dim[w] # 0 /\ pc'[w] = "first"
        BY <1>1, <3>2 DEF Basic, TypeOK
      <4>2. heap[<<w, 1>>] # <<>> /\ <<w, 1>> \in Buffer
        BY <1>1, <1>2, <4>1, DimIs DEF Basic, Allocated
      <4>3. 1 \in 1..Len(heap[<<w, 1>>])
        BY <4>2, EndedIs DEF Basic, Texts
      <4>4. dim'[w] >= 1
        <5>1. dim[w] \in Nat
          BY DimIs DEF Basic
        <5>2. dim'[w] = dim[w] /\ dim[w] # 0
          BY <1>1, <4>1
        <5> QED
          BY <5>1, <5>2
      <4>5. at'[v].buf = <<w, 1>> /\ at'[v].pos = 1 /\ at'[v] \in Pointer
        BY <1>2, <4>1 DEF In
      <4>6. 1 \in 1..Len(heap'[<<w, 1>>])
        BY <1>1, <4>3
      <4> QED
        BY <4>1, <4>4, <4>5, <4>6 DEF Made, Freed
    <3> QED
      BY <3>1, <3>2
  <2>2. olds' # Null => Made(olds)'
    BY <1>1, <1>5 DEF Basic, Pointers, Made, Freed, TypeOK
  <2>3. ASSUME NEW v \in Worker
        PROVE  (token1'[v] # Null => Made(token1[v])') /\ (token2'[v] # Null => Made(token2[v])')
    BY <1>1, <1>5 DEF Basic, Pointers, Made, Freed, TypeOK
  <2> QED
    BY <2>1, <2>2, <2>3 DEF Pointers
<1>7. StepOf(w)'
  <2>1. StepOf(w)
    BY DEF Basic, Steps
  <2>2. CASE UNCHANGED <<pc, at>>
    BY <1>1, <2>1, <2>2 DEF StepOf, Splits, Cuts, Entries
  <2>3. CASE dim[w] # 0 /\ at' = [at EXCEPT ![w] = In(w, 1, 1)] /\ pc' = [pc EXCEPT ![w] = "first"]
    <3>1. at'[w] = In(w, 1, 1) /\ pc'[w] = "first"
      BY <2>3 DEF Basic, TypeOK
    <3>2. list[w] = <<>> /\ Len(list[w]) = 0 /\ 0 < dim[w] /\ Len(list[w]) + 1 = 1
      <4>1. list[w] = <<>>
        BY <1>1, <2>1 DEF StepOf, Splits
      <4>2. dim[w] \in Nat
        BY DimIs DEF Basic
      <4> QED
        BY <2>3, <4>1, <4>2
    <3> QED
      BY <1>1, <1>2, <2>1, <2>3, <3>1, <3>2 DEF StepOf, Splits, Cuts, Entries
  <2> QED
    BY <1>1, <2>2, <2>3
<1>8. Steps'
  BY <1>1, <1>7, StepsKept
<1> QED
  BY <1>3, <1>5, <1>6, <1>8 DEF Basic

(***************************************************************************)
(* The entry that is made.                                                 *)
(***************************************************************************)
NewEntry(w) ==
  LET rated == token2[w] # Null
  IN Entry(StringAt(token1[w]), rated, IF rated THEN StringAt(token2[w]) ELSE <<>>)

\* It is put behind the others.
LEMMA EntryAdded ==
  ASSUME Basic, NEW w \in Worker, EntryMade(w)
  PROVE  /\ pc[w] = "enter" /\ token1[w] # Null
         /\ list' \in [Worker -> Seq([extension : Extension, q : 0..10])]
         /\ Len(list[w]) \in Nat /\ Len(list[w]) < dim[w]
         /\ Len(list'[w]) = Len(list[w]) + 1
         /\ list'[w][Len(list[w]) + 1] = NewEntry(w)
         /\ \A n \in 1..Len(list[w]) : list'[w][n] = list[w][n]
<1> DEFINE E == [extension : Extension, q : 0..10]
           s == list[w]
           e == NewEntry(w)
<1>1. list \in [Worker -> Seq(E)] /\ s \in Seq(E)
  BY DEF Basic, TypeOK
<1>2. e \in E
  BY EntryType DEF NewEntry
<1>3. /\ pc[w] = "enter" /\ token1[w] # Null
      /\ list' = [list EXCEPT ![w] = Append(s, e)]
  BY DEF EntryMade, NewEntry
<1> HIDE DEF E, e
<1>4. Append(s, e) \in Seq(E) /\ list'[w] = Append(s, e)
  BY <1>1, <1>2, <1>3, AppendProperties
<1>5. list' \in [Worker -> Seq(E)]
  BY <1>1, <1>3, <1>4
<1>6. Len(Append(s, e)) = Len(s) + 1 /\ Append(s, e)[Len(s) + 1] = e
  BY <1>1, <1>2, AppendProperties
<1>7. \A n \in 1..Len(s) : Append(s, e)[n] = s[n]
  BY <1>1, <1>2, AppendProperties
<1>8. Len(s) \in Nat /\ Len(s) < dim[w]
  BY <1>1, <1>3 DEF Basic, Steps, StepOf, Entries, Cuts
<1> QED
  BY <1>3, <1>4, <1>5, <1>6, <1>7, <1>8 DEF E, e

\* The next copy is looked at.
LEMMA EnterBasic ==
  ASSUME Basic, NEW w \in Worker, ThreadStep(w), Enter(w)
  PROVE  Basic'
<1> DEFINE n == Len(list[w]) + 1
           m == n + 1
<1>1. /\ pc[w] = "enter"
      /\ list' \in [Worker -> Seq([extension : Extension, q : 0..10])]
      /\ Len(list[w]) \in Nat /\ Len(list'[w]) = n
  BY EntryAdded DEF Enter
<1>2. /\ n < dim[w]
      /\ at' = [at EXCEPT ![w] = In(w, m, 1)]
      /\ pc' = [pc EXCEPT ![w] = "first"]
      /\ UNCHANGED <<line, token1, token2, dim, heap, olds, crossed, fault>>
      /\ fault = "none"
  BY <1>1 DEF Enter, NextType, Go, ThreadStep, In
<1>3. dim[w] \in Nat /\ n \in Nat /\ m \in 1..dim[w] /\ m \in 0..dim[w]
  BY <1>1, <1>2, DimIs DEF Basic
<1> HIDE DEF n, m
<1>4. In(w, m, 1) \in Pointer /\ In(w, m, 1) # Null /\ <<w, m>> \in Buffer
  BY <1>3, DimIs, Constants DEF Pointer, In, Basic
<1>5. TypeOK'
  <2>1. at' \in [Worker -> Pointer \cup {Null}]
    BY <1>2, <1>4 DEF Basic, TypeOK
  <2>2. pc' \in [Worker -> {"idle", "split", "take", "first", "second", "param", "enter", "done"}]
    BY <1>2 DEF Basic, TypeOK
  <2> QED
    BY <1>1, <1>2, <2>1, <2>2 DEF Basic, TypeOK
<1>6. StillStep(w)
  BY <1>1, <1>2 DEF StillStep, Basic, TypeOK
<1>7. Texts' /\ Allocated' /\ Room' /\ \A p \in Pointer : Made(p) => Made(p)'
  BY <1>5, <1>6, StillKeeps
<1>8. Pointers'
  <2>1. \A v \in Worker : at'[v] = IF v = w THEN In(w, m, 1) ELSE at[v]
    BY <1>2 DEF Basic, TypeOK
  <2>2. ASSUME NEW v \in Worker
        PROVE  at'[v] # Null => Made(at[v])'
    <3>1. CASE v # w
      BY <1>7, <2>1, <3>1 DEF Basic, Pointers, Made, Freed, TypeOK
    <3>2. CASE v = w
      <4>1. heap[<<w, m>>] # <<>>
        BY <1>1, <1>3 DEF Basic, Allocated
      <4>2. 1 \in 1..Len(heap'[<<w, m>>])
        BY <1>2, <1>4, <4>1, EndedIs DEF Basic, Texts
      <4>3. pc'[w] = "first" /\ m <= dim'[w]
        BY <1>2, <1>3 DEF Basic, TypeOK
      <4>4. at'[v].buf = <<w, m>> /\ at'[v].pos = 1 /\ at'[v] \in Pointer
        BY <1>4, <2>1, <3>2 DEF In
      <4> QED
        BY <4>2, <4>3, <4>4 DEF Made, Freed
    <3> QED
      BY <3>1, <3>2
  <2>3. olds' # Null => Made(olds)'
    BY <1>2, <1>7 DEF Basic, Pointers, Made, Freed, TypeOK
  <2>4. ASSUME NEW v \in Worker
        PROVE  (token1'[v] # Null => Made(token1[v])') /\ (token2'[v] # Null => Made(token2[v])')
    BY <1>2, <1>7 DEF Basic, Pointers, Made, Freed, TypeOK
  <2> QED
    BY <2>2, <2>3, <2>4 DEF Pointers
<1>9. StepOf(w)'
  <2>1. at'[w] = In(w, m, 1) /\ pc'[w] = "first"
    BY <1>2 DEF Basic, TypeOK
  <2>2. StepOf(w) /\ Len(list'[w]) + 1 = m
    BY <1>1 DEF Basic, Steps, n, m
  <2> QED
    BY <1>1, <1>2, <1>4, <2>1, <2>2 DEF StepOf, Splits, Cuts, Entries
<1>10. Steps'
  BY <1>2, <1>9, StepsKept
<1> QED
  BY <1>5, <1>7, <1>8, <1>10 DEF Basic

\* The texts are freed.
LEMMA ReturnBasic ==
  ASSUME Basic, NEW w \in Worker, ThreadStep(w), Return(w)
  PROVE  Basic'
<1> DEFINE c == <<w, dim[w]>>
           z == <<w, 0>>
<1>1. /\ pc[w] = "enter"
      /\ list' \in [Worker -> Seq([extension : Extension, q : 0..10])]
      /\ Len(list[w]) \in Nat /\ Len(list'[w]) = Len(list[w]) + 1
  BY EntryAdded DEF Return
<1>2. /\ Len(list'[w]) = dim[w]
      /\ heap' = [heap EXCEPT ![c] = <<>>, ![z] = <<>>]
      /\ pc' = [pc EXCEPT ![w] = "done"]
      /\ fault' \in {"none", "free"} /\ fault = "none"
      /\ UNCHANGED <<line, at, token1, token2, dim, olds, crossed>>
  BY DEF Return, Go, ThreadStep
<1>3. c \in Buffer /\ z \in Buffer /\ dim[w] # 0
  BY <1>1, <1>2, DimIs DEF Basic
<1>4. /\ DOMAIN heap' = Buffer /\ heap' = [b \in Buffer |-> heap'[b]]
      /\ \A b \in Buffer : heap'[b] = IF b \in {c, z} THEN <<>> ELSE heap[b]
  <2> HIDE DEF c, z
  <2> QED
    BY <1>2, <1>3 DEF Basic, TypeOK
<1> HIDE DEF c, z
<1>5. TypeOK'
  <2>1. pc' \in [Worker -> {"idle", "split", "take", "first", "second", "param", "enter", "done"}]
    BY <1>2 DEF Basic, TypeOK
  <2> QED
    BY <1>1, <1>2, <1>4, <2>1 DEF Basic, TypeOK
<1>6. Texts'
  BY <1>4 DEF Basic, Texts
<1>7. Stays
  <2>1. \A v \in Worker : dim[v] <= dim'[v]
    <3>1. \A v \in Worker : dim[v] \in Nat
      BY DimIs DEF Basic
    <3> QED
      BY <1>2, <3>1
  <2>2. \A v \in Worker : pc'[v] # "idle" \/ pc'[v] = pc[v]
    BY <1>2 DEF Basic, TypeOK
  <2>3. \A b \in Buffer : heap'[b] = <<>> \/ heap'[b] = heap[b]
    BY <1>4
  <2> QED
    BY <2>1, <2>2, <2>3 DEF Stays
<1>8. \A p \in Pointer : Made(p) => Made(p)'
  BY <1>5, <1>7, MadeStays DEF Basic
<1>9. Pointers'
  <2>1. olds' # Null => Made(olds)'
    BY <1>2, <1>8 DEF Basic, Pointers, Made, Freed, TypeOK
  <2>2. ASSUME NEW v \in Worker
        PROVE  /\ at'[v] # Null => Made(at[v])'
               /\ token1'[v] # Null => Made(token1[v])'
               /\ token2'[v] # Null => Made(token2[v])'
    BY <1>2, <1>8 DEF Basic, Pointers, Made, Freed, TypeOK
  <2> QED
    BY <2>1, <2>2 DEF Pointers
<1>10. Allocated'
  <2>1. ASSUME NEW v \in Worker, pc'[v] \notin {"idle", "done"}, NEW n \in 0..dim'[v]
        PROVE  heap'[<<v, n>>] # <<>>
    <3>1. v # w /\ pc[v] \notin {"idle", "done"} /\ n \in 0..dim[v]
      BY <1>2, <2>1 DEF Basic, TypeOK
    <3>2. <<v, n>> \in Buffer /\ heap[<<v, n>>] # <<>>
      BY <3>1, DimIs DEF Basic, Allocated
    <3>3. <<v, n>> \notin {c, z}
      BY <3>1 DEF c, z
    <3> QED
      BY <1>4, <3>2, <3>3
  <2> QED
    BY <2>1 DEF Allocated
<1>11. Room'
  BY <1>2 DEF Basic, Room
<1>12. StepOf(w)'
  <2>1. pc'[w] = "done" /\ StepOf(w)
    BY <1>2 DEF Basic, TypeOK, Steps
  <2> QED
    BY <1>1, <1>2, <1>3, <2>1 DEF StepOf, Splits, Cuts, Entries
<1>13. Steps'
  BY <1>2, <1>12, StepsKept
<1> QED
  BY <1>5, <1>6, <1>9, <1>10, <1>11, <1>13 DEF Basic

\* The process ends.
LEMMA FaultBasic ==
  ASSUME Basic, NEW w \in Worker, ThreadStep(w), EnterNull(w) \/ Dangle(w)
  PROVE  Basic'
<1>1. /\ UNCHANGED <<pc, line, at, token1, token2, dim, list, heap, olds, crossed>>
      /\ fault' \in {"null", "dangling"}
  BY DEF EnterNull, Dangle, thread
<1>2. TypeOK'
  BY <1>1 DEF Basic, TypeOK
<1>3. Texts' /\ Allocated' /\ Room'
  BY <1>1 DEF Basic, Texts, Allocated, Room, ThreadStep
<1>4. Pointers'
  BY <1>1 DEF Basic, Pointers, Made, Freed
<1>5. Steps'
  BY <1>1 DEF Basic, Steps, StepOf, Splits, Cuts, Entries
<1> QED
  BY <1>2, <1>3, <1>4, <1>5 DEF Basic

(***************************************************************************)
(* At the beginning, and after each step, this is so of all threads.       *)
(***************************************************************************)
LEMMA BasicInit == Init => Basic
<1> SUFFICES ASSUME Init PROVE Basic
  OBVIOUS
<1>1. TypeOK
  <2>1. \A w \in Worker : list[w] = <<>> /\ <<>> \in Seq([extension : Extension, q : 0..10])
    BY DEF Init
  <2> QED
    BY <2>1, Constants DEF Init, TypeOK
<1>2. Texts
  BY DEF Init, Texts
<1>3. Pointers
  BY DEF Init, Pointers
<1>4. Allocated
  BY DEF Init, Allocated
<1>5. Steps
  BY DEF Init, Steps, StepOf, Splits, Cuts, Entries
<1>6. Room
  BY Constants DEF Init, Room
<1> QED
  BY <1>1, <1>2, <1>3, <1>4, <1>5, <1>6 DEF Basic

\* So each step keeps this.
LEMMA BasicNext ==
  ASSUME Basic, NEW w \in Worker, ThreadStep(w)
  PROVE  Basic'
BY ParseBasic, CutBasic, ResumeBasic, KeepBasic, SplitEndBasic, EnterBasic, ReturnBasic, FaultBasic
DEF ThreadStep, ParseOn

-----------------------------------------------------------------------------
(* A thread that goes on in its own texts only: the steps of others.       *)

(***************************************************************************)
(* A thread that is not crossed by a step of another finds its texts as    *)
(* they were, and the place of strtok() too where it needs it.             *)
(***************************************************************************)
LEMMA Undisturbed ==
  ASSUME Basic, NEW w \in Worker, ThreadStep(w), NEW v \in Worker, v # w, ~crossed'[v]
  PROVE  /\ ~crossed[v] /\ Same(v)
         /\ \A n \in 0..preallocation : heap'[<<v, n>>] = heap[<<v, n>>]
         /\ pc[v] \in {"take", "second"} => olds' = olds
<1>1. ~crossed[v]
  BY CrossedGrows
<1>2. Same(v)
  BY OthersSame DEF Basic
<1>3. \A n \in 0..preallocation : <<v, n>> \in Buffer
  BY DEF Buffer
<1>4. ASSUME NEW sep, NEW s \in Nat, NEW e \in Nat, CutStep(w, sep, s, e)
      PROVE  /\ \A n \in 0..preallocation : heap'[<<v, n>>] = heap[<<v, n>>]
             /\ pc[v] \in {"take", "second"} => olds' = olds
  <2>1. Calls(w, sep) /\ CutAt(w, sep, s, e)
    BY <1>4 DEF CutStep
  <2>2. \A c \in Buffer : c # at[w].buf => heap'[c] = heap[c]
    BY <2>1, CutDoes
  <2>3. crossed'[v] = (crossed[v] \/ (v # w /\ (pc[v] \in {"take", "second"} \/ at[w].buf[1] = v)))
    BY <2>1 DEF CutAt, Crosses
  <2>4. ~(pc[v] \in {"take", "second"}) /\ at[w].buf[1] # v
    BY <2>3
  <2> QED
    BY <1>3, <2>2, <2>4
<1>5. /\ \A n \in 0..preallocation : heap'[<<v, n>>] = heap[<<v, n>>]
      /\ pc[v] \in {"take", "second"} => olds' = olds
  <2>1. CASE Parse(w)
    BY <1>3, <2>1 DEF Parse, Basic, TypeOK
  <2>2. CASE Split(w)
    BY <1>4, <2>2, SplitCuts DEF ThreadStep
  <2>3. CASE Discard(w)
    BY <2>3 DEF Discard
  <2>4. CASE Keep(w)
    <3>1. UNCHANGED olds /\ \E n, x : heap' = [heap EXCEPT ![<<w, n>>] = x]
      BY <2>4 DEF Keep
    <3> QED
      BY <1>3, <3>1 DEF Basic, TypeOK
  <2>5. CASE SplitEnd(w)
    BY <2>5 DEF SplitEnd
  <2>6. CASE CutName(w)
    BY <1>4, <2>6, NameCuts DEF ThreadStep
  <2>7. CASE GoOn(w)
    BY <2>7 DEF GoOn
  <2>8. CASE CutQuality(w)
    BY <1>4, <2>8, QualityCuts DEF ThreadStep
  <2>9. CASE Enter(w)
    BY <2>9 DEF Enter
  <2>10. CASE Return(w)
    <3>1. UNCHANGED olds /\ heap' = [heap EXCEPT ![<<w, dim[w]>>] = <<>>, ![<<w, 0>>] = <<>>]
      BY <2>10 DEF Return
    <3> QED
      BY <1>3, <3>1 DEF Basic, TypeOK
  <2>11. CASE EnterNull(w) \/ Dangle(w)
    BY <2>11 DEF EnterNull, Dangle
  <2> QED
    BY <2>1, <2>2, <2>3, <2>4, <2>5, <2>6, <2>7, <2>8, <2>9, <2>10, <2>11
    DEF ThreadStep, ParseOn
<1> QED
  BY <1>1, <1>2, <1>5

(***************************************************************************)
(* So all that is said of it still is so.                                  *)
(***************************************************************************)
LEMMA AloneKept ==
  ASSUME Basic, NEW w \in Worker, ThreadStep(w), NEW v \in Worker, v # w, AloneOf(v)
  PROVE  AloneOf(v)'
<1> SUFFICES ASSUME ~crossed'[v]
             PROVE  Splitting(v)' /\ Taking(v)' /\ Cutting(v)' /\ Listing(v)'
  BY DEF AloneOf
<1>1. /\ ~crossed[v] /\ Same(v)
      /\ \A n \in 0..preallocation : heap'[<<v, n>>] = heap[<<v, n>>]
      /\ pc[v] \in {"take", "second"} => olds' = olds
  BY Undisturbed
<1>2. Splitting(v) /\ Taking(v) /\ Cutting(v) /\ Listing(v)
  BY <1>1 DEF AloneOf
<1>3. /\ pc'[v] = pc[v] /\ line'[v] = line[v] /\ at'[v] = at[v]
      /\ token1'[v] = token1[v] /\ token2'[v] = token2[v]
      /\ dim'[v] = dim[v] /\ list'[v] = list[v]
  BY <1>1 DEF Same
<1>4. /\ dim[v] \in Nat /\ dim[v] <= preallocation /\ preallocation \in Nat
      /\ Len(list[v]) \in Nat
      /\ pc[v] \in Entries => Len(list[v]) < dim[v]
      /\ pc[v] = "done" => Len(list[v]) = dim[v]
  <2>1. list[v] \in Seq([extension : Extension, q : 0..10])
    BY DEF Basic, TypeOK
  <2>2. Len(list[v]) \in Nat
    BY <2>1
  <2> QED
    BY <2>2, DimIs, Constants DEF Basic, Steps, StepOf
<1>5. ASSUME NEW n \in 0..dim[v]
      PROVE  heap'[<<v, n>>] = heap[<<v, n>>] /\ (Waiting(v, n) => Waiting(v, n)')
  <2>1. n \in 0..preallocation
    BY <1>4
  <2>2. heap'[<<v, n>>] = heap[<<v, n>>]
    BY <1>1, <2>1
  <2> QED
    BY <1>3, <2>2 DEF Waiting
<1>6. 0 \in 0..dim[v]
  BY <1>4
<1>7. ASSUME NEW p \in Nat
      PROVE  (FromHere(v, p) => FromHere(v, p)') /\ (Copied(v, p) => Copied(v, p)')
  <2>1. FromHere(v, p) => FromHere(v, p)'
    BY <1>3, <1>5, <1>6 DEF FromHere
  <2>2. \A n \in 1..dim[v] : n \in 0..dim[v]
    BY <1>4
  <2>3. Copied(v, p) => Copied(v, p)'
    BY <1>3, <1>5, <2>2 DEF Copied
  <2> QED
    BY <2>1, <2>3
<1>8. Splitting(v)'
  BY <1>2, <1>3, <1>7 DEF Splitting
<1>9. Taking(v)'
  <2> SUFFICES ASSUME pc[v] = "take"
               PROVE  \E p \in Nat : olds' = In(v, 0, p) /\ FromHere(v, p)' /\ Taken(v, p)'
    BY <1>3 DEF Taking
  <2>1. PICK p \in Nat : olds = In(v, 0, p) /\ FromHere(v, p) /\ Taken(v, p)
    BY <1>2 DEF Taking
  <2>2. olds' = olds
    BY <1>1
  <2>3. Taken(v, p)'
    <3>1. CASE token1[v] = Null
      BY <1>3, <1>7, <2>1, <3>1 DEF Taken
    <3>2. CASE token1[v] # Null
      <4> DEFINE l == line[v]
      <4>1. PICK r \in Types(l) :
              /\ token1[v] = In(v, 0, r[1])
              /\ StringFrom(heap[<<v, 0>>], r[1]) = SubSeq(l, r[1], r[2])
              /\ Behind(l, p) = Behind(l, r[1]) \cup ({r} \cap Kept(l))
              /\ r \in Kept(l) => r \notin Behind(l, r[1]) /\ Place(l, r) = Cardinality(Behind(l, p))
              /\ Copied(v, r[1])
        BY <2>1, <3>2 DEF Taken
      <4>2. heap'[<<v, 0>>] = heap[<<v, 0>>]
        BY <1>5, <1>6
      <4>4. r[1] \in Nat
        <5>1. IsText(l)
          BY Constants DEF Basic, Steps, StepOf
        <5> QED
          BY <5>1, TypeIs, LineIs, EndedIs
      <4>5. Copied(v, r[1])'
        BY <1>7, <4>1, <4>4
      <4> QED
        BY <1>3, <3>2, <4>1, <4>2, <4>5 DEF Taken
    <3> QED
      BY <3>1, <3>2
  <2> QED
    BY <1>7, <2>1, <2>2, <2>3
<1>10. Cutting(v)'
  <2> DEFINE l == line[v]
             n == Len(list[v]) + 1
             t == heap[<<v, n>>]
             Named(r, q) == NameCut(l, r, token1[v], <<v, n>>, t, q)
  <2> SUFFICES ASSUME pc[v] \in Cuts
               PROVE  Cutting(v)'
    BY <1>3 DEF Cutting
  <2>1. heap'[<<v, n>>] = heap[<<v, n>>] /\ Len(list'[v]) + 1 = n
    <3>1. n \in 0..dim[v]
      BY <1>4 DEF Entries
    <3> HIDE DEF n
    <3> QED
      BY <1>3, <1>5, <3>1 DEF n
  <2>3. PICK r \in Kept(l) :
         /\ Place(l, r) = n
         /\ pc[v] # "enter" =>
              \E q \in Nat :
                /\ In(v, n, q) = IF pc[v] = "second" THEN olds ELSE at[v]
                /\ Named(r, q) /\ RestFrom(l, r, t, q)
         /\ pc[v] = "enter" =>
              /\ \E q \in Nat : Named(r, q)
              /\ Parts(l, r) # {} => QualityCut(l, r, token2[v], <<v, n>>, t)
    BY <1>2 DEF Cutting
  <2>4. (IF pc'[v] = "second" THEN olds' ELSE at'[v]) = IF pc[v] = "second" THEN olds ELSE at[v]
    BY <1>1, <1>3
  <2> HIDE DEF n
  <2>5. /\ line'[v] = l /\ heap'[<<v, n>>] = t /\ pc'[v] = pc[v]
        /\ token1'[v] = token1[v] /\ token2'[v] = token2[v]
    BY <1>3, <2>1
  <2> HIDE DEF l, t
  <2> QED
    BY <2>1, <2>3, <2>4, <2>5 DEF Cutting
<1>11. Listing(v)'
  <2> SUFFICES ASSUME pc[v] \in Entries \cup {"done"}
               PROVE  Listing(v)'
    BY <1>3 DEF Listing
  <2>1. /\ dim[v] = Cardinality(Kept(line[v]))
        /\ \A n \in 1..Len(list[v]) : Done(v, n)
        /\ \A n \in (Len(list[v]) + 1)..dim[v] :
             n # Len(list[v]) + 1 \/ pc[v] = "first" => Waiting(v, n)
    BY <1>2 DEF Listing
  <2>2. \A n : Done(v, n) => Done(v, n)'
    BY <1>3 DEF Done
  <2>3. \A n \in (Len(list[v]) + 1)..dim[v] : Waiting(v, n) => Waiting(v, n)'
    <3>1. \A n \in (Len(list[v]) + 1)..dim[v] : n \in 0..dim[v]
      BY <1>4
    <3> QED
      BY <1>5, <3>1
  <2> QED
    BY <1>3, <2>1, <2>2, <2>3 DEF Listing
<1> QED
  BY <1>8, <1>9, <1>10, <1>11

-----------------------------------------------------------------------------
(* A thread that goes on in its own texts only: its own steps.             *)

\* Parts of two texts that agree there.
LEMMA SubSeqSame ==
  ASSUME NEW t \in Seq(STRING), NEW u \in Seq(STRING), NEW a \in Nat, NEW z \in Nat,
         1 <= a, z <= Len(t), z <= Len(u), \A k \in a..z : t[k] = u[k]
  PROVE  SubSeq(t, a, z) = SubSeq(u, a, z)
<1> DEFINE x == SubSeq(t, a, z)
           y == SubSeq(u, a, z)
<1>1. \A i \in a..z : t[i] \in STRING /\ u[i] \in STRING
  OBVIOUS
<1>2. x \in Seq(STRING) /\ y \in Seq(STRING) /\ Len(x) = Len(y)
  BY <1>1, SubSeqProperties
<1>3. /\ Len(x) = IF a <= z THEN z - a + 1 ELSE 0
      /\ \A i \in 1..(z - a + 1) : x[i] = t[a + i - 1]
      /\ \A i \in 1..(z - a + 1) : y[i] = u[a + i - 1]
  BY <1>1, SubSeqProperties
<1>4. \A i \in 1..(z - a + 1) : a + i - 1 \in a..z
  OBVIOUS
<1>5. \A i \in 1..Len(x) : i \in 1..(z - a + 1)
  BY <1>3
<1>6. \A i \in 1..Len(x) : x[i] = y[i]
  BY <1>3, <1>4, <1>5
<1> HIDE DEF x, y
<1>7. x = y
  BY <1>2, <1>6, SeqEqual
<1> QED
  BY <1>7 DEF x, y

\* Where the line of a thread that parses it is.
LEMMA LineGiven ==
  ASSUME Basic, NEW w \in Worker, pc[w] # "idle"
  PROVE  IsText(line[w]) /\ Ended(line[w]) /\ Len(line[w]) \in Nat
BY Constants, LineIs, EndedIs DEF Basic, Steps, StepOf

\* The types that have been copied are still there.
LEMMA CopiedKept ==
  ASSUME Basic, NEW w \in Worker, line'[w] = line[w], dim'[w] = dim[w],
         \A n \in 1..dim[w] : heap'[<<w, n>>] = heap[<<w, n>>]
  PROVE  \A p \in Nat : Copied(w, p) => Copied(w, p)'
<1>1. \A n \in 1..dim[w] : Waiting(w, n) => Waiting(w, n)'
  BY DEF Waiting
<1> QED
  BY <1>1 DEF Copied

\* A line is given: no type is copied yet.
LEMMA AloneParse ==
  ASSUME Basic, NEW w \in Worker, ThreadStep(w), Parse(w)
  PROVE  AloneOf(w)'
<1>1. PICK l \in Line[w] :
        /\ line' = [line EXCEPT ![w] = l]
        /\ heap' = [heap EXCEPT ![<<w, 0>>] = l]
  BY DEF Parse
<1>2. /\ pc'[w] = "split" /\ at'[w] = In(w, 0, 1) /\ line'[w] = l
      /\ heap'[<<w, 0>>] = l /\ dim'[w] = 0
  <2>1. <<w, 0>> \in Buffer
    BY Constants DEF Buffer
  <2> QED
    BY <1>1, <2>1 DEF Parse, Basic, TypeOK, Steps, StepOf, Go, In
<1>3. IsText(l) /\ Ended(l) /\ Len(l) \in Nat /\ Len(l) # 0
  BY Constants, LineIs, EndedIs
<1>4. Behind(l, 1) = {}
  <2>1. ASSUME NEW r \in Kept(l)
        PROVE  ~(r[2] < 1)
    BY <1>3, TypeIs DEF Kept
  <2> QED
    BY <2>1 DEF Behind
<1>5. Cardinality(Behind(l, 1)) = 0
  BY <1>4, FS_EmptySet
<1>6. FromHere(w, 1)' /\ Copied(w, 1)'
  <2>1. 1 \in 1..Len(l)
    BY <1>3
  <2>2. FromHere(w, 1)'
    BY <1>2, <2>1 DEF FromHere
  <2>3. Copied(w, 1)'
    BY <1>2, <1>5 DEF Copied
  <2> QED
    BY <2>2, <2>3
<1>7. Splitting(w)'
  BY <1>2, <1>6 DEF Splitting
<1> QED
  BY <1>2, <1>7 DEF AloneOf, Taking, Cutting, Listing, Cuts, Entries

(***************************************************************************)
(* The token that Split cuts out is the next type, or there is none.       *)
(***************************************************************************)
LEMMA AloneSplit ==
  ASSUME Basic, NEW w \in Worker, ThreadStep(w), Split(w), AloneOf(w)
  PROVE  AloneOf(w)'
<1> SUFFICES ASSUME ~crossed[w]
             PROVE  Splitting(w)' /\ Taking(w)' /\ Cutting(w)' /\ Listing(w)'
  BY CrossedGrows DEF AloneOf
<1> DEFINE l == line[w]
           b == <<w, 0>>
           t == heap[b]
           u == heap'[b]
           N == Len(l)
<1>1. pc[w] = "split" /\ pc'[w] = "take" /\ token1'[w] = Token(w, Comma)
      /\ UNCHANGED <<line, dim>>
  BY DEF Split, Go, Basic, TypeOK
<1>2. PICK p \in Nat : at[w] = In(w, 0, p) /\ FromHere(w, p) /\ Copied(w, p)
  BY <1>1 DEF AloneOf, Splitting
<1>3. PICK s, e \in Nat : CutStep(w, Comma, s, e)
  BY SplitCuts DEF ThreadStep
<1>4. at[w].buf = b /\ at[w].pos = p
  BY <1>2 DEF In
<1>5. Calls(w, Comma) /\ CutAt(w, Comma, s, e)
  BY <1>3 DEF CutStep
<1>6. /\ IsText(l) /\ Ended(l) /\ N \in Nat
      /\ \A k \in 1..N : l[k] = NUL => k = N
      /\ l[N] = NUL /\ N # 0
  BY <1>1, LineGiven, LineIs, EndedIs
<1>7. /\ p \in 1..N
      /\ p = 1 \/ l[p - 1] = Comma \/ p = N
      /\ Len(t) = N
      /\ \A k \in p..N : t[k] = l[k]
  BY <1>2 DEF FromHere
<1>80. LET B == at[w].buf
       IN /\ Ended(heap'[B]) /\ Len(heap'[B]) = Len(heap[B])
          /\ heap'[B][e] = NUL
          /\ \A k \in 1..Len(heap[B]) : k # e => heap'[B][k] = heap[B][k]
  BY <1>5, CutDoes
<1>8. /\ Ended(u) /\ Len(u) = N
      /\ u[e] = NUL /\ \A k \in 1..N : k # e => u[k] = t[k]
  BY <1>4, <1>7, <1>80
<1>90. LET B == at[w].buf
           Q == olds'.pos
       IN /\ olds' = [buf |-> B, pos |-> Q] /\ Q \in 1..Len(heap[B])
          /\ (Q = e /\ heap[B][e] = NUL) \/ (Q = e + 1 /\ heap[B][e] = Comma)
          /\ Token(w, Comma) = IF heap[B][s] = NUL THEN Null ELSE [buf |-> B, pos |-> s]
  BY <1>5, CutDoes
<1>9. PICK q \in Nat : 
      /\ olds' = In(w, 0, q)
      /\ q \in 1..N /\ ((q = e /\ t[e] = NUL) \/ (q = e + 1 /\ t[e] = Comma))
  BY <1>4, <1>6, <1>7, <1>90 DEF In
<1>10. token1'[w] = IF t[s] = NUL THEN Null ELSE In(w, 0, s)
  BY <1>1, <1>4, <1>90 DEF In
<1>11. \A n \in 1..dim[w] : heap'[<<w, n>>] = heap[<<w, n>>]
  <2>1. \A c \in Buffer : c # b => heap'[c] = heap[c]
    <3>1. \A c \in Buffer : c # at[w].buf => heap'[c] = heap[c]
      BY <1>5, CutDoes
    <3> QED
      BY <1>4, <3>1
  <2>2. ASSUME NEW n \in 1..dim[w]
        PROVE  <<w, n>> \in Buffer /\ n # 0
    BY DimIs DEF Basic
  <2> QED
    BY <2>1, <2>2
<1>12. /\ s \in p..N /\ e \in s..N
       /\ \A k \in p..(s - 1) : t[k] = Comma
       /\ t[s] # Comma
       /\ t[e] = Comma \/ t[e] = NUL
       /\ \A k \in s..(e - 1) : t[k] # Comma /\ t[k] # NUL
       /\ t[s] # NUL => s < e
  BY <1>4, <1>5, <1>7 DEF CutAt, IsToken
<1> HIDE DEF l, b, t, u, N
<1>13. /\ \A k \in p..(s - 1) : l[k] = Comma
       /\ l[s] # Comma /\ t[s] = l[s] /\ t[e] = l[e]
       /\ l[e] = Comma \/ l[e] = NUL
       /\ \A k \in s..(e - 1) : l[k] # Comma /\ l[k] # NUL
       /\ l[s] # NUL => s < e
       /\ s \in 1..N /\ e \in 1..N /\ s \in Nat /\ e \in Nat
  BY <1>6, <1>7, <1>12
<1>14. FromHere(w, q)'
  <2>1. q = 1 \/ l[q - 1] = Comma \/ q = N
    <3>1. CASE q = e /\ t[e] = NUL
      BY <1>6, <1>13, <3>1
    <3>2. CASE q = e + 1 /\ t[e] = Comma
      <4>1. q - 1 = e /\ l[e] = Comma
        BY <1>13, <3>2
      <4> QED
        BY <4>1
    <3> QED
      BY <1>9, <3>1, <3>2
  <2>2. ASSUME NEW k \in q..N
        PROVE  u[k] = l[k]
    <3>1. k \in p..N /\ k \in 1..N
      BY <1>6, <1>7, <1>9, <1>12, <2>2
    <3>2. CASE k = e
      <4>1. l[e] = NUL
        BY <1>9, <1>13, <2>2, <3>2
      <4> QED
        BY <1>8, <3>2, <4>1
    <3>3. CASE k # e
      BY <1>7, <1>8, <3>1, <3>3
    <3> QED
      BY <3>2, <3>3
  <2>3. line'[w] = l /\ heap'[<<w, 0>>] = u
    BY <1>1 DEF l, u, b
  <2> QED
    BY <1>8, <1>9, <2>1, <2>2, <2>3 DEF FromHere, N
<1>15. Behind(l, s) = Behind(l, p)
  BY <1>6, <1>12, <1>13, NoTypeInCommas
<1>16. Copied(w, p)' /\ Copied(w, s)'
  <2>1. Copied(w, p)'
    BY <1>1, <1>2, <1>11, CopiedKept
  <2>2. Copied(w, s)'
    BY <1>1, <1>15, <2>1 DEF Copied, l
  <2> QED
    BY <2>1, <2>2
<1>17. Taken(w, q)'
  <2>1. CASE l[s] = NUL
    <3>1. s = N /\ q = N /\ token1'[w] = Null
      BY <1>6, <1>9, <1>10, <1>12, <1>13, <2>1
    <3>2. Behind(l, N) = Kept(l)
      <4>1. ASSUME NEW r \in Kept(l)
            PROVE  r[2] < N
        <5>1. r[2] \in r[1]..(N - 1)
          BY <1>6, TypeIs DEF Kept, N
        <5> QED
          BY <1>6, <5>1
      <4> QED
        BY <4>1 DEF Behind
    <3>3. q = s /\ Copied(w, q)'
      BY <1>16, <3>1
    <3>4. line'[w] = l /\ Behind(l, q) = Kept(l)
      BY <1>1, <3>1, <3>2 DEF l
    <3> QED
      BY <3>1, <3>3, <3>4 DEF Taken
  <2>2. CASE l[s] # NUL
    <3> DEFINE r == <<s, e - 1>>
    <3>1. s < e /\ token1'[w] = In(w, 0, s)
      BY <1>10, <1>13, <2>2
    <3>2. s = 1 \/ l[s - 1] = Comma
      <4>1. CASE s = p
        BY <1>6, <1>7, <2>2, <4>1
      <4>2. CASE s # p
        BY <1>12, <1>13, <4>2
      <4> QED
        BY <4>1, <4>2
    <3>3. /\ r \in Types(l)
          /\ \A o \in Types(l) :
               /\ o[1] <= s => o = r \/ o[2] < s
               /\ o[2] <= e => o = r \/ (o[2] < s /\ o[1] <= s)
      BY <1>6, <1>13, <3>1, <3>2, TokenIsType DEF N
    <3>4. \A o \in Kept(l) : o \in Types(l) /\ o[1] \in Nat /\ o[2] \in Nat
      BY <1>6, TypeIs DEF Kept, N
    <3>5. r[1] = s /\ r[2] = e - 1 /\ e - 1 \in Nat /\ e - 1 < q /\ s <= e - 1
      BY <1>9, <1>13, <3>1
    <3> HIDE DEF r
    <3>6. ASSUME NEW o \in Kept(l)
          PROVE  /\ o[2] < q <=> o[2] < s \/ o = r
                 /\ o[1] <= s <=> o[2] < q
      <4>1. o[2] < q => o = r \/ (o[2] < s /\ o[1] <= s)
        BY <1>9, <3>3, <3>4
      <4>2. o = r \/ o[2] < s => o[2] < q
        BY <1>9, <1>13, <3>4, <3>5
      <4>3. o[1] <= s => o[2] < q
        BY <3>3, <3>4, <4>2
      <4>4. o[2] < q => o[1] <= s
        BY <3>5, <4>1
      <4> QED
        BY <4>1, <4>2, <4>3, <4>4
    <3>7. Behind(l, q) = Behind(l, s) \cup ({r} \cap Kept(l))
      BY <3>6 DEF Behind
    <3>8. r \in Kept(l) => r \notin Behind(l, s) /\ Place(l, r) = Cardinality(Behind(l, q))
      <4>1. r \notin Behind(l, s)
        BY <3>5 DEF Behind
      <4>2. {o \in Kept(l) : o[1] <= s} = Behind(l, q)
        BY <3>6 DEF Behind
      <4> QED
        BY <3>5, <4>1, <4>2 DEF Place
    <3>9. StringFrom(u, s) = SubSeq(l, s, e - 1)
      <4>1. u[e] = NUL /\ \A k \in s..(e - 1) : u[k] = l[k] /\ l[k] # NUL
        BY <1>6, <1>7, <1>8, <1>12, <1>13
      <4>2. StringFrom(u, s) = SubSeq(u, s, e - 1)
        <5>1. s \in 1..Len(u) /\ e \in s..Len(u) /\ \A k \in s..(e - 1) : u[k] # NUL
          BY <1>8, <1>12, <1>13, <4>1
        <5> QED
          BY <1>8, <4>1, <5>1, StringEnds
      <4>3. u \in Seq(STRING) /\ l \in Seq(STRING)
        BY <1>6, <1>8, EndedIs
      <4>4. e - 1 <= Len(u) /\ e - 1 <= Len(l) /\ 1 <= s
        BY <1>6, <1>8, <1>13 DEF N
      <4>5. \A k \in s..(e - 1) : u[k] = l[k]
        BY <4>1
      <4>6. SubSeq(u, s, e - 1) = SubSeq(l, s, e - 1)
        BY <1>13, <3>5, <4>3, <4>4, <4>5, SubSeqSame
      <4> QED
        BY <4>2, <4>6
    <3>10. token1'[w] # Null
      BY <3>1, <1>13, Constants, LineGiven DEF In, Pointer, Buffer
    <3>11. line'[w] = l /\ heap'[<<w, 0>>] = u
      BY <1>1 DEF l, u, b
    <3>12. Copied(w, r[1])'
      BY <1>16, <3>5
    <3> QED
      BY <3>1, <3>3, <3>5, <3>7, <3>8, <3>9, <3>10, <3>11, <3>12 DEF Taken
  <2> QED
    BY <2>1, <2>2
<1>18. Taking(w)'
  BY <1>6, <1>9, <1>14, <1>17 DEF Taking
<1> QED
  BY <1>1, <1>18 DEF Splitting, Cutting, Listing, Cuts, Entries

\* A type is kept if the string of it has no word of a text.
LEMMA HasKept ==
  ASSUME NEW l, IsText(l), NEW r \in Types(l)
  PROVE  Has(SubSeq(l, r[1], r[2]), Text) <=> r \notin Kept(l)
<1> DEFINE a == r[1]
           z == r[2]
           x == SubSeq(l, a, z)
<1>1. l \in Seq(STRING) /\ Len(l) \in Nat /\ a \in 1..Len(l) /\ z \in a..(Len(l) - 1)
  BY LineIs, EndedIs, TypeIs
<1>2. r \notin Kept(l) <=> \E k \in a..z : l[k] \in Text
  BY DEF Kept
<1> HIDE DEF a, z
<1>3. /\ Len(x) = z - a + 1
      /\ \A i \in 1..(z - a + 1) : x[i] = l[a + i - 1]
  BY <1>1
<1> HIDE DEF x
<1>4. Has(x, Text) <=> \E i \in 1..Len(x) : x[i] \in Text
  BY DEF Has, Symbols
<1>5. ASSUME NEW i \in 1..Len(x), x[i] \in Text
      PROVE  \E k \in a..z : l[k] \in Text
  <2>1. a + i - 1 \in a..z /\ x[i] = l[a + i - 1]
    BY <1>1, <1>3, <1>5
  <2> QED
    BY <1>5, <2>1
<1>6. ASSUME NEW k \in a..z, l[k] \in Text
      PROVE  \E i \in 1..Len(x) : x[i] \in Text
  <2> DEFINE i == k - a + 1
  <2>1. i \in 1..(z - a + 1) /\ a + i - 1 = k
    BY <1>1
  <2> HIDE DEF i
  <2>2. x[i] = l[k] /\ i \in 1..Len(x)
    BY <1>3, <2>1
  <2> QED
    BY <1>6, <2>2
<1> QED
  BY <1>2, <1>4, <1>5, <1>6 DEF a, z, x

(***************************************************************************)
(* A type that is taken is the next one, if it is kept; if it is none of   *)
(* those, all that end before the place of strtok() have been copied.      *)
(***************************************************************************)
LEMMA TokenTaken ==
  ASSUME Basic, NEW w \in Worker, AloneOf(w), ~crossed[w], pc[w] = "take", token1[w] # Null
  PROVE  LET l == line[w]
         IN \E p \in Nat, r \in Types(l) :
              /\ olds = In(w, 0, p) /\ FromHere(w, p)
              /\ StringAt(token1[w]) = SubSeq(l, r[1], r[2])
              /\ Has(StringAt(token1[w]), Text) <=> r \notin Kept(l)
              /\ r \notin Kept(l) => Copied(w, p)
              /\ r \in Kept(l) =>
                   /\ Place(l, r) = dim[w] + 1
                   /\ Cardinality(Behind(l, p)) = dim[w] + 1
                   /\ dim[w] < Cardinality(Kept(l))
                   /\ \A n \in 1..dim[w] : Waiting(w, n)
<1> DEFINE l == line[w]
<1>1. PICK p \in Nat : olds = In(w, 0, p) /\ FromHere(w, p) /\ Taken(w, p)
  BY DEF AloneOf, Taking
<1>2. PICK r \in Types(l) :
        /\ token1[w] = In(w, 0, r[1])
        /\ StringFrom(heap[<<w, 0>>], r[1]) = SubSeq(l, r[1], r[2])
        /\ Behind(l, p) = Behind(l, r[1]) \cup ({r} \cap Kept(l))
        /\ r \in Kept(l) => r \notin Behind(l, r[1]) /\ Place(l, r) = Cardinality(Behind(l, p))
        /\ Copied(w, r[1])
  BY <1>1 DEF Taken
<1>3. IsText(l)
  BY LineGiven
<1>4. StringAt(token1[w]) = SubSeq(l, r[1], r[2])
  <2>1. token1[w].buf = <<w, 0>> /\ token1[w].pos = r[1]
    BY <1>2 DEF In
  <2>2. StringAt(token1[w]) = StringFrom(heap[<<w, 0>>], r[1])
    BY <2>1 DEF StringAt, StringFrom
  <2> QED
    BY <1>2, <2>2
<1>5. Has(StringAt(token1[w]), Text) <=> r \notin Kept(l)
  BY <1>3, <1>4, HasKept
<1>6. r \notin Kept(l) => Copied(w, p)
  BY <1>2 DEF Copied
<1>7. ASSUME r \in Kept(l)
      PROVE  /\ Place(l, r) = dim[w] + 1
             /\ Cardinality(Behind(l, p)) = dim[w] + 1
             /\ dim[w] < Cardinality(Kept(l))
             /\ \A n \in 1..dim[w] : Waiting(w, n)
  <2> DEFINE B == Behind(l, r[1])
  <2>1. B \in SUBSET Kept(l) /\ Behind(l, p) \in SUBSET Kept(l)
    BY DEF Behind
  <2>2. dim[w] = Cardinality(B) /\ \A n \in 1..dim[w] : Waiting(w, n)
    BY <1>2 DEF Copied
  <2>3. Behind(l, p) = B \cup {r} /\ r \notin B
    BY <1>2, <1>7
  <2>4. IsFiniteSet(B) /\ Cardinality(Behind(l, p)) <= Cardinality(Kept(l))
    BY <1>3, <2>1, KeptFinite
  <2>5. Cardinality(Behind(l, p)) = Cardinality(B) + 1
    BY <2>3, <2>4, FS_AddElement
  <2>6. Cardinality(B) \in Nat /\ Cardinality(Kept(l)) \in Nat
    BY <1>3, <2>1, KeptFinite
  <2>7. Place(l, r) = Cardinality(Behind(l, p))
    BY <1>2, <1>7
  <2> HIDE DEF l, B
  <2> QED
    BY <2>2, <2>4, <2>5, <2>6, <2>7
<1> QED
  BY <1>1, <1>4, <1>5, <1>6, <1>7

\* A text is passed over.
LEMMA AloneDiscard ==
  ASSUME Basic, NEW w \in Worker, ThreadStep(w), Discard(w), AloneOf(w)
  PROVE  AloneOf(w)'
<1> SUFFICES ASSUME ~crossed[w]
             PROVE  Splitting(w)' /\ Taking(w)' /\ Cutting(w)' /\ Listing(w)'
  BY CrossedGrows DEF AloneOf
<1>1. /\ pc[w] = "take" /\ token1[w] # Null /\ Has(StringAt(token1[w]), Text)
      /\ pc'[w] = "split" /\ at'[w] = olds
      /\ UNCHANGED <<line, dim, heap>>
  BY DEF Discard, Go, Resume, Basic, TypeOK
<1>2. PICK p \in Nat : olds = In(w, 0, p) /\ FromHere(w, p) /\ Copied(w, p)
  BY <1>1, TokenTaken
<1>3. Copied(w, p)'
  BY <1>1, <1>2, CopiedKept
<1>4. FromHere(w, p)'
  BY <1>1, <1>2 DEF FromHere
<1>5. Splitting(w)'
  BY <1>1, <1>2, <1>3, <1>4 DEF Splitting
<1> QED
  BY <1>1, <1>5 DEF Taking, Cutting, Listing, Cuts, Entries

(***************************************************************************)
(* What a step of Keep does to the texts.                                  *)
(***************************************************************************)
LEMMA KeepDoes ==
  ASSUME Basic, NEW w \in Worker, ThreadStep(w), Keep(w)
  PROVE  /\ pc[w] = "take" /\ token1[w] # Null /\ ~Freed(token1[w])
         /\ ~Has(StringAt(token1[w]), Text)
         /\ pc'[w] = "split" /\ at'[w] = olds /\ line' = line /\ token1' = token1
         /\ dim[w] \in Nat /\ dim'[w] = dim[w] + 1
         /\ heap'[<<w, dim[w] + 1>>] = Append(StringAt(token1[w]), NUL)
         /\ \A c \in Buffer : c # <<w, dim[w] + 1>> => heap'[c] = heap[c]
         /\ fault' = IF dim[w] + 1 = preallocation THEN "overrun" ELSE "none"
<1> DEFINE d == dim[w] + 1
<1>1. /\ pc[w] = "take" /\ token1[w] # Null /\ ~Freed(token1[w])
      /\ ~Has(StringAt(token1[w]), Text)
      /\ pc'[w] = "split" /\ at'[w] = olds /\ line' = line /\ token1' = token1
      /\ dim' = [dim EXCEPT ![w] = d]
      /\ heap' = [heap EXCEPT ![<<w, dim'[w]>>] = Append(StringAt(token1[w]), NUL)]
      /\ fault' = IF dim'[w] = preallocation THEN "overrun" ELSE "none"
  BY DEF Keep, Go, Resume, Basic, TypeOK
<1>2. dim[w] \in Nat /\ dim[w] < preallocation
  BY DimIs DEF Basic, Room, ThreadStep
<1>3. d \in 0..preallocation
  BY <1>2, Constants
<1> HIDE DEF d
<1>4. dim'[w] = d
  BY <1>1 DEF Basic, TypeOK
<1>5. <<w, d>> \in Buffer
  BY <1>3 DEF Buffer
<1>6. /\ heap'[<<w, d>>] = Append(StringAt(token1[w]), NUL)
      /\ \A c \in Buffer : c # <<w, d>> => heap'[c] = heap[c]
  BY <1>1, <1>4, <1>5 DEF Basic, TypeOK
<1>7. fault' = IF d = preallocation THEN "overrun" ELSE "none"
  BY <1>1, <1>4
<1> QED
  BY <1>1, <1>2, <1>4, <1>6, <1>7 DEF d

\* The next type is copied.
LEMMA AloneKeep ==
  ASSUME Basic, NEW w \in Worker, ThreadStep(w), Keep(w), AloneOf(w)
  PROVE  AloneOf(w)'
<1> SUFFICES ASSUME ~crossed[w]
             PROVE  Splitting(w)' /\ Taking(w)' /\ Cutting(w)' /\ Listing(w)'
  BY CrossedGrows DEF AloneOf
<1> DEFINE l == line[w]
<1>0. PICK d \in Nat : d = dim[w] + 1
  BY DimIs DEF Basic
<1>1. /\ pc[w] = "take" /\ token1[w] # Null /\ ~Has(StringAt(token1[w]), Text)
      /\ pc'[w] = "split" /\ at'[w] = olds /\ line' = line
      /\ dim[w] \in Nat /\ dim'[w] = d /\ line'[w] = l
      /\ heap'[<<w, d>>] = Append(StringAt(token1[w]), NUL)
      /\ \A c \in Buffer : c # <<w, d>> => heap'[c] = heap[c]
  BY <1>0, KeepDoes
<1>2. PICK p \in Nat, r \in Types(l) :
        /\ olds = In(w, 0, p) /\ FromHere(w, p)
        /\ StringAt(token1[w]) = SubSeq(l, r[1], r[2])
        /\ r \in Kept(l)
        /\ Place(l, r) = d
        /\ Cardinality(Behind(l, p)) = d
        /\ \A n \in 1..dim[w] : Waiting(w, n)
  BY <1>0, <1>1, TokenTaken
<1>3. \A n \in 0..dim[w] : heap'[<<w, n>>] = heap[<<w, n>>]
  <2>1. ASSUME NEW n \in 0..dim[w]
        PROVE  <<w, n>> \in Buffer /\ n # d
    BY <1>0, <1>1, DimIs DEF Basic
  <2> QED
    BY <1>1, <2>1
<1> HIDE DEF l
<1>4. heap'[<<w, d>>] = Copy(l, r)
  BY <1>1, <1>2 DEF Copy
<1>5. Waiting(w, d)'
  <2>1. r \in Kept(line'[w]) /\ Place(line'[w], r) = d
    BY <1>1, <1>2
  <2>2. heap'[<<w, d>>] = Copy(line'[w], r)
    BY <1>1, <1>4
  <2> QED
    BY <2>1, <2>2 DEF Waiting
<1>6. \A n \in 1..dim[w] : Waiting(w, n)'
  <2>1. \A n \in 1..dim[w] : heap'[<<w, n>>] = heap[<<w, n>>]
    BY <1>1, <1>3
  <2> QED
    BY <1>1, <1>2, <2>1 DEF Waiting
<1>7. Copied(w, p)'
  <2>1. \A n \in 1..d : n \in 1..dim[w] \/ n = d
    BY <1>0, <1>1
  <2> QED
    BY <1>1, <1>2, <1>5, <1>6, <2>1 DEF Copied
<1>8. FromHere(w, p)'
  <2>1. heap'[<<w, 0>>] = heap[<<w, 0>>]
    BY <1>1, <1>3
  <2> QED
    BY <1>1, <1>2, <2>1 DEF FromHere
<1>9. Splitting(w)'
  BY <1>1, <1>2, <1>7, <1>8 DEF Splitting
<1> QED
  BY <1>1, <1>9 DEF Taking, Cutting, Listing, Cuts, Entries

(***************************************************************************)
(* When no token is left, all types that are kept have been copied.        *)
(***************************************************************************)
LEMMA AllCopied ==
  ASSUME Basic, NEW w \in Worker, AloneOf(w), ~crossed[w], pc[w] = "take", token1[w] = Null
  PROVE  dim[w] = Cardinality(Kept(line[w])) /\ \A n \in 1..dim[w] : Waiting(w, n)
<1>1. PICK p \in Nat : Taken(w, p)
  BY DEF AloneOf, Taking
<1> QED
  BY <1>1 DEF Taken, Copied

\* All are copied.
LEMMA AloneSplitEnd ==
  ASSUME Basic, NEW w \in Worker, ThreadStep(w), SplitEnd(w), AloneOf(w), fault' = "none"
  PROVE  AloneOf(w)'
<1> SUFFICES ASSUME ~crossed[w]
             PROVE  Splitting(w)' /\ Taking(w)' /\ Cutting(w)' /\ Listing(w)'
  BY CrossedGrows DEF AloneOf
<1>1. /\ pc[w] = "take" /\ token1[w] = Null /\ pc'[w] = "first"
      /\ UNCHANGED <<line, dim, list, heap>>
  BY DEF SplitEnd, Go, Basic, TypeOK
<1>2. list[w] = <<>> /\ Len(list[w]) = 0
  BY <1>1 DEF Basic, Steps, StepOf, Splits
<1>3. \A n \in 1..dim[w] : Waiting(w, n)'
  BY <1>1, AllCopied DEF Waiting
<1>4. Listing(w)'
  <2>1. dim'[w] = Cardinality(Kept(line'[w])) /\ Len(list'[w]) = 0
    BY <1>1, <1>2, AllCopied
  <2>2. \A n \in 1..Len(list'[w]) : Done(w, n)'
    BY <2>1
  <2>3. \A n \in (Len(list'[w]) + 1)..dim'[w] : Waiting(w, n)'
    BY <1>1, <1>3, <2>1
  <2> QED
    BY <2>1, <2>2, <2>3 DEF Listing
<1> QED
  BY <1>1, <1>4 DEF Splitting, Taking, Cutting, Cuts

-----------------------------------------------------------------------------
(* ... and the name and the quality of a type.                             *)

\* A text with a NUL at e, and else as another.
EndedAt(t, u, e) ==
  /\ Ended(t) /\ Ended(u) /\ Len(u) = Len(t)
  /\ u[e] = NUL /\ \A k \in 1..Len(t) : k # e => u[k] = t[k]

\* Where strtok() goes on, behind a token that ends at e.
Follows(t, sep, e, q) == (q = e /\ t[e] = NUL) \/ (q = e + 1 /\ t[e] = sep)

(***************************************************************************)
(* The first token of a copy that is cut off is the name, and the rest is  *)
(* behind it.                                                              *)
(***************************************************************************)
LEMMA NameIsCut ==
  ASSUME NEW l, IsText(l), NEW r \in Types(l), NEW s \in Nat, NEW e \in Nat,
         IsToken(Copy(l, r), 1, Semicolon, s, e), NEW u, EndedAt(Copy(l, r), u, e),
         NEW q \in 1..Len(u), Follows(Copy(l, r), Semicolon, e, q), NEW b
  PROVE  /\ NameCut(l, r, IF Copy(l, r)[s] = NUL THEN Null ELSE [buf |-> b, pos |-> s], b, u, q)
         /\ RestFrom(l, r, u, q)
<1> DEFINE c == Copy(l, r)
           f == First(Parts(l, r))
           n == Len(c)
<1>1. n \in Nat /\ \A k \in r[1]..r[2] : c[Here(r, k)] = l[k] /\ Here(r, k) \in 1..n
  BY CopyIs
<1>2. /\ c[s] = NUL => Parts(l, r) = {} /\ e = n
      /\ c[s] # NUL => /\ f \in Parts(l, r) /\ \A k \in Parts(l, r) : f <= k
                       /\ s = Here(r, f) /\ e = s + 1
                       /\ c[s] = Name(l, r)
  BY TokenIsName
<1>3. /\ Len(u) = n /\ u[e] = NUL /\ \A k \in 1..n : k # e => u[k] = c[k]
      /\ s \in 1..n /\ e \in s..n /\ (c[e] = Semicolon \/ c[e] = NUL)
      /\ (q = e /\ c[e] = NUL) \/ (q = e + 1 /\ c[e] = Semicolon)
  BY DEF EndedAt, IsToken, Follows
<1>4. \A k \in Parts(l, r) : k \in r[1]..r[2] /\ k \in Nat /\ l[k] # Semicolon /\ l[k] # NUL
  BY TypeIs, LineIs, EndedIs DEF Parts
<1>5. r[1] \in Nat
  BY TypeIs, LineIs, EndedIs
<1> HIDE DEF c, f, n
<1>6. NameCut(l, r, IF c[s] = NUL THEN Null ELSE [buf |-> b, pos |-> s], b, u, q)
  <2>1. CASE c[s] = NUL
    BY <1>2, <2>1 DEF NameCut
  <2>2. CASE c[s] # NUL
    <3>1. f \in Parts(l, r) /\ s = Here(r, f) /\ e = s + 1 /\ c[s] = Name(l, r)
      BY <1>2, <2>2
    <3>2. s < q /\ s # e
      BY <1>1, <1>3, <3>1
    <3>3. u[s] = c[s] /\ u[s + 1] = NUL
      BY <1>3, <3>1, <3>2
    <3> QED
      BY <2>2, <3>1, <3>2, <3>3 DEF NameCut, f
  <2> QED
    BY <2>1, <2>2
<1>7. RestFrom(l, r, u, q)
  <2>1. \A k \in q..n : u[k] = c[k]
    <3> TAKE k \in q..n
    <3>1. k \in 1..n
      BY <1>1, <1>3
    <3>2. CASE k = e
      BY <1>1, <1>3, <3>2
    <3>3. CASE k # e
      BY <1>3, <3>1, <3>3
    <3> QED
      BY <3>2, <3>3
  <2>2. ASSUME NEW k \in Parts(l, r)
        PROVE  Here(r, k) >= q <=> k # f
    <3>1. /\ f \in Parts(l, r) /\ f <= k
          /\ s = Here(r, f) /\ e = s + 1
      BY <1>2
    <3>2. f \in Nat /\ k \in Nat
      BY <1>4, <3>1
    <3>3. CASE k = f
      BY <1>1, <1>3, <3>1, <3>3
    <3>4. CASE k # f
      <4>1. Here(r, k) > s /\ Here(r, k) \in Nat
        <5>1. Here(r, k) = (k - r[1]) + 1 /\ s = (f - r[1]) + 1 /\ s \in Nat
          BY <3>1 DEF Here
        <5>2. f < k
          BY <3>1, <3>2, <3>4
        <5> QED
          BY <1>5, <3>2, <5>1, <5>2
      <4>2. Here(r, k) # e
        BY <1>1, <1>3, <1>4
      <4> QED
        BY <1>1, <1>3, <3>1, <3>4, <4>1, <4>2
    <3> QED
      BY <3>3, <3>4
  <2> QED
    BY <1>3, <2>1, <2>2 DEF RestFrom, c, f, n
<1> QED
  BY <1>6, <1>7 DEF c

(***************************************************************************)
(* The next token, behind the name, is the quality; the name is left as    *)
(* it was cut off.                                                         *)
(***************************************************************************)
LEMMA QualityIsCut ==
  ASSUME NEW l, IsText(l), NEW r \in Types(l), NEW s \in Nat, NEW e \in Nat,
         NEW t, NEW p, NEW q \in Nat, NEW b \in Buffer,
         NameCut(l, r, p, b, t, q), RestFrom(l, r, t, q),
         IsToken(t, q, Semicolon, s, e), NEW u, EndedAt(t, u, e)
  PROVE  /\ NameCut(l, r, p, b, u, q)
         /\ Parts(l, r) # {} =>
              QualityCut(l, r, IF t[s] = NUL THEN Null ELSE [buf |-> b, pos |-> s], b, u)
<1> DEFINE c == Copy(l, r)
           f == First(Parts(l, r))
           n == Len(c)
<1>1. n \in Nat /\ \A k \in r[1]..r[2] : Here(r, k) \in 1..n
  BY CopyIs
<1>2. /\ Ended(t) /\ Ended(u) /\ Len(t) = n /\ Len(u) = n
      /\ u[e] = NUL /\ \A k \in 1..n : k # e => u[k] = t[k]
      /\ s \in q..n /\ e \in s..n /\ q \in 1..n
      /\ \A k \in q..n : t[k] = c[k]
      /\ \A k \in Parts(l, r) : Here(r, k) >= q <=> k # f
  BY DEF EndedAt, IsToken, RestFrom
<1>3. Parts(l, r) # {} => f \in Parts(l, r) /\ f \in r[1]..r[2]
  <2>1. Parts(l, r) \in SUBSET Nat
    BY TypeIs, LineIs, EndedIs DEF Parts
  <2>2. Parts(l, r) # {} => f \in Parts(l, r)
    BY <2>1, LeastNumber, FirstIs
  <2> QED
    BY <2>2 DEF Parts
<1> HIDE DEF c, f, n
<1>4. NameCut(l, r, p, b, u, q)
  <2>1. CASE Parts(l, r) = {}
    BY <2>1 DEF NameCut
  <2>2. CASE Parts(l, r) # {}
    <3> DEFINE h == Here(r, f)
    <3>1. /\ p = [buf |-> b, pos |-> h] /\ h < q
          /\ t[h] = Name(l, r) /\ t[h + 1] = NUL
      BY <2>2 DEF NameCut, f
    <3>2. h \in 1..n
      BY <1>1, <1>3, <2>2
    <3> HIDE DEF h
    <3>3. h # e /\ h + 1 \in 1..n
      BY <1>1, <1>2, <3>1, <3>2
    <3>4. u[h] = t[h] /\ u[h + 1] = NUL
      BY <1>2, <3>1, <3>2, <3>3
    <3> QED
      BY <2>2, <3>1, <3>4 DEF NameCut, h, f
  <2> QED
    BY <2>1, <2>2
<1>5. ASSUME Parts(l, r) # {}
      PROVE  QualityCut(l, r, IF t[s] = NUL THEN Null ELSE [buf |-> b, pos |-> s], b, u)
  <2>1. /\ t[s] = NUL => Quality(l, r) = NUL
        /\ t[s] # NUL => Quality(l, r) = t[s] /\ e = s + 1
    <3>1. /\ q \in 1..Len(Copy(l, r)) /\ Len(t) = Len(Copy(l, r))
          /\ \A k \in q..Len(t) : t[k] = Copy(l, r)[k]
          /\ \A k \in Parts(l, r) : Here(r, k) >= q <=> k # First(Parts(l, r))
      BY <1>2 DEF c, f, n
    <3> QED
      BY <1>5, <3>1, TokenIsQuality
  <2>2. CASE t[s] = NUL
    BY <2>1, <2>2 DEF QualityCut
  <2>3. CASE t[s] # NUL
    <3>1. e = s + 1 /\ s \in 1..n /\ s # e
      BY <1>1, <1>2, <2>1, <2>3
    <3>2. u[s] = t[s] /\ u[s + 1] = NUL
      BY <1>2, <3>1
    <3>3. StringFrom(u, s) = <<t[s]>>
      BY <1>2, <2>3, <3>1, <3>2, StringOne
    <3>4. [buf |-> b, pos |-> s] \in Pointer
      BY DEF Pointer
    <3> QED
      BY <2>1, <2>3, <3>3, <3>4, Constants DEF QualityCut
  <2> QED
    BY <2>2, <2>3
<1> QED
  BY <1>4, <1>5

(***************************************************************************)
(* A call in a text of the thread's own.                                   *)
(***************************************************************************)
LEMMA CutHere ==
  ASSUME NEW w, NEW sep, NEW s, NEW e, CutStep(w, sep, s, e),
         NEW n \in Nat, NEW p \in Nat, at[w] = In(w, n, p)
  PROVE  \E t, u, q :
           /\ t = heap[<<w, n>>] /\ u = heap'[<<w, n>>] /\ <<w, n>> \in Buffer
           /\ p \in 1..Len(t) /\ IsToken(t, p, sep, s, e) /\ EndedAt(t, u, e)
           /\ q \in 1..Len(u) /\ Follows(t, sep, e, q) /\ olds' = In(w, n, q)
           /\ Token(w, sep) = IF t[s] = NUL THEN Null ELSE [buf |-> <<w, n>>, pos |-> s]
           /\ \A c \in Buffer : c # <<w, n>> => heap'[c] = heap[c]
<1> DEFINE b == at[w].buf
           q == olds'.pos
           t == heap[b]
           u == heap'[b]
<1>1. Calls(w, sep) /\ CutAt(w, sep, s, e) /\ s \in Nat /\ e \in Nat
  BY DEF CutStep
<1>2. b = <<w, n>> /\ at[w].pos = p
  BY DEF In
<1>3. /\ b \in Buffer /\ Ended(t) /\ at[w].pos \in 1..Len(t)
      /\ Ended(u) /\ Len(u) = Len(t)
      /\ u[e] = NUL /\ \A k \in 1..Len(t) : k # e => u[k] = t[k]
      /\ \A c \in Buffer : c # b => heap'[c] = heap[c]
  BY <1>1, CutDoes
<1>4. /\ olds' = [buf |-> b, pos |-> q]
      /\ q \in 1..Len(t) /\ ((q = e /\ t[e] = NUL) \/ (q = e + 1 /\ t[e] = sep))
      /\ Token(w, sep) = IF t[s] = NUL THEN Null ELSE [buf |-> b, pos |-> s]
  BY <1>1, CutDoes
<1>5. IsToken(t, at[w].pos, sep, s, e)
  BY <1>1 DEF CutAt
<1> HIDE DEF b, q, t, u
<1>6. EndedAt(t, u, e)
  BY <1>3 DEF EndedAt
<1>7. Follows(t, sep, e, q)
  BY <1>4 DEF Follows
<1>8. olds' = In(w, n, q)
  BY <1>2, <1>4 DEF In
<1>9. t = heap[<<w, n>>] /\ u = heap'[<<w, n>>]
  BY <1>2 DEF t, u
<1>10. q \in 1..Len(u)
  BY <1>3, <1>4
<1>11. p \in 1..Len(t) /\ IsToken(t, p, sep, s, e)
  BY <1>2, <1>3, <1>5
<1>12. /\ Token(w, sep) = IF t[s] = NUL THEN Null ELSE [buf |-> <<w, n>>, pos |-> s]
       /\ \A c \in Buffer : c # <<w, n>> => heap'[c] = heap[c]
       /\ <<w, n>> \in Buffer
  BY <1>2, <1>3, <1>4
<1> QED
  BY <1>6, <1>7, <1>8, <1>9, <1>10, <1>11, <1>12

(***************************************************************************)
(* The entries made and the types behind that which is looked at are left  *)
(* alone.                                                                  *)
(***************************************************************************)
LEMMA ListingKept ==
  ASSUME Basic, NEW w \in Worker, Listing(w), pc[w] \in Entries, pc'[w] \in Cuts,
         line'[w] = line[w], dim'[w] = dim[w], list'[w] = list[w],
         \A c \in Buffer : c # <<w, Len(list[w]) + 1>> => heap'[c] = heap[c]
  PROVE  Listing(w)'
<1>1. PICK n \in Nat : n = Len(list[w]) + 1
  <2>1. list[w] \in Seq([extension : Extension, q : 0..10])
    BY DEF Basic, TypeOK
  <2> QED
    BY <2>1
<1>2. /\ dim[w] = Cardinality(Kept(line[w]))
      /\ \A k \in 1..Len(list[w]) : Done(w, k)
      /\ \A k \in n..dim[w] : k # n \/ pc[w] = "first" => Waiting(w, k)
  BY <1>1 DEF Listing, Entries
<1>3. ASSUME NEW k \in n..dim[w], k # n
      PROVE  Waiting(w, k)'
  <2>1. Waiting(w, k)
    BY <1>2, <1>3
  <2>2. <<w, k>> \in Buffer
    <3>1. k \in 0..dim[w]
      BY DimIs DEF Basic
    <3> QED
      BY <3>1, DimIs DEF Basic
  <2>3. heap'[<<w, k>>] = heap[<<w, k>>]
    BY <1>1, <1>3, <2>2
  <2> QED
    BY <2>1, <2>3 DEF Waiting
<1>4. \A k \in 1..Len(list[w]) : Done(w, k)'
  BY <1>2 DEF Done
<1>5. Len(list'[w]) + 1 = n
  BY <1>1
<1>6. pc'[w] # "first"
  BY DEF Cuts
<1> QED
  BY <1>2, <1>3, <1>4, <1>5, <1>6 DEF Listing

\* The name of the next type is cut off.
LEMMA AloneName ==
  ASSUME Basic, NEW w \in Worker, ThreadStep(w), CutName(w), AloneOf(w)
  PROVE  AloneOf(w)'
<1> SUFFICES ASSUME ~crossed[w]
             PROVE  Splitting(w)' /\ Taking(w)' /\ Cutting(w)' /\ Listing(w)'
  BY CrossedGrows DEF AloneOf
<1>1. /\ pc[w] = "first" /\ pc'[w] = "second" /\ token1'[w] = Token(w, Semicolon)
      /\ UNCHANGED <<line, dim, list>>
      /\ Listing(w)
  BY DEF CutName, Go, Basic, TypeOK, AloneOf
<1>2. PICK n \in Nat : n = Len(list[w]) + 1
  <2>1. list[w] \in Seq([extension : Extension, q : 0..10])
    BY DEF Basic, TypeOK
  <2> QED
    BY <2>1
<1>3. PICK l : l = line[w]
  OBVIOUS
<1>4. IsText(l)
  BY <1>1, <1>3, LineGiven
<1>5. at[w] = In(w, n, 1) /\ Len(list[w]) < dim[w]
  BY <1>1, <1>2 DEF Basic, Steps, StepOf, Entries
<1>6. n \in n..dim[w]
  BY <1>2, <1>5, DimIs DEF Basic
<1>7. PICK r \in Kept(l) : Place(l, r) = n /\ heap[<<w, n>>] = Copy(l, r)
  <2>1. Waiting(w, n)
    BY <1>1, <1>2, <1>6 DEF Listing, Entries
  <2> QED
    BY <1>3, <2>1 DEF Waiting
<1>8. r \in Types(l)
  BY DEF Kept
<1>9. PICK s, e \in Nat : CutStep(w, Semicolon, s, e)
  BY NameCuts DEF ThreadStep
<1>10. PICK t, u, q :
         /\ t = heap[<<w, n>>] /\ u = heap'[<<w, n>>] /\ <<w, n>> \in Buffer
         /\ 1 \in 1..Len(t) /\ IsToken(t, 1, Semicolon, s, e) /\ EndedAt(t, u, e)
         /\ q \in 1..Len(u) /\ Follows(t, Semicolon, e, q) /\ olds' = In(w, n, q)
         /\ Token(w, Semicolon) = IF t[s] = NUL THEN Null ELSE [buf |-> <<w, n>>, pos |-> s]
         /\ \A c \in Buffer : c # <<w, n>> => heap'[c] = heap[c]
  BY <1>5, <1>9, CutHere
<1>11. NameCut(l, r, token1'[w], <<w, n>>, u, q) /\ RestFrom(l, r, u, q)
  <2>1. t = Copy(l, r)
    BY <1>7, <1>10
  <2>2. /\ NameCut(l, r, IF t[s] = NUL THEN Null ELSE [buf |-> <<w, n>>, pos |-> s], <<w, n>>, u, q)
        /\ RestFrom(l, r, u, q)
    BY <1>4, <1>8, <1>10, <2>1, NameIsCut
  <2> QED
    BY <1>1, <1>10, <2>2
<1>12. Cutting(w)'
  <2>1. /\ line'[w] = l /\ Len(list'[w]) + 1 = n /\ heap'[<<w, n>>] = u /\ q \in Nat
    BY <1>1, <1>2, <1>3, <1>10
  <2>2. In(w, n, q) = olds'
    BY <1>10
  <2> QED
    BY <1>1, <1>7, <1>11, <2>1, <2>2 DEF Cutting
<1>13. Listing(w)'
  BY <1>1, <1>2, <1>10, ListingKept DEF Entries, Cuts
<1> QED
  BY <1>1, <1>12, <1>13 DEF Splitting, Taking

\* The thread goes on behind the name.
LEMMA AloneGoOn ==
  ASSUME Basic, NEW w \in Worker, ThreadStep(w), GoOn(w), AloneOf(w)
  PROVE  AloneOf(w)'
<1> SUFFICES ASSUME ~crossed[w]
             PROVE  Splitting(w)' /\ Taking(w)' /\ Cutting(w)' /\ Listing(w)'
  BY CrossedGrows DEF AloneOf
<1>1. /\ pc[w] = "second" /\ pc'[w] = "param" /\ at'[w] = olds
      /\ UNCHANGED <<line, token1, token2, dim, list, heap>>
      /\ Listing(w) /\ Cutting(w)
  BY DEF GoOn, Resume, Go, Basic, TypeOK, AloneOf
<1>2. Cutting(w)'
  BY <1>1 DEF Cutting, Cuts
<1>3. Listing(w)'
  BY <1>1, ListingKept DEF Entries, Cuts
<1> QED
  BY <1>1, <1>2, <1>3 DEF Splitting, Taking

\* The quality is cut off.
LEMMA AloneQuality ==
  ASSUME Basic, NEW w \in Worker, ThreadStep(w), CutQuality(w), AloneOf(w)
  PROVE  AloneOf(w)'
<1> SUFFICES ASSUME ~crossed[w]
             PROVE  Splitting(w)' /\ Taking(w)' /\ Cutting(w)' /\ Listing(w)'
  BY CrossedGrows DEF AloneOf
<1>1. /\ pc[w] = "param" /\ pc'[w] = "enter" /\ token2'[w] = Token(w, Semicolon)
      /\ UNCHANGED <<line, dim, list, token1>>
      /\ Listing(w) /\ Cutting(w)
  BY DEF CutQuality, Go, Basic, TypeOK, AloneOf
<1>2. PICK n \in Nat : n = Len(list[w]) + 1
  <2>1. list[w] \in Seq([extension : Extension, q : 0..10])
    BY DEF Basic, TypeOK
  <2> QED
    BY <2>1
<1>3. PICK l : l = line[w]
  OBVIOUS
<1>4. IsText(l)
  BY <1>1, <1>3, LineGiven
<1>5. PICK r \in Kept(l), p \in Nat :
        /\ Place(l, r) = n /\ at[w] = In(w, n, p)
        /\ NameCut(l, r, token1[w], <<w, n>>, heap[<<w, n>>], p)
        /\ RestFrom(l, r, heap[<<w, n>>], p)
  BY <1>1, <1>2, <1>3 DEF Cutting, Cuts
<1>6. r \in Types(l)
  BY DEF Kept
<1>7. PICK s, e \in Nat : CutStep(w, Semicolon, s, e)
  BY QualityCuts DEF ThreadStep
<1>8. PICK t, u, q :
         /\ t = heap[<<w, n>>] /\ u = heap'[<<w, n>>] /\ <<w, n>> \in Buffer
         /\ p \in 1..Len(t) /\ IsToken(t, p, Semicolon, s, e) /\ EndedAt(t, u, e)
         /\ q \in 1..Len(u) /\ Follows(t, Semicolon, e, q) /\ olds' = In(w, n, q)
         /\ Token(w, Semicolon) = IF t[s] = NUL THEN Null ELSE [buf |-> <<w, n>>, pos |-> s]
         /\ \A c \in Buffer : c # <<w, n>> => heap'[c] = heap[c]
  BY <1>5, <1>7, CutHere
<1>9. /\ NameCut(l, r, token1'[w], <<w, n>>, u, p)
      /\ Parts(l, r) # {} => QualityCut(l, r, token2'[w], <<w, n>>, u)
  <2>1. NameCut(l, r, token1[w], <<w, n>>, t, p) /\ RestFrom(l, r, t, p)
    BY <1>5, <1>8
  <2>2. /\ NameCut(l, r, token1[w], <<w, n>>, u, p)
        /\ Parts(l, r) # {} =>
             QualityCut(l, r, IF t[s] = NUL THEN Null ELSE [buf |-> <<w, n>>, pos |-> s], <<w, n>>, u)
    BY <1>4, <1>6, <1>8, <2>1, QualityIsCut
  <2> QED
    BY <1>1, <1>8, <2>2
<1>10. Cutting(w)'
  <2>1. line'[w] = l /\ Len(list'[w]) + 1 = n /\ heap'[<<w, n>>] = u
    BY <1>1, <1>2, <1>3, <1>8
  <2> QED
    BY <1>1, <1>5, <1>9, <2>1 DEF Cutting
<1>11. Listing(w)'
  BY <1>1, <1>2, <1>8, ListingKept DEF Entries, Cuts
<1> QED
  BY <1>1, <1>10, <1>11 DEF Splitting, Taking

(***************************************************************************)
(* The entry that is made is that of the type that is looked at.           *)
(***************************************************************************)
LEMMA NewEntryIs ==
  ASSUME Basic, NEW w \in Worker, AloneOf(w), ~crossed[w], pc[w] = "enter", token1[w] # Null
  PROVE  \E r \in Kept(line[w]) :
           Place(line[w], r) = Len(list[w]) + 1 /\ NewEntry(w) = EntryOf(line[w], r)
<1>1. PICK l, n, t, b :
        l = line[w] /\ n = Len(list[w]) + 1 /\ b = <<w, n>> /\ t = heap[b]
  OBVIOUS
<1>2. PICK r \in Kept(l), q \in Nat :
        /\ Place(l, r) = n
        /\ NameCut(l, r, token1[w], b, t, q)
        /\ Parts(l, r) # {} => QualityCut(l, r, token2[w], b, t)
  BY <1>1 DEF AloneOf, Cutting, Cuts
<1>3. IsText(l) /\ r \in Types(l)
  BY <1>1, LineGiven DEF Kept
<1>4. Parts(l, r) # {}
  BY <1>2 DEF NameCut
<1> DEFINE f == First(Parts(l, r))
           h == Here(r, f)
<1>5. token1[w] = [buf |-> b, pos |-> h] /\ t[h] = Name(l, r) /\ t[h + 1] = NUL
  BY <1>2, <1>4 DEF NameCut
<1>6. Name(l, r) # NUL
  <2>1. Parts(l, r) \in SUBSET Nat
    BY <1>3, TypeIs, LineIs, EndedIs DEF Parts
  <2>2. f \in Parts(l, r)
    BY <1>4, <2>1, LeastNumber, FirstIs
  <2>3. l[f] # NUL
    BY <1>3, <2>2, TypeIs DEF Parts
  <2> QED
    BY <2>3 DEF Name
<1> HIDE DEF h, f
<1>7. Ended(t) /\ h \in 1..Len(t)
  <2>1. token1[w].buf = b /\ token1[w].pos = h
    BY <1>5
  <2>2. b \in Buffer /\ Made(token1[w])
    BY <2>1 DEF Basic, Pointers, TypeOK, Pointer
  <2>3. t # <<>>
    <3>1. n \in 0..dim[w]
      <4>1. list[w] \in Seq([extension : Extension, q : 0..10])
        BY DEF Basic, TypeOK
      <4>2. Len(list[w]) < dim[w]
        BY DEF Basic, Steps, StepOf, Entries, Cuts
      <4> QED
        BY <1>1, <4>1, <4>2, DimIs DEF Basic
    <3> QED
      BY <1>1, <3>1 DEF Basic, Allocated
  <2> QED
    BY <1>1, <2>1, <2>2, <2>3 DEF Basic, Texts, Made, Freed
<1>8. StringAt(token1[w]) = <<Name(l, r)>>
  <2>1. StringFrom(t, h) = <<t[h]>>
    BY <1>5, <1>6, <1>7, StringOne
  <2>2. token1[w].buf = b /\ token1[w].pos = h
    BY <1>5
  <2> QED
    BY <1>1, <1>5, <2>1, <2>2 DEF StringAt, StringFrom
<1>9. IF Quality(l, r) = NUL THEN token2[w] = Null
      ELSE token2[w] # Null /\ StringAt(token2[w]) = <<Quality(l, r)>>
  BY <1>1, <1>2, <1>4 DEF QualityCut, StringAt, StringFrom
<1>10. NewEntry(w) = EntryOf(l, r)
  <2> DEFINE rated == token2[w] # Null
             has == Quality(l, r) # NUL
  <2>1. NewEntry(w) = Entry(<<Name(l, r)>>, rated, IF rated THEN StringAt(token2[w]) ELSE <<>>)
    BY <1>8 DEF NewEntry
  <2>2. rated = has /\ (IF rated THEN StringAt(token2[w]) ELSE <<>>) =
                         IF has THEN <<Quality(l, r)>> ELSE <<>>
    BY <1>9
  <2>3. Entry(<<Name(l, r)>>, has, IF has THEN <<Quality(l, r)>> ELSE <<>>) = EntryOf(l, r)
    BY EntryIs DEF EntryOf
  <2> HIDE DEF rated, has
  <2> QED
    BY <2>1, <2>2, <2>3
<1> QED
  BY <1>1, <1>2, <1>10

(***************************************************************************)
(* It is put behind the others.                                            *)
(***************************************************************************)
LEMMA EntryDone ==
  ASSUME Basic, NEW w \in Worker, EntryMade(w), AloneOf(w), ~crossed[w], line'[w] = line[w]
  PROVE  \A k \in 1..Len(list'[w]) : Done(w, k)'
<1>1. /\ pc[w] = "enter" /\ token1[w] # Null
      /\ Len(list[w]) \in Nat /\ Len(list'[w]) = Len(list[w]) + 1
      /\ list'[w][Len(list[w]) + 1] = NewEntry(w)
      /\ \A k \in 1..Len(list[w]) : list'[w][k] = list[w][k]
  BY EntryAdded
<1>2. \A k \in 1..Len(list[w]) : Done(w, k)
  BY <1>1 DEF AloneOf, Listing, Entries, Cuts
<1>3. PICK n : n = Len(list[w]) + 1
  OBVIOUS
<1>4. Done(w, n)'
  BY <1>1, <1>3, NewEntryIs DEF Done
<1>5. \A k \in 1..Len(list[w]) : Done(w, k)'
  BY <1>1, <1>2 DEF Done
<1>6. \A k \in 1..Len(list'[w]) : k = n \/ k \in 1..Len(list[w])
  BY <1>1, <1>3
<1> QED
  BY <1>4, <1>5, <1>6

\* The entry is made, and the next type is waiting.
LEMMA AloneEnter ==
  ASSUME Basic, NEW w \in Worker, ThreadStep(w), Enter(w), AloneOf(w)
  PROVE  AloneOf(w)'
<1> SUFFICES ASSUME ~crossed[w]
             PROVE  Splitting(w)' /\ Taking(w)' /\ Cutting(w)' /\ Listing(w)'
  BY CrossedGrows DEF AloneOf
<1>1. /\ pc[w] = "enter" /\ pc'[w] = "first" /\ UNCHANGED <<line, dim, heap>>
      /\ EntryMade(w) /\ Listing(w)
  BY DEF Enter, EntryMade, Go, Basic, TypeOK, AloneOf
<1>2. Len(list[w]) \in Nat /\ Len(list'[w]) = Len(list[w]) + 1
  BY <1>1, EntryAdded
<1>3. \A k \in 1..Len(list'[w]) : Done(w, k)'
  BY <1>1, EntryDone
<1>4. \A k \in (Len(list'[w]) + 1)..dim[w] : Waiting(w, k)'
  <2>1. \A k \in (Len(list'[w]) + 1)..dim[w] : k \in (Len(list[w]) + 1)..dim[w] /\ k # Len(list[w]) + 1
    BY <1>2, DimIs DEF Basic
  <2>2. \A k \in (Len(list'[w]) + 1)..dim[w] : Waiting(w, k)
    BY <1>1, <2>1 DEF Listing, Entries, Cuts
  <2> QED
    BY <1>1, <2>2 DEF Waiting
<1>5. Listing(w)'
  BY <1>1, <1>3, <1>4 DEF Listing, Entries, Cuts
<1> QED
  BY <1>1, <1>5 DEF Splitting, Taking, Cutting, Cuts

\* The last entry is made.
LEMMA AloneReturn ==
  ASSUME Basic, NEW w \in Worker, ThreadStep(w), Return(w), AloneOf(w)
  PROVE  AloneOf(w)'
<1> SUFFICES ASSUME ~crossed[w]
             PROVE  Splitting(w)' /\ Taking(w)' /\ Cutting(w)' /\ Listing(w)'
  BY CrossedGrows DEF AloneOf
<1>1. /\ pc[w] = "enter" /\ pc'[w] = "done" /\ UNCHANGED <<line, dim>>
      /\ EntryMade(w) /\ Listing(w) /\ Len(list'[w]) = dim[w]
  BY DEF Return, EntryMade, Go, Basic, TypeOK, AloneOf
<1>2. \A k \in 1..Len(list'[w]) : Done(w, k)'
  BY <1>1, EntryDone
<1>3. \A k : k \notin (Len(list'[w]) + 1)..dim[w]
  BY <1>1, DimIs DEF Basic
<1>4. Listing(w)'
  BY <1>1, <1>2, <1>3 DEF Listing, Entries, Cuts
<1> QED
  BY <1>1, <1>4 DEF Splitting, Taking, Cutting, Cuts

\* Where the process ends, the thread stays where it is.
LEMMA AloneFault ==
  ASSUME Basic, NEW w \in Worker, ThreadStep(w), AloneOf(w),
         EnterNull(w) \/ Dangle(w) \/ (SplitEnd(w) /\ fault' # "none")
  PROVE  AloneOf(w)'
<1>1. UNCHANGED <<pc, line, at, token1, token2, dim, list, heap, olds, crossed>>
  BY DEF EnterNull, Dangle, SplitEnd, ThreadStep, thread
<1>2. (Splitting(w) => Splitting(w)') /\ (Taking(w) => Taking(w)')
  BY <1>1 DEF Splitting, Taking, FromHere, Copied, Taken, Waiting
<1>3. Cutting(w) => Cutting(w)'
  BY <1>1 DEF Cutting
<1>4. Listing(w) => Listing(w)'
  BY <1>1 DEF Listing, Done, Waiting
<1> QED
  BY <1>1, <1>2, <1>3, <1>4 DEF AloneOf

(***************************************************************************)
(* At the beginning, and after each step, this is so of a thread alone.    *)
(***************************************************************************)
LEMMA AloneInit == Init => Alone
BY DEF Init, Alone, AloneOf, Splitting, Taking, Cutting, Listing, Cuts, Entries

\* So each step keeps this.
LEMMA AloneNext ==
  ASSUME Basic, Alone, NEW w \in Worker, ThreadStep(w)
  PROVE  Alone'
<1>1. AloneOf(w)
  BY DEF Alone
<1>2. AloneOf(w)'
  BY <1>1, AloneParse, AloneSplit, AloneDiscard, AloneKeep, AloneSplitEnd, AloneName, AloneGoOn,
     AloneQuality, AloneEnter, AloneReturn, AloneFault
  DEF ThreadStep, ParseOn
<1>3. \A v \in Worker : v # w => AloneOf(v)'
  BY AloneKept DEF Alone
<1> QED
  BY <1>2, <1>3 DEF Alone

-----------------------------------------------------------------------------
(* The list of a thread alone, and how the process ends.                   *)

(***************************************************************************)
(* When all types have been looked at, each has its entry.                 *)
(***************************************************************************)
LEMMA ListIsRight == Basic /\ Alone => ListRight
<1> SUFFICES ASSUME Basic, Alone, NEW w \in Worker, pc[w] = "done", ~crossed[w]
             PROVE  /\ Len(list[w]) = Cardinality(Kept(line[w]))
                    /\ \A r \in Kept(line[w]) : list[w][Place(line[w], r)] = EntryOf(line[w], r)
  BY DEF ListRight, EntryOf
<1>1. dim[w] = Cardinality(Kept(line[w])) /\ \A n \in 1..Len(list[w]) : Done(w, n)
  BY DEF Alone, AloneOf, Listing
<1>2. Len(list[w]) = dim[w]
  BY DEF Basic, Steps, StepOf
<1>3. IsText(line[w])
  BY LineGiven
<1>4. ASSUME NEW r \in Kept(line[w])
      PROVE  list[w][Place(line[w], r)] = EntryOf(line[w], r)
  <2>1. /\ Place(line[w], r) \in 1..Len(list[w])
        /\ \A o \in Kept(line[w]) : Place(line[w], o) = Place(line[w], r) => o = r
    BY <1>1, <1>2, <1>3, PlaceIs
  <2>2. Done(w, Place(line[w], r))
    BY <1>1, <2>1
  <2> QED
    BY <2>1, <2>2 DEF Done
<1> QED
  BY <1>1, <1>2, <1>4

\* One text more than the list has room for.
LEMMA OverrunFault ==
  ASSUME Basic, Alone, NEW w \in Worker, ThreadStep(w), Keep(w), ~crossed[w], fault' # "none"
  PROVE  fault' = "overrun" /\ Cardinality(Kept(line'[w])) >= preallocation
<1>1. /\ pc[w] = "take" /\ token1[w] # Null /\ ~Has(StringAt(token1[w]), Text) /\ line' = line
      /\ dim[w] \in Nat /\ fault' = IF dim[w] + 1 = preallocation THEN "overrun" ELSE "none"
  BY KeepDoes
<1>2. dim[w] < Cardinality(Kept(line[w]))
  BY <1>1, TokenTaken DEF Alone
<1>3. Cardinality(Kept(line[w])) \in Nat
  BY <1>1, LineGiven, KeptFinite
<1> QED
  BY <1>1, <1>2, <1>3

\* No type at all.
LEMMA NoTypesFault ==
  ASSUME Basic, Alone, NEW w \in Worker, ThreadStep(w), SplitEnd(w), ~crossed[w], fault' # "none"
  PROVE  fault' = "no types" /\ Kept(line'[w]) = {}
<1>1. /\ pc[w] = "take" /\ token1[w] = Null /\ line' = line
      /\ dim[w] = 0 /\ fault' = "no types"
  BY DEF SplitEnd, ThreadStep
<1>2. Cardinality(Kept(line[w])) = 0
  BY <1>1, AllCopied DEF Alone
<1>3. IsFiniteSet(Kept(line[w]))
  BY <1>1, LineGiven, KeptFinite
<1>4. Kept(line[w]) = {}
  BY <1>2, <1>3, FS_EmptySet
<1> QED
  BY <1>1, <1>4

\* The type of which an entry is made.
Looked(w, l, n, r, b) ==
  LET f == First(Parts(l, r))
  IN /\ l = line[w] /\ n = Len(list[w]) + 1 /\ b = <<w, n>> /\ b \in Buffer
     /\ r \in Kept(l) /\ r \in Types(l) /\ n \in Nat /\ n \in 0..dim[w]
     /\ Parts(l, r) = {} => token1[w] = Null
     /\ Parts(l, r) # {} =>
          /\ token1[w] = [buf |-> b, pos |-> Here(r, f)] /\ token1[w] # Null
          /\ f \in Parts(l, r) /\ \A k \in Parts(l, r) : f <= k
          /\ r[1] \in Nat /\ f \in r[1]..r[2]
          /\ token2[w] = Null \/ token2[w].buf = b

\* There is one, and its name has been cut off.
LEMMA NameIs ==
  ASSUME Basic, Alone, NEW w \in Worker, ~crossed[w], pc[w] = "enter"
  PROVE  \E l, n, r, b : Looked(w, l, n, r, b)
<1>1. PICK l, n, b : l = line[w] /\ n = Len(list[w]) + 1 /\ b = <<w, n>>
  OBVIOUS
<1>2. PICK r \in Kept(l), q \in Nat :
        /\ NameCut(l, r, token1[w], b, heap[b], q)
        /\ Parts(l, r) # {} => QualityCut(l, r, token2[w], b, heap[b])
  BY <1>1 DEF Alone, AloneOf, Cutting, Cuts
<1>3. IsText(l) /\ r \in Types(l)
  BY <1>1, LineGiven DEF Kept
<1>4. n \in Nat /\ n \in 0..dim[w]
  <2>1. list[w] \in Seq([extension : Extension, q : 0..10]) /\ Len(list[w]) < dim[w]
    BY DEF Basic, TypeOK, Steps, StepOf, Entries, Cuts
  <2> QED
    BY <1>1, <2>1, DimIs DEF Basic
<1>5. b \in Buffer
  BY <1>1, <1>4, DimIs DEF Basic
<1>6. ASSUME Parts(l, r) # {}
      PROVE  /\ token1[w] = [buf |-> b, pos |-> Here(r, First(Parts(l, r)))]
             /\ token1[w] # Null
             /\ First(Parts(l, r)) \in Parts(l, r)
             /\ \A k \in Parts(l, r) : First(Parts(l, r)) <= k
             /\ r[1] \in Nat /\ First(Parts(l, r)) \in r[1]..r[2]
             /\ token2[w] = Null \/ token2[w].buf = b
  <2>1. token1[w] = [buf |-> b, pos |-> Here(r, First(Parts(l, r)))]
    BY <1>2, <1>6 DEF NameCut
  <2>2. Parts(l, r) \in SUBSET Nat /\ Parts(l, r) \subseteq r[1]..r[2] /\ r[1] \in Nat
    BY <1>3, TypeIs, LineIs, EndedIs DEF Parts
  <2>3. First(Parts(l, r)) \in Parts(l, r) /\ \A k \in Parts(l, r) : First(Parts(l, r)) <= k
    BY <1>6, <2>2, LeastNumber, FirstIs
  <2>4. Here(r, First(Parts(l, r))) \in Nat
    BY <2>2, <2>3 DEF Here
  <2>5. token1[w] \in Pointer
    BY <1>5, <2>1, <2>4 DEF Pointer
  <2>6. token2[w] = Null \/ token2[w].buf = b
    BY <1>2, <1>6 DEF QualityCut
  <2> QED
    BY <2>1, <2>2, <2>3, <2>5, <2>6, Constants
<1>7. Parts(l, r) = {} => token1[w] = Null
  BY <1>2 DEF NameCut
<1>8. Looked(w, l, n, r, b)
  BY <1>1, <1>3, <1>4, <1>5, <1>6, <1>7 DEF Looked
<1> QED
  BY <1>8

\* A type that begins with a semicolon.
LEMMA FreeFault ==
  ASSUME Basic, Alone, NEW w \in Worker, ThreadStep(w), Return(w), ~crossed[w], fault' # "none"
  PROVE  fault' = "free" /\ \E r \in Kept(line'[w]) : line'[w][r[1]] = Semicolon
<1>1. /\ pc[w] = "enter" /\ token1[w] # Null /\ token1[w].pos # 1 /\ line' = line
      /\ fault' = "free"
  BY DEF Return, EntryMade
<1>2. PICK l, n, r, b : Looked(w, l, n, r, b)
  BY <1>1, NameIs
<1> DEFINE f == First(Parts(l, r))
<1>3. /\ token1[w].pos = Here(r, f) /\ r[1] \in Nat /\ f \in r[1]..r[2]
      /\ \A k \in Parts(l, r) : f <= k
      /\ l = line[w] /\ r \in Kept(l) /\ r \in Types(l)
  BY <1>1, <1>2 DEF Looked
<1> HIDE DEF f
<1>4. f # r[1]
  BY <1>1, <1>3 DEF Here
<1>5. r[1] \notin Parts(l, r)
  BY <1>3, <1>4
<1>6. r[1] \in r[1]..r[2]
  <2>1. r[2] \in Int
    BY <1>1, <1>3, LineGiven, TypeIs
  <2> QED
    BY <1>3, <2>1
<1>7. l[r[1]] = Semicolon
  BY <1>5, <1>6 DEF Parts
<1> QED
  BY <1>1, <1>3, <1>7

\* A type of semicolons only.
LEMMA NullFault ==
  ASSUME Basic, Alone, NEW w \in Worker, ThreadStep(w), EnterNull(w), ~crossed[w]
  PROVE  fault' = "null" /\ \E r \in Kept(line'[w]) : Parts(line'[w], r) = {}
<1>1. pc[w] = "enter" /\ token1[w] = Null /\ line' = line /\ fault' = "null"
  BY DEF EnterNull, thread
<1>2. PICK l, n, r, b : Looked(w, l, n, r, b)
  BY <1>1, NameIs
<1>3. r \in Kept(line[w]) /\ Parts(line[w], r) = {}
  BY <1>1, <1>2 DEF Looked
<1> QED
  BY <1>1, <1>3

\* A thread alone reads nothing that has been freed.
LEMMA NoDangle ==
  ASSUME Basic, Alone, NEW w \in Worker, ThreadStep(w), ~crossed[w]
  PROVE  ~Dangle(w)
<1>1. AloneOf(w)
  BY DEF Alone
<1>2. 0 \in 0..dim[w]
  BY DimIs DEF Basic
<1>3. CASE pc[w] = "split"
  <2>1. \E p \in Nat : at[w] = In(w, 0, p)
    BY <1>1, <1>3 DEF AloneOf, Splitting
  <2>2. heap[<<w, 0>>] # <<>>
    BY <1>2, <1>3 DEF Basic, Allocated
  <2> QED
    BY <1>3, <2>1, <2>2 DEF Dangle, Freed, In
<1>4. CASE pc[w] = "take"
  <2>1. ASSUME token1[w] # Null
        PROVE  token1[w].buf = <<w, 0>>
    <3>1. PICK p : Taken(w, p)
      BY <1>1, <1>4 DEF AloneOf, Taking
    <3>2. PICK k : token1[w] = In(w, 0, k)
      BY <2>1, <3>1 DEF Taken
    <3> QED
      BY <3>2 DEF In
  <2>2. heap[<<w, 0>>] # <<>>
    BY <1>2, <1>4 DEF Basic, Allocated
  <2> QED
    BY <1>4, <2>1, <2>2 DEF Dangle, Freed
<1>5. CASE pc[w] = "param"
  <2>1. PICK n : n = Len(list[w]) + 1
    OBVIOUS
  <2>2. \E q : at[w] = In(w, n, q)
    BY <1>1, <1>5, <2>1 DEF AloneOf, Cutting, Cuts
  <2>3. n \in 0..dim[w]
    <3>1. list[w] \in Seq([extension : Extension, q : 0..10]) /\ Len(list[w]) < dim[w]
      BY <1>5 DEF Basic, TypeOK, Steps, StepOf, Entries, Cuts
    <3> QED
      BY <2>1, <3>1, DimIs DEF Basic
  <2>4. heap[<<w, n>>] # <<>>
    BY <1>5, <2>3 DEF Basic, Allocated
  <2> QED
    BY <1>5, <2>2, <2>4 DEF Dangle, Freed, In
<1>6. CASE pc[w] = "enter" /\ token1[w] # Null /\ token2[w] # Null
  <2>1. PICK l, n, r, b : Looked(w, l, n, r, b)
    BY <1>6, NameIs
  <2>2. token2[w].buf = <<w, n>> /\ n \in 0..dim[w]
    BY <1>6, <2>1 DEF Looked
  <2>3. heap[<<w, n>>] # <<>>
    BY <1>6, <2>2 DEF Basic, Allocated
  <2> QED
    BY <1>6, <2>2, <2>3 DEF Dangle, Freed
<1> QED
  BY <1>3, <1>4, <1>5, <1>6 DEF Dangle

(***************************************************************************)
(* So a step that ends the process is one of a thread that was crossed, or *)
(* has such a line.                                                        *)
(***************************************************************************)
LEMMA FaultsNext ==
  ASSUME Basic, Alone, NEW w \in Worker, ThreadStep(w)
  PROVE  AcceptFaults'
<1> SUFFICES ASSUME fault' # "none", ~crossed[w]
             PROVE  \/ fault' = "overrun" /\ Cardinality(Kept(line'[w])) >= preallocation
                    \/ fault' = "no types" /\ Kept(line'[w]) = {}
                    \/ fault' = "null" /\ \E r \in Kept(line'[w]) : Parts(line'[w], r) = {}
                    \/ fault' = "free" /\ \E r \in Kept(line'[w]) : line'[w][r[1]] = Semicolon
  BY CrossedGrows DEF AcceptFaults
<1>1. Keep(w) \/ SplitEnd(w) \/ Return(w) \/ EnterNull(w) \/ Dangle(w)
  BY DEF ThreadStep, ParseOn, Parse, Split, Discard, CutName, GoOn, CutQuality, Enter
<1> QED
  BY <1>1, OverrunFault, NoTypesFault, FreeFault, NullFault, NoDangle

-----------------------------------------------------------------------------
(* A thread whose line begins with a type that is known.                   *)

\* A text in which at most separators have been overwritten.
Eroded(t, u) ==
  /\ Len(u) = Len(t)
  /\ \A k \in 1..Len(t) : u[k] = t[k] \/ (u[k] = NUL /\ t[k] \in Separator)

(***************************************************************************)
(* Whoever steps, to a text this is all that happens, but that its own     *)
(* thread makes it or frees it.                                            *)
(***************************************************************************)
LEMMA Erodes ==
  ASSUME Basic, NEW v \in Worker, ThreadStep(v), NEW c \in Buffer
  PROVE  \/ Eroded(heap[c], heap'[c])
         \/ c[1] = v /\ (Parse(v) \/ Return(v))
         \/ Keep(v) /\ c = <<v, dim[v] + 1>>
<1>1. heap'[c] = heap[c] => Eroded(heap[c], heap'[c])
  BY DEF Eroded
<1>2. ASSUME NEW sep \in {Comma, Semicolon}, NEW s \in Nat, NEW e \in Nat, CutStep(v, sep, s, e)
      PROVE  Eroded(heap[c], heap'[c])
  <2>1. Calls(v, sep) /\ CutAt(v, sep, s, e)
    BY <1>2 DEF CutStep
  <2> DEFINE b == at[v].buf
             t == heap[b]
             u == heap'[b]
             q == olds'.pos
  <2>2. /\ Len(u) = Len(t) /\ u[e] = NUL /\ \A k \in 1..Len(t) : k # e => u[k] = t[k]
        /\ (q = e /\ t[e] = NUL) \/ (q = e + 1 /\ t[e] = sep)
    BY <2>1, CutDoes
  <2>3. \A a \in Buffer : a # b => heap'[a] = heap[a]
    BY <2>1, CutDoes
  <2> HIDE DEF t, u, q
  <2>4. t[e] \in Separator
    BY <2>2 DEF Separator
  <2>5. Eroded(t, u)
    BY <2>2, <2>4 DEF Eroded
  <2> HIDE DEF b
  <2>6. CASE c = b
    BY <2>5, <2>6 DEF t, u
  <2>7. CASE c # b
    BY <1>1, <2>3, <2>7
  <2> QED
    BY <2>6, <2>7
<1>3. fault = "none"
  BY DEF ThreadStep
<1>4. \A n : c[1] # v => c # <<v, n>>
  OBVIOUS
<1>5. CASE Split(v)
  BY <1>2, <1>3, <1>5, SplitCuts
<1>6. CASE CutName(v)
  BY <1>2, <1>3, <1>6, NameCuts
<1>7. CASE CutQuality(v)
  BY <1>2, <1>3, <1>7, QualityCuts
<1>8. CASE Keep(v)
  BY <1>1, <1>8, KeepDoes
<1>9. CASE Parse(v)
  <2>1. \E l : heap' = [heap EXCEPT ![<<v, 0>>] = l]
    BY <1>9 DEF Parse
  <2>2. c[1] # v => heap'[c] = heap[c]
    BY <2>1, <1>4 DEF Basic, TypeOK
  <2> QED
    BY <1>1, <1>9, <2>2
<1>10. CASE Return(v)
  <2>1. heap' = [heap EXCEPT ![<<v, dim[v]>>] = <<>>, ![<<v, 0>>] = <<>>]
    BY <1>10 DEF Return
  <2>2. c[1] # v => heap'[c] = heap[c]
    BY <2>1, <1>4 DEF Basic, TypeOK
  <2> QED
    BY <1>1, <1>10, <2>2
<1>11. CASE Discard(v) \/ SplitEnd(v) \/ GoOn(v) \/ Enter(v) \/ EnterNull(v) \/ Dangle(v)
  <2>1. heap' = heap
    BY <1>11 DEF Discard, SplitEnd, GoOn, Enter, EnterNull, Dangle
  <2> QED
    BY <1>1, <2>1
<1> QED
  BY <1>5, <1>6, <1>7, <1>8, <1>9, <1>10, <1>11 DEF ThreadStep, ParseOn

(***************************************************************************)
(* This leaves the name of a type as it is.                                *)
(***************************************************************************)
LEMMA ErodedText ==
  ASSUME NEW t \in Seq(STRING), NEW u, Eroded(t, u),
         NEW l, Len(l) \in Nat, Len(l) # 0, l[1] \notin Separator
  PROVE  /\ Held(t, l) => Held(u, l)
         /\ Held(t, l) /\ FirstCut(t, l) => FirstCut(u, l)
         /\ Begins(t, l[1]) => Begins(u, l[1])
         /\ Begins(t, l[1]) /\ t[2] = NUL => u[2] = NUL
<1>1. Len(t) \in Nat /\ Len(u) = Len(t)
  BY DEF Eroded
<1>2. \A k \in 1..Len(t) : u[k] = t[k] \/ (u[k] = NUL /\ t[k] \in Separator)
  BY DEF Eroded
<1>3. ASSUME Held(t, l)
      PROVE  Held(u, l)
  <2>1. Len(t) = Len(l) /\ 1 \in 1..Len(t) /\ t[1] = l[1]
    BY <1>1, <1>3 DEF Held
  <2>2. u[1] = l[1]
    BY <1>2, <2>1
  <2>3. \A k \in 1..Len(l) : u[k] = l[k] \/ u[k] = NUL
    BY <1>2, <1>3, <2>1 DEF Held
  <2> QED
    BY <1>1, <2>1, <2>2, <2>3 DEF Held
<1>4. ASSUME Held(t, l), FirstCut(t, l)
      PROVE  FirstCut(u, l)
  <2>1. PICK n \in 2..Len(l) : t[n] = NUL /\ \A k \in 1..(n - 1) : l[k] # Comma
    BY <1>4 DEF FirstCut
  <2>2. n \in 1..Len(t)
    BY <1>1, <1>4 DEF Held
  <2>3. u[n] = NUL
    BY <1>2, <2>1, <2>2
  <2> QED
    BY <2>1, <2>3 DEF FirstCut
<1>5. ASSUME Begins(t, l[1])
      PROVE  Begins(u, l[1]) /\ (t[2] = NUL => u[2] = NUL)
  <2>1. Len(t) >= 2 /\ t[1] = l[1] /\ (t[2] = Semicolon \/ t[2] = NUL)
    BY <1>5 DEF Begins
  <2>2. 1 \in 1..Len(t) /\ 2 \in 1..Len(t)
    BY <1>1, <2>1
  <2>3. u[1] = l[1] /\ (u[2] = t[2] \/ u[2] = NUL)
    BY <1>2, <2>1, <2>2
  <2> QED
    BY <1>1, <2>1, <2>3 DEF Begins
<1> QED
  BY <1>3, <1>4, <1>5

\* A text in memory is a sequence.
LEMMA TextIs ==
  ASSUME Basic, NEW c \in Buffer
  PROVE  heap[c] \in Seq(STRING) /\ (heap[c] # <<>> => Ended(heap[c]))
<1>1. heap[c] = <<>> \/ Ended(heap[c])
  BY DEF Basic, Texts
<1>2. CASE heap[c] = <<>>
  BY <1>2
<1>3. CASE Ended(heap[c])
  BY <1>3, EndedIs
<1> QED
  BY <1>1, <1>2, <1>3

(***************************************************************************)
(* The first type of such a line.                                          *)
(***************************************************************************)
LEMMA KnownIs ==
  ASSUME Basic, NEW w \in Worker, Known(w)
  PROVE  LET l == line[w]
         IN /\ IsText(l) /\ Ended(l) /\ Len(l) \in Nat /\ Len(l) # 0 /\ Len(l) >= 2
            /\ l[1] \in Jpg \cup {"image/png", "*/*"} /\ l[1] \notin Separator
            /\ l[2] \in Separator
            /\ \A n \in 2..Len(l) : (\A k \in 1..(n - 1) : l[k] # Comma) =>
                 \A k \in 1..(n - 1) : l[k] \notin Text
<1> DEFINE l == line[w]
<1>1. /\ IsText(l) /\ Ended(l) /\ Len(l) \in Nat /\ Len(l) # 0
      /\ \A k \in 1..Len(l) : l[k] \notin Separator => k + 1 \in 1..Len(l) /\ l[k + 1] \in Separator
      /\ \A k \in 1..Len(l) : l[k] = NUL => k = Len(l)
  BY LineGiven, LineIs, EndedIs DEF Known
<1>2. PICK r \in Kept(l) : r[1] = 1 /\ l[1] \in Jpg \cup {"image/png", "*/*"}
  BY DEF Known
<1>3. l[1] \notin Separator
  <2>1. \A x \in {"image/jpg", "image/jpeg", "image/png", "*/*"} : x # Comma /\ x # Semicolon /\ x # NUL
    BY DEF Comma, Semicolon, NUL
  <2> QED
    BY <1>2, <2>1 DEF Jpg, Separator
<1>4. 1 \in 1..Len(l)
  BY <1>1
<1>5. 1 + 1 \in 1..Len(l) /\ l[1 + 1] \in Separator
  BY <1>1, <1>3, <1>4
<1>6. r \in Types(l) /\ \A k \in r[1]..r[2] : l[k] \notin Text
  BY DEF Kept
<1>7. r[2] \in 1..(Len(l) - 1) /\ (l[r[2] + 1] = Comma \/ l[r[2] + 1] = NUL)
  BY <1>1, <1>2, <1>6, TypeIs
<1> HIDE DEF l
<1>8. ASSUME NEW n \in 2..Len(l), \A k \in 1..(n - 1) : l[k] # Comma, NEW k \in 1..(n - 1)
      PROVE  l[k] \notin Text
  <2>1. CASE k <= r[2]
    BY <1>2, <1>6, <1>7, <2>1
  <2>2. CASE k > r[2]
    <3>1. r[2] + 1 \in 1..(n - 1) /\ r[2] + 1 \in 1..Len(l)
      BY <1>1, <1>7, <2>2
    <3>2. l[r[2] + 1] = NUL
      BY <1>7, <1>8, <3>1
    <3>3. r[2] + 1 = Len(l)
      BY <1>1, <3>1, <3>2
    <3> QED
      BY <1>1, <3>1, <3>3
  <2> QED
    BY <1>7, <2>1, <2>2
<1> QED
  BY <1>1, <1>2, <1>3, <1>5, <1>8 DEF l

(***************************************************************************)
(* A step that only erodes the texts of such a thread keeps what is said   *)
(* of them.                                                                *)
(***************************************************************************)
LEMMA HeldKept ==
  ASSUME Basic, NEW w \in Worker, Known(w), Held(heap[<<w, 0>>], line[w]),
         Eroded(heap[<<w, 0>>], heap'[<<w, 0>>])
  PROVE  /\ Held(heap'[<<w, 0>>], line[w])
         /\ FirstCut(heap[<<w, 0>>], line[w]) => FirstCut(heap'[<<w, 0>>], line[w])
<1>1. <<w, 0>> \in Buffer
  BY Constants DEF Buffer
<1>2. heap[<<w, 0>>] \in Seq(STRING)
  BY <1>1, TextIs
<1> QED
  BY <1>2, KnownIs, ErodedText

\* So does the copy of its first type.
LEMMA BeginsKept ==
  ASSUME Basic, NEW w \in Worker, Known(w), Begins(heap[<<w, 1>>], line[w][1]), dim[w] # 0,
         Eroded(heap[<<w, 1>>], heap'[<<w, 1>>])
  PROVE  /\ Begins(heap'[<<w, 1>>], line[w][1])
         /\ heap[<<w, 1>>][2] = NUL => heap'[<<w, 1>>][2] = NUL
<1>1. <<w, 1>> \in Buffer
  <2>1. 1 \in 0..dim[w]
    BY DimIs DEF Basic
  <2> QED
    BY <2>1, DimIs DEF Basic
<1>2. heap[<<w, 1>>] \in Seq(STRING)
  BY <1>1, TextIs
<1> QED
  BY <1>2, KnownIs, ErodedText

(***************************************************************************)
(* The steps of others.                                                    *)
(***************************************************************************)
LEMMA FirstKept ==
  ASSUME Basic, NEW w \in Worker, ThreadStep(w), NEW v \in Worker, v # w, FirstOf(v)
  PROVE  FirstOf(v)'
<1> SUFFICES ASSUME Known(v)'
             PROVE  /\ pc'[v] # "done" => /\ Held(heap'[<<v, 0>>], line'[v])
                                          /\ FirstToken(v)' /\ FirstType(v)'
                    /\ FirstEntry(v)'
  BY DEF FirstOf
<1>1. Same(v)
  BY OthersSame DEF Basic
<1>2. Known(v)
  BY <1>1 DEF Known, Same
<1>3. FirstEntry(v)'
  BY <1>1, <1>2 DEF FirstOf, FirstEntry, Same
<1>4. ASSUME pc'[v] # "done"
      PROVE  Held(heap'[<<v, 0>>], line'[v]) /\ FirstToken(v)' /\ FirstType(v)'
  <2>1. Held(heap[<<v, 0>>], line[v]) /\ FirstToken(v) /\ FirstType(v)
    BY <1>1, <1>2, <1>4 DEF FirstOf, Same
  <2>2. \A n \in 0..dim[v] : Eroded(heap[<<v, n>>], heap'[<<v, n>>])
    <3> TAKE n \in 0..dim[v]
    <3>1. <<v, n>> \in Buffer
      BY DimIs DEF Basic
    <3> QED
      BY <3>1, Erodes
  <2>3. 0 \in 0..dim[v] /\ (dim[v] # 0 => 1 \in 0..dim[v])
    BY DimIs DEF Basic
  <2>4. /\ Held(heap'[<<v, 0>>], line[v])
        /\ FirstCut(heap[<<v, 0>>], line[v]) => FirstCut(heap'[<<v, 0>>], line[v])
    BY <1>2, <2>1, <2>2, <2>3, HeldKept
  <2>5. FirstToken(v)'
    BY <1>1, <2>1, <2>4 DEF FirstToken, Same
  <2>6. FirstType(v)'
    <3> SUFFICES ASSUME dim[v] # 0, list[v] = <<>>
                 PROVE  FirstType(v)'
      BY <1>1 DEF FirstType, Same
    <3>1. /\ Begins(heap[<<v, 1>>], line[v][1])
          /\ pc[v] \in Cuts => token1[v] = In(v, 1, 1) /\ heap[<<v, 1>>][2] = NUL
      BY <2>1 DEF FirstType
    <3>2. /\ Begins(heap'[<<v, 1>>], line[v][1])
          /\ heap[<<v, 1>>][2] = NUL => heap'[<<v, 1>>][2] = NUL
      BY <1>2, <2>2, <2>3, <3>1, BeginsKept
    <3> QED
      BY <1>1, <3>1, <3>2 DEF FirstType, Same
  <2> QED
    BY <1>1, <2>4, <2>5, <2>6 DEF Same
<1> QED
  BY <1>3, <1>4

\* The line is given.
LEMMA FirstParse ==
  ASSUME Basic, NEW w \in Worker, ThreadStep(w), Parse(w)
  PROVE  FirstOf(w)'
<1>1. PICK l \in Line[w] :
        /\ line' = [line EXCEPT ![w] = l]
        /\ heap' = [heap EXCEPT ![<<w, 0>>] = l]
  BY DEF Parse
<1>2. /\ pc'[w] = "split" /\ at'[w] = In(w, 0, 1) /\ line'[w] = l
      /\ heap'[<<w, 0>>] = l /\ dim'[w] = 0 /\ list'[w] = <<>>
  <2>1. <<w, 0>> \in Buffer
    BY Constants DEF Buffer
  <2> QED
    BY <1>1, <2>1 DEF Parse, Basic, TypeOK, Steps, StepOf, Go, In
<1>3. Held(l, l)
  BY DEF Held
<1> QED
  BY <1>2, <1>3 DEF FirstOf, FirstToken, FirstType, FirstEntry

(***************************************************************************)
(* The first token cut out of the line begins with the name.               *)
(***************************************************************************)
LEMMA FirstSplit ==
  ASSUME Basic, NEW w \in Worker, ThreadStep(w), Split(w), FirstOf(w)
  PROVE  FirstOf(w)'
<1>1. /\ pc[w] = "split" /\ pc'[w] = "take" /\ token1'[w] = Token(w, Comma)
      /\ UNCHANGED <<line, dim, list>>
  BY DEF Split, Go, Basic, TypeOK
<1> SUFFICES ASSUME Known(w)
             PROVE  Held(heap'[<<w, 0>>], line[w]) /\ FirstToken(w)' /\ FirstType(w)' /\ FirstEntry(w)'
  BY <1>1 DEF FirstOf, Known
<1>2. Held(heap[<<w, 0>>], line[w]) /\ FirstToken(w) /\ FirstType(w) /\ FirstEntry(w)
  BY <1>1 DEF FirstOf
<1>3. \A n \in 0..dim[w] : Eroded(heap[<<w, n>>], heap'[<<w, n>>])
  <2> TAKE n \in 0..dim[w]
  <2>1. <<w, n>> \in Buffer
    BY DimIs DEF Basic
  <2>2. ~Parse(w) /\ ~Return(w) /\ ~Keep(w)
    BY <1>1 DEF Parse, Return, EntryMade, Keep
  <2> QED
    BY <2>1, <2>2, Erodes
<1>4. 0 \in 0..dim[w] /\ (dim[w] # 0 => 1 \in 0..dim[w])
  BY DimIs DEF Basic
<1>5. Held(heap'[<<w, 0>>], line[w])
  BY <1>2, <1>3, <1>4, HeldKept
<1>6. FirstToken(w)'
  <2> SUFFICES ASSUME dim[w] = 0
               PROVE  FirstToken(w)'
    BY <1>1 DEF FirstToken
  <2>1. PICK l : l = line[w]
    OBVIOUS
  <2>2. at[w] = In(w, 0, 1)
    BY <1>1, <1>2 DEF FirstToken
  <2>3. PICK s, e \in Nat : CutStep(w, Comma, s, e)
    BY SplitCuts DEF ThreadStep
  <2>4. PICK t, u, q :
           /\ t = heap[<<w, 0>>] /\ u = heap'[<<w, 0>>]
           /\ 1 \in 1..Len(t) /\ IsToken(t, 1, Comma, s, e) /\ EndedAt(t, u, e)
           /\ q \in 1..Len(u) /\ Follows(t, Comma, e, q) /\ olds' = In(w, 0, q)
           /\ Token(w, Comma) = IF t[s] = NUL THEN Null ELSE [buf |-> <<w, 0>>, pos |-> s]
    BY <2>2, <2>3, CutHere
  <2>5. /\ Len(t) = Len(l) /\ Len(l) \in Nat /\ t[1] = l[1]
        /\ \A k \in 1..Len(l) : t[k] = l[k] \/ t[k] = NUL
        /\ l[1] # Comma /\ l[1] # NUL
    <3>1. l[1] \notin Separator /\ Len(l) \in Nat
      BY <2>1, KnownIs
    <3> QED
      BY <1>2, <2>1, <2>4, <3>1 DEF Held, Separator
  <2>6. /\ s \in 1..Len(t) /\ e \in s..Len(t)
        /\ \A k \in 1..(s - 1) : t[k] = Comma
        /\ \A k \in s..(e - 1) : t[k] # Comma /\ t[k] # NUL
        /\ t[e] = Comma \/ t[e] = NUL
    BY <2>4 DEF IsToken
  <2>7. s = 1
    BY <2>5, <2>6
  <2>8. e \in 2..Len(l)
    <3>1. e # 1
      BY <2>5, <2>6
    <3> QED
      BY <2>5, <2>6, <2>7, <3>1
  <2>9. \A k \in 1..(e - 1) : l[k] # Comma
    <3> TAKE k \in 1..(e - 1)
    <3>1. t[k] # Comma /\ t[k] # NUL /\ k \in 1..Len(l)
      BY <2>5, <2>6, <2>7, <2>8
    <3> QED
      BY <2>5, <3>1
  <2>10. FirstCut(u, l)
    BY <2>4, <2>8, <2>9 DEF FirstCut, EndedAt
  <2>11. token1'[w] = In(w, 0, 1)
    BY <1>1, <2>4, <2>5, <2>7 DEF In
  <2>12. pc'[w] = "take" /\ FirstCut(heap'[<<w, 0>>], line'[w])
    BY <1>1, <2>1, <2>4, <2>10
  <2> QED
    BY <2>11, <2>12 DEF FirstToken
<1>7. FirstType(w)'
  <2> SUFFICES ASSUME dim[w] # 0, list[w] = <<>>
               PROVE  FirstType(w)'
    BY <1>1 DEF FirstType
  <2>1. Begins(heap'[<<w, 1>>], line[w][1])
    BY <1>2, <1>3, <1>4, BeginsKept DEF FirstType
  <2> QED
    BY <1>1, <2>1 DEF FirstType, Cuts
<1>8. FirstEntry(w)'
  BY <1>1, <1>2 DEF FirstEntry
<1> QED
  BY <1>5, <1>6, <1>7, <1>8

(***************************************************************************)
(* The string of that token: its symbols are those of the line, the name   *)
(* first, and a semicolon behind it if it has more than one.               *)
(***************************************************************************)
LEMMA FirstString ==
  ASSUME Basic, NEW w \in Worker, Known(w), Held(heap[<<w, 0>>], line[w]), FirstToken(w),
         pc[w] = "take", dim[w] = 0
  PROVE  LET string == StringAt(token1[w])
             l == line[w]
         IN /\ token1[w] = In(w, 0, 1) /\ token1[w] # Null
            /\ ~Has(string, Text) /\ Begins(Append(string, NUL), l[1])
<1>1. token1[w] = In(w, 0, 1) /\ FirstCut(heap[<<w, 0>>], line[w])
  BY DEF FirstToken
<1>2. PICK l, t : l = line[w] /\ t = heap[<<w, 0>>]
  OBVIOUS
<1>3. /\ Len(l) \in Nat /\ Len(l) >= 2
      /\ l[1] \notin Separator /\ l[2] \in Separator
      /\ \A n \in 2..Len(l) : (\A k \in 1..(n - 1) : l[k] # Comma) =>
           \A k \in 1..(n - 1) : l[k] \notin Text
  BY <1>2, KnownIs
<1>4. /\ Len(t) = Len(l) /\ t[1] = l[1]
      /\ \A k \in 1..Len(l) : t[k] = l[k] \/ t[k] = NUL
  BY <1>2 DEF Held
<1>5. <<w, 0>> \in Buffer
  BY Constants DEF Buffer
<1>6. Ended(t) /\ 1 \in 1..Len(t)
  <2>1. 1 \in 1..Len(t)
    BY <1>3, <1>4
  <2>2. t # <<>>
    BY <2>1
  <2> QED
    BY <1>2, <1>5, <2>1, <2>2, TextIs
<1>7. PICK n \in 2..Len(l) : t[n] = NUL /\ \A k \in 1..(n - 1) : l[k] # Comma
  BY <1>1, <1>2 DEF FirstCut
<1>8. PICK x : x = StringFrom(t, 1)
  OBVIOUS
<1>9. StringAt(token1[w]) = x
  <2>1. token1[w].buf = <<w, 0>> /\ token1[w].pos = 1
    BY <1>1 DEF In
  <2> QED
    BY <1>2, <1>8, <2>1 DEF StringAt, StringFrom
<1>10. /\ x \in Seq(STRING) /\ Len(x) \in Nat /\ NUL \in STRING
       /\ 1 + Len(x) <= Len(t) /\ t[1 + Len(x)] = NUL
       /\ \A k \in 1..Len(x) : x[k] = t[1 + k - 1] /\ x[k] # NUL
  BY <1>6, <1>8, StringIs
<1>11. Len(x) # 0
  <2>1. t[1] # NUL
    BY <1>3, <1>4 DEF Separator
  <2> QED
    BY <1>10, <2>1
<1>12. Len(x) < n
  <2>1. ~(n \in 1..Len(x))
    <3> SUFFICES ASSUME n \in 1..Len(x)
                 PROVE  FALSE
      OBVIOUS
    <3>1. 1 + n - 1 = n
      OBVIOUS
    <3>2. x[n] = t[n] /\ x[n] # NUL
      BY <1>10, <3>1
    <3> QED
      BY <1>7, <3>2
  <2> QED
    BY <1>10, <2>1
<1>13. \A k \in 1..Len(x) : x[k] = l[k] /\ k \in 1..(n - 1)
  <2> TAKE k \in 1..Len(x)
  <2>1. 1 + k - 1 = k /\ k \in 1..(n - 1) /\ k \in 1..Len(l)
    BY <1>3, <1>10, <1>12
  <2>2. x[k] = t[k] /\ x[k] # NUL
    BY <1>10, <2>1
  <2> QED
    BY <1>4, <2>1, <2>2
<1>14. ~Has(x, Text)
  <2>1. \A k \in 1..Len(x) : x[k] \notin Text
    BY <1>3, <1>7, <1>13
  <2> QED
    BY <2>1 DEF Has, Symbols
<1>15. Begins(Append(x, NUL), l[1])
  <2> DEFINE y == Append(x, NUL)
  <2>1. /\ Len(y) = Len(x) + 1 /\ y[Len(x) + 1] = NUL
        /\ \A k \in 1..Len(x) : y[k] = x[k]
    BY <1>10, AppendProperties
  <2> HIDE DEF y
  <2>2. y[1] = l[1] /\ Len(y) >= 2
    BY <1>10, <1>11, <1>13, <2>1
  <2>3. y[2] = Semicolon \/ y[2] = NUL
    <3>1. CASE Len(x) = 1
      BY <2>1, <3>1
    <3>2. CASE Len(x) # 1
      <4>1. PICK m \in Nat : m = Len(x)
        BY <1>10
      <4>2. m # 0 /\ m # 1
        BY <1>11, <3>2, <4>1
      <4>3. 2 \in 1..m
        BY <4>2
      <4>4. y[2] = l[2] /\ 2 \in 1..(n - 1)
        BY <1>13, <2>1, <4>1, <4>3
      <4> QED
        BY <1>3, <1>7, <4>4 DEF Separator
    <3> QED
      BY <3>1, <3>2
  <2>4. Begins(y, l[1])
    BY <2>2, <2>3 DEF Begins
  <2> QED
    BY <2>4 DEF y
<1>16. token1[w] # Null
  <2>1. In(w, 0, 1) \in Pointer
    BY <1>5 DEF In, Pointer
  <2> QED
    BY <1>1, <2>1, Constants
<1> QED
  BY <1>1, <1>2, <1>9, <1>14, <1>15, <1>16

\* The first type is not passed over.
LEMMA FirstDiscard ==
  ASSUME Basic, NEW w \in Worker, ThreadStep(w), Discard(w), FirstOf(w)
  PROVE  FirstOf(w)'
<1>1. /\ pc[w] = "take" /\ pc'[w] = "split" /\ Has(StringAt(token1[w]), Text)
      /\ UNCHANGED <<line, dim, list, heap>>
  BY DEF Discard, Go, Basic, TypeOK
<1> SUFFICES ASSUME Known(w)
             PROVE  Held(heap[<<w, 0>>], line[w]) /\ FirstToken(w)' /\ FirstType(w)' /\ FirstEntry(w)'
  BY <1>1 DEF FirstOf, Known
<1>2. Held(heap[<<w, 0>>], line[w]) /\ FirstToken(w) /\ FirstType(w) /\ FirstEntry(w)
  BY <1>1 DEF FirstOf
<1>3. dim[w] # 0
  BY <1>1, <1>2, FirstString
<1> QED
  BY <1>1, <1>2, <1>3 DEF FirstToken, FirstType, FirstEntry, Cuts

(***************************************************************************)
(* The first copy is that of the first type.                               *)
(***************************************************************************)
LEMMA FirstKeep ==
  ASSUME Basic, NEW w \in Worker, ThreadStep(w), Keep(w), FirstOf(w)
  PROVE  FirstOf(w)'
<1> DEFINE string == StringAt(token1[w])
<1>1. /\ pc[w] = "take" /\ pc'[w] = "split" /\ line' = line
      /\ dim[w] \in Nat /\ dim'[w] = dim[w] + 1
      /\ heap'[<<w, dim[w] + 1>>] = Append(string, NUL)
      /\ \A c \in Buffer : c # <<w, dim[w] + 1>> => heap'[c] = heap[c]
  BY KeepDoes
<1>2. list' = list
  BY DEF Keep
<1> SUFFICES ASSUME Known(w)
             PROVE  Held(heap'[<<w, 0>>], line[w]) /\ FirstToken(w)' /\ FirstType(w)' /\ FirstEntry(w)'
  BY <1>1 DEF FirstOf, Known
<1>3. Held(heap[<<w, 0>>], line[w]) /\ FirstToken(w) /\ FirstType(w) /\ FirstEntry(w)
  BY <1>1 DEF FirstOf
<1>4. heap'[<<w, 0>>] = heap[<<w, 0>>]
  <2>1. <<w, 0>> \in Buffer /\ 0 # dim[w] + 1
    BY <1>1, Constants DEF Buffer
  <2> QED
    BY <1>1, <2>1
<1>5. dim'[w] # 0
  BY <1>1
<1>6. ASSUME list[w] = <<>>
      PROVE  Begins(heap'[<<w, 1>>], line[w][1])
  <2>1. CASE dim[w] = 0
    <3>1. Begins(Append(string, NUL), line[w][1])
      BY <1>1, <1>3, <2>1, FirstString
    <3>2. dim[w] + 1 = 1
      BY <2>1
    <3> QED
      BY <1>1, <3>1, <3>2
  <2>2. CASE dim[w] # 0
    <3>1. 1 \in 0..dim[w] /\ dim[w] + 1 # 1
      BY <1>1, <2>2
    <3>2. <<w, 1>> \in Buffer
      BY <3>1, DimIs DEF Basic
    <3>3. heap'[<<w, 1>>] = heap[<<w, 1>>]
      BY <1>1, <3>1, <3>2
    <3> QED
      BY <1>3, <1>6, <2>2, <3>3 DEF FirstType
  <2> QED
    BY <2>1, <2>2
<1>7. FirstType(w)'
  BY <1>1, <1>2, <1>6 DEF FirstType, Cuts
<1> QED
  BY <1>1, <1>2, <1>3, <1>4, <1>5, <1>7 DEF FirstToken, FirstEntry

\* There is a first type.
LEMMA FirstSplitEnd ==
  ASSUME Basic, NEW w \in Worker, ThreadStep(w), SplitEnd(w), FirstOf(w)
  PROVE  FirstOf(w)'
<1>1. /\ pc[w] = "take" /\ token1[w] = Null
      /\ pc' = pc \/ pc'[w] = "first"
      /\ UNCHANGED <<line, dim, list, heap>>
  BY DEF SplitEnd, Go, Basic, TypeOK
<1> SUFFICES ASSUME Known(w)
             PROVE  Held(heap[<<w, 0>>], line[w]) /\ FirstToken(w)' /\ FirstType(w)' /\ FirstEntry(w)'
  BY <1>1 DEF FirstOf, Known
<1>2. Held(heap[<<w, 0>>], line[w]) /\ FirstToken(w) /\ FirstType(w) /\ FirstEntry(w)
  BY <1>1 DEF FirstOf
<1>3. dim[w] # 0
  BY <1>1, <1>2, FirstString
<1> QED
  BY <1>1, <1>2, <1>3 DEF FirstToken, FirstType, FirstEntry, Cuts

(***************************************************************************)
(* The name cut off in the first copy is that of the first type.           *)
(***************************************************************************)
LEMMA FirstName ==
  ASSUME Basic, NEW w \in Worker, ThreadStep(w), CutName(w), FirstOf(w)
  PROVE  FirstOf(w)'
<1>1. /\ pc[w] = "first" /\ pc'[w] = "second" /\ token1'[w] = Token(w, Semicolon)
      /\ UNCHANGED <<line, dim, list>>
  BY DEF CutName, Go, Basic, TypeOK
<1> SUFFICES ASSUME Known(w)
             PROVE  Held(heap'[<<w, 0>>], line[w]) /\ FirstToken(w)' /\ FirstType(w)' /\ FirstEntry(w)'
  BY <1>1 DEF FirstOf, Known
<1>2. Held(heap[<<w, 0>>], line[w]) /\ FirstToken(w) /\ FirstType(w) /\ FirstEntry(w)
  BY <1>1 DEF FirstOf
<1>3. \A n \in 0..dim[w] : Eroded(heap[<<w, n>>], heap'[<<w, n>>])
  <2> TAKE n \in 0..dim[w]
  <2>1. <<w, n>> \in Buffer
    BY DimIs DEF Basic
  <2>2. ~Parse(w) /\ ~Return(w) /\ ~Keep(w)
    BY <1>1 DEF Parse, Return, EntryMade, Keep
  <2> QED
    BY <2>1, <2>2, Erodes
<1>4. at[w] = In(w, Len(list[w]) + 1, 1) /\ Len(list[w]) < dim[w] /\ Len(list[w]) \in Nat
  <2>1. list[w] \in Seq([extension : Extension, q : 0..10])
    BY DEF Basic, TypeOK
  <2> QED
    BY <1>1, <2>1 DEF Basic, Steps, StepOf, Entries
<1>5. dim[w] # 0 /\ 0 \in 0..dim[w] /\ 1 \in 0..dim[w]
  BY <1>4, DimIs DEF Basic
<1>6. Held(heap'[<<w, 0>>], line[w])
  BY <1>2, <1>3, <1>5, HeldKept
<1>7. FirstType(w)'
  <2> SUFFICES ASSUME list[w] = <<>>
               PROVE  Begins(heap'[<<w, 1>>], line[w][1]) /\ token1'[w] = In(w, 1, 1)
                      /\ heap'[<<w, 1>>][2] = NUL
    BY <1>1 DEF FirstType
  <2>1. Begins(heap[<<w, 1>>], line[w][1])
    BY <1>2, <1>5 DEF FirstType
  <2>2. Begins(heap'[<<w, 1>>], line[w][1])
    BY <1>3, <1>5, <2>1, BeginsKept
  <2>3. at[w] = In(w, 1, 1)
    BY <1>4
  <2>4. PICK s, e \in Nat : CutStep(w, Semicolon, s, e)
    BY NameCuts DEF ThreadStep
  <2>5. PICK t, u, q :
           /\ t = heap[<<w, 1>>] /\ u = heap'[<<w, 1>>]
           /\ 1 \in 1..Len(t) /\ IsToken(t, 1, Semicolon, s, e) /\ EndedAt(t, u, e)
           /\ q \in 1..Len(u) /\ Follows(t, Semicolon, e, q) /\ olds' = In(w, 1, q)
           /\ Token(w, Semicolon) = IF t[s] = NUL THEN Null ELSE [buf |-> <<w, 1>>, pos |-> s]
    BY <2>3, <2>4, CutHere
  <2>6. /\ Len(t) >= 2 /\ t[1] = line[w][1] /\ (t[2] = Semicolon \/ t[2] = NUL)
        /\ t[1] # Semicolon /\ t[1] # NUL /\ Len(t) \in Nat
    <3>1. line[w][1] \notin Separator
      BY KnownIs
    <3>2. Len(t) \in Nat
      BY <2>5, EndedIs DEF EndedAt
    <3> QED
      BY <2>1, <2>5, <3>1, <3>2 DEF Begins, Separator
  <2>7. /\ s \in 1..Len(t) /\ e \in s..Len(t)
        /\ \A k \in 1..(s - 1) : t[k] = Semicolon
        /\ \A k \in s..(e - 1) : t[k] # Semicolon /\ t[k] # NUL
        /\ t[e] = Semicolon \/ t[e] = NUL
    BY <2>5 DEF IsToken
  <2>8. s = 1
    BY <2>6, <2>7
  <2>9. e = 2
    <3>1. e # 1
      BY <2>6, <2>7
    <3>2. ~(2 \in 1..(e - 1))
      BY <2>6, <2>7, <2>8
    <3> QED
      BY <2>6, <2>7, <2>8, <3>1, <3>2
  <2>10. heap'[<<w, 1>>][2] = NUL
    BY <2>5, <2>9 DEF EndedAt
  <2>11. token1'[w] = In(w, 1, 1)
    BY <1>1, <2>5, <2>6, <2>8 DEF In
  <2> QED
    BY <2>2, <2>10, <2>11
<1> QED
  BY <1>1, <1>2, <1>5, <1>6, <1>7 DEF FirstToken, FirstEntry

\* The thread goes on behind the name.
LEMMA FirstGoOn ==
  ASSUME Basic, NEW w \in Worker, ThreadStep(w), GoOn(w), FirstOf(w)
  PROVE  FirstOf(w)'
<1>1. /\ pc[w] = "second" /\ pc'[w] = "param"
      /\ UNCHANGED <<line, dim, list, heap, token1>>
  BY DEF GoOn, Go, Basic, TypeOK
<1>2. Len(list[w]) < dim[w] /\ dim[w] \in Nat
  BY <1>1, DimIs DEF Basic, Steps, StepOf, Entries, Cuts
<1>3. dim[w] # 0
  <2>1. list[w] \in Seq([extension : Extension, q : 0..10])
    BY DEF Basic, TypeOK
  <2> QED
    BY <1>2, <2>1
<1> QED
  BY <1>1, <1>3 DEF FirstOf, Known, FirstToken, FirstType, FirstEntry, Cuts

\* The quality is cut off, or what another left there.
LEMMA FirstQuality ==
  ASSUME Basic, NEW w \in Worker, ThreadStep(w), CutQuality(w), FirstOf(w)
  PROVE  FirstOf(w)'
<1>1. /\ pc[w] = "param" /\ pc'[w] = "enter"
      /\ UNCHANGED <<line, dim, list, token1>>
  BY DEF CutQuality, Go, Basic, TypeOK
<1> SUFFICES ASSUME Known(w)
             PROVE  Held(heap'[<<w, 0>>], line[w]) /\ FirstToken(w)' /\ FirstType(w)' /\ FirstEntry(w)'
  BY <1>1 DEF FirstOf, Known
<1>2. Held(heap[<<w, 0>>], line[w]) /\ FirstToken(w) /\ FirstType(w) /\ FirstEntry(w)
  BY <1>1 DEF FirstOf
<1>3. \A n \in 0..dim[w] : Eroded(heap[<<w, n>>], heap'[<<w, n>>])
  <2> TAKE n \in 0..dim[w]
  <2>1. <<w, n>> \in Buffer
    BY DimIs DEF Basic
  <2>2. ~Parse(w) /\ ~Return(w) /\ ~Keep(w)
    BY <1>1 DEF Parse, Return, EntryMade, Keep
  <2> QED
    BY <2>1, <2>2, Erodes
<1>4. dim[w] # 0 /\ 0 \in 0..dim[w] /\ 1 \in 0..dim[w]
  <2>1. list[w] \in Seq([extension : Extension, q : 0..10])
    BY DEF Basic, TypeOK
  <2>2. Len(list[w]) < dim[w]
    BY <1>1 DEF Basic, Steps, StepOf, Entries, Cuts
  <2> QED
    BY <2>1, <2>2, DimIs DEF Basic
<1>5. Held(heap'[<<w, 0>>], line[w])
  BY <1>2, <1>3, <1>4, HeldKept
<1>6. FirstType(w)'
  <2> SUFFICES ASSUME list[w] = <<>>
               PROVE  Begins(heap'[<<w, 1>>], line[w][1]) /\ token1'[w] = In(w, 1, 1)
                      /\ heap'[<<w, 1>>][2] = NUL
    BY <1>1 DEF FirstType
  <2>1. Begins(heap[<<w, 1>>], line[w][1]) /\ token1[w] = In(w, 1, 1) /\ heap[<<w, 1>>][2] = NUL
    BY <1>1, <1>2, <1>4 DEF FirstType, Cuts
  <2> QED
    BY <1>1, <1>3, <1>4, <2>1, BeginsKept
<1> QED
  BY <1>1, <1>2, <1>4, <1>5, <1>6 DEF FirstToken, FirstEntry

(***************************************************************************)
(* So is the first entry.                                                  *)
(***************************************************************************)
LEMMA FirstMade ==
  ASSUME Basic, NEW w \in Worker, Known(w), EntryMade(w), FirstOf(w), line'[w] = line[w]
  PROVE  list'[w] # <<>> /\ list'[w][1].extension = ReadFormat(line[w][1], NUL)
<1>1. /\ pc[w] = "enter"
      /\ Len(list[w]) \in Nat /\ Len(list[w]) < dim[w] /\ Len(list'[w]) = Len(list[w]) + 1
      /\ list'[w][Len(list[w]) + 1] = NewEntry(w)
      /\ \A n \in 1..Len(list[w]) : list'[w][n] = list[w][n]
  BY EntryAdded
<1>2. list'[w] # <<>>
  BY <1>1
<1>3. CASE list[w] # <<>>
  <2>1. list[w] \in Seq([extension : Extension, q : 0..10])
    BY DEF Basic, TypeOK
  <2>2. 1 \in 1..Len(list[w])
    BY <1>3, <2>1
  <2>3. list[w][1].extension = ReadFormat(line[w][1], NUL)
    BY <1>3 DEF FirstOf, FirstEntry
  <2> QED
    BY <1>1, <1>2, <2>2, <2>3
<1>4. CASE list[w] = <<>>
  <2>1. dim[w] # 0 /\ 1 \in 0..dim[w]
    BY <1>1, <1>4, DimIs DEF Basic
  <2>2. PICK t, l : t = heap[<<w, 1>>] /\ l = line[w]
    OBVIOUS
  <2>3. token1[w] = In(w, 1, 1) /\ Len(t) >= 2 /\ t[1] = l[1] /\ t[2] = NUL
    BY <1>1, <1>4, <2>1, <2>2 DEF FirstOf, FirstType, Begins, Cuts
  <2>4. l[1] \in Jpg \cup {"image/png", "*/*"} /\ l[1] # NUL
    <3>1. l[1] \in Jpg \cup {"image/png", "*/*"} /\ l[1] \notin Separator
      BY <2>2, KnownIs
    <3> QED
      BY <3>1 DEF Separator
  <2>5. Ended(t) /\ 1 \in 1..Len(t)
    <3>1. <<w, 1>> \in Buffer /\ t # <<>>
      BY <1>1, <2>1, <2>2, DimIs DEF Basic, Allocated
    <3>2. Ended(t)
      BY <2>2, <3>1, TextIs
    <3> QED
      BY <3>2, EndedIs
  <2>6. StringFrom(t, 1) = <<l[1]>>
    <3>1. t[1 + 1] = NUL
      BY <2>3
    <3> QED
      BY <2>3, <2>4, <2>5, <3>1, StringOne
  <2>7. StringAt(token1[w]) = <<l[1]>>
    <3>1. token1[w].buf = <<w, 1>> /\ token1[w].pos = 1
      BY <2>3 DEF In
    <3> QED
      BY <2>2, <2>6, <3>1 DEF StringAt, StringFrom
  <2>8. NewEntry(w).extension = ReadFormat(l[1], NUL)
    BY <2>4, <2>7, FormatSeen DEF NewEntry
  <2>9. list'[w][1] = NewEntry(w)
    BY <1>1, <1>4
  <2> QED
    BY <1>2, <2>2, <2>8, <2>9
<1> QED
  BY <1>3, <1>4

\* The entries are made.
LEMMA FirstEnter ==
  ASSUME Basic, NEW w \in Worker, ThreadStep(w), Enter(w) \/ Return(w), FirstOf(w)
  PROVE  FirstOf(w)'
<1>1. /\ pc[w] = "enter" /\ EntryMade(w) /\ UNCHANGED <<line, dim>>
      /\ pc'[w] = "done" \/ heap' = heap
  BY DEF Enter, Return, EntryMade, Go, Basic, TypeOK
<1> SUFFICES ASSUME Known(w)
             PROVE  /\ pc'[w] # "done" =>
                         Held(heap'[<<w, 0>>], line[w]) /\ FirstToken(w)' /\ FirstType(w)'
                    /\ FirstEntry(w)'
  BY <1>1 DEF FirstOf, Known
<1>2. list'[w] # <<>> /\ list'[w][1].extension = ReadFormat(line[w][1], NUL)
  BY <1>1, FirstMade
<1>3. dim[w] # 0
  <2>1. Len(list[w]) \in Nat /\ Len(list[w]) < dim[w]
    BY <1>1, EntryAdded
  <2> QED
    BY <2>1, DimIs DEF Basic
<1>4. Held(heap[<<w, 0>>], line[w])
  BY <1>1 DEF FirstOf
<1> QED
  BY <1>1, <1>2, <1>3, <1>4 DEF FirstToken, FirstType, FirstEntry

\* The process ends.
LEMMA FirstFault ==
  ASSUME Basic, NEW w \in Worker, ThreadStep(w), EnterNull(w) \/ Dangle(w), FirstOf(w)
  PROVE  FirstOf(w)'
<1>1. UNCHANGED <<pc, line, at, token1, dim, list, heap>>
  BY DEF EnterNull, Dangle, thread
<1> QED
  BY <1>1 DEF FirstOf, Known, FirstToken, FirstType, FirstEntry

(***************************************************************************)
(* At the beginning, and after each step, this is so of such a thread.     *)
(***************************************************************************)
LEMMA FirstInit == Init => FirstHeld
BY DEF Init, FirstHeld, FirstOf, Known

\* So each step keeps this.
LEMMA FirstNext ==
  ASSUME Basic, FirstHeld, NEW w \in Worker, ThreadStep(w)
  PROVE  FirstHeld'
<1>1. FirstOf(w)
  BY DEF FirstHeld
<1>2. FirstOf(w)'
  BY <1>1, FirstParse, FirstSplit, FirstDiscard, FirstKeep, FirstSplitEnd, FirstName, FirstGoOn,
     FirstQuality, FirstEnter, FirstFault
  DEF ThreadStep, ParseOn
<1>3. \A v \in Worker : v # w => FirstOf(v)'
  BY FirstKept DEF FirstHeld
<1> QED
  BY <1>2, <1>3 DEF FirstHeld

\* In the end the first entry is there.
LEMMA FirstIsHeld == Basic /\ FirstHeld => FirstFormatHeld
<1> SUFFICES ASSUME Basic, FirstHeld, NEW w \in Worker, pc[w] = "done",
                    line[w][1] \in Jpg \cup {"image/png", "*/*"},
                    \E r \in Kept(line[w]) : r[1] = 1
             PROVE  list[w][1].extension = ReadFormat(line[w][1], NUL)
  BY DEF FirstFormatHeld
<1>1. list[w] # <<>>
  <2>1. Len(list[w]) = dim[w] /\ dim[w] # 0
    BY DEF Basic, Steps, StepOf
  <2> QED
    BY <2>1
<1> QED
  BY <1>1 DEF FirstHeld, FirstOf, Known, FirstEntry

-----------------------------------------------------------------------------
(* What holds of every behaviour.                                          *)

\* The invariant holds at the beginning ...
LEMMA AcceptInvInit == Init => AcceptInv
<1> SUFFICES ASSUME Init PROVE AcceptInv
  OBVIOUS
<1>1. Basic /\ Alone /\ FirstHeld
  BY BasicInit, AloneInit, FirstInit
<1>2. AcceptFaults
  BY DEF Init, AcceptFaults
<1> QED
  BY <1>1, <1>2 DEF AcceptInv

\* ... and each step keeps it.
LEMMA AcceptInvNext == AcceptInv /\ [Next]_vars => AcceptInv'
<1> SUFFICES ASSUME AcceptInv, [Next]_vars PROVE AcceptInv'
  OBVIOUS
<1>1. Basic /\ Alone /\ FirstHeld /\ AcceptFaults
  BY DEF AcceptInv
<1>2. ASSUME NEW w \in Worker, ThreadStep(w)
      PROVE  AcceptInv'
  <2>1. Basic' /\ Alone' /\ FirstHeld' /\ AcceptFaults'
    BY <1>1, <1>2, BasicNext, AloneNext, FirstNext, FaultsNext
  <2> QED
    BY <2>1 DEF AcceptInv
<1>3. CASE UNCHANGED vars
  <2>1. UNCHANGED <<pc, line, heap, olds, at, token1, token2, dim, list, crossed, fault>>
    BY <1>3 DEF vars, thread
  <2>2. Basic'
    <3>1. TypeOK'
      BY <1>1, <2>1 DEF Basic, TypeOK
    <3>2. Texts' /\ Allocated' /\ Room'
      BY <1>1, <2>1 DEF Basic, Texts, Allocated, Room
    <3>3. Pointers'
      BY <1>1, <2>1 DEF Basic, Pointers, Made, Freed
    <3>4. Steps'
      BY <1>1, <2>1 DEF Basic, Steps, StepOf, Splits, Cuts, Entries
    <3> QED
      BY <3>1, <3>2, <3>3, <3>4 DEF Basic
  <2>3. Alone'
    <3>1. ASSUME NEW w \in Worker
          PROVE  AloneOf(w) => AloneOf(w)'
      <4>1. (Splitting(w) => Splitting(w)') /\ (Taking(w) => Taking(w)')
        BY <2>1 DEF Splitting, Taking, FromHere, Copied, Taken, Waiting
      <4>2. Cutting(w) => Cutting(w)'
        BY <2>1 DEF Cutting
      <4>3. Listing(w) => Listing(w)'
        BY <2>1 DEF Listing, Done, Waiting
      <4> QED
        BY <2>1, <4>1, <4>2, <4>3 DEF AloneOf
    <3> QED
      BY <1>1, <3>1 DEF Alone
  <2>4. FirstHeld'
    BY <1>1, <2>1 DEF FirstHeld, FirstOf, Known, FirstToken, FirstType, FirstEntry
  <2>5. AcceptFaults'
    BY <1>1, <2>1 DEF AcceptFaults
  <2> QED
    BY <2>2, <2>3, <2>4, <2>5 DEF AcceptInv
<1> QED
  BY <1>2, <1>3 DEF Next

(***************************************************************************)
(* The invariant: for all threads that parse a line with one strtok()      *)
(* (get_list_accept_image), for a thread alone, and for a line that begins *)
(* with a type that is known.                                              *)
(***************************************************************************)
THEOREM AcceptInvariance == Spec => []AcceptInv
BY AcceptInvInit, AcceptInvNext, PTL DEF Spec

(***************************************************************************)
(* Each variable of the parser has its type, whatever the threads do.      *)
(***************************************************************************)
THEOREM TypeCorrect == Spec => []TypeOK
<1>1. AcceptInv => TypeOK
  BY DEF AcceptInv, Basic
<1> QED
  BY <1>1, AcceptInvariance, PTL

(***************************************************************************)
(* A thread in whose texts no other went on, and whose place no other      *)
(* took, returns one entry for each type of its line that is kept, in      *)
(* their order, with the format and the quality the line gives it.         *)
(***************************************************************************)
THEOREM AloneIsRight == Spec => []ListRight
<1>1. AcceptInv => ListRight
  BY ListIsRight DEF AcceptInv
<1> QED
  BY <1>1, AcceptInvariance, PTL

(***************************************************************************)
(* The first entry has the format of the first type of the thread's own    *)
(* line, if that is one the server knows, whatever other threads cut.      *)
(***************************************************************************)
THEOREM FirstIsOwn == Spec => []FirstFormatHeld
<1>1. AcceptInv => FirstFormatHeld
  BY FirstIsHeld DEF AcceptInv
<1> QED
  BY <1>1, AcceptInvariance, PTL

(***************************************************************************)
(* The process ends in the parser only for some lines, or where threads    *)
(* have crossed.                                                           *)
(***************************************************************************)
THEOREM FaultsExplained == Spec => []AcceptFaults
<1>1. AcceptInv => AcceptFaults
  BY DEF AcceptInv
<1> QED
  BY <1>1, AcceptInvariance, PTL

=============================================================================

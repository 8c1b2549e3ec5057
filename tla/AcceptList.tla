----------------------------- MODULE AcceptList -----------------------------
(***************************************************************************)
(* get_list_accept_image for the threads of every pool: the types of an    *)
(* Accept line are cut out at the commas and copied, but for those of      *)
(* texts and applications, and then each is cut at its semicolons into its *)
(* name and its quality.  Both are done with strtok(), which writes a NUL  *)
(* at the end of the token it returns, and keeps the place behind it in    *)
(* one variable for the whole process.                                     *)
(*                                                                         *)
(* A text is a sequence of symbols, with a NUL at its end: commas,         *)
(* semicolons, and what stands between two of these, which is one symbol,  *)
(* the name of a type or a quality.  One call of strtok() is two steps, in *)
(* which it reads that variable and in which it does the rest.             *)
(* The module ends where the process does, or where nothing can be said of *)
(* what it does (fault).  One line is parsed by each thread.               *)
(***************************************************************************)
EXTENDS Integers, Sequences, FiniteSets

CONSTANTS
  Worker,         \* threads that parse a request
  Line,           \* for each thread, the lines that get_accept_line may give it
  Null,           \* no pointer
  preallocation   \* of the list, 4 in the code

NUL == "NUL"
Comma == ","
Semicolon == ";"
Separator == {Comma, Semicolon, NUL}

\* A text with one NUL.
IsText(l) ==
  /\ l \in Seq(STRING)
  /\ l # <<>>
  /\ \A k \in 1..Len(l) : l[k] = NUL <=> k = Len(l)
  /\ \A k \in 1..(Len(l) - 1) : l[k] \in Separator \/ l[k + 1] \in Separator

Buffer == Worker \X (0..preallocation)
Pointer == [buf : Buffer, pos : Nat]

ASSUME AcceptAssumption ==
  /\ preallocation \in Nat \ {0}
  /\ Null \notin Pointer
  /\ \A w \in Worker : \A l \in Line[w] : IsText(l)

VARIABLES
  pc,        \* where each thread is
  line,      \* history: the Accept line it was given
  heap,      \* <<w, 0>> is w's accept_line, <<w, n>> the type of its n-th entry;
             \* <<>> if it is not allocated
  olds,      \* where strtok() goes on when it is given no string
  at,        \* where the call a thread is in begins
  token1, token2,
  dim,       \* the types kept
  list,      \* the entries parsed so far: extension, and q in tenths
  crossed,   \* history: the place was taken from the thread, or its text written
  fault      \* how the process ended

thread == <<pc, line, at, token1, token2, dim, list>>
vars == <<thread, heap, olds, crossed, fault>>

Extension == {"JPG", "JXR", "PNG", "WEBP", "ALL_EXT"}

TypeOK ==
  /\ pc \in [Worker -> {"idle", "split", "take", "first", "second", "param", "enter", "done"}]
  /\ DOMAIN line = Worker /\ \A w \in Worker : line[w] \in Line[w] \cup {<<>>}
  /\ DOMAIN heap = Buffer
  /\ olds \in Pointer \cup {Null}
  /\ at \in [Worker -> Pointer \cup {Null}]
  /\ token1 \in [Worker -> Pointer \cup {Null}]
  /\ token2 \in [Worker -> Pointer \cup {Null}]
  /\ dim \in [Worker -> 0..preallocation]
  /\ list \in [Worker -> Seq([extension : Extension, q : 0..10])]
  /\ crossed \in [Worker -> BOOLEAN]
  /\ fault \in {"none", "overrun", "no types", "null", "free", "dangling"}

Init ==
  /\ pc = [w \in Worker |-> "idle"]
  /\ line = [w \in Worker |-> <<>>]
  /\ heap = [b \in Buffer |-> <<>>]
  /\ olds = Null
  /\ at = [w \in Worker |-> Null]
  /\ token1 = [w \in Worker |-> Null]
  /\ token2 = [w \in Worker |-> Null]
  /\ dim = [w \in Worker |-> 0]
  /\ list = [w \in Worker |-> <<>>]
  /\ crossed = [w \in Worker |-> FALSE]
  /\ fault = "none"

-----------------------------------------------------------------------------
(* Texts.                                                                  *)

Go(w, step) == pc' = [pc EXCEPT ![w] = step]

\* The first place from p on where one of the symbols S stands.
FirstIn(text, p, S) ==
  CHOOSE e \in p..Len(text) : text[e] \in S /\ \A k \in p..(e - 1) : text[k] \notin S

Symbols(text) == {text[k] : k \in 1..Len(text)}

\* The string at a pointer, up to the first NUL.
StringAt(p) == SubSeq(heap[p.buf], p.pos, FirstIn(heap[p.buf], p.pos, {NUL}) - 1)

Freed(p) == heap[p.buf] = <<>>

\* strstr().
Has(string, words) == Symbols(string) \cap words # {}

Text == {"text/html", "application/xml"}
Jpg == {"image/jpg", "image/jpeg"}
ImageType == Jpg \cup {"image/*", "image/png", "image/webp", "image/jxr", "image/gif"}

One == " q=1"
Half == {"q=0.5", " q=0.5"}

\* strtof(token2 + 3), in tenths: what stands behind "q=" if a blank stands before
\* it, and if none does, only what stands behind the digit.
Strtof(string) ==
  IF string = <<>> THEN 0
  ELSE CASE Head(string) = One -> 10
         [] Head(string) \in Half -> 5
         [] OTHER -> 0

-----------------------------------------------------------------------------
(* strtok().                                                               *)

\* It reads the place it goes on from.
Resume(w) == at' = [at EXCEPT ![w] = olds]

\* Another thread's call takes the place of w's, or goes on in w's text.
Crosses(w) ==
  crossed' = [o \in Worker |->
    crossed[o] \/ (o # w /\ (pc[o] \in {"take", "second"} \/ at[w].buf[1] = o))]

\* Where the token of a call begins, and where it ends.
Start(w, sep) ==
  LET text == heap[at[w].buf]
  IN FirstIn(text, at[w].pos, Symbols(text) \ {sep})
End(w, sep) == FirstIn(heap[at[w].buf], Start(w, sep), {sep, NUL})

\* What a call returns.
Token(w, sep) ==
  IF heap[at[w].buf][Start(w, sep)] = NUL THEN Null
  ELSE [at[w] EXCEPT !.pos = Start(w, sep)]

\* The token is cut off, and the place behind it is kept.
Cut(w, sep) ==
  LET end == End(w, sep)
  IN /\ olds' = [at[w] EXCEPT !.pos = IF heap[at[w].buf][end] = NUL THEN end ELSE end + 1]
     /\ heap' = [heap EXCEPT ![at[w].buf][end] = NUL]
     /\ Crosses(w)

-----------------------------------------------------------------------------
(* get_list_accept_image.                                                  *)

\* A request with an Accept line is parsed; the first call is given the line.
Parse(w) ==
  /\ pc[w] = "idle"
  /\ \E l \in Line[w] :
       /\ line' = [line EXCEPT ![w] = l]
       /\ heap' = [heap EXCEPT ![<<w, 0>>] = l]
  /\ at' = [at EXCEPT ![w] = [buf |-> <<w, 0>>, pos |-> 1]]
  /\ Go(w, "split")
  /\ UNCHANGED <<token1, token2, dim, list, olds, crossed, fault>>

\* The next token of the line.
Split(w) ==
  /\ pc[w] = "split"
  /\ ~Freed(at[w])
  /\ token1' = [token1 EXCEPT ![w] = Token(w, Comma)]
  /\ Cut(w, Comma)
  /\ Go(w, "take")
  /\ UNCHANGED <<line, at, token2, dim, list, fault>>

\* Mutant of Discard: the next token is not asked for.
DiscardAgain(w) ==
  /\ pc[w] = "take"
  /\ token1[w] # Null
  /\ ~Freed(token1[w])
  /\ Has(StringAt(token1[w]), Text)
  /\ Resume(w)
  /\ UNCHANGED <<pc, line, token1, token2, dim, list, heap, olds, crossed, fault>>

\* A text or an application: on to the next.
Discard(w) ==
  /\ pc[w] = "take"
  /\ token1[w] # Null
  /\ ~Freed(token1[w])
  /\ Has(StringAt(token1[w]), Text)
  /\ Resume(w)
  /\ Go(w, "split")
  /\ UNCHANGED <<line, token1, token2, dim, list, heap, olds, crossed, fault>>

\* Mutant of Keep: nothing is discarded.
KeepAny(w) ==
  /\ pc[w] = "take"
  /\ token1[w] # Null
  /\ ~Freed(token1[w])
  /\ dim' = [dim EXCEPT ![w] = @ + 1]
  /\ heap' = [heap EXCEPT ![<<w, dim'[w]>>] = Append(StringAt(token1[w]), NUL)]
  /\ fault' = IF dim'[w] = preallocation THEN "overrun" ELSE "none"
  /\ Resume(w)
  /\ Go(w, "split")
  /\ UNCHANGED <<line, token1, token2, list, olds, crossed>>

\* Any other type is copied.  Where the list is full it is given twice as many
\* bytes as it has entries, and most of them lie behind it from then on.
Keep(w) ==
  /\ pc[w] = "take"
  /\ token1[w] # Null
  /\ ~Freed(token1[w])
  /\ ~Has(StringAt(token1[w]), Text)
  /\ dim' = [dim EXCEPT ![w] = @ + 1]
  /\ heap' = [heap EXCEPT ![<<w, dim'[w]>>] = Append(StringAt(token1[w]), NUL)]
  /\ fault' = IF dim'[w] = preallocation THEN "overrun" ELSE "none"
  /\ Resume(w)
  /\ Go(w, "split")
  /\ UNCHANGED <<line, token1, token2, list, olds, crossed>>

NextType(w, n) == at' = [at EXCEPT ![w] = [buf |-> <<w, n>>, pos |-> 1]]

\* No token is left.  A list of no types is given no memory, which is taken for
\* an error and ends the process.
SplitEnd(w) ==
  /\ pc[w] = "take"
  /\ token1[w] = Null
  /\ IF dim[w] = 0 THEN fault' = "no types" /\ UNCHANGED <<pc, at>>
                   ELSE NextType(w, 1) /\ Go(w, "first") /\ UNCHANGED fault
  /\ UNCHANGED <<line, token1, token2, dim, list, heap, olds, crossed>>

\* The name of a type.
CutName(w) ==
  /\ pc[w] = "first"
  /\ token1' = [token1 EXCEPT ![w] = Token(w, Semicolon)]
  /\ Cut(w, Semicolon)
  /\ Go(w, "second")
  /\ UNCHANGED <<line, at, token2, dim, list, fault>>

GoOn(w) ==
  /\ pc[w] = "second"
  /\ Resume(w)
  /\ Go(w, "param")
  /\ UNCHANGED <<line, token1, token2, dim, list, heap, olds, crossed, fault>>

\* What follows it.
CutQuality(w) ==
  /\ pc[w] = "param"
  /\ ~Freed(at[w])
  /\ token2' = [token2 EXCEPT ![w] = Token(w, Semicolon)]
  /\ Cut(w, Semicolon)
  /\ Go(w, "enter")
  /\ UNCHANGED <<line, at, token1, dim, list, fault>>

\* Mutant of Entry: only the names of types without a quality are looked for.
EntryPlain(name, rated, quality) ==
  LET q == Strtof(quality)
  IN CASE Has(name, ImageType) /\ ~rated ->
            [extension |-> IF name = <<"image/*">> THEN "ALL_EXT"
                           ELSE IF Has(name, {"image/png"}) THEN "PNG"
                           ELSE IF Has(name, {"image/webp"}) THEN "WEBP"
                           ELSE IF Has(name, {"image/jxr"}) THEN "JXR" ELSE "JPG",
             q |-> 10]
       [] Has(name, {"*/*"}) ->
            [extension |-> "ALL_EXT", q |-> IF rated /\ q = 0 THEN 8 ELSE q]
       [] OTHER -> [extension |-> "JPG", q |-> q]

\* What is made of a type.  A quality keeps the names of some formats from being
\* looked for; the entry is then as calloc() made it, and JPG is 0.
Entry(name, rated, quality) ==
  LET q == Strtof(quality)
  IN CASE Has(name, ImageType) /\ ~rated ->
            [extension |-> IF name = <<"image/*">> THEN "ALL_EXT"
                           ELSE IF Has(name, {"image/png"}) THEN "PNG"
                           ELSE IF Has(name, {"image/webp"}) THEN "WEBP"
                           ELSE IF Has(name, {"image/jxr"}) THEN "JXR" ELSE "JPG",
             q |-> 10]
       [] Has(name, {"*/*"}) ->
            [extension |-> "ALL_EXT", q |-> IF rated /\ q = 0 THEN 8 ELSE q]
       [] OTHER ->
            [extension |-> IF Has(name, {"image/png"}) THEN "PNG" ELSE "JPG", q |-> q]

\* An entry is made ...
EntryMade(w) ==
  LET rated == token2[w] # Null
      e == Entry(StringAt(token1[w]), rated, IF rated THEN StringAt(token2[w]) ELSE <<>>)
  IN /\ pc[w] = "enter"
     /\ token1[w] # Null
     /\ rated => ~Freed(token2[w])
     /\ list' = [list EXCEPT ![w] = Append(@, e)]

\* Mutant of Enter: the same type is looked at again.
EnterAgain(w) ==
  /\ EntryMade(w)
  /\ Len(list'[w]) < dim[w]
  /\ NextType(w, Len(list'[w]))
  /\ Go(w, "first")
  /\ UNCHANGED <<line, token1, token2, dim, heap, olds, crossed, fault>>

\* ... and the next type is looked at ...
Enter(w) ==
  /\ EntryMade(w)
  /\ Len(list'[w]) < dim[w]
  /\ NextType(w, Len(list'[w]) + 1)
  /\ Go(w, "first")
  /\ UNCHANGED <<line, token1, token2, dim, heap, olds, crossed, fault>>

\* ... or it was the last: its type, to which the token points, is freed, and
\* so is the line.
Return(w) ==
  /\ EntryMade(w)
  /\ Len(list'[w]) = dim[w]
  /\ heap' = [heap EXCEPT ![<<w, dim[w]>>] = <<>>, ![<<w, 0>>] = <<>>]
  /\ fault' = IF token1[w].pos = 1 THEN "none" ELSE "free"
  /\ Go(w, "done")
  /\ UNCHANGED <<line, at, token1, token2, dim, olds, crossed>>

\* A type of semicolons only: strstr() of a null pointer.
EnterNull(w) ==
  /\ pc[w] = "enter"
  /\ token1[w] = Null
  /\ fault' = "null"
  /\ UNCHANGED <<thread, heap, olds, crossed>>

\* What has been freed is read.
Dangle(w) ==
  /\ \/ pc[w] \in {"split", "param"} /\ Freed(at[w])
     \/ pc[w] = "take" /\ token1[w] # Null /\ Freed(token1[w])
     \/ pc[w] = "enter" /\ token1[w] # Null /\ token2[w] # Null /\ Freed(token2[w])
  /\ fault' = "dangling"
  /\ UNCHANGED <<thread, heap, olds, crossed>>

ParseOn(w) ==
  \/ Split(w) \/ Discard(w) \/ Keep(w) \/ SplitEnd(w)
  \/ CutName(w) \/ GoOn(w) \/ CutQuality(w)
  \/ Enter(w) \/ Return(w) \/ EnterNull(w) \/ Dangle(w)

ThreadStep(w) == fault = "none" /\ (Parse(w) \/ ParseOn(w))

Next == \E w \in Worker : ThreadStep(w)

Spec == Init /\ [][Next]_vars

\* The threads are runnable, and nothing here waits; requests need not come.
FairSpec == Spec /\ \A w \in Worker : WF_vars(fault = "none" /\ ParseOn(w))

-----------------------------------------------------------------------------
(* What a line says.                                                       *)

\* The types of a line: the longest parts without a comma, by their ends.
Types(l) ==
  {r \in (1..Len(l)) \X (1..Len(l)) :
     /\ r[1] <= r[2]
     /\ \A k \in r[1]..r[2] : l[k] \notin {Comma, NUL}
     /\ r[1] = 1 \/ l[r[1] - 1] = Comma
     /\ l[r[2] + 1] \in {Comma, NUL}}

Kept(l) == {r \in Types(l) : \A k \in r[1]..r[2] : l[k] \notin Text}

\* Which of the types kept it is.
Place(l, r) == Cardinality({s \in Kept(l) : s[1] <= r[1]})

\* The places of the parts of a type, between its semicolons.
Parts(l, r) == {k \in r[1]..r[2] : l[k] # Semicolon}

First(S) == CHOOSE k \in S : \A j \in S : k <= j

\* The name of a type and its quality, NUL if there is none.
Name(l, r) == l[First(Parts(l, r))]
Quality(l, r) ==
  LET rest == Parts(l, r) \ {First(Parts(l, r))}
  IN IF rest = {} THEN NUL ELSE l[First(rest)]

\* The quality is that of the text for those qualities that are read as they
\* are, and nothing for the others, or 0.8 for */*.
ReadQuality(name, quality) ==
  CASE quality = NUL -> IF name \in ImageType THEN 10 ELSE 0
    [] quality = One -> 10
    [] quality \in Half -> 5
    [] OTHER -> IF name = "*/*" THEN 8 ELSE 0

\* The format of some types is only seen if they have no quality.
ReadFormat(name, quality) ==
  CASE name = "image/png" -> "PNG"
    [] name = "*/*" -> "ALL_EXT"
    [] quality = NUL /\ name = "image/*" -> "ALL_EXT"
    [] quality = NUL /\ name = "image/webp" -> "WEBP"
    [] quality = NUL /\ name = "image/jxr" -> "JXR"
    [] OTHER -> "JPG"

(***************************************************************************)
(* A thread from which no other took the place of strtok(), and in whose   *)
(* texts no other went on, has one entry for each type of its line that is *)
(* neither text nor application, in their order.                           *)
(***************************************************************************)
ListRight ==
  \A w \in Worker :
    pc[w] = "done" /\ ~crossed[w] =>
      /\ Len(list[w]) = Cardinality(Kept(line[w]))
      /\ \A r \in Kept(line[w]) :
           LET name == Name(line[w], r)
               quality == Quality(line[w], r)
           IN list[w][Place(line[w], r)] =
                [extension |-> ReadFormat(name, quality), q |-> ReadQuality(name, quality)]

(***************************************************************************)
(* The first entry, the only one the server looks at, has the format of    *)
(* the first type of the thread's own line, whatever other threads do, if  *)
(* that is jpg, png or */* and is not taken for a text; its quality may be *)
(* another's.                                                              *)
(***************************************************************************)
FirstFormatHeld ==
  \A w \in Worker :
    /\ pc[w] = "done"
    /\ line[w][1] \in Jpg \cup {"image/png", "*/*"}
    /\ \E r \in Kept(line[w]) : r[1] = 1
    => list[w][1].extension = ReadFormat(line[w][1], NUL)

(***************************************************************************)
(* The process ends, or misuses memory, for a line with as many types as   *)
(* the list was made for, or with none, or with a type that begins with a  *)
(* semicolon; and else only where a thread has taken another's place.      *)
(***************************************************************************)
AcceptFaults ==
  fault # "none" =>
    \E w \in Worker :
      \/ crossed[w]
      \/ fault = "overrun" /\ Cardinality(Kept(line[w])) >= preallocation
      \/ fault = "no types" /\ Kept(line[w]) = {}
      \/ fault = "null" /\ \E r \in Kept(line[w]) : Parts(line[w], r) = {}
      \/ fault = "free" /\ \E r \in Kept(line[w]) : line[w][r[1]] = Semicolon

(***************************************************************************)
(* A list once begun is finished, though threads cut each other's texts,   *)
(* unless the process ends.                                                *)
(***************************************************************************)
ParseEnds ==
  \A w \in Worker : pc[w] = "split" ~> (pc[w] = "done" \/ fault # "none")

=============================================================================

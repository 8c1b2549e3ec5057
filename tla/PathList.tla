------------------------------ MODULE PathList ------------------------------
(***************************************************************************)
(* The list of paths of the image cache as it is in memory: a mapping of   *)
(* Size bytes (file_map), in which the paths lie one behind the other,     *)
(* each ended by a NUL.  A thread that has converted an image writes its   *)
(* path at seek_cache, under fd_cache_mtx; a thread that looks for one     *)
(* reads string after string, with no mutex, and counts them: the count is *)
(* the place in the ring of descriptors (module ImageCache).               *)
(*                                                                         *)
(* A path is a sequence of symbols.  The name of the image, with the       *)
(* directory of the cache before it, takes one (a name has no point, and   *)
(* ends one digit before the first point behind the directory); the        *)
(* quality and the numbers one for each digit, the extension one for each  *)
(* character.  Nothing stands between them, 0 has no digits at all, and    *)
(* what follows the point of a quality is a number too, without the zeros  *)
(* before it: a path does not say where one number ends and the next       *)
(* begins.  The extension is what the client wrote from the point on, four *)
(* characters of it at most, and may be the beginning of another.  The     *)
(* format in which the file is written is not in the path.  Paths are      *)
(* shorter than the 128 bytes into which find_file_in_cache copies them.   *)
(*                                                                         *)
(* memcpy() of a short string copies from both its ends; a string is read  *)
(* in one step.  What lies behind the mapping is not the server's: the     *)
(* process may end there, or go on, and what it wrote may be lost again.   *)
(***************************************************************************)
EXTENDS Integers, Sequences

CONSTANTS
  Worker,    \* threads that look for an image
  Request,   \* records: name, q, width, height, colors, ext, format
  NoRequest,
  Character, \* what an extension is made of
  NoOne,     \* no thread: the mutex is free
  NUL,
  Unit,      \* a quality of 1, 10^8 in the code
  Size,      \* SIZE_FILE_LISTCACHE, 16384 in the code
  MaxList    \* bound: with so many paths entered nobody asks any more

\* convert_int_to_string.
Digits[n \in Nat] == IF n = 0 THEN <<>> ELSE Append(Digits[n \div 10], n % 10)

\* convert_float_to_string, without the point, which is always the second
\* character: "0." and the digits of a fraction, or "1.00000000".
Quality(q) == IF q < Unit THEN <<0>> \o Digits[q] ELSE Digits[Unit]

\* The numbers of a request, one behind the other.
Numbers(r) == Digits[r.width] \o Digits[r.height] \o Digits[r.colors]

\* The digits of a path.
Figures(r) == Quality(r.q) \o Numbers(r)

\* Mutant of CachePath: without the quality.
CachePathPlain(r) == <<r.name>> \o Numbers(r) \o r.ext

\* build_image_name_cache, and the extension that was asked for.
CachePath(r) == <<r.name>> \o Figures(r) \o r.ext

\* The directory of the cache, and so the name, occurs nowhere else in a path: it
\* has points, and is longer than an extension.
ASSUME ListAssumption ==
  /\ NoOne \notin Worker
  /\ NoRequest \notin Request
  /\ Unit \in Nat \ {0}
  /\ Size \in Nat \ {0}
  /\ MaxList \in Nat
  /\ \A r \in Request :
       /\ {r.q, r.width, r.height, r.colors} \subseteq Nat
       /\ r.ext \in Seq(Character) \ {<<>>}
       /\ r.ext[1] \notin 0..9
       /\ Len(CachePath(r)) < Size
  /\ LET names == {r.name : r \in Request}
     IN /\ names \cap ((0..9) \cup Character) = {}
        /\ NUL \notin names \cup (0..9) \cup Character

VARIABLES
  pc,            \* where each thread is
  asked,         \* its request
  len, i,        \* of find_file_in_cache: the bytes and the strings passed
  file_map,      \* the mapping, and what lies behind it
  seek_cache,    \* where the next path is written
  left,          \* the bytes of the path being written that are not there yet
  fd_cache_mtx,  \* the thread that holds the mutex
  entered,       \* the requests whose path and descriptor are in the cache
  wrapped,       \* history: seek_cache has come round
  known,         \* history: the path was in the list when the search began
  late           \* history: the search has gone beyond the end of the list

search == <<asked, len, i, known, late>>
store == <<file_map, seek_cache, left, fd_cache_mtx, entered, wrapped>>
vars == <<pc, search, store>>

Path(w) == CachePath(asked[w])
Cell == 0..(2 * Size)

TypeOK ==
  /\ pc \in [Worker -> {"idle", "search", "found", "missed", "write", "down"}]
  /\ asked \in [Worker -> Request \cup {NoRequest}]
  /\ len \in [Worker -> Nat]
  /\ i \in [Worker -> Nat]
  /\ DOMAIN file_map = Cell
  /\ seek_cache \in 0..(Size - 1)
  /\ left \subseteq Nat
  /\ fd_cache_mtx \in Worker \cup {NoOne}
  /\ entered \in Seq(Request)
  /\ wrapped \in BOOLEAN
  /\ known \in [Worker -> BOOLEAN]
  /\ late \in [Worker -> BOOLEAN]

Init ==
  /\ pc = [w \in Worker |-> "idle"]
  /\ asked = [w \in Worker |-> NoRequest]
  /\ len = [w \in Worker |-> 0]
  /\ i = [w \in Worker |-> 0]
  /\ file_map = [p \in Cell |-> NUL]
  /\ seek_cache = 0
  /\ left = {}
  /\ fd_cache_mtx = NoOne
  /\ entered = <<>>
  /\ wrapped = FALSE
  /\ known = [w \in Worker |-> FALSE]
  /\ late = [w \in Worker |-> FALSE]

Go(w, step) == pc' = [pc EXCEPT ![w] = step]

\* The process ends, and its memory is gone.
Halt ==
  /\ pc' = [w \in Worker |-> "down"]
  /\ asked' = [w \in Worker |-> NoRequest]
  /\ len' = [w \in Worker |-> 0]
  /\ i' = [w \in Worker |-> 0]
  /\ file_map' = [p \in Cell |-> NUL]
  /\ seek_cache' = 0
  /\ left' = {}
  /\ fd_cache_mtx' = NoOne
  /\ entered' = <<>>
  /\ known' = [w \in Worker |-> FALSE]
  /\ late' = [w \in Worker |-> FALSE]
  /\ UNCHANGED wrapped

\* What a thread knows of a search is gone with the request.
Forget(w) ==
  /\ asked' = [asked EXCEPT ![w] = NoRequest]
  /\ len' = [len EXCEPT ![w] = 0]
  /\ i' = [i EXCEPT ![w] = 0]
  /\ known' = [known EXCEPT ![w] = FALSE]
  /\ late' = [late EXCEPT ![w] = FALSE]

-----------------------------------------------------------------------------
(* Looking for a path: find_file_in_cache.                                 *)

Paths == [k \in 1..Len(entered) |-> CachePath(entered[k])]

Listed(path) == \E k \in 1..Len(entered) : Paths[k] = path

\* The search begins, unless the list is empty: strlen(map) is 0.
Ask(w) ==
  /\ pc[w] = "idle"
  /\ Len(entered) < MaxList
  /\ \E r \in Request :
       /\ asked' = [asked EXCEPT ![w] = r]
       /\ known' = [known EXCEPT ![w] = Listed(CachePath(r))]
  /\ Go(w, IF file_map[0] = NUL THEN "missed" ELSE "search")
  /\ UNCHANGED <<len, i, late, store>>

\* The string at p, up to the first NUL.
StringAt(p) ==
  LET end == CHOOSE e \in Cell : /\ e >= p
                                 /\ file_map[e] = NUL
                                 /\ \A q \in p..(e - 1) : file_map[q] # NUL
  IN [k \in 1..(end - p) |-> file_map[p + k - 1]]

\* strstr().
Occurs(path, string) ==
  \E k \in 0..(Len(string) - Len(path)) :
    \A j \in 1..Len(path) : string[k + j] = path[j]

\* Mutant of Compare: an empty string is not passed.
CompareStop(w) ==
  LET string == StringAt(len[w])
  IN /\ pc[w] = "search"
     /\ len[w] < Size
     /\ IF Occurs(Path(w), string)
        THEN Go(w, "found") /\ UNCHANGED <<len, i, late>>
        ELSE /\ string # <<>>
             /\ len' = [len EXCEPT ![w] = @ + Len(string) + 1]
             /\ i' = [i EXCEPT ![w] = @ + 1]
             /\ late' = [late EXCEPT ![w] = @ \/ len[w] >= seek_cache]
             /\ UNCHANGED pc
     /\ UNCHANGED <<asked, known, store>>

\* One turn of the loop: i is the place of the first string with the path in it.
Compare(w) ==
  LET string == StringAt(len[w])
  IN /\ pc[w] = "search"
     /\ len[w] < Size
     /\ IF Occurs(Path(w), string)
        THEN Go(w, "found") /\ UNCHANGED <<len, i, late>>
        ELSE /\ len' = [len EXCEPT ![w] = @ + Len(string) + 1]
             /\ i' = [i EXCEPT ![w] = @ + 1]
             /\ late' = [late EXCEPT ![w] = @ \/ len[w] >= seek_cache]
             /\ UNCHANGED pc
     /\ UNCHANGED <<asked, known, store>>

\* A string that goes on behind the mapping may end the process.
CompareBeyond(w) ==
  /\ pc[w] = "search"
  /\ len[w] < Size
  /\ len[w] + Len(StringAt(len[w])) >= Size
  /\ Halt

\* The end of the mapping: NOT_CACHED_IMAGE.
CompareNone(w) ==
  /\ pc[w] = "search"
  /\ len[w] >= Size
  /\ Go(w, "missed")
  /\ UNCHANGED <<search, store>>

\* The image at the place found is sent.
Send(w) ==
  /\ pc[w] = "found"
  /\ Go(w, "idle")
  /\ Forget(w)
  /\ UNCHANGED store

-----------------------------------------------------------------------------
(* Entering a path: the end of get_image_to_send.                          *)

\* The image has been converted.
Lock(w) ==
  /\ pc[w] = "missed"
  /\ fd_cache_mtx = NoOne
  /\ fd_cache_mtx' = w
  /\ left' = 1..Len(Path(w))
  /\ Go(w, "write")
  /\ UNCHANGED <<search, file_map, seek_cache, entered, wrapped>>

\* There is no such image.
NotPresent(w) ==
  /\ pc[w] = "missed"
  /\ Go(w, "idle")
  /\ Forget(w)
  /\ UNCHANGED store

\* memcpy() of the next byte, from one end or the other.
Write(w) ==
  /\ pc[w] = "write"
  /\ \E k \in left :
       /\ {k - 1, k + 1} \cap left # {k - 1, k + 1}
       /\ file_map' = [file_map EXCEPT ![seek_cache + k - 1] = Path(w)[k]]
       /\ left' = left \ {k}
  /\ UNCHANGED <<pc, search, seek_cache, fd_cache_mtx, entered, wrapped>>

\* A path that does not fit is written beyond, and may end the process.
WriteBeyond(w) ==
  /\ pc[w] = "write"
  /\ seek_cache + Len(Path(w)) >= Size
  /\ Halt

\* Mutants of WriteEnd: the next path begins upon the NUL of this one; where
\* this one did.
WriteEndJoined(w) ==
  /\ pc[w] = "write"
  /\ left = {}
  /\ LET end == seek_cache + Len(Path(w))
     IN /\ file_map' = [file_map EXCEPT ![end] = NUL]
        /\ seek_cache' = end % Size
        /\ wrapped' = (wrapped \/ end + 1 >= Size)
  /\ entered' = Append(entered, asked[w])
  /\ fd_cache_mtx' = NoOne
  /\ Go(w, "idle")
  /\ Forget(w)
  /\ UNCHANGED left

WriteEndStays(w) ==
  /\ pc[w] = "write"
  /\ left = {}
  /\ LET end == seek_cache + Len(Path(w))
     IN /\ file_map' = [file_map EXCEPT ![end] = NUL]
        /\ UNCHANGED <<seek_cache, wrapped>>
  /\ entered' = Append(entered, asked[w])
  /\ fd_cache_mtx' = NoOne
  /\ Go(w, "idle")
  /\ Forget(w)
  /\ UNCHANGED left

\* The NUL, and then what no search reads: seek_cache, which comes round at the
\* end of the mapping, in the middle of the paths there, and the descriptor.
WriteEnd(w) ==
  /\ pc[w] = "write"
  /\ left = {}
  /\ LET end == seek_cache + Len(Path(w))
     IN /\ file_map' = [file_map EXCEPT ![end] = NUL]
        /\ seek_cache' = (end + 1) % Size
        /\ wrapped' = (wrapped \/ end + 1 >= Size)
  /\ entered' = Append(entered, asked[w])
  /\ fd_cache_mtx' = NoOne
  /\ Go(w, "idle")
  /\ Forget(w)
  /\ UNCHANGED left

\* Whoever has the memory behind the mapping writes it.
Beyond ==
  /\ \E p \in Cell : p >= Size /\ file_map[p] # NUL
  /\ file_map' = [p \in Cell |-> IF p < Size THEN file_map[p] ELSE NUL]
  /\ UNCHANGED <<pc, search, seek_cache, left, fd_cache_mtx, entered, wrapped>>

Find(w) == Compare(w) \/ CompareBeyond(w) \/ CompareNone(w)

Next ==
  \/ \E w \in Worker :
       \/ Ask(w) \/ Find(w) \/ Send(w)
       \/ Lock(w) \/ NotPresent(w) \/ Write(w) \/ WriteBeyond(w) \/ WriteEnd(w)
  \/ Beyond

Spec == Init /\ [][Next]_vars

\* The threads are runnable; nobody has to ask for anything.
FairSpec == Spec /\ \A w \in Worker : WF_vars(Find(w))

-----------------------------------------------------------------------------
(***************************************************************************)
(* Until seek_cache comes round, and whenever nobody is writing, the       *)
(* strings of the mapping are the paths entered, in their order: neither   *)
(* is one lost, nor does one run into the next.                            *)
(***************************************************************************)
Start[k \in 0..Len(entered)] ==
  IF k = 0 THEN 0 ELSE Start[k - 1] + Len(Paths[k]) + 1

ListIsLog ==
  ~wrapped /\ fd_cache_mtx = NoOne =>
    /\ \A k \in 1..Len(entered) : StringAt(Start[k - 1]) = Paths[k]
    /\ seek_cache = Start[Len(entered)]

\* The paths in their places, with the one that is just being entered.
Log ==
  IF fd_cache_mtx = NoOne THEN Paths ELSE Append(Paths, Path(fd_cache_mtx))

\* One sequence begins another.
Begins(path, other) ==
  /\ Len(path) <= Len(other)
  /\ \A k \in 1..Len(path) : other[k] = path[k]

(***************************************************************************)
(* Until seek_cache comes round, the place a search returns is that of a   *)
(* path that begins with the one asked for (it is that path, or one whose  *)
(* extension goes on where the one asked for ends), half written or not,   *)
(* although the search takes no mutex; unless it had gone beyond the end   *)
(* of the list when paths were entered there: it has then counted the      *)
(* bytes it found empty as paths, and the place is a later one, never an   *)
(* earlier.                                                                *)
(***************************************************************************)
HitIsRight ==
  \A w \in Worker :
    pc[w] = "found" /\ ~wrapped =>
      \E k \in 1..Len(Log) :
        /\ Begins(Path(w), Log[k])
        /\ k <= i[w] + 1
        /\ ~late[w] => k = i[w] + 1

(***************************************************************************)
(* Until seek_cache comes round, a path that was in the list when the      *)
(* search began is found.                                                  *)
(***************************************************************************)
KnownIsFound ==
  \A w \in Worker : pc[w] \in {"missed", "write"} /\ known[w] => wrapped

(***************************************************************************)
(* What is found under a path is the image asked for, with an extension    *)
(* that begins with the one asked for, made in a quality and for a display *)
(* whose digits, all together, are those asked for.  They may be split     *)
(* otherwise: a quality of 0.051 and a width of 960 have the path of 0.51  *)
(* and 60, and so it is with the numbers of the display.  But where both   *)
(* qualities have as many digits they are the same quality, and the        *)
(* numbers of the displays have the same digits.                           *)
(***************************************************************************)
SameDisplay ==
  \A w \in Worker :
    pc[w] = "found" /\ ~wrapped /\ ~late[w] /\ i[w] < Len(entered) =>
      LET r == asked[w]
          s == entered[i[w] + 1]
      IN /\ r.name = s.name
         /\ Begins(r.ext, s.ext)
         /\ Figures(r) = Figures(s)
         /\ Len(Quality(r.q)) = Len(Quality(s.q)) =>
              /\ Quality(r.q) = Quality(s.q)
              /\ Numbers(r) = Numbers(s)

(***************************************************************************)
(* Every search ends, whatever is written under it, before and after       *)
(* seek_cache has come round.                                              *)
(***************************************************************************)
SearchEnds == \A w \in Worker : pc[w] = "search" ~> pc[w] # "search"

=============================================================================

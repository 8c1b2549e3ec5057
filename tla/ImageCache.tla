----------------------------- MODULE ImageCache -----------------------------
(***************************************************************************)
(* get_image_to_send of HandleImage.c, for the threads of every pool: an   *)
(* image that was converted before is known by its place in a list of      *)
(* paths (file_map, a mapped file), and the descriptor and the size to     *)
(* send are those at the same place of a ring of 128 (fd_image_cache).     *)
(* The list grows, the ring comes round; the two are written together      *)
(* under fd_cache_mtx, and read without it.                                *)
(*                                                                         *)
(* An image here is what has a path of its own in the cache directory: a   *)
(* name, an extension and the dimensions of a display.  Of a file it is    *)
(* known how many bytes it has.  A search is as long as it takes to find a *)
(* path or to pass the end of the list: what it has passed until then does *)
(* not change any more, so that this much of it is one step.  From the end *)
(* on it reads empty bytes and counts them as paths, while others may be   *)
(* entered.  The bytes of the list, and the wrap of seek_cache after 16384 *)
(* of them, are the matter of module PathList.                             *)
(***************************************************************************)
EXTENDS Integers, Sequences, FiniteSets

CONSTANTS
  Worker,     \* the threads that call get_image_to_send
  Image,      \* what they are asked for
  Missing,    \* images that are not in the images folder
  Jpg,        \* images whose extension is .jpg
  Length,     \* the bytes an image has when it is converted
  Longer,     \* the images whose path begins with the path of this one
  NoFile,     \* no image; the zero of a descriptor nobody has written
  Junk,       \* what lies beyond the arrays of the ring
  NoOne,      \* no thread: the mutex is free
  Size,       \* the bytes of the list, 16384 in the code
  Ring,       \* descriptors in the ring, 128 in the code
  MaxList,    \* bound: with so many paths in the list nobody asks any more,
              \* after each start of the server
  MaxBoots    \* bound: restarts of the server

ASSUME ImageAssumption ==
  /\ IsFiniteSet(Worker)
  /\ Missing \subseteq Image
  /\ Jpg \subseteq Image
  /\ Length \in [Image -> Nat \ {0}]
  /\ Longer \in [Image -> SUBSET Image]
  /\ NoFile \notin Image
  /\ Junk \notin Image \cup {NoFile} \cup Nat
  /\ NoOne \notin Worker
  /\ Size \in Nat
  /\ Ring \in Nat \ {0}
  /\ MaxBoots \in Nat
  /\ MaxList \in [0..MaxBoots -> Nat]

VARIABLES
  pc,            \* where each thread is
  asked,         \* the image asked for (image->cache_path)
  passed,        \* the paths a search had passed when it came to the end
  idx,           \* idx_fd_cache: the place found, from 0, or -1
  image_fd,      \* image->fd: the file it is open on
  image_size,    \* image->file_size
  list,          \* the paths in file_map
  fd,            \* fd_image_cache.fd
  file_size,     \* fd_image_cache.file_size
  E,             \* fd_image_cache.E
  fd_cache_mtx,  \* the thread that holds the mutex
  disk,          \* the bytes of the files, which outlive the server; 0 if absent
  boots,         \* restarts so far
  early,         \* history: the entry a thread found was still being entered
  late,          \* history: the entry came after the end had been passed
  clash          \* history: images written by two threads at a time

local == <<asked, passed, idx, image_fd, image_size, early, late>>
cache == <<list, fd, file_size, E, fd_cache_mtx>>
vars == <<pc, local, cache, disk, boots, clash>>

Steps ==
  {"down", "idle", "search", "beyond", "hit_size", "hit_fd", "open", "read",
   "write", "measure", "append", "append_path", "append_fd", "append_size",
   "append_next", "send", "stuck"}
Place == 0..(Ring - 1)

TypeOK ==
  /\ pc \in [Worker -> Steps]
  /\ asked \in [Worker -> Image \cup {NoFile}]
  /\ passed \in [Worker -> Nat]
  /\ idx \in [Worker -> Nat \cup {-1}]
  /\ image_fd \in [Worker -> Image \cup {NoFile, Junk}]
  /\ image_size \in [Worker -> Nat \cup {Junk}]
  /\ list \in Seq(Image)
  /\ fd \in [Place -> Image \cup {NoFile}]
  /\ file_size \in [Place -> Nat]
  /\ E \in Place
  /\ fd_cache_mtx \in Worker \cup {NoOne}
  /\ disk \in [Image -> Nat]
  /\ boots \in 0..MaxBoots
  /\ early \in [Worker -> BOOLEAN]
  /\ late \in [Worker -> BOOLEAN]
  /\ clash \subseteq Image

Init ==
  /\ pc = [w \in Worker |-> "idle"]
  /\ asked = [w \in Worker |-> NoFile]
  /\ passed = [w \in Worker |-> 0]
  /\ idx = [w \in Worker |-> -1]
  /\ image_fd = [w \in Worker |-> NoFile]
  /\ image_size = [w \in Worker |-> 0]
  /\ list = <<>>
  /\ fd = [k \in Place |-> NoFile]
  /\ file_size = [k \in Place |-> 0]
  /\ E = 0
  /\ fd_cache_mtx = NoOne
  /\ disk = [im \in Image |-> 0]
  /\ boots = 0
  /\ early = [w \in Worker |-> FALSE]
  /\ late = [w \in Worker |-> FALSE]
  /\ clash = {}

Go(w, step) == pc' = [pc EXCEPT ![w] = step]

\* What a thread knows of an image is gone with the request.
Finish(w) ==
  /\ Go(w, "idle")
  /\ asked' = [asked EXCEPT ![w] = NoFile]
  /\ passed' = [passed EXCEPT ![w] = 0]
  /\ idx' = [idx EXCEPT ![w] = -1]
  /\ image_fd' = [image_fd EXCEPT ![w] = NoFile]
  /\ image_size' = [image_size EXCEPT ![w] = 0]
  /\ early' = [early EXCEPT ![w] = FALSE]
  /\ late' = [late EXCEPT ![w] = FALSE]

-----------------------------------------------------------------------------
(* Looking for the image.                                                  *)

Ask(w) ==
  /\ pc[w] = "idle"
  /\ Len(list) < MaxList[boots]
  /\ \E im \in Image : asked' = [asked EXCEPT ![w] = im]
  /\ Go(w, "search")
  /\ UNCHANGED <<passed, idx, image_fd, image_size, early, late,
                 cache, disk, boots, clash>>

\* strstr(), of the path of im in that of another.
Matches(im, other) == other = im \/ other \in Longer[im]

\* Among the first n paths, those that match.
Listed(im, n) == {k \in 1..n : Matches(im, list[k])}

\* The paths there are for a search: of one that is just being copied it may be
\* that its bytes are there, and it may be that not all of them are.
Seen == {Len(list)} \cup
        IF \E v \in Worker : pc[v] = "append_path" THEN {Len(list) - 1} ELSE {}

\* The path has been found as the k-th, and the place is p.
Hit(w, k, p) ==
  /\ idx' = [idx EXCEPT ![w] = p]
  /\ early' = [early EXCEPT ![w] = fd_cache_mtx # NoOne /\ k = Len(list)]
  /\ passed' = [passed EXCEPT ![w] = 0]
  /\ Go(w, "hit_size")
  /\ UNCHANGED <<asked, image_fd, image_size, cache, disk, boots, clash>>

Miss(w) ==
  /\ idx' = [idx EXCEPT ![w] = -1]
  /\ passed' = [passed EXCEPT ![w] = 0]
  /\ Go(w, "open")
  /\ UNCHANGED <<asked, image_fd, image_size, early, late, cache, disk, boots, clash>>

\* strlen(map) is 0.
SearchNone(w) ==
  /\ pc[w] = "search"
  /\ 0 \in Seen
  /\ Miss(w)

\* find_file_in_cache, with no mutex: the place of the first path that matches.
SearchHit(w) ==
  /\ pc[w] = "search"
  /\ \E k \in Listed(asked[w], Len(list)) :
       /\ \A j \in Listed(asked[w], Len(list)) : k <= j
       /\ Hit(w, k, k - 1)
  /\ UNCHANGED late

\* Mutant of SearchPast: the last path is not looked at.
SearchPastShort(w) ==
  /\ pc[w] = "search"
  /\ \E n \in Seen :
       /\ Listed(asked[w], n - 1) = {}
       /\ passed' = [passed EXCEPT ![w] = n]
  /\ list # <<>>
  /\ Go(w, "beyond")
  /\ UNCHANGED <<asked, idx, image_fd, image_size, early, late,
                 cache, disk, boots, clash>>

\* None matches, and the end of the list has been passed.
SearchPast(w) ==
  /\ pc[w] = "search"
  /\ \E n \in Seen :
       /\ Listed(asked[w], n) = {}
       /\ passed' = [passed EXCEPT ![w] = n]
  /\ list # <<>>
  /\ Go(w, "beyond")
  /\ UNCHANGED <<asked, idx, image_fd, image_size, early, late,
                 cache, disk, boots, clash>>

\* Of the next path entered the search is in the middle already; it may meet one
\* that comes after, but then it has counted more strings than there are paths.
SearchLate(w) ==
  /\ pc[w] = "beyond"
  /\ \E k \in Listed(asked[w], Len(list)) :
       /\ k > passed[w] + 1
       /\ \E p \in k..(Size - 1) : Hit(w, k, p)
  /\ late' = [late EXCEPT ![w] = TRUE]

\* The end of the mapping: NOT_CACHED_IMAGE.
SearchEnd(w) ==
  /\ pc[w] = "beyond"
  /\ Miss(w)

\* A hit: first the size, then the descriptor, with no mutex; a place that
\* lies beyond the ring reads whatever is there.
HitSize(w) ==
  /\ pc[w] = "hit_size"
  /\ image_size' =
       [image_size EXCEPT ![w] = IF idx[w] \in Place THEN file_size[idx[w]] ELSE Junk]
  /\ Go(w, "hit_fd")
  /\ UNCHANGED <<asked, passed, idx, image_fd, early, late,
                 cache, disk, boots, clash>>

HitFd(w) ==
  /\ pc[w] = "hit_fd"
  /\ image_fd' = [image_fd EXCEPT ![w] = IF idx[w] \in Place THEN fd[idx[w]] ELSE Junk]
  /\ Go(w, "send")
  /\ UNCHANGED <<asked, passed, idx, image_size, early, late,
                 cache, disk, boots, clash>>

-----------------------------------------------------------------------------
(* Converting it.                                                          *)

\* The file is opened, and created if need be, under the mutex; it is not
\* truncated.
Open(w) ==
  /\ pc[w] = "open"
  /\ fd_cache_mtx = NoOne
  /\ Go(w, "read")
  /\ UNCHANGED <<local, cache, disk, boots, clash>>

\* IMAGE_NOT_PRESENT, for a .jpg only; the file and its descriptor stay.
NotPresent(w) ==
  /\ pc[w] = "read"
  /\ asked[w] \in Missing \cap Jpg
  /\ Finish(w)
  /\ UNCHANGED <<cache, disk, boots, clash>>

\* The process ends, whatever its threads were doing; its files stay.
Halt ==
  /\ pc' = [w \in Worker |-> "down"]
  /\ asked' = [w \in Worker |-> NoFile]
  /\ passed' = [w \in Worker |-> 0]
  /\ idx' = [w \in Worker |-> -1]
  /\ image_fd' = [w \in Worker |-> NoFile]
  /\ image_size' = [w \in Worker |-> 0]
  /\ early' = [w \in Worker |-> FALSE]
  /\ late' = [w \in Worker |-> FALSE]
  /\ fd' = [k \in Place |-> NoFile]
  /\ file_size' = [k \in Place |-> 0]
  /\ E' = 0
  /\ fd_cache_mtx' = NoOne
  /\ UNCHANGED <<list, disk, boots, clash>>

\* Any other image that is missing is not noticed until MagickWriteImage has
\* nothing to write, and abort_with_error exits.
Abort(w) ==
  /\ pc[w] = "read"
  /\ asked[w] \in Missing \ Jpg
  /\ Halt

Writing(w, im) == pc[w] = "write" /\ asked[w] = im

\* MagickWriteImage truncates the file and writes it, by its path: so far it has
\* some of its bytes ...
WriteBegin(w) ==
  /\ pc[w] = "read"
  /\ asked[w] \notin Missing
  /\ \E s \in 0..(Length[asked[w]] - 1) : disk' = [disk EXCEPT ![asked[w]] = s]
  /\ clash' =
       IF \E v \in Worker \ {w} :
            Writing(v, asked[w]) \/ (pc[v] = "measure" /\ asked[v] = asked[w])
       THEN clash \cup {asked[w]}
       ELSE clash
  /\ Go(w, "write")
  /\ UNCHANGED <<local, cache, boots>>

\* ... and the file is whole once nobody else is still writing it.
WriteEnd(w) ==
  /\ pc[w] = "write"
  /\ \E s \in 0..Length[asked[w]] :
       /\ s < Length[asked[w]] => \E v \in Worker \ {w} : Writing(v, asked[w])
       /\ disk' = [disk EXCEPT ![asked[w]] = s]
  /\ Go(w, "measure")
  /\ UNCHANGED <<local, cache, boots, clash>>

\* get_file_size, of the file as it is by now.
Measure(w) ==
  /\ pc[w] = "measure"
  /\ image_size' = [image_size EXCEPT ![w] = disk[asked[w]]]
  /\ Go(w, "append")
  /\ UNCHANGED <<asked, passed, idx, image_fd, early, late,
                 cache, disk, boots, clash>>

\* Mutant of AppendPath: the mutex is not taken.
AppendPathUnlocked(w) ==
  /\ pc[w] = "append"
  /\ list' = Append(list, asked[w])
  /\ Go(w, "append_path")
  /\ UNCHANGED <<local, fd, file_size, E, fd_cache_mtx, disk, boots, clash>>

\* With the mutex the path is copied to the end of the list, whether or not
\* another thread has entered it in the meantime ...
AppendPath(w) ==
  /\ pc[w] = "append"
  /\ fd_cache_mtx = NoOne
  /\ fd_cache_mtx' = w
  /\ list' = Append(list, asked[w])
  /\ Go(w, "append_path")
  /\ UNCHANGED <<local, fd, file_size, E, disk, boots, clash>>

\* ... and is all there, with its NUL; then the ring is written.
AppendEnd(w) ==
  /\ pc[w] = "append_path"
  /\ Go(w, "append_fd")
  /\ UNCHANGED <<local, cache, disk, boots, clash>>

AppendFd(w) ==
  /\ pc[w] = "append_fd"
  /\ fd' = [fd EXCEPT ![E] = asked[w]]
  /\ Go(w, "append_size")
  /\ UNCHANGED <<local, list, file_size, E, fd_cache_mtx, disk, boots, clash>>

AppendSize(w) ==
  /\ pc[w] = "append_size"
  /\ file_size' = [file_size EXCEPT ![E] = image_size[w]]
  /\ Go(w, "append_next")
  /\ UNCHANGED <<local, list, fd, E, fd_cache_mtx, disk, boots, clash>>

AppendNext(w) ==
  /\ pc[w] = "append_next"
  /\ E' = (E + 1) % Ring
  /\ fd_cache_mtx' = NoOne
  /\ image_fd' = [image_fd EXCEPT ![w] = asked[w]]
  /\ Go(w, "send")
  /\ UNCHANGED <<asked, passed, idx, image_size, early, late,
                 list, fd, file_size, disk, boots, clash>>

-----------------------------------------------------------------------------
(* Sending it.                                                             *)

\* What lies beyond the ring may be taken for any descriptor and any size.
Known(w) == image_fd[w] \in Image /\ image_size[w] # 0

\* send_file_fd has sent as many bytes as the size it was given.
Send(w) ==
  /\ pc[w] = "send"
  /\ Known(w) => disk[image_fd[w]] >= image_size[w]
  /\ Finish(w)
  /\ UNCHANGED <<cache, disk, boots, clash>>

\* sendfile() gives some of them only, for the file is shorter just now than the
\* size says; as the loop skips as many as it has sent, it does not come to its
\* end when the file has this size again (module SendFile).
SendShort(w) ==
  /\ pc[w] = "send"
  /\ Known(w) => disk[image_fd[w]] \in 1..(image_size[w] - 1)
  /\ image_size[w] # 0
  /\ Go(w, "stuck")
  /\ UNCHANGED <<local, cache, disk, boots, clash>>

\* But of a file that is longer it may, in time.
SendLate(w) ==
  /\ pc[w] = "stuck"
  /\ Known(w) => disk[image_fd[w]] > image_size[w]
  /\ Finish(w)
  /\ UNCHANGED <<cache, disk, boots, clash>>

-----------------------------------------------------------------------------
(* The end of the process, and the next one.                               *)

Crash ==
  /\ \E w \in Worker : pc[w] # "down"
  /\ Halt

\* Mutant of Restart: the list is found as it was left.
RestartWithList ==
  /\ \A w \in Worker : pc[w] = "down"
  /\ boots < MaxBoots
  /\ boots' = boots + 1
  /\ pc' = [w \in Worker |-> "idle"]
  /\ UNCHANGED <<local, cache, disk, clash>>

\* The ring is in memory, and new; get_cache_file truncates the list it finds.
Restart ==
  /\ \A w \in Worker : pc[w] = "down"
  /\ boots < MaxBoots
  /\ boots' = boots + 1
  /\ pc' = [w \in Worker |-> "idle"]
  /\ list' = <<>>
  /\ UNCHANGED <<local, fd, file_size, E, fd_cache_mtx, disk, clash>>

WorkerStep(w) ==
  \/ SearchNone(w)
  \/ SearchHit(w)
  \/ SearchPast(w)
  \/ SearchLate(w)
  \/ SearchEnd(w)
  \/ HitSize(w)
  \/ HitFd(w)
  \/ Open(w)
  \/ NotPresent(w)
  \/ Abort(w)
  \/ WriteBegin(w)
  \/ WriteEnd(w)
  \/ Measure(w)
  \/ AppendPath(w)
  \/ AppendEnd(w)
  \/ AppendFd(w)
  \/ AppendSize(w)
  \/ AppendNext(w)
  \/ Send(w)
  \/ SendShort(w)

Next ==
  \/ \E w \in Worker : Ask(w) \/ WorkerStep(w) \/ SendLate(w)
  \/ Crash
  \/ Restart

Spec == Init /\ [][Next]_vars

(***************************************************************************)
(* The threads are runnable and ImageMagick comes back.  Nobody has to ask *)
(* for anything, and a server that has ended need not be started again.    *)
(***************************************************************************)
FairSpec == Spec /\ \A w \in Worker : WF_vars(WorkerStep(w))

-----------------------------------------------------------------------------
\* Thread v has passed the list without the image, and its file is still to be
\* written.
Converting(v, im) == asked[v] = im /\ pc[v] \in {"beyond", "open", "read", "write"}

Running == \A w \in Worker : pc[w] # "down"

(***************************************************************************)
(* Whenever nobody is entering an image, the ring stands beside the end of *)
(* the list: the last Ring paths have their descriptors at the place that  *)
(* goes with theirs, through wraps of the ring, duplicates and restarts.   *)
(***************************************************************************)
RingBesideList ==
  Running /\ fd_cache_mtx = NoOne =>
    /\ E = Len(list) % Ring
    /\ \A k \in 1..Len(list) :
         k + Ring > Len(list) => fd[(k - 1) % Ring] = list[k]

(***************************************************************************)
(* Until the list outgrows the ring, what is about to be sent is the image *)
(* that was asked for, or one whose path begins with its path, with the    *)
(* size of the whole of it, unless two threads wrote it at a time.  A hit  *)
(* upon an entry that was still being entered can come too early for its   *)
(* size, and then sends nothing, but never a size without the right file:  *)
(* the size is written last and read first.  A hit that came after the end *)
(* had been passed (late) may be upon another image, at a place too great, *)
(* or upon nothing, but within the ring it is no size with another's file  *)
(* either.                                                                 *)
(***************************************************************************)
RightImage ==
  Len(list) <= Ring =>
    \A w \in Worker :
      pc[w] = "send" =>
        \/ image_size[w] = 0 /\ (early[w] \/ late[w])
        \/ late[w] /\ idx[w] >= Ring
        \/ /\ image_fd[w] \in Image
           /\ image_size[w] = Length[image_fd[w]] \/ image_fd[w] \in clash
           /\ ~late[w] => Matches(asked[w], image_fd[w])

Copies(im) == {k \in 1..Len(list) : list[k] = im}

(***************************************************************************)
(* Threads that miss the same image at the same time each convert it and   *)
(* enter it, but no more copies of an image come into the list than there  *)
(* are threads, and none of an image that is missing.                      *)
(***************************************************************************)
CopiesBounded ==
  /\ \A im \in Image : Cardinality(Copies(im)) <= Cardinality(Worker)
  /\ \A im \in Missing : Copies(im) = {}

(***************************************************************************)
(* A thread that sends comes to an end of it, unless another thread had    *)
(* passed the list without the same image before it was entered and has    *)
(* yet to write its file: whoever searches later finds it in the list, so  *)
(* that a file that is being sent is not truncated for good.  This is said *)
(* of a size that is not greater than the image: once the ring has come    *)
(* round between the reading of a size and that of a descriptor, they are  *)
(* of two images, and the end of a shorter one is waited for in vain.      *)
(***************************************************************************)
SendEnds ==
  \A w \in Worker :
    (/\ pc[w] = "send"
     /\ image_fd[w] \in Image
     /\ image_size[w] <= Length[image_fd[w]]
     /\ ~\E v \in Worker : Converting(v, image_fd[w]))
      ~> pc[w] \notin {"send", "stuck"}

=============================================================================

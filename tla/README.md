# ImageApp in TLA+

ImageApp is an HTTP/1.1 server in C that serves images adapted to the display
of the client. One process, many threads: a main loop that accepts
connections, one or more *pools*, each with a *dispatcher* thread and a ring of
slots with a thread each, a MySQL database of displays with a cache of its
results in front of it, and a cache of converted images on disk.

This directory holds TLA+ modules of it, TLC configurations that check them on
small instances, and proofs, checked by TLAPS, of what matters most for all
instances. Every definition follows the source; `PROJECT.json` gives for each
one the lines it stands for.

    tlc -workers 2 -config MCHandoff.cfg MCHandoff      # one run
    tlapm ThreadPoolProofs.tla                          # one module of proofs

## 1. Inventory

### Components

| component | state | operations | source |
|---|---|---|---|
| main loop | index of the next pool, `conn_sd`, `max_descriptor` | accept, choose a pool, store in its record, signal it, grow | `HttpServer.c` 23-123 |
| hand-off | the record `struct thread_dispatcher`: one `conn_sd`, one mutex, one condition variable | store and signal; wait and read | `HttpServer.c` 87-93, `ThreadPool.c` 161-209 |
| thread pool | ring of `struct thread_data` (`conn_sd`, `used`, `msg_received`, `timer`, `request`), `E`, mutex, `cb_not_full` | `get_E`, fill a slot, `wait_for_connection`, `handle_client`, `close_client_with_status` | `ThreadPool.c`, `HttpServer.c` 127-281 |
| keep-alive | `timer`, `request` of a slot | `handle_timer`, test of the quota | `ThreadPool.c` 242-286, `HttpServer.c` 155-160 |
| growth of the pools | list of pools, `cond_realloc`, `cond_realloc_end`, `mtx_realloc` | `handle_pool`, `allocate_pool` | `ThreadPool.c` 16-80, 128-159, `HttpServer.c` 95-117 |
| query cache | ring of 256 results, `idx_cache`, `db_mtx_cache`; the database behind it | `retrieve_dim_from_DB` | `HandleDB.c` 18-143 |
| image cache | list of paths in a mapped file, `seek_cache`; ring of 128 descriptors and sizes; `fd_cache_mtx` | `get_image_to_send`, `find_file_in_cache`, `get_cache_file` | `HandleImage.c`, `Utils.c` 124-147, 295-321 |
| receiving | ring of 5 message buffers in each thread, `idx` | `receive_request`, the clearing in `handle_client` | `Request.c` 20-74, `HttpServer.c` 146-245 |
| parsing | the parsed fields, the `Accept` list, `strtok`'s place | `parse_request`, `get_list_accept_image` | `Request.c` 76-444 |
| request memory | the pointers `request`, `image_info` of a thread and what they point to | `parse_request`, `destroy_request`, `destroy_image` | `HttpServer.c` 127-281, `Request.c` 9-18 |
| response | header and descriptor, or page, to send | `send_image`, `send_file_fd`, error pages, `write_block` | `Request.c` 446-661, `Strings.c` |
| configuration, log, helpers | values read once; a log file | start-up and output | `Config.c`, `Log.c`, `Utils.c` |

### How they interact

 * Main loop and dispatcher share one record for each pool. The mutex of the
   record covers the signal (`HttpServer.c` 90-93) but not the store (87), and
   the dispatcher waits without a predicate (`ThreadPool.c` 180).
 * Dispatcher and slot threads share the slot. `used` is the only thing that
   keeps them apart; it is read and written with no mutex. `cb_not_full` tells
   the dispatcher that a slot was freed; the slot's own condition variable tells
   a thread that it has a connection.
 * All slot threads of all pools share the two caches. Both are rings that are
   written under a mutex; the query cache is searched under it but read without
   it, the image cache is searched and read without it.
 * All threads of all pools parse with `strtok`, which keeps its place in one
   variable for the process.
 * All threads share `max_descriptor`, by which the main loop decides to grow,
   and `mtx_realloc`, which each timer takes and which is held during growth.
 * Descriptors are numbers the system gives out again as soon as they are
   closed; slots keep theirs until they are filled again.

### What is hard

Interleavings of two threads on one record or slot; signals given to nobody;
state that is found under a mutex and read after it; rings that come round;
two indices (list and ring) that must stay beside each other; descriptors that
are reused; a timer that counts two different things; a crash in the middle of
a conversion, and a start that finds the files of the last one; a list of paths
written byte by byte while it is searched; message buffers that come round before
they are cleared; one variable of a library for all threads. `PROJECT.json`
lists each hazard at its line, with the properties that would catch it.

### What makes each part correct

| component | it is correct when |
|---|---|
| hand-off | every connection accepted is taken, once, in order |
| thread pool | a connection in a slot is served by the thread of that slot and no other; a descriptor is closed once, by the one that has served it; slots, threads and counts agree; no slot is left locked, and no dispatcher waits beside a free slot |
| keep-alive | no client is answered more often than its quota, or waited for longer than the timer allows; every client gives its slot back |
| query cache | an answer is the database's for the query asked, but for entries overwritten or failed; the ring does not fill up with copies of one query |
| image cache | what is sent is the image asked for, and all of it; list and ring agree |
| growth | connections are routed to pools that exist, and every pool is used; the main loop does not wait for a growth that is over |
| receiving | what is answered as a client's request is what that client sent |
| parsing | an `Accept` list has the types of its own line, in their order |
| list of paths | the bytes are the paths entered; a path is found where it was entered, under an append too |
| response | the bytes sent are those of the file or page, once each |
| request memory | everything is freed once |

## 2. Modules

| module | models | proofs |
|---|---|---|
| `Handoff` | the record between main loop and dispatcher, for one pool | `ThreadPoolProofs` |
| `ThreadPool` | one pool: dispatcher, slots, threads, descriptors; its `H == INSTANCE Handoff` supplies the main loop and the reading of the record | `ThreadPoolProofs` |
| `Lease` | abstract: what a slot promises about quota and idle time | |
| `KeepAlive` | `handle_timer` and the quota of one slot; implements `Lease` | `HandleClientProofs` |
| `QueryCache` | `retrieve_dim_from_DB` for any number of threads | `QueryCacheProofs` |
| `ImageCache` | `get_image_to_send` for any number of threads, crash and restart | `ImageCacheProofs` |
| `PathList` | the bytes of the list of paths, their search and their writing, the names of files, for any number of threads | `PathListProofs` |
| `SendFile` | `send_image` and `send_file_fd` for one response | `ResponseProofs` |
| `SendPage` | the pages for a bad request and for a service that is not available, `write_block` | `ResponseProofs` |
| `Response` | composes `SendFile` and `SendPage`: one response of either kind | `ResponseProofs` |
| `PoolGrowth` | main loop, `handle_pool` and the timers around `mtx_realloc` | `PoolGrowthProofs` |
| `RequestMemory` | the pointers `request` and `image_info` of `handle_client`, over all connections of one thread | `HandleClientProofs` |
| `HandleClient` | composes `KeepAlive` and `RequestMemory` with `receive_request` and its buffers: the whole loop of a thread | `HandleClientProofs` |
| `AcceptList` | `get_list_accept_image` and `strtok` for any number of threads | `AcceptListProofs` |
| `MC...` | values of the constants for TLC | |

An operator whose comment begins with "Mutant of" is a variant of the
definition after it, with a plausible mistake in it. No specification uses it;
`PROJECT.json` names for each property the mutant that violates it.

### Handoff

`mailbox` is `dispatcher->conn_sd`, 0 from calloc. Connections are numbered in
the order of acceptance, so that what is stored is never 0. `Accept`, `Store`
and `Signal` are the main loop (66-93). `Park` is `get_mutex` and `wait_cond`,
which gives the mutex up as it waits; `Take` is the return of `wait_cond` and
the reading of the record, up to `release_mutex`; `Done` is everything up to
the next wait. `Store` is a step of its own because the code stores before it
has the mutex. `takes` and `overrun` are history variables: how often each
connection was read, and whether one was stored while the dispatcher was not
in `wait_cond`.

### ThreadPool

`Accept`, `Store`, `Signal`, `Park`, `Take` and the last step of `Notify` are
those of `Handoff`. In between, `Scan` is one turn of the loop of `get_E`,
`AwaitFree` its wait, and `SetConn`, `SetMsg`, `SetUsed`, `Notify` are the
lines of `dispatch_job` (190-205) that a slot's thread can see. The thread of a
slot is `WaitForConnection`, `Receive`, `Serve` (or `ServeAbsent`,
`CloseAbsent`, `SignalAbsent` for an image that is not present, 200-219),
`ClearMsg`, `HandleTimer`, and the five steps of `close_client_with_status` in
the order of the code: `FreeSlot`, `ResetMsg`, `Uncount`, `Shut`,
`SignalFree`. `fd` gives each connection the lowest free descriptor when it is
accepted; `Reached(s)` is the connection that the number in slot `s` reaches
*now*, which need not be the one it was given for.

Three history variables name the faults the module exhibits: `overrun` (from
`Handoff`), `crossed` (a slot was filled while its thread was closing it) and
`absent` (an image was not present, so that its descriptor is closed and
counted off twice). `Clean` says that none has occurred. Properties that need
it say so in their text.

### KeepAlive and Lease

The thread of one slot, in seconds. `Renew`, `Ready`, `Tick` and `Expire` are
the four ways through the loop of `handle_timer`; `Receive`, `Refuse`, `Leave`
and `Answer` are what `handle_client` does between two calls of it. `Tick` takes
from 0 to 2 seconds: one for `poll()`, one for `sleep()`, each of which a
signal cuts short. `Lease` has neither timer nor counters, only answers and
seconds that are left; the refinement mapping takes answers left from the
requests let through, and patience left from the seconds since the last answer.

### QueryCache

`Search` is the search under `db_mtx_cache`; `ReadColors`, `ReadWidth`,
`ReadHeight` read the entry found, after the mutex has been released (129-136);
`AskDB` is the query, with no mutex, which may fail: the code reports it
(`HandleDB.c` 56), and then fetches a row from a result that is not there, of
which the client library gives none, as of a display that is not in the table;
`FillQuery` to `FillState` write an entry, field by field, with the mutex held
throughout. A value of a field is known by the query of the row it comes from,
so that a mixture of two rows can be told apart from either. `by`, `failed`,
`overwritten` and `wrapped` are history: who filled an entry, for which displays
a query has failed, whether the entry a thread reads was filled again while it
was being read (never so after a miss), and whether the ring has come round.

### ImageCache

The search of `find_file_in_cache` takes no mutex, and is not one step. What it
has passed of the list does not change any more, so that it is one step up to the
path that matches (`SearchHit`), or to the end of the list (`SearchPast`; `SearchNone`
where the list is empty). Behind the end it reads empty bytes, and counts each as a
path, until the mapping ends (`SearchEnd`); if paths are entered there meanwhile it
is in the middle of the first of them already, and may find a later one at a
place that is too great (`SearchLate`, which sets the history variable `late`). A
path is copied in one step and ended in another (`AppendPath`, `AppendEnd`): in
between a search may find it or pass it (`Seen`). A path matches as `strstr()` lets
it (`Matches`): it is that of the image, or one that begins with it (`Longer`),
as `.jpg` begins with `.jp`.

`HitSize` and `HitFd` read the
ring, at the place found, size first as the code does; `Open`, `NotPresent`,
`Abort` look for the original; `WriteBegin` and `WriteEnd` are ImageMagick's
writing of the converted file, between which the file on disk has some of its
bytes; `Measure` takes its size; `AppendPath`, `AppendEnd`, `AppendFd`, `AppendSize`,
`AppendNext` enter it under `fd_cache_mtx` in the order of lines 119-127. An
image that is missing and is not a .jpg ends the process (`Abort`, by
`abort_with_error`). `Crash` and `Restart` end it at any step and start it
again: files stay, the ring is lost, and the list is truncated (`Utils.c` 130).
What lies at a place beyond the ring is `Junk`.

`Send` and `SendShort` are `send_file_fd` at the grain of this module. Sizes are
numbers of bytes, so that the size of one image and the file of another can be told
apart. The loop sends as many bytes as the size it was given (`Send`), or, where the
file is shorter than that, because it is being written again or because it is that of
another image, it is given some of the bytes only and then, as `SendFile` shows, never
comes to its end (`SendShort`, the step `"stuck"`); of a file that comes to be longer
than the size it may yet (`SendLate`).

### PathList

`ImageCache` has the list as a sequence of paths. Here it
is `file_map`, bytes in which the paths lie one behind the other. `Compare` is
one turn of the loop of `find_file_in_cache`, which passes a string and counts it
(`Utils.c` 301-316); `CompareNone` is its end; `Lock`, `Write`, `WriteEnd` are
lines 119-129 of `HandleImage.c`, with a step for each byte, since nobody who
searches takes the mutex. `memcpy` of a short string copies it in words
from both ends, which may overlap, so `Write` takes the next byte from either.
`CachePath` is `build_image_name_cache` (`Strings.c`) and the extension. Numbers are
written digit by digit with nothing between them, and 0 is written as nothing
(`convert_int_to_string` stops when the number is 0). So is the quality (`Quality`):
what stands behind its point is converted like any other number, and loses the zeros
before it (`Strings.c` 234-237); `Unit` is a quality of 1. The extension has its
characters one by one, as the client wrote them, four at most with the point
(`Request.c` 154-159), so that one can be the beginning of another and `strstr()`
(`Occurs`) finds it there. `WriteEnd` lets `seek_cache`
come round as line 123 does, by the remainder. Where a path is longer
than what is left of the mapping, `Write` and `Compare` go on behind it, and
`WriteBeyond`, `CompareBeyond` and `Beyond` are what may come of that: the process
ends, or what was written there is lost.

### SendFile

`SendHead` is `send()` of the header (487-498): the code passes the whole
length of the header again after a send in part, so `sent` may go beyond it.
`SendBody` is one turn of the loop of `send_file_fd`: `sendfile()` advances
`offset` by what it sent, and line 472 advances it by as much once more; a call
that gives 0 bytes changes nothing and is no step. `Fail` is -1 from either
call, `Return` what `send_image` makes of the number of bytes, which it compares
with `ERROR_SENDING_MESSAGE` (11) and `CONNECTION_CLOSED` (12) before it takes
it for a size; for HEAD it ends without a value (`"any"`). The retry loop
(506-531) is part of `Return`, because `len` never differs from the size
there. `Truncate` and `Write` are other threads that convert the same image.
`CONNECTION_CLOSED` is reached because SIGPIPE is ignored: not by the program, but
by the library of the database, whose initialisation ignores it for the process.

### SendPage and Response

`PageLoop` is the loop of `send_bad_request` and of `send_service_unavailable`
(`Request.c` 538-661), which are the same but for the text: it calls
`write_block` until `w`, what it thinks it has sent, is the length of the text.
`PageWrite` is one `write()` of `write_block`, which adds what the last call
gave to `buf`, takes it from `size`, and passes both to the next call with the
same amount applied once more. `PageReturn` is its end without a value: what the
caller adds to `w` is what the last `write()` gave, which is what gcc leaves in
the register. `PageFail` is -1: the error code is returned, and added to `w`
like a number of bytes. `size` and `w` are unsigned, modulo `Word`. The texts of
the code are 291 and 258 bytes, neither of which is a multiple of 11 or 12.
`Response` chooses between an image (`SendFile`) and a page, and has the
fairness for both.

### PoolGrowth

The main loop is `Accept` (66-93), the three ways through 95-117 (`RouteNext`,
`RouteAtLimit`, `AskForPools`), `WaitForEnd` and `Resume`. `AskForPools` wakes
`handle_pool` only if it is at `"waiting"`: the signal is not remembered.
`handle_pool` is `WaitForRequest`, `StartGrowth` (`wait_cond` has the mutex
again), `AllocatePool` once for each new pool, `DoubleSize`, `SignalEnd`; the
last wakes the main loop only if that is at `"waiting"`. `s` is the main loop's
own number of pools, `size_pool` the real one. `TakeTimer` and `ReleaseTimer`
are `handle_timer` around its use of the slot, `Leave` is the decrement of
`max_descriptor` in `close_client_with_status`. `missed` is history: a signal
met nobody. What happens to a connection inside a pool is `ThreadPool`.

### RequestMemory

A slot's thread calls `handle_client` for one connection after the other, and
its two pointers outlive each of them. `request` and `image_info` hold the
number of the request their memory was allocated for, 0 for NULL; `live[n]` is
what of it is allocated: the parts that `destroy_request` frees and those that
`destroy_image` frees (fields that both structs point to count once).
`ParseImage` and `ParseOther` are `parse_request` and the functions it calls,
`MakeImage` the allocation of the image and of its paths, `DestroyRequest` and
`DestroyImage` the end of a connection. `destroy_request` has four outcomes:
there is no request, it was freed before, its name is a literal, or it is
freed. Only `MESSAGE_NOT_CORRECT` would spare the literal, and no caller passes
it. Each of the first three is undefined behaviour: it leads to the step
`"fault"`, where the module ends, since nothing can be said of what follows. What
functions allocate for themselves and lose when they return (`parse_name`,
`strdup` of the types) is left out.

### HandleClient

The loop of `handle_client` for one thread. It extends `RequestMemory`, whose
`step` is the place in the loop, and has `K == INSTANCE KeepAlive` for the slot;
each of its actions is the conjunction of the steps of the two, with what
happens to the buffers: `NewClient` is `Connect` and `K!Assign`, `Reply` is
`Respond` and `K!Answer`, and so on. Its own are the steps of `receive_request`:
`ReceivePart` is a `recv()` that gives some of the request, put from `received`
on into `message[idx]`; `ReceiveEnd`, `ReceiveInterrupted` and `ReceiveReset`
are the other outcomes of it (`Request.c` 27-74). The request is taken for
complete when the names of the headers stand anywhere in the buffer
(`Complete`): the buffer is not asked whose they are. `BeginReceive` takes the
next buffer of the ring (`HttpServer.c` 153-155); `Reply` and `ReplyGone` clear
it; `LetGo`, the way out for a client that sent nothing or whose quota is used
up, does not. `left` is history: the connections of which something was left
like that. An image that is missing closes the connection (`closed`), and the
loop goes on with it, as the code does.

### AcceptList

`Parse`, `Split`, `Discard`, `Keep`, `SplitEnd` are the first half of
`get_list_accept_image` (`Request.c` 254-296), up to the copies of the types;
`CutName`, `GoOn`, `CutQuality`, `Enter`, `Return` are the second (300-378), which cuts
each copy at its semicolons. `olds` is the variable in which `strtok` keeps its
place, for all threads. A call of `strtok` reads `olds` (`Resume`) in a step
before the one that writes the NUL and `olds` again (`Cut`), which is where
another thread's call can come in between. `Entry` is what is made of a name and
a quality: for some formats the name is only looked for if there is no quality,
and a calloc'ed entry is `JPG`. Faults of memory end the module, with their kind
in `fault`; `crossed` is history: whose place or text another thread has taken.

## 3. Runs

| run | module, bounds | what it asks |
|---|---|---|
| `handoff` | 5 connections | a connection is taken from the record unless one came too early |
| `handoff_lost` | same | the comment at `HttpServer.c` 92: no signal is lost. **Violated** |
| `pool` | 4 connections, 3 slots, `CONSTRAINT Clean` | slots, threads, descriptors and their count agree while no fault has occurred |
| `pool_live` | 3 connections, 1 slot, `LivelySpec` | beyond the faults: what the record guarantees to the pool under every interleaving (order, never thrice, once until an overrun), no thread works without a connection, and every connection is received from unless a fault occurred |
| `pool_full` | same | `cb_not_full` ends a wait when a slot is free. **Violated** |
| `query_cache` | 2 threads, 3 queries (one unknown), ring of 2 | answers are right unless overwritten or failed; copies are bounded, of failures too |
| `image_cache` | 2 threads, 5 images (two missing, of both kinds), ring of 3, 4 paths (1 after the restart), 5 bytes for the list, 1 restart | list and ring agree; what is sent is right but for the cases named, among them a search that has passed the end and finds a place too great; sends end |
| `path_list` | 2 threads, 3 requests, mapping of 13 bytes, 3 paths entered before nobody asks any more | the bytes are the log of the paths; a hit is of a path that begins with the one asked for, and has its digits; searches end |
| `response` | file of 0 to 5 bytes, header of 3, error codes 3 and 4, 1 truncation; page of 1 to 5 bytes, header of 2, 8 bytes readable, arithmetic modulo 16 | no byte twice, success only if all was sent, and when a response of either kind ends |
| `pool_growth` | 2 slots a pool, from 1 pool to 8, arrays of 10, 2 timers | connections go to pools that are there, the main loop goes on, every pool is used |
| `handle_client` | 3 connections of one thread, timer 2, quota 3, ring of 2 buffers, requests in 3 parts | whose request is answered; memory is misused in the named cases only, and what is left behind; what a prompt client is given; the refinement of `Lease`; the slot comes back |
| `accept_list` | 2 threads, one with every line of one or two of three types and some longer ones, lists made for 3 | entries are those of the line unless crossed; the first format is; faults are the named ones; parsing ends |

### Bounds and why they are enough

 * Connections: an overrun needs two, a lost signal two, a connection read
   twice two, and each can follow another: five allow two of them in one
   behaviour of the record, three one and what comes after it in the pool. In the pool, one connection more than there are slots makes
   slots and descriptors be reused; in a ring of one, three connections make
   a slot be reused twice, and be full while another waits.
 * Slots: three are the least where a search can begin in the middle, pass
   over a slot that is used and wrap round; one is the least where the
   ring is full at once.
 * `CONSTRAINT Clean` cuts the run `pool` at the first state in which a fault
   has occurred: its properties say nothing beyond that state, and what comes
   after is looked at by `pool_live` and `pool_full`, which
   have no constraint. It is used in a run with no liveness property only.
 * One thread's loop (`handle_client`): with a timer of 2 and a quota of 3 each of
   the two is the first to be met somewhere: a prompt client meets the timer, one
   that pauses the quota. Three connections, so that one that sends nothing comes
   first, or after one that did, and so that one follows a connection that ended
   well; two buffers, so that what one leaves lies under what another sends; three
   parts, so that two connections can leave a request together that a third
   completes. The requests are bounded by quota and connections, so that the bound
   of `RequestMemory` stops nobody. The proofs are for any of these.
 * Caches: two threads, because each of the races is between one that fills and
   one that reads, misses or fills; in `query_cache` a ring of two comes round with
   three queries. Symmetry there exchanges the two threads and the two known
   queries, of which the module never chooses one; that run has no liveness property.
 * Images: a ring of three comes round with four paths, so that one thread can
   enter the fourth between the two reads of another thread's hit upon the first:
   size and descriptor are then of two images, and one image is longer than the
   others. Three images can be converted, so that a search that comes too late finds
   a place that is that of another image, within the ring, or behind the list, or
   behind the ring (a place is less than 5). One path that is missing begins that of
   an image that is there. After the restart only the files are left of what was
   before: nobody asks there any more once a path is in the list (`MaxList`), and
   without such a bound the files' states multiply the whole of the first start.
 * Response: five bytes can be sent in every way into parts, with a part that
   skips the end exactly and one that skips beyond it. The error codes are 3
   and 4 instead of 11 and 12, so that they are sizes a file of the run has.
   The proofs are for any of these.
 * Pages: three bytes more can be read behind the text than it has, so that a page
   can be sent with what lies behind it, and lengths wrap at 16, which is further
   away.
 * List of paths: thirteen bytes hold two paths and part of a third, so that the
   index comes round in the middle of a path. A quality has one digit behind the
   point. Of the three requests two have the same digits, as a quality for no display
   and as a display with a quality of 0, and the extension of one is the beginning of
   those of the others; the third has a quality of 1.
 * `Accept` lists: made for three types instead of four, with a line of three.
   Each kind of `fault`, and every way of crossing, is reached.
 * Growth: three doublings and the limit; `max_descriptor` up to 9, above the
   threshold of every number of pools that occurs (1, 2, 4, 8). Two timers hold
   the mutex one after the other, so that `handle_pool` can be passed over.
 * `CHECK_DEADLOCK FALSE` stands where the model stops because a bound is
   reached (all connections accepted, all restarts used), one response is over,
   or memory has been misused, and there only.

### Fairness and why

All threads are runnable threads of one process under a preemptive scheduler,
and a mutex that is released is had in time, so their own steps are weakly fair.
Not fair: `Accept` and `Ask` (clients may stop coming), `Crash` and `Restart`,
`Leave`, in `PathList` whatever begins a request, and in `FairSpec` of `Handoff`
also `Done`, which stands for a search that can block in `get_E`. `PromptSpec`
grants `Done` all the same, for `handoff_lost`: a connection is lost even then.
`recv()` blocks for as long as the client likes, so it is fair only in
`LivelySpec` and in `FairClientSpec`, where clients send something or go away;
without it a silent client holds its thread for ever, as the code lets it. In
`Response` the calls of `send`, `sendfile` and `write` come back, for a client
that reads or goes away. In `PoolGrowth` the two steps of `handle_pool` that
take `mtx_realloc` are strongly fair: each timer holds it for a few lines in
each second, so that it is free again and again, and a thread that waits for it
is not passed over for ever.

## 4. What the checks show

Holds: between main loop and dispatcher nothing is read out of order, thrice,
or before it is accepted, and nothing is lost before the first overrun. In the
pool, as long as none of the three faults occurs, a connection has one
thread, is closed only after it was received from, and is counted correctly.
A thread never works on an empty slot although it may pass `wait_for_connection`
before it is signalled, because `conn_sd` is written before `msg_received`. The
quota and the timer keep the abstract lease. The entries of the query
cache are whole whenever the mutex is free, and wrong answers come only of
entries filled again while they are read, or of a query that failed, which is
entered as "no such display" and stays until the ring has come round; but nobody
is given a mixture because of a failure, and no thread asks again while its
entry is there. The image cache keeps list and ring
together through wraps, duplicates, crashes and restarts, and its order of
writing the size last and reading it first makes an early hit send nothing
rather than something wrong. So it is with a search that comes too late, as long as
the list is within the ring: it may send another image, or nothing, but no size
with the file of another.

The bytes of the list are the log of the paths entered, until `seek_cache` comes
round, and a search that runs under an append without the mutex finds what was
there before it began. What it finds is the path it was asked for, or one that begins
with it; but a search
that has gone beyond the end while paths were entered there has counted empty bytes
as paths, and returns a place in the ring that is too late. Two images whose
quality and numbers have the same digits, all together, share a path (`SameDisplay`
says which part of the name is told apart), and so do two formats of one extension. A
search ends even in a list that has come round.

`send_file_fd` advances its offset twice, but whole responses are whole: after
bytes were skipped too few are left for the loop to end, so that it can send too
little for ever but not report success for it. A page is sent rightly if each
`write()` takes all it is given; otherwise `write_block` loses count, and the
page may have bytes twice or from behind the text, or never end. The routing
after a growth begins at the number of threads, which need have nothing to do
with the pools; it still names a pool that is there, and every pool is used as
long as connections keep coming and are not too many for the pools for good: at the
limit of the pools, where none can be added, a main loop that is crowded for ever
computes the same pool from the number of threads each time, and the others may
get nothing. Pools are added only while the main loop waits.

A request that is answered consists of parts of its own client and of
connections that ended before their request was answered: what was answered once
never comes back, but a client that sent half a request, or nothing at all, can
be answered for what others left (`OwnRequest`). A list of types is that of its
line, and its first entry, the only one the server uses, has the right format even
if other threads parse at the same time, for the types that stand first in
practice.

While a request is answered its memory is there and is its own, however many
requests and connections the thread had before; and what a connection that
ends with an image leaves behind is the memory of all its requests but the last.

Does not hold (each is a run that TLC finds violated, see `findings`):

 1. A connection stored while the dispatcher is away from its wait is never
    taken (`handoff_lost`).
 2. A dispatcher that found no slot free can wait on beside a free one: the
    signal came between the search and the wait (`pool_full`).

The exceptions that properties name are faults too, with no run of their own:

 * `early` in `ImageCache`: a lookup between the entry of a path and that of its
   descriptor and size is a hit that sends no image, whereas `HandleImage.h` 73
   says that the image is returned.
 * `late` in `ImageCache`: a search that had passed the end of the list while paths
   were entered there returns a place that is too great (`Utils.c` 304-313), and the
   thread is given the image at that place, or an entry that nobody has written.
 * `Matches` in `ImageCache`, `Begins` in `PathList`: a path is found in one that
   begins with it (`Utils.c` 306). `GET /?a.jp` is answered with the file of `a.jpg`
   for that display, if it is in the list, whereas `Relazione.tex` 296 says that the
   extension determines the file; that extensions have 3 letters, which 332 assumes,
   is checked nowhere.
 * the size in `SendEnds` of `ImageCache`: once the ring has come round, the size of a
   hit can be that of one image (`HandleImage.c` 49) and the descriptor that of another
   (50), and for the end of the shorter one `send_file_fd` waits in vain.
 * the split of digits in `SameDisplay` of `PathList`: a quality of 0.051 for a width of
   960 and one of 0.51 for 60 have one path. As a `float`, 0.051 gives 5099999 behind
   the point and 0.51 gives 50999999: both paths go on with `0.5099999960`.
 * `FaultsNamed` in `RequestMemory`: a connection that sends no request makes
   `destroy_request` free through a null pointer if it is the thread's first, and
   free again what the connection before had freed if it is not; one whose
   last request was for the icon, or not correct, makes it free a literal
   (`Request.c` 9-18).
 * `LeftBehind` in `RequestMemory`: every request of a connection but its last
   is never freed.
 * `absent` in `ThreadPool`: an image that is not present closes and counts off
   its descriptor twice (`HttpServer.c` 208, `ThreadPool.c` 101-112).
 * `overwritten` in `QueryCache`: a cached result read while it is filled again
   can mix the dimensions of two displays, whereas `HandleDB.h` 31 speaks of
   the dimensions of the display.
 * `PromptClientCut`: a client that always has its next request ready is
   closed after 5 answers; responses advertise `max=10` (`Strings.c` 143).
 * `missed` in `PoolGrowth`: a main loop whose signal met nobody, or who was
   signalled before it waited, accepts nobody any more.
 * `crossed` in `ThreadPool`: a slot filled while its thread is still closing it
   loses its `msg_received`, and the thread waits with a connection;
   `SlotNotLost` and `ReceivedUnlessRaced` exempt it.
 * `failed` in `QueryCache`: a query that failed once makes the display one that the
   database does not have (`HandleDB.c` 56-62, 108-110).
 * `wrapped` and `late` in `PathList`: after 16384 bytes a path is written over
   others and behind the mapping, and a place found late is not that of the path.
   `ImageCache` leaves this wrap to `PathList`.
 * `left` in `HandleClient`: a buffer is not cleared when its client goes.
 * `AcceptFaults` in `AcceptList`: four types write behind the list; no types but
   text end the process; a type that begins with a semicolon frees what was not
   allocated, or reads a null pointer. `ListRight`: `q=1` without a blank is read
   as 0, and `image/webp;q=...` is entered as JPG.
 * `ImageEnds`, `PageEnds`: a response of which a call gave a part may never end.
 * a file of 11 or 12 bytes is reported as not sent, as `StatusTrue` of `SendFile`
   says.

Other divergences met on the way, which no module shows: the answers for a
quota used up or a bad request carry the same 400 header, because the branch
for 503 in `build_message` (`Strings.c` 106-200) has the condition of the one
before it, while `Request.h` says "notify the client a 503 error";
`get_image_to_send` has no `return` on the path that converts, and the builds
tried give the 0 of its last call, which the model takes. And
`Relazione/Relazione.tex` 319 says that a crash preserves the list of the cache,
"almeno la maggior parte" (at least most of it), while `Utils.c` 130 truncates
the list at every start; `RingBesideList` holds because it does, and the
mutant `RestartWithList`, which keeps it, violates it.

## 5. Proofs

All are for every value of the constants, under the assumptions the modules
name (at least one unit of timer, quota and ring; no thread is "no one", and so
on). A proof has the usual three facts: the initial states satisfy the
invariant, every step keeps it, and it implies the property.

**ThreadPoolProofs** has the proofs of `Handoff` and of the pool that it is part of.

 * Hand-off (`HandoffTypes`, `HandoffTwice`, `HandoffAccepted`, `HandoffOnce`,
   `HandoffOrder`; any number of connections). That no connection is read three
   times is not inductive: nothing says how many wake-ups are still to come.
   `HandoffInv` adds `RecordCurrent` (the record holds the newest connection
   stored, and the dispatcher's last is no newer) and `TakesCounted` (what a
   connection has been read, and what it may yet be, from the places of the two
   threads, are at most two). The order follows from `RecordCurrent`.
 * Pool (`TypeCorrect`, `HandoffRefined`, `NumberFirst`, `NoSlotLost`, `OneThread`,
   `CountedRight`, `StableDescriptor`; any slots and connections).
   `HandoffRefined` shows that the pool implements `Handoff`: the dispatcher's
   search for a slot lies inside its step `Done` (`DispatcherBusy`), so that
   `HandoffInv` holds in the pool and can be used there, and what is proved of the
   record is proved of the pool (`NeverThrice`, `OnlyAccepted`, `ExactlyOnce`,
   `InOrder`). `NumberFirst` rests on
   `NumberWritten`: a thread that has something to look at has a number in its
   slot, also beyond the faults. The others need `ByTurns`, which holds as long
   as no slot was filled while it was being closed (`crossed`): the dispatcher
   works on a slot only while its thread waits for one, and a thread that was
   given a connection sees its message or a signal. While nothing else has gone
   wrong (`Clean`), `HeldApart` follows a connection through its life: not yet
   given to a slot (`NotYetGiven`), held by one slot (`HeldOnce`) and received
   from by its thread only (`GotByHolder`), closed (`GotByOne`); and its
   descriptor is its own (`OwnDescriptor`). That a new connection finds a free
   descriptor is a pigeonhole argument, `FreshDescriptor`. `CountHolds` says
   what `max_descriptor` is while threads are between counting off and closing.

**QueryCacheProofs** (`TypeCorrect`, `WholeWhenFree`, `RightOrOverwritten`,
`RightAtFirst`, `OneCopy`; any threads, queries and size of the ring).
`CacheInv` follows an entry through its life: `MutexHeld` (one thread fills, and
it has the mutex), `AnswerKnown` (it has what the database gave: the right
answer, or none after a failure), `OthersWhole` and `FilledSoFar` (every entry
is whole but the one being filled, which has the answer of its thread up to the
field reached), `FoundHolds` and `ReadSoFar` (what a reader found, and what it
has read of it, is right until it is filled again), `FilledBy` and
`NoneOverwritten` (before the ring comes round, only empty entries are filled).

**ImageCacheProofs** (`TypeCorrect`, `RingKeepsUp`, `ImageIsRight`,
`NoMoreThanThreads`; any images, size of the ring and restarts, and any finite
number of threads). `CacheInv` says who is entering an image and how far it is
(`Holder`, `Beside`: the end of the list, or the path that is being entered, is at
the index of the ring, modulo its size), what stands in the ring beside each path
(`Sizes`), who may have written part of a file only (`Apart`, `Measured`), and what a
thread that came to a place of the list can have read so far (`Hits`: the size and the
descriptor of the path there, `Paired`, or no size at all, `NoSize`, because it came too
early, or to a place too great). Of a place found late nothing is said but that it is
one; that it has no size, or that of its own path, is `SizeRead`, which holds of every
place within the ring. `FewCopies` counts: the places of an image in the list and the
threads that have passed the list without it and not entered it are no more than there
are threads. A search may pass a path of its image that is only half there, but then
one thread, the one that is copying it, has not missed it (`FewWhenPassed`).
Remainders are beyond the prover where the divisor is a constant of the module, so
`Division`, `Multiples`, `PlacesDiffer` and `NextPlace` say what is needed of them.

**PathListProofs** (`TypeCorrect`, `ListIsRight`, `PlaceIsRight`, `KnownFound`,
`DisplayIsSame`; any threads and requests, any size of the mapping that is larger
than each path, numbers of any length). `ListInv` has three parts. Of
the bytes: until `seek_cache` comes round the paths entered stand below it, each
with its NUL (`Entered`), and from it on there is nothing but what the thread with the
mutex has written of its path so far (`Blank`, `Written`), whichever end `memcpy`
began at. Of a search: as long as it has not gone beyond the end it stands exactly
at the path whose place it has counted (`Exact`); in any case it has counted no fewer
strings than it has passed (`Counted`), which is why a place can come out too late but
never too early; and a path that was there when it began still lies before it
(`Ahead`). Of what it finds (`Right`, `Sure`): `FoundPath` shows that a path that
`strstr()` finds in a string of the mapping is the beginning of that string, whole or
half written before it: a name only stands at the beginning of a path (`PathInPath`).
This is where the assumption comes in that a name, which has the directory of the
cache before it, is neither a digit nor a character of an extension, and that an
extension does not begin with a digit but with its point. Nothing is assumed of which
extensions there are, and one may be the beginning of another.
`DisplayIsSame` adds that a path has one reading but for the split of its digits
(`PathTells`), and that where the qualities have as many digits there is but one
(`QualityTells`).

The recursive functions `Digits` and `Start` are used in these proofs, and the
induction theorems of the library are out of the provers' reach (they take an
operator). `RecursiveFunction` proves that such a function exists, from the fact that
a set of numbers has a least element, and `AllNumbers` is the induction that goes with
it, over a set in place of a predicate.

**ResponseProofs** (of an image `TypeCorrect`, `OKMeansAll`, `ErrorMeansError`,
`NoByteTwice`; of a response `ImageRefined`, `ResponseSent`, `ResponseOnce`,
`PageWhole`; any sizes). `SendInv` rests on `OffsetDoubled`: the offset is twice the
bytes sent. A call that ends the loop after `len` bytes reads up to
`len + file_size`, which lies beyond a file of `file_size` bytes unless `len` is 0,
so a response that ends was sent in one call (`WholeAtEnd`); `SentBefore` puts
every byte sent before the offset, which gives `NoByteTwice`. `Response` implements
`SendFile` (`ImageRefined`), so that these hold of it. `PageInv` is about a page to
which nothing happens: `BlockAt` says that `write_block` is before its one `write()`
or behind it, `CallerAt` that the caller has asked for nothing or for all, and
`PageFits` that below `Word` nothing is lost modulo `Word`.

**PoolGrowthProofs** (`TypeCorrect`, `NumberUpToDate`, `RoutedToReady`).
`GrowthInv` adds `ReadySoFar` (which pools are ready at each step of a growth),
`NoneMore` (`s` is at most `size_pool`, also while a growth is going on),
`RoomToGrow` (a growth under way was asked for with room in the arrays, and
nobody else changes the number) and `RouteInside`. That the product of threads and
pools, whatever it is, gives a pool that is there is `RerouteInside`.

**HandleClientProofs** has the proofs of the two modules that `HandleClient`
composes, and of the loop as a whole.

 * Memory (`OnlyNamedFaults`, `LeftExactly`, `NoUseAfterFree`; any connections and
   requests). `MemInv` says at each step exactly what is allocated
   (`MemoryExact`), which request each pointer holds (`Pointers`), that the
   current request has been freed exactly while the thread has got no newer
   one (`FreedWhen`), that only requests for images are ever freed, and with
   their images (`FreedImages`), and that a fault is of the connection at hand
   (`FaultLast`). That `destroy_image` never meets a null pointer or one freed
   before, although it does not ask, follows from these.
 * Slot (`SlotTypes`, `QuotaIsHeld`, `IdleIsBounded`, `PromptClientIsCut`,
   `LeaseRefined`). `SlotInv` adds `FreshAnswer` (no time is counted before a client
   has been answered) and `TimerLeft` (how the timer stands at each step).
   `LeaseRefined` shows that `KeepAlive` implements `Lease` under the mapping of
   `LeaseKept`: the action that lets a request through is an `Answer` of the
   lease, a `Tick` is a `Wait`, and each way of closing is a `GiveUp`. No run
   checks quota and idle time by themselves, for `LeaseKept` contains both.
 * Loop (`MemoryRefined`, `SlotRefined`, `ClientFaultsNamed`, `ClientLeftBehind`,
   `ClientUsedIsLive`, `ClientPromptCut`, `ClientLease`, `ClientOwnRequest`; any
   connections, timer, quota, buffers and parts). The loop implements
   `RequestMemory` and `KeepAlive`, step by step, so that what is proved of these
   holds of it, the refinement of `Lease` included. `ClientOwnRequest` has an
   invariant of its own: `BufferOwners` says of every part of every buffer whose
   it can be (a connection that left something, or, as long as it is needed, the
   one at hand), and `CompleteWhenUsed` that no part is empty when a request is
   used.

**AcceptListProofs** (`TypeCorrect`, `AloneIsRight`, `FirstIsOwn`, `FaultsExplained`;
any threads, any lines, a list of any size). Each property needs what the one before
it is built on, so `AcceptInv` has them in layers.

 * `Basic` is about all threads, whatever they do to each other: a text that is
   allocated has a NUL at its end (`Texts`), the pointers, the variable of `strtok`
   among them, are into texts that have been made and not behind their ends
   (`Pointers`), and a thread's own texts are there until it is done (`Allocated`).
   So `strtok` finds an end wherever it goes on (`TokenIs`), in a text of another
   thread too; in one that was freed, the module ends (`Dangle`).
 * `Alone` follows a thread that was not crossed: from some place on its line is
   untouched, and the types before that place have been copied (`Splitting`); the
   token cut out is the next of them (`Taking`); of the copy that is looked at, the
   name has been cut off, then the quality (`Cutting`); and the entries made are
   those of the types so far (`Listing`). This is `ListRight` at its end, and says
   which line leads to which fault; hence `AcceptFaults`.
 * `FirstHeld` is about a thread that may have been crossed. Whoever calls `strtok`,
   the only symbol it writes over is a separator (`Eroded`), so that a line keeps its
   first symbol, the first token is the first type or what a foreign NUL leaves of
   it, and its copy begins with its name. Nothing of this kind holds of later
   types, or of the quality.

The assumption on lines (`AcceptAssumption`) is the abstraction of the module and not
a restriction of what clients send: a text is a sequence of symbols in which what
stands between two separators is one symbol, with a NUL at its end only. Parts of a
type are counted by their places in the line (`Parts`), for what `SelectSeq` gives is
induction over data.

What the runs do not check by themselves is proved for all instances: the types of
all modules (`TypeCorrect`, `HandoffTypes`, `SlotTypes`, or in the invariant),
`EntriesWhole`, `RightUntilWrapped`, `StatusTrue`, `SizeAgrees`, `OnlyAccepted`,
`QuotaHeld`, `IdleBounded`.

## 6. Only model-checked, and not modelled

Only model-checked: every liveness property (`TakenOrOverrun`, `ReceivedUnlessRaced`,
`SendEnds`, `SearchEnds`, `ImageEnds`, `PageEnds`, `MainGoesOn`, `EveryPoolUsed`,
`SlotComesBack`, `ParseEnds`), which is out of the prover's reach, as is ENABLED.
Every other property that a passing run checks is a theorem.

Abstracted from or left out of what is modelled:

 * spurious wake-ups of `pthread_cond_wait`, after which both waits without a
   predicate would read a stale or empty record;
 * the memory model: variables shared without a mutex are read and written in
   program order, one at a time; a compiler may do otherwise;
 * `client_addr`, which travels with `conn_sd`; `pool_t.counter`, which is
   read by nobody; the log;
 * descriptors opened by other parts of the process between a `close()` and the
   next `accept()`;
 * the connections to the database (`connect_DB`, `mysql_ping`): a connection that
   is lost is a query that fails;
 * the ends of the process by `free()` in `handle_client` (a request that was
   never made, or is freed again by the next connection on the same thread):
   `ThreadPool` goes on beyond them, as a run of the program may after a
   second free; they are what `RequestMemory` is about;
 * a pool starts in one step, though its mutex is initialised after its threads
   are started (`ThreadPool.c` 55-78): no connection is routed to it before;
 * the texts of a request: `parse_name` and `get_user_agent` give an image, or an
   error, or an agent, as they like; and for an empty agent, what lies on the
   stack where the query should be (`HandleDB.c` 26);
 * the length of a path (the buffer of a search has 128 bytes), of an extension
   (one of more than four characters, the point included, is written behind its
   memory before it is cut off, `Request.c` 154-159) and of a request (longer ones
   than a buffer).

Not to be modelled: configuration, log, start-up and the wrappers in `Utils.c`,
which hold no state that changes once the server runs, and the layout of messages
(`build_message`).

## 7. Plan

In this order, the most important behaviour first.

Done: all modules above, and proofs of all properties of theirs that are not
liveness.

Next: that what is proved of a layer holds of what is composed of it: `ListIsLog` of
`PathList` is the list of `ImageCache`, which has it as a sequence, and the steps of a
search there are those of `Compare`.

Runs are kept to one per question: the loop of a thread has one for all that is
asked of its slot, its memory and its buffers, and a response one for both of
its kinds.

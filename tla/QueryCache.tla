----------------------------- MODULE QueryCache -----------------------------
(***************************************************************************)
(* retrieve_dim_from_DB of HandleDB.c: the threads of every pool look up   *)
(* the display of a client, by its user agent, in a ring of 256 cached     *)
(* results, and ask the database only when it is not there.  One mutex     *)
(* covers the search, and the filling of an entry, but neither the time    *)
(* between a search and what comes of it, nor the reading of the fields of *)
(* an entry that was found.                                                *)
(*                                                                         *)
(* The text of a query stands for the user agent in it (the search is by   *)
(* strstr, of texts made from one template).  A field's value is known by  *)
(* the query whose row it comes from: Row(q) in each field of an answer is *)
(* the right answer to q, and NoRow is the 0 of a display the database     *)
(* does not have.  The database is outside src/: a table that does not     *)
(* change.  A query can fail: then there is no result to read, and the     *)
(* fetch from it gives no row, as if the display were not in the table.    *)
(***************************************************************************)
EXTENDS Naturals, FiniteSets

CONSTANTS
  Worker,    \* the threads that call retrieve_dim_from_DB
  Query,     \* the texts they look up
  Known,     \* those for which the database has a row
  NoRow,     \* the value of every field when there is none
  NoQuery,   \* the text of an entry that has not been filled
  NoOne,     \* no thread: the mutex is free
  Size       \* entries in the ring, 256 in the code

ASSUME CacheAssumption ==
  /\ Known \subseteq Query
  /\ NoRow \notin Query
  /\ NoQuery \notin Query
  /\ NoOne \notin Worker
  /\ Size \in Nat \ {0}

VARIABLES
  pc,            \* where each thread is
  asked,         \* tmp_query of each thread
  found,         \* the index i at which its search ended
  answer,        \* request->colors, width and height
  cache,         \* the ring of struct cache_query
  idx_cache,     \* idx_cache % Size
  db_mtx_cache,  \* the thread that holds the mutex
  by,            \* history: the thread that filled each entry
  failed,        \* history: the queries with a row that have failed at some time
  overwritten,   \* history: the entry a thread reads has been filled again since
  wrapped        \* history: some entry has been filled a second time

shared == <<cache, idx_cache, db_mtx_cache, by>>
vars == <<pc, asked, found, answer, shared, failed, overwritten, wrapped>>

Index == 0..(Size - 1)
Value == Query \cup {NoRow}
Row(q) == IF q \in Known THEN q ELSE NoRow
Answer == [colors : Value, width : Value, height : Value]
RightAnswer(q) == [colors |-> Row(q), width |-> Row(q), height |-> Row(q)]
NoAnswer == [colors |-> NoRow, width |-> NoRow, height |-> NoRow]

Steps ==
  {"idle", "search", "colors", "width", "height", "db",
   "fill", "fill_colors", "fill_width", "fill_height", "fill_state", "done"}

Entry ==
  [query : Query \cup {NoQuery}, colors : Value, width : Value, height : Value,
   state : {"NO_VALUE_IN_DB", "VALUE_DB"}]

TypeOK ==
  /\ pc \in [Worker -> Steps]
  /\ asked \in [Worker -> Query \cup {NoQuery}]
  /\ found \in [Worker -> Index]
  /\ answer \in [Worker -> Answer]
  /\ cache \in [Index -> Entry]
  /\ idx_cache \in Index
  /\ db_mtx_cache \in Worker \cup {NoOne}
  /\ by \in [Index -> Worker \cup {NoOne}]
  /\ failed \subseteq Known
  /\ overwritten \in [Worker -> BOOLEAN]
  /\ wrapped \in BOOLEAN

Init ==
  /\ pc = [w \in Worker |-> "idle"]
  /\ asked = [w \in Worker |-> NoQuery]
  /\ found = [w \in Worker |-> 0]
  /\ answer = [w \in Worker |-> NoAnswer]
  /\ cache = [k \in Index |->
       [query |-> NoQuery, colors |-> NoRow, width |-> NoRow, height |-> NoRow,
        state |-> "NO_VALUE_IN_DB"]]
  /\ idx_cache = 0
  /\ db_mtx_cache = NoOne
  /\ by = [k \in Index |-> NoOne]
  /\ failed = {}
  /\ overwritten = [w \in Worker |-> FALSE]
  /\ wrapped = FALSE

Go(w, step) == pc' = [pc EXCEPT ![w] = step]

-----------------------------------------------------------------------------
(* The search.                                                             *)

\* A request has been parsed; its user agent makes the text of a query.
Ask(w) ==
  /\ pc[w] = "idle"
  /\ \E q \in Query : asked' = [asked EXCEPT ![w] = q]
  /\ Go(w, "search")
  /\ UNCHANGED <<found, answer, shared, failed, overwritten, wrapped>>

\* Mutant of Hits: the last entry is not looked at.
HitsShort(w) == {k \in Index \ {Size - 1} : cache[k].query = asked[w]}

Hits(w) == {k \in Index : cache[k].query = asked[w]}
FirstHit(w, k) == k \in Hits(w) /\ \A j \in Hits(w) : k <= j

\* The first entry with the query, if any.  One that says the database has no
\* value is an answer by itself; of any other the fields remain to be read.
LookUp(w) ==
  \/ /\ Hits(w) = {}
     /\ Go(w, "db")
     /\ UNCHANGED <<found, answer>>
  \/ \E k \in Index :
       /\ FirstHit(w, k)
       /\ found' = [found EXCEPT ![w] = k]
       /\ \/ /\ cache[k].state = "NO_VALUE_IN_DB"
             /\ answer' = [answer EXCEPT ![w] = NoAnswer]
             /\ Go(w, "done")
          \/ /\ cache[k].state = "VALUE_DB"
             /\ Go(w, "colors")
             /\ UNCHANGED answer

\* The ring is searched under the mutex, which is released at once.
Search(w) ==
  /\ pc[w] = "search"
  /\ db_mtx_cache = NoOne
  /\ LookUp(w)
  /\ overwritten' = [overwritten EXCEPT ![w] = FALSE]
  /\ UNCHANGED <<asked, shared, failed, wrapped>>

\* The three fields of the entry found are read one by one, without the mutex.
ReadColors(w) ==
  /\ pc[w] = "colors"
  /\ answer' = [answer EXCEPT ![w].colors = cache[found[w]].colors]
  /\ Go(w, "width")
  /\ UNCHANGED <<asked, found, shared, failed, overwritten, wrapped>>

ReadWidth(w) ==
  /\ pc[w] = "width"
  /\ answer' = [answer EXCEPT ![w].width = cache[found[w]].width]
  /\ Go(w, "height")
  /\ UNCHANGED <<asked, found, shared, failed, overwritten, wrapped>>

ReadHeight(w) ==
  /\ pc[w] = "height"
  /\ answer' = [answer EXCEPT ![w].height = cache[found[w]].height]
  /\ Go(w, "done")
  /\ UNCHANGED <<asked, found, shared, failed, overwritten, wrapped>>

-----------------------------------------------------------------------------
(* The miss.                                                               *)

\* The database answers: a row, or none and every field is 0.  A query that
\* fails is reported, and goes on as one without a row.
AskDB(w) ==
  /\ pc[w] = "db"
  /\ \/ answer' = [answer EXCEPT ![w] = RightAnswer(asked[w])] /\ UNCHANGED failed
     \/ answer' = [answer EXCEPT ![w] = NoAnswer] /\ failed' = failed \cup ({asked[w]} \cap Known)
  /\ Go(w, "fill")
  /\ UNCHANGED <<asked, found, shared, overwritten, wrapped>>

\* With the mutex the entry at idx_cache is filled, field by field, whether or
\* not another thread has entered the same query in the meantime.
FillQuery(w) ==
  /\ pc[w] = "fill"
  /\ db_mtx_cache = NoOne
  /\ db_mtx_cache' = w
  /\ cache' = [cache EXCEPT ![idx_cache].query = asked[w]]
  /\ by' = [by EXCEPT ![idx_cache] = w]
  /\ wrapped' = (wrapped \/ by[idx_cache] # NoOne)
  /\ overwritten' =
       [v \in Worker |->
          overwritten[v] \/ (pc[v] \in {"colors", "width", "height"} /\ found[v] = idx_cache)]
  /\ Go(w, "fill_colors")
  /\ UNCHANGED <<asked, found, answer, idx_cache, failed>>

FillColors(w) ==
  /\ pc[w] = "fill_colors"
  /\ cache' = [cache EXCEPT ![idx_cache].colors = answer[w].colors]
  /\ Go(w, "fill_width")
  /\ UNCHANGED <<asked, found, answer, idx_cache, db_mtx_cache, by, failed, overwritten, wrapped>>

FillWidth(w) ==
  /\ pc[w] = "fill_width"
  /\ cache' = [cache EXCEPT ![idx_cache].width = answer[w].width]
  /\ Go(w, "fill_height")
  /\ UNCHANGED <<asked, found, answer, idx_cache, db_mtx_cache, by, failed, overwritten, wrapped>>

FillHeight(w) ==
  /\ pc[w] = "fill_height"
  /\ cache' = [cache EXCEPT ![idx_cache].height = answer[w].height]
  /\ Go(w, "fill_state")
  /\ UNCHANGED <<asked, found, answer, idx_cache, db_mtx_cache, by, failed, overwritten, wrapped>>

\* Mutant of FillState: the wrong state.
FillStateSwapped(w) ==
  /\ pc[w] = "fill_state"
  /\ cache' = [cache EXCEPT ![idx_cache].state =
       IF answer[w] # NoAnswer THEN "NO_VALUE_IN_DB" ELSE "VALUE_DB"]
  /\ idx_cache' = (idx_cache + 1) % Size
  /\ db_mtx_cache' = NoOne
  /\ Go(w, "done")
  /\ UNCHANGED <<asked, found, answer, by, failed, overwritten, wrapped>>

\* The state is written, idx_cache goes on and the mutex is released.
FillState(w) ==
  /\ pc[w] = "fill_state"
  /\ cache' = [cache EXCEPT ![idx_cache].state =
       IF answer[w] # NoAnswer THEN "VALUE_DB" ELSE "NO_VALUE_IN_DB"]
  /\ idx_cache' = (idx_cache + 1) % Size
  /\ db_mtx_cache' = NoOne
  /\ Go(w, "done")
  /\ UNCHANGED <<asked, found, answer, by, failed, overwritten, wrapped>>

\* The thread goes on with its request, and in time has another.
Finish(w) ==
  /\ pc[w] = "done"
  /\ Go(w, "idle")
  /\ UNCHANGED <<asked, found, answer, shared, failed, overwritten, wrapped>>

Next ==
  \E w \in Worker :
    \/ Ask(w)
    \/ Search(w)
    \/ ReadColors(w)
    \/ ReadWidth(w)
    \/ ReadHeight(w)
    \/ AskDB(w)
    \/ FillQuery(w)
    \/ FillColors(w)
    \/ FillWidth(w)
    \/ FillHeight(w)
    \/ FillState(w)
    \/ Finish(w)

Spec == Init /\ [][Next]_vars

-----------------------------------------------------------------------------
Filled(k) == cache[k].query # NoQuery

(***************************************************************************)
(* Whenever the mutex is free, every entry of the ring is whole: its       *)
(* fields and its state are those of its query, or all say that the        *)
(* database has no such display, which is true or comes of a failure.      *)
(***************************************************************************)
EntriesWhole ==
  db_mtx_cache = NoOne =>
    \A k \in Index :
      Filled(k) =>
        LET q == cache[k].query
            row == IF cache[k].state = "VALUE_DB" THEN q ELSE NoRow
        IN  /\ <<cache[k].colors, cache[k].width, cache[k].height>> = <<row, row, row>>
            /\ row = Row(q) \/ (q \in failed /\ row = NoRow)

\* What a query can be answered with: its row, or after a failure none.
Given(q) == {RightAnswer(q)} \cup (IF q \in failed THEN {NoAnswer} ELSE {})

(***************************************************************************)
(* A lookup ends with the display of the device it asked for, unless the   *)
(* entry it had found was filled again before it had read the fields, or   *)
(* the database failed for that device once: the failure is entered as     *)
(* the answer that there is no such display, and stays.                    *)
(***************************************************************************)
RightUnlessOverwritten ==
  \A w \in Worker :
    pc[w] = "done" => answer[w] \in Given(asked[w]) \/ overwritten[w]

(***************************************************************************)
(* Until idx_cache has come round, no lookup is answered wrongly but for a *)
(* failure: entries that are being filled are never those that are read.   *)
(***************************************************************************)
RightUntilWrapped ==
  ~wrapped => \A w \in Worker : pc[w] = "done" => answer[w] \in Given(asked[w])

(***************************************************************************)
(* Threads that miss the same query at the same time each enter it, but no *)
(* thread ever has two copies of a query in the ring, and none misses      *)
(* again a query of which it has a copy there.                             *)
(***************************************************************************)
OneCopyPerWorker ==
  /\ \A j, k \in Index :
       Filled(j) /\ cache[j].query = cache[k].query /\ by[j] = by[k] => j = k
  /\ \A w \in Worker, k \in Index :
       pc[w] \in {"db", "fill"} /\ by[k] = w => cache[k].query # asked[w]

=============================================================================

# A TLA+ development for deals-server

deals-server keeps flight deals in memory and answers HTTP queries about them.
Eight single-threaded processes run behind nginx; each has its own `poll()` loop
and they share nothing but POSIX shared memory and named semaphores. What is
hard in this program is what happens between the processes: who may touch a row
of an index while somebody else is waiting, sweeping, cleaning or dead. That is
where this development starts. The other half is what one process makes of a
request: from the bytes that arrive in pieces, through the parameters and filters,
to the deal that is answered for a group and to the cache of top destinations.

Paths below are relative to the root of the repository; `tpp` is
`src/shared_memory.tpp`.

## 1. Inventory

| component | state | operations | hard because | what makes it correct |
|---|---|---|---|---|
| `locks::CriticalSection`, `AutoCloser` (`src/locks.cpp`) | a named semaphore; per process `unlock_needed` | `enter` (30 s), `exit`, destructors, `reset_not_for_production` | the semaphore has no owner: deaths, time-outs, resets | mutual exclusion, no lost or doubled post, `enter()` returns |
| `SharedMemoryPage`, page cache (`tpp` 283-306, 408-543) | name -> object, per process list of mappings, `unlinked` in the page's header | constructor (open or create), destructor, `unlink` | a name may change its object under a process that still maps the old one; every system call may fail | a process finds in a page what the index says is there |
| `Table` (`tpp` 17-403) | index page (`expire_at`, `page_elements_available`, `page_name`), `expiration_check`, per process timer | `addRecord`, `processRecords`, `cleanup`, `release_expired_memory_pages` | the lock protects the index only; pages are opened, written and read outside it; the clock is read before the wait | cells handed out once; rows outlive their records; nothing lost early; used rows first |
| `SharedContext` (`src/shared_memory.cpp`) | `global_expire_at`, shared by two tables | `update_global_expire` | written under the lock of one of two tables | the horizon never goes back |
| `DealsDatabase` (`src/deals_database.cpp`) | two tables, context | `addDeal`, `searchFor`, `truncate` | a deal is an index record that points into the data table: two locks, no transaction | a found deal has its own data |
| query engine (`src/deals_query.cpp`, `deals_cheapest*.cpp`, `deals_types.cpp`, `search_query.cpp`) | one query | filters, grouping, history of a group, limits | loops with hand-kept indices | one answer per group, never replaced by a newer one; no day cut off; sizes that count themselves |
| `deals_unique_routes.cpp`, `deals_stats.cpp` | one scan | count routes and deals | order of a scan | the newest deal of a route |
| `TopDstDatabase`, `cache::Cache` (`src/top_destinations.cpp`, `cache.hpp`) | a table, a per-process cache | `addDestination`, `getLocaleTop`, `truncate` | stale entries; time passes between scan and saving; `truncate` leaves the caches | each cell behind an answer was there to be found, at most one TTL and one scan ago |
| `TCPServer`, `TCPConnection` (`src/tcp_server.*`) | connections with buffers and two times | one round of `poll()` | partial reads and writes, time-outs against late answers | a complete request is answered once; every connection ends |
| `HttpParser` (`src/http.cpp`) | parser state | `write` | requests cut anywhere | a request is dispatched complete and as it was sent |
| `DealsServer` (`src/deals_server.cpp`) | `quit_request`, `gotQuitSignal` | dispatch, errors, quit, signals | quit while connections are open; second signal | the process ends only without connections |
| types, dates, utilities (`src/types.cpp`, `utils.cpp`) | - | parameters, codes of dates, day numbers, weekdays | leap years, widths, exceptions | days are counted right; codes order like dates |
| timing, statsd | - | clock, metrics | | |

Interactions: `DealsServer::on_data` calls the two databases synchronously; a
database calls its tables; a table takes its own semaphore, and inside or
outside it opens pages, whose constructor takes a semaphore named after the
page. There are no threads and no callbacks besides `process_element`. Signals
only set a flag, except the second one, which ends the process wherever it is.

`PROJECT.json` lists the hazards line by line, with the property that covers
each, or the reason why none does.

## 2. Modules

| module | models | extends |
|---|---|---|
| `CriticalSection` | the operations of `src/locks.cpp` as operators on `sem`, `unlock_needed`, `waited` | |
| `SemaphoreUse` | processes that use one lock for ever, deaths, resets; the lock's specification | `CriticalSection` |
| `SharedMemoryPage` | names, objects, mappings, marks; every outcome of the constructor | `CriticalSection` |
| `Table` | a table with all its operations, in steps | `SharedMemoryPage` |
| `MCTable` | symmetry and the statements of the documentation, for TLC | `Table` |
| `DealsDb` | two tables, the horizon they share, `addDeal`, `searchFor`, `truncate` | |
| `MCDealsDb` | symmetry, for TLC | `DealsDb` |
| `Dates` | codes of dates, day numbers, weekdays (`types.cpp`, `utils.cpp`), and the lengths of the calendar's months | |
| `Calendar` | a walk over the days of the calendar, to check `Dates` against | `Dates` |
| `Types` | the parameters of requests: what each class accepts, throws and keeps | `Dates` |
| `SearchQuery` | the filters of a search and their setters | `Types` |
| `DealsQuery` | `/deals/add`, `/deals/top` with its three groupings, `/deals/uniqueRoutes`, `/deals/stats` | `SearchQuery` |
| `MCDealsQuery` | texts, requests and deals, for TLC | `DealsQuery` |
| `TopAnswers` | what `/destinations/top` promises | |
| `TopDst` | the table of destinations, the cache of a process; implements `TopAnswers` | `SearchQuery` |
| `MCTopDst` | locales and requests, for TLC | `TopDst` |
| `HttpParser` | `write()` and what it calls, over tokens | |
| `TcpServer` | one server process: connections, parser, dispatch, quit, signals | `HttpParser` |
| `MCTcpServer` | two clients, for TLC | `TcpServer` |
| `SemaphoreProofs`, `TableProofs`, `DatesProofs`, `CalendarProofs`, `DealsDbProofs`, `DealsQueryProofs`, `TopDstProofs`, `TcpServerProofs` | theorems | the above |

### The lock

`waited[p]` is the number of seconds that `p` has been inside
`sem_timedwait()`; `Acquire` is its return with 0, `CantLock` the exception
`CANT_LOCK` when the deadline has passed and the semaphore is still taken.
`unlock_needed` is the set of processes whose flag is set. `Exit` is `exit()` and
both destructors: it posts only what is owed. `Die` posts nothing, because
neither `SIGKILL` nor `std::exit` in `signalHandler` runs the destructor of an
object on the stack. `reset_not_for_production()` takes no lock: each `sem_trywait()` and
`sem_post()` of its loop is a step (`ResetTryWait`, `ResetPost`, `ResetLast`), between
which the others do what they like. `lost` and `disturbances` in `SemaphoreUse` are
history variables: processes that took their post with them, and what a reset has met
that it does not allow for (an owner inside when it began, an entry before it ended, a
second reset). The safety properties hold as long as a reset has the semaphore to
itself, and no longer: see the end of section 3.

### Pages

`file[s]` is the object that the name `<table>:s` denotes now, `opened_pages_list`
what each process has mapped under that name, `unlinked` the set of objects
whose header carries the mark. `elements` says which process wrote which cell;
the data are otherwise left out. An object without name and mappings is gone
(`Become`) and may be used again, which keeps the set `Pages` small.

The constructor holds the page's own semaphore from its first system call to its
last, so it is one step: it finds the object (`Cached`), opens it, or creates it;
or it fails in one of the ways of `PageFails`, each with what it leaves behind
(`ERR_LOW_SHMEM` leaves an empty file, the next opener finds a wrong size and
removes it). A process that dies inside leaves that semaphore taken (the fault
`"lock"` for everybody else) and the file in one of the same states. Free memory
is read anew at every call, so each call may see any level of `MemoryLevels`.
`unlink()` (`src/shared_memory.hpp` 62) does not take that semaphore. If a sweep or
`cleanup()` of another process removes the name between the two `shm_open()` of a
constructor, the second creates an object of size 0, and the constructor removes it and
throws: what the fault `"lock"` does, and so covered where `Faults` are on. At any other
moment the constructor has the same effect as one that ended before the unlinking.

### The table

`pc[p]` is the next step of process `p`, `loc[p]` its local variables. Steps end
where the code gives up the lock, takes it, opens a page or touches a page's
contents; what happens under the lock between those points cannot be seen by
others and is one step. So `addRecord()` is

    begin -> [sweep] -> prepare (checkRecord, clock) -> add_wait -> add_scan
      -> add_claim -> add_exit -> add_open -> add_copy

and the sweep of `release_expired_memory_pages()` one step per row
(`rel_wait, rel_scan, rel_open, rel_unlink, ..., rel_exit, rel_purge`). A scan of
the index is described by what it finds (`IsUsedEnd`, `IsLastData`, `FirstStop`,
`IsOldest`) instead of by its loop. `claims[s]` records the cells handed out
since row `s` was cleared, and `stored[s]` those whose `addRecord()` has returned;
no action reads either.

`Killed` may strike at every step. `Started` needs the table's semaphore, since the
constructor of the index page takes the semaphore of that name.

Left out: sizes and alignment of pages, the copy of a page's name into a row
(the set `named` says which rows have one), the printing and the metrics, and
the overflow of 32-bit times.

### The database

`DealsDb` composes two tables. A table is reduced to what `Table` shows of it:
the locked part of `addRecord()` is one step (`ClaimElement`), two when it raises
the horizon (`TestHorizon`, `SetHorizon`: the test and the assignment of
`update_global_expire()`, between which the *other* table may raise it too). A
sweep and a `cleanup()` are one step each, and each may stop at any row whose page cannot
be opened (`SweepFails`, `CleanFails`): the rows before it are cleared, the others stay, and a
`cleanup()` leaves used rows behind unused ones, where no search comes. What stays apart
is what others can come between: the clock read before the wait, the copy after the lock
(`CopyRecord`), the second clock of `info.timestamp` (`FillInfo`), the record of the index,
and in a search `min_timestamp`, the collection of rows, the reading of each page and the
reading of the data. `Throws` stands for `CANT_LOCK` and for the first page that cannot be
opened, at every step outside a lock; `NamelessRow` for `EMPTY_PAGE_NAME`, when a row has lost its
name since it was collected, or never got one (`tpp` 210).

Pages are kept as far as they decide which bytes a process meets. `elements` is what
the pages with a name hold, `opened_pages_list[t][p]` the rows whose pages `p` has mapped,
`stale[t][p]` those of them that have lost their names meanwhile. A copy through a stale
mapping reaches nobody (`Copy`); a copy through a good one goes to the element, whoever owns
it by then. A search reads a stale page without finding what the others have stored. Which
stale mappings a process closes at the end of a sweep is left open (`marked`), for whoever
unlinked a page has marked what *it* had mapped.

`owner` (history) says whose claim an element is, `elements` what a reader finds there: the
properties compare the bytes with the deal. `spoilt` (history) has the deals that were copied into an
unlinked page, or overwritten in an element that is theirs, and `misread` the rows that a search has read in
an unlinked page. The two passing properties make an exception of them, because the code loses such
deals (`table_stale_write` is a trace of it); `OnlyLateCopiesOverwrite` says when an
element can be overwritten at all.

Left out: what a search finds in an unlinked page (old deals, which can only add to its
result), the bytes that a process gets for a deal through a stale mapping of its *data* page, filters
besides the one by time, the dates of deals, and out of memory (`Table` has it).

### Parameters, dates and queries

A text of the query string is the sequence of its comma-separated items; what the
letters of an item mean is given by the constants `Iata`, `Country`, `DateOf` and
`NumberOf`, and an item outside of them is one that the class cannot read. `Types`
says for each class of `types.cpp` what it makes of a text: a value, undefined, or one of
the exceptions that `on_data()` turns into 400 and 500. `Dates` has the arithmetic
as it stands in the code, `rdn()` and `day_of_week()` included.

In `DealsQuery` a process serves one request after the other: `addDeal`, `getTop`
(or `getTopThrows`), `getUniqueRoutes`, `getStats`, then one step per element of the
scan, then the answer. The table is a sequence in the order of the scan; an addition
may come anywhere in it, because rows are reused and processes overtake each other.
`SearchQuery` builds the filters the way the setters do, with two peculiarities: the
`duration` of an interval that is not set is a member of `Uninitialized`, and
`filter_result_limit` has 16 bits. `Passes` is the filter of `process_element()`,
`Keep` and `Takes` the history of a group, `findCheapestAndLast` the choice from it,
`Sorted` and the limits `post_search()`, and `writeTopResult` the list of sizes. The key of
a day (`getDateToGroup`) is computed on bits.

The properties compare the answer with the request (`Wanted`, `GroupOf`), told by
parameters and dates and not by filters and keys. By day the group is a date or a pair of
dates, as the request's parameters say: both with `all_combinations`, the date that is not the
given one around a `departure_or_return_date`, else the date of departure when the request names an
interval of several days of departure, and the date of return when it names one day or leaves an end
of the interval open. Only for a request without any day of departure, where the code compares a
duration that nothing has set, is either choice admitted (`DaysOfGroups`). That one day of departure makes
groups by return is not what the documentation says: see the end of section 3.

Two rules say which deal of a group is the right one. The comments of the code have a newer deal
of the same trip replace an older one whatever it costs, and the cheapest of those that are left
win (`CheapestUpToDate`); the documentation has the lowest price win and the time break ties
(`LowestPrice`). The code keeps the first half of the first rule in a table in the order
of time (`NoNewerIsBetter`), and there are deals for which it keeps neither (`RightByOneRule`).

Left out: what others do to the table during a scan (`Table`, `DealsDb`), the data
behind a deal but for its size, and the text of answers.

### Top destinations

`TopDst` has, for the process, its cache and the `getLocaleTop()` it is in, and the shared
table as the process would read it: the bytes of each cell (`cells`) and the cells that the
index counts (`shown`). Other processes are the actions `addDestination` (the index counts a cell),
`Copy` (its bytes change, at any time, since the copy is made outside the lock) and `Hide` (rows
expire, are swept, reused or cleared); processes share nothing else, so one process is
enough. A scan goes as `processRecords()` does: `BeginScan` collects the rows under the
lock, `ReadSize` reads outside it whether a cell is counted, `ReadCell` gives its bytes to
`process_element()`, and others come between any two of these. `ScanTime` bounds the time from
`BeginScan` to `saveResultToCache`. `recent` (history) is what was true of the cells in the
last seconds, second by second.

`TopAnswers` is the promise: an answer follows from facts about the table that were true
within the last `MaxAge` seconds. `AnswersAreRecent` is the specification of its instance
`Promise` in `TopDst`, with `MaxAge == CacheTime + ScanTime`. `Contents` says which tables a
set of facts allows: a cell may be missing only if the index did not count it at some time of that window, and it
may count with some bytes only if it was counted and had those bytes then. So an answer need not be the
top of the table of any one moment, and the code does not promise that; it is the top of a
table whose every cell was there to be found. Cache, calls and the clock are hidden. The cached list of a
locale may have been cut to the limit of another request, so `Answers` lets the answer to a
request without a limit have any length.

### The parser and the server

Bytes are tokens: words, the separators that the parser searches for, and the line
end. `Written(p, data)` is `HttpParser::write()`: the search for the empty line over
everything received so far, the headers, `content-length`, the request line, the
parameters, and the rule when a request is complete. What reads texts
is a function, recursive where the code has a loop; what acts on a parser is an operator.
`ProperRequests` says what a client means by a request: read in one piece it has the
method, path, parameters and body that the client names, with nothing behind it.

`TcpServer` is one process, its clients, the clock and the signals. A round of
`process()` is `PollEvents`, then `Serve` for every connection with an event, then
`Accept` or `AcceptNobody`; or `PollNothing` when `poll()` returns without events. The
round ends with `EndRound`: `get_alive_connections()` and the end of
`DealsServer::process()`. `conn[c]` is a `TCPConnection` with its parser, `sock[c]` the
client, its request in pieces and what is in the socket. Responses in `data_out` are
counted. `on_data` is the whole handler with 503, errors and `/quit`; the work of a
request in the databases is not part of this module. `owed` is history: clients with
a response that has not been handed to `send()`.

Left out: the start-up (`bind`, `listen`) and how many bytes `send()` takes (what it
does not take is dropped, `src/tcp_server.cpp` 138). Connections are served in any
order instead of the list's.

## 3. Runs

| run | instance | shows |
|---|---|---|
| `semaphore_use` | 3 processes, time-out 2, resets call by call | `MutualExclusion`, `PostsBalance`, and `EnterReturns` |
| `table_fine` | 2 processes, 2 rows of 2 cells, memory fine or low, clock 1..4, 3 operations | types, `ClaimsDisjoint`, `RowOutlivesItsRecords`, `UsedRowsFirst`, `NoRecordLostEarly` |
| `table_faults` | as above with every memory level, every failing call, one death, records that are too big, 2 operations | the lock is left on every path, `ClaimsDisjoint`, `NoRecordLostEarly`, every operation ends |
| `table_stale_write` | 4 operations | violation: a record stored in a page that no other process can see |
| `deals_db` | 2 processes, 2 rows of 1 element in each table, lifetime 1, removal delay 0, clock 1..2; 3 deals and nothing else, or 2 deals with two searches, truncations or failures in any mixture | types, `SameSecondDealsKeepData`, `SearchIsComplete`, `OnlyLateCopiesOverwrite` |
| `deals_db_filter` | additions only | violation: a deal passes the filter although its data page was reused |
| `calendar` | every day from 1999 to 2101 | `DaysAfterCountsDays`, `WeekdayFollows`, `CodesFollowDays` |
| `deals_query` | 3 deals of 5 kinds in any order, 4 refused additions, 13 answerable and 8 refused searches, 2 horizons, clock 2..3 | `OneAnswerPerGroup`, `NoNewerIsBetter`, `EveryDayAnswered`, `SizeInfoCountsItself` |
| `deals_query_cheapest` | one search | violation: an answer that is wrong by the comments and by the documentation |
| `top_dst` | 2 cells, 2 kinds of elements, 5 requests, cache of 1 second, scans of up to 1 second, clock 0..3 | `AnswersAreRecent`: `TopDst` implements `TopAnswers` |
| `tcp_server` | a client that posts or sends garbage and may leave, a client that asks for `/quit`, limits of 1 and 0 seconds, 2 signals | `ResponsesAreSent`, `DispatchedAsSent`, `ConnectionsEnd`, `QuitEnds` |
| `tcp_twice` | the same without signals | violation: one request dispatched twice |

Why these bounds suffice. Two rows are the least with which a row can be behind
another, be the last one that holds data, or be skipped; two cells the least with
which a row can be partly full. One more process or row adds no new kind of
conflict: at most one process is inside the lock, and outside it each works on
one page. Three operations give an addition, a change under it (sweep, cleanup
or reuse) and a reader. The clock runs far enough for a record of
lifetime 1 to expire and for the removal delay of 2 to pass (1 + 1 + 2 = 4). The
constants are shrunk in proportion: the delay stays above the check interval, as
the `static_assert` demands. In `table_fine` the time-out of the lock is 0, so that
`CANT_LOCK` may strike whenever the lock is taken: more behaviours than the code
has. Six objects are enough for two names and four mappings; `CreateAs` takes any
unused one, all unused ones being alike.

In `deals_db` one element per page makes every second addition need another row, so
that all four kinds of rows (current, expired, new, oldest) occur with two deals, whose two
processes are also the two that can race for an element; a third deal finds both rows
full. The clock runs until a first record is over (2); with a removal delay of 0 its row
may be swept, as well as reused, in that same second, where the code waits for another
60: the delay is there for slow readers, and the properties have to hold without it.
`MaxOps` counts searches, truncations and failures together: two are a search and a
truncation under it, a truncation that stops half way, a sweep that does, or an addition
that fails and a search after it. `MaxWork` counts all of these and each deal twice, so
that a third deal (6) leaves room for nothing else. With one more of anything the states no
longer fit into minutes; the theorems have no such bounds.

In `tcp_server` one request is cut inside of its body and one inside of the empty line
behind its headers; two pieces make a half-read request; a lifetime above the idle limit
keeps the two limits apart (an active connection outlives the idle limit, not the
lifetime), and two signals reach `std::exit(-1)`. `Leavers` bounds who may leave early:
one client's leaving has no effect on another's connection, so one leaver beside one that stays
shows each with the other. There are finitely many clients, so `QuitEnds` is about a
server to which, after some time, nobody connects any more: it goes on accepting, and
with an endless stream of clients it need not end.

In `calendar` the years hold a leap century (2000), a century that is none (2100) and
the years around both; the walk ends with the last, so deadlock is not checked.
In `deals_query` three deals are what `findCheapestAndLast` needs to go wrong (a deal, one
that replaces it and one of another trip between); the dates lie around the end of a
year, the sizes around a digit, and the values of `Uninitialized` are the one that
stands for no interval and one beyond 16 bits. The clock stops while a request is served: `DealsDb` has the search that
takes time. In `top_dst` two cells are enough for an order of counters and for a change behind
or before the place that a scan has reached. `MaxFacts` is 5 where the two cells alone make 4
facts: within `MaxAge` seconds at most one thing changes (a cell appears, disappears or changes its
bytes), at any moment of the scan, and then the window moves on. The requests are those for one
locale: without a limit, with one that cuts the list, with dates (which pass the cache by), with a
limit of 0, and for a locale that is unknown. Several changes in one window, and requests for
several locales, are left to the theorem.

The operations are bounded by `MaxOps` (and in `deals_db` by `MaxWork`), and the clock by `MaxTime` (it then
stands still, while the waits for the lock still run out).
`SYMMETRY` is used for safety only.

### What the violations say

Each is a sentence of the documentation or a comment that the code does not keep;
`PROJECT.json` quotes it.

* `StoredRecordsReachable`: `cleanup()` by one process unlinks a page that another
  still has in its list; the list is purged only every 5 seconds. The other process
  then adds a record through the old mapping (`tpp` 242), where nobody will find it.
* `PassedDealsKeepData`: the filter of `process_element()` compares the deal's
  timestamp with the horizon, but the horizon comes from the clock that the *data*
  record was stored with. If a second passes between the two clock readings (a
  wait for the lock is enough), the reused data page is not noticed and the search
  returns another deal's bytes.
* `RequestsHandledOnce`: `process()` calls `on_data()` (`src/tcp_server.hpp` 297) even
  after a `network_read()` that found the end of the stream; `data_in` still has the
  bytes of the last read and the parser is still complete. A client that shuts its
  sending side before its answer is sent has its request executed twice.

* `RightByOneRule`: $14, $15 for another trip, $16 for the trip of the first, in order of
  time. The answer of the group is $16. By the comment at `findCheapestAndLast()`, whose own example
  this is, it should be $15: its loop starts from the last deal of the history and leaves it only
  when a newer one of its trip is there. By the documentation $16 cannot be the answer while
  $14 is stored for the same trip: `process_deal()` replaces a deal by a newer one at any price.

Further behaviours of `Table` that the model shows and no passing property excludes:
a cleaner with an old mapping marks the old page and unlinks the new one (`tpp` 133); the
index counts cells before they are written, so a scan may read them empty (`tpp` 233);
a `cleanup()` that throws half way leaves an unused row before used ones (`tpp` 133);
and on an empty table with little memory row 0 is used without a name (`tpp` 210).

Three more disagreements are written into definitions, at the places named, and are no runs:

* `reset_not_for_production()` (`src/locks.cpp` 85) is to repair what a killed owner has left. A
  process dies inside and another waits; the reset posts, the waiter takes the post and is
  inside, the `sem_trywait()` of the loop fails again, and the loop posts once more: the next process is
  inside too. Nobody alive was inside when the reset began. This is `"entry"` in
  `disturbances`; without that exception `MutualExclusion` fails on this trace. `deals_server test`
  resets the locks of the production tables, whatever servers run.
* For one closed day of departure, or an open interval, `pre_search()` of `CheapestByDay`
  (`src/deals_cheapest_by_date.cpp` 20) groups by the date of return, so that several deals of one departure
  date are answered; `src/DOCUMENTATION.md` 380, 505 and 600 have one per departure date. This is
  `DaysOfGroups`; with groups by departure `OneAnswerPerGroup` would not hold.
* `saveResultToCache()` (`src/top_destinations.cpp` 85) keeps a list for 60 seconds, as its comment
  says; `src/DOCUMENTATION.md` 437 and 631 have 24 hours. This is `CacheTime`, which may be any
  number in the theorem.

Four things the code does had to be written into the properties of `DealsDb` that pass.
`update_global_expire()` may set the horizon back when both tables run low at once, so they
measure against the highest horizon so far. A process that is slow between claim and
`memcpy()` overwrites an element of a row that was reused meanwhile: the deal it hits is
`spoilt`, and `OnlyLateCopiesOverwrite` says how slow it must have been. A copy or a read
through a stale mapping misses what others see (`spoilt`, `misread`). And a
`cleanup()` that stops half way hides rows that it has not cleared: the deals that had been
begun by then count as truncated, as they do when it gets through.

### Fairness

`WF(Tick)`: time passes. `WF(semaphore_accuire(p))` and `WF(Step(p))`: a process
that can go on does, since it is scheduled by the kernel and never blocks except
in `sem_timedwait()`, which returns at its deadline. Nothing is assumed about who
gets the semaphore (a waiter may be overtaken for ever: only the deadline saves
it), about beginning operations, deaths, restarts or resets, and in `SemaphoreUse`
nothing about leaving the lock. In `TcpServer`, `WF(ServerStep)`: the loop of `main()`
blocks only in `poll()`, which returns after `POLL_TIMEOUT_MS`; nothing is assumed about
clients or signals. (A request that waits for a lock delays the loop by at most 30
seconds.)

## 4. Proofs

All for arbitrary constants: any number of processes, rows, cells, clients, deals and
requests, any times, any bounds, every combination of faults and memory levels. The
assumptions on constants are the named `ASSUME`s of the modules, which TLC evaluates in
the runs:

* `WaitAssumption`, `PageAssumption`, `TableAssumption`, `DealsAssumption`,
  `TimesAssumption`, `BoundsAssumption`: numbers are numbers and the `static_assert` on the
  two delays holds. In `DealsQuery`, the clock starts at `DEALS_EXPIRES` and may run on from there.
* `YearsAssumption`: the walk begins on a year after 0, on the weekday that the calendar
  gives its New Year's Day (`NewYearsDay` counts the days of the years before from Monday,
  0001-01-01, and uses nothing of the code; for 1999 it is the Friday of the run).
* `TcpAssumption`: a request is a sequence of pieces, each a sequence of tokens.
* `CellsAssumption`: the table of destinations has finitely many cells, and one at least.
* `NumberAssumption`, `DatesAssumption`, `RequestsAssumption`: what a table of texts
  says is a number is one (`NumberOf` is what a `uint32_t` keeps of the `long` of `stol()`, so not
  below 0); no date is above `LastDate`, the model's `UINT32_MAX`; a list of
  countries is a list of texts.
* `UninitializedAssumption`: uninitialized memory holds some integer.

Three theorems have hypotheses besides. Each is a definition at the end of `DealsQuery` or
`TcpServer`, and an `ASSUME` of `MCDealsQuery` and `MCTcpServer` has TLC evaluate it for the
constants of the runs, so that none is empty:

* `CalendarDates`: the dates that texts name are days of the calendar. The code only checks
  the form; with a month 99 two pairs of days can share a key of 32 bits.
* `ShortLifetimes`: no `timelimit` is above the clock, where `now - timelimit` wraps
  and stops every deal.
* `NamedDays`: `all_combinations` by day comes with days of departure and of return;
  otherwise `pre_search()` decides by a duration that was never set.
* `ShortSpans` (for `NoDayCutOff` only): around a `departure_or_return_date` the days from
  `departure_date_from` to `return_date_to` fit into 16 bits, which is 179 years.
* `ProperRequests` (for `DispatchedRequestsAreWhole`): see the parser above. Nothing is said of a
  request that is never complete, and nothing of where requests are cut.

| module | theorem | property |
|---|---|---|
| `SemaphoreProofs` | `SemaphoreTypes`, `SemaphoreMutualExclusion`, `SemaphoreBalance` | `TypeOK`, `MutualExclusion`, `PostsBalance` |
| `CalendarProofs` | `DaysAreCounted`, `WeekdaysFollow`, `CodesFollow` | `DaysAfterCountsDays`, `WeekdayFollows`, `CodesFollowDays` (an action property) |
| `DatesProofs` | `LaterIsLater` | of two dates, the one with the larger code is later |
| `TableProofs` | `TableTypes`, `TableLock`, `TableClaims`, `TableRows`, `TableKeepsRecords`, `TableOrder` | `TypeOK`, `LockMatchesSteps`, `ClaimsDisjoint`, `RowOutlivesItsRecords`, `NoRecordLostEarly`, `UsedRowsFirst` |
| `DealsDbProofs` | `DealsTypes`, `DataOutliveTheirIndex`, `SearchesAreComplete`, `CopiesReachTheirElement` | `TypeOK`, `SameSecondDealsKeepData`, `SearchIsComplete`, `OnlyLateCopiesOverwrite` |
| `DealsQueryProofs` | `QueryTypes`, `AnswersAreNewest`, `SizesAreExact`, `EveryGroupAnswered`, `NoDayCutOff` | `TypeOK`, `NoNewerIsBetter`, `SizeInfoCountsItself`, `OneAnswerPerGroup`, `EveryDayAnswered` |
| `TopDstProofs` | `TopTypes`, `TopImplementsPromise` | `TypeOK`, `AnswersAreRecent` (a refinement) |
| `TcpServerProofs` | `ServerTypes`, `NoAnswerIsCutOff`, `DispatchedRequestsAreWhole`, `CutAnywhere` | `TypeOK`, `ResponsesAreSent`, `DispatchedAsSent`; what `write()` makes of pieces |

* `SemaphoreProofs`. Mutual exclusion is not inductive alone; with the balance of posts
  and the types it is: a free semaphore means that nobody owes a post. In the middle of a reset
  one more fact is needed, `ResetAlone`: an undisturbed reset is the only one, nobody is inside, and before it
  posts the semaphore is at 0.
* `CalendarProofs`. The invariant is that today's `rdn()` is the first day's plus
  `passed`; the heart is `LeapDay`, that the quotients by 4, 100 and 400 grow together by
  one exactly in a leap year. Weekdays need the same lemma and the table of month shifts.
* `DatesProofs`: `rdn()` grows by one from a day to the next, so that from a date to one with a
  larger code it grows (`LaterIsLater`); and the codes of days that are at most ten apart
  differ by less than 14 bits hold, over the end of a year too (`NearDates`).
* `TableProofs`: from `TypeInv == TypeOK /\ StepsOK /\ LockMatchesSteps`. `StepsOK` says
  what each step relies on: at `rel_unlink` the row is in the index and its page mapped by this
  process, at `add_claim` the row has room, and so on. It survives the steps of
  *others* because of two facts: nobody else changes my mappings
  (`OwnMappings`), and what the lock protects is changed only by the process
  inside it (`LockedActions`, `OthersUntouched`).
* In the second half of `TableProofs`: claims, rows and records from
  `DataInv == TypeInv /\ RowsInv /\ \A p : OwnTime /\ MayClear`. `MayClear(p)` is the
  heart: between the choice of a row (`add_scan`, `rel_scan`) and its clearing the
  row's `expire_at` is past or below the horizon, neither the clock nor the
  horizon goes back, and nobody else changes the row. Because a row outlives its
  records, every record it drops is over too.

  `TableOrder` has a hypothesis, `CleanupFinishes`: either nobody calls `cleanup()`, or no
  page fails to open. It is needed: a `cleanup()` that throws half way leaves cleared
  rows in front of used ones (`tpp` 133), and a scan then stops too early. Without
  `cleanup()` every fault and every level of memory is covered. `OrderInv` follows the
  three walks over the rows while the lock is held: a sweep clears from the end, a claim takes a used row or
  the first unused one, `cleanup()` clears from the start.
* `DealsDbProofs`: from `DealsInv`, six parts that need each other. `StepsInv` has the types and
  what each step relies on (a deal is added by one process only). `RowsInv` says that the row of
  a deal that was not truncated has only used rows before it, which is what `cleanup()` breaks when
  it stops half way, and ties a row of the index to the deals in it (`IndexOK`). `SafeInv` is the heart: each record of
  a deal is in its element, in a row that lives as long as it does, or it was over by the highest
  horizon so far, also while the process that writes them is between the two tables. `PlacesInv`
  gives a deal at most one element of each table while it is added, so that a copy which finds the
  element its own hits no other. `CopiesInv` then carries the bytes: an element
  that belongs to a deal whose copy was made holds that deal, unless it is spoilt. `SearchInv`
  says that what a search has not found yet is in a row that it will still read or has read in an
  unlinked page.

  `DataOutliveTheirIndex` is `SafeInv` and `CopiesInv` for the data, `CopiesReachTheirElement` is
  `SafeInv` for a process before its copy, `SearchesAreComplete` needs `SearchInv`.
* `DealsQueryProofs`: from `QueryInv == TypesInv /\ SearchInv`. `GroupsOK` describes the groups after `pos`
  elements: every history holds elements of its key that pass the filters, and, in a table
  in the order of time, the last deal of a history is not beaten by any element met so far.
  So `findCheapestAndLast()` takes the last one (`LastIsTaken`). `WantedPasses` is the bridge
  from parameters to filters: a deal that the request wants passes, if any deal does
  (a `timelimit` above the clock wraps and stops them all). `SizesAreExact` adds that `SizeInfo` is
  right at every length (`SizeInfoIsExact`).

  `EveryGroupAnswered` follows from the same invariant in three steps. `PassesWanted` is the
  converse of `WantedPasses`: a deal that passes is wanted. `GroupOfKey` says that two deals
  that are wanted and share a key are of one group. With `all_combinations`, `getDateToGroup()` shifts
  one date by 18 bits and lays the other over it, so that only the last 14 bits of each have a
  place that tells them (`FoldedDates`); but `checkInputParams()` keeps both intervals within ten
  days, and the codes of such days differ in these bits (`NearDates`). `TakenFromHistory` says that
  `findCheapestAndLast()` answers a member of the history. So histories, groups and answers
  correspond one to one (`GroupsAnswered`), and the limit cuts from the end.

  `NoDayCutOff` counts: departure days, return days or pairs of them inject into intervals of
  day numbers (`OnePerDay`, `OnePerPair`, `ClosedDays`), whose lengths are the durations that
  `pre_search()` makes its limit of. `GroupsWithinLimit` has one case per kind of search.
* `TopDstProofs`: from `TopInv`. `ScanOK` says that what a scan has read so far was there to be
  found since it began, cell by cell; `Listed` the same of a list that is about to be saved, and `EntryOK` of
  an entry of the cache for as long as the entry may be used. The history knows what was true since then
  (`Kept`: what was found is a second older when one has passed). Every step of `TopDst` is
  a step of `TopAnswers` or leaves its variables alone.
* `TcpServerProofs`: from `ServerInv == TypeOK /\ Shapes /\ Waiting`. `Waiting` says that a client
  that is owed a response has a connection with output, and that a connection with output has
  `POLLOUT` among its events, so that the round which serves it also writes. Nothing is
  assumed of the parser.

  `DispatchedRequestsAreWhole` adds `DeliveryInv`: as long as a client has its socket open, the
  parser of its connection is in the state that the pieces read so far would have put
  it in at once (`After`), and `on_data()` has dispatched it only if these were all. The heart is
  `CutAnywhere`: `write()` of some bytes and then of more is
  `write()` of them all, unless the first part was already complete or bad. It holds because
  `write()` searches for the empty line in everything received so far and reads the
  headers at most once. `NothingBehind` adds that a proper request is not complete before
  its last byte.

Recursive functions. The library's induction theorems take an operator, which the provers do
not instantiate; but `WFMin` does not, and the least element of a set of numbers is enough
for an induction by least counterexample (`LeastNumber`). `SizesLengthIsNat` uses it twice: that the
recursive function exists, and what its values are.

Only model-checked:

* liveness under fairness, which TLAPS does not prove: `OperationsEnd`, `EnterReturns`,
  `ConnectionsEnd`, `QuitEnds`;
* the hypotheses above for the requests of the runs; what the parser computes of a given request
  (`CutAnywhere` compares two parsers, and an induction over their loops is not needed);
* the violations.

Every invariant and action property of a passing run, and the refinement, is stated by a theorem.

## 5. Plan

Done: lock, pages, table; the database; dates, parameters, queries; top destinations and
their promise; parser and server; the theorems above.

Open: an abstract table that `Table` is shown to implement and that `DealsDb` takes its
tables from; the two describe the same code at different grains, and that they agree
is argued above, not checked.

### Not modelled

* Start-up of the server and of the shared memory from the command line: it runs once
  before anything is shared with it.
* `statsd` and the timing statistics: output only. The clock is the variable `now`.
* The text of answers and of log lines, and how letters are packed into codes.
* The test client and its parser of responses, the tests and the programs in `spike/`,
  which are not part of the server.
* The composition of handlers with connections: a handler runs to its end inside of
  one `Serve` step, so its interleaving with other processes is in `DealsDb` and
  `TopDst`, and the connection sees only its answer.

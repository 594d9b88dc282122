------------------------------ MODULE TopDst ------------------------------
(***************************************************************************)
(* top::TopDstDatabase: the destinations that were added for a locale,     *)
(* counted in the table TopDst that all server processes share, and the    *)
(* cache of answers that every process keeps for itself (cache::Cache).    *)
(* GET /destinations/top and the option add_locale_top of /deals/top call  *)
(* getLocaleTop().                                                         *)
(*                                                                         *)
(* The module is one process; the others are its environment, which adds,  *)
(* sweeps, reuses and clears while the process scans.  The scan collects   *)
(* its rows under the lock and then reads, outside it, how many elements a *)
(* row has and the bytes of each: a cell (a row and an index) at a time.   *)
(***************************************************************************)
EXTENDS SearchQuery, SequencesExt

CONSTANTS Cells,       \* the places for elements in the rows of the table
          DstInfos,    \* elements that are added: [locale, destination, departure_date]
          None,        \* the bytes of a cell that no locale counts
          Requests,    \* requests to /destinations/top
          CacheTime,   \* 60 seconds in saveResultToCache(); the documentation has 24 hours
          ScanTime,    \* the longest time from the start of a scan to the saving of its result
          MaxTime,     \* bound on the clock
          MaxFacts     \* bound on what is true of the cells in MaxAge seconds

ASSUME TimesAssumption ==
    /\ CacheTime \in Nat /\ ScanTime \in Nat
    /\ MaxTime \in Nat /\ MaxFacts \in Nat

ASSUME CellsAssumption == IsFiniteSet(Cells) /\ Cells # {}

VARIABLES now,     \* timing::getTimestampSec()
          cells,   \* the bytes this process would read in each cell
          shown,   \* cells that the index counts
          cache,   \* result_cache_by_locale
          call,    \* the getLocaleTop() that the process is in
          answer,  \* its last answer, status 0 when it has none yet
          recent   \* history of the cells, for the property

vars == <<now, cells, shown, cache, call, answer, recent>>

MaxAge == CacheTime + ScanTime
Values == DstInfos \cup {None}

NoRequest == [locale |-> <<>>]
Call(step, r, list, at) ==
    [step |-> step, request |-> r, list |-> list, at |-> at,
     listed |-> {}, pending |-> {}, counted |-> {}, read |-> [c \in Cells |-> None]]
Idle == Call("idle", NoRequest, <<>>, 0)
Refused(status) == [status |-> status, request |-> NoRequest, list |-> <<>>]

(* What is true of the cells: what their bytes are, whether they count.    *)
Facts ==
    {<<c, "bytes", v>> : c \in Cells, v \in Values} \cup (Cells \X {"shown", "hidden"})

Now(bytes, live) ==
    {<<c, "bytes", bytes[c]>> : c \in Cells}
        \cup {<<c, IF c \in live THEN "shown" ELSE "hidden">> : c \in Cells}

(* The table may hold elements already: it outlives the processes.         *)
Init ==
    /\ now = 0
    /\ cells \in [Cells -> Values]
    /\ shown \in SUBSET Cells
    /\ cache = <<>>
    /\ call = Idle
    /\ answer = Refused(0)
    /\ recent = [a \in 0..MaxAge |-> IF a = 0 THEN Now(cells, shown) ELSE {}]

CellsBecome(bytes, live) ==
    /\ Cardinality(Now(bytes, live) \cup UNION {recent[a] : a \in 0..MaxAge}) <= MaxFacts
    /\ cells' = bytes /\ shown' = live
    /\ recent' = [recent EXCEPT ![0] = @ \cup Now(bytes, live)]
    /\ UNCHANGED <<now, cache, call, answer>>

(* addDestination(), called by POST /deals/add: the index counts the cell  *)
(* first, with the bytes it happens to hold ...                            *)
addDestination(c) == c \notin shown /\ CellsBecome(cells, shown \cup {c})

(* ... and the element is copied later, by a slow process even into a cell *)
(* of a row that was given to others.  The bytes change as well when this  *)
(* process drops its mapping and opens the object that the name has now.   *)
Copy(c, v) == cells[c] # v /\ CellsBecome([cells EXCEPT ![c] = v], shown)

(* Cells stop being counted, a row at a time: it expires, is swept or is   *)
(* reused, or truncate() clears it (GET /destinations/clear), which clears *)
(* the cache of no process.                                                *)
Hide(row) == row \subseteq shown /\ row # {} /\ CellsBecome(cells, shown \ row)

(* Time passes, but not more than ScanTime between the start of a scan and *)
(* the saving of its result.                                               *)
Tick ==
    /\ now < MaxTime
    /\ call.step \in {"scan", "save"} => now - call.at < ScanTime
    /\ now' = now + 1
    /\ recent' = [a \in 0..MaxAge |-> IF a = 0 THEN Now(cells, shown) ELSE recent[a - 1]]
    /\ UNCHANGED <<cells, shown, cache, call, answer>>

-----------------------------------------------------------------------------
(* Parameters of a request, as getDestiantionsTop() reads them.            *)
TopParams(r) ==
    [locale |-> Required(CountryCode(r.locale)),
     departure_date_from |-> Date(r.departure_date_from),
     departure_date_to |-> Date(r.departure_date_to),
     destinations_limit |-> Number(r.destinations_limit)]

TopError(p) ==
    FirstError(<<p.locale, p.departure_date_from, p.departure_date_to, p.destinations_limit>>)

HasDates(r) ==
    isDefined(TopParams(r).departure_date_from) \/ isDefined(TopParams(r).departure_date_to)

LocaleOf(r) == Get(TopParams(r).locale)

Reply(r, list) ==
    /\ answer' = [status |-> IF list = <<>> THEN 204 ELSE 200, request |-> r, list |-> list]
    /\ call' = Idle

(* A slip in cache.hpp: the entry lives a second longer.                   *)
is_expiredLate(entry) == entry.live_until < now - 1

(* Cache::is_expired()                                                     *)
is_expired(entry) == entry.live_until < now

(* getCachedResult(): the empty list is a miss.                            *)
getCachedResult(r) ==
    LET locale == LocaleOf(r)
        limit == TopParams(r).destinations_limit.value
    IN  IF \/ HasDates(r)
           \/ locale \notin DOMAIN cache
           \/ is_expired(cache[locale])
           \/ \E n \in limit : Len(cache[locale].value) < n
        THEN <<>>
        ELSE LET list == cache[locale].value
             IN  SubSeq(list, 1, IF limit = {} THEN Len(list) ELSE Get([value |-> limit]))

(* ... and it erases an expired entry when it meets one.                   *)
Erased(r) ==
    LET dead == {l \in DOMAIN cache : l = LocaleOf(r) /\ is_expired(cache[l])}
    IN  IF HasDates(r) THEN cache ELSE [l \in DOMAIN cache \ dead |-> cache[l]]

BadRequest(r) ==
    /\ call.step = "idle"
    /\ TopError(TopParams(r)) # Nothing
    /\ answer' = Refused(ErrorStatus(TopError(TopParams(r))))
    /\ UNCHANGED <<now, cells, shown, cache, call, recent>>

CacheHit(r) ==
    /\ call.step = "idle"
    /\ TopError(TopParams(r)) = Nothing
    /\ getCachedResult(r) # <<>>
    /\ Reply(r, getCachedResult(r))
    /\ UNCHANGED <<now, cells, shown, cache, recent>>

(* The setters of TopDstSearchQuery, which may throw.                      *)
QueryThrows(r) ==
    LET p == TopParams(r)
    IN  \/ interval_throws(p.departure_date_from, p.departure_date_to)
        \/ result_limit_throws(p.destinations_limit)

CacheMiss(r) ==
    /\ call.step = "idle"
    /\ TopError(TopParams(r)) = Nothing
    /\ getCachedResult(r) = <<>>
    /\ cache' = Erased(r)
    /\ \/ /\ QueryThrows(r)
          /\ answer' = Refused(400)
          /\ UNCHANGED call
       \/ /\ ~QueryThrows(r)
          /\ call' = Call("query", r, <<>>, 0)
          /\ answer' = Refused(0)
    /\ UNCHANGED <<now, cells, shown, recent>>

-----------------------------------------------------------------------------
(* The query                                                               *)

(* TopDstSearchQuery::process_element()                                    *)
Counts(r, e) ==
    /\ e.locale = LocaleOf(r)
    /\ \A i \in interval(TopParams(r).departure_date_from, TopParams(r).departure_date_to) :
          e.departure_date >= i.from /\ e.departure_date <= i.to

Matching(r) == {e \in DstInfos : Counts(r, e)}

(* grouped_destinations, when a scan read t[c] in every cell c             *)
Counter(t, es, dst) == Cardinality({c \in Cells : t[c] \in es /\ t[c].destination = dst})

Counted(t, es) ==
    {[destination |-> dst, counter |-> Counter(t, es, dst)]
       : dst \in {t[c].destination : c \in {b \in Cells : t[b] \in es}}}

Cut(list, n) == SubSeq(list, 1, IF n < Len(list) THEN n ELSE Len(list))

(* exec(): sorted by counter, in any order among equals, and cut.          *)
Sorted(t, es) ==
    {l \in SetToSeqs(Counted(t, es)) :
        \A i, j \in DOMAIN l : i < j => l[i].counter >= l[j].counter}

Top(t, r, n) == {Cut(l, n) : l \in Sorted(t, Matching(r))}

(* processRecords() collects the rows to scan, in the critical section.    *)
BeginScan ==
    /\ call.step = "query"
    /\ call' = [Call("scan", call.request, <<>>, now)
                   EXCEPT !.listed = shown, !.pending = Cells]
    /\ UNCHANGED <<now, cells, shown, cache, answer, recent>>

(* The size of a row is read outside it: a cell is counted when the index  *)
(* counts it and its row is scanned.  (A cell that was not counted at the  *)
(* start is in a row that is scanned or not.)                              *)
ReadSize(c) ==
    /\ call.step = "scan" /\ c \in call.pending
    /\ \/ /\ c \in shown
          /\ call' = [call EXCEPT !.pending = @ \ {c}, !.counted = @ \cup {c}]
       \/ /\ c \notin shown \/ c \notin call.listed
          /\ call' = [call EXCEPT !.pending = @ \ {c}]
    /\ UNCHANGED <<now, cells, shown, cache, answer, recent>>

(* process_element() gets what the cell holds by then.                     *)
ReadCell(c) ==
    /\ call.step = "scan" /\ c \in call.counted
    /\ call' = [call EXCEPT !.counted = @ \ {c}, !.read[c] = cells[c]]
    /\ UNCHANGED <<now, cells, shown, cache, answer, recent>>

(* exec() returns when every row is read.                                  *)
exec ==
    /\ call.step = "scan" /\ call.pending = {} /\ call.counted = {}
    /\ \E list \in Top(call.read, call.request,
                       result_limit(TopParams(call.request).destinations_limit)) :
          call' = Call("save", call.request, list, call.at)
    /\ UNCHANGED <<now, cells, shown, cache, answer, recent>>

(* processRecords() throws: no lock, no memory, or a row that lost its     *)
(* name since it was collected.                                            *)
execThrows ==
    /\ call.step \in {"query", "scan"}
    /\ call' = Idle
    /\ answer' = Refused(500)
    /\ UNCHANGED <<now, cells, shown, cache, recent>>

(* A slip in the constructor of Cache: the lifetime is counted twice.      *)
SavedTwice ==
    LET r == call.request
    IN  IF call.list = <<>> \/ HasDates(r) THEN cache
        ELSE [l \in DOMAIN cache \cup {LocaleOf(r)} |->
                 IF l = LocaleOf(r)
                 THEN [value |-> call.list, live_until |-> now + 2 * CacheTime + 1]
                 ELSE cache[l]]

(* saveResultToCache()                                                     *)
Saved ==
    LET r == call.request
    IN  IF call.list = <<>> \/ HasDates(r) THEN cache
        ELSE [l \in DOMAIN cache \cup {LocaleOf(r)} |->
                 IF l = LocaleOf(r)
                 THEN [value |-> call.list, live_until |-> now + CacheTime]
                 ELSE cache[l]]

saveResultToCache ==
    /\ call.step = "save"
    /\ cache' = Saved
    /\ Reply(call.request, call.list)
    /\ UNCHANGED <<now, cells, shown, recent>>

(* The process ends and another one takes its place, with an empty cache.  *)
Restart ==
    /\ cache' = <<>>
    /\ call' = Idle
    /\ answer' = Refused(0)
    /\ UNCHANGED <<now, cells, shown, recent>>

Next ==
    \/ Tick
    \/ \E c \in Cells : addDestination(c) \/ \E v \in Values : Copy(c, v)
    \/ \E row \in SUBSET Cells : Hide(row)
    \/ \E r \in Requests : BadRequest(r) \/ CacheHit(r) \/ CacheMiss(r)
    \/ BeginScan \/ \E c \in Cells : ReadSize(c) \/ ReadCell(c)
    \/ exec \/ execThrows \/ saveResultToCache \/ Restart

Spec == Init /\ [][Next]_vars

-----------------------------------------------------------------------------
(* Properties                                                              *)

TypeOK ==
    /\ now \in 0..MaxTime
    /\ cells \in [Cells -> Values]
    /\ shown \subseteq Cells
    /\ call.step \in {"idle", "query", "scan", "save"}
    /\ call.pending \cap call.counted = {}
    /\ \A l \in DOMAIN cache :
          /\ cache[l].live_until \in 0..(now + CacheTime)
          /\ cache[l].value # <<>>

(* A scan among these facts finds v in cell c: a destination when the cell *)
(* counted and had those bytes.                                            *)
Finds(c, v, facts) ==
    \/ v = None /\ <<c, "hidden">> \in facts
    \/ <<c, "shown">> \in facts /\ <<c, "bytes", v>> \in facts

Contents(facts) == {t \in [Cells -> Values] : \A c \in Cells : Finds(c, t[c], facts)}

(* The lists that may answer r: as long as its limit and the table allow,  *)
(* or of any length when it has none (a result cut for one request is      *)
(* saved for all).                                                         *)
Answers(facts, r) ==
    LET limit == TopParams(r).destinations_limit.value
        lengths == IF limit = {} THEN 1..Cardinality(Cells) ELSE limit
    IN  UNION {Top(t, r, n) : t \in Contents(facts), n \in lengths}

Promise == INSTANCE TopAnswers
    WITH Refusals <- {Refused(s) : s \in {0, 400, 500}},
         Tops <- Answers,
         found <- Now(cells, shown)

(***************************************************************************)
(* Every answer is the top of a table that was there to be found, cell by  *)
(* cell, in the last CacheTime plus ScanTime seconds: for the request's    *)
(* own locale and dates and as long as its limit asks for, whatever        *)
(* requests filled the cache and whatever the other processes added, swept *)
(* and cleared during the scan and since.  It need not be the table of any *)
(* one moment; but no cell counts that the index did not count in that     *)
(* time, nor is one left out that it counted all the time.                 *)
(***************************************************************************)
AnswersAreRecent == Promise!Spec
=============================================================================

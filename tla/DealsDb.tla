------------------------------ MODULE DealsDb ------------------------------
(***************************************************************************)
(* deals::DealsDatabase (deals_database.cpp): a deal is a record of the     *)
(* table db_index that says when it was added and where in the table        *)
(* db_data its bytes are.  The tables have a lock each and share only       *)
(* global_expire_at; nothing ties the two halves of addDeal() together.     *)
(*                                                                          *)
(* A table is here what Table.tla shows of it: what addRecord() does under  *)
(* the lock is one step (two when it raises the horizon, which the other    *)
(* table's lock does not protect), and so are a sweep and cleanup(), each   *)
(* as far as it gets.  Of the pages there is what decides which bytes a     *)
(* process meets: elements is what the pages with a name hold, and a stale  *)
(* mapping is one of a page that has lost its name.                         *)
(***************************************************************************)
EXTENDS Integers, FiniteSets

CONSTANTS
    Procs,               \* the server processes
    Deals,               \* the deals that may be added
    PageCount,           \* rows of a table
    PageSize,            \* elements of a page; a deal takes one in each table
    DEALS_EXPIRES,       \* lifetime of a record of either table (86400)
    REMOVE_AT_ONCE,      \* MEMPAGE_REMOVE_EXPIRED_PAGES_AT_ONCE (5)
    REMOVE_DELAY_SEC,    \* MEMPAGE_REMOVE_EXPIRED_PAGES_DELAY_SEC (60)
    MemoryLevels,        \* subset of {"fine", "low"}
    Operations,          \* subset of {"add", "search", "truncate"} in use
    StartTime, MaxTime,  \* bounds on the clock
    MaxOps,              \* bound on the searches, truncations and failures
    MaxWork,             \* bound on all of these and twice the deals
    NoDeal, NoProc

ASSUME DealsAssumption ==
    /\ PageCount \in Nat \ {0} /\ PageSize \in Nat \ {0}
    /\ DEALS_EXPIRES \in Nat \ {0}
    /\ REMOVE_AT_ONCE \in Nat \ {0} /\ REMOVE_DELAY_SEC \in Nat
    /\ MemoryLevels \subseteq {"fine", "low"}
    /\ Operations \subseteq {"add", "search", "truncate"}
    /\ StartTime \in Nat /\ StartTime >= DEALS_EXPIRES    \* no min_timestamp < 0
    /\ MaxTime \in Nat /\ MaxOps \in Nat /\ MaxWork \in Nat
    /\ NoDeal \notin Deals /\ NoProc \notin Procs

VARIABLES
    expire_at,          \* expire_at[t][r] of row r of table t (0: unused)
    taken,              \* taken[t][r]: elements handed out
    named,              \* named[t]: the rows with a page_name
    elements,           \* elements[t][r][i]: the deal in the page named so now
    opened_pages_list,  \* opened_pages_list[t][p]: rows whose pages p mapped
    stale,              \* stale[t][p]: those of them whose page was unlinked
    holder,             \* holder[t]: who is inside the lock of table t
    info,               \* info[d]: the DealInfo of deal d
    global_expire_at,
    now,
    pc, loc,            \* the next step and the local variables of a process
    ops,                \* the searches, truncations and failures so far
    owner,              \* history: owner[t][r][i], whose claim the element is
    highest,            \* history: the highest global_expire_at so far
    begun,              \* history: the deals addDeal() was called for
    done,               \* history: the deals whose addDeal() has returned
    truncated,          \* history: the deals begun before cleanup() cleared a row
    spoilt              \* history: the deals copied into an unlinked page, or
                        \* overwritten in an element that is theirs

indexVars   == <<expire_at, taken, named, owner>>
pageVars    == <<elements, opened_pages_list, stale>>
tableVars   == <<indexVars, pageVars>>
historyVars == <<highest, begun, done, truncated, spoilt>>
vars == <<tableVars, holder, info, global_expire_at, now, pc, loc, ops, historyVars>>

Tables == {"data", "index"}
Rows   == 0..(PageCount - 1)
Idx    == 0..(PageSize - 1)
Empty  == [i \in Idx |-> NoDeal]

(* timestamp, page_name and index of a DealInfo; data_time is the clock     *)
(* that db_data.addRecord() read (history).                                 *)
DealInfo == [timestamp : Nat, row : Rows, index : Idx, data_time : Nat]
NoInfo   == [timestamp |-> 0, row |-> 0, index |-> 0, data_time |-> 0]

Locals == [table : Tables,              \* the table at hand
           deal : Deals \union {NoDeal},
           time : Nat,                  \* current_time of the table's operation
           row : Rows, index : 0..PageSize,
           min_timestamp : Nat,
           rows : SUBSET Rows,          \* records_to_scan
           found : SUBSET Deals,        \* the result of the query so far
           misread : SUBSET Rows,       \* history: read from an unlinked page
           before : SUBSET Deals]       \* history: done when the search began

NoLocals == [table |-> "data", deal |-> NoDeal, time |-> 0, row |-> 0,
             index |-> 0, min_timestamp |-> 0, rows |-> {}, found |-> {},
             misread |-> {}, before |-> {}]

Pcs == {"idle", "add_begin", "add_wait", "add_raise", "add_copy", "stamp",
        "scan_begin", "scan_wait", "scan_read", "fill", "clean"}

TypeOK ==
    /\ expire_at \in [Tables -> [Rows -> Nat]]
    /\ taken \in [Tables -> [Rows -> 0..PageSize]]
    /\ elements \in [Tables -> [Rows -> [Idx -> Deals \union {NoDeal}]]]
    /\ owner \in [Tables -> [Rows -> [Idx -> Deals \union {NoDeal}]]]
    /\ named \in [Tables -> SUBSET Rows]
    /\ opened_pages_list \in [Tables -> [Procs -> SUBSET Rows]]
    /\ stale \in [Tables -> [Procs -> SUBSET Rows]]
    /\ holder \in [Tables -> Procs \union {NoProc}]
    /\ info \in [Deals -> DealInfo]
    /\ global_expire_at \in Nat /\ highest \in Nat /\ now \in Nat /\ ops \in Nat
    /\ pc \in [Procs -> Pcs]
    /\ loc \in [Procs -> Locals]
    /\ begun \subseteq Deals /\ done \subseteq Deals /\ truncated \subseteq Deals
    /\ spoilt \subseteq Deals

Init ==
    /\ expire_at = [t \in Tables |-> [r \in Rows |-> 0]]
    /\ taken = [t \in Tables |-> [r \in Rows |-> 0]]
    /\ elements = [t \in Tables |-> [r \in Rows |-> Empty]]
    /\ owner = elements
    /\ named = [t \in Tables |-> {}]
    /\ opened_pages_list = [t \in Tables |-> [p \in Procs |-> {}]]
    /\ stale = opened_pages_list
    /\ holder = [t \in Tables |-> NoProc]
    /\ info = [d \in Deals |-> NoInfo]
    /\ global_expire_at = 0 /\ highest = 0 /\ now = StartTime /\ ops = 0
    /\ pc = [p \in Procs |-> "idle"]
    /\ loc = [p \in Procs |-> NoLocals]
    /\ begun = {} /\ done = {} /\ truncated = {} /\ spoilt = {}

(* The bounds of a run. *)
Bounded(deals, n) == n <= MaxOps /\ 2 * Cardinality(deals) + n <= MaxWork

Larger(a, b) == IF a > b THEN a ELSE b
Goto(p, label) == pc' = [pc EXCEPT ![p] = label]
SetLocals(p, r) == loc' = [loc EXCEPT ![p] = r]
EndOp(p) == Goto(p, "idle") /\ SetLocals(p, NoLocals)

-----------------------------------------------------------------------------
(* The tables                                                               *)

(* Rows of table t, from the first one on, up to the first unused one. *)
UsedRows(t) == {r \in Rows : \A s \in Rows : s <= r => expire_at[t][s] > 0}

(* clear_index_record_full() of some rows, whose pages lose their names: a  *)
(* page that is opened under such a name later is a new one.                *)
ClearRows(t, R) ==
    /\ expire_at' = [expire_at EXCEPT ![t] = [r \in Rows |-> IF r \in R THEN 0 ELSE @[r]]]
    /\ taken' = [taken EXCEPT ![t] = [r \in Rows |-> IF r \in R THEN 0 ELSE @[r]]]
    /\ named' = [named EXCEPT ![t] = @ \ R]
    /\ elements' = [elements EXCEPT ![t] = [r \in Rows |-> IF r \in R THEN Empty ELSE @[r]]]
    /\ owner' = [owner EXCEPT ![t] = [r \in Rows |-> IF r \in R THEN Empty ELSE @[r]]]

(* getPageByName() of the pages of rows R. *)
OpenPages(p, t, R) ==
    /\ opened_pages_list' = [opened_pages_list EXCEPT ![t][p] = @ \union R]
    /\ UNCHANGED stale

(* p opens the pages of rows R and unlinks them; whoever else mapped them   *)
(* keeps what it has.  Then p closes its mappings of rows C.                *)
UnlinkPages(p, t, R, C) ==
    /\ opened_pages_list' = [opened_pages_list EXCEPT ![t][p] = (@ \union R) \ C]
    /\ stale' = [stale EXCEPT ![t] =
         [q \in Procs |-> IF q = p THEN (@[p] \union R) \ C
                          ELSE @[q] \union (R \intersect opened_pages_list[t][q])]]

(* A slip: a row is over one second early. *)
HoldsDataShort(t, r) ==
    /\ expire_at[t][r] + REMOVE_DELAY_SEC > now + 1
    /\ expire_at[t][r] + REMOVE_DELAY_SEC > global_expire_at + 1

HoldsData(t, r) ==
    /\ expire_at[t][r] + REMOVE_DELAY_SEC > now
    /\ expire_at[t][r] + REMOVE_DELAY_SEC > global_expire_at

(* The used rows above row 0 and above the last one that holds data, the    *)
(* last REMOVE_AT_ONCE of them.                                             *)
SweptRows(t) ==
    {r \in UsedRows(t) \ {0} :
       /\ \A s \in UsedRows(t) : s >= r => ~HoldsData(t, s)
       /\ r + REMOVE_AT_ONCE \notin UsedRows(t)}

(* release_expired_memory_pages(), with which addRecord() and               *)
(* processRecords() begin; whether it goes on, and sweeps, depends on two   *)
(* timers.  In the end p closes the pages it finds marked as unlinked: not  *)
(* every stale one is, for whoever unlinked it marked what it had mapped.   *)
ReleaseExpired(p, t) ==
    \/ UNCHANGED tableVars
    \/ /\ holder[t] = NoProc
       /\ \E R \in {{}, SweptRows(t)}, marked \in SUBSET stale[t][p] :
            ClearRows(t, R) /\ UnlinkPages(p, t, R, R \union marked)

(* A page of the sweep cannot be opened. *)
SweepFails(p) ==
    LET t == loc[p].table
    IN /\ pc[p] \in {"add_begin", "scan_begin"}
       /\ holder[t] = NoProc
       /\ Bounded(begun, ops + 1)
       /\ ops' = ops + 1
       /\ \E k \in SweptRows(t) :
            LET R == {r \in SweptRows(t) : r > k}
            IN ClearRows(t, R) /\ UnlinkPages(p, t, R, {})
       /\ EndOp(p)
       /\ UNCHANGED <<holder, info, global_expire_at, now, historyVars>>

(* A slip: a page is full one element too late. *)
StopsLate(p, t, r) ==
    \/ expire_at[t][r] = 0
    \/ expire_at[t][r] < loc[p].time
    \/ taken[t][r] <= PageSize

Stops(p, t, r) ==
    \/ expire_at[t][r] = 0
    \/ expire_at[t][r] < loc[p].time
    \/ taken[t][r] < PageSize

FirstStop(p, t, r) == Stops(p, t, r) /\ \A s \in Rows : s < r => ~Stops(p, t, s)

IsOldest(t, m, u) ==
    IF u = 0 THEN m = 0
    ELSE /\ m < u
         /\ \A s \in Rows : s < u => expire_at[t][m] <= expire_at[t][s]
         /\ \A s \in Rows : s < m => expire_at[t][m] < expire_at[t][s]

(* Low on memory, row r is to be reused in place of the unused row u. *)
Oldest(p, t, r) ==
    /\ "low" \in MemoryLevels
    /\ \E u \in Rows : FirstStop(p, t, u) /\ expire_at[t][u] = 0 /\ IsOldest(t, r, u)

(* The row is used as it is (CURRENT), is over (EXPIRED), or unused (NEW). *)
Usable(p, t, r) ==
    /\ FirstStop(p, t, r)
    /\ expire_at[t][r] = 0 => "fine" \in MemoryLevels

(* The row keeps what it has only if it is CURRENT. *)
Claim(p, t, r, current) ==
    LET i == IF current THEN taken[t][r] ELSE 0
    IN /\ taken' = [taken EXCEPT ![t][r] = i + 1]
       /\ expire_at' = [expire_at EXCEPT ![t][r] =
            Larger(IF current THEN @ ELSE 0, loc[p].time + DEALS_EXPIRES)]
       /\ owner' = [owner EXCEPT ![t][r] =
            [(IF current THEN @ ELSE Empty) EXCEPT ![i] = loc[p].deal]]
       /\ SetLocals(p, [loc[p] EXCEPT !.row = r, !.index = i])
       /\ Goto(p, "add_copy")
       /\ UNCHANGED <<pageVars, info, now, ops, begun, done, truncated, spoilt>>

AddBegins(p) ==
    /\ pc[p] = "add_begin"
    /\ ReleaseExpired(p, loc[p].table)
    /\ SetLocals(p, [loc[p] EXCEPT !.time = now])
    /\ Goto(p, "add_wait")
    /\ UNCHANGED <<holder, info, global_expire_at, now, ops, historyVars>>

(* addRecord() under the lock, in one step unless the horizon must rise.    *)
(* Only a NEW row gets a name.                                              *)
ClaimElement(p) ==
    LET t == loc[p].table
    IN /\ pc[p] = "add_wait"
       /\ holder[t] = NoProc
       /\ \E r \in Rows :
            \/ /\ Usable(p, t, r)
               /\ Claim(p, t, r, expire_at[t][r] > 0 /\ expire_at[t][r] >= loc[p].time)
               /\ named' = [named EXCEPT ![t] = IF expire_at[t][r] = 0 THEN @ \union {r} ELSE @]
            \/ /\ Oldest(p, t, r)
               /\ expire_at[t][r] <= global_expire_at
               /\ Claim(p, t, r, FALSE)
               /\ UNCHANGED named
       /\ UNCHANGED <<holder, global_expire_at, highest>>

(* update_global_expire() tests and then sets, inside the lock of this      *)
(* table only.                                                              *)
TestHorizon(p) ==
    LET t == loc[p].table
    IN /\ pc[p] = "add_wait"
       /\ holder[t] = NoProc
       /\ \E r \in Rows : /\ Oldest(p, t, r)
                          /\ expire_at[t][r] > global_expire_at
                          /\ SetLocals(p, [loc[p] EXCEPT !.row = r])
       /\ holder' = [holder EXCEPT ![t] = p]
       /\ Goto(p, "add_raise")
       /\ UNCHANGED <<tableVars, info, global_expire_at, now, ops, historyVars>>

(* A slip: the row is reused but the horizon stays. *)
ReuseSilently(p) ==
    LET t == loc[p].table
    IN /\ pc[p] = "add_raise"
       /\ Claim(p, t, loc[p].row, FALSE)
       /\ holder' = [holder EXCEPT ![t] = NoProc]
       /\ UNCHANGED <<named, global_expire_at, highest>>

SetHorizon(p) ==
    LET t == loc[p].table
    IN /\ pc[p] = "add_raise"
       /\ global_expire_at' = expire_at[t][loc[p].row]
       /\ highest' = Larger(highest, global_expire_at')
       /\ Claim(p, t, loc[p].row, FALSE)
       /\ holder' = [holder EXCEPT ![t] = NoProc]
       /\ UNCHANGED named

NoSpaceToInsert(p) ==
    /\ pc[p] = "add_wait"
    /\ holder[loc[p].table] = NoProc
    /\ \A r \in Rows : ~Stops(p, loc[p].table, r)
    /\ EndOp(p)
    /\ UNCHANGED <<tableVars, holder, info, global_expire_at, now, ops, historyVars>>

(* memcpy(), outside the lock, to where p has mapped the page of the row,   *)
(* or finds it under its name.  By then the element may be another's.       *)
Copy(p, t, r, i, d) ==
    \/ /\ r \in stale[t][p]
       /\ spoilt' = spoilt \union {d}
       /\ UNCHANGED pageVars
    \/ /\ r \notin stale[t][p]
       /\ OpenPages(p, t, {r})
       /\ elements' = [elements EXCEPT ![t][r][i] = d]
       /\ spoilt' = spoilt \union ({owner[t][r][i]} \ {d, NoDeal})

CopyRecord(p) ==
    LET t == loc[p].table
    IN /\ pc[p] = "add_copy"
       /\ Copy(p, t, loc[p].row, loc[p].index, loc[p].deal)
       /\ \/ /\ t = "data"
             /\ Goto(p, "stamp")
             /\ UNCHANGED <<loc, done>>
          \/ /\ t = "index"
             /\ EndOp(p)
             /\ done' = done \union {loc[p].deal}
       /\ UNCHANGED <<indexVars, holder, info, global_expire_at, now, ops,
                      highest, begun, truncated>>

-----------------------------------------------------------------------------
(* addDeal(), searchFor(), truncate()                                       *)

(* db_data.addRecord() is the first thing that addDeal() does. *)
addDeal(p) ==
    /\ pc[p] = "idle" /\ "add" \in Operations
    /\ \E d \in Deals \ begun :
         /\ Bounded(begun \union {d}, ops)
         /\ begun' = begun \union {d}
         /\ SetLocals(p, [NoLocals EXCEPT !.table = "data", !.deal = d])
    /\ Goto(p, "add_begin")
    /\ UNCHANGED <<tableVars, holder, info, global_expire_at, now, ops,
                   highest, done, truncated, spoilt>>

(* The clock is read again for info.timestamp. *)
FillInfo(p) ==
    /\ pc[p] = "stamp"
    /\ info' = [info EXCEPT ![loc[p].deal] =
         [timestamp |-> now, row |-> loc[p].row, index |-> loc[p].index,
          data_time |-> loc[p].time]]
    /\ SetLocals(p, [loc[p] EXCEPT !.table = "index"])
    /\ Goto(p, "add_begin")
    /\ UNCHANGED <<tableVars, holder, global_expire_at, now, ops, historyVars>>

(* DealsSearchQuery::execute() *)
MinTimestamp == Larger(global_expire_at, now) - DEALS_EXPIRES

searchFor(p) ==
    /\ pc[p] = "idle" /\ "search" \in Operations
    /\ Bounded(begun, ops + 1)
    /\ ops' = ops + 1
    /\ SetLocals(p, [NoLocals EXCEPT !.table = "index",
                       !.min_timestamp = MinTimestamp, !.before = done])
    /\ Goto(p, "scan_begin")
    /\ UNCHANGED <<tableVars, holder, info, global_expire_at, now, historyVars>>

ScanBegins(p) ==
    /\ pc[p] = "scan_begin"
    /\ ReleaseExpired(p, "index")
    /\ SetLocals(p, [loc[p] EXCEPT !.time = now])
    /\ Goto(p, "scan_wait")
    /\ UNCHANGED <<holder, info, global_expire_at, now, ops, historyVars>>

(* A slip: rows at the horizon's own distance are passed over. *)
VisibleShort(p) ==
    {r \in UsedRows("index") : /\ expire_at["index"][r] > loc[p].time + 1
                               /\ expire_at["index"][r] > global_expire_at}

Visible(p) ==
    {r \in UsedRows("index") : /\ expire_at["index"][r] > loc[p].time
                               /\ expire_at["index"][r] > global_expire_at}

Visit(p, rows, found, misread) ==
    /\ SetLocals(p, [loc[p] EXCEPT !.rows = rows, !.found = found, !.misread = misread])
    /\ Goto(p, IF rows = {} THEN "fill" ELSE "scan_read")

CollectRows(p) ==
    /\ pc[p] = "scan_wait"
    /\ holder["index"] = NoProc
    /\ Visit(p, Visible(p), {}, {})
    /\ UNCHANGED <<tableVars, holder, info, global_expire_at, now, ops, historyVars>>

(* process_element(): the deals of row r that pass the first filter.  The   *)
(* other filters are those of a query that matches every deal.              *)
process_element(p, r) ==
    {d \in Deals : /\ \E i \in Idx : i < taken["index"][r] /\ elements["index"][r][i] = d
                   /\ info[d].timestamp > loc[p].min_timestamp}

(* What p finds in a page that has lost its name is left out: it only adds  *)
(* to what the query has found.                                             *)
ReadPage(p) ==
    /\ pc[p] = "scan_read"
    /\ \E r \in loc[p].rows \intersect named["index"] :
         /\ \A s \in loc[p].rows : r <= s
         /\ \/ /\ r \in stale["index"][p]
               /\ Visit(p, loc[p].rows \ {r}, loc[p].found, loc[p].misread \union {r})
               /\ UNCHANGED pageVars
            \/ /\ r \notin stale["index"][p]
               /\ Visit(p, loc[p].rows \ {r}, loc[p].found \union process_element(p, r),
                           loc[p].misread)
               /\ OpenPages(p, "index", {r})
               /\ UNCHANGED elements
    /\ UNCHANGED <<indexVars, holder, info, global_expire_at, now, ops, historyVars>>

(* EMPTY_PAGE_NAME: the row to read, or the first row to clean, has no name. *)
NamelessRow(p) ==
    /\ \/ /\ pc[p] = "scan_read"
          /\ \E r \in loc[p].rows \ named["index"] : \A s \in loc[p].rows : r <= s
       \/ /\ pc[p] = "clean"
          /\ holder[loc[p].table] = NoProc
          /\ 0 \in UsedRows(loc[p].table) \ named[loc[p].table]
    /\ EndOp(p)
    /\ UNCHANGED <<tableVars, holder, info, global_expire_at, now, ops, historyVars>>

(* The bytes where the DealInfo of d points to, unless p has a stale        *)
(* mapping of that page.                                                    *)
get_element_data(d) == elements["data"][info[d].row][info[d].index]

(* Reads get_element_data(d) of every deal found; the search returns. *)
fill_deals_with_data(p) ==
    /\ pc[p] = "fill"
    /\ OpenPages(p, "data", {info[d].row : d \in loc[p].found})
    /\ EndOp(p)
    /\ UNCHANGED <<indexVars, elements, holder, info, global_expire_at, now, ops, historyVars>>

truncate(p) ==
    /\ pc[p] = "idle" /\ "truncate" \in Operations
    /\ Bounded(begun, ops + 1)
    /\ ops' = ops + 1
    /\ SetLocals(p, [NoLocals EXCEPT !.table = "data"])
    /\ Goto(p, "clean")
    /\ UNCHANGED <<tableVars, holder, info, global_expire_at, now, historyVars>>

(* cleanup() of db_data and then of db_index. *)
CleanTable(p) ==
    LET t == loc[p].table
    IN /\ pc[p] = "clean"
       /\ holder[t] = NoProc
       /\ UsedRows(t) \subseteq named[t]
       /\ ClearRows(t, UsedRows(t))
       /\ UnlinkPages(p, t, UsedRows(t), Rows)
       /\ truncated' = begun
       /\ \/ t = "data" /\ SetLocals(p, [loc[p] EXCEPT !.table = "index"]) /\ UNCHANGED pc
          \/ t = "index" /\ EndOp(p)
       /\ UNCHANGED <<holder, info, global_expire_at, now, ops, highest, begun, done, spoilt>>

(* A page cannot be opened: the rows before it have been cleared, it and    *)
(* those after it stay, and no page is closed.                              *)
CleanFails(p) ==
    LET t == loc[p].table
    IN /\ pc[p] = "clean"
       /\ holder[t] = NoProc
       /\ Bounded(begun, ops + 1)
       /\ ops' = ops + 1
       /\ \E k \in UsedRows(t) \ {0} :
            LET R == {r \in Rows : r < k}
            IN R \subseteq named[t] /\ ClearRows(t, R) /\ UnlinkPages(p, t, R, {})
       /\ truncated' = begun
       /\ EndOp(p)
       /\ UNCHANGED <<holder, info, global_expire_at, now, highest, begun, done, spoilt>>

(* CANT_LOCK, or the first page that is needed cannot be opened. *)
Throws(p) ==
    /\ pc[p] \notin {"idle", "add_raise", "stamp"}
    /\ Bounded(begun, ops + 1)
    /\ ops' = ops + 1
    /\ EndOp(p)
    /\ UNCHANGED <<tableVars, holder, info, global_expire_at, now, historyVars>>

(* The clock stops at MaxTime. *)
Tick ==
    /\ now' = IF now < MaxTime THEN now + 1 ELSE now
    /\ UNCHANGED <<tableVars, holder, info, global_expire_at, pc, loc, ops, historyVars>>

Next ==
    \/ \E p \in Procs :
         \/ addDeal(p) \/ FillInfo(p) \/ searchFor(p) \/ truncate(p)
         \/ AddBegins(p) \/ ClaimElement(p) \/ TestHorizon(p) \/ SetHorizon(p)
         \/ NoSpaceToInsert(p) \/ CopyRecord(p)
         \/ ScanBegins(p) \/ CollectRows(p) \/ ReadPage(p) \/ fill_deals_with_data(p)
         \/ CleanTable(p) \/ SweepFails(p) \/ CleanFails(p) \/ NamelessRow(p) \/ Throws(p)
    \/ Tick

Spec == Init /\ [][Next]_vars

-----------------------------------------------------------------------------
(* Properties                                                               *)

(* The bytes that get_element_data() reads are those of d. *)
KeepsData(d) == get_element_data(d) = d

(* A deal whose two records were made in the same second keeps its data as  *)
(* long as neither the time nor any horizon set so far hides it: the order  *)
(* of addDeal(), the rules of both tables and the filter of process_element *)
(* agree.  Data are taken away earlier only by truncate(), or spoilt by a   *)
(* copy into a page that was unlinked or into an element that was given to  *)
(* another (OnlyLateCopiesOverwrite).                                       *)
SameSecondDealsKeepData ==
    \A d \in Deals \ (truncated \union spoilt) :
      /\ info[d].timestamp = info[d].data_time
      /\ info[d].timestamp + DEALS_EXPIRES > Larger(now, highest)
      => KeepsData(d)

(* The memcpy() of addRecord(), which nothing protects, goes to an element  *)
(* that still belongs to its deal, unless it comes so late that the deal    *)
(* itself is over, or after a truncate().                                   *)
OnlyLateCopiesOverwrite ==
    \A p \in Procs :
      /\ pc[p] = "add_copy" /\ loc[p].deal \notin truncated
      /\ loc[p].time + DEALS_EXPIRES > Larger(now, highest)
      => owner[loc[p].table][loc[p].row][loc[p].index] = loc[p].deal

(* A search finds every deal whose addDeal() had returned when it began and *)
(* that has stayed visible, except in a page that the process has mapped    *)
(* since before it was unlinked: the collection of rows under the lock and  *)
(* their reading after it lose nothing to a sweep or to a reuse of rows by  *)
(* others (processRecords).                                                 *)
SearchIsComplete ==
    \A p \in Procs : pc[p] = "fill" =>
      \A d \in loc[p].before \ (truncated \union spoilt) :
        info[d].timestamp + DEALS_EXPIRES > Larger(now, highest)
        => \/ d \in loc[p].found
           \/ \E r \in loc[p].misread, i \in Idx : owner["index"][r][i] = d

(* "check if not expired by now or data page was reused on lowMem"          *)
(* (deals_query.cpp): a deal that a search would meet and pass at this      *)
(* moment has a data page that was not reused.                              *)
PassedDealsKeepData ==
    \A d \in done \ (truncated \union spoilt) :
      /\ \E r \in UsedRows("index"), i \in Idx :
           /\ expire_at["index"][r] > Larger(now, global_expire_at)
           /\ i < taken["index"][r] /\ elements["index"][r][i] = d
      /\ info[d].timestamp > MinTimestamp
      => KeepsData(d)
=============================================================================

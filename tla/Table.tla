------------------------------- MODULE Table -------------------------------
(***************************************************************************)
(* shared_mem::Table (shared_memory.tpp): one table of records, kept in     *)
(* shared memory pages by several single-threaded processes.                *)
(*                                                                          *)
(* The index page has a row per slot: expire_at (0: unused), the number of  *)
(* free elements of the slot's page, and the page's name.  The table's lock *)
(* protects the index only.  Pages are opened, read and written outside it, *)
(* so an operation is a sequence of steps; pc[p] names the next one:        *)
(*   rel_*     release_expired_memory_pages(), run first by the next two    *)
(*   add_*     addRecord()                                                  *)
(*   scan_*    processRecords()                                             *)
(*   clean_*   cleanup()                                                    *)
(***************************************************************************)
EXTENDS SharedMemoryPage

CONSTANTS
    record_expire_seconds,   \* default lifetime of a record
    Lifetimes,               \* values of lifetime_seconds (0: the default)
    Counts,                  \* values of records_count
    REMOVE_AT_ONCE,          \* MEMPAGE_REMOVE_EXPIRED_PAGES_AT_ONCE (5)
    REMOVE_DELAY_SEC,        \* MEMPAGE_REMOVE_EXPIRED_PAGES_DELAY_SEC (60)
    CHECK_INTERVAL_SEC,      \* MEMPAGE_CHECK_EXPIRED_PAGES_INTERVAL_SEC (5)
    Operations,              \* subset of {"add", "scan", "clean"} in use
    StartTime,               \* first reading of the clock
    MaxTime,                 \* bound on the clock
    MaxOps,                  \* bound on the operations begun
    MaxDeaths                \* bound on the deaths of processes

ASSUME TableAssumption ==
    /\ record_expire_seconds \in Nat \ {0}
    /\ Lifetimes \subseteq Nat
    /\ Counts \subseteq Nat
    /\ REMOVE_AT_ONCE \in Nat \ {0}
    /\ REMOVE_DELAY_SEC \in Nat /\ CHECK_INTERVAL_SEC \in Nat
    /\ REMOVE_DELAY_SEC > CHECK_INTERVAL_SEC      \* the static_assert
    /\ Operations \subseteq {"add", "scan", "clean"}
    /\ StartTime \in Nat \ {0} /\ MaxTime \in Nat
    /\ MaxOps \in Nat /\ MaxDeaths \in Nat

VARIABLES
    expire_at, available, named,   \* the index; named: slots with a page_name
    claims,             \* history: claims[s], made since row s was cleared
    stored,             \* history: those of them whose addRecord() returned
    expiration_check,   \* Page_information of the index page
    global_expire_at,   \* DBContext
    now, time_to_check, \* the clock; time_to_check_page_expire of a process
    ops, deaths,        \* what MaxOps and MaxDeaths bound
    pc, loc             \* where a process is, and its local variables

indexVars   == <<expire_at, available, named, claims, stored>>
contextVars == <<expiration_check, global_expire_at>>
clockVars   == <<now, time_to_check, ops, deaths>>
vars == <<csVars, pageVars, indexVars, contextVars, clockVars, pc, loc>>

LockedPcs == {"rel_scan", "rel_open", "rel_unlink", "rel_exit",
              "add_scan", "add_claim", "add_exit", "scan_collect",
              "clean_next", "clean_open", "clean_unlink", "clean_exit"}
WaitPcs   == {"rel_wait", "add_wait", "scan_wait", "clean_wait"}
OpenPcs   == {"rel_open", "add_open", "scan_open", "clean_open"}
ExitPcs   == {"rel_exit", "add_exit", "clean_exit"}
Pcs == LockedPcs \union WaitPcs \union OpenPcs \union
       {"idle", "prepare", "rel_purge", "add_copy", "scan_read", "clean_free", "dead"}

PageTypes == {"UNKNOWN", "EXPIRED", "OLDEST", "NEW", "CURRENT"}

Claim == [from : Nat, to : Nat, expires : Nat, by : Procs]

Locals == [op : {"none", "add", "scan", "clean"},
           count : Nat,                       \* records_count
           time : Nat,                        \* current_time, timestamp_now
           idx : 0..table_max_pages,          \* the row at hand
           type : PageTypes,                  \* current_record_type
           from : 0..max_elements_in_page,    \* insert_element_idx
           stop : Slots,                      \* last row to release
           rows : SUBSET Slots]               \* records_to_scan

NoLocals == [op |-> "none", count |-> 0, time |-> 0, idx |-> 0,
             type |-> "UNKNOWN", from |-> 0, stop |-> 0, rows |-> {}]

TypeOK ==
    /\ CSTypeOK
    /\ PagesTypeOK
    /\ expire_at \in [Slots -> Nat]
    /\ available \in [Slots -> 0..max_elements_in_page]
    /\ named \subseteq Slots
    /\ claims \in [Slots -> SUBSET Claim]
    /\ stored \in [Slots -> SUBSET Claim]
    /\ expiration_check \in Nat /\ global_expire_at \in Nat
    /\ now \in Nat
    /\ time_to_check \in [Procs -> Nat]
    /\ ops \in Nat /\ deaths \in Nat
    /\ pc \in [Procs -> Pcs]
    /\ loc \in [Procs -> Locals]

(* The first process has just created the zero-filled index page. *)
Init ==
    /\ CSInit
    /\ PagesInit
    /\ expire_at = [s \in Slots |-> 0]
    /\ available = [s \in Slots |-> 0]
    /\ named = {}
    /\ claims = [s \in Slots |-> {}]
    /\ stored = [s \in Slots |-> {}]
    /\ expiration_check = 0 /\ global_expire_at = 0
    /\ now = StartTime
    /\ time_to_check = [p \in Procs |-> 0]
    /\ ops = 0 /\ deaths = 0
    /\ pc = [p \in Procs |-> "idle"]
    /\ loc = [p \in Procs |-> NoLocals]

-----------------------------------------------------------------------------
(* Control                                                                  *)

Larger(a, b) == IF a > b THEN a ELSE b

Goto(p, label) == pc' = [pc EXCEPT ![p] = label]
SetLocals(p, r) == loc' = [loc EXCEPT ![p] = r]

(* The operation returns, or its exception reaches the server. *)
EndOp(p) == Goto(p, "idle") /\ SetLocals(p, NoLocals)

(* A slip: an exception path without an AutoCloser. *)
ThrowKeepsLock(p) == EndOp(p) /\ UNCHANGED csVars

(* An exception: the AutoCloser on the stack, if any, leaves the lock. *)
Throw(p) == EndOp(p) /\ Exit(p) /\ UNCHANGED waited

AfterEnter(label) ==
    CASE label = "rel_wait"   -> "rel_scan"
      [] label = "add_wait"   -> "add_scan"
      [] label = "scan_wait"  -> "scan_collect"
      [] label = "clean_wait" -> "clean_next"

AfterOpen(label) ==
    CASE label = "rel_open"   -> "rel_unlink"
      [] label = "add_open"   -> "add_copy"
      [] label = "scan_open"  -> "scan_read"
      [] label = "clean_open" -> "clean_unlink"

AfterExit(label) ==
    CASE label = "rel_exit"   -> "rel_purge"
      [] label = "add_exit"   -> "add_open"
      [] label = "clean_exit" -> "clean_free"

Enter(p) ==
    /\ pc[p] \in WaitPcs
    /\ Acquire(p)
    /\ Goto(p, AfterEnter(pc[p]))
    /\ UNCHANGED <<loc, pageVars, indexVars, contextVars, clockVars>>

EnterThrows(p) ==
    /\ pc[p] \in WaitPcs
    /\ CantLock(p)
    /\ EndOp(p)
    /\ UNCHANGED <<pageVars, indexVars, contextVars, clockVars>>

ExitSection(p) ==
    /\ pc[p] \in ExitPcs
    /\ Exit(p)
    /\ Goto(p, AfterExit(pc[p]))
    /\ UNCHANGED <<loc, waited, pageVars, indexVars, contextVars, clockVars>>

(* addRecord() builds the page's name itself; the other operations take it  *)
(* from the row, where it may be missing (EMPTY_PAGE_NAME).                 *)
HasName(p) == pc[p] = "add_open" \/ loc[p].idx \in named

getPageByName(p) ==
    /\ pc[p] \in OpenPcs
    /\ HasName(p)
    /\ PageReady(p, loc[p].idx)
    /\ Goto(p, AfterOpen(pc[p]))
    /\ UNCHANGED <<loc, csVars, indexVars, contextVars, clockVars>>

getPageByNameThrows(p) ==
    /\ pc[p] \in OpenPcs
    /\ \/ HasName(p) /\ PageFails(p, loc[p].idx)
       \/ ~HasName(p) /\ UNCHANGED pageVars
    /\ Throw(p)
    /\ UNCHANGED <<indexVars, contextVars, clockVars>>

-----------------------------------------------------------------------------
(* Beginning an operation                                                   *)

Begin(p, o, n) ==
    /\ pc[p] = "idle"
    /\ o \in Operations
    /\ ops < MaxOps
    /\ ops' = ops + 1
    /\ UNCHANGED <<sem, unlock_needed, now, deaths, pageVars, indexVars, contextVars>>

(* release_expired_memory_pages() comes first, but returns at once while    *)
(* the process's own timer runs.                                            *)
BeginWithTimer(p, o, n) ==
    /\ Begin(p, o, n)
    /\ \/ /\ time_to_check[p] > now
          /\ SetLocals(p, [loc[p] EXCEPT !.op = o, !.count = n])
          /\ Goto(p, "prepare")
          /\ UNCHANGED <<waited, time_to_check>>
       \/ /\ time_to_check[p] <= now
          /\ time_to_check' = [time_to_check EXCEPT ![p] = now + CHECK_INTERVAL_SEC]
          /\ SetLocals(p, [loc[p] EXCEPT !.op = o, !.count = n, !.time = now])
          /\ StartWaiting(p)
          /\ Goto(p, "rel_wait")

addRecord(p) == \E n \in Counts : BeginWithTimer(p, "add", n)

processRecords(p) == BeginWithTimer(p, "scan", 0)

cleanup(p) ==
    /\ Begin(p, "clean", 0)
    /\ SetLocals(p, [loc[p] EXCEPT !.op = "clean"])
    /\ StartWaiting(p)
    /\ Goto(p, "clean_wait")
    /\ UNCHANGED time_to_check

RecordTooBig(p) == loc[p].op = "add" /\ loc[p].count > max_elements_in_page

(* checkRecord() throws RECORD_SIZE_TO_BIG. *)
checkRecord(p) ==
    /\ pc[p] = "prepare" /\ RecordTooBig(p)
    /\ EndOp(p)
    /\ UNCHANGED <<csVars, pageVars, indexVars, contextVars, clockVars>>

(* The clock is read here, before the wait for the lock. *)
ReadClock(p) ==
    /\ pc[p] = "prepare" /\ ~RecordTooBig(p)
    /\ SetLocals(p, [loc[p] EXCEPT !.time = now])
    /\ StartWaiting(p)
    /\ Goto(p, IF loc[p].op = "add" THEN "add_wait" ELSE "scan_wait")
    /\ UNCHANGED <<sem, unlock_needed, pageVars, indexVars, contextVars, clockVars>>

-----------------------------------------------------------------------------
(* release_expired_memory_pages()                                           *)

(* Every scan of the index ends at the first row with expire_at = 0. *)
IsUsedEnd(u) ==
    /\ \A s \in Slots : s < u => expire_at[s] > 0
    /\ u \in Slots => expire_at[u] = 0

(* The row is in use, or was until REMOVE_DELAY_SEC ago. *)
HoldsData(p, s) ==
    /\ expire_at[s] > 0
    /\ expire_at[s] + REMOVE_DELAY_SEC > loc[p].time
    /\ expire_at[s] + REMOVE_DELAY_SEC > global_expire_at

(* last_data_idx of the rows before u. *)
IsLastData(p, l, u) ==
    /\ l = 0 \/ (l < u /\ HoldsData(p, l))
    /\ \A s \in Slots : l < s /\ s < u => ~HoldsData(p, s)

(* Another process did the maintenance less than CHECK_INTERVAL_SEC ago. *)
NotMyTurn(p) ==
    /\ pc[p] = "rel_scan"
    /\ expiration_check > loc[p].time
    /\ Goto(p, "rel_exit")
    /\ UNCHANGED <<loc, csVars, pageVars, indexVars, contextVars, clockVars>>

(* The sweep goes down from the last used row and stops above the last row  *)
(* that holds data, after REMOVE_AT_ONCE rows, and always above row 0.      *)
SweepBegins(p) ==
    /\ pc[p] = "rel_scan"
    /\ expiration_check <= loc[p].time
    /\ expiration_check' = time_to_check[p]
    /\ \E u \in 0..table_max_pages, l \in Slots :
         /\ IsUsedEnd(u)
         /\ IsLastData(p, l, u)
         /\ IF l < u - 1
            THEN /\ SetLocals(p, [loc[p] EXCEPT
                        !.idx = u - 1, !.stop = Larger(l + 1, u - REMOVE_AT_ONCE)])
                 /\ Goto(p, "rel_open")
            ELSE Goto(p, "rel_exit") /\ UNCHANGED loc
    /\ UNCHANGED <<global_expire_at, csVars, pageVars, indexVars, clockVars>>

(* clear_index_record_full() *)
ClearFull(s) ==
    /\ expire_at' = [expire_at EXCEPT ![s] = 0]
    /\ available' = [available EXCEPT ![s] = max_elements_in_page]
    /\ named' = named \ {s}
    /\ claims' = [claims EXCEPT ![s] = {}]
    /\ stored' = [stored EXCEPT ![s] = {}]

SweepPage(p) ==
    /\ pc[p] = "rel_unlink"
    /\ MarkAndUnlink(p, loc[p].idx)
    /\ ClearFull(loc[p].idx)
    /\ IF loc[p].stop < loc[p].idx
       THEN SetLocals(p, [loc[p] EXCEPT !.idx = @ - 1]) /\ Goto(p, "rel_open")
       ELSE Goto(p, "rel_exit") /\ UNCHANGED loc
    /\ UNCHANGED <<csVars, contextVars, clockVars>>

(* After the lock is left. *)
PurgeUnlinked(p) ==
    /\ pc[p] = "rel_purge"
    /\ DropMarked(p)
    /\ Goto(p, "prepare")
    /\ SetLocals(p, [loc[p] EXCEPT !.idx = 0, !.stop = 0])
    /\ UNCHANGED <<csVars, indexVars, contextVars, clockVars>>

-----------------------------------------------------------------------------
(* addRecord()                                                              *)

(* A slip: an off-by-one in the test for room. *)
StopsShort(p, s) ==
    \/ expire_at[s] = 0
    \/ expire_at[s] < loc[p].time
    \/ available[s] + 1 >= loc[p].count

(* The scan stops at the first row that is expired, has room, or is unused. *)
Stops(p, s) ==
    \/ expire_at[s] = 0
    \/ expire_at[s] < loc[p].time
    \/ available[s] >= loc[p].count

(* A slip: the scan does not stop at the first such row. *)
AnyStop(p, s) == Stops(p, s)

FirstStop(p, s) == Stops(p, s) /\ \A t \in Slots : t < s => ~Stops(p, t)

(* expire_min_idx: the first of the rows before u that expire soonest, and  *)
(* row 0 when there is none.                                                *)
IsOldest(m, u) ==
    IF u = 0 THEN m = 0
    ELSE /\ m < u
         /\ \A s \in Slots : s < u => expire_at[m] <= expire_at[s]
         /\ \A s \in Slots : s < m => expire_at[m] < expire_at[s]

Chosen(p, type, s) ==
    /\ SetLocals(p, [loc[p] EXCEPT !.type = type, !.idx = s])
    /\ Goto(p, "add_claim")

ChooseUsed(p) ==
    /\ pc[p] = "add_scan"
    /\ \E s \in Slots :
         /\ FirstStop(p, s)
         /\ expire_at[s] > 0
         /\ Chosen(p, IF expire_at[s] < loc[p].time THEN "EXPIRED" ELSE "CURRENT", s)
    /\ UNCHANGED <<csVars, pageVars, indexVars, contextVars, clockVars>>

ChooseNew(p) ==
    /\ pc[p] = "add_scan"
    /\ isMemNotLow
    /\ \E s \in Slots : FirstStop(p, s) /\ expire_at[s] = 0 /\ Chosen(p, "NEW", s)
    /\ UNCHANGED <<csVars, pageVars, indexVars, contextVars, clockVars>>

(* A slip: the row is reused but the horizon is not raised. *)
ChooseOldestSilently(p) ==
    /\ pc[p] = "add_scan"
    /\ isMemLow
    /\ \E u, s \in Slots :
         FirstStop(p, u) /\ expire_at[u] = 0 /\ IsOldest(s, u) /\ Chosen(p, "OLDEST", s)
    /\ UNCHANGED <<csVars, pageVars, indexVars, contextVars, clockVars>>

(* Low on memory: reuse the row that expires soonest, expired or not, and   *)
(* hide everything that expires no later (update_global_expire).            *)
ChooseOldest(p) ==
    /\ pc[p] = "add_scan"
    /\ isMemLow
    /\ \E u, s \in Slots :
         /\ FirstStop(p, u) /\ expire_at[u] = 0
         /\ IsOldest(s, u)
         /\ global_expire_at' = Larger(global_expire_at, expire_at[s])
         /\ Chosen(p, "OLDEST", s)
    /\ UNCHANGED <<expiration_check, csVars, pageVars, indexVars, clockVars>>

NoSpaceToInsert(p) ==
    /\ pc[p] = "add_scan"
    /\ \A s \in Slots : ~Stops(p, s)
    /\ Throw(p)
    /\ UNCHANGED <<pageVars, indexVars, contextVars, clockVars>>

(* A slip: the last record decides when the page expires. *)
LatestExpire(old, expires) == expires

(* update_record_expire() *)
UpdatedExpire(old, expires) == IF expires > old THEN expires ELSE old

(* A slip: one element is taken, however long the record is. *)
FreeAfterOne(free, n) == free - 1

FreeAfter(free, n) == free - n

(* What clear_index_record() leaves: it is called unless the row is CURRENT. *)
Clears(p) == loc[p].type # "CURRENT"
FreeIn(p) == IF Clears(p) THEN max_elements_in_page ELSE available[loc[p].idx]

(* insert_element_idx *)
InsertAt(p) == max_elements_in_page - FreeIn(p)

ExpireTime(p, lifetime) ==
    loc[p].time + (IF lifetime # 0 THEN lifetime ELSE record_expire_seconds)

ClaimOf(p, expires) == [from |-> InsertAt(p), to |-> InsertAt(p) + loc[p].count,
                        expires |-> expires, by |-> p]

(* Clear the row, take the cells, raise expire_at.  Only NEW writes the     *)
(* name of the page.                                                        *)
ClaimCells(p) ==
    LET s == loc[p].idx
    IN /\ pc[p] = "add_claim"
       /\ available' = [available EXCEPT ![s] = FreeAfter(FreeIn(p), loc[p].count)]
       /\ named' = IF loc[p].type = "NEW" THEN named \union {s} ELSE named
       /\ \E lifetime \in Lifetimes :
            /\ expire_at' = [expire_at EXCEPT ![s] =
                 UpdatedExpire(IF Clears(p) THEN 0 ELSE @, ExpireTime(p, lifetime))]
            /\ claims' = [claims EXCEPT ![s] =
                 (IF Clears(p) THEN {} ELSE @) \union {ClaimOf(p, ExpireTime(p, lifetime))}]
       /\ stored' = [stored EXCEPT ![s] = IF Clears(p) THEN {} ELSE @]
       /\ SetLocals(p, [loc[p] EXCEPT !.from = InsertAt(p)])
       /\ Goto(p, "add_exit")
       /\ UNCHANGED <<csVars, pageVars, contextVars, clockVars>>

(* memcpy(), outside the lock; addRecord() returns its ElementExtractor. *)
CopyRecord(p) ==
    LET s == loc[p].idx
    IN /\ pc[p] = "add_copy"
       /\ WriteElements(p, s, loc[p].from, loc[p].count)
       /\ stored' = [stored EXCEPT ![s] =
                       @ \union {c \in claims[s] : c.by = p /\ c.from = loc[p].from}]
       /\ EndOp(p)
       /\ UNCHANGED <<expire_at, available, named, claims, csVars, contextVars, clockVars>>

-----------------------------------------------------------------------------
(* processRecords()                                                         *)

(* The rows it will visit.  It keeps pointers to them and reads their name  *)
(* and their number of free elements after it has left the lock.            *)
Visible(p) ==
    {s \in Slots : /\ \A t \in Slots : t <= s => expire_at[t] > 0
                   /\ expire_at[s] > loc[p].time
                   /\ expire_at[s] > global_expire_at}

(* Go on with the first of some rows, or return. *)
Visit(p, rows) ==
    \/ rows = {} /\ EndOp(p)
    \/ \E s \in rows : /\ \A t \in rows : s <= t
                       /\ SetLocals(p, [loc[p] EXCEPT !.rows = rows, !.idx = s])
                       /\ Goto(p, "scan_open")

CollectRows(p) ==
    /\ pc[p] = "scan_collect"
    /\ Visit(p, Visible(p))
    /\ Exit(p)
    /\ UNCHANGED <<waited, pageVars, indexVars, contextVars, clockVars>>

(* The cells that the row counts as taken at this moment. *)
TakenCells(s) == 0..(max_elements_in_page - available[s] - 1)

(* process_element() on each of TakenCells(loc[p].idx). *)
ReadPage(p) ==
    /\ pc[p] = "scan_read"
    /\ Visit(p, loc[p].rows \ {loc[p].idx})
    /\ UNCHANGED <<csVars, pageVars, indexVars, contextVars, clockVars>>

-----------------------------------------------------------------------------
(* cleanup()                                                                *)

CleanNext(p) ==
    /\ pc[p] = "clean_next"
    /\ \/ loc[p].idx \in Slots /\ expire_at[loc[p].idx] > 0 /\ Goto(p, "clean_open")
       \/ loc[p].idx \in Slots /\ expire_at[loc[p].idx] = 0 /\ Goto(p, "clean_exit")
       \/ loc[p].idx = table_max_pages /\ Goto(p, "clean_exit")
    /\ UNCHANGED <<loc, csVars, pageVars, indexVars, contextVars, clockVars>>

CleanPage(p) ==
    /\ pc[p] = "clean_unlink"
    /\ MarkAndUnlink(p, loc[p].idx)
    /\ ClearFull(loc[p].idx)
    /\ SetLocals(p, [loc[p] EXCEPT !.idx = @ + 1])
    /\ Goto(p, "clean_next")
    /\ UNCHANGED <<csVars, contextVars, clockVars>>

release_open_pages(p) ==
    /\ pc[p] = "clean_free"
    /\ DropAll(p)
    /\ EndOp(p)
    /\ UNCHANGED <<csVars, indexVars, contextVars, clockVars>>

-----------------------------------------------------------------------------
(* The environment                                                          *)

(* The process ends, at any point: killed, std::exit() in signalHandler, or *)
(* an orderly end while idle.  Its mappings go; what it owes is not posted. *)
Killed(p) ==
    /\ pc[p] # "dead"
    /\ deaths < MaxDeaths
    /\ deaths' = deaths + 1
    /\ Die(p)
    /\ DropAll(p)
    /\ Goto(p, "dead")
    /\ SetLocals(p, NoLocals)
    /\ UNCHANGED <<now, time_to_check, ops, indexVars, contextVars>>

(* A new process: the constructor of the index page takes and leaves the    *)
(* semaphore of that name, which is the table's lock; while it is taken the *)
(* process does not come up.  The zero timer is that of a new Table.        *)
Started(p) ==
    /\ pc[p] = "dead"
    /\ sem > 0
    /\ EndOp(p)
    /\ time_to_check' = [time_to_check EXCEPT ![p] = 0]
    /\ UNCHANGED <<now, ops, deaths, csVars, pageVars, indexVars, contextVars>>

(* The clock stops at MaxTime; the waits for the lock still run out. *)
Tick ==
    /\ now' = IF now < MaxTime THEN now + 1 ELSE now
    /\ WaitOneSecond
    /\ UNCHANGED <<sem, unlock_needed, time_to_check, ops, deaths, pageVars,
                   indexVars, contextVars, pc, loc>>

Step(p) ==
    \/ checkRecord(p) \/ ReadClock(p)
    \/ Enter(p) \/ EnterThrows(p) \/ ExitSection(p)
    \/ getPageByName(p) \/ getPageByNameThrows(p)
    \/ NotMyTurn(p) \/ SweepBegins(p) \/ SweepPage(p) \/ PurgeUnlinked(p)
    \/ ChooseUsed(p) \/ ChooseNew(p) \/ ChooseOldest(p) \/ NoSpaceToInsert(p)
    \/ ClaimCells(p) \/ CopyRecord(p)
    \/ CollectRows(p) \/ ReadPage(p)
    \/ CleanNext(p) \/ CleanPage(p) \/ release_open_pages(p)

Next ==
    \/ \E p \in Procs :
         \/ addRecord(p) \/ processRecords(p) \/ cleanup(p)
         \/ Step(p)
         \/ Killed(p) \/ Started(p)
    \/ Tick

(* A process in the middle of an operation goes on, and time passes; nobody *)
(* has to begin an operation, to die or to be started again.                *)
Spec ==
    /\ Init
    /\ [][Next]_vars
    /\ WF_vars(Tick)
    /\ \A p \in Procs : WF_vars(Step(p))

-----------------------------------------------------------------------------
(* Properties                                                               *)

(* The lock is held exactly by the process whose step is inside it: it is   *)
(* taken before every access to the index that it protects and left on      *)
(* every path, exceptions included; only a death inside takes it away.      *)
LockMatchesSteps ==
    /\ unlock_needed = {p \in Procs : pc[p] \in LockedPcs}
    /\ OneInside
    /\ sem + deaths > 0 \/ unlock_needed # {}
    /\ sem > 0 => sem = 1 /\ unlock_needed = {}

(* Two records of one table never share a cell, and none lies outside the   *)
(* cells its row counts as taken: addRecord() hands out every cell at most  *)
(* once between two clearings of a row, whatever the other processes do     *)
(* (the index lock around lines 179-236 of shared_memory.tpp).              *)
ClaimsDisjoint ==
    \A s \in Slots : \A c \in claims[s] :
      /\ c.to <= max_elements_in_page - available[s]
      /\ \A d \in claims[s] : c = d \/ c.to <= d.from \/ d.to <= c.from

(* A row lives at least as long as every record in its page: appending a    *)
(* record never shortens the life of the others (update_record_expire).     *)
RowOutlivesItsRecords ==
    \A s \in Slots : \A c \in claims[s] : c.expires <= expire_at[s]

(* A record is dropped from the index only when its lifetime has passed,    *)
(* when the table's horizon global_expire_at hides it, or by cleanup():     *)
(* neither the sweep nor the reuse of a row loses a record that a search    *)
(* may still return.                                                        *)
NoRecordLostEarly ==
    [][\A s \in Slots : \A c \in claims[s] \ claims'[s] :
         \/ c.expires <= now
         \/ c.expires <= global_expire_at
         \/ \E p \in Procs : pc[p] = "clean_unlink" /\ loc[p].idx = s]_vars

(* When nobody is inside the lock the used rows come before the unused      *)
(* ones: every scan of the index stops at the first unused row and would    *)
(* miss anything behind it.                                                 *)
UsedRowsFirst ==
    sem > 0 => \A s, t \in Slots : s < t /\ expire_at[t] > 0 => expire_at[s] > 0

(* An operation that has begun ends: the lock is never waited for without   *)
(* end, is left on every path, and every loop over the index comes to an    *)
(* end, unless the process dies.                                            *)
OperationsEnd ==
    \A p \in Procs : pc[p] # "idle" ~> pc[p] \in {"idle", "dead"}
=============================================================================

---------------------------- MODULE TableProofs ----------------------------
(***************************************************************************)
(* Safety of Table for any number of processes, slots and cells, any        *)
(* lifetimes, any memory level and any fault, deaths included.              *)
(***************************************************************************)
EXTENDS Table, TLAPS

AddPcs == {"add_wait", "add_scan", "add_claim", "add_exit", "add_open", "add_copy"}

(* What the local variables of a process mean at each of its steps. *)
StepOK(p) ==
    /\ pc[p] \in AddPcs => loc[p].count <= max_elements_in_page
    /\ pc[p] \in OpenPcs \union {"rel_unlink", "add_claim", "add_exit", "add_copy",
                                 "scan_read", "clean_unlink"} => loc[p].idx \in Slots
    /\ pc[p] \in {"rel_open", "rel_unlink"} => 0 < loc[p].stop /\ loc[p].stop <= loc[p].idx
    /\ pc[p] = "add_claim" /\ loc[p].type = "CURRENT" =>
         loc[p].count <= available[loc[p].idx]
    /\ pc[p] \in {"rel_unlink", "add_copy", "clean_unlink"} =>
         opened_pages_list[p][loc[p].idx] \in Pages

StepsOK == \A p \in Procs : StepOK(p)

TypeInv == TypeOK /\ StepsOK /\ LockMatchesSteps

USE DEF NotWaiting

(* The slots are naturals below table_max_pages, and the index has a row *)
(* 0.                                                                    *)
LEMMA SlotsFacts ==
    /\ Slots \subseteq Nat
    /\ 0 \in Slots
    /\ Slots \subseteq 0..table_max_pages
    /\ \A s \in Slots : s + 1 \in 0..table_max_pages
    /\ \A s \in 0..table_max_pages : s - 1 \in Slots \/ s = 0
  BY PageAssumption DEF Slots, PageAssumption

(* Where enter(), getPageByName() and exit() lead, and which steps are *)
(* inside the table's lock.                                            *)
LEMMA PcsFacts ==
    /\ WaitPcs \subseteq Pcs /\ OpenPcs \subseteq Pcs /\ LockedPcs \subseteq Pcs
    /\ \A l \in WaitPcs : AfterEnter(l) \in LockedPcs /\ l \notin LockedPcs
    /\ \A l \in OpenPcs : AfterOpen(l) \in Pcs
    /\ \A l \in ExitPcs : AfterExit(l) \in Pcs /\ AfterExit(l) \notin LockedPcs /\ l \in LockedPcs
    /\ \A l \in OpenPcs : (AfterOpen(l) \in LockedPcs) <=> (l \in LockedPcs)
  BY DEF Pcs, WaitPcs, OpenPcs, LockedPcs, ExitPcs, AfterEnter, AfterOpen, AfterExit

(* A process between operations has well-typed local variables. *)
LEMMA NoLocalsType == NoLocals \in Locals
  BY PageAssumption DEF NoLocals, Locals, Slots, PageTypes, PageAssumption

(* The invariant holds when the first process has created the index page. *)
LEMMA InitType == Init => TypeInv
<1> SUFFICES ASSUME Init PROVE TypeInv
  OBVIOUS
<1>1. CSTypeOK
  BY WaitAssumption DEF Init, CSInit, CSTypeOK, WaitAssumption
<1>2. PagesTypeOK
  BY DEF Init, PagesInit, PagesTypeOK, Blank, NoMappings
<1>3. TypeOK
  BY <1>1, <1>2, PageAssumption, TableAssumption, NoLocalsType, SlotsFacts
  DEF Init, TypeOK, PageAssumption, TableAssumption, Pcs
<1>4. StepsOK
  BY DEF Init, StepsOK, StepOK, AddPcs, OpenPcs
<1>5. LockMatchesSteps
  BY DEF Init, CSInit, LockMatchesSteps, OneInside, LockedPcs
<1> QED BY <1>3, <1>4, <1>5 DEF TypeInv

-----------------------------------------------------------------------------
(* The two lower layers keep their types                                    *)

(* Each operation of CriticalSection keeps the types of the lock. *)
LEMMA CSTypes ==
    ASSUME CSTypeOK, NEW p \in Procs
    PROVE  /\ Acquire(p) => CSTypeOK'
           /\ CantLock(p) => CSTypeOK'
           /\ Exit(p) /\ UNCHANGED waited => CSTypeOK'
           /\ Die(p) => CSTypeOK'
           /\ StartWaiting(p) /\ UNCHANGED <<sem, unlock_needed>> => CSTypeOK'
           /\ WaitOneSecond /\ UNCHANGED <<sem, unlock_needed>> => CSTypeOK'
           /\ UNCHANGED csVars => CSTypeOK'
<1> USE WaitAssumption DEF CSTypeOK, WaitAssumption
<1>1. Acquire(p) => CSTypeOK'
  BY DEF Acquire
<1>2. CantLock(p) => CSTypeOK'
  BY DEF CantLock
<1>3. Exit(p) /\ UNCHANGED waited => CSTypeOK'
  BY DEF Exit
<1>4. Die(p) => CSTypeOK'
  BY DEF Die
<1>5. StartWaiting(p) /\ UNCHANGED <<sem, unlock_needed>> => CSTypeOK'
  BY DEF StartWaiting
<1>6. WaitOneSecond /\ UNCHANGED <<sem, unlock_needed>> => CSTypeOK'
  BY DEF WaitOneSecond, Waiting
<1>7. UNCHANGED csVars => CSTypeOK'
  BY DEF csVars
<1> QED BY <1>1, <1>2, <1>3, <1>4, <1>5, <1>6, <1>7

(* Opening, failing to open, writing and giving up a page keep the types *)
(* of the pages.                                                         *)
LEMMA PageTypes1 ==
    ASSUME PagesTypeOK, NEW p \in Procs, NEW s \in Slots
    PROVE  /\ PageReady(p, s) => PagesTypeOK' /\ opened_pages_list'[p][s] \in Pages
           /\ PageFails(p, s) => PagesTypeOK'
           /\ MarkAndUnlink(p, s) /\ opened_pages_list[p][s] \in Pages => PagesTypeOK'
           /\ DropMarked(p) => PagesTypeOK'
           /\ DropAll(p) => PagesTypeOK'
           /\ \A i, n \in Nat : WriteElements(p, s, i, n) => PagesTypeOK'
           /\ UNCHANGED pageVars => PagesTypeOK'
<1> USE DEF PagesTypeOK
<1>0. Blank \in [Cells -> Procs \union {NoRecord}] /\ NoMappings \in [Slots -> Pages \union {NoPage}]
  BY DEF Blank, NoMappings
<1>1. ASSUME NEW o \in Pages, CreateAs(s, o)
      PROVE  /\ file' \in [Slots -> Pages \union {EmptyFile, NoPage}]
             /\ unlinked' \subseteq Pages
             /\ elements' \in [Pages -> [Cells -> Procs \union {NoRecord}]]
  BY <1>0, <1>1 DEF CreateAs
<1>2. ASSUME NEW o \in Pages, MapPage(p, s, o)
      PROVE  /\ opened_pages_list' \in [Procs -> [Slots -> Pages \union {NoPage}]]
             /\ opened_pages_list'[p][s] \in Pages
  BY <1>2 DEF MapPage
<1>3. ASSUME PageReady(p, s) PROVE PagesTypeOK' /\ opened_pages_list'[p][s] \in Pages
  <2>1. CASE Cached(p, s) /\ UNCHANGED pageVars
    BY <2>1 DEF Cached, pageVars
  <2>2. CASE file[s] \in Pages /\ MapPage(p, s, file[s]) /\ UNCHANGED <<file, unlinked, elements>>
    BY <2>2, <1>2
  <2>3. CASE \E o \in Pages : CreateAs(s, o) /\ MapPage(p, s, o)
    BY <2>3, <1>1, <1>2
  <2> QED BY <1>3, <2>1, <2>2, <2>3 DEF PageReady
<1>4. ASSUME PageFails(p, s) PROVE PagesTypeOK'
  <2>1. CASE \E o \in Pages : CreateAs(s, o)
    BY <2>1, <1>4, <1>1 DEF PageFails
  <2>2. CASE /\ file' = [file EXCEPT ![s] = EmptyFile] \/ file' = [file EXCEPT ![s] = NoPage]
             /\ UNCHANGED <<unlinked, elements>>
    BY <2>2, <1>4 DEF PageFails
  <2>3. CASE UNCHANGED <<file, unlinked, elements>>
    BY <2>3, <1>4 DEF PageFails
  <2> QED BY <1>4, <2>1, <2>2, <2>3 DEF PageFails
<1>5. ASSUME NEW f \in [Slots -> Pages \union {EmptyFile, NoPage}],
             NEW m \in [Procs -> [Slots -> Pages \union {NoPage}]],
             NEW marks \in SUBSET Pages, Become(f, m, marks)
      PROVE  PagesTypeOK'
  BY <1>0, <1>5 DEF Become
<1>6. ASSUME MarkAndUnlink(p, s), opened_pages_list[p][s] \in Pages PROVE PagesTypeOK'
  <2>1. [file EXCEPT ![s] = NoPage] \in [Slots -> Pages \union {EmptyFile, NoPage}]
    OBVIOUS
  <2>2. unlinked \union {opened_pages_list[p][s]} \in SUBSET Pages
    BY <1>6
  <2> QED BY <1>5, <1>6, <2>1, <2>2 DEF MarkAndUnlink
<1>7. ASSUME DropMarked(p) PROVE PagesTypeOK'
  <2> DEFINE kept == [opened_pages_list EXCEPT ![p] =
                        [t \in Slots |-> IF @[t] \in unlinked THEN NoPage ELSE @[t]]]
  <2>1. kept \in [Procs -> [Slots -> Pages \union {NoPage}]]
    OBVIOUS
  <2> HIDE DEF kept
  <2>2. Become(file, kept, unlinked)
    BY <1>7 DEF DropMarked, kept
  <2> QED BY <1>5, <2>1, <2>2
<1>8. ASSUME DropAll(p) PROVE PagesTypeOK'
  <2>1. [opened_pages_list EXCEPT ![p] = NoMappings] \in [Procs -> [Slots -> Pages \union {NoPage}]]
    BY <1>0
  <2> QED BY <1>5, <1>8, <2>1 DEF DropAll
<1>9. ASSUME NEW i \in Nat, NEW n \in Nat, WriteElements(p, s, i, n) PROVE PagesTypeOK'
  BY <1>9 DEF WriteElements
<1>10. UNCHANGED pageVars => PagesTypeOK'
  BY DEF pageVars
<1> QED BY <1>3, <1>4, <1>6, <1>7, <1>8, <1>9, <1>10

-----------------------------------------------------------------------------
(* Types of the table                                                       *)

IndexTypeOK ==
    /\ expire_at \in [Slots -> Nat]
    /\ available \in [Slots -> 0..max_elements_in_page]
    /\ named \subseteq Slots
    /\ claims \in [Slots -> SUBSET Claim]
    /\ stored \in [Slots -> SUBSET Claim]

ClockTypeOK ==
    /\ expiration_check \in Nat /\ global_expire_at \in Nat
    /\ now \in Nat
    /\ time_to_check \in [Procs -> Nat]
    /\ ops \in Nat /\ deaths \in Nat

ControlTypeOK == pc \in [Procs -> Pcs] /\ loc \in [Procs -> Locals]

(* TypeOK, part by part. *)
LEMMA TypeParts ==
    /\ TypeOK => CSTypeOK /\ PagesTypeOK /\ IndexTypeOK /\ ClockTypeOK /\ ControlTypeOK
    /\ (CSTypeOK /\ PagesTypeOK /\ IndexTypeOK /\ ClockTypeOK /\ ControlTypeOK)' => TypeOK'
  BY DEF TypeOK, IndexTypeOK, ClockTypeOK, ControlTypeOK

(* The types of the local variables of one process. *)
LEMMA LocalsTypes ==
    ASSUME NEW r \in Locals
    PROVE  /\ r.op \in {"none", "add", "scan", "clean"} /\ r.count \in Nat /\ r.time \in Nat
           /\ r.idx \in 0..table_max_pages /\ r.type \in PageTypes
           /\ r.from \in 0..max_elements_in_page /\ r.stop \in Slots /\ r.rows \subseteq Slots
  BY DEF Locals

(* What leaves the variables of a part alone keeps the types of the part. *)
LEMMA Frames ==
    ASSUME TypeOK
    PROVE  /\ UNCHANGED csVars => CSTypeOK'
           /\ UNCHANGED pageVars => PagesTypeOK'
           /\ UNCHANGED indexVars => IndexTypeOK'
           /\ UNCHANGED <<contextVars, clockVars>> => ClockTypeOK'
<1> USE TypeParts
<1>1. UNCHANGED csVars => CSTypeOK'
  BY DEF csVars, CSTypeOK
<1>2. UNCHANGED pageVars => PagesTypeOK'
  BY DEF pageVars, PagesTypeOK
<1>3. UNCHANGED indexVars => IndexTypeOK'
  BY DEF indexVars, IndexTypeOK
<1>4. UNCHANGED <<contextVars, clockVars>> => ClockTypeOK'
  BY DEF contextVars, clockVars, ClockTypeOK
<1> QED BY <1>1, <1>2, <1>3, <1>4

(* The end of an operation keeps the types of the control state. *)
LEMMA EndOpType == ASSUME TypeOK, NEW p \in Procs, EndOp(p) PROVE ControlTypeOK'
  BY NoLocalsType DEF TypeOK, EndOp, Goto, SetLocals, ControlTypeOK, Pcs

(* A step that only moves on keeps the types of the control state. *)
LEMMA GotoType ==
    ASSUME TypeOK, NEW p \in Procs, NEW l \in Pcs, Goto(p, l), UNCHANGED loc
    PROVE  ControlTypeOK'
  BY DEF TypeOK, Goto, ControlTypeOK

(* A step that moves on with new, well-typed local variables keeps the *)
(* types of the control state.                                         *)
LEMMA GotoWithType ==
    ASSUME TypeOK, NEW p \in Procs, NEW l \in Pcs, Goto(p, l),
           NEW r \in Locals, SetLocals(p, r)
    PROVE  ControlTypeOK'
  BY DEF SetLocals, TypeOK, Goto, ControlTypeOK

(* Beginning addRecord(), processRecords() or cleanup() keeps the types. *)
LEMMA BeginType ==
    ASSUME TypeInv, NEW p \in Procs
    PROVE  /\ addRecord(p) => TypeOK'
           /\ processRecords(p) => TypeOK'
           /\ cleanup(p) => TypeOK'
<1> USE TypeParts DEF TypeInv
<1>1. ASSUME NEW o \in {"add", "scan"}, NEW n \in Nat, BeginWithTimer(p, o, n) PROVE TypeOK'
  <2>1. PagesTypeOK' /\ IndexTypeOK'
    BY <1>1, Frames DEF BeginWithTimer, Begin
  <2>2. ClockTypeOK'
    BY <1>1, TableAssumption DEF BeginWithTimer, Begin, ClockTypeOK, contextVars, TableAssumption
  <2>3. CSTypeOK'
    BY <1>1, CSTypes DEF BeginWithTimer, Begin, csVars
  <2>4. ControlTypeOK'
    <3>1. /\ [loc[p] EXCEPT !.op = o, !.count = n] \in Locals
          /\ [loc[p] EXCEPT !.op = o, !.count = n, !.time = now] \in Locals
      BY DEF ControlTypeOK, ClockTypeOK, Locals
    <3>2. "prepare" \in Pcs /\ "rel_wait" \in Pcs
      BY DEF Pcs, WaitPcs
    <3> QED BY <1>1, <3>1, <3>2, GotoWithType DEF BeginWithTimer
  <2> QED BY <2>1, <2>2, <2>3, <2>4
<1>2. addRecord(p) => TypeOK'
  BY <1>1, TableAssumption DEF addRecord, TableAssumption
<1>3. processRecords(p) => TypeOK'
  BY <1>1 DEF processRecords
<1>4. ASSUME cleanup(p) PROVE TypeOK'
  <2>1. PagesTypeOK' /\ IndexTypeOK'
    BY <1>4, Frames DEF cleanup, Begin
  <2>2. ClockTypeOK'
    BY <1>4 DEF cleanup, Begin, ClockTypeOK, contextVars
  <2>3. CSTypeOK'
    BY <1>4, CSTypes DEF cleanup, Begin
  <2>4. ControlTypeOK'
    <3>1. [loc[p] EXCEPT !.op = "clean"] \in Locals
      BY DEF ControlTypeOK, Locals
    <3>2. "clean_wait" \in Pcs
      BY DEF Pcs, WaitPcs
    <3> QED BY <1>4, <3>1, <3>2, GotoWithType DEF cleanup
  <2> QED BY <2>1, <2>2, <2>3, <2>4
<1> QED BY <1>2, <1>3, <1>4

(* Reading the clock, entering and leaving the lock, opening a page and *)
(* throwing keep the types.                                             *)
LEMMA ControlStepType ==
    ASSUME TypeInv, NEW p \in Procs
    PROVE  /\ checkRecord(p) => TypeOK'
           /\ ReadClock(p) => TypeOK'
           /\ Enter(p) => TypeOK'
           /\ EnterThrows(p) => TypeOK'
           /\ ExitSection(p) => TypeOK'
           /\ getPageByName(p) => TypeOK'
           /\ getPageByNameThrows(p) => TypeOK'
<1> USE TypeParts, Frames, CSTypes DEF TypeInv
<1>1. ASSUME checkRecord(p) PROVE TypeOK'
  BY <1>1, EndOpType DEF checkRecord
<1>2. ASSUME ReadClock(p) PROVE TypeOK'
  <2>1. [loc[p] EXCEPT !.time = now] \in Locals
    BY DEF ControlTypeOK, ClockTypeOK, Locals
  <2>2. "add_wait" \in Pcs /\ "scan_wait" \in Pcs
    BY DEF Pcs, WaitPcs
  <2> QED BY <1>2, <2>1, <2>2, GotoWithType DEF ReadClock
<1>3. ASSUME Enter(p) PROVE TypeOK'
  BY <1>3, PcsFacts, GotoType DEF Enter
<1>4. ASSUME EnterThrows(p) PROVE TypeOK'
  BY <1>4, EndOpType DEF EnterThrows
<1>5. ASSUME ExitSection(p) PROVE TypeOK'
  BY <1>5, PcsFacts, GotoType DEF ExitSection
<1>6. ASSUME getPageByName(p) PROVE TypeOK'
  <2>1. loc[p].idx \in Slots
    BY <1>6 DEF getPageByName, StepsOK, StepOK
  <2> QED BY <1>6, <2>1, PcsFacts, GotoType, PageTypes1 DEF getPageByName
<1>7. ASSUME getPageByNameThrows(p) PROVE TypeOK'
  <2>1. loc[p].idx \in Slots
    BY <1>7 DEF getPageByNameThrows, StepsOK, StepOK
  <2> QED BY <1>7, <2>1, EndOpType, PageTypes1 DEF getPageByNameThrows, Throw
<1> QED BY <1>1, <1>2, <1>3, <1>4, <1>5, <1>6, <1>7

(* clear_index_record_full() keeps the types of the index. *)
LEMMA ClearFullType ==
    ASSUME TypeOK, NEW s \in Slots, ClearFull(s) PROVE IndexTypeOK'
  BY PageAssumption DEF TypeOK, ClearFull, IndexTypeOK, PageAssumption

(* The steps of release_expired_memory_pages() keep the types. *)
LEMMA SweepType ==
    ASSUME TypeInv, NEW p \in Procs
    PROVE  /\ NotMyTurn(p) => TypeOK'
           /\ SweepBegins(p) => TypeOK'
           /\ SweepPage(p) => TypeOK'
           /\ PurgeUnlinked(p) => TypeOK'
<1> USE TypeParts, Frames, CSTypes DEF TypeInv
<1>0. loc[p] \in Locals
  BY DEF ControlTypeOK
<1>1. ASSUME NotMyTurn(p) PROVE TypeOK'
  <2>1. "rel_exit" \in Pcs
    BY DEF Pcs, LockedPcs
  <2> QED BY <1>1, <2>1, GotoType DEF NotMyTurn
<1>2. ASSUME SweepBegins(p) PROVE TypeOK'
  <2>1. CSTypeOK' /\ PagesTypeOK' /\ IndexTypeOK'
    BY <1>2 DEF SweepBegins
  <2>2. ClockTypeOK'
    BY <1>2 DEF SweepBegins, ClockTypeOK, clockVars
  <2>3. "rel_exit" \in Pcs /\ "rel_open" \in Pcs
    BY DEF Pcs, LockedPcs
  <2>4. ControlTypeOK'
    <3>1. PICK u \in 0..table_max_pages, l \in Slots :
            \/ /\ l < u - 1
               /\ SetLocals(p, [loc[p] EXCEPT !.idx = u - 1,
                                  !.stop = Larger(l + 1, u - REMOVE_AT_ONCE)])
               /\ Goto(p, "rel_open")
            \/ Goto(p, "rel_exit") /\ UNCHANGED loc
      BY <1>2 DEF SweepBegins
    <3>2. CASE l < u - 1
      <4>1. u - 1 \in 0..table_max_pages /\ Larger(l + 1, u - REMOVE_AT_ONCE) \in Slots
        BY <3>2, SlotsFacts, TableAssumption, PageAssumption
        DEF Larger, TableAssumption, PageAssumption, Slots
      <4>2. [loc[p] EXCEPT !.idx = u - 1, !.stop = Larger(l + 1, u - REMOVE_AT_ONCE)] \in Locals
        BY <1>0, <4>1 DEF Locals
      <4> QED BY <3>1, <4>2, <2>3, GotoWithType, GotoType
    <3> QED BY <3>1, <3>2, <2>3, GotoType
  <2> QED BY <2>1, <2>2, <2>4
<1>3. ASSUME SweepPage(p) PROVE TypeOK'
  <2>1. /\ loc[p].idx \in Slots /\ opened_pages_list[p][loc[p].idx] \in Pages
        /\ 0 < loc[p].stop /\ loc[p].stop <= loc[p].idx /\ loc[p].stop \in Slots
    BY <1>0, <1>3, LocalsTypes DEF SweepPage, StepsOK, StepOK
  <2>2. PagesTypeOK' /\ IndexTypeOK'
    BY <1>3, <2>1, PageTypes1, ClearFullType DEF SweepPage
  <2>3. CSTypeOK' /\ ClockTypeOK'
    BY <1>3 DEF SweepPage
  <2>4. "rel_exit" \in Pcs /\ "rel_open" \in Pcs
    BY DEF Pcs, LockedPcs
  <2>5. loc[p].idx - 1 \in 0..table_max_pages
    BY <2>1, PageAssumption DEF Slots, PageAssumption
  <2>6. [loc[p] EXCEPT !.idx = @ - 1] \in Locals
    BY <1>0, <2>5 DEF Locals
  <2>7. ControlTypeOK'
    BY <1>3, <2>4, <2>6, GotoType, GotoWithType DEF SweepPage
  <2> QED BY <2>2, <2>3, <2>7
<1>4. ASSUME PurgeUnlinked(p) PROVE TypeOK'
  <2>1. PagesTypeOK'
    BY <1>4, PageTypes1, SlotsFacts DEF PurgeUnlinked
  <2>2. "prepare" \in Pcs
    BY DEF Pcs
  <2>3. [loc[p] EXCEPT !.idx = 0, !.stop = 0] \in Locals
    BY <1>0, SlotsFacts DEF Locals
  <2> QED BY <1>4, <2>1, <2>2, <2>3, GotoWithType DEF PurgeUnlinked
<1> QED BY <1>1, <1>2, <1>3, <1>4

(* The steps of addRecord() keep the types. *)
LEMMA AddType ==
    ASSUME TypeInv, NEW p \in Procs
    PROVE  /\ ChooseUsed(p) => TypeOK'
           /\ ChooseNew(p) => TypeOK'
           /\ ChooseOldest(p) => TypeOK'
           /\ NoSpaceToInsert(p) => TypeOK'
           /\ ClaimCells(p) => TypeOK'
           /\ CopyRecord(p) => TypeOK'
<1> USE TypeParts, Frames, CSTypes DEF TypeInv
<1>0. loc[p] \in Locals
  BY DEF ControlTypeOK
<1>1. ASSUME NEW type \in PageTypes, NEW s \in Slots, Chosen(p, type, s) PROVE ControlTypeOK'
  <2>1. [loc[p] EXCEPT !.type = type, !.idx = s] \in Locals
    BY <1>0, SlotsFacts DEF Locals
  <2>2. "add_claim" \in Pcs
    BY DEF Pcs, LockedPcs
  <2> QED BY <1>1, <2>1, <2>2, GotoWithType DEF Chosen
<1>2. ASSUME ChooseUsed(p) PROVE TypeOK'
  BY <1>1, <1>2 DEF ChooseUsed, PageTypes
<1>3. ASSUME ChooseNew(p) PROVE TypeOK'
  BY <1>1, <1>3 DEF ChooseNew, PageTypes
<1>4. ASSUME ChooseOldest(p) PROVE TypeOK'
  <2>1. ControlTypeOK'
    BY <1>1, <1>4 DEF ChooseOldest, PageTypes
  <2>2. ClockTypeOK'
    BY <1>4 DEF ChooseOldest, ClockTypeOK, clockVars, Larger, IndexTypeOK
  <2> QED BY <1>4, <2>1, <2>2 DEF ChooseOldest
<1>5. ASSUME NoSpaceToInsert(p) PROVE TypeOK'
  BY <1>5, EndOpType DEF NoSpaceToInsert, Throw
<1>6. ASSUME ClaimCells(p) PROVE TypeOK'
  <2>1. loc[p].idx \in Slots /\ loc[p].count \in Nat /\ loc[p].time \in Nat
    BY <1>0, <1>6, LocalsTypes DEF ClaimCells, StepsOK, StepOK
  <2>2. /\ loc[p].count <= FreeIn(p) /\ FreeIn(p) \in 0..max_elements_in_page
        /\ max_elements_in_page \in Nat
    BY <1>6, <2>1, PageAssumption
    DEF ClaimCells, StepsOK, StepOK, IndexTypeOK, AddPcs, FreeIn, Clears, PageAssumption
  <2>3. /\ InsertAt(p) \in 0..max_elements_in_page
        /\ FreeIn(p) - loc[p].count \in 0..max_elements_in_page
    BY <2>1, <2>2 DEF InsertAt
  <2>4. ASSUME NEW lifetime \in Lifetimes
        PROVE  ExpireTime(p, lifetime) \in Nat /\ ClaimOf(p, ExpireTime(p, lifetime)) \in Claim
    <3>1. ExpireTime(p, lifetime) \in Nat
      BY <2>1, TableAssumption DEF ExpireTime, TableAssumption
    <3> QED BY <2>1, <2>2, <2>3, <3>1 DEF ClaimOf, Claim
  <2>6. IndexTypeOK'
    <3>1. expire_at' \in [Slots -> Nat]
      BY <1>6, <2>1, <2>4 DEF ClaimCells, IndexTypeOK, UpdatedExpire
    <3>2. available' \in [Slots -> 0..max_elements_in_page]
      BY <1>6, <2>1, <2>3 DEF ClaimCells, IndexTypeOK, FreeAfter
    <3>3. named' \subseteq Slots
      BY <1>6, <2>1 DEF ClaimCells, IndexTypeOK
    <3>4. claims' \in [Slots -> SUBSET Claim]
      BY <1>6, <2>1, <2>4 DEF ClaimCells, IndexTypeOK
    <3>5. stored' \in [Slots -> SUBSET Claim]
      BY <1>6, <2>1 DEF ClaimCells, IndexTypeOK
    <3> QED BY <3>1, <3>2, <3>3, <3>4, <3>5 DEF IndexTypeOK
  <2>7. [loc[p] EXCEPT !.from = InsertAt(p)] \in Locals
    BY <1>0, <2>3 DEF Locals
  <2>8. "add_exit" \in Pcs
    BY DEF Pcs, LockedPcs
  <2>9. ControlTypeOK'
    BY <1>6, <2>7, <2>8, GotoWithType DEF ClaimCells
  <2> QED BY <1>6, <2>6, <2>9 DEF ClaimCells
<1>7. ASSUME CopyRecord(p) PROVE TypeOK'
  <2>1. loc[p].idx \in Slots /\ loc[p].from \in Nat /\ loc[p].count \in Nat
    BY <1>0, <1>7, LocalsTypes, PageAssumption DEF CopyRecord, StepsOK, StepOK, PageAssumption
  <2>2. PagesTypeOK'
    BY <1>7, <2>1, PageTypes1 DEF CopyRecord
  <2>3. IndexTypeOK'
    BY <1>7, <2>1 DEF CopyRecord, IndexTypeOK
  <2>4. ControlTypeOK'
    BY <1>7, EndOpType DEF CopyRecord
  <2> QED BY <1>7, <2>2, <2>3, <2>4 DEF CopyRecord
<1> QED BY <1>2, <1>3, <1>4, <1>5, <1>6, <1>7

(* The steps of processRecords() and cleanup() keep the types. *)
LEMMA ScanAndCleanType ==
    ASSUME TypeInv, NEW p \in Procs
    PROVE  /\ CollectRows(p) => TypeOK'
           /\ ReadPage(p) => TypeOK'
           /\ CleanNext(p) => TypeOK'
           /\ CleanPage(p) => TypeOK'
           /\ release_open_pages(p) => TypeOK'
<1> USE TypeParts, Frames, CSTypes DEF TypeInv
<1>0. loc[p] \in Locals
  BY DEF ControlTypeOK
<1>1. ASSUME NEW rows \in SUBSET Slots, Visit(p, rows) PROVE ControlTypeOK'
  <2>1. ASSUME NEW s \in rows PROVE [loc[p] EXCEPT !.rows = rows, !.idx = s] \in Locals
    BY <1>0, SlotsFacts DEF Locals
  <2>2. "scan_open" \in Pcs
    BY DEF Pcs, OpenPcs
  <2> QED BY <1>1, <2>1, <2>2, GotoWithType, EndOpType DEF Visit
<1>2. ASSUME CollectRows(p) PROVE TypeOK'
  <2>1. Visible(p) \in SUBSET Slots
    BY DEF Visible
  <2> QED BY <1>1, <1>2, <2>1 DEF CollectRows
<1>3. ASSUME ReadPage(p) PROVE TypeOK'
  <2>1. loc[p].rows \ {loc[p].idx} \in SUBSET Slots
    BY <1>0, LocalsTypes
  <2> QED BY <1>1, <1>3, <2>1 DEF ReadPage
<1>4. ASSUME CleanNext(p) PROVE TypeOK'
  <2>1. "clean_open" \in Pcs /\ "clean_exit" \in Pcs
    BY DEF Pcs, LockedPcs
  <2> QED BY <1>4, <2>1, GotoType DEF CleanNext
<1>5. ASSUME CleanPage(p) PROVE TypeOK'
  <2>1. loc[p].idx \in Slots /\ opened_pages_list[p][loc[p].idx] \in Pages
    BY <1>5 DEF CleanPage, StepsOK, StepOK
  <2>2. PagesTypeOK' /\ IndexTypeOK'
    BY <1>5, <2>1, PageTypes1, ClearFullType DEF CleanPage
  <2>3. "clean_next" \in Pcs
    BY DEF Pcs, LockedPcs
  <2>4. [loc[p] EXCEPT !.idx = @ + 1] \in Locals
    BY <1>0, <2>1, SlotsFacts DEF Locals
  <2> QED BY <1>5, <2>2, <2>3, <2>4, GotoWithType DEF CleanPage
<1>6. ASSUME release_open_pages(p) PROVE TypeOK'
  BY <1>6, PageTypes1, SlotsFacts, EndOpType DEF release_open_pages
<1> QED BY <1>2, <1>3, <1>4, <1>5, <1>6

(* A death, a restart and the clock keep the types. *)
LEMMA EnvironmentType ==
    ASSUME TypeInv
    PROVE  /\ \A p \in Procs : Killed(p) => TypeOK'
           /\ \A p \in Procs : Started(p) => TypeOK'
           /\ Tick => TypeOK'
           /\ UNCHANGED vars => TypeOK'
<1> USE TypeParts, Frames, CSTypes DEF TypeInv
<1>1. ASSUME NEW p \in Procs, Killed(p) PROVE TypeOK'
  <2>1. ClockTypeOK'
    BY <1>1 DEF Killed, ClockTypeOK, contextVars
  <2>2. "dead" \in Pcs
    BY DEF Pcs
  <2> QED BY <1>1, <2>1, <2>2, PageTypes1, SlotsFacts, NoLocalsType, GotoWithType DEF Killed
<1>2. ASSUME NEW p \in Procs, Started(p) PROVE TypeOK'
  <2>1. ClockTypeOK'
    BY <1>2 DEF Started, ClockTypeOK, contextVars
  <2> QED BY <1>2, <2>1, EndOpType DEF Started
<1>3. ASSUME Tick PROVE TypeOK'
  <2>1. ClockTypeOK'
    BY <1>3 DEF Tick, ClockTypeOK, contextVars
  <2>2. ControlTypeOK'
    BY <1>3 DEF Tick, ControlTypeOK
  <2>3. CSTypeOK'
    BY <1>3, WaitAssumption DEF Tick, CSTypeOK, WaitOneSecond, Waiting, WaitAssumption
  <2> QED BY <1>3, <2>1, <2>2, <2>3 DEF Tick
<1>4. ASSUME UNCHANGED vars PROVE TypeOK'
  <2>1. ControlTypeOK'
    BY <1>4 DEF vars, ControlTypeOK
  <2>2. CSTypeOK'
    BY <1>4 DEF vars, csVars, CSTypeOK
  <2> QED BY <1>4, <2>1, <2>2 DEF vars
<1> QED BY <1>1, <1>2, <1>3, <1>4

(* Every step of the table keeps the types. *)
LEMMA TypeStep == ASSUME TypeInv, [Next]_vars PROVE TypeOK'
  BY BeginType, ControlStepType, SweepType, AddType, ScanAndCleanType, EnvironmentType
  DEF Next, Step

-----------------------------------------------------------------------------
(* The lock                                                                 *)

(* Every step of the table keeps the lock with the process whose step is *)
(* inside it.                                                            *)
LEMMA LockStep == ASSUME TypeInv, [Next]_vars PROVE LockMatchesSteps'
<1> USE DEF TypeInv
<1>0. /\ pc \in [Procs -> Pcs] /\ unlock_needed \subseteq Procs
      /\ sem \in Nat /\ deaths \in Nat
  BY DEF TypeOK, CSTypeOK
<1>1. ASSUME NEW p \in Procs, NEW l, Goto(p, l), (pc[p] \in LockedPcs) <=> (l \in LockedPcs),
             UNCHANGED <<sem, unlock_needed>>, deaths' = deaths \/ deaths' = deaths + 1
      PROVE  LockMatchesSteps'
  BY <1>0, <1>1 DEF LockMatchesSteps, OneInside, Goto
<1>2. ASSUME NEW p \in Procs, NEW l, Goto(p, l), l \notin LockedPcs,
             Exit(p), UNCHANGED deaths
      PROVE  LockMatchesSteps'
  BY <1>0, <1>2 DEF LockMatchesSteps, OneInside, Goto, Exit
<1>3. ASSUME NEW p \in Procs, Enter(p) PROVE LockMatchesSteps'
  BY <1>0, <1>3, PcsFacts DEF LockMatchesSteps, OneInside, Goto, Enter, Acquire, clockVars
<1>4. ASSUME NEW p \in Procs, Killed(p) PROVE LockMatchesSteps'
  BY <1>0, <1>4 DEF LockMatchesSteps, OneInside, Goto, Killed, Die, LockedPcs
<1>5. ASSUME NEW p \in Procs, addRecord(p) \/ processRecords(p) \/ cleanup(p)
      PROVE  LockMatchesSteps'
  <2>1. \/ Goto(p, "prepare")
        \/ Goto(p, "rel_wait")
        \/ Goto(p, "clean_wait")
    BY <1>5 DEF addRecord, processRecords, cleanup, BeginWithTimer
  <2>2. pc[p] = "idle" /\ UNCHANGED <<sem, unlock_needed, deaths>>
    BY <1>5 DEF addRecord, processRecords, cleanup, BeginWithTimer, Begin
  <2> QED BY <1>1, <2>1, <2>2 DEF LockedPcs
<1>6. ASSUME NEW p \in Procs,
             checkRecord(p) \/ ReadClock(p) \/ EnterThrows(p) \/ ReadPage(p)
               \/ PurgeUnlinked(p) \/ CopyRecord(p) \/ release_open_pages(p) \/ Started(p)
      PROVE  LockMatchesSteps'
  <2>1. \E l \in {"idle", "add_wait", "scan_wait", "prepare", "scan_open"} : Goto(p, l)
    BY <1>6 DEF checkRecord, ReadClock, EnterThrows, ReadPage, PurgeUnlinked, CopyRecord,
                release_open_pages, Started, EndOp, Visit
  <2>2. pc[p] \notin LockedPcs
    BY <1>6 DEF checkRecord, ReadClock, EnterThrows, ReadPage, PurgeUnlinked, CopyRecord,
                release_open_pages, Started, LockedPcs, WaitPcs
  <2>3. UNCHANGED <<sem, unlock_needed, deaths>>
    BY <1>6 DEF checkRecord, ReadClock, EnterThrows, ReadPage, PurgeUnlinked, CopyRecord,
                release_open_pages, Started, CantLock, csVars, clockVars
  <2> QED BY <1>1, <2>1, <2>2, <2>3 DEF LockedPcs
<1>7. ASSUME NEW p \in Procs,
             NotMyTurn(p) \/ SweepBegins(p) \/ SweepPage(p) \/ ChooseUsed(p) \/ ChooseNew(p)
               \/ ChooseOldest(p) \/ ClaimCells(p) \/ CleanNext(p) \/ CleanPage(p)
      PROVE  LockMatchesSteps'
  <2>1. \E l \in {"rel_exit", "rel_open", "add_claim", "add_exit", "clean_open",
                  "clean_exit", "clean_next"} : Goto(p, l)
    BY <1>7 DEF NotMyTurn, SweepBegins, SweepPage, ChooseUsed, ChooseNew, ChooseOldest,
                Chosen, ClaimCells, CleanNext, CleanPage
  <2>2. pc[p] \in LockedPcs
    BY <1>7 DEF NotMyTurn, SweepBegins, SweepPage, ChooseUsed, ChooseNew, ChooseOldest,
                ClaimCells, CleanNext, CleanPage, LockedPcs
  <2>3. UNCHANGED <<sem, unlock_needed, deaths>>
    BY <1>7 DEF NotMyTurn, SweepBegins, SweepPage, ChooseUsed, ChooseNew, ChooseOldest,
                ClaimCells, CleanNext, CleanPage, csVars, clockVars
  <2> QED BY <1>1, <2>1, <2>2, <2>3 DEF LockedPcs
<1>8. ASSUME NEW p \in Procs, getPageByName(p) PROVE LockMatchesSteps'
  BY <1>1, <1>8, PcsFacts DEF getPageByName, csVars, clockVars
<1>9. ASSUME NEW p \in Procs,
             ExitSection(p) \/ getPageByNameThrows(p) \/ NoSpaceToInsert(p) \/ CollectRows(p)
      PROVE  LockMatchesSteps'
  <2>1. Exit(p) /\ UNCHANGED deaths
    BY <1>9 DEF ExitSection, getPageByNameThrows, NoSpaceToInsert, CollectRows, Throw, clockVars
  <2>2. CASE ExitSection(p)
    <3>1. AfterExit(pc[p]) \notin LockedPcs /\ Goto(p, AfterExit(pc[p]))
      BY <2>2, PcsFacts DEF ExitSection
    <3> QED BY <1>2, <2>1, <3>1
  <2>3. CASE getPageByNameThrows(p) \/ NoSpaceToInsert(p) \/ CollectRows(p)
    <3>1. Goto(p, "idle") \/ Goto(p, "scan_open")
      BY <2>3 DEF getPageByNameThrows, NoSpaceToInsert, CollectRows, Throw, EndOp, Visit
    <3> QED BY <1>2, <2>1, <3>1 DEF LockedPcs
  <2> QED BY <1>9, <2>2, <2>3
<1>10. ASSUME Tick \/ UNCHANGED vars PROVE LockMatchesSteps'
  BY <1>10 DEF Tick, vars, csVars, clockVars, LockMatchesSteps, OneInside
<1> QED BY <1>3, <1>4, <1>5, <1>6, <1>7, <1>8, <1>9, <1>10 DEF Next, Step

-----------------------------------------------------------------------------
(* What a step of one process leaves alone of another                       *)

(* The steps of process p. *)
ProcStep(p) ==
    \/ addRecord(p) \/ processRecords(p) \/ cleanup(p)
    \/ Step(p) \/ Killed(p) \/ Started(p)

(* A process opens, drops and marks pages through its own mappings only. *)
LEMMA OwnMappings ==
    ASSUME TypeOK, NEW p \in Procs, NEW q \in Procs, q # p, NEW s
    PROVE  /\ PageReady(p, s) => opened_pages_list'[q] = opened_pages_list[q]
           /\ PageFails(p, s) => opened_pages_list'[q] = opened_pages_list[q]
           /\ MarkAndUnlink(p, s) => opened_pages_list'[q] = opened_pages_list[q]
           /\ DropMarked(p) => opened_pages_list'[q] = opened_pages_list[q]
           /\ DropAll(p) => opened_pages_list'[q] = opened_pages_list[q]
           /\ \A i, n : WriteElements(p, s, i, n) => opened_pages_list'[q] = opened_pages_list[q]
<1> USE DEF TypeOK, PagesTypeOK
<1>1. PageReady(p, s) => opened_pages_list'[q] = opened_pages_list[q]
  BY DEF PageReady, MapPage, pageVars
<1>2. PageFails(p, s) => opened_pages_list'[q] = opened_pages_list[q]
  BY DEF PageFails
<1>3. MarkAndUnlink(p, s) => opened_pages_list'[q] = opened_pages_list[q]
  BY DEF MarkAndUnlink, Become
<1>4. DropMarked(p) => opened_pages_list'[q] = opened_pages_list[q]
  BY DEF DropMarked, Become
<1>5. DropAll(p) => opened_pages_list'[q] = opened_pages_list[q]
  BY DEF DropAll, Become
<1>6. \A i, n : WriteElements(p, s, i, n) => opened_pages_list'[q] = opened_pages_list[q]
  BY DEF WriteElements
<1> QED BY <1>1, <1>2, <1>3, <1>4, <1>5, <1>6

(* The actions that change what the table's lock protects happen inside it. *)
LEMMA LockedActions ==
    ASSUME NEW p \in Procs, ProcStep(p), pc[p] \notin LockedPcs
    PROVE  UNCHANGED <<expire_at, available, named, claims, global_expire_at>>
<1> USE DEF indexVars, contextVars
<1>1. CASE addRecord(p) \/ processRecords(p) \/ cleanup(p) \/ Killed(p) \/ Started(p)
  BY <1>1 DEF addRecord, processRecords, cleanup, BeginWithTimer, Begin, Killed, Started
<1>2. CASE Step(p)
  BY <1>2 DEF Step, checkRecord, ReadClock, Enter, EnterThrows, ExitSection, getPageByName,
     getPageByNameThrows, NotMyTurn, SweepBegins, SweepPage, PurgeUnlinked, ChooseUsed,
     ChooseNew, ChooseOldest, NoSpaceToInsert, ClaimCells, CopyRecord, CollectRows, ReadPage,
     CleanNext, CleanPage, release_open_pages, LockedPcs
<1> QED BY <1>1, <1>2 DEF ProcStep

(* A step of p leaves alone the control state and the mappings of another   *)
(* process q and, while q is inside the lock, all that the lock protects.   *)
LEMMA OthersUntouched ==
    ASSUME TypeInv, NEW p \in Procs, NEW q \in Procs, q # p, ProcStep(p)
    PROVE  /\ pc'[q] = pc[q] /\ loc'[q] = loc[q]
           /\ opened_pages_list'[q] = opened_pages_list[q]
           /\ pc[q] \in LockedPcs =>
                UNCHANGED <<expire_at, available, named, claims, global_expire_at>>
<1> USE DEF TypeInv
<1>1. pc \in [Procs -> Pcs] /\ loc \in [Procs -> Locals]
  BY DEF TypeOK
<1>2. pc'[q] = pc[q]
  <2>1. \E l : Goto(p, l)
    BY DEF ProcStep, Step, addRecord, processRecords, cleanup, BeginWithTimer, Killed, Started,
       checkRecord, ReadClock, Enter, EnterThrows, ExitSection, getPageByName,
       getPageByNameThrows, NotMyTurn, SweepBegins, SweepPage, PurgeUnlinked, ChooseUsed,
       ChooseNew, ChooseOldest, NoSpaceToInsert, ClaimCells, CopyRecord, CollectRows, ReadPage,
       CleanNext, CleanPage, release_open_pages, Chosen, Visit, Throw, EndOp
  <2> QED BY <1>1, <2>1 DEF Goto
<1>3. loc'[q] = loc[q]
  <2>1. UNCHANGED loc \/ \E r : SetLocals(p, r)
    BY DEF ProcStep, Step, addRecord, processRecords, cleanup, BeginWithTimer, Killed, Started,
       checkRecord, ReadClock, Enter, EnterThrows, ExitSection, getPageByName,
       getPageByNameThrows, NotMyTurn, SweepBegins, SweepPage, PurgeUnlinked, ChooseUsed,
       ChooseNew, ChooseOldest, NoSpaceToInsert, ClaimCells, CopyRecord, CollectRows, ReadPage,
       CleanNext, CleanPage, release_open_pages, Chosen, Visit, Throw, EndOp
  <2> QED BY <1>1, <2>1 DEF SetLocals
<1>4. opened_pages_list'[q] = opened_pages_list[q]
  <2>1. CASE getPageByName(p)
    BY <2>1, OwnMappings DEF getPageByName
  <2>2. CASE getPageByNameThrows(p)
    BY <2>2, OwnMappings DEF getPageByNameThrows, pageVars
  <2>3. CASE SweepPage(p) \/ CleanPage(p)
    BY <2>3, OwnMappings DEF SweepPage, CleanPage
  <2>4. CASE PurgeUnlinked(p)
    BY <2>4, OwnMappings DEF PurgeUnlinked
  <2>5. CASE release_open_pages(p) \/ Killed(p)
    BY <2>5, OwnMappings DEF release_open_pages, Killed
  <2>6. CASE CopyRecord(p)
    BY <2>6, OwnMappings DEF CopyRecord
  <2>7. CASE UNCHANGED pageVars
    BY <2>7 DEF pageVars
  <2>8. CASE addRecord(p) \/ processRecords(p) \/ cleanup(p) \/ Started(p)
    BY <2>8, <2>7 DEF addRecord, processRecords, cleanup, BeginWithTimer, Begin, Started
  <2>9. CASE \/ checkRecord(p) \/ ReadClock(p) \/ Enter(p) \/ EnterThrows(p) \/ ExitSection(p)
             \/ NotMyTurn(p) \/ SweepBegins(p) \/ ChooseUsed(p) \/ ChooseNew(p)
             \/ ChooseOldest(p) \/ NoSpaceToInsert(p) \/ ClaimCells(p) \/ CollectRows(p)
             \/ ReadPage(p) \/ CleanNext(p)
    BY <2>9, <2>7 DEF checkRecord, ReadClock, Enter, EnterThrows, ExitSection,
       NotMyTurn, SweepBegins, ChooseUsed, ChooseNew, ChooseOldest, NoSpaceToInsert,
       ClaimCells, CollectRows, ReadPage, CleanNext
  <2> QED BY <2>1, <2>2, <2>3, <2>4, <2>5, <2>6, <2>8, <2>9 DEF ProcStep, Step
<1>5. pc[q] \in LockedPcs =>
        UNCHANGED <<expire_at, available, named, claims, global_expire_at>>
  <2>1. pc[q] \in LockedPcs => pc[p] \notin LockedPcs
    BY DEF LockMatchesSteps, OneInside
  <2> QED BY <2>1, LockedActions
<1> QED BY <1>2, <1>3, <1>4, <1>5

-----------------------------------------------------------------------------
(* The local variables keep their meaning                                   *)

(* The steps at which StepOK says something of the local variables. *)
BusyPcs == AddPcs \union OpenPcs \union {"rel_unlink", "scan_read", "clean_unlink"}

(* Where a step leaves a process and its local variables. *)
LEMMA Landing ==
    ASSUME TypeOK, NEW p \in Procs
    PROVE  /\ \A l : Goto(p, l) => pc'[p] = l
           /\ \A r : SetLocals(p, r) => loc'[p] = r
           /\ EndOp(p) => pc'[p] = "idle"
  BY DEF TypeOK, Goto, SetLocals, EndOp

(* Nothing is asked of the local variables at the other steps. *)
LEMMA QuietStep == ASSUME NEW p \in Procs, pc'[p] \notin BusyPcs PROVE StepOK(p)'
  BY DEF StepOK, BusyPcs, AddPcs, OpenPcs

(* Each step of a process establishes what its next step relies on. *)
LEMMA OwnStep == ASSUME TypeInv, NEW p \in Procs, ProcStep(p) PROVE StepOK(p)'
<1> USE Landing DEF TypeInv
<1>0. /\ loc[p] \in Locals /\ StepOK(p)
      /\ loc[p].idx \in 0..table_max_pages /\ loc[p].rows \subseteq Slots /\ loc[p].stop \in Slots
      /\ loc[p].count \in Nat
  BY LocalsTypes DEF TypeOK, StepsOK
<1>q. ASSUME NEW l, Goto(p, l), l \notin BusyPcs PROVE StepOK(p)'
  BY <1>q, QuietStep
<1>1. CASE addRecord(p) \/ processRecords(p) \/ cleanup(p)
  <2>1. Goto(p, "prepare") \/ Goto(p, "rel_wait") \/ Goto(p, "clean_wait")
    BY <1>1 DEF addRecord, processRecords, cleanup, BeginWithTimer
  <2> QED BY <1>q, <2>1 DEF BusyPcs, AddPcs, OpenPcs
<1>2. CASE \/ checkRecord(p) \/ EnterThrows(p) \/ getPageByNameThrows(p) \/ NotMyTurn(p)
           \/ PurgeUnlinked(p) \/ NoSpaceToInsert(p) \/ CopyRecord(p) \/ CleanPage(p)
           \/ release_open_pages(p) \/ Killed(p) \/ Started(p)
  <2>1. \E l \in {"idle", "rel_exit", "prepare", "clean_next", "dead"} : Goto(p, l)
    BY <1>2 DEF checkRecord, EnterThrows, getPageByNameThrows, NotMyTurn, PurgeUnlinked,
       NoSpaceToInsert, CopyRecord, CleanPage, release_open_pages, Killed, Started, Throw, EndOp
  <2> QED BY <1>q, <2>1 DEF BusyPcs, AddPcs, OpenPcs
<1>3. CASE ReadClock(p)
  <2>1. CASE loc[p].op = "add"
    <3>1. pc'[p] = "add_wait" /\ loc'[p].count = loc[p].count
      BY <1>0, <1>3, <2>1 DEF ReadClock, Locals
    <3>2. loc[p].count <= max_elements_in_page
      BY <1>0, <1>3, <2>1, PageAssumption DEF ReadClock, RecordTooBig, PageAssumption
    <3> QED BY <3>1, <3>2 DEF StepOK, OpenPcs
  <2>2. CASE loc[p].op # "add"
    <3>1. Goto(p, "scan_wait")
      BY <1>3, <2>2 DEF ReadClock
    <3> QED BY <1>q, <3>1 DEF BusyPcs, AddPcs, OpenPcs
  <2> QED BY <2>1, <2>2
<1>4. CASE Enter(p)
  <2>1. CASE pc[p] = "add_wait"
    BY <1>0, <1>4, <2>1 DEF Enter, AfterEnter, StepOK, AddPcs, OpenPcs
  <2>2. CASE pc[p] # "add_wait"
    <3>1. Goto(p, "rel_scan") \/ Goto(p, "scan_collect") \/ Goto(p, "clean_next")
      BY <1>4, <2>2 DEF Enter, AfterEnter, WaitPcs
    <3> QED BY <1>q, <3>1 DEF BusyPcs, AddPcs, OpenPcs
  <2> QED BY <2>1, <2>2
<1>5. CASE ExitSection(p)
  <2>1. CASE pc[p] = "add_exit"
    BY <1>0, <1>5, <2>1 DEF ExitSection, AfterExit, StepOK, AddPcs, OpenPcs
  <2>2. CASE pc[p] # "add_exit"
    <3>1. Goto(p, "rel_purge") \/ Goto(p, "clean_free")
      BY <1>5, <2>2 DEF ExitSection, AfterExit, ExitPcs
    <3> QED BY <1>q, <3>1 DEF BusyPcs, AddPcs, OpenPcs
  <2> QED BY <2>1, <2>2
<1>6. CASE getPageByName(p)
  <2>1. loc[p].idx \in Slots
    BY <1>0, <1>6 DEF getPageByName, StepOK
  <2>2. opened_pages_list'[p][loc[p].idx] \in Pages /\ loc' = loc
    BY <1>6, <2>1, PageTypes1 DEF getPageByName, TypeOK
  <2>3. /\ pc[p] \in OpenPcs /\ pc'[p] = AfterOpen(pc[p])
    BY <1>6 DEF getPageByName
  <2>4. CASE pc[p] = "rel_open"
    BY <1>0, <2>1, <2>2, <2>3, <2>4 DEF StepOK, AfterOpen, AddPcs, OpenPcs
  <2>5. CASE pc[p] = "add_open"
    BY <1>0, <2>1, <2>2, <2>3, <2>5 DEF StepOK, AfterOpen, AddPcs, OpenPcs
  <2>6. CASE pc[p] = "scan_open"
    BY <1>0, <2>1, <2>2, <2>3, <2>6 DEF StepOK, AfterOpen, AddPcs, OpenPcs
  <2>7. CASE pc[p] = "clean_open"
    BY <1>0, <2>1, <2>2, <2>3, <2>7 DEF StepOK, AfterOpen, AddPcs, OpenPcs
  <2> QED BY <2>3, <2>4, <2>5, <2>6, <2>7 DEF OpenPcs
<1>7. CASE SweepBegins(p)
  <2>1. PICK u \in 0..table_max_pages, l \in Slots :
            \/ /\ l < u - 1
               /\ SetLocals(p, [loc[p] EXCEPT !.idx = u - 1,
                                  !.stop = Larger(l + 1, u - REMOVE_AT_ONCE)])
               /\ Goto(p, "rel_open")
            \/ Goto(p, "rel_exit") /\ UNCHANGED loc
    BY <1>7 DEF SweepBegins
  <2>2. CASE Goto(p, "rel_exit")
    BY <1>q, <2>2 DEF BusyPcs, AddPcs, OpenPcs
  <2>3. CASE /\ l < u - 1
             /\ SetLocals(p, [loc[p] EXCEPT !.idx = u - 1,
                                !.stop = Larger(l + 1, u - REMOVE_AT_ONCE)])
             /\ Goto(p, "rel_open")
    <3>1. u - 1 \in Slots
      BY <2>3, SlotsFacts, PageAssumption DEF Slots, PageAssumption
    <3>2. /\ 0 < Larger(l + 1, u - REMOVE_AT_ONCE)
          /\ Larger(l + 1, u - REMOVE_AT_ONCE) <= u - 1
      BY <2>3, SlotsFacts, TableAssumption DEF Larger, TableAssumption, Slots
    <3>3. /\ loc'[p].idx = u - 1 /\ loc'[p].stop = Larger(l + 1, u - REMOVE_AT_ONCE)
          /\ pc'[p] = "rel_open"
      BY <1>0, <2>3 DEF Locals
    <3> QED BY <3>1, <3>2, <3>3 DEF StepOK, AddPcs, OpenPcs
  <2> QED BY <2>1, <2>2, <2>3
<1>8. CASE SweepPage(p)
  <2>1. CASE loc[p].stop < loc[p].idx
    <3>1. loc'[p].idx = loc[p].idx - 1 /\ loc'[p].stop = loc[p].stop /\ pc'[p] = "rel_open"
      BY <1>0, <1>8, <2>1 DEF SweepPage, Locals
    <3>2. 0 < loc[p].stop /\ loc[p].idx \in Slots
      BY <1>0, <1>8 DEF SweepPage, StepOK
    <3>3. loc[p].idx - 1 \in Slots /\ loc[p].stop <= loc[p].idx - 1
      BY <1>0, <2>1, <3>2, PageAssumption DEF Slots, PageAssumption
    <3> QED BY <3>1, <3>2, <3>3 DEF StepOK, AddPcs, OpenPcs
  <2>2. CASE ~(loc[p].stop < loc[p].idx)
    <3>1. Goto(p, "rel_exit")
      BY <1>8, <2>2 DEF SweepPage
    <3> QED BY <1>q, <3>1 DEF BusyPcs, AddPcs, OpenPcs
  <2> QED BY <2>1, <2>2
<1>9. ASSUME pc[p] = "add_scan", NEW type \in PageTypes, NEW s \in Slots, Chosen(p, type, s),
             UNCHANGED available, type = "CURRENT" => available[s] >= loc[p].count
      PROVE  StepOK(p)'
  <2>1. /\ loc'[p].idx = s /\ loc'[p].type = type /\ loc'[p].count = loc[p].count
        /\ pc'[p] = "add_claim"
    BY <1>0, <1>9 DEF Chosen, Locals
  <2>2. loc[p].count <= max_elements_in_page
    BY <1>0, <1>9 DEF StepOK, AddPcs
  <2>3. type = "CURRENT" => loc[p].count <= available[s]
    BY <1>0, <1>9, PageAssumption DEF TypeOK, PageAssumption
  <2> QED BY <1>9, <2>1, <2>2, <2>3 DEF StepOK, AddPcs, OpenPcs
<1>10. CASE ChooseUsed(p)
  <2>1. PICK s \in Slots :
          /\ FirstStop(p, s) /\ expire_at[s] > 0
          /\ Chosen(p, IF expire_at[s] < loc[p].time THEN "EXPIRED" ELSE "CURRENT", s)
    BY <1>10 DEF ChooseUsed
  <2>2. ~(expire_at[s] < loc[p].time) => available[s] >= loc[p].count
    BY <2>1 DEF FirstStop, Stops, TypeOK
  <2> QED BY <1>9, <1>10, <2>1, <2>2 DEF ChooseUsed, PageTypes, indexVars
<1>11. CASE ChooseNew(p)
  BY <1>9, <1>11 DEF ChooseNew, PageTypes, indexVars
<1>12. CASE ChooseOldest(p)
  BY <1>9, <1>12 DEF ChooseOldest, PageTypes, indexVars
<1>13. CASE ClaimCells(p)
  <2>1. /\ loc'[p].idx = loc[p].idx /\ loc'[p].count = loc[p].count /\ pc'[p] = "add_exit"
    BY <1>0, <1>13 DEF ClaimCells, Locals
  <2>2. loc[p].idx \in Slots /\ loc[p].count <= max_elements_in_page
    BY <1>0, <1>13 DEF ClaimCells, StepOK, AddPcs
  <2> QED BY <2>1, <2>2 DEF StepOK, AddPcs, OpenPcs
<1>14. ASSUME NEW rows \in SUBSET Slots, Visit(p, rows) PROVE StepOK(p)'
  <2>1. CASE EndOp(p)
    BY <1>q, <2>1 DEF EndOp, BusyPcs, AddPcs, OpenPcs
  <2>2. CASE \E s \in rows : /\ SetLocals(p, [loc[p] EXCEPT !.rows = rows, !.idx = s])
                             /\ Goto(p, "scan_open")
    <3>1. loc'[p].idx \in Slots /\ pc'[p] = "scan_open"
      BY <1>0, <2>2 DEF Locals
    <3> QED BY <3>1 DEF StepOK, AddPcs, OpenPcs
  <2> QED BY <1>14, <2>1, <2>2 DEF Visit
<1>15. CASE CollectRows(p)
  <2>1. Visible(p) \in SUBSET Slots
    BY DEF Visible
  <2> QED BY <1>14, <1>15, <2>1 DEF CollectRows
<1>16. CASE ReadPage(p)
  <2>1. loc[p].rows \ {loc[p].idx} \in SUBSET Slots
    BY <1>0
  <2> QED BY <1>14, <1>16, <2>1 DEF ReadPage
<1>17. CASE CleanNext(p)
  <2>1. CASE Goto(p, "clean_exit")
    BY <1>q, <2>1 DEF BusyPcs, AddPcs, OpenPcs
  <2>2. CASE Goto(p, "clean_open") /\ loc[p].idx \in Slots
    BY <1>17, <2>2 DEF CleanNext, StepOK, AddPcs, OpenPcs
  <2> QED BY <1>17, <2>1, <2>2 DEF CleanNext
<1> QED
  BY <1>1, <1>2, <1>3, <1>4, <1>5, <1>6, <1>7, <1>8, <1>10, <1>11, <1>12, <1>13,
     <1>15, <1>16, <1>17 DEF ProcStep, Step

(* Every step keeps the meaning of everyone's local variables. *)
LEMMA StepsStep == ASSUME TypeInv, [Next]_vars PROVE StepsOK'
<1> SUFFICES ASSUME NEW q \in Procs PROVE StepOK(q)'
  BY DEF StepsOK
<1>0. StepOK(q)
  BY DEF TypeInv, StepsOK
<1>1. ASSUME NEW p \in Procs, ProcStep(p) PROVE StepOK(q)'
  <2>1. CASE q = p
    BY <1>1, <2>1, OwnStep
  <2>2. CASE q # p
    BY <1>0, <1>1, <2>2, OthersUntouched DEF StepOK, LockedPcs
  <2> QED BY <2>1, <2>2
<1>2. CASE Tick \/ UNCHANGED vars
  BY <1>0, <1>2 DEF StepOK, Tick, vars, pageVars, indexVars
<1> QED BY <1>1, <1>2 DEF Next, ProcStep

(* The inductive invariant of the table. *)
LEMMA TypeInvariance == Spec => []TypeInv
<1>1. TypeInv /\ [Next]_vars => TypeInv'
  BY TypeStep, StepsStep, LockStep DEF TypeInv
<1> QED BY InitType, <1>1, PTL DEF Spec

(* Whatever the processes do and whoever dies, the index keeps its types:   *)
(* no row ever has a negative or too large number of free elements, and no  *)
(* operation handles a row outside the index.                               *)
THEOREM TableTypes == Spec => []TypeOK
  BY TypeInvariance, PTL DEF TypeInv

(* For any number of processes the table's lock is held by the process      *)
(* inside it and by no other, and is left on every path out of an operation.*)
THEOREM TableLock == Spec => []LockMatchesSteps
  BY TypeInvariance, PTL DEF TypeInv

-----------------------------------------------------------------------------
(* What the lock is for: the cells that addRecord() hands out and the time  *)
(* at which a row may be given up.                                          *)

(* A row that the scans take for unused holds no record. *)
UnusedRowsEmpty == \A s \in Slots : expire_at[s] = 0 => claims[s] = {}

(* The row is past its life for p, or hidden from every search. *)
Over(p, s) == expire_at[s] <= loc[p].time \/ expire_at[s] <= global_expire_at

(* Why the row that a process is about to clear may be cleared. *)
MayClear(p) ==
    /\ loc[p].time <= now
    /\ pc[p] = "add_claim" /\ loc[p].type # "CURRENT" =>
         Over(p, loc[p].idx)
    /\ pc[p] \in {"rel_open", "rel_unlink"} =>
         \A s \in Slots : loc[p].stop <= s /\ s <= loc[p].idx => Over(p, s)

RowsInv ==
    /\ ClaimsDisjoint
    /\ RowOutlivesItsRecords
    /\ UnusedRowsEmpty

DataInv == TypeInv /\ RowsInv /\ \A p \in Procs : MayClear(p)

(* The table begins with an empty index. *)
LEMMA InitData == Init => DataInv
<1> SUFFICES ASSUME Init PROVE DataInv
  OBVIOUS
<1>1. TypeInv
  BY InitType
<1>2. RowsInv
  BY DEF Init, RowsInv, ClaimsDisjoint, RowOutlivesItsRecords, UnusedRowsEmpty
<1>3. ASSUME NEW p \in Procs PROVE MayClear(p)
  BY TableAssumption DEF Init, MayClear, NoLocals, TableAssumption
<1> QED BY <1>1, <1>2, <1>3 DEF DataInv

-----------------------------------------------------------------------------
(* The rows                                                                 *)

(* clear_index_record_full() forgets a row and its records together. *)
LEMMA ClearFullRows ==
    ASSUME TypeOK, RowsInv, NEW s \in Slots, ClearFull(s) PROVE RowsInv'
<1>0. /\ expire_at \in [Slots -> Nat] /\ claims \in [Slots -> SUBSET Claim]
      /\ available \in [Slots -> 0..max_elements_in_page]
  BY DEF TypeOK
<1>1. /\ claims'[s] = {}
      /\ \A t \in Slots : t # s => /\ claims'[t] = claims[t] /\ available'[t] = available[t]
                                   /\ expire_at'[t] = expire_at[t]
  BY <1>0 DEF ClearFull
<1>2. ClaimsDisjoint'
  BY <1>1 DEF RowsInv, ClaimsDisjoint
<1>3. RowOutlivesItsRecords' /\ UnusedRowsEmpty'
  BY <1>1 DEF RowsInv, RowOutlivesItsRecords, UnusedRowsEmpty
<1> QED BY <1>2, <1>3 DEF RowsInv

(* A claim takes cells that no record of the row has, and the row lives on  *)
(* at least as long as the new record and the old ones.                     *)
LEMMA ClaimRows ==
    ASSUME TypeInv, RowsInv, NEW p \in Procs, ClaimCells(p) PROVE RowsInv'
<1> DEFINE s == loc[p].idx
           kept == IF Clears(p) THEN {} ELSE claims[s]
<1>0. /\ expire_at \in [Slots -> Nat] /\ claims \in [Slots -> SUBSET Claim]
      /\ available \in [Slots -> 0..max_elements_in_page]
      /\ loc[p] \in Locals /\ StepOK(p) /\ max_elements_in_page \in Nat
  BY PageAssumption DEF TypeInv, TypeOK, StepsOK, PageAssumption
<1>1. s \in Slots /\ loc[p].count \in Nat /\ loc[p].time \in Nat
  BY <1>0, LocalsTypes DEF ClaimCells, StepOK
<1>2. FreeIn(p) \in 0..max_elements_in_page /\ loc[p].count <= FreeIn(p)
  BY <1>0, <1>1 DEF ClaimCells, StepOK, AddPcs, FreeIn, Clears
<1>3. PICK lifetime \in Lifetimes :
        /\ expire_at' = [expire_at EXCEPT ![s] =
             UpdatedExpire(IF Clears(p) THEN 0 ELSE @, ExpireTime(p, lifetime))]
        /\ claims' = [claims EXCEPT ![s] =
             (IF Clears(p) THEN {} ELSE @) \union {ClaimOf(p, ExpireTime(p, lifetime))}]
  BY DEF ClaimCells
<1> DEFINE expires == ExpireTime(p, lifetime)
           new == ClaimOf(p, expires)
<1>4. expires \in Nat /\ expires > 0
  BY <1>1, TableAssumption DEF ExpireTime, TableAssumption
<1>5. /\ new.from = max_elements_in_page - FreeIn(p)
      /\ new.to = max_elements_in_page - FreeIn(p) + loc[p].count
      /\ new.expires = expires
  BY DEF ClaimOf, InsertAt
<1>6. /\ claims'[s] = kept \union {new}
      /\ available'[s] = FreeIn(p) - loc[p].count
      /\ expire_at'[s] >= expires /\ expire_at'[s] \in Nat
      /\ ~Clears(p) => expire_at'[s] >= expire_at[s]
  <2>1. claims'[s] = kept \union {new}
    BY <1>0, <1>1, <1>3
  <2>2. available'[s] = FreeIn(p) - loc[p].count
    BY <1>0, <1>1 DEF ClaimCells, FreeAfter
  <2>3. expire_at'[s] = UpdatedExpire(IF Clears(p) THEN 0 ELSE expire_at[s], expires)
    BY <1>0, <1>1, <1>3
  <2> HIDE DEF expires
  <2>4. /\ expire_at'[s] >= expires /\ expire_at'[s] \in Nat
        /\ ~Clears(p) => expire_at'[s] >= expire_at[s]
    BY <1>0, <1>1, <1>4, <2>3 DEF UpdatedExpire
  <2> QED BY <2>1, <2>2, <2>4
<1>7. \A t \in Slots : t # s => /\ claims'[t] = claims[t] /\ available'[t] = available[t]
                                /\ expire_at'[t] = expire_at[t]
  BY <1>0, <1>3 DEF ClaimCells
<1>8. ASSUME NEW c \in kept
      PROVE  /\ c.to <= new.from /\ c.to \in Nat /\ c.expires <= expire_at'[s] /\ ~Clears(p)
             /\ c \in claims[s]
  <2>1. ~Clears(p) /\ c \in claims[s] /\ c \in Claim
    BY <1>0, <1>1
  <2>2. c.to <= max_elements_in_page - available[s] /\ c.expires <= expire_at[s]
    BY <1>1, <2>1 DEF RowsInv, ClaimsDisjoint, RowOutlivesItsRecords
  <2>3. FreeIn(p) = available[s]
    BY <2>1 DEF FreeIn
  <2>4. c.to \in Nat /\ c.expires \in Nat
    BY <2>1 DEF Claim
  <2> HIDE DEF kept, new, s
  <2> QED BY <1>0, <1>1, <1>5, <1>6, <2>1, <2>2, <2>3, <2>4
<1> HIDE DEF kept, new, expires
<1>9. ClaimsDisjoint'
  <2> SUFFICES ASSUME NEW t \in Slots, NEW c \in claims'[t]
               PROVE  /\ c.to <= max_elements_in_page - available'[t]
                      /\ \A d \in claims'[t] : c = d \/ c.to <= d.from \/ d.to <= c.from
    BY DEF ClaimsDisjoint
  <2>1. CASE t # s
    BY <1>7, <2>1 DEF RowsInv, ClaimsDisjoint
  <2>2. CASE t = s
    <3>1. c.to <= max_elements_in_page - available'[s]
      BY <1>0, <1>1, <1>2, <1>5, <1>6, <1>8, <2>2
    <3>2. ASSUME NEW d \in claims'[t] PROVE c = d \/ c.to <= d.from \/ d.to <= c.from
      <4>1. CASE c \in kept /\ d \in kept
        BY <1>1, <1>8, <4>1 DEF RowsInv, ClaimsDisjoint
      <4>2. CASE c = new \/ d = new
        BY <1>6, <1>8, <2>2, <3>2, <4>2
      <4> QED BY <1>6, <2>2, <4>1, <4>2
    <3> QED BY <2>2, <3>1, <3>2
  <2> QED BY <2>1, <2>2
<1>10. RowOutlivesItsRecords'
  <2> SUFFICES ASSUME NEW t \in Slots, NEW c \in claims'[t] PROVE c.expires <= expire_at'[t]
    BY DEF RowOutlivesItsRecords
  <2>1. CASE t # s
    BY <1>7, <2>1 DEF RowsInv, RowOutlivesItsRecords
  <2>2. CASE t = s
    BY <1>4, <1>5, <1>6, <1>8, <2>2
  <2> QED BY <2>1, <2>2
<1>11. UnusedRowsEmpty'
  BY <1>4, <1>6, <1>7 DEF RowsInv, UnusedRowsEmpty
<1> QED BY <1>9, <1>10, <1>11 DEF RowsInv

(* The other steps of a process change no row. *)
LEMMA RowsFrame ==
    ASSUME NEW p \in Procs, ProcStep(p)
    PROVE  \/ SweepPage(p) \/ CleanPage(p) \/ ClaimCells(p)
           \/ UNCHANGED <<expire_at, available, claims>>
<1> USE DEF indexVars
<1>1. CASE addRecord(p) \/ processRecords(p) \/ cleanup(p) \/ Killed(p) \/ Started(p)
  BY <1>1 DEF addRecord, processRecords, cleanup, BeginWithTimer, Begin, Killed, Started
<1>2. CASE Step(p)
  BY <1>2 DEF Step, checkRecord, ReadClock, Enter, EnterThrows, ExitSection, getPageByName,
     getPageByNameThrows, NotMyTurn, SweepBegins, PurgeUnlinked, ChooseUsed,
     ChooseNew, ChooseOldest, NoSpaceToInsert, CopyRecord, CollectRows, ReadPage,
     CleanNext, release_open_pages
<1> QED BY <1>1, <1>2 DEF ProcStep

(* Every step keeps the rows in order. *)
LEMMA RowsStep == ASSUME TypeInv, RowsInv, [Next]_vars PROVE RowsInv'
<1>1. ASSUME UNCHANGED <<expire_at, available, claims>> PROVE RowsInv'
  BY <1>1 DEF RowsInv, ClaimsDisjoint, RowOutlivesItsRecords, UnusedRowsEmpty
<1>2. ASSUME NEW p \in Procs, SweepPage(p) \/ CleanPage(p) PROVE RowsInv'
  <2>1. loc[p].idx \in Slots
    BY <1>2 DEF SweepPage, CleanPage, TypeInv, StepsOK, StepOK
  <2> QED BY <1>2, <2>1, ClearFullRows DEF SweepPage, CleanPage, TypeInv
<1>3. ASSUME NEW p \in Procs, ProcStep(p) PROVE RowsInv'
  BY <1>1, <1>2, <1>3, RowsFrame, ClaimRows
<1>4. CASE Tick \/ UNCHANGED vars
  BY <1>1, <1>4 DEF Tick, vars, indexVars
<1> QED BY <1>3, <1>4 DEF Next, ProcStep

-----------------------------------------------------------------------------
(* When a row may be cleared                                                *)

(* Neither the clock nor the horizon of the table goes back. *)
LEMMA TimeGoesOn ==
    ASSUME TypeInv, [Next]_vars
    PROVE  /\ now \in Nat /\ now' \in Nat /\ now <= now'
           /\ global_expire_at \in Nat /\ global_expire_at' \in Nat
           /\ global_expire_at <= global_expire_at'
<1>0. /\ now \in Nat /\ now' \in Nat
      /\ global_expire_at \in Nat /\ global_expire_at' \in Nat /\ expire_at \in [Slots -> Nat]
  BY TypeStep DEF TypeOK, TypeInv
<1>1. ASSUME NEW p \in Procs, ProcStep(p)
      PROVE  UNCHANGED now
  BY <1>1 DEF ProcStep, Step, addRecord, processRecords, cleanup, BeginWithTimer, Begin, Killed,
     Started, checkRecord, ReadClock, Enter, EnterThrows, ExitSection, getPageByName,
     getPageByNameThrows, NotMyTurn, SweepBegins, SweepPage, PurgeUnlinked, ChooseUsed,
     ChooseNew, ChooseOldest, NoSpaceToInsert, ClaimCells, CopyRecord, CollectRows, ReadPage,
     CleanNext, CleanPage, release_open_pages, clockVars
<1>2. ASSUME NEW p \in Procs, ChooseOldest(p) PROVE global_expire_at <= global_expire_at'
  BY <1>0, <1>2 DEF ChooseOldest, Larger
<1>3. ASSUME NEW p \in Procs, ProcStep(p), ~ChooseOldest(p) PROVE UNCHANGED global_expire_at
  BY <1>3 DEF ProcStep, Step, addRecord, processRecords, cleanup, BeginWithTimer, Begin, Killed,
     Started, checkRecord, ReadClock, Enter, EnterThrows, ExitSection, getPageByName,
     getPageByNameThrows, NotMyTurn, SweepBegins, SweepPage, PurgeUnlinked, ChooseUsed,
     ChooseNew, NoSpaceToInsert, ClaimCells, CopyRecord, CollectRows, ReadPage,
     CleanNext, CleanPage, release_open_pages, contextVars
<1>4. ASSUME Tick \/ UNCHANGED vars PROVE now <= now' /\ UNCHANGED global_expire_at
  BY <1>0, <1>4 DEF Tick, vars, clockVars, contextVars
<1> QED BY <1>0, <1>1, <1>2, <1>3, <1>4 DEF Next, ProcStep

(* A process reads the clock, and never counts on a later time. *)
LEMMA OwnTime ==
    ASSUME TypeInv, NEW p \in Procs, ProcStep(p), loc[p].time <= now
    PROVE  loc'[p].time <= now
<1>0. loc \in [Procs -> Locals] /\ loc[p] \in Locals /\ now \in Nat
  BY DEF TypeInv, TypeOK
<1>1. CASE addRecord(p) \/ processRecords(p) \/ cleanup(p)
  <2>1. ASSUME NEW o, NEW n, BeginWithTimer(p, o, n) PROVE loc'[p].time <= now
    <3>1. CASE SetLocals(p, [loc[p] EXCEPT !.op = o, !.count = n])
      BY <1>0, <3>1 DEF SetLocals, Locals
    <3>2. CASE SetLocals(p, [loc[p] EXCEPT !.op = o, !.count = n, !.time = now])
      <4>1. loc'[p].time = now
        BY <1>0, <3>2 DEF SetLocals, Locals
      <4> QED BY <1>0, <4>1
    <3> QED BY <2>1, <3>1, <3>2 DEF BeginWithTimer
  <2>2. CASE cleanup(p)
    BY <1>0, <2>2 DEF cleanup, SetLocals, Locals
  <2> QED BY <1>1, <2>1, <2>2 DEF addRecord, processRecords
<1>2. CASE EndOp(p) \/ Killed(p)
  BY <1>0, <1>2 DEF EndOp, Killed, SetLocals, NoLocals
<1>3. CASE UNCHANGED loc
  BY <1>3
<1>4. CASE ReadClock(p) \/ PurgeUnlinked(p)
  <2>1. CASE ReadClock(p)
    <3>1. loc'[p].time = now
      BY <1>0, <2>1 DEF ReadClock, SetLocals, Locals
    <3> QED BY <1>0, <3>1
  <2>2. CASE PurgeUnlinked(p)
    BY <1>0, <2>2 DEF PurgeUnlinked, SetLocals, Locals
  <2> QED BY <1>4, <2>1, <2>2
<1>5. CASE SweepBegins(p) \/ SweepPage(p)
  BY <1>0, <1>5 DEF SweepBegins, SweepPage, SetLocals, Locals
<1>6. CASE ChooseUsed(p) \/ ChooseNew(p) \/ ChooseOldest(p)
  BY <1>0, <1>6 DEF ChooseUsed, ChooseNew, ChooseOldest, Chosen, SetLocals, Locals
<1>7. CASE ClaimCells(p) \/ CleanPage(p)
  BY <1>0, <1>7 DEF ClaimCells, CleanPage, SetLocals, Locals
<1>8. CASE CollectRows(p) \/ ReadPage(p)
  <2>1. ASSUME NEW rows, Visit(p, rows) PROVE loc'[p].time <= now
    <3>1. ASSUME NEW s, SetLocals(p, [loc[p] EXCEPT !.rows = rows, !.idx = s])
          PROVE  loc'[p].time <= now
      BY <1>0, <3>1 DEF SetLocals, Locals
    <3> QED BY <1>2, <2>1, <3>1 DEF Visit
  <2> QED BY <1>8, <2>1 DEF CollectRows, ReadPage
<1> QED
  BY <1>1, <1>2, <1>3, <1>4, <1>5, <1>6, <1>7, <1>8
  DEF ProcStep, Step, checkRecord, Enter, EnterThrows, ExitSection, getPageByName,
      getPageByNameThrows, NotMyTurn, NoSpaceToInsert, CopyRecord, CleanNext,
      release_open_pages, Started, Throw

(* A process chooses to clear only rows that are over. *)
LEMMA OwnChoice ==
    ASSUME DataInv, NEW p \in Procs, ProcStep(p)
    PROVE  MayClear(p)'
<1> USE DEF DataInv, TypeInv
<1>0. /\ loc \in [Procs -> Locals] /\ loc[p] \in Locals /\ StepOK(p) /\ MayClear(p)
      /\ pc \in [Procs -> Pcs]
      /\ expire_at \in [Slots -> Nat] /\ global_expire_at \in Nat /\ now \in Nat
      /\ loc[p].time \in Nat /\ loc[p].idx \in 0..table_max_pages /\ loc[p].stop \in Slots
  BY LocalsTypes DEF TypeOK, StepsOK
<1>1. loc'[p].time <= now'
  <2>1. ProcStep(p) => [Next]_vars
    BY DEF Next, ProcStep
  <2>2. loc'[p].time \in Nat /\ loc'[p].time <= now
    BY <1>0, <2>1, TypeStep, OwnTime, LocalsTypes DEF TypeOK, MayClear
  <2> QED BY <2>1, <2>2, TimeGoesOn
<1>2. CASE pc'[p] \notin {"add_claim", "rel_open", "rel_unlink"}
  BY <1>1, <1>2 DEF MayClear
<1>3. ASSUME pc'[p] = "add_claim", NEW type, NEW s \in Slots, Chosen(p, type, s),
             UNCHANGED expire_at, global_expire_at <= global_expire_at',
             global_expire_at' \in Nat,
             type # "CURRENT" =>
               expire_at[s] <= loc[p].time \/ expire_at[s] <= global_expire_at'
      PROVE  MayClear(p)'
  <2>1. loc'[p].idx = s /\ loc'[p].type = type /\ loc'[p].time = loc[p].time
    BY <1>0, <1>3 DEF Chosen, SetLocals, Locals
  <2> QED BY <1>1, <1>3, <2>1 DEF MayClear, Over
<1>4. CASE ChooseUsed(p)
  <2>1. pc'[p] = "add_claim"
    BY <1>0, <1>4 DEF ChooseUsed, Chosen, Goto
  <2>2. PICK s \in Slots :
          Chosen(p, IF expire_at[s] < loc[p].time THEN "EXPIRED" ELSE "CURRENT", s)
    BY <1>4 DEF ChooseUsed
  <2>3. UNCHANGED <<expire_at, global_expire_at>>
    BY <1>4 DEF ChooseUsed, indexVars, contextVars
  <2>4. expire_at[s] < loc[p].time => expire_at[s] <= loc[p].time
    BY <1>0
  <2> QED BY <1>0, <1>3, <2>1, <2>2, <2>3, <2>4
<1>5. CASE ChooseNew(p)
  <2>1. pc'[p] = "add_claim"
    BY <1>0, <1>5 DEF ChooseNew, Chosen, Goto
  <2>2. PICK s \in Slots : Chosen(p, "NEW", s) /\ expire_at[s] = 0
    BY <1>5 DEF ChooseNew
  <2>3. UNCHANGED <<expire_at, global_expire_at>>
    BY <1>5 DEF ChooseNew, indexVars, contextVars
  <2> QED BY <1>0, <1>3, <2>1, <2>2, <2>3
<1>6. CASE ChooseOldest(p)
  <2>1. pc'[p] = "add_claim"
    BY <1>0, <1>6 DEF ChooseOldest, Chosen, Goto
  <2>2. PICK s \in Slots :
          /\ Chosen(p, "OLDEST", s)
          /\ global_expire_at' = Larger(global_expire_at, expire_at[s])
    BY <1>6 DEF ChooseOldest
  <2>3. UNCHANGED expire_at
    BY <1>6 DEF ChooseOldest, indexVars
  <2>4. /\ global_expire_at <= global_expire_at' /\ global_expire_at' \in Nat
        /\ expire_at[s] <= global_expire_at'
    BY <1>0, <2>2 DEF Larger
  <2> QED BY <1>3, <2>1, <2>2, <2>3, <2>4
<1>7. CASE SweepBegins(p)
  <2>1. UNCHANGED <<expire_at, global_expire_at>>
    BY <1>7 DEF SweepBegins, indexVars
  <2>2. PICK u \in 0..table_max_pages, l \in Slots :
          /\ IsUsedEnd(u) /\ IsLastData(p, l, u)
          /\ \/ /\ l < u - 1
                /\ SetLocals(p, [loc[p] EXCEPT !.idx = u - 1,
                                   !.stop = Larger(l + 1, u - REMOVE_AT_ONCE)])
             \/ Goto(p, "rel_exit")
    BY <1>7 DEF SweepBegins
  <2>3. CASE Goto(p, "rel_exit")
    BY <1>0, <1>2, <2>3 DEF Goto
  <2>4. CASE /\ l < u - 1
             /\ SetLocals(p, [loc[p] EXCEPT !.idx = u - 1,
                                !.stop = Larger(l + 1, u - REMOVE_AT_ONCE)])
    <3>1. /\ loc'[p].idx = u - 1 /\ loc'[p].stop = Larger(l + 1, u - REMOVE_AT_ONCE)
          /\ loc'[p].time = loc[p].time
      BY <1>0, <2>4 DEF SetLocals, Locals
    <3>2. l + 1 <= Larger(l + 1, u - REMOVE_AT_ONCE)
      BY SlotsFacts, TableAssumption DEF Larger, TableAssumption
    <3>3. ASSUME NEW s \in Slots, Larger(l + 1, u - REMOVE_AT_ONCE) <= s, s <= u - 1
          PROVE  Over(p, s)
      <4>1. l < s /\ s < u
        BY <3>2, <3>3, SlotsFacts, TableAssumption DEF Larger, TableAssumption
      <4>2. expire_at[s] > 0 /\ ~HoldsData(p, s)
        BY <2>2, <4>1 DEF IsUsedEnd, IsLastData
      <4> QED BY <1>0, <4>2, TableAssumption DEF HoldsData, Over, TableAssumption
    <3>4. ASSUME NEW s \in Slots, loc'[p].stop <= s, s <= loc'[p].idx PROVE Over(p, s)'
      BY <2>1, <3>1, <3>3, <3>4 DEF Over
    <3>5. pc'[p] # "add_claim"
      BY <1>0, <1>7 DEF SweepBegins, Goto
    <3> QED BY <1>1, <3>4, <3>5 DEF MayClear
  <2> QED BY <2>2, <2>3, <2>4
<1>8. CASE SweepPage(p)
  <2>1. CASE Goto(p, "rel_exit")
    BY <1>0, <1>2, <2>1 DEF Goto
  <2>2. CASE SetLocals(p, [loc[p] EXCEPT !.idx = @ - 1]) /\ Goto(p, "rel_open")
    <3>1. /\ loc'[p].idx = loc[p].idx - 1 /\ loc'[p].stop = loc[p].stop
          /\ loc'[p].time = loc[p].time /\ pc'[p] = "rel_open"
      BY <1>0, <2>2 DEF SetLocals, Locals, Goto
    <3>2. ASSUME NEW s \in Slots, loc[p].stop <= s, s <= loc[p].idx - 1 PROVE Over(p, s)'
      <4>1. Over(p, s)
        BY <1>0, <1>8, <3>2, SlotsFacts DEF MayClear, SweepPage
      <4>2. s # loc[p].idx
        BY <1>0, <3>2, SlotsFacts
      <4>3. expire_at'[s] = expire_at[s] /\ UNCHANGED global_expire_at
        BY <1>0, <1>8, <4>2 DEF SweepPage, ClearFull, contextVars
      <4> QED BY <3>1, <4>1, <4>3 DEF Over
    <3> QED BY <1>1, <3>1, <3>2 DEF MayClear
  <2> QED BY <1>8, <2>1, <2>2 DEF SweepPage
<1>9. CASE getPageByName(p)
  <2>1. UNCHANGED <<loc, expire_at, global_expire_at>>
    BY <1>9 DEF getPageByName, indexVars, contextVars
  <2>2. pc'[p] # "add_claim" /\ (pc'[p] \in {"rel_open", "rel_unlink"} => pc[p] = "rel_open")
    BY <1>0, <1>9 DEF getPageByName, Goto, AfterOpen, OpenPcs
  <2>3. \A s \in Slots : Over(p, s) => Over(p, s)'
    BY <2>1 DEF Over
  <2> QED BY <1>0, <1>1, <2>1, <2>2, <2>3 DEF MayClear
<1>10. ASSUME NEW l, l \notin {"add_claim", "rel_open", "rel_unlink"}, Goto(p, l)
       PROVE  MayClear(p)'
  BY <1>0, <1>2, <1>10 DEF Goto
<1>11. CASE addRecord(p) \/ processRecords(p) \/ cleanup(p) \/ Killed(p) \/ Started(p)
  BY <1>10, <1>11 DEF addRecord, processRecords, cleanup, BeginWithTimer, Killed, Started, EndOp
<1>12. CASE Enter(p) \/ ExitSection(p)
  BY <1>0, <1>2, <1>12 DEF Enter, ExitSection, Goto, AfterEnter, AfterExit, WaitPcs, ExitPcs
<1>13. CASE \/ checkRecord(p) \/ ReadClock(p) \/ EnterThrows(p) \/ getPageByNameThrows(p)
            \/ NotMyTurn(p) \/ PurgeUnlinked(p) \/ NoSpaceToInsert(p) \/ ClaimCells(p)
            \/ CopyRecord(p) \/ CollectRows(p) \/ ReadPage(p) \/ CleanNext(p) \/ CleanPage(p)
            \/ release_open_pages(p)
  <2>1. \E l \in {"idle", "add_wait", "scan_wait", "rel_exit", "prepare", "add_exit", "scan_open",
                  "clean_open", "clean_exit", "clean_next"} : Goto(p, l)
    BY <1>13 DEF checkRecord, ReadClock, EnterThrows, getPageByNameThrows, NotMyTurn,
       PurgeUnlinked, NoSpaceToInsert, ClaimCells, CopyRecord, CollectRows, ReadPage, CleanNext,
       CleanPage, release_open_pages, Throw, EndOp, Visit
  <2> QED BY <1>10, <2>1
<1> QED
  BY <1>4, <1>5, <1>6, <1>7, <1>8, <1>9, <1>11, <1>12, <1>13 DEF ProcStep, Step

(* Nobody changes a row that another process is about to clear. *)
LEMMA MayClearStep ==
    ASSUME DataInv, [Next]_vars, NEW q \in Procs PROVE MayClear(q)'
<1> USE DEF DataInv
<1>0. MayClear(q) /\ loc[q].time \in Nat
  BY LocalsTypes DEF TypeInv, TypeOK
<1>1. ASSUME NEW p \in Procs, ProcStep(p), p # q PROVE MayClear(q)'
  <2>1. /\ pc'[q] = pc[q] /\ loc'[q] = loc[q]
        /\ pc[q] \in LockedPcs => UNCHANGED <<expire_at, global_expire_at>>
    BY <1>1, OthersUntouched
  <2>2. loc'[q].time <= now'
    BY <1>0, <2>1, TimeGoesOn DEF MayClear
  <2> QED BY <1>0, <2>1, <2>2 DEF MayClear, Over, LockedPcs
<1>2. CASE Tick \/ UNCHANGED vars
  <2>1. UNCHANGED <<pc, loc, expire_at, global_expire_at>>
    BY <1>2 DEF Tick, vars, indexVars, contextVars
  <2>2. loc'[q].time <= now'
    BY <1>0, <2>1, TimeGoesOn DEF MayClear
  <2> QED BY <1>0, <2>1, <2>2 DEF MayClear, Over
<1> QED BY <1>1, <1>2, OwnChoice DEF Next, ProcStep

(* The strengthened invariant is inductive. *)
LEMMA DataInvariance == Spec => []DataInv
<1>1. DataInv /\ [Next]_vars => DataInv'
  BY TypeStep, StepsStep, LockStep, RowsStep, MayClearStep DEF DataInv, TypeInv
<1> QED BY InitData, <1>1, PTL DEF Spec

-----------------------------------------------------------------------------
(* The used rows come first                                                 *)

(* The steps of cleanup() that have cleared the rows before loc[p].idx. *)
CleanPcs == {"clean_next", "clean_open", "clean_unlink"}

(* From row k on, the used rows come before the unused ones. *)
InOrderFrom(k) ==
    \A s, t \in Slots : k <= s /\ s < t /\ expire_at[t] > 0 => expire_at[s] > 0

(* What a process inside the lock knows of the rows: the sweep goes down    *)
(* from the last used row, a claim goes to a used row or to the first       *)
(* unused one, and cleanup() goes up from row 0.                            *)
StepOrder(p) ==
    /\ pc[p] = "idle" => loc[p] = NoLocals
    /\ pc[p] = "clean_wait" => loc[p].idx = 0
    /\ pc[p] \in CleanPcs \union {"clean_wait"} => "clean" \in Operations
    /\ pc[p] \in LockedPcs \ CleanPcs => InOrderFrom(0)
    /\ pc[p] \in CleanPcs =>
         /\ InOrderFrom(loc[p].idx)
         /\ \A s \in Slots : s < loc[p].idx => expire_at[s] = 0
    /\ pc[p] = "clean_open" => expire_at[loc[p].idx] > 0
    /\ pc[p] \in {"rel_open", "rel_unlink"} =>
         \A t \in Slots : loc[p].idx < t => expire_at[t] = 0
    /\ pc[p] = "add_claim" =>
         /\ \A s \in Slots : s < loc[p].idx => expire_at[s] > 0
         /\ loc[p].type = "NEW" \/ expire_at[loc[p].idx] > 0 \/ loc[p].idx = 0

(* Only row 0 is ever in use without the name of its page: a table low on   *)
(* memory takes it as the oldest row when no row is in use.                 *)
UsedRowsNamed == \A s \in Slots : expire_at[s] > 0 => s \in named \/ s = 0

(* Only a lack of memory leaves an empty file behind. *)
NoEmptyFiles == isMemOut \/ \A s \in Slots : file[s] # EmptyFile

OrderInv ==
    /\ NoEmptyFiles
    /\ UsedRowsNamed
    /\ sem > 0 => InOrderFrom(0)
    /\ \A p \in Procs : StepOrder(p)

(* cleanup() leaves its exception path half-way when the page of a used row *)
(* cannot be opened, and the rows it has cleared are then in front of the   *)
(* others.  Either the pages can be opened, or nobody calls cleanup().      *)
CleanupFinishes == "clean" \in Operations => Faults = {} /\ ~isMemOut

(* The table begins with unused rows and without files. *)
LEMMA OrderInit == Init => OrderInv
<1> SUFFICES ASSUME Init PROVE OrderInv
  OBVIOUS
<1>1. NoEmptyFiles
  BY PageAssumption DEF Init, PagesInit, NoEmptyFiles, PageAssumption
<1>2. UsedRowsNamed /\ InOrderFrom(0)
  BY DEF Init, UsedRowsNamed, InOrderFrom
<1>3. ASSUME NEW p \in Procs PROVE StepOrder(p)
  BY DEF Init, StepOrder, CleanPcs, LockedPcs
<1> QED BY <1>1, <1>2, <1>3 DEF OrderInv

(* A file is created with a page in it, unless memory has run out. *)
LEMMA FilesStep == ASSUME TypeInv, NoEmptyFiles, [Next]_vars PROVE NoEmptyFiles'
<1> SUFFICES ASSUME ~isMemOut PROVE \A s \in Slots : file'[s] # EmptyFile
  BY DEF NoEmptyFiles, isMemOut
<1>0. file \in [Slots -> Pages \union {EmptyFile, NoPage}] /\ \A s \in Slots : file[s] # EmptyFile
  BY DEF TypeInv, TypeOK, PagesTypeOK, NoEmptyFiles
<1>1. ASSUME NEW s \in Slots, NEW o \in Pages \union {NoPage}, file' = [file EXCEPT ![s] = o]
      PROVE  \A t \in Slots : file'[t] # EmptyFile
  BY <1>0, <1>1, PageAssumption DEF PageAssumption
<1>2. ASSUME UNCHANGED file PROVE \A t \in Slots : file'[t] # EmptyFile
  BY <1>0, <1>2
<1>3. ASSUME NEW p \in Procs, NEW s \in Slots, PageReady(p, s) \/ PageFails(p, s)
      PROVE  \A t \in Slots : file'[t] # EmptyFile
  <2>1. \/ UNCHANGED file
        \/ \E o \in Pages \union {NoPage} : file' = [file EXCEPT ![s] = o]
    BY <1>0, <1>3 DEF PageReady, PageFails, CreateAs, pageVars
  <2> QED BY <1>1, <1>2, <2>1
<1>4. ASSUME NEW p \in Procs, ProcStep(p) PROVE \A t \in Slots : file'[t] # EmptyFile
  <2>1. CASE getPageByName(p) \/ getPageByNameThrows(p)
    <3>1. loc[p].idx \in Slots
      BY <2>1 DEF getPageByName, getPageByNameThrows, TypeInv, StepsOK, StepOK
    <3> QED BY <1>2, <1>3, <2>1, <3>1 DEF getPageByName, getPageByNameThrows, pageVars
  <2>2. CASE SweepPage(p) \/ CleanPage(p)
    <3>1. loc[p].idx \in Slots
      BY <2>2 DEF SweepPage, CleanPage, TypeInv, StepsOK, StepOK
    <3> QED BY <1>1, <2>2, <3>1 DEF SweepPage, CleanPage, MarkAndUnlink, Become
  <2>3. CASE PurgeUnlinked(p) \/ release_open_pages(p) \/ Killed(p) \/ CopyRecord(p)
    BY <1>2, <2>3 DEF PurgeUnlinked, release_open_pages, Killed, CopyRecord, DropMarked, DropAll,
       Become, WriteElements
  <2>4. CASE addRecord(p) \/ processRecords(p) \/ cleanup(p) \/ Started(p)
    BY <1>2, <2>4 DEF addRecord, processRecords, cleanup, BeginWithTimer, Begin, Started, pageVars
  <2>5. CASE \/ checkRecord(p) \/ ReadClock(p) \/ Enter(p) \/ EnterThrows(p) \/ ExitSection(p)
             \/ NotMyTurn(p) \/ SweepBegins(p) \/ ChooseUsed(p) \/ ChooseNew(p)
             \/ ChooseOldest(p) \/ NoSpaceToInsert(p) \/ ClaimCells(p) \/ CollectRows(p)
             \/ ReadPage(p) \/ CleanNext(p)
    BY <1>2, <2>5 DEF checkRecord, ReadClock, Enter, EnterThrows, ExitSection,
       NotMyTurn, SweepBegins, ChooseUsed, ChooseNew, ChooseOldest, NoSpaceToInsert,
       ClaimCells, CollectRows, ReadPage, CleanNext, pageVars
  <2> QED BY <1>4, <2>1, <2>2, <2>3, <2>4, <2>5 DEF ProcStep, Step
<1>5. CASE Tick \/ UNCHANGED vars
  BY <1>2, <1>5 DEF Tick, vars, pageVars
<1> QED BY <1>4, <1>5 DEF Next, ProcStep

(* What a claim does to the rows: one row is in use from then on. *)
LEMMA ClaimUses ==
    ASSUME TypeInv, NEW p \in Procs, ClaimCells(p)
    PROVE  /\ loc[p].idx \in Slots /\ expire_at'[loc[p].idx] > 0
           /\ \A t \in Slots : t # loc[p].idx => expire_at'[t] = expire_at[t]
<1>0. /\ expire_at \in [Slots -> Nat] /\ loc[p] \in Locals /\ StepOK(p)
  BY DEF TypeInv, TypeOK, StepsOK
<1>1. loc[p].idx \in Slots /\ loc[p].time \in Nat
  BY <1>0, LocalsTypes DEF ClaimCells, StepOK
<1>2. PICK lifetime \in Lifetimes :
        expire_at' = [expire_at EXCEPT ![loc[p].idx] =
             UpdatedExpire(IF Clears(p) THEN 0 ELSE @, ExpireTime(p, lifetime))]
  BY DEF ClaimCells
<1>3. ExpireTime(p, lifetime) \in Nat /\ ExpireTime(p, lifetime) > 0
  BY <1>1, TableAssumption DEF ExpireTime, TableAssumption
<1>4. expire_at'[loc[p].idx] =
        UpdatedExpire(IF Clears(p) THEN 0 ELSE expire_at[loc[p].idx], ExpireTime(p, lifetime))
  BY <1>0, <1>1, <1>2
<1>5. expire_at'[loc[p].idx] > 0
  BY <1>0, <1>1, <1>3, <1>4 DEF UpdatedExpire
<1> QED BY <1>0, <1>1, <1>2, <1>5

(* What clearing a row does to the rows. *)
LEMMA ClearUnuses ==
    ASSUME TypeInv, NEW p \in Procs, SweepPage(p) \/ CleanPage(p)
    PROVE  /\ loc[p].idx \in Slots /\ expire_at'[loc[p].idx] = 0
           /\ \A t \in Slots : t # loc[p].idx => expire_at'[t] = expire_at[t]
           /\ named' = named \ {loc[p].idx}
<1>0. expire_at \in [Slots -> Nat]
  BY DEF TypeInv, TypeOK
<1>1. loc[p].idx \in Slots
  BY DEF SweepPage, CleanPage, TypeInv, StepsOK, StepOK
<1>2. ClearFull(loc[p].idx)
  BY DEF SweepPage, CleanPage
<1> QED BY <1>0, <1>1, <1>2 DEF ClearFull

(* The other steps of a process change neither the use nor the name of a    *)
(* row.                                                                     *)
LEMMA NamesFrame ==
    ASSUME NEW p \in Procs, ProcStep(p)
    PROVE  \/ SweepPage(p) \/ CleanPage(p) \/ ClaimCells(p)
           \/ UNCHANGED <<expire_at, named>>
<1> USE DEF indexVars
<1>1. CASE addRecord(p) \/ processRecords(p) \/ cleanup(p) \/ Killed(p) \/ Started(p)
  BY <1>1 DEF addRecord, processRecords, cleanup, BeginWithTimer, Begin, Killed, Started
<1>2. CASE Step(p)
  BY <1>2 DEF Step, checkRecord, ReadClock, Enter, EnterThrows, ExitSection, getPageByName,
     getPageByNameThrows, NotMyTurn, SweepBegins, PurgeUnlinked, ChooseUsed,
     ChooseNew, ChooseOldest, NoSpaceToInsert, CopyRecord, CollectRows, ReadPage,
     CleanNext, release_open_pages
<1> QED BY <1>1, <1>2 DEF ProcStep

(* A row above row 0 gets its name when it is first used. *)
LEMMA NamedStep ==
    ASSUME TypeInv, OrderInv, NEW p \in Procs, ProcStep(p) PROVE UsedRowsNamed'
<1> USE DEF OrderInv
<1>1. CASE UNCHANGED <<expire_at, named>>
  BY <1>1 DEF UsedRowsNamed
<1>2. CASE SweepPage(p) \/ CleanPage(p)
  <2>1. ~(expire_at'[loc[p].idx] > 0)
    BY <1>2, ClearUnuses
  <2> QED BY <1>2, <2>1, ClearUnuses DEF UsedRowsNamed
<1>3. CASE ClaimCells(p)
  <2>1. /\ loc[p].idx \in Slots
        /\ loc[p].type = "NEW" \/ expire_at[loc[p].idx] > 0 \/ loc[p].idx = 0
    BY <1>3, ClaimUses DEF ClaimCells, StepOrder
  <2>2. named' = IF loc[p].type = "NEW" THEN named \union {loc[p].idx} ELSE named
    BY <1>3 DEF ClaimCells
  <2> QED BY <1>3, <2>1, <2>2, ClaimUses DEF UsedRowsNamed
<1> QED BY <1>1, <1>2, <1>3, NamesFrame

(* The steps at which StepOrder says something. *)
OrderPcs == LockedPcs \union {"idle", "clean_wait"}

(* Each step of a process keeps the rows in order for its next step. *)
LEMMA OwnOrder ==
    ASSUME TypeInv, OrderInv, NEW p \in Procs, ProcStep(p) PROVE StepOrder(p)'
<1> USE Landing DEF TypeInv, OrderInv
<1>0. /\ loc[p] \in Locals /\ StepOK(p) /\ StepOrder(p) /\ expire_at \in [Slots -> Nat]
      /\ loc[p].idx \in 0..table_max_pages
  BY LocalsTypes DEF TypeOK, StepsOK
<1>q. ASSUME NEW l, Goto(p, l), l \notin OrderPcs PROVE StepOrder(p)'
  BY <1>q DEF StepOrder, OrderPcs, LockedPcs, CleanPcs
<1>e. ASSUME EndOp(p) PROVE StepOrder(p)'
  <2>1. pc'[p] = "idle" /\ loc'[p] = NoLocals
    BY <1>e DEF EndOp
  <2> QED BY <2>1 DEF StepOrder, LockedPcs, CleanPcs
<1>o. ASSUME NEW l \in {"rel_scan", "rel_exit", "add_scan", "add_exit", "scan_collect", "clean_exit"},
             Goto(p, l), InOrderFrom(0)'
      PROVE  StepOrder(p)'
  BY <1>o DEF StepOrder, CleanPcs
<1>f. ASSUME NEW k, InOrderFrom(k), UNCHANGED expire_at PROVE InOrderFrom(k)'
  BY <1>f DEF InOrderFrom
<1>1. CASE addRecord(p) \/ processRecords(p) \/ Killed(p) \/ ReadClock(p) \/ PurgeUnlinked(p)
  <2>1. \E l \in {"prepare", "rel_wait", "dead", "add_wait", "scan_wait"} : Goto(p, l)
    BY <1>1 DEF addRecord, processRecords, BeginWithTimer, Killed, ReadClock, PurgeUnlinked
  <2> QED BY <1>q, <2>1 DEF OrderPcs, LockedPcs
<1>2. CASE cleanup(p)
  <2>1. pc'[p] = "clean_wait" /\ "clean" \in Operations /\ loc[p] = NoLocals
    BY <1>0, <1>2 DEF cleanup, Begin, StepOrder
  <2>2. loc'[p].idx = 0
    BY <1>0, <1>2, <2>1 DEF cleanup, Locals, NoLocals
  <2> QED BY <2>1, <2>2 DEF StepOrder, LockedPcs, CleanPcs
<1>3. CASE \/ checkRecord(p) \/ EnterThrows(p) \/ getPageByNameThrows(p) \/ NoSpaceToInsert(p)
           \/ CopyRecord(p) \/ release_open_pages(p) \/ Started(p)
  BY <1>e, <1>3 DEF checkRecord, EnterThrows, getPageByNameThrows, NoSpaceToInsert,
     CopyRecord, release_open_pages, Started, Throw
<1>4. CASE Enter(p)
  <2>1. UNCHANGED <<loc, expire_at>> /\ InOrderFrom(0) /\ pc'[p] = AfterEnter(pc[p])
    BY <1>4 DEF Enter, Acquire, indexVars
  <2>2. CASE pc[p] = "clean_wait"
    <3>1. pc'[p] = "clean_next" /\ loc'[p].idx = 0 /\ "clean" \in Operations
      BY <1>0, <2>1, <2>2 DEF AfterEnter, StepOrder
    <3>2. \A s \in Slots : ~(s < 0)
      BY SlotsFacts
    <3> QED BY <1>f, <2>1, <3>1, <3>2 DEF StepOrder, CleanPcs
  <2>3. CASE pc[p] # "clean_wait"
    <3>1. Goto(p, "rel_scan") \/ Goto(p, "add_scan") \/ Goto(p, "scan_collect")
      BY <1>4, <2>3 DEF Enter, AfterEnter, WaitPcs
    <3> QED BY <1>f, <1>o, <2>1, <3>1
  <2> QED BY <2>2, <2>3
<1>5. CASE ExitSection(p)
  <2>1. Goto(p, "rel_purge") \/ Goto(p, "add_open") \/ Goto(p, "clean_free")
    BY <1>5 DEF ExitSection, AfterExit, ExitPcs
  <2> QED BY <1>q, <2>1 DEF OrderPcs, LockedPcs
<1>6. CASE getPageByName(p)
  <2>1. UNCHANGED <<loc, expire_at>> /\ pc'[p] = AfterOpen(pc[p])
    BY <1>6 DEF getPageByName, indexVars
  <2>2. CASE pc[p] = "rel_open"
    <3>1. pc'[p] = "rel_unlink"
      BY <2>1, <2>2 DEF AfterOpen
    <3>2. InOrderFrom(0)
      BY <1>0, <2>2 DEF StepOrder, LockedPcs, CleanPcs
    <3> QED BY <1>0, <1>f, <2>1, <2>2, <3>1, <3>2 DEF StepOrder, CleanPcs
  <2>3. CASE pc[p] = "clean_open"
    <3>1. pc'[p] = "clean_unlink"
      BY <2>1, <2>3 DEF AfterOpen
    <3>2. /\ InOrderFrom(loc[p].idx) /\ "clean" \in Operations
          /\ \A s \in Slots : s < loc[p].idx => expire_at[s] = 0
      BY <1>0, <2>3 DEF StepOrder, CleanPcs
    <3>3. InOrderFrom(loc[p].idx)'
      BY <2>1, <3>2 DEF InOrderFrom
    <3> QED BY <2>1, <3>1, <3>2, <3>3 DEF StepOrder, CleanPcs
  <2>4. CASE pc[p] \notin {"rel_open", "clean_open"}
    <3>1. Goto(p, "add_copy") \/ Goto(p, "scan_read")
      BY <1>6, <2>4 DEF getPageByName, AfterOpen, OpenPcs
    <3> QED BY <1>q, <3>1 DEF OrderPcs, LockedPcs
  <2> QED BY <2>2, <2>3, <2>4
<1>7. CASE NotMyTurn(p)
  BY <1>0, <1>f, <1>o, <1>7 DEF NotMyTurn, StepOrder, LockedPcs, CleanPcs, indexVars
<1>8. CASE SweepBegins(p)
  <2>1. UNCHANGED expire_at /\ InOrderFrom(0)
    BY <1>0, <1>8 DEF SweepBegins, StepOrder, LockedPcs, CleanPcs, indexVars
  <2>2. PICK u \in 0..table_max_pages, l \in Slots :
          /\ IsUsedEnd(u)
          /\ \/ /\ SetLocals(p, [loc[p] EXCEPT !.idx = u - 1,
                                     !.stop = Larger(l + 1, u - REMOVE_AT_ONCE)])
                /\ Goto(p, "rel_open")
             \/ Goto(p, "rel_exit")
    BY <1>8 DEF SweepBegins
  <2>3. CASE Goto(p, "rel_exit")
    BY <1>f, <1>o, <2>1, <2>3
  <2>4. CASE /\ SetLocals(p, [loc[p] EXCEPT !.idx = u - 1,
                                !.stop = Larger(l + 1, u - REMOVE_AT_ONCE)])
             /\ Goto(p, "rel_open")
    <3>1. loc'[p].idx = u - 1 /\ pc'[p] = "rel_open"
      BY <1>0, <2>4 DEF Locals
    <3>2. ASSUME NEW t \in Slots, u - 1 < t PROVE expire_at[t] = 0
      <4>1. u <= t /\ u \in Slots /\ 0 <= u
        BY <3>2, PageAssumption DEF Slots, PageAssumption
      <4>2. expire_at[u] = 0 /\ expire_at[t] \in Nat
        BY <1>0, <2>2, <4>1 DEF IsUsedEnd
      <4>n. u \in Nat /\ t \in Nat
        BY <4>1, SlotsFacts
      <4>3. u = t \/ u < t
        BY <4>1, <4>n
      <4>4. u < t /\ expire_at[t] > 0 => expire_at[u] > 0
        BY <2>1, <4>1 DEF InOrderFrom
      <4> QED BY <4>2, <4>3, <4>4
    <3> QED BY <1>f, <2>1, <3>1, <3>2 DEF StepOrder, CleanPcs
  <2> QED BY <2>2, <2>3, <2>4
<1>9. CASE SweepPage(p)
  <2>1. /\ InOrderFrom(0) /\ loc[p].idx \in Slots
        /\ \A t \in Slots : loc[p].idx < t => expire_at[t] = 0
    BY <1>0, <1>9, ClearUnuses DEF SweepPage, StepOrder, LockedPcs, CleanPcs
  <2>2. InOrderFrom(0)'
    <3> SUFFICES ASSUME NEW s \in Slots, NEW t \in Slots, s < t, expire_at'[t] > 0
                 PROVE  expire_at'[s] > 0
      BY DEF InOrderFrom
    <3>1. t # loc[p].idx /\ expire_at'[t] = expire_at[t] /\ t \in Nat /\ s \in Nat
      BY <1>9, ClearUnuses, SlotsFacts
    <3>2. ~(loc[p].idx < t)
      BY <2>1, <3>1
    <3>n. loc[p].idx \in Nat
      BY <2>1, SlotsFacts
    <3>3. t < loc[p].idx
      BY <3>1, <3>2, <3>n
    <3>4. s # loc[p].idx /\ expire_at[s] > 0
      BY <2>1, <3>1, <3>3, SlotsFacts DEF InOrderFrom
    <3> QED BY <1>9, <3>4, ClearUnuses
  <2>3. CASE Goto(p, "rel_exit")
    BY <1>o, <2>2, <2>3
  <2>4. CASE SetLocals(p, [loc[p] EXCEPT !.idx = @ - 1]) /\ Goto(p, "rel_open")
    <3>1. loc'[p].idx = loc[p].idx - 1 /\ pc'[p] = "rel_open"
      BY <1>0, <2>4 DEF Locals
    <3>2. ASSUME NEW t \in Slots, loc[p].idx - 1 < t PROVE expire_at'[t] = 0
      <4>n. t \in Nat /\ loc[p].idx \in Nat
        BY <2>1, SlotsFacts
      <4>1. t = loc[p].idx \/ loc[p].idx < t
        BY <3>2, <4>n
      <4>2. loc[p].idx < t => t # loc[p].idx
        BY <2>1, SlotsFacts
      <4> QED BY <1>9, <2>1, <4>1, <4>2, ClearUnuses
    <3> QED BY <2>2, <3>1, <3>2 DEF StepOrder, CleanPcs
  <2> QED BY <1>9, <2>3, <2>4 DEF SweepPage
<1>10. ASSUME pc[p] = "add_scan", NEW type, NEW s \in Slots, Chosen(p, type, s),
              UNCHANGED expire_at, \A t \in Slots : t < s => expire_at[t] > 0,
              type = "NEW" \/ expire_at[s] > 0 \/ s = 0
       PROVE  StepOrder(p)'
  <2>1. loc'[p].idx = s /\ loc'[p].type = type /\ pc'[p] = "add_claim"
    BY <1>0, <1>10 DEF Chosen, Locals
  <2>2. InOrderFrom(0)'
    BY <1>0, <1>f, <1>10 DEF StepOrder, LockedPcs, CleanPcs
  <2> QED BY <1>10, <2>1, <2>2 DEF StepOrder, CleanPcs
<1>11. ASSUME NEW u \in Slots, FirstStop(p, u), NEW t \in Slots, t < u PROVE expire_at[t] > 0
  BY <1>0, <1>11 DEF FirstStop, Stops
<1>12. CASE ChooseUsed(p)
  <2>1. PICK s \in Slots :
          /\ FirstStop(p, s) /\ expire_at[s] > 0
          /\ Chosen(p, IF expire_at[s] < loc[p].time THEN "EXPIRED" ELSE "CURRENT", s)
    BY <1>12 DEF ChooseUsed
  <2>2. UNCHANGED expire_at /\ pc[p] = "add_scan"
    BY <1>12 DEF ChooseUsed, indexVars
  <2> QED BY <1>10, <1>11, <2>1, <2>2
<1>13. CASE ChooseNew(p)
  <2>1. PICK s \in Slots : FirstStop(p, s) /\ Chosen(p, "NEW", s)
    BY <1>13 DEF ChooseNew
  <2>2. UNCHANGED expire_at /\ pc[p] = "add_scan"
    BY <1>13 DEF ChooseNew, indexVars
  <2> QED BY <1>10, <1>11, <2>1, <2>2
<1>14. CASE ChooseOldest(p)
  <2>1. PICK u \in Slots, s \in Slots :
          FirstStop(p, u) /\ IsOldest(s, u) /\ Chosen(p, "OLDEST", s)
    BY <1>14 DEF ChooseOldest
  <2>2. UNCHANGED expire_at /\ pc[p] = "add_scan"
    BY <1>14 DEF ChooseOldest, indexVars
  <2>3. CASE u = 0
    <3>1. s = 0 /\ \A t \in Slots : ~(t < s)
      BY <2>1, <2>3, SlotsFacts DEF IsOldest
    <3> QED BY <1>10, <2>1, <2>2, <3>1
  <2>4. CASE u # 0
    <3>1. s < u /\ \A t \in Slots : t < s => t < u
      BY <2>1, <2>4, SlotsFacts DEF IsOldest
    <3>2. expire_at[s] > 0 /\ \A t \in Slots : t < s => expire_at[t] > 0
      BY <1>11, <2>1, <3>1
    <3> QED BY <1>10, <2>1, <2>2, <3>2
  <2> QED BY <2>3, <2>4
<1>15. CASE ClaimCells(p)
  <2>1. /\ InOrderFrom(0) /\ loc[p].idx \in Slots /\ Goto(p, "add_exit")
        /\ \A s \in Slots : s < loc[p].idx => expire_at[s] > 0
    BY <1>0, <1>15, ClaimUses DEF ClaimCells, StepOrder, LockedPcs, CleanPcs
  <2>2. InOrderFrom(0)'
    <3> SUFFICES ASSUME NEW s \in Slots, NEW t \in Slots, 0 <= s, s < t, expire_at'[t] > 0
                 PROVE  expire_at'[s] > 0
      BY DEF InOrderFrom
    <3>1. CASE s = loc[p].idx
      BY <1>15, <3>1, ClaimUses
    <3>2. CASE s # loc[p].idx
      <4>1. t = loc[p].idx => expire_at[s] > 0
        BY <2>1
      <4>2. t # loc[p].idx => expire_at[s] > 0
        BY <1>15, <2>1, ClaimUses DEF InOrderFrom
      <4> QED BY <1>15, <3>2, <4>1, <4>2, ClaimUses
    <3> QED BY <3>1, <3>2
  <2> QED BY <1>o, <2>1, <2>2
<1>16. CASE CollectRows(p) \/ ReadPage(p)
  <2>1. EndOp(p) \/ Goto(p, "scan_open")
    BY <1>16 DEF CollectRows, ReadPage, Visit
  <2> QED BY <1>e, <1>q, <2>1 DEF OrderPcs, LockedPcs
<1>17. CASE CleanNext(p)
  <2>1. /\ UNCHANGED <<loc, expire_at>> /\ InOrderFrom(loc[p].idx) /\ "clean" \in Operations
        /\ \A s \in Slots : s < loc[p].idx => expire_at[s] = 0
    BY <1>0, <1>17 DEF CleanNext, StepOrder, CleanPcs, indexVars
  <2>2. CASE Goto(p, "clean_open") /\ expire_at[loc[p].idx] > 0
    <3>1. InOrderFrom(loc[p].idx)' /\ pc'[p] = "clean_open"
      BY <2>1, <2>2 DEF InOrderFrom
    <3> QED BY <2>1, <2>2, <3>1 DEF StepOrder, CleanPcs
  <2>3. CASE /\ Goto(p, "clean_exit")
             /\ \/ loc[p].idx \in Slots /\ expire_at[loc[p].idx] = 0
                \/ loc[p].idx = table_max_pages
    <3>1. ASSUME NEW t \in Slots PROVE expire_at[t] = 0
      <4>1. t < loc[p].idx \/ t = loc[p].idx \/ loc[p].idx < t
        BY <1>0, SlotsFacts
      <4>2. CASE t < loc[p].idx
        BY <2>1, <4>2
      <4>3. CASE t = loc[p].idx
        BY <2>3, <4>3, PageAssumption DEF Slots, PageAssumption
      <4>4. CASE loc[p].idx < t
        <5>1. loc[p].idx \in Slots /\ expire_at[loc[p].idx] = 0 /\ loc[p].idx <= loc[p].idx
          BY <2>3, <4>4, SlotsFacts, PageAssumption DEF Slots, PageAssumption
        <5>2. ~(expire_at[t] > 0)
          BY <2>1, <4>4, <5>1 DEF InOrderFrom
        <5> QED BY <1>0, <5>2
      <4> QED BY <4>1, <4>2, <4>3, <4>4
    <3>2. InOrderFrom(0)'
      BY <2>1, <3>1 DEF InOrderFrom
    <3> QED BY <1>o, <2>3, <3>2
  <2> QED BY <1>17, <2>2, <2>3 DEF CleanNext
<1>18. CASE CleanPage(p)
  <2>1. /\ InOrderFrom(loc[p].idx) /\ loc[p].idx \in Slots /\ "clean" \in Operations
        /\ \A s \in Slots : s < loc[p].idx => expire_at[s] = 0
    BY <1>0, <1>18, ClearUnuses DEF CleanPage, StepOrder, CleanPcs
  <2>2. loc'[p].idx = loc[p].idx + 1 /\ pc'[p] = "clean_next"
    BY <1>0, <1>18 DEF CleanPage, Locals
  <2>3. ASSUME NEW s \in Slots, s < loc[p].idx + 1 PROVE expire_at'[s] = 0
    <3>1. s = loc[p].idx \/ (s < loc[p].idx /\ s # loc[p].idx)
      BY <2>1, <2>3, SlotsFacts
    <3> QED BY <1>18, <2>1, <3>1, ClearUnuses
  <2>4. ASSUME NEW s \in Slots, NEW t \in Slots, loc[p].idx + 1 <= s, s < t, expire_at'[t] > 0
        PROVE  expire_at'[s] > 0
    <3>n. s \in Nat /\ t \in Nat /\ loc[p].idx \in Nat
      BY <2>1, SlotsFacts
    <3>1. loc[p].idx <= s /\ s # loc[p].idx /\ t # loc[p].idx
      BY <2>4, <3>n
    <3>2. expire_at'[s] = expire_at[s] /\ expire_at'[t] = expire_at[t]
      BY <1>18, <3>1, ClearUnuses
    <3> QED BY <2>1, <2>4, <3>1, <3>2 DEF InOrderFrom
  <2> QED BY <2>1, <2>2, <2>3, <2>4 DEF StepOrder, CleanPcs, InOrderFrom
<1> QED
  BY <1>1, <1>2, <1>3, <1>4, <1>5, <1>6, <1>7, <1>8, <1>9, <1>12, <1>13, <1>14, <1>15,
     <1>16, <1>17, <1>18 DEF ProcStep, Step

(* A process outside the lock never frees it. *)
LEMMA SemFrame ==
    ASSUME TypeInv, NEW p \in Procs, ProcStep(p)
    PROVE  \/ UNCHANGED sem
           \/ sem > 0
           \/ ExitSection(p) \/ getPageByNameThrows(p) \/ NoSpaceToInsert(p) \/ CollectRows(p)
<1>1. CASE addRecord(p) \/ processRecords(p) \/ cleanup(p) \/ Killed(p) \/ Started(p)
  BY <1>1 DEF addRecord, processRecords, cleanup, BeginWithTimer, Begin, Killed, Started, Die,
     csVars
<1>2. CASE Step(p)
  BY <1>2 DEF Step, checkRecord, ReadClock, Enter, Acquire, EnterThrows, CantLock, getPageByName,
     NotMyTurn, SweepBegins, SweepPage, PurgeUnlinked, ChooseUsed,
     ChooseNew, ChooseOldest, ClaimCells, CopyRecord, ReadPage,
     CleanNext, CleanPage, release_open_pages, csVars
<1> QED BY <1>1, <1>2 DEF ProcStep

(* Whoever leaves the lock leaves the rows in order. *)
LEMMA FreeOrder ==
    ASSUME CleanupFinishes, TypeInv, OrderInv, NEW p \in Procs, ProcStep(p), sem' > 0
    PROVE  InOrderFrom(0)'
<1> USE DEF TypeInv, OrderInv
<1>0. /\ sem \in Nat /\ StepOrder(p) /\ unlock_needed = {q \in Procs : pc[q] \in LockedPcs}
      /\ expire_at \in [Slots -> Nat]
      /\ sem > 0 => unlock_needed = {}
  BY DEF TypeOK, CSTypeOK, LockMatchesSteps
<1>1. CASE sem > 0
  <2>1. pc[p] \notin LockedPcs
    BY <1>0, <1>1
  <2> QED BY <1>1, <2>1, LockedActions DEF InOrderFrom
<1>2. CASE ~(sem > 0)
  <2>1. \/ ExitSection(p) \/ getPageByNameThrows(p) \/ NoSpaceToInsert(p) \/ CollectRows(p)
    BY <1>2, SemFrame
  <2>2. pc[p] \in LockedPcs /\ UNCHANGED expire_at
    BY <1>0, <1>2, <2>1 DEF ExitSection, getPageByNameThrows, NoSpaceToInsert, CollectRows,
       Throw, Exit, indexVars
  <2>3. CASE pc[p] \in LockedPcs \ CleanPcs
    BY <1>0, <2>2, <2>3 DEF StepOrder, InOrderFrom
  <2>4. CASE pc[p] \in CleanPcs
    <3>1. pc[p] = "clean_open" /\ getPageByNameThrows(p)
      BY <2>1, <2>4 DEF ExitSection, ExitPcs, getPageByNameThrows, OpenPcs, NoSpaceToInsert,
         CollectRows, CleanPcs
    <3>2. /\ loc[p].idx \in Slots /\ expire_at[loc[p].idx] > 0 /\ "clean" \in Operations
          /\ InOrderFrom(loc[p].idx)
      BY <1>0, <3>1 DEF StepOrder, CleanPcs, StepsOK, StepOK, OpenPcs
    <3>3. ~PageFails(p, loc[p].idx)
      BY <3>2 DEF PageFails, CleanupFinishes, NoEmptyFiles
    <3>4. loc[p].idx \notin named
      BY <3>1, <3>3 DEF getPageByNameThrows, HasName
    <3>5. loc[p].idx = 0
      BY <3>2, <3>4 DEF UsedRowsNamed
    <3> QED BY <2>2, <3>2, <3>5 DEF InOrderFrom
  <2> QED BY <2>2, <2>3, <2>4
<1> QED BY <1>1, <1>2

(* The order of the rows is inductive. *)
LEMMA OrderStep ==
    ASSUME CleanupFinishes, TypeInv, OrderInv, [Next]_vars PROVE OrderInv'
<1> USE DEF OrderInv
<1>1. ASSUME NEW p \in Procs, ProcStep(p) PROVE OrderInv'
  <2>1. ASSUME NEW q \in Procs PROVE StepOrder(q)'
    <3>1. CASE q = p
      BY <1>1, <3>1, OwnOrder
    <3>2. CASE q # p
      <4>1. /\ pc'[q] = pc[q] /\ loc'[q] = loc[q]
            /\ pc[q] \in LockedPcs => UNCHANGED expire_at
        BY <1>1, <3>2, OthersUntouched
      <4>2. CASE pc[q] \in LockedPcs
        BY <4>1, <4>2 DEF StepOrder, InOrderFrom
      <4>3. CASE pc[q] \notin LockedPcs
        BY <4>1, <4>3 DEF StepOrder, LockedPcs, CleanPcs
      <4> QED BY <4>2, <4>3
    <3> QED BY <3>1, <3>2
  <2>2. [Next]_vars
    OBVIOUS
  <2> QED BY <1>1, <2>1, <2>2, FilesStep, NamedStep, FreeOrder
<1>2. CASE Tick \/ UNCHANGED vars
  <2>1. UNCHANGED <<sem, expire_at, named, pc, loc>>
    BY <1>2 DEF Tick, vars, csVars, indexVars
  <2>2. \A q \in Procs : StepOrder(q)'
    BY <2>1 DEF StepOrder, InOrderFrom
  <2>3. UsedRowsNamed' /\ (sem' > 0 => InOrderFrom(0)')
    BY <2>1 DEF UsedRowsNamed, InOrderFrom
  <2> QED BY <2>2, <2>3, FilesStep
<1> QED BY <1>1, <1>2 DEF Next, ProcStep

-----------------------------------------------------------------------------
(* Theorems                                                                 *)

(* However many processes add records at once, addRecord() never hands out  *)
(* a cell twice between two clearings of its row.                           *)
THEOREM TableClaims == Spec => []ClaimsDisjoint
  BY DataInvariance, PTL DEF DataInv, RowsInv

(* A row of the index never expires before a record of its page. *)
THEOREM TableRows == Spec => []RowOutlivesItsRecords
  BY DataInvariance, PTL DEF DataInv, RowsInv

(* As long as cleanup() is not cut short by a page that cannot be opened,   *)
(* the used rows of a free table come before the unused ones, whoever adds, *)
(* sweeps, clears or dies: every scan of the index stops at the first       *)
(* unused row, and misses nothing.                                          *)
THEOREM TableOrder == ASSUME CleanupFinishes PROVE Spec => []UsedRowsFirst
<1>1. Init => TypeInv /\ OrderInv
  BY InitType, OrderInit
<1>2. TypeInv /\ OrderInv /\ [Next]_vars => (TypeInv /\ OrderInv)'
  BY TypeStep, StepsStep, LockStep, OrderStep DEF TypeInv
<1>3. OrderInv => UsedRowsFirst
  BY SlotsFacts DEF OrderInv, InOrderFrom, UsedRowsFirst
<1> QED BY <1>1, <1>2, <1>3, PTL DEF Spec

(* A record leaves the index only when it has expired, when the horizon     *)
(* hides it, or by cleanup(): a step that drops a claim clears the row, and *)
(* MayClear says that a row the sweep or addRecord() clears is over.        *)
THEOREM TableKeepsRecords == Spec => NoRecordLostEarly
<1> DEFINE Kept == \A s \in Slots : \A c \in claims[s] \ claims'[s] :
                     \/ c.expires <= now
                     \/ c.expires <= global_expire_at
                     \/ \E p \in Procs : pc[p] = "clean_unlink" /\ loc[p].idx = s
<1>1. ASSUME DataInv, [Next]_vars PROVE [Kept]_vars
  <2> USE <1>1 DEF DataInv
  <2>0. /\ claims \in [Slots -> SUBSET Claim] /\ expire_at \in [Slots -> Nat]
        /\ now \in Nat /\ global_expire_at \in Nat
    BY DEF TypeInv, TypeOK
  <2>1. ASSUME UNCHANGED claims PROVE Kept
    BY <2>1
  <2>2. ASSUME NEW p \in Procs, CleanPage(p) PROVE Kept
    BY <2>0, <2>2 DEF CleanPage, ClearFull
  <2>3. ASSUME NEW p \in Procs, loc[p].idx \in Slots, Over(p, loc[p].idx),
               NEW e, claims' = [claims EXCEPT ![loc[p].idx] = e]
        PROVE  Kept
    <3>1. loc[p].time \in Nat /\ loc[p].time <= now
      BY LocalsTypes DEF MayClear, TypeInv, TypeOK
    <3>2. ASSUME NEW s \in Slots, NEW c \in claims[s] \ claims'[s] PROVE
            c.expires <= now \/ c.expires <= global_expire_at
      <4>1. s = loc[p].idx /\ c \in claims[s] /\ c \in Claim
        BY <2>0, <2>3, <3>2
      <4>2. c.expires <= expire_at[s] /\ c.expires \in Nat
        BY <4>1 DEF RowsInv, RowOutlivesItsRecords, Claim
      <4> QED BY <2>0, <2>3, <3>1, <4>1, <4>2 DEF Over
    <3> QED BY <3>2
  <2>4. ASSUME NEW p \in Procs, SweepPage(p) PROVE Kept
    <3>1. loc[p].idx \in Slots /\ loc[p].stop <= loc[p].idx /\ loc[p].idx \in Nat
      BY <2>4, SlotsFacts DEF SweepPage, TypeInv, StepsOK, StepOK
    <3>2. Over(p, loc[p].idx)
      BY <2>4, <3>1 DEF SweepPage, MayClear
    <3> QED BY <2>3, <2>4, <3>1, <3>2 DEF SweepPage, ClearFull
  <2>5. ASSUME NEW p \in Procs, ClaimCells(p) PROVE Kept
    <3>1. loc[p].idx \in Slots
      BY <2>5 DEF ClaimCells, TypeInv, StepsOK, StepOK
    <3>2. CASE loc[p].type # "CURRENT"
      <4>1. Over(p, loc[p].idx)
        BY <2>5, <3>2 DEF ClaimCells, MayClear
      <4>2. \E e : claims' = [claims EXCEPT ![loc[p].idx] = e]
        BY <2>5, <3>2 DEF ClaimCells, Clears
      <4> QED BY <2>3, <3>1, <4>1, <4>2
    <3>3. CASE loc[p].type = "CURRENT"
      <4>1. \E e : claims' = [claims EXCEPT ![loc[p].idx] = claims[loc[p].idx] \union {e}]
        BY <2>5, <3>3 DEF ClaimCells, Clears
      <4>2. \A s \in Slots : claims[s] \subseteq claims'[s]
        BY <2>0, <3>1, <4>1
      <4> QED BY <4>2
    <3> QED BY <3>2, <3>3
  <2>6. ASSUME NEW p \in Procs, ProcStep(p) PROVE Kept
    BY <2>1, <2>2, <2>4, <2>5, <2>6, RowsFrame
  <2>7. CASE Tick \/ UNCHANGED vars
    BY <2>1, <2>7 DEF Tick, vars, indexVars
  <2> QED BY <2>6, <2>7 DEF Next, ProcStep
<1>2. DataInv /\ [Next]_vars => [Kept]_vars
  BY <1>1
<1>3. [][Kept]_vars => NoRecordLostEarly
  BY DEF NoRecordLostEarly
<1> QED BY <1>2, <1>3, DataInvariance, PTL DEF Spec
=============================================================================

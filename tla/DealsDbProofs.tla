--------------------------- MODULE DealsDbProofs ---------------------------
(***************************************************************************)
(* The two tables of DealsDatabase agree, although nothing locks them       *)
(* together: proofs for every number of processes, deals and rows, and for  *)
(* every lifetime.                                                          *)
(***************************************************************************)
EXTENDS DealsDb, TLAPS

Adding == {"add_begin", "add_wait", "add_raise", "add_copy", "stamp"}
Scanning == {"scan_begin", "scan_wait", "scan_read", "fill"}

(* What hides a deal: the clock, or any horizon so far. *)
Hidden == Larger(now, highest)

(* A row that UsedRows() sees: it is used, and so are all before it. *)
InFront(exp, r) == \A s \in Rows : s <= r => exp[s] > 0

(* What the local variables of a process mean at its next step. *)
StepOK(p) ==
    /\ pc[p] \in Adding => loc[p].deal \in begun \ done
    /\ pc[p] \notin Adding => loc[p].deal = NoDeal
    /\ pc[p] \in Adding => (loc[p].table = "data" <=> info[loc[p].deal].timestamp = 0)
    /\ loc[p].time <= now
    /\ loc[p].before \subseteq done
    /\ pc[p] = "stamp" => loc[p].table = "data"
    /\ pc[p] = "add_begin" => info[loc[p].deal].timestamp <= now
    /\ pc[p] \in {"add_wait", "add_raise", "add_copy"} /\ loc[p].table = "index" =>
         info[loc[p].deal].timestamp <= loc[p].time
    /\ pc[p] = "add_raise" => /\ holder[loc[p].table] = p
                              /\ InFront(expire_at[loc[p].table], loc[p].row)
    /\ pc[p] \in {"add_copy", "stamp"} => loc[p].index \in Idx
    /\ pc[p] \in Scanning => loc[p].min_timestamp + DEALS_EXPIRES <= Hidden
    /\ pc[p] = "fill" => loc[p].rows = {}

(* A deal is added once: two processes never have the same one at hand. *)
Distinct ==
    \A p, q \in Procs : p # q /\ loc[p].deal # NoDeal => loc[p].deal # loc[q].deal

StepsInv ==
    /\ TypeOK
    /\ global_expire_at <= highest
    /\ StartTime <= now
    /\ done \subseteq begun
    /\ \A d \in Deals : info[d].timestamp > 0 => d \in begun
    /\ Distinct
    /\ \A p \in Procs : StepOK(p)

(* A deal in the index has its DealInfo, in an element that was handed out, *)
(* and its row lives as long as the deal does.                              *)
IndexOK(own, tak, exp, inf) ==
    \A r \in Rows, i \in Idx, d \in Deals :
      own[r][i] = d => /\ inf[d].timestamp > 0
                       /\ i < tak[r]
                       /\ exp[r] >= inf[d].timestamp + DEALS_EXPIRES

(* cleanup() that fails half way leaves used rows behind an unused one, but *)
(* only deals that it was to remove are there.                              *)
RowsInv ==
    /\ \A d \in Deals \ truncated, r \in Rows, i \in Idx :
         owner["index"][r][i] = d => InFront(expire_at["index"], r)
    /\ IndexOK(owner["index"], taken["index"], expire_at["index"], info)

(* The record of deal d, made at a time, still has its element of row r, or *)
(* the deal has been over since lim.                                        *)
Safe(own, tak, exp, lim, d, r, i, time) ==
    \/ own[r][i] = d /\ i < tak[r] /\ exp[r] >= time + DEALS_EXPIRES
    \/ time + DEALS_EXPIRES <= lim

SafeNow(t, d, r, i, time) == Safe(owner[t], taken[t], expire_at[t], Hidden, d, r, i, time)
SafeNext(t, d, r, i, time) == Safe(owner'[t], taken'[t], expire_at'[t], Hidden', d, r, i, time)

SafeInv ==
    /\ \A d \in Deals \ truncated : info[d].timestamp > 0 =>
         SafeNow("data", d, info[d].row, info[d].index, info[d].data_time)
    /\ \A p \in Procs :
         pc[p] \in {"add_copy", "stamp"} /\ loc[p].deal \notin truncated =>
           SafeNow(loc[p].table, loc[p].deal, loc[p].row, loc[p].index, loc[p].time)
    /\ \A d \in done \ truncated : \E r \in Rows, i \in Idx :
         SafeNow("index", d, r, i, info[d].timestamp)

(* A deal has no element of a table before its claim, and one from then on. *)
Place(p) ==
    pc[p] \in Adding =>
      \A r \in Rows, i \in Idx : owner[loc[p].table][r][i] = loc[p].deal =>
        pc[p] \in {"add_copy", "stamp"} /\ r = loc[p].row /\ i = loc[p].index

PlacesInv ==
    /\ \A t \in Tables, r \in Rows, i \in Idx, d \in Deals :
         owner[t][r][i] = d => d \in begun
    /\ \A p \in Procs : Place(p)

(* The deals whose copy into a table has been made. *)
Written(t) ==
    IF t = "index" THEN done
    ELSE {d \in Deals : \/ info[d].timestamp > 0
                       \/ \E p \in Procs : pc[p] = "stamp" /\ loc[p].deal = d}

(* The element of a deal holds the deal. *)
CopiesInv ==
    \A t \in Tables : \A d \in Written(t) \ spoilt, r \in Rows, i \in Idx :
      owner[t][r][i] = d => elements[t][r][i] = d

(* What a search has not found yet is in a row that it will still read, or  *)
(* that it has read in a page without a name.                               *)
SearchOK(p) ==
    pc[p] \in {"scan_read", "fill"} =>
      \A d \in loc[p].before \ (truncated \union spoilt), r \in Rows, i \in Idx :
        info[d].timestamp + DEALS_EXPIRES > Hidden /\ owner["index"][r][i] = d
        => d \in loc[p].found \/ r \in loc[p].rows \union loc[p].misread

SearchInv == \A p \in Procs : SearchOK(p)

-----------------------------------------------------------------------------
(* Types                                                                    *)

(* The constants that sets are made of. *)
LEMMA Sets ==
    /\ PageCount \in Nat \ {0} /\ PageSize \in Nat \ {0} /\ DEALS_EXPIRES \in Nat \ {0}
    /\ 0 \in Rows /\ 0 \in Idx /\ Rows \subseteq Nat /\ Idx \subseteq Nat
    /\ \A i \in Idx : i + 1 \in 0..PageSize /\ i \in 0..PageSize
    /\ Empty \in [Idx -> Deals \union {NoDeal}]
    /\ "data" \in Tables /\ "index" \in Tables
  BY DealsAssumption DEF DealsAssumption, Rows, Idx, Empty, Tables

(* The local variables at rest. *)
LEMMA NoLocalsType ==
    /\ NoLocals \in Locals /\ NoLocals.deal = NoDeal /\ NoLocals.time = 0
    /\ NoLocals.before = {} /\ NoLocals.table = "data"
  BY Sets DEF NoLocals, Locals

(* The fields of the local variables. *)
LEMMA LocalsTypes ==
    ASSUME NEW l \in Locals
    PROVE  /\ l.table \in Tables /\ l.deal \in Deals \union {NoDeal} /\ l.time \in Nat
           /\ l.row \in Rows /\ l.index \in 0..PageSize /\ l.min_timestamp \in Nat
           /\ l.rows \in SUBSET Rows /\ l.found \in SUBSET Deals /\ l.before \in SUBSET Deals
           /\ l.misread \in SUBSET Rows
  BY DEF Locals

(* One process goes on. *)
LEMMA OneStep ==
    ASSUME TypeOK, NEW p \in Procs, NEW label \in Pcs, Goto(p, label),
           NEW l \in Locals, SetLocals(p, l)
    PROVE  /\ pc' \in [Procs -> Pcs] /\ loc' \in [Procs -> Locals]
           /\ pc'[p] = label /\ loc'[p] = l
           /\ \A q \in Procs \ {p} : pc'[q] = pc[q] /\ loc'[q] = loc[q]
  BY DEF TypeOK, Goto, SetLocals

(* clear_index_record_full(): a row is forgotten or it is not touched. *)
LEMMA ClearedRows ==
    ASSUME TypeOK, NEW t \in Tables, NEW R \in SUBSET Rows, ClearRows(t, R)
    PROVE  /\ expire_at' \in [Tables -> [Rows -> Nat]]
           /\ taken' \in [Tables -> [Rows -> 0..PageSize]]
           /\ elements' \in [Tables -> [Rows -> [Idx -> Deals \union {NoDeal}]]]
           /\ owner' \in [Tables -> [Rows -> [Idx -> Deals \union {NoDeal}]]]
           /\ named' \in [Tables -> SUBSET Rows]
           /\ \A s \in Tables \ {t} : /\ expire_at'[s] = expire_at[s] /\ taken'[s] = taken[s]
                                      /\ elements'[s] = elements[s] /\ owner'[s] = owner[s]
           /\ \A r \in R : /\ expire_at'[t][r] = 0 /\ taken'[t][r] = 0
                           /\ elements'[t][r] = Empty /\ owner'[t][r] = Empty
           /\ \A r \in Rows \ R : /\ expire_at'[t][r] = expire_at[t][r]
                                  /\ taken'[t][r] = taken[t][r]
                                  /\ elements'[t][r] = elements[t][r]
                                  /\ owner'[t][r] = owner[t][r]
  <1> USE DEF TypeOK, ClearRows
  <1>0. 0 \in 0..PageSize
    BY Sets
  <1>1. /\ expire_at' \in [Tables -> [Rows -> Nat]]
        /\ \A s \in Tables \ {t} : expire_at'[s] = expire_at[s]
        /\ \A r \in R : expire_at'[t][r] = 0
        /\ \A r \in Rows \ R : expire_at'[t][r] = expire_at[t][r]
    OBVIOUS
  <1>2. /\ taken' \in [Tables -> [Rows -> 0..PageSize]]
        /\ \A s \in Tables \ {t} : taken'[s] = taken[s]
        /\ \A r \in R : taken'[t][r] = 0
        /\ \A r \in Rows \ R : taken'[t][r] = taken[t][r]
    BY <1>0
  <1>3. /\ elements' \in [Tables -> [Rows -> [Idx -> Deals \union {NoDeal}]]]
        /\ \A s \in Tables \ {t} : elements'[s] = elements[s]
        /\ \A r \in R : elements'[t][r] = Empty
        /\ \A r \in Rows \ R : elements'[t][r] = elements[t][r]
    BY Sets
  <1>4. /\ owner' \in [Tables -> [Rows -> [Idx -> Deals \union {NoDeal}]]]
        /\ \A s \in Tables \ {t} : owner'[s] = owner[s]
        /\ \A r \in R : owner'[t][r] = Empty
        /\ \A r \in Rows \ R : owner'[t][r] = owner[t][r]
    BY Sets
  <1>5. named' \in [Tables -> SUBSET Rows]
    <2>1. named' = [named EXCEPT ![t] = @ \ R] /\ named \in [Tables -> SUBSET Rows]
      OBVIOUS
    <2>2. named[t] \ R \in SUBSET Rows
      BY <2>1
    <2> QED  BY <2>1, <2>2
  <1> QED  BY <1>1, <1>2, <1>3, <1>4, <1>5

(* The mappings of pages. *)
MappingsOK ==
    /\ opened_pages_list \in [Tables -> [Procs -> SUBSET Rows]]
    /\ stale \in [Tables -> [Procs -> SUBSET Rows]]

(* A page is mapped. *)
LEMMA OpenedPages ==
    ASSUME TypeOK, NEW p \in Procs, NEW t \in Tables, NEW R \in SUBSET Rows, OpenPages(p, t, R)
    PROVE  MappingsOK'
  <1>1. opened_pages_list \in [Tables -> [Procs -> SUBSET Rows]]
    BY DEF TypeOK
  <1> DEFINE new == opened_pages_list[t][p] \union R
  <1>2. new \in SUBSET Rows
    BY <1>1
  <1>3. opened_pages_list' = [opened_pages_list EXCEPT ![t][p] = new]
    BY DEF OpenPages
  <1> HIDE DEF new
  <1> QED  BY <1>1, <1>2, <1>3 DEF OpenPages, TypeOK, MappingsOK

(* The mappings when pages lose their names. *)
LEMMA UnlinkedPages ==
    ASSUME TypeOK, NEW p \in Procs, NEW t \in Tables, NEW R \in SUBSET Rows, NEW C,
           UnlinkPages(p, t, R, C)
    PROVE  MappingsOK'
  <1>1. /\ opened_pages_list \in [Tables -> [Procs -> SUBSET Rows]]
        /\ stale \in [Tables -> [Procs -> SUBSET Rows]]
    BY DEF TypeOK
  <1> DEFINE new == (opened_pages_list[t][p] \union R) \ C
             old == [q \in Procs |-> IF q = p THEN (stale[t][p] \union R) \ C
                                    ELSE stale[t][q] \union (R \intersect opened_pages_list[t][q])]
  <1>2. new \in SUBSET Rows /\ old \in [Procs -> SUBSET Rows]
    BY <1>1
  <1>3. /\ opened_pages_list' = [opened_pages_list EXCEPT ![t][p] = new]
        /\ stale' = [stale EXCEPT ![t] = old]
    BY DEF UnlinkPages
  <1> HIDE DEF new, old
  <1> QED  BY <1>1, <1>2, <1>3 DEF MappingsOK

(* A claim takes the element behind the last one of the row, or the first   *)
(* one of a row that it empties. *)
LEMMA ClaimedRow ==
    ASSUME TypeOK, NEW p \in Procs, NEW t \in Tables, NEW r \in Rows, NEW current \in BOOLEAN,
           Claim(p, t, r, current), current => taken[t][r] < PageSize,
           NEW i, i = IF current THEN taken[t][r] ELSE 0
    PROVE  /\ i \in Idx
           /\ expire_at' \in [Tables -> [Rows -> Nat]]
           /\ taken' \in [Tables -> [Rows -> 0..PageSize]]
           /\ owner' \in [Tables -> [Rows -> [Idx -> Deals \union {NoDeal}]]]
           /\ \A s \in Tables \ {t} : /\ expire_at'[s] = expire_at[s] /\ taken'[s] = taken[s]
                                      /\ owner'[s] = owner[s]
           /\ \A s \in Rows \ {r} : /\ expire_at'[t][s] = expire_at[t][s]
                                    /\ taken'[t][s] = taken[t][s] /\ owner'[t][s] = owner[t][s]
           /\ taken'[t][r] = i + 1
           /\ expire_at'[t][r] >= loc[p].time + DEALS_EXPIRES
           /\ current => expire_at'[t][r] >= expire_at[t][r]
           /\ owner'[t][r][i] = loc[p].deal
           /\ \A j \in Idx \ {i} : owner'[t][r][j] = IF current THEN owner[t][r][j] ELSE NoDeal
           /\ loc' \in [Procs -> Locals] /\ pc' \in [Procs -> Pcs]
           /\ pc'[p] = "add_copy"
           /\ \A q \in Procs \ {p} : pc'[q] = pc[q] /\ loc'[q] = loc[q]
           /\ loc'[p].row = r /\ loc'[p].index = i /\ loc'[p].table = loc[p].table
           /\ loc'[p].deal = loc[p].deal /\ loc'[p].time = loc[p].time
           /\ loc'[p].before = loc[p].before
  <1>0. loc[p] \in Locals /\ loc[p].time \in Nat /\ loc[p].deal \in Deals \union {NoDeal}
          /\ expire_at[t][r] \in Nat /\ taken[t][r] \in 0..PageSize
          /\ owner[t][r] \in [Idx -> Deals \union {NoDeal}]
    BY LocalsTypes DEF TypeOK
  <1>1. i \in Idx /\ i \in Nat /\ i + 1 \in 0..PageSize /\ i \in 0..PageSize
    BY <1>0, Sets DEF Idx
  <1>2. /\ taken' \in [Tables -> [Rows -> 0..PageSize]]
        /\ \A s \in Tables \ {t} : taken'[s] = taken[s]
        /\ \A s \in Rows \ {r} : taken'[t][s] = taken[t][s]
        /\ taken'[t][r] = i + 1
    <2>1. taken' = [taken EXCEPT ![t][r] = i + 1]
      BY DEF Claim
    <2> QED  BY <1>1, <2>1 DEF TypeOK
  <1>3. /\ expire_at' \in [Tables -> [Rows -> Nat]]
        /\ \A s \in Tables \ {t} : expire_at'[s] = expire_at[s]
        /\ \A s \in Rows \ {r} : expire_at'[t][s] = expire_at[t][s]
        /\ expire_at'[t][r] >= loc[p].time + DEALS_EXPIRES
        /\ current => expire_at'[t][r] >= expire_at[t][r]
    <2> DEFINE e == Larger(IF current THEN expire_at[t][r] ELSE 0, loc[p].time + DEALS_EXPIRES)
    <2>1. expire_at' = [expire_at EXCEPT ![t][r] = e]
      BY DEF Claim
    <2>2. e \in Nat /\ e >= loc[p].time + DEALS_EXPIRES /\ (current => e >= expire_at[t][r])
      BY <1>0, Sets DEF Larger
    <2> HIDE DEF e
    <2> QED  BY <2>1, <2>2 DEF TypeOK
  <1>4. /\ owner' \in [Tables -> [Rows -> [Idx -> Deals \union {NoDeal}]]]
        /\ \A s \in Tables \ {t} : owner'[s] = owner[s]
        /\ \A s \in Rows \ {r} : owner'[t][s] = owner[t][s]
        /\ owner'[t][r][i] = loc[p].deal
        /\ \A j \in Idx \ {i} : owner'[t][r][j] = IF current THEN owner[t][r][j] ELSE NoDeal
    <2> DEFINE old == IF current THEN owner[t][r] ELSE Empty
               new == [old EXCEPT ![i] = loc[p].deal]
    <2>1. owner' = [owner EXCEPT ![t][r] = new]
      BY DEF Claim
    <2>2. old \in [Idx -> Deals \union {NoDeal}]
      BY <1>0, Sets
    <2>3. \A j \in Idx : old[j] = IF current THEN owner[t][r][j] ELSE NoDeal
      BY DEF Empty
    <2> HIDE DEF old
    <2>4. /\ new \in [Idx -> Deals \union {NoDeal}] /\ new[i] = loc[p].deal
          /\ \A j \in Idx \ {i} : new[j] = old[j]
      BY <1>0, <1>1, <2>2
    <2> HIDE DEF new
    <2>5. /\ owner' \in [Tables -> [Rows -> [Idx -> Deals \union {NoDeal}]]]
          /\ \A s \in Tables \ {t} : owner'[s] = owner[s]
          /\ \A s \in Rows \ {r} : owner'[t][s] = owner[t][s]
          /\ owner'[t][r] = new
      BY <2>1, <2>4 DEF TypeOK
    <2> QED  BY <2>3, <2>4, <2>5
  <1>5. /\ loc' \in [Procs -> Locals] /\ pc' \in [Procs -> Pcs] /\ pc'[p] = "add_copy"
        /\ \A q \in Procs \ {p} : pc'[q] = pc[q] /\ loc'[q] = loc[q]
        /\ loc'[p].row = r /\ loc'[p].index = i /\ loc'[p].table = loc[p].table
        /\ loc'[p].deal = loc[p].deal /\ loc'[p].time = loc[p].time
        /\ loc'[p].before = loc[p].before
    <2> DEFINE l == [loc[p] EXCEPT !.row = r, !.index = i]
    <2>1. l \in Locals
      BY <1>0, <1>1 DEF Locals
    <2>2. /\ l.row = r /\ l.index = i /\ l.table = loc[p].table
          /\ l.deal = loc[p].deal /\ l.time = loc[p].time /\ l.before = loc[p].before
      BY <1>0 DEF Locals
    <2>3. SetLocals(p, l) /\ Goto(p, "add_copy") /\ "add_copy" \in Pcs
      BY DEF Claim, Pcs
    <2> HIDE DEF l
    <2> QED  BY <2>1, <2>2, <2>3, OneStep
  <1> QED  BY <1>1, <1>2, <1>3, <1>4, <1>5

(* A sweep, if there is one, gets through its rows, from the last one on,   *)
(* or only through some.                                                    *)
Swept(p, t) ==
    \/ UNCHANGED tableVars
    \/ /\ holder[t] = NoProc
       /\ \E R \in SUBSET SweptRows(t), C \in SUBSET Rows :
            /\ \A r \in R, s \in SweptRows(t) : s > r => s \in R
            /\ ClearRows(t, R) /\ UnlinkPages(p, t, R, C)

(* The two ways in which release_expired_memory_pages() ends. *)
LEMMA SweepEnds ==
    ASSUME StepsInv, NEW p \in Procs, NEW t \in Tables,
           ReleaseExpired(p, t) \/ (SweepFails(p) /\ t = loc[p].table)
    PROVE  Swept(p, t)
  <1>0. SweptRows(t) \in SUBSET Rows /\ stale[t][p] \in SUBSET Rows
    BY DEF SweptRows, UsedRows, StepsInv, TypeOK
  <1>1. CASE ReleaseExpired(p, t)
    <2>1. CASE UNCHANGED tableVars
      BY <2>1 DEF Swept
    <2>2. CASE ~UNCHANGED tableVars
      <3>1. holder[t] = NoProc
        BY <1>1, <2>2 DEF ReleaseExpired
      <3>2. PICK R \in {{}, SweptRows(t)}, marked \in SUBSET stale[t][p] :
                   ClearRows(t, R) /\ UnlinkPages(p, t, R, R \union marked)
        BY <1>1, <2>2 DEF ReleaseExpired
      <3> DEFINE C == R \union marked
      <3>3. R \in SUBSET SweptRows(t) /\ C \in SUBSET Rows
              /\ \A r \in R, s \in SweptRows(t) : s > r => s \in R
        BY <1>0
      <3>4. ClearRows(t, R) /\ UnlinkPages(p, t, R, C)
        BY <3>2
      <3> HIDE DEF C
      <3> QED  BY <3>1, <3>3, <3>4 DEF Swept
    <2> QED  BY <2>1, <2>2
  <1>2. CASE SweepFails(p) /\ t = loc[p].table
    <2>1. holder[t] = NoProc
      BY <1>2 DEF SweepFails
    <2>2. PICK k \in SweptRows(t) :
            LET R == {r \in SweptRows(t) : r > k}
            IN ClearRows(t, R) /\ UnlinkPages(p, t, R, {})
      BY <1>2 DEF SweepFails
    <2> DEFINE R == {r \in SweptRows(t) : r > k}
               C == {}
    <2>3. R \in SUBSET SweptRows(t) /\ C \in SUBSET Rows
            /\ \A r \in R, s \in SweptRows(t) : s > r => s \in R
      <3>1. \A r \in SweptRows(t) : r \in Nat
        BY <1>0, Sets
      <3> QED  BY <3>1
    <2>4. ClearRows(t, R) /\ UnlinkPages(p, t, R, C)
      BY <2>2
    <2> HIDE DEF R, C
    <2> QED  BY <2>1, <2>3, <2>4 DEF Swept
  <1> QED  BY <1>1, <1>2

(* A sweep forgets rows that nothing visible is in, and the last ones of    *)
(* those in use.                                                            *)
LEMMA ReleasedRows ==
    ASSUME StepsInv, NEW p \in Procs, NEW t \in Tables, Swept(p, t)
    PROVE  /\ expire_at' \in [Tables -> [Rows -> Nat]]
           /\ taken' \in [Tables -> [Rows -> 0..PageSize]]
           /\ elements' \in [Tables -> [Rows -> [Idx -> Deals \union {NoDeal}]]]
           /\ owner' \in [Tables -> [Rows -> [Idx -> Deals \union {NoDeal}]]]
           /\ named' \in [Tables -> SUBSET Rows]
           /\ MappingsOK'
           /\ \A s \in Tables : holder[s] # NoProc => expire_at'[s] = expire_at[s]
           /\ \A s \in Tables \ {t} : /\ expire_at'[s] = expire_at[s] /\ taken'[s] = taken[s]
                                      /\ elements'[s] = elements[s] /\ owner'[s] = owner[s]
           /\ \E R \in SUBSET Rows :
                /\ \A r \in R : /\ expire_at'[t][r] = 0 /\ taken'[t][r] = 0
                                /\ elements'[t][r] = Empty /\ owner'[t][r] = Empty
                                /\ expire_at[t][r] <= Hidden
                                /\ \A s \in UsedRows(t) : s > r => s \in R
                /\ \A r \in Rows \ R : /\ expire_at'[t][r] = expire_at[t][r]
                                       /\ taken'[t][r] = taken[t][r]
                                       /\ elements'[t][r] = elements[t][r]
                                       /\ owner'[t][r] = owner[t][r]
  <1>1. CASE UNCHANGED tableVars
    <2>1. {} \in SUBSET Rows
      OBVIOUS
    <2>2. /\ expire_at' = expire_at /\ taken' = taken /\ elements' = elements /\ owner' = owner
          /\ named' = named /\ opened_pages_list' = opened_pages_list /\ stale' = stale
      BY <1>1 DEF tableVars, indexVars, pageVars
    <2> QED  BY <2>1, <2>2 DEF StepsInv, TypeOK, MappingsOK
  <1>2. CASE holder[t] = NoProc /\ ~UNCHANGED tableVars
    <2>0. PICK R \in SUBSET SweptRows(t), C \in SUBSET Rows :
            /\ \A r \in R, s \in SweptRows(t) : s > r => s \in R
            /\ ClearRows(t, R) /\ UnlinkPages(p, t, R, C)
      BY <1>2 DEF Swept
    <2>1. R \in SUBSET Rows
      BY DEF SweptRows, UsedRows
    <2>2. \A r \in R : expire_at[t][r] <= Hidden
      <3> SUFFICES ASSUME NEW r \in R  PROVE expire_at[t][r] <= Hidden
        OBVIOUS
      <3>1. r \in Rows /\ r \in UsedRows(t) /\ ~HoldsData(t, r)
        <4>1. r \in UsedRows(t) /\ (\A s \in UsedRows(t) : s >= r => ~HoldsData(t, s))
          BY DEF SweptRows
        <4>2. r \in Rows
          BY <4>1 DEF UsedRows
        <4>3. r \in Nat
          BY <4>2, Sets
        <4>4. r >= r
          BY <4>3
        <4> QED  BY <4>1, <4>2, <4>4
      <3>2. expire_at[t][r] \in Nat /\ now \in Nat /\ global_expire_at \in Nat /\ highest \in Nat
              /\ REMOVE_DELAY_SEC \in Nat /\ global_expire_at <= highest
        BY <3>1, DealsAssumption DEF StepsInv, TypeOK, DealsAssumption
      <3> QED  BY <3>1, <3>2 DEF HoldsData, Hidden, Larger
    <2>3. \A r \in R : \A s \in UsedRows(t) : s > r => s \in R
      <3> SUFFICES ASSUME NEW r \in SweptRows(t), NEW s \in UsedRows(t), s > r
                   PROVE  s \in SweptRows(t)
        BY <2>0
      <3>1. r \in Rows /\ s \in Rows /\ r \in Nat /\ s \in Nat /\ REMOVE_AT_ONCE \in Nat
        BY Sets, DealsAssumption DEF SweptRows, UsedRows, DealsAssumption
      <3>2. s # 0 /\ \A q \in UsedRows(t) : q >= s => ~HoldsData(t, q)
        <4> SUFFICES ASSUME NEW q \in UsedRows(t), q >= s  PROVE ~HoldsData(t, q)
          BY <3>1
        <4>1. q \in Nat
          BY Sets DEF UsedRows
        <4>2. q >= r
          BY <4>1, <3>1
        <4> QED  BY <4>2 DEF SweptRows
      <3>3. s + REMOVE_AT_ONCE \notin UsedRows(t)
        <4> SUFFICES ASSUME s + REMOVE_AT_ONCE \in UsedRows(t)  PROVE FALSE
          OBVIOUS
        <4>1. r + REMOVE_AT_ONCE \in Rows
          BY <3>1, DealsAssumption DEF UsedRows, Rows, DealsAssumption
        <4>2. r + REMOVE_AT_ONCE <= s + REMOVE_AT_ONCE
          BY <3>1
        <4> DEFINE a == r + REMOVE_AT_ONCE
                   b == s + REMOVE_AT_ONCE
        <4>3. a \in Nat /\ b \in Nat
          BY <3>1
        <4>4. a \in Rows /\ b \in UsedRows(t) /\ a <= b /\ a \notin UsedRows(t)
          BY <4>1, <4>2 DEF SweptRows
        <4> HIDE DEF a, b
        <4>5. \A q \in Rows : q <= b => expire_at[t][q] > 0
          BY <4>4 DEF UsedRows
        <4>6. \A q \in Rows : q <= a => expire_at[t][q] > 0
          BY <4>3, <4>4, <4>5, Sets
        <4> QED  BY <4>4, <4>6 DEF UsedRows
      <3> QED  BY <3>2, <3>3 DEF SweptRows
    <2>4. \A s \in Tables : holder[s] # NoProc => s # t
      BY <1>2
    <2>5. TypeOK
      BY DEF StepsInv
    <2>6. ClearRows(t, R) /\ UnlinkPages(p, t, R, C)
      BY <2>0
    <2>7. /\ expire_at' \in [Tables -> [Rows -> Nat]]
          /\ taken' \in [Tables -> [Rows -> 0..PageSize]]
          /\ elements' \in [Tables -> [Rows -> [Idx -> Deals \union {NoDeal}]]]
          /\ owner' \in [Tables -> [Rows -> [Idx -> Deals \union {NoDeal}]]]
          /\ named' \in [Tables -> SUBSET Rows]
          /\ \A s \in Tables \ {t} : /\ expire_at'[s] = expire_at[s] /\ taken'[s] = taken[s]
                                     /\ elements'[s] = elements[s] /\ owner'[s] = owner[s]
          /\ \A r \in R : /\ expire_at'[t][r] = 0 /\ taken'[t][r] = 0
                          /\ elements'[t][r] = Empty /\ owner'[t][r] = Empty
          /\ \A r \in Rows \ R : /\ expire_at'[t][r] = expire_at[t][r]
                                 /\ taken'[t][r] = taken[t][r]
                                 /\ elements'[t][r] = elements[t][r]
                                 /\ owner'[t][r] = owner[t][r]
      BY <2>1, <2>5, <2>6, ClearedRows
    <2>8. MappingsOK'
      BY <2>1, <2>5, <2>6, UnlinkedPages
    <2> QED  BY <2>1, <2>2, <2>3, <2>4, <2>7, <2>8
  <1> QED  BY <1>1, <1>2 DEF Swept

-----------------------------------------------------------------------------
(* The processes                                                            *)

(* What a step of p leaves to the others. *)
Frame(p) ==
    /\ \A q \in Procs \ {p} : pc'[q] = pc[q] /\ loc'[q] = loc[q]
    /\ loc'[p].deal \in {loc[p].deal, NoDeal} \union (Deals \ begun)
    /\ now' = now /\ highest' >= highest /\ global_expire_at' <= highest'
    /\ begun \subseteq begun' /\ done \subseteq done'
    /\ done' \subseteq done \union {loc[p].deal}
    /\ \A d \in Deals : d # loc[p].deal => info'[d] = info[d]
    /\ \A t \in Tables, q \in Procs \ {p} :
         holder[t] = q => holder'[t] = q /\ expire_at'[t] = expire_at[t]

(* A process that is not at work does not see the others go on. *)
LEMMA OthersStep ==
    ASSUME StepsInv, TypeOK', NEW p \in Procs, Frame(p), NEW q \in Procs \ {p}
    PROVE  StepOK(q)'
  <1>1. pc'[q] = pc[q] /\ loc'[q] = loc[q] /\ now' = now /\ Hidden' >= Hidden
          /\ begun \subseteq begun' /\ done \subseteq done'
    <2>1. highest \in Nat /\ highest' \in Nat /\ now \in Nat /\ now' = now /\ highest' >= highest
      BY DEF StepsInv, TypeOK, Frame
    <2>2. Hidden' >= Hidden
      BY <2>1 DEF Hidden, Larger
    <2> QED  BY <2>1, <2>2 DEF Frame
  <1>2. StepOK(q) /\ loc[q] \in Locals /\ pc[q] \in Pcs /\ NoDeal \notin Deals
    BY DealsAssumption DEF StepsInv, TypeOK, DealsAssumption
  <1>3. pc[q] \in Adding => /\ loc[q].deal \in Deals /\ info'[loc[q].deal] = info[loc[q].deal]
                            /\ loc[q].deal \notin done'
    <2> SUFFICES ASSUME pc[q] \in Adding
                 PROVE  /\ loc[q].deal \in Deals /\ info'[loc[q].deal] = info[loc[q].deal]
                        /\ loc[q].deal \notin done'
      OBVIOUS
    <2>1. loc[q].deal \in begun \ done /\ loc[q].deal \in Deals
      BY <1>2 DEF StepOK, StepsInv, TypeOK
    <2>2. loc[q].deal # loc[p].deal
      BY <1>2, <2>1 DEF StepsInv, Distinct
    <2> QED  BY <2>1, <2>2 DEF Frame
  <1>4. pc[q] = "add_raise" => /\ holder'[loc[q].table] = q
                               /\ expire_at'[loc[q].table] = expire_at[loc[q].table]
    BY <1>2, LocalsTypes DEF StepOK, Frame
  <1>5. pc[q] \in Scanning => loc[q].min_timestamp + DEALS_EXPIRES <= Hidden'
    <2>1. loc[q].min_timestamp \in Nat /\ DEALS_EXPIRES \in Nat /\ Hidden \in Nat /\ Hidden' \in Nat
      BY <1>2, LocalsTypes, Sets DEF StepsInv, TypeOK, Hidden, Larger
    <2> QED  BY <1>1, <1>2, <2>1 DEF StepOK
  <1> QED  BY <1>1, <1>2, <1>3, <1>4, <1>5 DEF StepOK, Adding

(* So a step preserves the invariant when p itself is where it should be. *)
LEMMA GoesOn ==
    ASSUME StepsInv, TypeOK', NEW p \in Procs, Frame(p), StepOK(p)', done' \subseteq begun'
    PROVE  StepsInv'
  <1>1. \A q \in Procs : StepOK(q)'
    BY OthersStep
  <1>2. \A d \in Deals : info'[d].timestamp > 0 => d \in begun'
    <2> SUFFICES ASSUME NEW d \in Deals, info'[d].timestamp > 0  PROVE d \in begun'
      OBVIOUS
    <2>1. CASE d = loc[p].deal
      <3>1. pc[p] \in Adding
        BY <2>1, DealsAssumption DEF StepsInv, StepOK, DealsAssumption
      <3> QED  BY <3>1, <2>1 DEF StepsInv, StepOK, Frame
    <2>2. CASE d # loc[p].deal
      BY <2>2 DEF StepsInv, Frame
    <2> QED  BY <2>1, <2>2
  <1>3. Distinct'
    <2> SUFFICES ASSUME NEW q \in Procs, NEW s \in Procs, q # s, loc'[q].deal # NoDeal,
                        loc'[q].deal = loc'[s].deal
                 PROVE  FALSE
      BY DEF Distinct
    <2>1. \A o \in Procs : loc[o].deal # NoDeal => loc[o].deal \in begun
      BY DEF StepsInv, StepOK
    <2>2. \A o, u \in Procs : o # u /\ loc[o].deal # NoDeal => loc[o].deal # loc[u].deal
      BY DEF StepsInv, Distinct
    <2>3. /\ \A o \in Procs \ {p} : loc'[o] = loc[o]
          /\ loc'[p].deal \in {loc[p].deal, NoDeal} \union (Deals \ begun)
      BY DEF Frame
    <2> QED  BY <2>1, <2>2, <2>3
  <1>4. global_expire_at' <= highest' /\ StartTime <= now'
    BY DEF Frame, StepsInv
  <1> QED  BY <1>1, <1>2, <1>3, <1>4 DEF StepsInv

(* The types that the steps below cite. *)
LEMMA Types ==
    ASSUME StepsInv, NEW p \in Procs
    PROVE  /\ now \in Nat /\ highest \in Nat /\ global_expire_at \in Nat /\ Hidden \in Nat
           /\ Hidden >= now /\ Hidden >= highest /\ Hidden >= global_expire_at
           /\ now > 0 /\ now >= DEALS_EXPIRES
           /\ pc[p] \in Pcs /\ loc[p] \in Locals
           /\ \A d \in Deals : info[d] \in DealInfo /\ info[d].timestamp \in Nat
           /\ NoDeal \notin Deals /\ NoProc \notin Procs
           /\ pc[p] \in Adding => loc[p].deal \in Deals
           /\ StepOK(p) /\ TypeOK /\ holder \in [Tables -> Procs \union {NoProc}]
  <1>1. now \in Nat /\ highest \in Nat /\ global_expire_at \in Nat /\ StartTime <= now
          /\ global_expire_at <= highest /\ StepOK(p) /\ TypeOK
          /\ pc[p] \in Pcs /\ loc[p] \in Locals
          /\ holder \in [Tables -> Procs \union {NoProc}]
    BY DEF StepsInv, TypeOK
  <1>2. StartTime \in Nat /\ DEALS_EXPIRES \in Nat \ {0} /\ StartTime >= DEALS_EXPIRES
          /\ NoDeal \notin Deals /\ NoProc \notin Procs
    BY DealsAssumption DEF DealsAssumption
  <1>3. \A d \in Deals : info[d] \in DealInfo /\ info[d].timestamp \in Nat
    BY <1>1 DEF TypeOK, DealInfo
  <1>4. pc[p] \in Adding => loc[p].deal \in Deals
    BY <1>1 DEF StepOK, TypeOK
  <1>5. Hidden \in Nat /\ Hidden >= now /\ Hidden >= highest /\ Hidden >= global_expire_at
    BY <1>1 DEF Hidden, Larger
  <1> QED  BY <1>1, <1>2, <1>3, <1>4, <1>5

(* An operation ends, by a return or an exception. *)
LEMMA Ends ==
    ASSUME StepsInv, NEW p \in Procs, EndOp(p), now' = now
    PROVE  /\ pc' \in [Procs -> Pcs] /\ loc' \in [Procs -> Locals]
           /\ \A q \in Procs \ {p} : pc'[q] = pc[q] /\ loc'[q] = loc[q]
           /\ loc'[p].deal = NoDeal /\ pc'[p] = "idle" /\ StepOK(p)'
  <1>1. TypeOK /\ "idle" \in Pcs /\ Goto(p, "idle") /\ SetLocals(p, NoLocals) /\ now \in Nat
    BY Types DEF Pcs, EndOp
  <1>2. /\ pc' \in [Procs -> Pcs] /\ loc' \in [Procs -> Locals]
        /\ pc'[p] = "idle" /\ loc'[p] = NoLocals
        /\ \A q \in Procs \ {p} : pc'[q] = pc[q] /\ loc'[q] = loc[q]
    BY <1>1, NoLocalsType, OneStep
  <1>3. StepOK(p)'
    BY <1>1, <1>2, NoLocalsType DEF StepOK, Adding, Scanning
  <1> QED  BY <1>2, <1>3, NoLocalsType

(* Nothing but a process, its mappings and the count of the bounded events. *)
Still ==
    /\ UNCHANGED <<indexVars, elements, holder, info, global_expire_at, now,
                   highest, begun, truncated, spoilt>>
    /\ MappingsOK'

(* A step that changes only its process, which returns in the end. *)
LEMMA StillSteps ==
    ASSUME StepsInv, NEW p \in Procs, Still, ops' \in Nat,
           pc' \in [Procs -> Pcs], loc' \in [Procs -> Locals],
           \A q \in Procs \ {p} : pc'[q] = pc[q] /\ loc'[q] = loc[q],
           loc'[p].deal \in {loc[p].deal, NoDeal}, done' = done, StepOK(p)'
    PROVE  StepsInv'
  <1>1. TypeOK'
    BY DEF StepsInv, TypeOK, Still, indexVars, MappingsOK
  <1>2. Frame(p)
    <2>1. highest \in Nat /\ global_expire_at <= highest
      BY Types DEF StepsInv
    <2> QED  BY <2>1 DEF Frame, Still, indexVars
  <1>3. done' \subseteq begun'
    BY DEF StepsInv, Still
  <1> QED  BY <1>1, <1>2, <1>3, GoesOn

(* An operation that returns or throws keeps the meaning of the steps. *)
LEMMA EndsInv ==
    ASSUME StepsInv, NEW p \in Procs,
           NoSpaceToInsert(p) \/ fill_deals_with_data(p) \/ NamelessRow(p) \/ Throws(p)
    PROVE  StepsInv' /\ Still /\ EndOp(p) /\ now' = now /\ done' = done
  <1>1. Still /\ EndOp(p) /\ ops' \in Nat /\ done' = done /\ now' = now
    <2>1. ops \in Nat /\ MappingsOK
      BY DEF StepsInv, TypeOK, MappingsOK
    <2>2. CASE NoSpaceToInsert(p) \/ NamelessRow(p) \/ Throws(p)
      <3>1. UNCHANGED tableVars
        BY <2>2 DEF NoSpaceToInsert, NamelessRow, Throws
      <3>2. MappingsOK'
        BY <2>1, <3>1 DEF MappingsOK, tableVars, pageVars
      <3> QED  BY <2>1, <2>2, <3>1, <3>2 DEF NoSpaceToInsert, NamelessRow, Throws, Still,
                 historyVars, tableVars, pageVars
    <2>3. CASE fill_deals_with_data(p)
      <3> DEFINE R == {info[d].row : d \in loc[p].found}
      <3>1. R \in SUBSET Rows
        BY Types, LocalsTypes DEF DealInfo
      <3>2. OpenPages(p, "data", R)
        BY <2>3 DEF fill_deals_with_data
      <3> HIDE DEF R
      <3>3. MappingsOK'
        BY <3>1, <3>2, Types, Sets, OpenedPages
      <3> QED  BY <2>1, <2>3, <3>3 DEF fill_deals_with_data, Still, historyVars
    <2> QED  BY <2>2, <2>3
  <1> QED  BY <1>1, Ends, StillSteps

(* searchFor() and truncate() begin with local variables that mean what     *)
(* their first steps take them to mean.                                     *)
LEMMA BeginsInv ==
    ASSUME StepsInv, NEW p \in Procs, searchFor(p) \/ truncate(p)
    PROVE  StepsInv'
  <1>1. Still /\ ops' \in Nat /\ done' = done /\ now' = now /\ highest' = highest
    <2>1. ops \in Nat /\ MappingsOK
      BY DEF StepsInv, TypeOK, MappingsOK
    <2>2. UNCHANGED tableVars
      BY DEF searchFor, truncate
    <2> QED  BY <2>1, <2>2 DEF searchFor, truncate, Still, historyVars, tableVars, pageVars,
               MappingsOK
  <1>2. CASE searchFor(p)
    <2> DEFINE l == [NoLocals EXCEPT !.table = "index",
                       !.min_timestamp = MinTimestamp, !.before = done]
    <2>1. MinTimestamp \in Nat /\ MinTimestamp + DEALS_EXPIRES <= Hidden
      BY Types, Sets DEF MinTimestamp, Larger
    <2> DEFINE m == MinTimestamp
    <2> HIDE DEF m
    <2>2. m \in Nat /\ m + DEALS_EXPIRES <= Hidden /\ done \subseteq Deals
      BY <2>1 DEF m, StepsInv, TypeOK
    <2>3. l = [NoLocals EXCEPT !.table = "index", !.min_timestamp = m, !.before = done]
      BY DEF m
    <2>4. l \in Locals
      BY <2>2, <2>3, Sets DEF NoLocals, Locals
    <2>5. l.deal = NoDeal /\ l.time = 0 /\ l.before = done /\ l.min_timestamp = m
      BY <2>3 DEF NoLocals
    <2>6. SetLocals(p, l) /\ Goto(p, "scan_begin") /\ "scan_begin" \in Pcs
      BY <1>2 DEF searchFor, Pcs
    <2> HIDE DEF l
    <2>7. /\ pc' \in [Procs -> Pcs] /\ loc' \in [Procs -> Locals]
          /\ pc'[p] = "scan_begin" /\ loc'[p] = l
          /\ \A q \in Procs \ {p} : pc'[q] = pc[q] /\ loc'[q] = loc[q]
      BY <2>4, <2>6, Types, OneStep
    <2>8. now' \in Nat /\ Hidden' = Hidden
      BY <1>1, Types DEF Hidden
    <2>9. StepOK(p)'
      BY <1>1, <2>2, <2>5, <2>7, <2>8 DEF StepOK, Adding, Scanning
    <2> QED  BY <1>1, <2>5, <2>7, <2>9, StillSteps
  <1>3. CASE truncate(p)
    <2> DEFINE l == [NoLocals EXCEPT !.table = "data"]
    <2>1. l = NoLocals
      BY DEF NoLocals
    <2>2. SetLocals(p, NoLocals) /\ Goto(p, "clean") /\ "clean" \in Pcs
      BY <1>3, <2>1 DEF truncate, Pcs
    <2>3. /\ pc' \in [Procs -> Pcs] /\ loc' \in [Procs -> Locals]
          /\ pc'[p] = "clean" /\ loc'[p] = NoLocals
          /\ \A q \in Procs \ {p} : pc'[q] = pc[q] /\ loc'[q] = loc[q]
      BY <2>2, NoLocalsType, Types, OneStep
    <2>4. StepOK(p)'
      BY <1>1, <2>3, NoLocalsType, Types DEF StepOK, Adding, Scanning
    <2> QED  BY <1>1, <2>3, <2>4, NoLocalsType, StillSteps
  <1> QED  BY <1>2, <1>3

(* The rows that are still to be read, and what has been found. *)
LEMMA VisitStep ==
    ASSUME StepsInv, NEW p \in Procs, NEW rows \in SUBSET Rows, NEW found \in SUBSET Deals,
           NEW misread \in SUBSET Rows, Visit(p, rows, found, misread), pc[p] \in Scanning
    PROVE  /\ pc' \in [Procs -> Pcs] /\ loc' \in [Procs -> Locals]
           /\ \A q \in Procs \ {p} : pc'[q] = pc[q] /\ loc'[q] = loc[q]
           /\ pc'[p] = IF rows = {} THEN "fill" ELSE "scan_read"
           /\ loc'[p].rows = rows /\ loc'[p].found = found
           /\ loc'[p].misread = misread
           /\ loc'[p].deal = loc[p].deal /\ loc'[p].before = loc[p].before
           /\ loc'[p].time = loc[p].time /\ loc'[p].min_timestamp = loc[p].min_timestamp
  <1> DEFINE l == [loc[p] EXCEPT !.rows = rows, !.found = found, !.misread = misread]
             label == IF rows = {} THEN "fill" ELSE "scan_read"
  <1>1. loc[p] \in Locals
    BY Types
  <1>2. l \in Locals
    BY <1>1 DEF Locals
  <1>3. /\ l.rows = rows /\ l.found = found /\ l.misread = misread /\ l.deal = loc[p].deal /\ l.before = loc[p].before
        /\ l.time = loc[p].time /\ l.min_timestamp = loc[p].min_timestamp
    BY <1>1 DEF Locals
  <1>4. SetLocals(p, l) /\ Goto(p, label) /\ label \in Pcs
    BY DEF Visit, Pcs
  <1> HIDE DEF l, label
  <1>5. /\ pc' \in [Procs -> Pcs] /\ loc' \in [Procs -> Locals] /\ pc'[p] = label /\ loc'[p] = l
        /\ \A q \in Procs \ {p} : pc'[q] = pc[q] /\ loc'[q] = loc[q]
    BY <1>2, <1>4, Types, OneStep
  <1> QED  BY <1>3, <1>5 DEF label

(* A row that is read has been seen, or its page had lost its name. *)
LEMMA PageRead ==
    ASSUME StepsInv, NEW p \in Procs, ReadPage(p)
    PROVE  /\ Still /\ ops' = ops /\ done' = done /\ pc[p] = "scan_read"
           /\ \E row \in loc[p].rows, found \in SUBSET Deals, misread \in SUBSET Rows :
                /\ Visit(p, loc[p].rows \ {row}, found, misread)
                /\ loc[p].found \subseteq found /\ loc[p].misread \subseteq misread
                /\ row \in misread \/ process_element(p, row) \subseteq found
  <1>1. PICK row \in loc[p].rows :
          \/ /\ Visit(p, loc[p].rows \ {row}, loc[p].found, loc[p].misread \union {row})
             /\ UNCHANGED pageVars
          \/ /\ Visit(p, loc[p].rows \ {row}, loc[p].found \union process_element(p, row),
                         loc[p].misread)
             /\ OpenPages(p, "index", {row})
             /\ UNCHANGED elements
    BY DEF ReadPage
  <1>2. /\ loc[p].rows \in SUBSET Rows /\ loc[p].found \in SUBSET Deals
        /\ loc[p].misread \in SUBSET Rows /\ row \in Rows
        /\ process_element(p, row) \in SUBSET Deals
    BY Types, LocalsTypes DEF process_element
  <1>3. MappingsOK' /\ elements' = elements
    <2>1. CASE UNCHANGED pageVars
      BY <2>1, Types DEF TypeOK, pageVars, MappingsOK
    <2>2. CASE OpenPages(p, "index", {row}) /\ UNCHANGED elements
      <3>1. {row} \in SUBSET Rows
        BY <1>2
      <3> QED  BY <2>2, <3>1, Types, Sets, OpenedPages
    <2> QED  BY <1>1, <2>1, <2>2
  <1>4. Still /\ ops' = ops /\ done' = done /\ pc[p] = "scan_read"
    BY <1>3 DEF ReadPage, Still, historyVars
  <1>5. CASE Visit(p, loc[p].rows \ {row}, loc[p].found, loc[p].misread \union {row})
    <2> DEFINE misread == loc[p].misread \union {row}
    <2>1. misread \in SUBSET Rows /\ row \in misread /\ loc[p].misread \subseteq misread
      BY <1>2
    <2>2. Visit(p, loc[p].rows \ {row}, loc[p].found, misread)
      BY <1>5
    <2> HIDE DEF misread
    <2> QED  BY <1>2, <1>4, <2>1, <2>2
  <1>6. CASE Visit(p, loc[p].rows \ {row}, loc[p].found \union process_element(p, row),
                   loc[p].misread)
    <2> DEFINE found == loc[p].found \union process_element(p, row)
    <2>1. /\ found \in SUBSET Deals /\ loc[p].found \subseteq found
          /\ process_element(p, row) \subseteq found
      BY <1>2
    <2>2. Visit(p, loc[p].rows \ {row}, found, loc[p].misread)
      BY <1>6
    <2> HIDE DEF found
    <2> QED  BY <1>2, <1>4, <2>1, <2>2
  <1> QED  BY <1>1, <1>5, <1>6

(* The two parts of a scan, under the lock and after it, keep the meaning   *)
(* of the steps.                                                            *)
LEMMA ReadsInv ==
    ASSUME StepsInv, NEW p \in Procs, CollectRows(p) \/ ReadPage(p)
    PROVE  /\ StepsInv' /\ Still /\ done' = done
           /\ pc'[p] \in {"fill", "scan_read"}
           /\ \A q \in Procs \ {p} : pc'[q] = pc[q] /\ loc'[q] = loc[q]
  <1>1. Still /\ ops' \in Nat /\ done' = done /\ now' = now /\ highest' = highest
    <2>1. ops \in Nat /\ MappingsOK
      BY DEF StepsInv, TypeOK, MappingsOK
    <2>2. CASE CollectRows(p)
      BY <2>1, <2>2 DEF CollectRows, Still, historyVars, tableVars, pageVars, MappingsOK
    <2>3. CASE ReadPage(p)
      BY <2>1, <2>3, PageRead DEF Still
    <2> QED  BY <2>2, <2>3
  <1>2. PICK rows \in SUBSET Rows, found \in SUBSET Deals, misread \in SUBSET Rows :
          Visit(p, rows, found, misread)
    <2>1. CASE CollectRows(p)
      <3> DEFINE none == {}
                 nothing == {}
      <3>1. /\ Visible(p) \in SUBSET Rows /\ none \in SUBSET Deals /\ nothing \in SUBSET Rows
            /\ Visit(p, Visible(p), none, nothing)
        BY <2>1 DEF CollectRows, Visible, UsedRows
      <3> HIDE DEF none, nothing
      <3> QED  BY <3>1
    <2>2. CASE ReadPage(p)
      <3>1. PICK row \in loc[p].rows, found \in SUBSET Deals, misread \in SUBSET Rows :
              Visit(p, loc[p].rows \ {row}, found, misread)
        BY <2>2, PageRead
      <3> DEFINE rows == loc[p].rows \ {row}
      <3>2. rows \in SUBSET Rows /\ Visit(p, rows, found, misread)
        BY <3>1, Types, LocalsTypes
      <3> HIDE DEF rows
      <3> QED  BY <3>2
    <2> QED  BY <2>1, <2>2
  <1>3. pc[p] \in Scanning /\ pc[p] \notin Adding
    BY DEF CollectRows, ReadPage, Scanning, Adding
  <1>4. /\ pc' \in [Procs -> Pcs] /\ loc' \in [Procs -> Locals]
        /\ \A q \in Procs \ {p} : pc'[q] = pc[q] /\ loc'[q] = loc[q]
        /\ pc'[p] = IF rows = {} THEN "fill" ELSE "scan_read"
        /\ loc'[p].rows = rows
        /\ loc'[p].deal = loc[p].deal /\ loc'[p].before = loc[p].before
        /\ loc'[p].time = loc[p].time /\ loc'[p].min_timestamp = loc[p].min_timestamp
    BY <1>2, <1>3, VisitStep
  <1>5. StepOK(p) /\ Hidden' = Hidden
    BY <1>1, Types DEF Hidden
  <1>6. StepOK(p)'
    <2>1. pc'[p] \in Scanning /\ pc'[p] \notin Adding
            /\ pc'[p] \notin {"stamp", "add_begin", "add_wait", "add_raise", "add_copy"}
      BY <1>4 DEF Scanning, Adding
    <2> QED  BY <1>1, <1>3, <1>4, <1>5, <2>1 DEF StepOK
  <1>7. StepsInv'
    BY <1>1, <1>4, <1>6, StillSteps
  <1> QED  BY <1>1, <1>4, <1>7

(* A sweep comes before an operation that begins: only rows are lost. *)
LEMMA SweepSteps ==
    ASSUME StepsInv, NEW p \in Procs, NEW t \in Tables, Swept(p, t), ops' \in Nat,
           UNCHANGED <<holder, info, global_expire_at, now, historyVars>>,
           pc' \in [Procs -> Pcs], loc' \in [Procs -> Locals],
           \A q \in Procs \ {p} : pc'[q] = pc[q] /\ loc'[q] = loc[q],
           loc'[p].deal \in {loc[p].deal, NoDeal}, StepOK(p)'
    PROVE  StepsInv'
  <1>0. begun' = begun /\ done' = done /\ highest' = highest /\ truncated' = truncated
          /\ spoilt' = spoilt
    BY DEF historyVars
  <1>1. /\ expire_at' \in [Tables -> [Rows -> Nat]]
        /\ taken' \in [Tables -> [Rows -> 0..PageSize]]
        /\ elements' \in [Tables -> [Rows -> [Idx -> Deals \union {NoDeal}]]]
        /\ owner' \in [Tables -> [Rows -> [Idx -> Deals \union {NoDeal}]]]
        /\ named' \in [Tables -> SUBSET Rows] /\ MappingsOK'
        /\ \A s \in Tables : holder[s] # NoProc => expire_at'[s] = expire_at[s]
    BY ReleasedRows
  <1>2. TypeOK'
    BY <1>0, <1>1 DEF StepsInv, TypeOK, MappingsOK
  <1>3. Frame(p)
    <2>1. highest \in Nat /\ global_expire_at <= highest /\ NoProc \notin Procs
      BY Types DEF StepsInv
    <2> QED  BY <1>0, <1>1, <2>1 DEF Frame
  <1>4. done' \subseteq begun'
    BY <1>0 DEF StepsInv
  <1> QED  BY <1>2, <1>3, <1>4, GoesOn

(* addDeal() begins with a deal that nobody has begun before. *)
LEMMA AddDealInv ==
    ASSUME StepsInv, NEW p \in Procs, addDeal(p)
    PROVE  /\ StepsInv'
           /\ pc'[p] = "add_begin" /\ loc'[p].deal \in Deals \ begun
           /\ begun \subseteq begun' /\ loc'[p].deal \in begun'
           /\ \A q \in Procs \ {p} : pc'[q] = pc[q] /\ loc'[q] = loc[q]
           /\ UNCHANGED <<tableVars, info, now, highest, done, truncated, spoilt>>
  <1>1. PICK d \in Deals \ begun :
          /\ begun' = begun \union {d}
          /\ SetLocals(p, [NoLocals EXCEPT !.table = "data", !.deal = d])
    BY DEF addDeal
  <1> DEFINE l == [NoLocals EXCEPT !.table = "data", !.deal = d]
  <1>2. l \in Locals
    BY Types, Sets DEF NoLocals, Locals
  <1>3. l.table = "data" /\ l.deal = d /\ l.time = 0 /\ l.before = {}
    BY DEF NoLocals
  <1>4. SetLocals(p, l) /\ Goto(p, "add_begin") /\ "add_begin" \in Pcs
          /\ UNCHANGED <<tableVars, holder, info, global_expire_at, now, ops,
                         highest, done, truncated, spoilt>>
    BY <1>1 DEF addDeal, Pcs
  <1> HIDE DEF l
  <1>5. /\ pc' \in [Procs -> Pcs] /\ loc' \in [Procs -> Locals]
        /\ pc'[p] = "add_begin" /\ loc'[p] = l
        /\ \A q \in Procs \ {p} : pc'[q] = pc[q] /\ loc'[q] = loc[q]
    BY <1>2, <1>4, Types, OneStep
  <1>6. begun' \subseteq Deals /\ begun \subseteq begun' /\ d \in begun' /\ d \notin done
          /\ info[d].timestamp = 0 /\ now \in Nat
    BY <1>1, Types DEF StepsInv, TypeOK
  <1>7. StepOK(p)'
    BY <1>3, <1>4, <1>5, <1>6 DEF StepOK, Adding, Scanning
  <1>8. TypeOK'
    BY <1>4, <1>5, <1>6 DEF StepsInv, TypeOK, tableVars, indexVars, pageVars
  <1>9. Frame(p)
    <2>1. highest \in Nat /\ global_expire_at <= highest
      BY Types DEF StepsInv
    <2> QED  BY <1>3, <1>4, <1>5, <1>6, <2>1 DEF Frame, tableVars, indexVars
  <1>10. done' \subseteq begun'
    BY <1>4, <1>6 DEF StepsInv
  <1>11. StepsInv'
    BY <1>7, <1>8, <1>9, <1>10, GoesOn
  <1> QED  BY <1>3, <1>4, <1>5, <1>6, <1>11

(* addRecord() and processRecords() read the clock after the sweep. *)
LEMMA TimeReadInv ==
    ASSUME StepsInv, NEW p \in Procs, AddBegins(p) \/ ScanBegins(p)
    PROVE  /\ StepsInv' /\ \E t \in Tables : Swept(p, t)
           /\ UNCHANGED <<info, now, historyVars>>
           /\ \/ pc[p] = "add_begin" /\ pc'[p] = "add_wait"
              \/ pc'[p] = "scan_wait"
           /\ loc'[p].table = loc[p].table /\ loc'[p].deal = loc[p].deal
           /\ \A q \in Procs \ {p} : pc'[q] = pc[q] /\ loc'[q] = loc[q]
  <1> DEFINE l == [loc[p] EXCEPT !.time = now]
             label == IF pc[p] = "add_begin" THEN "add_wait" ELSE "scan_wait"
  <1>1. loc[p] \in Locals /\ now \in Nat /\ StepOK(p) /\ loc[p].table \in Tables
          /\ "index" \in Tables /\ ops \in Nat
    BY Types, LocalsTypes, Sets DEF TypeOK
  <1>2. l \in Locals
    BY <1>1 DEF Locals
  <1>3. /\ l.table = loc[p].table /\ l.deal = loc[p].deal /\ l.time = now
        /\ l.before = loc[p].before /\ l.min_timestamp = loc[p].min_timestamp
    BY <1>1 DEF Locals
  <1>4. SetLocals(p, l) /\ Goto(p, label) /\ label \in Pcs
          /\ pc[p] \in {"add_begin", "scan_begin"} /\ ops' = ops
          /\ UNCHANGED <<holder, info, global_expire_at, now, historyVars>>
    BY DEF AddBegins, ScanBegins, Pcs
  <1>5. PICK t \in Tables : ReleaseExpired(p, t)
    BY <1>1 DEF AddBegins, ScanBegins
  <1>6. Swept(p, t)
    BY <1>5, SweepEnds
  <1> HIDE DEF l
  <1>7. /\ pc' \in [Procs -> Pcs] /\ loc' \in [Procs -> Locals]
        /\ pc'[p] = label /\ loc'[p] = l
        /\ \A q \in Procs \ {p} : pc'[q] = pc[q] /\ loc'[q] = loc[q]
    BY <1>2, <1>4, Types, OneStep
  <1>8. Hidden' = Hidden
    BY <1>4 DEF Hidden, historyVars
  <1>9. StepOK(p)'
    <2>1. CASE pc[p] = "add_begin"
      BY <1>1, <1>3, <1>4, <1>7, <1>8, <2>1 DEF StepOK, Adding, Scanning, historyVars
    <2>2. CASE pc[p] = "scan_begin"
      BY <1>1, <1>3, <1>4, <1>7, <1>8, <2>2 DEF StepOK, Adding, Scanning, historyVars
    <2> QED  BY <1>4, <2>1, <2>2
  <1>10. StepsInv'
    BY <1>1, <1>3, <1>4, <1>6, <1>7, <1>9, SweepSteps
  <1> QED  BY <1>3, <1>4, <1>6, <1>7, <1>10

(* A sweep that fails ends the operation. *)
LEMMA SweepFailsInv ==
    ASSUME StepsInv, NEW p \in Procs, SweepFails(p)
    PROVE  /\ StepsInv' /\ \E t \in Tables : Swept(p, t)
           /\ UNCHANGED <<info, now, historyVars>> /\ pc'[p] = "idle"
           /\ \A q \in Procs \ {p} : pc'[q] = pc[q] /\ loc'[q] = loc[q]
  <1>1. /\ EndOp(p) /\ ops \in Nat /\ ops' = ops + 1
        /\ UNCHANGED <<holder, info, global_expire_at, now, historyVars>>
    BY Types DEF SweepFails, TypeOK
  <1>2. PICK t \in Tables : t = loc[p].table
    BY Types, LocalsTypes
  <1>3. Swept(p, t)
    BY <1>2, SweepEnds
  <1>4. /\ pc' \in [Procs -> Pcs] /\ loc' \in [Procs -> Locals]
        /\ \A q \in Procs \ {p} : pc'[q] = pc[q] /\ loc'[q] = loc[q]
        /\ loc'[p].deal = NoDeal /\ pc'[p] = "idle" /\ StepOK(p)'
    BY <1>1, Ends
  <1>5. StepsInv'
    BY <1>1, <1>3, <1>4, SweepSteps
  <1> QED  BY <1>1, <1>3, <1>4, <1>5

(* Filling the index element writes the time and the place of the data of   *)
(* the one deal it is for.                                                  *)
LEMMA FillInfoInv ==
    ASSUME StepsInv, NEW p \in Procs, FillInfo(p)
    PROVE  /\ StepsInv'
           /\ \A d \in Deals \ {loc[p].deal} : info'[d] = info[d]
           /\ info'[loc[p].deal] = [timestamp |-> now, row |-> loc[p].row,
                                    index |-> loc[p].index, data_time |-> loc[p].time]
           /\ info[loc[p].deal].timestamp = 0 /\ loc[p].deal \in Deals
           /\ loc[p].row \in Rows /\ loc[p].index \in Idx /\ loc[p].time \in Nat
           /\ loc[p].table = "data" /\ pc'[p] = "add_begin"
           /\ \A q \in Procs \ {p} : pc'[q] = pc[q] /\ loc'[q] = loc[q]
  <1> DEFINE d == loc[p].deal
             i == [timestamp |-> now, row |-> loc[p].row,
                   index |-> loc[p].index, data_time |-> loc[p].time]
             l == [loc[p] EXCEPT !.table = "index"]
  <1>1. pc[p] = "stamp" /\ loc[p] \in Locals /\ now \in Nat /\ now > 0 /\ StepOK(p) /\ d \in Deals
          /\ loc[p].table = "data"
    BY Types DEF FillInfo, StepOK, Adding
  <1>2. loc[p].row \in Rows /\ loc[p].index \in Idx /\ loc[p].time \in Nat
          /\ d \in begun \ done /\ info[d].timestamp = 0 /\ loc[p].time <= now
    BY <1>1, LocalsTypes DEF StepOK, Adding
  <1>3. i \in DealInfo /\ i.timestamp = now
    BY <1>1, <1>2 DEF DealInfo
  <1>4. info' = [info EXCEPT ![d] = i] /\ SetLocals(p, l) /\ Goto(p, "add_begin")
          /\ "add_begin" \in Pcs
          /\ UNCHANGED <<tableVars, holder, global_expire_at, now, ops, historyVars>>
    BY DEF FillInfo, Pcs
  <1>5. l \in Locals /\ l.table = "index" /\ l.deal = d /\ l.time = loc[p].time
          /\ l.before = loc[p].before
    BY <1>1, Sets DEF Locals
  <1> HIDE DEF l
  <1>6. /\ pc' \in [Procs -> Pcs] /\ loc' \in [Procs -> Locals]
        /\ pc'[p] = "add_begin" /\ loc'[p] = l
        /\ \A q \in Procs \ {p} : pc'[q] = pc[q] /\ loc'[q] = loc[q]
    BY <1>4, <1>5, Types, OneStep
  <1> HIDE DEF i
  <1>7. info' \in [Deals -> DealInfo] /\ info'[d] = i
          /\ \A e \in Deals \ {d} : info'[e] = info[e]
    BY <1>1, <1>3, <1>4 DEF StepsInv, TypeOK
  <1>8. TypeOK'
    BY <1>4, <1>6, <1>7 DEF StepsInv, TypeOK, tableVars, indexVars, pageVars, historyVars
  <1>9. Frame(p)
    <2>1. highest \in Nat /\ global_expire_at <= highest
      BY Types DEF StepsInv
    <2> QED  BY <1>4, <1>5, <1>6, <1>7, <2>1 DEF Frame, tableVars, indexVars, pageVars, historyVars
  <1>10. StepOK(p)'
    <2>1. info'[loc'[p].deal].timestamp = now /\ now' = now /\ begun' = begun /\ done' = done
      BY <1>3, <1>4, <1>5, <1>6, <1>7 DEF historyVars
    <2>2. loc'[p].deal \in begun' \ done' /\ loc'[p].time <= now' /\ loc'[p].before \subseteq done'
      BY <1>1, <1>2, <1>5, <1>6, <2>1 DEF StepOK
    <2> QED  BY <1>1, <1>5, <1>6, <2>1, <2>2 DEF StepOK, Adding, Scanning
  <1>11. done' \subseteq begun'
    BY <1>4 DEF StepsInv, historyVars
  <1>12. StepsInv'
    BY <1>8, <1>9, <1>10, <1>11, GoesOn
  <1> QED  BY <1>1, <1>2, <1>6, <1>7, <1>12 DEF i

(* All rows before the oldest one are used. *)
LEMMA OldestRow ==
    ASSUME StepsInv, NEW p \in Procs, NEW t \in Tables, NEW r \in Rows, Oldest(p, t, r)
    PROVE  \A s \in Rows : s < r => expire_at[t][s] > 0
  <1>1. PICK u \in Rows : FirstStop(p, t, u) /\ IsOldest(t, r, u)
    BY DEF Oldest
  <1>2. r \in Nat /\ u \in Nat /\ (r < u \/ r = 0) /\ Rows \subseteq Nat
    BY <1>1, Sets DEF IsOldest
  <1>3. \A s \in Rows : expire_at[t][s] \in Nat
    BY DEF StepsInv, TypeOK
  <1> SUFFICES ASSUME NEW s \in Rows, s < r  PROVE expire_at[t][s] > 0
    OBVIOUS
  <1>4. s < u
    BY <1>2
  <1> QED  BY <1>1, <1>3, <1>4 DEF FirstStop, Stops

(* The test of the horizon before it is raised keeps the meaning of the     *)
(* steps.                                                                   *)
LEMMA TestHorizonInv ==
    ASSUME StepsInv, NEW p \in Procs, TestHorizon(p)
    PROVE  /\ StepsInv'
           /\ pc[p] = "add_wait" /\ pc'[p] = "add_raise"
           /\ loc'[p].table = loc[p].table /\ loc'[p].deal = loc[p].deal
           /\ \A q \in Procs \ {p} : pc'[q] = pc[q] /\ loc'[q] = loc[q]
  <1> DEFINE t == loc[p].table
  <1>1. pc[p] = "add_wait" /\ loc[p] \in Locals /\ t \in Tables /\ StepOK(p) /\ holder[t] = NoProc
          /\ NoProc \notin Procs
    BY Types, LocalsTypes DEF TestHorizon
  <1>2. PICK r \in Rows : Oldest(p, t, r) /\ expire_at[t][r] > global_expire_at
                            /\ SetLocals(p, [loc[p] EXCEPT !.row = r])
    BY DEF TestHorizon
  <1> DEFINE l == [loc[p] EXCEPT !.row = r]
  <1>3. l \in Locals
    BY <1>1 DEF Locals
  <1>4. /\ l.table = t /\ l.deal = loc[p].deal /\ l.time = loc[p].time
        /\ l.before = loc[p].before /\ l.row = r
    BY <1>1 DEF Locals
  <1>5. SetLocals(p, l) /\ Goto(p, "add_raise") /\ "add_raise" \in Pcs
          /\ holder' = [holder EXCEPT ![t] = p]
          /\ UNCHANGED <<tableVars, info, global_expire_at, now, ops, historyVars>>
    BY <1>2 DEF TestHorizon, Pcs
  <1> HIDE DEF l
  <1>6. /\ pc' \in [Procs -> Pcs] /\ loc' \in [Procs -> Locals]
        /\ pc'[p] = "add_raise" /\ loc'[p] = l
        /\ \A q \in Procs \ {p} : pc'[q] = pc[q] /\ loc'[q] = loc[q]
    BY <1>3, <1>5, Types, OneStep
  <1>7. holder' \in [Tables -> Procs \union {NoProc}] /\ holder'[t] = p
          /\ \A s \in Tables : holder[s] # NoProc => holder'[s] = holder[s]
    BY <1>1, <1>5 DEF StepsInv, TypeOK
  <1>8. TypeOK'
    BY <1>5, <1>6, <1>7 DEF StepsInv, TypeOK, tableVars, indexVars, pageVars, historyVars
  <1>9. Frame(p)
    <2>1. highest \in Nat /\ global_expire_at <= highest
      BY Types DEF StepsInv
    <2> QED  BY <1>1, <1>4, <1>5, <1>6, <1>7, <2>1 DEF Frame, tableVars, indexVars, pageVars, historyVars
  <1>10. StepOK(p)'
    <2>1. InFront(expire_at'[t], r)
      <3>1. \A s \in Rows : expire_at[t][s] \in Nat
        BY <1>1 DEF StepsInv, TypeOK
      <3>2. global_expire_at \in Nat /\ expire_at' = expire_at /\ expire_at[t][r] > 0
        BY <1>2, <1>5, <3>1, Types DEF tableVars, indexVars
      <3>3. \A s \in Rows : s < r => expire_at[t][s] > 0
        BY <1>1, <1>2, OldestRow
      <3> QED  BY <3>2, <3>3, Sets DEF InFront
    <2> QED  BY <1>1, <1>4, <1>5, <1>6, <1>7, <2>1 DEF StepOK, Adding, Scanning, historyVars
  <1>11. done' \subseteq begun'
    BY <1>5 DEF StepsInv, historyVars
  <1>12. StepsInv'
    BY <1>8, <1>9, <1>10, <1>11, GoesOn
  <1> QED  BY <1>1, <1>4, <1>6, <1>12

(* The row of a claim: one that has room, or one that nothing visible is    *)
(* in, either in use or next to the rows in use.                            *)
LEMMA ClaimMade ==
    ASSUME StepsInv, NEW p \in Procs, ClaimElement(p) \/ SetHorizon(p), NEW t, t = loc[p].table
    PROVE  /\ pc[p] \in {"add_wait", "add_raise"} /\ t \in Tables
           /\ highest' \in Nat /\ highest' >= highest
           /\ global_expire_at' \in Nat /\ global_expire_at' <= highest'
           /\ holder' \in [Tables -> Procs \union {NoProc}]
           /\ \A s \in Tables, q \in Procs \ {p} : holder[s] = q => holder'[s] = q /\ s # t
           /\ named' \in [Tables -> SUBSET Rows]
           /\ \E r \in Rows, current \in BOOLEAN :
                /\ Claim(p, t, r, current)
                /\ current => taken[t][r] < PageSize
                /\ ~current => expire_at[t][r] <= Larger(now, highest')
                /\ \A s \in Rows : s < r => expire_at[t][s] > 0
  <1>1. t \in Tables /\ loc[p].time \in Nat /\ loc[p].time <= now /\ loc[p].row \in Rows
          /\ now \in Nat /\ highest \in Nat /\ global_expire_at \in Nat
          /\ global_expire_at <= highest /\ NoProc \notin Procs
          /\ holder \in [Tables -> Procs \union {NoProc}]
          /\ \A r \in Rows : expire_at[t][r] \in Nat /\ taken[t][r] \in 0..PageSize
    BY Types, LocalsTypes DEF StepsInv, StepOK, TypeOK
  <1>2. CASE ClaimElement(p)
    <2>1. pc[p] = "add_wait" /\ holder[t] = NoProc
            /\ UNCHANGED <<holder, global_expire_at, highest>>
      BY <1>2 DEF ClaimElement
    <2>2. PICK r \in Rows :
            \/ /\ Usable(p, t, r)
               /\ Claim(p, t, r, expire_at[t][r] > 0 /\ expire_at[t][r] >= loc[p].time)
               /\ named' = [named EXCEPT ![t] = IF expire_at[t][r] = 0 THEN @ \union {r} ELSE @]
            \/ /\ Oldest(p, t, r)
               /\ expire_at[t][r] <= global_expire_at
               /\ Claim(p, t, r, FALSE)
               /\ UNCHANGED named
      BY <1>2 DEF ClaimElement
    <2>n. named' \in [Tables -> SUBSET Rows]
      <3>1. named \in [Tables -> SUBSET Rows]
        BY DEF StepsInv, TypeOK
      <3>2. CASE expire_at[t][r] = 0 /\ named' = [named EXCEPT ![t] = @ \union {r}]
        <4> DEFINE R == named[t] \union {r}
        <4>1. R \in SUBSET Rows /\ named' = [named EXCEPT ![t] = R]
          BY <1>1, <3>1, <3>2
        <4> HIDE DEF R
        <4> QED  BY <3>1, <4>1
      <3>3. CASE named' = named
        BY <3>1, <3>3
      <3>4. \/ named' = named
            \/ expire_at[t][r] = 0 /\ named' = [named EXCEPT ![t] = @ \union {r}]
        <4>1. [named EXCEPT ![t] = @] = named
          BY <1>1, <3>1
        <4>2. CASE expire_at[t][r] = 0
          BY <2>2, <4>2
        <4>3. CASE expire_at[t][r] # 0
          <5>1. named' = [named EXCEPT ![t] = @] \/ named' = named
            BY <2>2, <4>3
          <5> QED  BY <4>1, <5>1
        <4> QED  BY <4>2, <4>3
      <3> QED  BY <3>2, <3>3, <3>4
    <2>3. \A u \in Rows : FirstStop(p, t, u) => \A s \in Rows : s < u => expire_at[t][s] > 0
      BY <1>1 DEF FirstStop, Stops
    <2>4. CASE /\ Usable(p, t, r)
               /\ Claim(p, t, r, expire_at[t][r] > 0 /\ expire_at[t][r] >= loc[p].time)
      <3> DEFINE current == expire_at[t][r] > 0 /\ expire_at[t][r] >= loc[p].time
      <3>1. FirstStop(p, t, r) /\ Claim(p, t, r, current) /\ current \in BOOLEAN
        BY <2>4 DEF Usable
      <3>2. /\ current => taken[t][r] < PageSize
            /\ ~current => expire_at[t][r] <= Larger(now, highest')
        BY <1>1, <2>1, <3>1 DEF FirstStop, Stops, Larger
      <3> HIDE DEF current
      <3> QED  BY <1>1, <2>1, <2>n, <2>3, <3>1, <3>2
    <2>5. CASE /\ Oldest(p, t, r)
               /\ expire_at[t][r] <= global_expire_at
               /\ Claim(p, t, r, FALSE)
      <3>3. \A s \in Rows : s < r => expire_at[t][s] > 0
        BY <1>1, <2>5, OldestRow
      <3>4. expire_at[t][r] <= Larger(now, highest')
        BY <1>1, <2>1, <2>5 DEF Larger
      <3> DEFINE current == FALSE
      <3>5. current \in BOOLEAN /\ ~current /\ Claim(p, t, r, current)
        BY <2>5
      <3> HIDE DEF current
      <3> QED  BY <1>1, <2>1, <2>n, <3>3, <3>4, <3>5
    <2> QED  BY <2>2, <2>4, <2>5
  <1>3. CASE SetHorizon(p)
    <2> DEFINE r == loc[p].row
    <2>1. pc[p] = "add_raise" /\ global_expire_at' = expire_at[t][r]
            /\ highest' = Larger(highest, global_expire_at')
            /\ Claim(p, t, r, FALSE) /\ holder' = [holder EXCEPT ![t] = NoProc]
      BY <1>3 DEF SetHorizon
    <2>2. holder[t] = p /\ \A s \in Rows : s < r => expire_at[t][s] > 0
      <3>1. holder[t] = p /\ InFront(expire_at[t], r)
        BY <2>1 DEF StepsInv, StepOK
      <3>2. r \in Nat /\ Rows \subseteq Nat
        BY <1>1, Sets
      <3> HIDE DEF r
      <3>3. ASSUME NEW s \in Rows, s < r  PROVE expire_at[t][s] > 0
        <4>1. s <= r
          BY <3>2, <3>3
        <4> QED  BY <3>1, <4>1 DEF InFront
      <3> QED  BY <3>1, <3>3
    <2>n. named' \in [Tables -> SUBSET Rows]
      BY <1>3 DEF SetHorizon, StepsInv, TypeOK
    <2>3. expire_at[t][r] \in Nat
      BY <1>1
    <2>4. /\ highest' \in Nat /\ highest' >= highest /\ expire_at[t][r] <= Larger(now, highest')
          /\ global_expire_at' \in Nat /\ global_expire_at' <= highest'
      BY <1>1, <2>1, <2>3 DEF Larger
    <2>5. /\ holder' \in [Tables -> Procs \union {NoProc}]
          /\ \A s \in Tables, q \in Procs \ {p} : holder[s] = q => holder'[s] = q /\ s # t
      BY <1>1, <2>1, <2>2
    <2> HIDE DEF r
    <2>6. r \in Rows
      BY <1>1 DEF r
    <2> QED  BY <1>1, <2>1, <2>2, <2>n, <2>4, <2>5, <2>6
  <1> QED  BY <1>2, <1>3

(* Taking an element of a table, with or without a new horizon, keeps the   *)
(* meaning of the steps.                                                    *)
LEMMA ClaimInv ==
    ASSUME StepsInv, NEW p \in Procs, ClaimElement(p) \/ SetHorizon(p)
    PROVE  StepsInv'
  <1> DEFINE t == loc[p].table
  <1>1. /\ pc[p] \in {"add_wait", "add_raise"} /\ t \in Tables
        /\ highest' \in Nat /\ highest' >= highest
        /\ global_expire_at' \in Nat /\ global_expire_at' <= highest'
        /\ holder' \in [Tables -> Procs \union {NoProc}]
        /\ \A s \in Tables, q \in Procs \ {p} : holder[s] = q => holder'[s] = q /\ s # t
        /\ named' \in [Tables -> SUBSET Rows]
        /\ \E r \in Rows, current \in BOOLEAN :
             Claim(p, t, r, current) /\ (current => taken[t][r] < PageSize)
    BY ClaimMade
  <1>2. PICK r \in Rows, current \in BOOLEAN :
             Claim(p, t, r, current) /\ (current => taken[t][r] < PageSize)
    BY <1>1
  <1> DEFINE i == IF current THEN taken[t][r] ELSE 0
  <1>3. /\ i \in Idx
        /\ expire_at' \in [Tables -> [Rows -> Nat]]
        /\ taken' \in [Tables -> [Rows -> 0..PageSize]]
        /\ owner' \in [Tables -> [Rows -> [Idx -> Deals \union {NoDeal}]]]
        /\ \A s \in Tables \ {t} : expire_at'[s] = expire_at[s]
        /\ loc' \in [Procs -> Locals] /\ pc' \in [Procs -> Pcs]
        /\ pc'[p] = "add_copy"
        /\ \A q \in Procs \ {p} : pc'[q] = pc[q] /\ loc'[q] = loc[q]
        /\ loc'[p].row = r /\ loc'[p].index = i /\ loc'[p].table = loc[p].table
        /\ loc'[p].deal = loc[p].deal /\ loc'[p].time = loc[p].time
        /\ loc'[p].before = loc[p].before
    BY <1>1, <1>2, ClaimedRow DEF StepsInv
  <1>4. UNCHANGED <<pageVars, info, now, ops, begun, done, truncated, spoilt>>
    BY <1>2 DEF Claim
  <1>5. TypeOK'
    BY <1>1, <1>3, <1>4 DEF StepsInv, TypeOK, pageVars
  <1>6. Frame(p)
    BY <1>1, <1>3, <1>4 DEF Frame
  <1>7. StepOK(p)'
    <2>1. StepOK(p)
      BY DEF StepsInv
    <2> QED  BY <1>1, <1>3, <1>4, <2>1 DEF StepOK, Adding, Scanning
  <1>8. done' \subseteq begun'
    BY <1>4 DEF StepsInv
  <1> QED  BY <1>5, <1>6, <1>7, <1>8, GoesOn

(* Copying a record spoils nothing but the element it is for.               *)
LEMMA CopyMade ==
    ASSUME StepsInv, NEW p \in Procs, CopyRecord(p),
           NEW t, t = loc[p].table, NEW r, r = loc[p].row, NEW i, i = loc[p].index,
           NEW d, d = loc[p].deal
    PROVE  /\ pc[p] = "add_copy" /\ t \in Tables /\ r \in Rows /\ i \in Idx
           /\ d \in Deals /\ d \in begun \ done
           /\ elements' \in [Tables -> [Rows -> [Idx -> Deals \union {NoDeal}]]]
           /\ MappingsOK' /\ spoilt' \subseteq Deals /\ spoilt \subseteq spoilt'
           /\ \A u \in Tables, s \in Rows, j \in Idx :
                u # t \/ s # r \/ j # i => elements'[u][s][j] = elements[u][s][j]
           /\ d \in spoilt' \/ elements'[t][r][i] = d
           /\ elements'[t][r][i] = elements[t][r][i] \/ owner[t][r][i] \in spoilt' \union {d, NoDeal}
  <1>1. pc[p] = "add_copy" /\ StepOK(p) /\ loc[p] \in Locals /\ t \in Tables /\ r \in Rows
          /\ i \in Idx /\ d \in Deals /\ d \in begun \ done
    BY Types, LocalsTypes DEF CopyRecord, StepOK, Adding
  <1>2. Copy(p, t, r, i, d) /\ spoilt \subseteq Deals /\ owner[t][r][i] \in Deals \union {NoDeal}
    BY <1>1, Types DEF CopyRecord, TypeOK
  <1>3. CASE r \in stale[t][p] /\ spoilt' = spoilt \union {d} /\ UNCHANGED pageVars
    <2>1. MappingsOK' /\ elements' = elements
      BY <1>3, Types DEF TypeOK, pageVars, MappingsOK
    <2>2. elements' \in [Tables -> [Rows -> [Idx -> Deals \union {NoDeal}]]]
      BY <2>1, Types DEF TypeOK
    <2> QED  BY <1>1, <1>2, <1>3, <2>1, <2>2
  <1>4. CASE /\ OpenPages(p, t, {r})
             /\ elements' = [elements EXCEPT ![t][r][i] = d]
             /\ spoilt' = spoilt \union ({owner[t][r][i]} \ {d, NoDeal})
    <2>1. {r} \in SUBSET Rows /\ TypeOK
      BY <1>1, Types
    <2>2. MappingsOK'
      BY <1>1, <1>4, <2>1, OpenedPages
    <2>3. elements \in [Tables -> [Rows -> [Idx -> Deals \union {NoDeal}]]]
      BY <2>1 DEF TypeOK
    <2>4. /\ elements' \in [Tables -> [Rows -> [Idx -> Deals \union {NoDeal}]]]
          /\ elements'[t][r][i] = d
          /\ \A u \in Tables, s \in Rows, j \in Idx :
               u # t \/ s # r \/ j # i => elements'[u][s][j] = elements[u][s][j]
      BY <1>1, <1>4, <2>3
    <2>5. spoilt' \subseteq Deals /\ spoilt \subseteq spoilt'
            /\ owner[t][r][i] \in spoilt' \union {d, NoDeal}
      BY <1>2, <1>4
    <2> QED  BY <1>1, <2>2, <2>4, <2>5
  <1> QED  BY <1>2, <1>3, <1>4 DEF Copy

(* Copying a record keeps the meaning of the steps. *)
LEMMA CopyStepInv ==
    ASSUME StepsInv, NEW p \in Procs, CopyRecord(p)
    PROVE  /\ StepsInv'
           /\ \A q \in Procs \ {p} : pc'[q] = pc[q] /\ loc'[q] = loc[q]
           /\ \/ loc[p].table = "data" /\ pc'[p] = "stamp" /\ loc' = loc /\ done' = done
              \/ loc[p].table = "index" /\ pc'[p] = "idle" /\ done' = done \union {loc[p].deal}
  <1> DEFINE t == loc[p].table
             r == loc[p].row
             i == loc[p].index
             d == loc[p].deal
  <1>1. pc[p] = "add_copy" /\ t \in Tables /\ d \in Deals /\ d \in begun \ done /\ StepOK(p)
          /\ i \in Idx
    BY CopyMade, Types
  <1>2. UNCHANGED <<indexVars, holder, info, global_expire_at, now, ops, highest, begun, truncated>>
    BY DEF CopyRecord
  <1>3. /\ elements' \in [Tables -> [Rows -> [Idx -> Deals \union {NoDeal}]]]
        /\ MappingsOK' /\ spoilt' \subseteq Deals
    BY CopyMade
  <1>5. highest \in Nat /\ global_expire_at <= highest /\ begun \subseteq Deals
          /\ done \subseteq begun
    BY Types DEF StepsInv, TypeOK
  <1>6. CASE t = "data" /\ Goto(p, "stamp") /\ UNCHANGED <<loc, done>>
    <2>1. pc' \in [Procs -> Pcs] /\ pc'[p] = "stamp" /\ loc' = loc /\ done' = done
            /\ \A q \in Procs \ {p} : pc'[q] = pc[q] /\ loc'[q] = loc[q]
      BY <1>6 DEF Goto, Pcs, StepsInv, TypeOK
    <2>2. TypeOK'
      BY <1>2, <1>3, <2>1 DEF StepsInv, TypeOK, indexVars, MappingsOK
    <2>3. Frame(p)
      BY <1>2, <1>5, <2>1 DEF Frame, indexVars
    <2>4. StepOK(p)'
      BY <1>1, <1>2, <1>6, <2>1 DEF StepOK, Adding, Scanning, indexVars
    <2>5. StepsInv'
      BY <1>2, <1>5, <2>1, <2>2, <2>3, <2>4, GoesOn
    <2> QED  BY <1>6, <2>1, <2>5
  <1>7. CASE t = "index" /\ EndOp(p) /\ done' = done \union {d}
    <2>1. /\ pc' \in [Procs -> Pcs] /\ loc' \in [Procs -> Locals]
          /\ \A q \in Procs \ {p} : pc'[q] = pc[q] /\ loc'[q] = loc[q]
          /\ loc'[p].deal = NoDeal /\ pc'[p] = "idle" /\ StepOK(p)'
      BY <1>2, <1>7, Ends
    <2>2. done' = done \union {d} /\ done' \subseteq begun' /\ done' \subseteq Deals
      BY <1>1, <1>2, <1>5, <1>7
    <2>3. TypeOK'
      BY <1>2, <1>3, <2>1, <2>2 DEF StepsInv, TypeOK, indexVars, MappingsOK
    <2>4. Frame(p)
      BY <1>2, <1>5, <2>1, <2>2 DEF Frame, indexVars
    <2>5. StepsInv'
      BY <2>1, <2>2, <2>3, <2>4, GoesOn
    <2> QED  BY <1>7, <2>1, <2>5
  <1> QED  BY <1>6, <1>7 DEF CopyRecord

(* cleanup() clears some of the first rows of a table, and then counts all  *)
(* deals begun so far as truncated.                                         *)
LEMMA CleanMade ==
    ASSUME StepsInv, NEW p \in Procs, CleanTable(p) \/ CleanFails(p), NEW t, t = loc[p].table
    PROVE  /\ pc[p] = "clean" /\ t \in Tables /\ holder[t] = NoProc /\ ops' \in Nat
           /\ MappingsOK' /\ truncated' = begun
           /\ UNCHANGED <<holder, info, global_expire_at, now, highest, begun, done, spoilt>>
           /\ \E R \in SUBSET Rows : ClearRows(t, R)
  <1>1. t \in Tables /\ TypeOK /\ ops \in Nat /\ UsedRows(t) \in SUBSET Rows
    BY Types, LocalsTypes DEF UsedRows, TypeOK
  <1>2. PICK R \in SUBSET Rows, C \in SUBSET Rows : ClearRows(t, R) /\ UnlinkPages(p, t, R, C)
    <2>1. CASE CleanTable(p)
      BY <1>1, <2>1 DEF CleanTable
    <2>2. CASE CleanFails(p)
      <3>1. PICK k \in UsedRows(t) \ {0} :
              LET R == {r \in Rows : r < k}
              IN R \subseteq named[t] /\ ClearRows(t, R) /\ UnlinkPages(p, t, R, {})
        BY <2>2 DEF CleanFails
      <3> DEFINE R == {r \in Rows : r < k}
                 C == {}
      <3>2. R \in SUBSET Rows /\ C \in SUBSET Rows /\ ClearRows(t, R) /\ UnlinkPages(p, t, R, C)
        BY <3>1
      <3> HIDE DEF R, C
      <3> QED  BY <3>2
    <2> QED  BY <2>1, <2>2
  <1>3. MappingsOK'
    BY <1>1, <1>2, UnlinkedPages
  <1> QED  BY <1>1, <1>2, <1>3 DEF CleanTable, CleanFails

(* So it keeps the meaning of the steps. *)
LEMMA CleanInv ==
    ASSUME StepsInv, NEW p \in Procs, CleanTable(p) \/ CleanFails(p)
    PROVE  /\ StepsInv' /\ pc'[p] \in {"clean", "idle"}
           /\ \A q \in Procs \ {p} : pc'[q] = pc[q] /\ loc'[q] = loc[q]
  <1> DEFINE t == loc[p].table
  <1>1. pc[p] = "clean" /\ StepOK(p) /\ loc[p] \in Locals /\ t \in Tables /\ holder[t] = NoProc
          /\ NoProc \notin Procs /\ truncated' = begun /\ ops' \in Nat /\ MappingsOK'
          /\ UNCHANGED <<holder, info, global_expire_at, now, highest, begun, done, spoilt>>
    BY Types, CleanMade
  <1>r. PICK R \in SUBSET Rows : ClearRows(t, R)
    BY CleanMade
  <1>2. /\ expire_at' \in [Tables -> [Rows -> Nat]]
        /\ taken' \in [Tables -> [Rows -> 0..PageSize]]
        /\ elements' \in [Tables -> [Rows -> [Idx -> Deals \union {NoDeal}]]]
        /\ owner' \in [Tables -> [Rows -> [Idx -> Deals \union {NoDeal}]]]
        /\ named' \in [Tables -> SUBSET Rows]
        /\ \A s \in Tables \ {t} : expire_at'[s] = expire_at[s]
    BY <1>1, <1>r, ClearedRows DEF StepsInv
  <1>3. /\ pc' \in [Procs -> Pcs] /\ loc' \in [Procs -> Locals]
        /\ \A q \in Procs \ {p} : pc'[q] = pc[q] /\ loc'[q] = loc[q]
        /\ loc'[p].deal = NoDeal /\ StepOK(p)' /\ pc'[p] \in {"clean", "idle"}
    <2>1. CASE SetLocals(p, [loc[p] EXCEPT !.table = "index"]) /\ UNCHANGED pc
      <3> DEFINE l == [loc[p] EXCEPT !.table = "index"]
      <3>1. l \in Locals
        BY <1>1, Sets DEF Locals
      <3>2. l.deal = loc[p].deal /\ l.time = loc[p].time /\ l.before = loc[p].before
        BY <1>1 DEF Locals
      <3>3. loc[p].deal = NoDeal
        BY <1>1 DEF StepOK, Adding
      <3>4. loc' = [loc EXCEPT ![p] = l] /\ pc' = pc
        BY <2>1 DEF SetLocals
      <3> HIDE DEF l
      <3>5. /\ pc' \in [Procs -> Pcs] /\ loc' \in [Procs -> Locals] /\ loc'[p] = l
            /\ \A q \in Procs \ {p} : pc'[q] = pc[q] /\ loc'[q] = loc[q]
        BY <3>1, <3>4 DEF StepsInv, TypeOK
      <3>6. StepOK(p)'
        BY <1>1, <3>2, <3>3, <3>4, <3>5 DEF StepOK, Adding, Scanning
      <3> QED  BY <1>1, <3>2, <3>3, <3>4, <3>5, <3>6
    <2>2. CASE EndOp(p)
      BY <1>1, <2>2, Ends
    <2> QED  BY <2>1, <2>2 DEF CleanTable, CleanFails
  <1>4. TypeOK'
    BY <1>1, <1>2, <1>3 DEF StepsInv, TypeOK, MappingsOK
  <1>5. Frame(p)
    <2>1. highest \in Nat /\ global_expire_at <= highest
      BY Types DEF StepsInv
    <2> QED  BY <1>1, <1>2, <1>3, <2>1 DEF Frame
  <1>6. done' \subseteq begun'
    BY <1>1 DEF StepsInv
  <1>7. StepsInv'
    BY <1>3, <1>4, <1>5, <1>6, GoesOn
  <1> QED  BY <1>3, <1>7

(* Time never brings back what is hidden. *)
LEMMA TickInv ==
    ASSUME StepsInv, Tick
    PROVE  StepsInv' /\ now' >= now /\ Hidden' >= Hidden
  <1>1. now \in Nat /\ now' \in Nat /\ now' >= now /\ highest \in Nat /\ highest' = highest
          /\ StartTime \in Nat
          /\ UNCHANGED <<tableVars, holder, info, global_expire_at, pc, loc, ops, historyVars>>
    BY DealsAssumption DEF StepsInv, TypeOK, Tick, historyVars, DealsAssumption
  <1>2. Hidden \in Nat /\ Hidden' \in Nat /\ Hidden' >= Hidden
    BY <1>1 DEF Hidden, Larger
  <1>3. TypeOK'
    BY <1>1 DEF StepsInv, TypeOK, tableVars, indexVars, pageVars, historyVars
  <1>4. StartTime <= now'
    BY <1>1 DEF StepsInv
  <1>5. \A p \in Procs : StepOK(p)'
    <2> SUFFICES ASSUME NEW p \in Procs  PROVE StepOK(p)'
      OBVIOUS
    <2>1. /\ StepOK(p) /\ loc[p].time \in Nat /\ loc[p].min_timestamp \in Nat
          /\ DEALS_EXPIRES \in Nat
          /\ pc[p] \in Adding => loc[p].deal \in Deals
      BY Types, LocalsTypes, Sets
    <2>2. /\ loc[p].time <= now'
          /\ pc[p] \in Scanning => loc[p].min_timestamp + DEALS_EXPIRES <= Hidden'
      BY <1>1, <1>2, <2>1 DEF StepOK
    <2>3. pc[p] = "add_begin" => info[loc[p].deal].timestamp <= now'
      <3>1. pc[p] = "add_begin" => info[loc[p].deal].timestamp \in Nat
        BY Types DEF Adding
      <3> QED  BY <1>1, <2>1, <3>1 DEF StepOK
    <2> QED  BY <1>1, <2>1, <2>2, <2>3 DEF StepOK, tableVars, indexVars, pageVars, historyVars
  <1>6. Distinct' /\ done' \subseteq begun' /\ global_expire_at' <= highest'
          /\ \A d \in Deals : info'[d].timestamp > 0 => d \in begun'
    BY <1>1 DEF StepsInv, Distinct, historyVars
  <1> QED  BY <1>1, <1>2, <1>3, <1>4, <1>5, <1>6 DEF StepsInv

(* The databases begin with the local variables of idle processes. *)
LEMMA StepsInit ==
    Init => StepsInv
  <1> SUFFICES ASSUME Init  PROVE StepsInv
    OBVIOUS
  <1>1. TypeOK
    <2>1. 0 \in 0..PageSize /\ StartTime \in Nat /\ "idle" \in Pcs
      BY Sets, DealsAssumption DEF DealsAssumption, Pcs
    <2>2. NoInfo \in DealInfo
      BY Sets DEF NoInfo, DealInfo
    <2> QED  BY <2>1, <2>2, Sets, NoLocalsType DEF Init, TypeOK
  <1>2. \A p \in Procs : StepOK(p)
    <2> SUFFICES ASSUME NEW p \in Procs  PROVE StepOK(p)
      OBVIOUS
    <2>1. now \in Nat
      BY <1>1 DEF TypeOK
    <2>2. pc[p] = "idle" /\ loc[p] = NoLocals
      BY DEF Init
    <2>3. 0 <= now
      BY <2>1
    <2> QED  BY <2>1, <2>2, <2>3, NoLocalsType DEF StepOK, Adding, Scanning
  <1>3. Distinct
    BY NoLocalsType DEF Init, Distinct
  <1>4. \A d \in Deals : ~(info[d].timestamp > 0)
    BY DEF Init, NoInfo
  <1>5. StartTime <= now /\ global_expire_at <= highest /\ done \subseteq begun
    BY DealsAssumption DEF Init, DealsAssumption
  <1> QED  BY <1>1, <1>2, <1>3, <1>4, <1>5 DEF StepsInv

(* Every step keeps what the local variables mean. *)
LEMMA StepsNext ==
    StepsInv /\ [Next]_vars => StepsInv'
  <1> SUFFICES ASSUME StepsInv, [Next]_vars  PROVE StepsInv'
    OBVIOUS
  <1>1. ASSUME NEW p \in Procs, addDeal(p)  PROVE StepsInv'
    BY <1>1, AddDealInv
  <1>2. ASSUME NEW p \in Procs, FillInfo(p)  PROVE StepsInv'
    BY <1>2, FillInfoInv
  <1>3. ASSUME NEW p \in Procs, searchFor(p) \/ truncate(p)  PROVE StepsInv'
    BY <1>3, BeginsInv
  <1>4. ASSUME NEW p \in Procs, AddBegins(p) \/ ScanBegins(p)  PROVE StepsInv'
    BY <1>4, TimeReadInv
  <1>5. ASSUME NEW p \in Procs, ClaimElement(p) \/ SetHorizon(p)  PROVE StepsInv'
    BY <1>5, ClaimInv
  <1>6. ASSUME NEW p \in Procs, TestHorizon(p)  PROVE StepsInv'
    BY <1>6, TestHorizonInv
  <1>7. ASSUME NEW p \in Procs,
               NoSpaceToInsert(p) \/ fill_deals_with_data(p) \/ NamelessRow(p) \/ Throws(p)
        PROVE  StepsInv'
    BY <1>7, EndsInv
  <1>8. ASSUME NEW p \in Procs, CopyRecord(p)  PROVE StepsInv'
    BY <1>8, CopyStepInv
  <1>9. ASSUME NEW p \in Procs, CollectRows(p) \/ ReadPage(p)  PROVE StepsInv'
    BY <1>9, ReadsInv
  <1>10. ASSUME NEW p \in Procs, CleanTable(p) \/ CleanFails(p)  PROVE StepsInv'
    BY <1>10, CleanInv
  <1>11. CASE Tick
    BY <1>11, TickInv
  <1>13. ASSUME NEW p \in Procs, SweepFails(p)  PROVE StepsInv'
    BY <1>13, SweepFailsInv
  <1>12. CASE UNCHANGED vars
    BY <1>12 DEF vars, tableVars, indexVars, pageVars, historyVars, StepsInv, TypeOK, StepOK, Distinct, Hidden
  <1> QED  BY <1>1, <1>2, <1>3, <1>4, <1>5, <1>6, <1>7, <1>8, <1>9, <1>10, <1>11, <1>12, <1>13 DEF Next

(* The variables keep their types: no element is handed out beyond the end  *)
(* of a page, and no time of a query is negative.                           *)
THEOREM DealsTypes == Spec => []TypeOK
  <1>1. StepsInv => TypeOK
    BY DEF StepsInv
  <1> QED  BY StepsInit, StepsNext, <1>1, PTL DEF Spec

-----------------------------------------------------------------------------
(* The rows of the tables                                                   *)

(* A row keeps its elements for at least as long as it did, or nothing in   *)
(* it was still visible.                                                    *)
KeepRow(t, r) ==
    \/ /\ expire_at'[t][r] >= expire_at[t][r]
       /\ taken'[t][r] >= taken[t][r]
       /\ \A i \in Idx : i < taken[t][r] => owner'[t][r][i] = owner[t][r][i]
    \/ expire_at[t][r] <= Hidden'

(* None of the deals comes to own an element, and those that own one find   *)
(* in it what they did.                                                     *)
KeepOwners(D) ==
    \A t \in Tables, r \in Rows, i \in Idx, d \in D :
      owner'[t][r][i] = d =>
        owner[t][r][i] = d /\ elements'[t][r][i] = elements[t][r][i]

(* None of the deals comes to own an element of the index. *)
NoNewOwner(D) ==
    \A r \in Rows, i \in Idx, d \in D : owner'["index"][r][i] = d => owner["index"][r][i] = d

(* Tables that nobody touches. *)
LEMMA SameRows ==
    ASSUME StepsInv, UNCHANGED indexVars
    PROVE  /\ \A t \in Tables, r \in Rows : KeepRow(t, r)
           /\ \A D : NoNewOwner(D)
  <1>1. \A t \in Tables, r \in Rows : expire_at[t][r] \in Nat /\ taken[t][r] \in 0..PageSize
    BY DEF StepsInv, TypeOK
  <1>2. \A t \in Tables, r \in Rows : taken[t][r] \in Nat
    BY <1>1, Sets
  <1>3. expire_at' = expire_at /\ taken' = taken /\ owner' = owner
    BY DEF indexVars
  <1> QED  BY <1>1, <1>2, <1>3 DEF KeepRow, NoNewOwner

(* Nothing that has been said of the rows of the index changes with them.   *)
LEMMA SameRowsInv ==
    ASSUME RowsInv, UNCHANGED indexVars, info' = info, truncated' = truncated
    PROVE  RowsInv'
  BY DEF RowsInv, indexVars

(* A sweep keeps the rows of deals in front and clears only rows whose      *)
(* records are hidden.                                                      *)
LEMMA SweptRowsInv ==
    ASSUME StepsInv, RowsInv, NEW p \in Procs, NEW t \in Tables, Swept(p, t),
           UNCHANGED <<info, now, historyVars>>
    PROVE  /\ RowsInv' /\ NoNewOwner(Deals) /\ KeepOwners(Deals)
           /\ \A s \in Tables, r \in Rows : KeepRow(s, r)
  <1>0. truncated' = truncated /\ info' = info /\ Hidden' = Hidden
    BY DEF historyVars, Hidden
  <1>1. PICK R \in SUBSET Rows :
          /\ \A r \in R : /\ expire_at'[t][r] = 0 /\ taken'[t][r] = 0
                          /\ elements'[t][r] = Empty /\ owner'[t][r] = Empty
                          /\ expire_at[t][r] <= Hidden
                          /\ \A s \in UsedRows(t) : s > r => s \in R
          /\ \A r \in Rows \ R : /\ expire_at'[t][r] = expire_at[t][r]
                                 /\ taken'[t][r] = taken[t][r]
                                 /\ elements'[t][r] = elements[t][r]
                                 /\ owner'[t][r] = owner[t][r]
    BY ReleasedRows
  <1>2. \A s \in Tables \ {t} : /\ expire_at'[s] = expire_at[s] /\ taken'[s] = taken[s]
                                /\ elements'[s] = elements[s] /\ owner'[s] = owner[s]
    BY ReleasedRows
  <1>3. \A s \in Tables, r \in Rows : expire_at[s][r] \in Nat /\ taken[s][r] \in Nat
    <2>1. 0..PageSize \subseteq Nat
      BY Sets
    <2> QED  BY <2>1 DEF StepsInv, TypeOK
  <1>4. (\A i \in Idx : Empty[i] = NoDeal) /\ NoDeal \notin Deals
    BY DealsAssumption DEF Empty, DealsAssumption
  <1>5. KeepOwners(Deals) /\ NoNewOwner(Deals)
    <2>1. KeepOwners(Deals)
      <3> SUFFICES ASSUME NEW s \in Tables, NEW r \in Rows, NEW i \in Idx, NEW d \in Deals,
                          owner'[s][r][i] = d
                   PROVE  owner[s][r][i] = d /\ elements'[s][r][i] = elements[s][r][i]
        BY DEF KeepOwners
      <3>1. CASE s # t
        BY <1>2, <3>1
      <3>2. CASE s = t
        BY <1>1, <1>4, <3>2
      <3> QED  BY <3>1, <3>2
    <2> QED  BY <2>1, Sets DEF KeepOwners, NoNewOwner
  <1>6. ASSUME NEW r \in Rows, NEW i \in Idx, NEW d \in Deals, owner'["index"][r][i] = d
        PROVE  /\ owner["index"][r][i] = d
               /\ expire_at'["index"][r] = expire_at["index"][r]
               /\ taken'["index"][r] = taken["index"][r]
               /\ t = "index" => r \notin R
    <2>1. owner["index"][r][i] = d
      BY <1>5, <1>6 DEF NoNewOwner
    <2>2. t = "index" => r \notin R
      BY <1>1, <1>4, <1>6
    <2> QED  BY <1>1, <1>2, <2>1, <2>2, Sets
  <1>7. IndexOK(owner'["index"], taken'["index"], expire_at'["index"], info')
    BY <1>0, <1>6 DEF RowsInv, IndexOK
  <1>8. ASSUME NEW d \in Deals \ truncated, NEW r \in Rows, NEW i \in Idx,
               owner'["index"][r][i] = d
        PROVE  InFront(expire_at'["index"], r)
    <2>1. InFront(expire_at["index"], r)
      BY <1>6, <1>8 DEF RowsInv
    <2>2. CASE t # "index"
      BY <1>2, <2>1, <2>2, Sets
    <2>3. CASE t = "index"
      <3> SUFFICES ASSUME NEW s \in Rows, s <= r  PROVE expire_at'[t][s] > 0
        BY <2>3 DEF InFront
      <3>1. r \in UsedRows(t) /\ expire_at[t][s] > 0
        BY <2>1, <2>3 DEF InFront, UsedRows
      <3>2. r \notin R /\ r \in Nat /\ s \in Nat
        BY <1>6, <1>8, <2>3, Sets
      <3>3. s \notin R
        BY <1>1, <3>1, <3>2
      <3> QED  BY <1>1, <3>1, <3>3
    <2> QED  BY <2>2, <2>3
  <1>9. \A s \in Tables, r \in Rows : KeepRow(s, r)
    BY <1>0, <1>1, <1>2, <1>3 DEF KeepRow
  <1> QED  BY <1>0, <1>5, <1>7, <1>8, <1>9 DEF RowsInv

(* A claim keeps the rows of deals in front and touches no element of a     *)
(* deal that is stored, unless the row it reuses is hidden.                 *)
LEMMA ClaimedRowsInv ==
    ASSUME StepsInv, RowsInv, NEW p \in Procs, ClaimElement(p) \/ SetHorizon(p)
    PROVE  /\ RowsInv' /\ NoNewOwner(done)
           /\ \A s \in Tables, r \in Rows : KeepRow(s, r)
           /\ pc[p] \in {"add_wait", "add_raise"} /\ pc'[p] = "add_copy"
           /\ \A q \in Procs \ {p} : pc'[q] = pc[q] /\ loc'[q] = loc[q]
           /\ loc'[p].table = loc[p].table /\ loc'[p].deal = loc[p].deal
           /\ UNCHANGED <<elements, info, now, begun, done, truncated, spoilt>>
           /\ SafeNext(loc'[p].table, loc'[p].deal, loc'[p].row, loc'[p].index, loc'[p].time)
           /\ \A s \in Tables, q \in Rows, j \in Idx, e \in Deals : owner'[s][q][j] = e =>
                \/ owner[s][q][j] = e
                \/ /\ s = loc[p].table /\ q = loc'[p].row /\ j = loc'[p].index
                   /\ e = loc[p].deal
  <1> DEFINE t == loc[p].table
  <1>1. /\ pc[p] \in {"add_wait", "add_raise"} /\ t \in Tables
        /\ \E r \in Rows, current \in BOOLEAN :
                /\ Claim(p, t, r, current)
                /\ current => taken[t][r] < PageSize
                /\ ~current => expire_at[t][r] <= Larger(now, highest')
                /\ \A s \in Rows : s < r => expire_at[t][s] > 0
    BY ClaimMade
  <1>2. PICK r \in Rows, current \in BOOLEAN :
                /\ Claim(p, t, r, current)
                /\ current => taken[t][r] < PageSize
                /\ ~current => expire_at[t][r] <= Larger(now, highest')
                /\ \A s \in Rows : s < r => expire_at[t][s] > 0
    BY <1>1
  <1> DEFINE i == IF current THEN taken[t][r] ELSE 0
             d == loc[p].deal
  <1>3. /\ i \in Idx
        /\ \A s \in Tables \ {t} : /\ expire_at'[s] = expire_at[s] /\ taken'[s] = taken[s]
                                   /\ owner'[s] = owner[s]
        /\ \A s \in Rows \ {r} : /\ expire_at'[t][s] = expire_at[t][s]
                                 /\ taken'[t][s] = taken[t][s] /\ owner'[t][s] = owner[t][s]
        /\ taken'[t][r] = i + 1
        /\ expire_at'[t][r] >= loc[p].time + DEALS_EXPIRES
        /\ current => expire_at'[t][r] >= expire_at[t][r]
        /\ owner'[t][r][i] = loc[p].deal
        /\ \A j \in Idx \ {i} : owner'[t][r][j] = IF current THEN owner[t][r][j] ELSE NoDeal
        /\ expire_at' \in [Tables -> [Rows -> Nat]]
    BY <1>1, <1>2, ClaimedRow DEF StepsInv
  <1>4. /\ pc'[p] = "add_copy" /\ \A q \in Procs \ {p} : pc'[q] = pc[q] /\ loc'[q] = loc[q]
        /\ loc'[p].row = r /\ loc'[p].index = i /\ loc'[p].table = t
        /\ loc'[p].deal = d /\ loc'[p].time = loc[p].time
    BY <1>1, <1>2, ClaimedRow DEF StepsInv
  <1>5. UNCHANGED <<elements, info, now, begun, done, truncated, spoilt>>
    BY <1>2 DEF Claim, pageVars
  <1>6. /\ d \in Deals /\ d \in begun \ done /\ loc[p].time \in Nat /\ DEALS_EXPIRES \in Nat \ {0}
        /\ NoDeal \notin Deals /\ done \subseteq Deals
        /\ \A s \in Tables, q \in Rows : expire_at[s][q] \in Nat /\ taken[s][q] \in Nat
        /\ expire_at'[t][r] \in Nat /\ Hidden' = Larger(now, highest')
    <2>1. 0..PageSize \subseteq Nat /\ pc[p] \in Adding
      BY Sets, <1>1 DEF Adding
    <2>2. \A s \in Tables, q \in Rows : expire_at[s][q] \in Nat /\ taken[s][q] \in Nat
      BY <2>1 DEF StepsInv, TypeOK
    <2>3. d \in Deals /\ d \in begun \ done /\ done \subseteq Deals
      BY <2>1, Types DEF StepOK, TypeOK
    <2>4. Hidden' = Larger(now, highest')
      BY <1>5 DEF Hidden
    <2>5. expire_at'[t][r] \in Nat
      BY <1>1, <1>3
    <2>6. loc[p].time \in Nat /\ NoDeal \notin Deals
      BY Types, LocalsTypes
    <2> QED  BY <2>2, <2>3, <2>4, <2>5, <2>6, Sets
  <1>7. t = "index" => info[d].timestamp > 0 /\ info[d].timestamp <= loc[p].time
                         /\ info[d].timestamp \in Nat
    <2>1. info[d].timestamp \in Nat /\ StepOK(p)
      BY <1>6, Types
    <2> QED  BY <1>1, <2>1 DEF StepOK, Adding
  <1> HIDE DEF t, i, d
  <1>8. ASSUME NEW s \in Tables, NEW q \in Rows, NEW j \in Idx, NEW e \in Deals,
               owner'[s][q][j] = e
        PROVE  owner[s][q][j] = e \/ (s = t /\ q = r /\ j = i /\ e = d)
    BY <1>3, <1>6, <1>8 DEF d
  <1>9. NoNewOwner(done)
    BY <1>6, <1>8, Sets DEF NoNewOwner
  <1>10. IndexOK(owner'["index"], taken'["index"], expire_at'["index"], info')
    <2>1. IndexOK(owner["index"], taken["index"], expire_at["index"], info)
      BY DEF RowsInv
    <2>2. CASE t # "index"
      BY <1>3, <1>5, <2>1, <2>2, Sets
    <2>3. CASE t = "index"
      <3> SUFFICES ASSUME NEW q \in Rows, NEW j \in Idx, NEW e \in Deals, owner'[t][q][j] = e
                   PROVE  /\ info[e].timestamp > 0
                          /\ j < taken'[t][q]
                          /\ expire_at'[t][q] >= info[e].timestamp + DEALS_EXPIRES
        BY <1>5, <2>3 DEF IndexOK
      <3>1. CASE q # r
        BY <1>3, <2>1, <2>3, <3>1 DEF IndexOK
      <3>2. CASE q = r /\ j = i
        <4>1. e = d /\ j \in Nat
          BY <1>3, <3>2, Sets DEF d
        <4> QED  BY <1>3, <1>6, <1>7, <2>3, <3>2, <4>1
      <3>3. CASE q = r /\ j # i
        <4>1. current /\ owner[t][r][j] = e
          BY <1>3, <1>6, <3>3
        <4>2. info[e].timestamp > 0 /\ j < taken[t][r] /\ i = taken[t][r]
                /\ expire_at[t][r] >= info[e].timestamp + DEALS_EXPIRES
          BY <2>1, <2>3, <4>1 DEF IndexOK, i
        <4>3. j \in Nat /\ i \in Nat /\ info[e].timestamp \in Nat /\ expire_at[t][r] \in Nat
          BY <1>1, <1>3, <1>6, Sets, Types DEF t
        <4> QED  BY <1>3, <1>6, <3>3, <4>1, <4>2, <4>3
      <3> QED  BY <3>1, <3>2, <3>3
    <2> QED  BY <2>2, <2>3
  <1>11. ASSUME NEW e \in Deals \ truncated, NEW q \in Rows, NEW j \in Idx,
                owner'["index"][q][j] = e
         PROVE  InFront(expire_at'["index"], q)
    <2>1. CASE t # "index"
      <3>1. "index" \in Tables /\ e \in Deals
        BY <1>11 DEF Tables
      <3>2. owner["index"][q][j] = e
        BY <1>8, <1>11, <2>1, <3>1
      <3> QED  BY <1>3, <2>1, <3>2, Sets DEF RowsInv
    <2>2. CASE t = "index"
      <3>1. \A s \in Rows : expire_at[t][s] > 0 => expire_at'[t][s] > 0
        BY <1>3, <1>6
      <3>2. CASE q = r
        <4>1. expire_at'[t][r] > 0 /\ Rows \subseteq Nat
          BY <1>3, <1>6, Sets
        <4> QED  BY <1>2, <2>2, <3>1, <3>2, <4>1 DEF InFront
      <3>3. CASE q # r
        <4>1. owner["index"][q][j] = e
          BY <1>8, <1>11, <3>3, Sets
        <4>2. InFront(expire_at["index"], q)
          BY <4>1 DEF RowsInv
        <4> QED  BY <2>2, <3>1, <4>2 DEF InFront
      <3> QED  BY <3>2, <3>3
    <2> QED  BY <2>1, <2>2
  <1>12. \A s \in Tables, q \in Rows : KeepRow(s, q)
    <2>1. \A s \in Tables, q \in Rows : s # t \/ q # r => KeepRow(s, q)
      BY <1>3, <1>6 DEF KeepRow
    <2>2. KeepRow(t, r)
      <3>1. CASE ~current
        BY <1>2, <1>6, <3>1 DEF KeepRow
      <3>2. CASE current
        <4>1. i = taken[t][r] /\ i \in Nat
          BY <1>1, <1>6, <3>2 DEF i, t
        <4>2. \A j \in Idx : j < taken[t][r] => owner'[t][r][j] = owner[t][r][j]
          BY <1>3, <3>2, <4>1, Sets
        <4> QED  BY <1>3, <3>2, <4>1, <4>2 DEF KeepRow
      <3> QED  BY <3>1, <3>2
    <2> QED  BY <2>1, <2>2
  <1>13. SafeNext(loc'[p].table, loc'[p].deal, loc'[p].row, loc'[p].index, loc'[p].time)
    <2>1. i \in Nat
      BY <1>3, Sets
    <2> QED  BY <1>3, <1>4, <2>1 DEF SafeNext, Safe, d
  <1>14. RowsInv'
    BY <1>5, <1>10, <1>11 DEF RowsInv
  <1> QED  BY <1>1, <1>4, <1>5, <1>8, <1>9, <1>12, <1>13, <1>14 DEF t, d

(* What cleanup() leaves in the index is as it was, and was to be removed.  *)
LEMMA CleanedRowsInv ==
    ASSUME StepsInv, RowsInv, NEW p \in Procs, CleanTable(p) \/ CleanFails(p)
    PROVE  RowsInv' /\ KeepOwners(Deals)
  <1> DEFINE t == loc[p].table
  <1>1. t \in Tables /\ TypeOK /\ truncated' = begun /\ info' = info
    BY CleanMade, Types
  <1>2. PICK R \in SUBSET Rows : ClearRows(t, R)
    BY CleanMade
  <1>3. /\ \A s \in Tables \ {t} : /\ expire_at'[s] = expire_at[s] /\ taken'[s] = taken[s]
                                   /\ elements'[s] = elements[s] /\ owner'[s] = owner[s]
        /\ \A r \in R : owner'[t][r] = Empty
        /\ \A r \in Rows \ R : /\ expire_at'[t][r] = expire_at[t][r]
                               /\ taken'[t][r] = taken[t][r]
                               /\ elements'[t][r] = elements[t][r]
                               /\ owner'[t][r] = owner[t][r]
    BY <1>1, <1>2, ClearedRows
  <1>4. (\A i \in Idx : Empty[i] = NoDeal) /\ NoDeal \notin Deals
    BY DealsAssumption DEF Empty, DealsAssumption
  <1> HIDE DEF t
  <1>5. ASSUME NEW s \in Tables, NEW r \in Rows, NEW i \in Idx, NEW d \in Deals,
               owner'[s][r][i] = d
        PROVE  /\ owner[s][r][i] = d /\ elements'[s][r][i] = elements[s][r][i]
               /\ taken'[s][r] = taken[s][r] /\ expire_at'[s][r] = expire_at[s][r]
    <2>1. CASE s # t
      BY <1>3, <1>5, <2>1
    <2>2. CASE s = t
      BY <1>3, <1>4, <1>5, <2>2
    <2> QED  BY <2>1, <2>2
  <1>6. IndexOK(owner'["index"], taken'["index"], expire_at'["index"], info')
    BY <1>1, <1>5, Sets DEF RowsInv, IndexOK
  <1>7. \A d \in Deals, r \in Rows, i \in Idx : owner'["index"][r][i] = d => d \in truncated'
    BY <1>1, <1>6 DEF IndexOK, StepsInv
  <1> QED  BY <1>5, <1>6, <1>7 DEF RowsInv, KeepOwners

(* Filling the index element changes no row, and its deal is in none yet. *)
LEMMA StampedRowsInv ==
    ASSUME StepsInv, RowsInv, NEW p \in Procs, FillInfo(p)
    PROVE  RowsInv'
  <1>1. UNCHANGED <<expire_at, taken, owner, truncated>>
    BY DEF FillInfo, tableVars, indexVars, historyVars
  <1>2. info[loc[p].deal].timestamp = 0 /\ \A d \in Deals \ {loc[p].deal} : info'[d] = info[d]
    BY FillInfoInv
  <1>3. IndexOK(owner["index"], taken["index"], expire_at["index"], info')
    BY <1>2 DEF RowsInv, IndexOK
  <1> QED  BY <1>1, <1>3 DEF RowsInv

-----------------------------------------------------------------------------
(* The records of a deal, and the search                                    *)

(* Where process p has put, or will put, the record of its deal. *)
OwnElement(p) == SafeNow(loc[p].table, loc[p].deal, loc[p].row, loc[p].index, loc[p].time)
OwnElementNext(p) ==
    SafeNext(loc'[p].table, loc'[p].deal, loc'[p].row, loc'[p].index, loc'[p].time)

(* The index has a record of deal d. *)
InIndex(d) == \E r \in Rows, i \in Idx : SafeNow("index", d, r, i, info[d].timestamp)
InIndexNext(d) == \E r \in Rows, i \in Idx : SafeNext("index", d, r, i, info'[d].timestamp)

(* What every step but cleanup() does to the records that are in use and to *)
(* the searches that have collected their rows.                             *)
Effect ==
    /\ truncated' = truncated /\ spoilt \subseteq spoilt'
    /\ Hidden' >= Hidden
    /\ \A t \in Tables, r \in Rows : KeepRow(t, r)
    /\ \A d \in Deals :
         \/ info'[d] = info[d]
         \/ d \notin done /\ d \notin done' /\
            (d \notin truncated =>
               SafeNext("data", d, info'[d].row, info'[d].index, info'[d].data_time))
    /\ \A p \in Procs :
         \/ pc'[p] \notin {"add_copy", "stamp"}
         \/ pc[p] \in {"add_copy", "stamp"} /\ loc'[p] = loc[p]
         \/ OwnElementNext(p)
    /\ \A d \in done' \ (done \union truncated) : InIndexNext(d)
    /\ NoNewOwner(done)
    /\ \A p \in Procs :
         \/ pc'[p] \notin {"scan_read", "fill"}
         \/ pc'[p] = pc[p] /\ loc'[p] = loc[p]
         \/ SearchOK(p)'

(* Records stay where they are as long as they are visible. *)
LEMMA SafeKept ==
    ASSUME StepsInv, StepsInv', NEW t \in Tables, \A r \in Rows : KeepRow(t, r),
           Hidden' >= Hidden,
           NEW d, NEW r \in Rows, NEW i \in Idx, NEW time \in Nat, SafeNow(t, d, r, i, time)
    PROVE  SafeNext(t, d, r, i, time)
  <1>1. /\ expire_at[t][r] \in Nat /\ expire_at'[t][r] \in Nat
        /\ taken[t][r] \in 0..PageSize /\ taken'[t][r] \in 0..PageSize
        /\ now \in Nat /\ highest \in Nat /\ now' \in Nat /\ highest' \in Nat
    BY DEF StepsInv, TypeOK
  <1>2. Hidden \in Nat /\ Hidden' \in Nat
    BY <1>1 DEF Hidden, Larger
  <1>3. taken[t][r] \in Nat /\ taken'[t][r] \in Nat /\ i \in Nat
          /\ DEALS_EXPIRES \in Nat
    BY <1>1, Sets
  <1>4. KeepRow(t, r)
    OBVIOUS
  <1>5. CASE time + DEALS_EXPIRES <= Hidden
    BY <1>2, <1>3, <1>5 DEF SafeNext, Safe
  <1>6. CASE owner[t][r][i] = d /\ i < taken[t][r] /\ expire_at[t][r] >= time + DEALS_EXPIRES
    <2>1. CASE expire_at[t][r] <= Hidden'
      BY <1>1, <1>2, <1>3, <1>6, <2>1 DEF SafeNext, Safe
    <2>2. CASE /\ expire_at'[t][r] >= expire_at[t][r]
               /\ taken'[t][r] >= taken[t][r]
               /\ \A j \in Idx : j < taken[t][r] => owner'[t][r][j] = owner[t][r][j]
      BY <1>1, <1>3, <1>6, <2>2 DEF SafeNext, Safe
    <2> QED  BY <1>4, <2>1, <2>2 DEF KeepRow
  <1> QED  BY <1>5, <1>6 DEF SafeNow, Safe

(* What every step but cleanup() does leaves the records of a deal in their *)
(* elements as long as the deal can be found.                               *)
LEMMA SafeStep ==
    ASSUME StepsInv, StepsInv', SafeInv, Effect
    PROVE  SafeInv'
  <1>0. /\ truncated' = truncated /\ Hidden' >= Hidden
        /\ \A t \in Tables, r \in Rows : KeepRow(t, r)
    BY DEF Effect
  <1>i. \A d \in Deals : /\ info[d].row \in Rows /\ info[d].index \in Idx
                         /\ info[d].data_time \in Nat /\ info[d].timestamp \in Nat
    BY DEF StepsInv, TypeOK, DealInfo
  <1>1. ASSUME NEW d \in Deals \ truncated, info'[d].timestamp > 0
        PROVE  SafeNext("data", d, info'[d].row, info'[d].index, info'[d].data_time)
    <2>1. CASE info'[d] = info[d]
      <3>1. SafeNow("data", d, info[d].row, info[d].index, info[d].data_time)
        BY <1>1, <2>1 DEF SafeInv
      <3>2. SafeNext("data", d, info[d].row, info[d].index, info[d].data_time)
        BY <1>0, <1>i, <3>1, SafeKept, Sets
      <3> QED  BY <2>1, <3>2
    <2>2. CASE info'[d] # info[d]
      BY <2>2 DEF Effect
    <2> QED  BY <2>1, <2>2
  <1>2. ASSUME NEW p \in Procs, pc'[p] \in {"add_copy", "stamp"}, loc'[p].deal \notin truncated
        PROVE  OwnElementNext(p)
    <2>1. CASE pc[p] \in {"add_copy", "stamp"} /\ loc'[p] = loc[p]
      <3>1. loc[p].row \in Rows /\ loc[p].index \in Idx /\ loc[p].time \in Nat
              /\ loc[p].table \in Tables
        BY <2>1, Types, LocalsTypes DEF StepOK
      <3>2. OwnElement(p)
        BY <1>2, <2>1 DEF SafeInv, OwnElement
      <3>3. SafeNext(loc[p].table, loc[p].deal, loc[p].row, loc[p].index, loc[p].time)
        BY <1>0, <3>1, <3>2, SafeKept DEF OwnElement
      <3> QED  BY <2>1, <3>3 DEF OwnElementNext
    <2>2. CASE ~(pc[p] \in {"add_copy", "stamp"} /\ loc'[p] = loc[p])
      BY <1>2, <2>2 DEF Effect
    <2> QED  BY <2>1, <2>2
  <1>3. ASSUME NEW d \in done' \ truncated  PROVE InIndexNext(d)
    <2>1. CASE d \in done
      <3>1. d \in Deals /\ info'[d] = info[d]
        BY <2>1 DEF Effect, StepsInv, TypeOK
      <3>2. PICK r \in Rows, i \in Idx : SafeNow("index", d, r, i, info[d].timestamp)
        BY <1>3, <2>1 DEF SafeInv
      <3>3. SafeNext("index", d, r, i, info[d].timestamp)
        BY <1>0, <1>i, <3>1, <3>2, SafeKept, Sets
      <3> QED  BY <3>1, <3>3 DEF InIndexNext
    <2>2. CASE d \notin done
      BY <1>3, <2>2 DEF Effect
    <2> QED  BY <2>1, <2>2
  <1> QED  BY <1>0, <1>1, <1>2, <1>3 DEF SafeInv, SafeNow, SafeNext, OwnElementNext, InIndexNext

(* What every step but cleanup() does leaves a deal that a search has not   *)
(* met in a row the search has still to read.                               *)
LEMMA SearchStep ==
    ASSUME StepsInv, StepsInv', SearchInv, Effect
    PROVE  SearchInv'
  <1> SUFFICES ASSUME NEW p \in Procs  PROVE SearchOK(p)'
    BY DEF SearchInv
  <1>1. CASE pc'[p] \notin {"scan_read", "fill"}
    BY <1>1 DEF SearchOK
  <1>2. CASE pc'[p] = pc[p] /\ loc'[p] = loc[p] /\ pc[p] \in {"scan_read", "fill"}
    <2> SUFFICES ASSUME NEW d \in loc[p].before \ (truncated' \union spoilt'),
                        NEW r \in Rows, NEW i \in Idx,
                        info'[d].timestamp + DEALS_EXPIRES > Hidden',
                        owner'["index"][r][i] = d
                 PROVE  d \in loc[p].found \/ r \in loc[p].rows \union loc[p].misread
      BY <1>2 DEF SearchOK
    <2>1. d \in done /\ d \in Deals /\ d \notin truncated \union spoilt
      BY DEF StepsInv, StepOK, TypeOK, Effect
    <2>2. info'[d] = info[d] /\ owner["index"][r][i] = d
      BY <2>1 DEF Effect, NoNewOwner
    <2>3. info[d].timestamp + DEALS_EXPIRES > Hidden
      <3>1. now \in Nat /\ highest \in Nat /\ now' \in Nat /\ highest' \in Nat
        BY DEF StepsInv, TypeOK
      <3>2. Hidden \in Nat /\ Hidden' \in Nat
        BY <3>1 DEF Hidden, Larger
      <3>3. info[d].timestamp \in Nat /\ DEALS_EXPIRES \in Nat /\ Hidden' >= Hidden
        BY <2>1, Types, Sets DEF Effect
      <3> QED  BY <2>2, <3>2, <3>3
    <2> QED  BY <1>2, <2>1, <2>2, <2>3 DEF SearchInv, SearchOK
  <1>3. CASE SearchOK(p)'
    BY <1>3
  <1> QED  BY <1>1, <1>2, <1>3 DEF Effect

(* Steps that touch neither a row nor a DealInfo, and leave no process      *)
(* behind a claim or in the middle of a search.                             *)
LEMMA StillEffect ==
    ASSUME StepsInv, UNCHANGED <<indexVars, info, now, highest, done, truncated, spoilt>>,
           NEW p \in Procs,
           \A q \in Procs \ {p} : pc'[q] = pc[q] /\ loc'[q] = loc[q],
           pc'[p] \notin {"add_copy", "stamp"},
           pc'[p] \notin {"scan_read", "fill"} \/ SearchOK(p)'
    PROVE  Effect
  <1>1. Hidden \in Nat /\ Hidden' = Hidden
    BY Types DEF Hidden
  <1>2. Hidden' >= Hidden
    BY <1>1
  <1>3. (\A t \in Tables, r \in Rows : KeepRow(t, r)) /\ NoNewOwner(done)
    BY SameRows
  <1>4. \A q \in Procs : \/ pc'[q] \notin {"add_copy", "stamp"}
                         \/ pc[q] \in {"add_copy", "stamp"} /\ loc'[q] = loc[q]
    OBVIOUS
  <1>5. \A q \in Procs : \/ pc'[q] \notin {"scan_read", "fill"}
                         \/ pc'[q] = pc[q] /\ loc'[q] = loc[q]
                         \/ SearchOK(q)'
    OBVIOUS
  <1> QED  BY <1>2, <1>3, <1>4, <1>5 DEF Effect

(* A search collects the rows of every deal that is visible. *)
LEMMA CollectsAll ==
    ASSUME StepsInv, RowsInv, NEW p \in Procs, CollectRows(p)
    PROVE  SearchOK(p)'
  <1> DEFINE none == {}
             nothing == {}
  <1>1. /\ Visit(p, Visible(p), none, nothing) /\ pc[p] \in Scanning
        /\ Visible(p) \in SUBSET Rows /\ none \in SUBSET Deals /\ nothing \in SUBSET Rows
        /\ UNCHANGED <<expire_at, owner, info, now, highest, truncated>>
    BY DEF CollectRows, Scanning, Visible, UsedRows, tableVars, indexVars, historyVars
  <1> HIDE DEF none, nothing
  <1>2. loc'[p].rows = Visible(p) /\ loc'[p].before = loc[p].before
    BY <1>1, VisitStep
  <1> SUFFICES ASSUME NEW d \in loc[p].before \ truncated, NEW r \in Rows, NEW i \in Idx,
                      info[d].timestamp + DEALS_EXPIRES > Hidden, owner["index"][r][i] = d
               PROVE  r \in Visible(p)
    BY <1>1, <1>2 DEF SearchOK, Hidden
  <1>3. d \in Deals
    BY Types, LocalsTypes
  <1>4. /\ info[d].timestamp \in Nat /\ DEALS_EXPIRES \in Nat /\ Hidden \in Nat
        /\ Hidden >= now /\ Hidden >= global_expire_at /\ now \in Nat /\ global_expire_at \in Nat
        /\ loc[p].time \in Nat /\ loc[p].time <= now
    BY <1>3, Types, LocalsTypes, Sets DEF StepOK
  <1>5. expire_at["index"][r] \in Nat
    BY Sets DEF StepsInv, TypeOK
  <1>6. expire_at["index"][r] >= info[d].timestamp + DEALS_EXPIRES
    BY <1>3 DEF RowsInv, IndexOK
  <1>7. /\ expire_at["index"][r] > loc[p].time /\ expire_at["index"][r] > global_expire_at
    BY <1>4, <1>5, <1>6
  <1>8. r \in UsedRows("index")
    BY <1>3 DEF RowsInv, InFront, UsedRows
  <1> QED  BY <1>7, <1>8 DEF Visible

(* The deals of a row that is read pass the filter. *)
LEMMA ReadsAll ==
    ASSUME StepsInv, RowsInv, CopiesInv, SearchInv, NEW p \in Procs, ReadPage(p)
    PROVE  SearchOK(p)'
  <1>1. PICK row \in loc[p].rows, found \in SUBSET Deals, misread \in SUBSET Rows :
          /\ Visit(p, loc[p].rows \ {row}, found, misread)
          /\ loc[p].found \subseteq found /\ loc[p].misread \subseteq misread
          /\ row \in misread \/ process_element(p, row) \subseteq found
    BY PageRead
  <1>2. /\ pc[p] = "scan_read" /\ pc[p] \in Scanning
        /\ UNCHANGED <<owner, info, now, highest, truncated, spoilt>>
    BY PageRead DEF Scanning, Still, indexVars
  <1>3. loc[p].rows \in SUBSET Rows
    BY Types, LocalsTypes
  <1> DEFINE rows == loc[p].rows \ {row}
  <1>4. rows \in SUBSET Rows /\ Visit(p, rows, found, misread)
    BY <1>1, <1>3
  <1> HIDE DEF rows
  <1>5. /\ loc'[p].rows = rows /\ loc'[p].found = found /\ loc'[p].misread = misread
        /\ loc'[p].before = loc[p].before
    BY <1>1, <1>2, <1>4, VisitStep
  <1> SUFFICES ASSUME NEW d \in loc[p].before \ (truncated \union spoilt),
                      NEW r \in Rows, NEW i \in Idx,
                      info[d].timestamp + DEALS_EXPIRES > Hidden,
                      owner["index"][r][i] = d
               PROVE  d \in found \/ r \in rows \union misread
    BY <1>2, <1>5 DEF SearchOK, Hidden
  <1>6. d \in loc[p].found \/ r \in loc[p].rows \union loc[p].misread
    BY <1>2 DEF SearchInv, SearchOK
  <1>7. CASE d \in loc[p].found \/ r \in loc[p].misread \/ r # row
    BY <1>1, <1>6, <1>7 DEF rows
  <1>8. CASE r = row
    <2>1. d \in Deals /\ d \in done
      BY Types, LocalsTypes DEF StepOK
    <2>2. i < taken["index"][r]
      BY <2>1 DEF RowsInv, IndexOK
    <2>3. info[d].timestamp > loc[p].min_timestamp
      <3>1. /\ info[d].timestamp \in Nat /\ DEALS_EXPIRES \in Nat /\ Hidden \in Nat
            /\ loc[p].min_timestamp \in Nat
        BY <2>1, Types, LocalsTypes, Sets
      <3>2. loc[p].min_timestamp + DEALS_EXPIRES <= Hidden
        BY <1>2 DEF StepsInv, StepOK
      <3> QED  BY <3>1, <3>2
    <2>4. elements["index"][r][i] = d
      BY <2>1, Sets DEF CopiesInv, Written
    <2>5. d \in process_element(p, row)
      BY <1>8, <2>1, <2>2, <2>3, <2>4 DEF process_element
    <2> QED  BY <1>1, <1>8, <2>5
  <1> QED  BY <1>7, <1>8

(* A sweep, after which the operation goes on or ends. *)
LEMMA SweepEffect ==
    ASSUME StepsInv, RowsInv, NEW p \in Procs, NEW t \in Tables, Swept(p, t),
           UNCHANGED <<info, now, historyVars>>,
           \A q \in Procs \ {p} : pc'[q] = pc[q] /\ loc'[q] = loc[q],
           pc'[p] \notin {"add_copy", "stamp", "scan_read", "fill"}
    PROVE  RowsInv' /\ Effect /\ KeepOwners(Deals)
  <1>1. /\ Hidden \in Nat /\ Hidden' = Hidden /\ done \subseteq Deals
        /\ UNCHANGED <<done, truncated, spoilt>>
    BY Types DEF Hidden, TypeOK, historyVars
  <1>2. /\ RowsInv' /\ NoNewOwner(Deals) /\ KeepOwners(Deals)
        /\ \A s \in Tables, r \in Rows : KeepRow(s, r)
    BY SweptRowsInv
  <1>3. NoNewOwner(done)
    BY <1>1, <1>2 DEF NoNewOwner
  <1>4. \A q \in Procs : \/ pc'[q] \notin {"add_copy", "stamp"}
                         \/ pc[q] \in {"add_copy", "stamp"} /\ loc'[q] = loc[q]
    OBVIOUS
  <1>5. \A q \in Procs : \/ pc'[q] \notin {"scan_read", "fill"}
                         \/ pc'[q] = pc[q] /\ loc'[q] = loc[q]
    OBVIOUS
  <1>6. Hidden' >= Hidden
    BY <1>1
  <1> QED  BY <1>1, <1>2, <1>3, <1>4, <1>5, <1>6 DEF Effect

(* Taking an element has the effects that the two invariants above allow. *)
LEMMA ClaimEffect ==
    ASSUME StepsInv, RowsInv, NEW p \in Procs, ClaimElement(p) \/ SetHorizon(p)
    PROVE  RowsInv' /\ Effect
  <1>1. /\ RowsInv' /\ NoNewOwner(done)
        /\ \A s \in Tables, r \in Rows : KeepRow(s, r)
        /\ pc'[p] = "add_copy" /\ \A q \in Procs \ {p} : pc'[q] = pc[q] /\ loc'[q] = loc[q]
        /\ UNCHANGED <<elements, info, now, begun, done, truncated, spoilt>>
        /\ OwnElementNext(p)
    BY ClaimedRowsInv DEF OwnElementNext
  <1>2. highest' \in Nat /\ highest' >= highest /\ highest \in Nat /\ now \in Nat
    BY ClaimMade, Types
  <1>3. Hidden' >= Hidden
    <2>1. now' = now
      BY <1>1
    <2> QED  BY <1>2, <2>1 DEF Hidden, Larger
  <1>5. \A q \in Procs : \/ pc[q] \in {"add_copy", "stamp"} /\ loc'[q] = loc[q]
                         \/ pc'[q] \notin {"add_copy", "stamp"}
                         \/ OwnElementNext(q)
    BY <1>1
  <1>6. \A q \in Procs : \/ pc'[q] \notin {"scan_read", "fill"}
                         \/ pc'[q] = pc[q] /\ loc'[q] = loc[q]
    BY <1>1
  <1> QED  BY <1>1, <1>3, <1>5, <1>6 DEF Effect

(* So has copying a record: a deal that it stores has its element of the    *)
(* index.                                                                   *)
LEMMA CopyEffect ==
    ASSUME StepsInv, RowsInv, SafeInv, NEW p \in Procs, CopyRecord(p)
    PROVE  RowsInv' /\ Effect
  <1> DEFINE d == loc[p].deal
  <1>1. pc[p] = "add_copy" /\ UNCHANGED <<indexVars, info, now, highest, truncated>>
    BY DEF CopyRecord
  <1>2. /\ \A q \in Procs \ {p} : pc'[q] = pc[q] /\ loc'[q] = loc[q]
        /\ \/ loc[p].table = "data" /\ pc'[p] = "stamp" /\ loc' = loc /\ done' = done
           \/ loc[p].table = "index" /\ pc'[p] = "idle" /\ done' = done \union {d}
    BY CopyStepInv
  <1>3. /\ d \in Deals /\ spoilt \subseteq spoilt' /\ loc[p].row \in Rows /\ loc[p].index \in Idx
        /\ Hidden \in Nat /\ Hidden' = Hidden
    BY <1>1, CopyMade, Types DEF Hidden
  <1>4. (\A t \in Tables, r \in Rows : KeepRow(t, r)) /\ NoNewOwner(done)
    BY <1>1, SameRows
  <1>5. ASSUME NEW e \in done' \ (done \union truncated)  PROVE InIndexNext(e)
    <2>1. e = d /\ loc[p].table = "index"
      BY <1>2, <1>5
    <2>2. SafeNow("index", d, loc[p].row, loc[p].index, loc[p].time)
      BY <1>1, <1>5, <2>1 DEF SafeInv
    <2>3. info[d].timestamp <= loc[p].time
      BY <1>1, <2>1 DEF StepsInv, StepOK
    <2>4. /\ info[d].timestamp \in Nat /\ loc[p].time \in Nat /\ DEALS_EXPIRES \in Nat
          /\ expire_at["index"][loc[p].row] \in Nat
      <3>1. expire_at["index"] \in [Rows -> Nat]
        BY Sets DEF StepsInv, TypeOK
      <3> QED  BY <1>3, <3>1, Types, LocalsTypes, Sets
    <2> HIDE DEF d
    <2>5. SafeNow("index", d, loc[p].row, loc[p].index, info[d].timestamp)
      BY <1>3, <2>2, <2>3, <2>4 DEF SafeNow, Safe
    <2>6. SafeNext("index", d, loc[p].row, loc[p].index, info'[d].timestamp)
      BY <1>1, <1>3, <2>5 DEF SafeNow, SafeNext, indexVars
    <2> QED  BY <1>3, <2>1, <2>6 DEF InIndexNext
  <1>6. \A q \in Procs : \/ pc[q] \in {"add_copy", "stamp"} /\ loc'[q] = loc[q]
                         \/ pc'[q] \notin {"add_copy", "stamp"}
    BY <1>1, <1>2
  <1>7. \A q \in Procs : \/ pc'[q] \notin {"scan_read", "fill"}
                         \/ pc'[q] = pc[q] /\ loc'[q] = loc[q]
    BY <1>2
  <1>8. Hidden' >= Hidden /\ RowsInv'
    BY <1>1, <1>3, SameRowsInv
  <1> QED  BY <1>1, <1>3, <1>4, <1>5, <1>6, <1>7, <1>8 DEF Effect

(* So has filling the index element. *)
LEMMA FillInfoEffect ==
    ASSUME StepsInv, RowsInv, SafeInv, NEW p \in Procs, FillInfo(p)
    PROVE  RowsInv' /\ Effect
  <1> DEFINE d == loc[p].deal
  <1>1. /\ UNCHANGED <<indexVars, now, highest, done, truncated, spoilt>> /\ pc[p] = "stamp"
    BY DEF FillInfo, tableVars, historyVars
  <1>2. /\ \A e \in Deals \ {d} : info'[e] = info[e]
        /\ info'[d].row = loc[p].row /\ info'[d].index = loc[p].index
        /\ info'[d].data_time = loc[p].time
        /\ loc[p].table = "data" /\ pc'[p] = "add_begin" /\ d \in Deals
        /\ \A q \in Procs \ {p} : pc'[q] = pc[q] /\ loc'[q] = loc[q]
    <2>1. info'[d] = [timestamp |-> now, row |-> loc[p].row,
                      index |-> loc[p].index, data_time |-> loc[p].time]
      BY FillInfoInv
    <2>2. /\ info'[d].row = loc[p].row /\ info'[d].index = loc[p].index
          /\ info'[d].data_time = loc[p].time
      BY <2>1
    <2> QED  BY <2>2, FillInfoInv
  <1>3. Hidden \in Nat /\ Hidden' = Hidden
    BY <1>1, Types DEF Hidden
  <1>4. d \notin done
    BY <1>1, Types DEF StepOK, Adding
  <1>5. d \notin truncated =>
          SafeNext("data", d, info'[d].row, info'[d].index, info'[d].data_time)
    BY <1>1, <1>2, <1>3 DEF SafeInv, SafeNow, SafeNext, indexVars
  <1>6. (\A t \in Tables, r \in Rows : KeepRow(t, r)) /\ NoNewOwner(done)
    BY <1>1, SameRows
  <1>7. \A q \in Procs : \/ pc[q] \in {"add_copy", "stamp"} /\ loc'[q] = loc[q]
                         \/ pc'[q] \notin {"add_copy", "stamp"}
    BY <1>2
  <1>8. \A q \in Procs : \/ pc'[q] \notin {"scan_read", "fill"}
                         \/ pc'[q] = pc[q] /\ loc'[q] = loc[q]
    BY <1>2
  <1>9. Hidden' >= Hidden /\ RowsInv'
    BY <1>3, StampedRowsInv
  <1> QED  BY <1>1, <1>2, <1>4, <1>5, <1>6, <1>7, <1>8, <1>9 DEF Effect

(* So has the clock. *)
LEMMA TickEffect ==
    ASSUME StepsInv, RowsInv, Tick
    PROVE  RowsInv' /\ Effect
  <1>1. UNCHANGED <<indexVars, info, done, truncated, spoilt, pc, loc>> /\ Hidden' >= Hidden
    BY TickInv DEF Tick, tableVars, historyVars
  <1>2. (\A t \in Tables, r \in Rows : KeepRow(t, r)) /\ NoNewOwner(done)
    BY <1>1, SameRows
  <1>3. RowsInv'
    BY <1>1, SameRowsInv
  <1> QED  BY <1>1, <1>2, <1>3 DEF Effect

(* After cleanup() no deal that was begun is missed. *)
LEMMA CleanEffect ==
    ASSUME StepsInv, StepsInv', NEW p \in Procs, CleanTable(p) \/ CleanFails(p)
    PROVE  SafeInv' /\ SearchInv'
  <1>1. truncated' = begun /\ begun' = begun
    BY CleanMade
  <1>2. \A d \in Deals : info'[d].timestamp > 0 => d \in truncated'
    BY <1>1 DEF StepsInv
  <1>3. \A q \in Procs : pc'[q] \in {"add_copy", "stamp"} => loc'[q].deal \in truncated'
    BY <1>1 DEF StepsInv, StepOK, Adding
  <1>4. (\A q \in Procs : loc'[q].before \subseteq truncated') /\ done' \subseteq truncated'
    BY <1>1 DEF StepsInv, StepOK
  <1> QED  BY <1>2, <1>3, <1>4 DEF SafeInv, SearchInv, SearchOK

-----------------------------------------------------------------------------
(* What the elements hold                                                   *)

(* A step that gives away no element keeps what they hold. *)
LEMMA OwnersKept ==
    ASSUME StepsInv, PlacesInv, CopiesInv, KeepOwners(Deals),
           begun \subseteq begun', done' = done, spoilt \subseteq spoilt',
           \A d \in Deals : info'[d].timestamp > 0 => d \in Written("data"),
           \A q \in Procs : \/ pc'[q] = pc[q] /\ loc'[q] = loc[q]
                            \/ Place(q)' /\ pc'[q] # "stamp"
    PROVE  PlacesInv' /\ CopiesInv'
  <1>1. \A q \in Procs : Place(q)'
    <2> SUFFICES ASSUME NEW q \in Procs, pc'[q] = pc[q] /\ loc'[q] = loc[q]  PROVE Place(q)'
      OBVIOUS
    <2>1. /\ Place(q) /\ loc[q].table \in Tables
          /\ pc[q] \in Adding => loc[q].deal \in Deals
      BY Types, LocalsTypes DEF PlacesInv
    <2> QED  BY <2>1 DEF Place, KeepOwners
  <1>2. \A t \in Tables, r \in Rows, i \in Idx, d \in Deals : owner'[t][r][i] = d => d \in begun'
    BY DEF PlacesInv, KeepOwners
  <1>3. ASSUME NEW t \in Tables, NEW d \in Written(t)' \ spoilt', NEW r \in Rows, NEW i \in Idx,
               owner'[t][r][i] = d
        PROVE  elements'[t][r][i] = d
    <2>1. d \in Deals /\ d \in Written(t)
      <3>1. CASE t = "index"
        BY <1>3, <3>1 DEF Written, StepsInv, TypeOK
      <3>2. CASE t # "index"
        <4>1. d \in Deals /\ (info'[d].timestamp > 0
                                \/ \E q \in Procs : pc'[q] = "stamp" /\ loc'[q].deal = d)
          BY <3>2 DEF Written
        <4>2. Written(t) = Written("data")
          BY <3>2 DEF Written
        <4>3. CASE info'[d].timestamp > 0
          BY <4>1, <4>2, <4>3
        <4>4. CASE \E q \in Procs : pc'[q] = "stamp" /\ loc'[q].deal = d
          BY <3>2, <4>1, <4>4 DEF Written
        <4> QED  BY <4>1, <4>3, <4>4
      <3> QED  BY <3>1, <3>2
    <2>2. owner[t][r][i] = d /\ elements'[t][r][i] = elements[t][r][i]
      BY <1>3, <2>1 DEF KeepOwners
    <2> QED  BY <1>3, <2>1, <2>2 DEF CopiesInv
  <1> QED  BY <1>1, <1>2, <1>3 DEF PlacesInv, CopiesInv

(* The same for a step that does not touch the deals. *)
LEMMA ElementsKept ==
    ASSUME StepsInv, PlacesInv, CopiesInv, KeepOwners(Deals),
           UNCHANGED <<info, begun, done, spoilt>>,
           \A q \in Procs : \/ pc'[q] = pc[q] /\ loc'[q] = loc[q]
                            \/ Place(q)' /\ pc'[q] # "stamp"
    PROVE  PlacesInv' /\ CopiesInv'
  <1>1. \A d \in Deals : info'[d].timestamp > 0 => d \in Written("data")
    BY DEF Written
  <1> QED  BY <1>1, OwnersKept

(* Who only goes on towards its claim has no element yet. *)
LEMMA StillNoPlace ==
    ASSUME StepsInv, PlacesInv, KeepOwners(Deals), NEW p \in Procs,
           pc[p] \in {"add_begin", "add_wait"}, pc'[p] \in {"add_wait", "add_raise"},
           loc'[p].table = loc[p].table, loc'[p].deal = loc[p].deal
    PROVE  Place(p)'
  <1>1. Place(p) /\ loc[p].table \in Tables /\ loc[p].deal \in Deals /\ pc[p] \in Adding
    BY Types, LocalsTypes DEF PlacesInv, Adding
  <1>2. \A r \in Rows, i \in Idx : owner[loc[p].table][r][i] # loc[p].deal
    BY <1>1 DEF Place
  <1> QED  BY <1>1, <1>2 DEF Place, KeepOwners

(* addDeal() begins with a deal that has no element. *)
LEMMA AddDealPlaces ==
    ASSUME StepsInv, PlacesInv, CopiesInv, NEW p \in Procs, addDeal(p)
    PROVE  PlacesInv' /\ CopiesInv'
  <1>1. /\ pc'[p] = "add_begin" /\ loc'[p].deal \in Deals \ begun
        /\ begun \subseteq begun' /\ StepsInv'
        /\ \A q \in Procs \ {p} : pc'[q] = pc[q] /\ loc'[q] = loc[q]
        /\ UNCHANGED <<tableVars, info, done, spoilt>>
    BY AddDealInv
  <1>2. KeepOwners(Deals) /\ owner' = owner
    BY <1>1 DEF KeepOwners, tableVars, indexVars, pageVars
  <1>3. Place(p)'
    <2>1. loc'[p].table \in Tables
      BY <1>1, LocalsTypes DEF StepsInv, TypeOK
    <2> QED  BY <1>1, <1>2, <2>1 DEF Place, PlacesInv
  <1>4. \A d \in Deals : info'[d].timestamp > 0 => d \in Written("data")
    BY <1>1 DEF Written
  <1>5. done' = done /\ spoilt \subseteq spoilt'
    BY <1>1
  <1> QED  BY <1>1, <1>2, <1>3, <1>4, <1>5, OwnersKept

(* A deal whose DealInfo is being filled has no element of the index yet.   *)
LEMMA FillInfoPlaces ==
    ASSUME StepsInv, RowsInv, PlacesInv, CopiesInv, NEW p \in Procs, FillInfo(p)
    PROVE  PlacesInv' /\ CopiesInv'
  <1> DEFINE d == loc[p].deal
  <1>1. /\ \A e \in Deals \ {d} : info'[e] = info[e]
        /\ info[d].timestamp = 0 /\ d \in Deals /\ pc'[p] = "add_begin"
        /\ \A q \in Procs \ {p} : pc'[q] = pc[q] /\ loc'[q] = loc[q]
    BY FillInfoInv
  <1>2. /\ pc[p] = "stamp" /\ SetLocals(p, [loc[p] EXCEPT !.table = "index"])
        /\ UNCHANGED <<owner, elements, begun, done, spoilt>>
    BY DEF FillInfo, tableVars, indexVars, pageVars, historyVars
  <1>3. loc'[p].table = "index" /\ loc'[p].deal = d
    <2>1. loc \in [Procs -> Locals] /\ loc[p] \in Locals
      BY Types DEF TypeOK
    <2> QED  BY <1>2, <2>1 DEF SetLocals, Locals
  <1>4. KeepOwners(Deals)
    BY <1>2 DEF KeepOwners
  <1>5. Place(p)'
    BY <1>1, <1>2, <1>3 DEF Place, RowsInv, IndexOK
  <1>6. \A e \in Deals : info'[e].timestamp > 0 => e \in Written("data")
    BY <1>1, <1>2 DEF Written
  <1>7. begun \subseteq begun' /\ done' = done /\ spoilt \subseteq spoilt'
    BY <1>2
  <1> QED  BY <1>1, <1>4, <1>5, <1>6, <1>7, OwnersKept

(* A claim gives an element to a deal whose copy is still to come. *)
LEMMA ClaimPlaces ==
    ASSUME StepsInv, RowsInv, PlacesInv, CopiesInv, NEW p \in Procs,
           ClaimElement(p) \/ SetHorizon(p)
    PROVE  PlacesInv' /\ CopiesInv'
  <1> DEFINE d == loc[p].deal
  <1>1. /\ pc[p] \in {"add_wait", "add_raise"} /\ pc'[p] = "add_copy"
        /\ \A q \in Procs \ {p} : pc'[q] = pc[q] /\ loc'[q] = loc[q]
        /\ loc'[p].table = loc[p].table /\ loc'[p].deal = d
        /\ UNCHANGED <<elements, info, begun, done, spoilt>>
        /\ \A s \in Tables, q \in Rows, j \in Idx, e \in Deals : owner'[s][q][j] = e =>
             \/ owner[s][q][j] = e
             \/ s = loc[p].table /\ q = loc'[p].row /\ j = loc'[p].index /\ e = d
    BY ClaimedRowsInv
  <1>2. /\ d \in Deals /\ loc[p].table \in Tables /\ d \in begun \ done /\ Place(p)
        /\ pc[p] \in Adding /\ (loc[p].table = "data" <=> info[d].timestamp = 0)
        /\ info[d].timestamp \in Nat
    BY <1>1, Types, LocalsTypes DEF Adding, StepOK, PlacesInv
  <1>3. \A r \in Rows, i \in Idx : owner[loc[p].table][r][i] # d
    BY <1>1, <1>2 DEF Place
  <1>4. ASSUME NEW q \in Procs \ {p}, pc[q] \in Adding
        PROVE  loc[q].deal \in Deals /\ loc[q].deal # d
    BY <1>2, <1>4, Types DEF StepsInv, Distinct
  <1>5. \A q \in Procs : Place(q)'
    <2> SUFFICES ASSUME NEW q \in Procs, pc'[q] \in Adding, NEW r \in Rows, NEW i \in Idx,
                        owner'[loc'[q].table][r][i] = loc'[q].deal
                 PROVE  /\ pc'[q] \in {"add_copy", "stamp"}
                        /\ r = loc'[q].row /\ i = loc'[q].index
      BY DEF Place
    <2>1. CASE q = p
      BY <1>1, <1>2, <1>3, <2>1
    <2>2. CASE q # p
      <3>1. /\ pc'[q] = pc[q] /\ loc'[q] = loc[q] /\ loc[q].deal \in Deals /\ loc[q].deal # d
            /\ loc[q].table \in Tables /\ Place(q)
        BY <1>1, <1>4, <2>2, Types, LocalsTypes DEF PlacesInv
      <3>2. owner[loc[q].table][r][i] = loc[q].deal
        BY <1>1, <3>1
      <3> QED  BY <3>1, <3>2 DEF Place
    <2> QED  BY <2>1, <2>2
  <1>6. \A t \in Tables, r \in Rows, i \in Idx, e \in Deals : owner'[t][r][i] = e => e \in begun'
    BY <1>1, <1>2 DEF PlacesInv
  <1>7. d \notin Written(loc[p].table)
    <2>1. CASE loc[p].table = "index"
      BY <1>2, <2>1 DEF Written
    <2>2. CASE loc[p].table # "index"
      <3>1. loc[p].table = "data"
        BY <1>2, <2>2 DEF Tables
      <3>2. ~(info[d].timestamp > 0)
        BY <1>2, <3>1
      <3>3. ~\E q \in Procs : pc[q] = "stamp" /\ loc[q].deal = d
        BY <1>1, <1>4 DEF Adding
      <3> QED  BY <3>1, <3>2, <3>3 DEF Written
    <2> QED  BY <2>1, <2>2
  <1>8. \A t \in Tables : Written(t)' \subseteq Written(t) /\ Written(t) \subseteq Deals
    <2>1. \A q \in Procs : pc'[q] = "stamp" => pc[q] = "stamp" /\ loc'[q] = loc[q]
      BY <1>1
    <2>2. done \subseteq Deals
      BY DEF StepsInv, TypeOK
    <2> QED  BY <1>1, <2>1, <2>2 DEF Written
  <1>9. CopiesInv'
    <2> SUFFICES ASSUME NEW t \in Tables, NEW e \in Written(t)' \ spoilt',
                        NEW r \in Rows, NEW i \in Idx, owner'[t][r][i] = e
                 PROVE  elements'[t][r][i] = e
      BY DEF CopiesInv
    <2>1. e \in Deals /\ e \in Written(t) /\ e \notin spoilt
      BY <1>1, <1>8
    <2>2. owner[t][r][i] = e
      BY <1>1, <1>7, <2>1
    <2> QED  BY <1>1, <2>1, <2>2 DEF CopiesInv
  <1> QED  BY <1>5, <1>6, <1>9 DEF PlacesInv

(* A copy reaches the element of its deal, or spoils what it does not mean. *)
LEMMA CopyPlaces ==
    ASSUME StepsInv, PlacesInv, CopiesInv, NEW p \in Procs, CopyRecord(p)
    PROVE  PlacesInv' /\ CopiesInv'
  <1> DEFINE t == loc[p].table
             r == loc[p].row
             i == loc[p].index
             d == loc[p].deal
  <1>1. /\ pc[p] = "add_copy" /\ t \in Tables /\ r \in Rows /\ i \in Idx
        /\ d \in Deals /\ spoilt \subseteq spoilt'
        /\ \A u \in Tables, s \in Rows, j \in Idx :
             u # t \/ s # r \/ j # i => elements'[u][s][j] = elements[u][s][j]
        /\ d \in spoilt' \/ elements'[t][r][i] = d
        /\ elements'[t][r][i] = elements[t][r][i] \/ owner[t][r][i] \in spoilt' \union {d, NoDeal}
    BY CopyMade
  <1>2. /\ \A q \in Procs \ {p} : pc'[q] = pc[q] /\ loc'[q] = loc[q]
        /\ \/ t = "data" /\ pc'[p] = "stamp" /\ loc' = loc /\ done' = done
           \/ t = "index" /\ pc'[p] = "idle" /\ done' = done \union {d}
    BY CopyStepInv
  <1>3. UNCHANGED <<owner, info, begun>>
    BY DEF CopyRecord, indexVars
  <1>4. PlacesInv'
    <2>1. \A q \in Procs : Place(q)'
      <3>1. ASSUME NEW q \in Procs, q # p  PROVE Place(q)'
        BY <1>2, <1>3, <3>1 DEF PlacesInv, Place
      <3>2. Place(p)'
        <4>1. CASE pc'[p] = "idle"
          BY <4>1 DEF Place, Adding
        <4>2. CASE pc'[p] = "stamp" /\ loc' = loc
          BY <1>1, <1>3, <4>2 DEF PlacesInv, Place, Adding
        <4> QED  BY <1>2, <4>1, <4>2
      <3> QED  BY <3>1, <3>2
    <2> QED  BY <1>3, <2>1 DEF PlacesInv
  <1>5. Place(p) /\ NoDeal \notin Deals
    BY Types DEF PlacesInv
  <1>6. \A s \in Rows, j \in Idx : owner[t][s][j] = d => s = r /\ j = i
    BY <1>1, <1>5 DEF Place, Adding
  <1>7. \A u \in Tables : /\ Written(u)' \subseteq Written(u) \union (IF u = t THEN {d} ELSE {})
                          /\ Written(u) \subseteq Deals
    <2>1. \A q \in Procs : pc'[q] = "stamp" => \/ pc[q] = "stamp" /\ loc'[q] = loc[q]
                                               \/ q = p /\ t = "data" /\ loc'[q].deal = d
      BY <1>2
    <2>2. done \subseteq Deals /\ done' \subseteq (IF t = "index" THEN done \union {d} ELSE done)
      BY <1>2 DEF StepsInv, TypeOK
    <2>3. Tables = {"data", "index"}
      BY DEF Tables
    <2> QED  BY <1>3, <2>1, <2>2, <2>3 DEF Written
  <1> HIDE DEF t, r, i, d
  <1>8. CopiesInv'
    <2> SUFFICES ASSUME NEW u \in Tables, NEW e \in Written(u)' \ spoilt',
                        NEW s \in Rows, NEW j \in Idx, owner'[u][s][j] = e
                 PROVE  elements'[u][s][j] = e
      BY DEF CopiesInv
    <2>1. e \in Written(u) \/ (u = t /\ e = d)
      BY <1>7
    <2>2. e \in Deals /\ e \notin spoilt /\ owner[u][s][j] = e
      BY <1>1, <1>3, <1>7, <2>1
    <2>3. CASE u = t /\ e = d
      BY <1>1, <1>6, <2>2, <2>3
    <2>4. CASE e \in Written(u) /\ ~(u = t /\ e = d)
      <3>1. elements[u][s][j] = e
        BY <2>2, <2>4 DEF CopiesInv
      <3>2. CASE u # t \/ s # r \/ j # i
        BY <1>1, <3>1, <3>2
      <3>3. CASE u = t /\ s = r /\ j = i
        <4>1. owner[t][r][i] \notin spoilt' \union {d, NoDeal}
          BY <1>5, <2>2, <2>4, <3>3
        <4> QED  BY <1>1, <3>1, <3>3, <4>1
      <3> QED  BY <3>2, <3>3
    <2> QED  BY <2>1, <2>3, <2>4
  <1> QED  BY <1>4, <1>8

-----------------------------------------------------------------------------
(* The properties of DealsDb                                                *)

DealsInv == StepsInv /\ RowsInv /\ SafeInv /\ PlacesInv /\ CopiesInv /\ SearchInv

(* The databases begin in the invariant. *)
LEMMA DealsInit ==
    Init => DealsInv
  <1> SUFFICES ASSUME Init  PROVE DealsInv
    OBVIOUS
  <1>1. StepsInv
    BY StepsInit
  <1>2. /\ \A t \in Tables, r \in Rows, i \in Idx : owner[t][r][i] = NoDeal
        /\ \A d \in Deals : ~(info[d].timestamp > 0)
        /\ \A p \in Procs : pc[p] = "idle"
        /\ done = {}
    BY Sets DEF Init, Empty, NoInfo
  <1>3. NoDeal \notin Deals
    BY DealsAssumption DEF DealsAssumption
  <1>4. RowsInv
    BY <1>2, <1>3, Sets DEF RowsInv, IndexOK
  <1>5. SafeInv /\ SearchInv
    BY <1>2 DEF SafeInv, SearchInv, SearchOK
  <1>6. PlacesInv /\ CopiesInv
    <2>1. \A t \in Tables : Written(t) \subseteq Deals
      BY <1>2 DEF Written
    <2> QED  BY <1>2, <1>3, <2>1 DEF PlacesInv, Place, Adding, CopiesInv
  <1> QED  BY <1>1, <1>4, <1>5, <1>6 DEF DealsInv

(* Steps that touch neither a row, nor an element, nor a deal. *)
LEMMA StillKeeps ==
    ASSUME DealsInv, StepsInv',
           UNCHANGED <<indexVars, elements, info, now, highest, begun, done, truncated, spoilt>>,
           NEW p \in Procs,
           \A q \in Procs \ {p} : pc'[q] = pc[q] /\ loc'[q] = loc[q],
           pc'[p] \notin {"add_copy", "stamp"},
           pc'[p] \notin {"scan_read", "fill"} \/ SearchOK(p)',
           Place(p)'
    PROVE  DealsInv'
  <1>1. StepsInv /\ RowsInv /\ SafeInv /\ PlacesInv /\ CopiesInv /\ SearchInv
    BY DEF DealsInv
  <1>2. Effect /\ RowsInv'
    BY <1>1, StillEffect, SameRowsInv
  <1>3. KeepOwners(Deals)
    BY DEF KeepOwners, indexVars
  <1>4. PlacesInv' /\ CopiesInv'
    BY <1>1, <1>3, ElementsKept
  <1> QED  BY <1>1, <1>2, <1>4, SafeStep, SearchStep DEF DealsInv

(* The part of the proof that is the same for most steps. *)
LEMMA EffectKeeps ==
    ASSUME DealsInv, StepsInv', RowsInv', Effect, PlacesInv', CopiesInv'
    PROVE  DealsInv'
  BY SafeStep, SearchStep DEF DealsInv

(* Every step keeps the invariant: cleanup() counts every deal begun as     *)
(* truncated, and every other step has the effects above.                   *)
LEMMA DealsNext ==
    DealsInv /\ [Next]_vars => DealsInv'
  <1> SUFFICES ASSUME DealsInv, [Next]_vars  PROVE DealsInv'
    OBVIOUS
  <1>0. /\ StepsInv /\ StepsInv' /\ RowsInv /\ SafeInv /\ PlacesInv /\ CopiesInv /\ SearchInv
    BY StepsNext DEF DealsInv
  <1>1. ASSUME NEW p \in Procs, addDeal(p)  PROVE DealsInv'
    <2>1. /\ pc'[p] = "add_begin" /\ \A q \in Procs \ {p} : pc'[q] = pc[q] /\ loc'[q] = loc[q]
          /\ UNCHANGED <<indexVars, info, now, highest, done, truncated, spoilt>>
      BY <1>0, <1>1, AddDealInv DEF tableVars
    <2>2. RowsInv' /\ Effect
      BY <1>0, <2>1, StillEffect, SameRowsInv
    <2> QED  BY <1>0, <1>1, <2>2, AddDealPlaces, EffectKeeps
  <1>2. ASSUME NEW p \in Procs, FillInfo(p)  PROVE DealsInv'
    BY <1>0, <1>2, FillInfoEffect, FillInfoPlaces, EffectKeeps
  <1>3. ASSUME NEW p \in Procs, AddBegins(p) \/ ScanBegins(p)  PROVE DealsInv'
    <2>1. /\ UNCHANGED <<info, now, historyVars>>
          /\ \/ pc[p] = "add_begin" /\ pc'[p] = "add_wait"
             \/ pc'[p] = "scan_wait"
          /\ loc'[p].table = loc[p].table /\ loc'[p].deal = loc[p].deal
          /\ \A q \in Procs \ {p} : pc'[q] = pc[q] /\ loc'[q] = loc[q]
      BY <1>0, <1>3, TimeReadInv
    <2>2. PICK t \in Tables : Swept(p, t)
      BY <1>0, <1>3, TimeReadInv
    <2>3. RowsInv' /\ Effect /\ KeepOwners(Deals)
      BY <1>0, <2>1, <2>2, SweepEffect
    <2>4. Place(p)'
      <3>1. CASE pc'[p] = "scan_wait"
        BY <3>1 DEF Place, Adding
      <3>2. CASE pc[p] = "add_begin" /\ pc'[p] = "add_wait"
        BY <1>0, <2>1, <2>3, <3>2, StillNoPlace
      <3> QED  BY <2>1, <3>1, <3>2
    <2>5. UNCHANGED <<info, begun, done, spoilt>>
      BY <2>1 DEF historyVars
    <2>6. PlacesInv' /\ CopiesInv'
      BY <1>0, <2>1, <2>3, <2>4, <2>5, ElementsKept
    <2> QED  BY <1>0, <2>3, <2>6, EffectKeeps
  <1>4. ASSUME NEW p \in Procs, SweepFails(p)  PROVE DealsInv'
    <2>1. /\ UNCHANGED <<info, now, historyVars>> /\ pc'[p] = "idle"
          /\ \A q \in Procs \ {p} : pc'[q] = pc[q] /\ loc'[q] = loc[q]
      BY <1>0, <1>4, SweepFailsInv
    <2>2. PICK t \in Tables : Swept(p, t)
      BY <1>0, <1>4, SweepFailsInv
    <2>3. RowsInv' /\ Effect /\ KeepOwners(Deals)
      BY <1>0, <2>1, <2>2, SweepEffect
    <2>4. Place(p)' /\ UNCHANGED <<info, begun, done, spoilt>>
      BY <2>1 DEF Place, Adding, historyVars
    <2>5. PlacesInv' /\ CopiesInv'
      BY <1>0, <2>1, <2>3, <2>4, ElementsKept
    <2> QED  BY <1>0, <2>3, <2>5, EffectKeeps
  <1>5. ASSUME NEW p \in Procs, ClaimElement(p) \/ SetHorizon(p)  PROVE DealsInv'
    BY <1>0, <1>5, ClaimEffect, ClaimPlaces, EffectKeeps
  <1>6. ASSUME NEW p \in Procs, CopyRecord(p)  PROVE DealsInv'
    BY <1>0, <1>6, CopyEffect, CopyPlaces, EffectKeeps
  <1>7. ASSUME NEW p \in Procs,
               NoSpaceToInsert(p) \/ fill_deals_with_data(p) \/ NamelessRow(p) \/ Throws(p)
        PROVE  DealsInv'
    <2>1. Still /\ EndOp(p) /\ now' = now /\ done' = done
      BY <1>0, <1>7, EndsInv DEF historyVars, NoSpaceToInsert, fill_deals_with_data,
                                  NamelessRow, Throws
    <2>2. pc'[p] = "idle" /\ \A q \in Procs \ {p} : pc'[q] = pc[q] /\ loc'[q] = loc[q]
      BY <1>0, <2>1, Ends
    <2> QED  BY <1>0, <2>1, <2>2, StillKeeps DEF Still, Place, Adding
  <1>8. ASSUME NEW p \in Procs, searchFor(p) \/ truncate(p)  PROVE DealsInv'
    <2>1. /\ UNCHANGED <<indexVars, elements, info, now, highest, begun, done, truncated, spoilt>>
          /\ pc'[p] \in {"scan_begin", "clean"}
          /\ \A q \in Procs \ {p} : pc'[q] = pc[q] /\ loc'[q] = loc[q]
      <3>1. pc \in [Procs -> Pcs] /\ loc \in [Procs -> Locals]
        BY <1>0 DEF StepsInv, TypeOK
      <3>2. \E label \in {"scan_begin", "clean"} : \E l : Goto(p, label) /\ SetLocals(p, l)
        BY <1>8 DEF searchFor, truncate
      <3>3. UNCHANGED <<indexVars, elements, info, now, highest, begun, done, truncated, spoilt>>
        BY <1>8 DEF searchFor, truncate, historyVars, tableVars, pageVars
      <3> QED  BY <3>1, <3>2, <3>3 DEF Goto, SetLocals
    <2>2. pc'[p] \notin {"add_copy", "stamp"} /\ pc'[p] \notin {"scan_read", "fill"} /\ Place(p)'
      BY <2>1 DEF Place, Adding
    <2> QED  BY <1>0, <2>1, <2>2, StillKeeps
  <1>9. ASSUME NEW p \in Procs, TestHorizon(p)  PROVE DealsInv'
    <2>1. /\ pc[p] = "add_wait" /\ pc'[p] = "add_raise"
          /\ loc'[p].table = loc[p].table /\ loc'[p].deal = loc[p].deal
          /\ \A q \in Procs \ {p} : pc'[q] = pc[q] /\ loc'[q] = loc[q]
      BY <1>0, <1>9, TestHorizonInv
    <2>2. UNCHANGED <<indexVars, elements, info, now, highest, begun, done, truncated, spoilt>>
      BY <1>9 DEF TestHorizon, tableVars, pageVars, historyVars
    <2>3. KeepOwners(Deals)
      BY <2>2 DEF KeepOwners, indexVars
    <2>4. Place(p)'
      BY <1>0, <2>1, <2>3, StillNoPlace
    <2> QED  BY <1>0, <2>1, <2>2, <2>4, StillKeeps
  <1>10. ASSUME NEW p \in Procs, CollectRows(p) \/ ReadPage(p)  PROVE DealsInv'
    <2>1. /\ Still /\ done' = done /\ pc'[p] \in {"fill", "scan_read"}
          /\ \A q \in Procs \ {p} : pc'[q] = pc[q] /\ loc'[q] = loc[q]
      BY <1>0, <1>10, ReadsInv
    <2>2. SearchOK(p)'
      BY <1>0, <1>10, CollectsAll, ReadsAll
    <2>3. pc'[p] \notin {"add_copy", "stamp"} /\ Place(p)'
      BY <2>1 DEF Place, Adding
    <2> QED  BY <1>0, <2>1, <2>2, <2>3, StillKeeps DEF Still
  <1>11. ASSUME NEW p \in Procs, CleanTable(p) \/ CleanFails(p)  PROVE DealsInv'
    <2>1. RowsInv' /\ KeepOwners(Deals) /\ SafeInv' /\ SearchInv'
      BY <1>0, <1>11, CleanedRowsInv, CleanEffect
    <2>2. /\ pc'[p] \in {"clean", "idle"}
          /\ \A q \in Procs \ {p} : pc'[q] = pc[q] /\ loc'[q] = loc[q]
          /\ UNCHANGED <<info, begun, done, spoilt>>
      BY <1>0, <1>11, CleanInv, CleanMade
    <2>3. Place(p)' /\ pc'[p] # "stamp"
      BY <2>2 DEF Place, Adding
    <2>4. PlacesInv' /\ CopiesInv'
      BY <1>0, <2>1, <2>2, <2>3, ElementsKept
    <2> QED  BY <1>0, <2>1, <2>4 DEF DealsInv
  <1>12. CASE Tick
    <2>1. /\ UNCHANGED <<info, begun, done, spoilt, pc, loc>> /\ KeepOwners(Deals)
      BY <1>12 DEF Tick, tableVars, indexVars, pageVars, historyVars, KeepOwners
    <2>2. PlacesInv' /\ CopiesInv'
      BY <1>0, <2>1, ElementsKept
    <2> QED  BY <1>0, <1>12, <2>2, TickEffect, EffectKeeps
  <1>13. CASE UNCHANGED vars
    <2>1. UNCHANGED <<indexVars, pageVars, info, now, historyVars, pc, loc>>
      BY <1>13 DEF vars, tableVars
    <2>2. RowsInv' /\ SafeInv' /\ SearchInv'
      BY <1>0, <2>1 DEF indexVars, historyVars, RowsInv, SafeInv, SafeNow, SearchInv, SearchOK,
                         Hidden
    <2>3. PlacesInv' /\ CopiesInv'
      BY <1>0, <2>1 DEF indexVars, pageVars, historyVars, PlacesInv, Place, CopiesInv, Written
    <2> QED  BY <1>0, <2>2, <2>3 DEF DealsInv
  <1> QED  BY <1>1, <1>2, <1>3, <1>4, <1>5, <1>6, <1>7, <1>8, <1>9, <1>10, <1>11, <1>12, <1>13
           DEF Next

(* What is not hidden is in its element. *)
LEMMA VisibleInPlace ==
    ASSUME StepsInv, NEW t, NEW d, NEW r, NEW i, NEW time \in Nat, SafeNow(t, d, r, i, time),
           time + DEALS_EXPIRES > Hidden
    PROVE  owner[t][r][i] = d
  <1>1. now \in Nat /\ highest \in Nat /\ DEALS_EXPIRES \in Nat
    BY Sets DEF StepsInv, TypeOK
  <1>2. Hidden \in Nat
    BY <1>1 DEF Hidden, Larger
  <1> QED  BY <1>1, <1>2 DEF SafeNow, Safe

(* A deal whose two records were made in the same second has its bytes      *)
(* where its DealInfo points to as long as neither the time nor any horizon *)
(* set so far hides it: the row of its data is swept or reused only when    *)
(* whatever is in it is hidden, although addDeal() holds no lock from the   *)
(* one table to the other, and the memcpy() of another deal comes there     *)
(* only by the slips that spoilt names.                                     *)
THEOREM DataOutliveTheirIndex == Spec => []SameSecondDealsKeepData
  <1>1. DealsInv => SameSecondDealsKeepData
    <2> SUFFICES ASSUME DealsInv, NEW d \in Deals \ (truncated \union spoilt),
                        info[d].timestamp = info[d].data_time,
                        info[d].timestamp + DEALS_EXPIRES > Hidden
                 PROVE  KeepsData(d)
      BY DEF SameSecondDealsKeepData, Hidden
    <2>1. StepsInv /\ SafeInv /\ CopiesInv
      BY DEF DealsInv
    <2>2. /\ now \in Nat /\ now >= DEALS_EXPIRES /\ highest \in Nat /\ DEALS_EXPIRES \in Nat
          /\ info[d].timestamp \in Nat /\ info[d].row \in Rows /\ info[d].index \in Idx
      <3>1. StartTime \in Nat /\ StartTime >= DEALS_EXPIRES
        BY DealsAssumption DEF DealsAssumption
      <3> QED  BY <2>1, <3>1, Sets DEF StepsInv, TypeOK, DealInfo
    <2>3. info[d].timestamp > 0
      BY <2>2 DEF Hidden, Larger
    <2>4. SafeNow("data", d, info[d].row, info[d].index, info[d].timestamp)
      BY <2>1, <2>3 DEF SafeInv
    <2>5. owner["data"][info[d].row][info[d].index] = d
      BY <2>1, <2>2, <2>4, VisibleInPlace
    <2>6. d \in Written("data") \ spoilt
      BY <2>3 DEF Written
    <2>7. \A r \in Rows, i \in Idx : owner["data"][r][i] = d => elements["data"][r][i] = d
      BY <2>1, <2>6, Sets DEF CopiesInv
    <2> QED  BY <2>2, <2>5, <2>7 DEF KeepsData, get_element_data
  <1> QED  BY DealsInit, DealsNext, <1>1, PTL DEF Spec

(* The memcpy() of addRecord() finds its element still given to its deal,   *)
(* unless it comes after the deal is over: nothing that an addition or a    *)
(* sweep does to a row under the lock takes away what is visible.           *)
THEOREM CopiesReachTheirElement == Spec => []OnlyLateCopiesOverwrite
  <1>1. DealsInv => OnlyLateCopiesOverwrite
    <2> SUFFICES ASSUME DealsInv, NEW p \in Procs, pc[p] = "add_copy",
                        loc[p].deal \notin truncated,
                        loc[p].time + DEALS_EXPIRES > Hidden
                 PROVE  owner[loc[p].table][loc[p].row][loc[p].index] = loc[p].deal
      BY DEF OnlyLateCopiesOverwrite, Hidden
    <2>1. StepsInv /\ SafeInv
      BY DEF DealsInv
    <2>2. SafeNow(loc[p].table, loc[p].deal, loc[p].row, loc[p].index, loc[p].time)
      BY <2>1 DEF SafeInv
    <2> QED  BY <2>1, <2>2, Types, LocalsTypes, VisibleInPlace
  <1> QED  BY DealsInit, DealsNext, <1>1, PTL DEF Spec

(* A search finds every deal whose addDeal() had returned when it began and *)
(* that has stayed visible, whatever the other processes do between the     *)
(* collection of its rows under the lock and the reading of each of them,   *)
(* unless it reads the row in a page that has lost its name.                *)
THEOREM SearchesAreComplete == Spec => []SearchIsComplete
  <1>1. DealsInv => SearchIsComplete
    <2> SUFFICES ASSUME DealsInv, NEW p \in Procs, pc[p] = "fill",
                        NEW d \in loc[p].before \ (truncated \union spoilt),
                        info[d].timestamp + DEALS_EXPIRES > Hidden
                 PROVE  \/ d \in loc[p].found
                        \/ \E r \in loc[p].misread, i \in Idx : owner["index"][r][i] = d
      BY DEF SearchIsComplete, Hidden
    <2>1. StepsInv /\ SafeInv /\ SearchOK(p) /\ loc[p].rows = {}
      BY DEF DealsInv, StepsInv, StepOK, SearchInv
    <2>2. d \in done /\ d \in Deals /\ info[d].timestamp \in Nat
      BY <2>1, Types DEF StepOK, StepsInv, TypeOK
    <2>3. PICK r \in Rows, i \in Idx : SafeNow("index", d, r, i, info[d].timestamp)
      BY <2>1, <2>2 DEF SafeInv
    <2>4. owner["index"][r][i] = d
      BY <2>1, <2>2, <2>3, VisibleInPlace
    <2> QED  BY <2>1, <2>4 DEF SearchOK
  <1> QED  BY DealsInit, DealsNext, <1>1, PTL DEF Spec
=============================================================================

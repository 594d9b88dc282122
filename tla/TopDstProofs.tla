---------------------------- MODULE TopDstProofs ----------------------------
(***************************************************************************)
(* Every answer of getLocaleTop() is recent enough and is what its request *)
(* asks for: TopDst implements TopAnswers, for every set of cells, of      *)
(* requests and of elements, and whatever the lifetimes are.               *)
(***************************************************************************)
EXTENDS TopDst, TLAPS, FiniteSetTheorems, SequenceTheorems

-----------------------------------------------------------------------------
(* Lists and their cuts                                                    *)

(* A cut is a list again, with the first elements of the list.             *)
LEMMA CutIsSeq ==
    ASSUME NEW S, NEW s \in Seq(S), NEW m \in Nat \ {0}
    PROVE  /\ Cut(s, m) \in Seq(S)
           /\ Len(Cut(s, m)) = IF m < Len(s) THEN m ELSE Len(s)
           /\ \A i \in 1..Len(Cut(s, m)) : Cut(s, m)[i] = s[i]
  <1> DEFINE k == IF m < Len(s) THEN m ELSE Len(s)
  <1>1. k \in Nat /\ k <= Len(s)
    OBVIOUS
  <1>2. \A i \in 1..k : s[i] \in S
    BY <1>1
  <1>3. /\ SubSeq(s, 1, k) \in Seq(S)
        /\ Len(SubSeq(s, 1, k)) = IF 1 <= k THEN k - 1 + 1 ELSE 0
        /\ \A i \in 1 .. k - 1 + 1 : SubSeq(s, 1, k)[i] = s[1 + i - 1]
    <2> HIDE DEF k
    <2> QED  BY <1>1, <1>2, SubSeqProperties
  <1>4. Cut(s, m) = SubSeq(s, 1, k)
    BY DEF Cut
  <1> HIDE DEF k
  <1>5. Len(Cut(s, m)) = k /\ \A i \in 1..k : Cut(s, m)[i] = s[i]
    BY <1>1, <1>3, <1>4
  <1> QED  BY <1>3, <1>4, <1>5 DEF k

(* A cut of a cut is the shorter of the two.                               *)
LEMMA CutOfCut ==
    ASSUME NEW S, NEW s \in Seq(S), NEW m \in Nat \ {0}, NEW n \in 1..Len(Cut(s, m))
    PROVE  SubSeq(Cut(s, m), 1, n) = Cut(s, n)
  <1> DEFINE c == Cut(s, m)
             d == Cut(s, n)
             e == SubSeq(c, 1, n)
  <1>1. c \in Seq(S) /\ Len(c) <= Len(s) /\ Len(c) \in Nat /\ Len(s) \in Nat
          /\ \A i \in 1..Len(c) : c[i] = s[i]
    BY CutIsSeq
  <1>2. n \in Nat \ {0} /\ n <= Len(c)
    BY <1>1
  <1>3. d \in Seq(S) /\ Len(d) = n /\ \A i \in 1..n : d[i] = s[i]
    BY <1>1, <1>2, CutIsSeq
  <1> HIDE DEF c, d
  <1>4. \A i \in 1..n : c[i] \in S
    BY <1>1, <1>2
  <1>5. e \in Seq(S) /\ Len(e) = n - 1 + 1 /\ \A i \in 1 .. n - 1 + 1 : e[i] = c[1 + i - 1]
    BY <1>2, <1>4, SubSeqProperties
  <1>6. Len(e) = n /\ \A i \in 1..n : e[i] = s[i]
    BY <1>1, <1>2, <1>5
  <1> HIDE DEF e
  <1>7. e = d
    BY <1>3, <1>5, <1>6, SeqEqual
  <1> QED  BY <1>7 DEF c, d, e

(* A list that is not longer than C is cut at one of 1..C.                 *)
LEMMA CutWithin ==
    ASSUME NEW S, NEW s \in Seq(S), NEW m \in Nat \ {0}, NEW C \in Nat \ {0}, Len(s) <= C
    PROVE  \E n \in 1..C : Cut(s, m) = Cut(s, n)
  <1>1. CASE m <= C
    BY <1>1
  <1>2. CASE m > C
    <2>1. Cut(s, m) = Cut(s, C)
      BY <1>2 DEF Cut
    <2> QED  BY <2>1
  <1> QED  BY <1>1, <1>2

(* The destinations that are counted are no more than the cells.           *)
LEMMA SortedLists ==
    ASSUME NEW t, NEW es, NEW s \in Sorted(t, es)
    PROVE  s \in Seq(Counted(t, es)) /\ Len(s) <= Cardinality(Cells)
  <1> DEFINE F == {b \in Cells : t[b] \in es}
             C == Counted(t, es)
             g == [c \in F |-> [destination |-> t[c].destination,
                                counter |-> Counter(t, es, t[c].destination)]]
  <1>1. IsFiniteSet(F) /\ Cardinality(F) <= Cardinality(Cells)
    BY CellsAssumption, FS_Subset DEF CellsAssumption
  <1>2. C = {[destination |-> dst, counter |-> Counter(t, es, dst)]
               : dst \in {t[c].destination : c \in F}}
    BY DEF Counted
  <1>3. g \in Surjection(F, C)
    BY <1>2 DEF Surjection
  <1> HIDE DEF C, g, F
  <1>4. IsFiniteSet(C) /\ Cardinality(C) <= Cardinality(F)
    BY <1>1, <1>3, FS_Surjection
  <1>5. Cardinality(C) \in Nat /\ Cardinality(F) \in Nat /\ Cardinality(Cells) \in Nat
    BY <1>1, <1>4, CellsAssumption, FS_CardinalityType DEF CellsAssumption
  <1>6. s \in [1..Cardinality(C) -> C]
    BY DEF Sorted, SetToSeqs, C
  <1>7. s \in Seq(C) /\ Len(s) = Cardinality(C)
    BY <1>5, <1>6
  <1> QED  BY <1>1, <1>4, <1>5, <1>7 DEF C

-----------------------------------------------------------------------------
(* Requests                                                                *)

Limit(r) == TopParams(r).destinations_limit

(* A limit is not given, or it is one number.                              *)
LEMMA LimitIsNumber ==
    ASSUME NEW r
    PROVE  Limit(r).value = {} \/ \E n \in Int : Limit(r).value = {n}
  <1>1. Limit(r) = Number(r.destinations_limit)
    BY DEF Limit, TopParams
  <1> QED  BY <1>1, NumberAssumption DEF Number, Undefined, Read, Defined, Throws, NumberAssumption

(* The elements of a locale: what a request without dates counts.          *)
OfLocale(l) == {e \in DstInfos : e.locale = l}

(* The dates of a request filter only when it has any.                     *)
LEMMA WithoutDates ==
    ASSUME NEW r, ~HasDates(r)
    PROVE  Matching(r) = OfLocale(LocaleOf(r))
  <1>1. interval(TopParams(r).departure_date_from, TopParams(r).departure_date_to) = {}
    BY DEF HasDates, interval, isDefined, isUndefined
  <1> QED  BY <1>1 DEF Matching, Counts, OfLocale

(* The list was cut out of the elements es that the cells t held.          *)
Taken(list, es, t) == \E s \in Sorted(t, es), m \in Nat \ {0} : list = Cut(s, m)

(* A query that does not throw has a limit of at least one.                *)
LEMMA LimitIsPositive ==
    ASSUME NEW r, ~QueryThrows(r)
    PROVE  /\ result_limit(Limit(r)) \in Nat \ {0}
           /\ Limit(r).value # {} => Limit(r).value = {result_limit(Limit(r))}
  <1>1. CASE Limit(r).value = {}
    BY <1>1 DEF result_limit, isDefined, DefaultLimit
  <1>2. CASE \E n \in Int : Limit(r).value = {n}
    <2>1. PICK n \in Int : Limit(r).value = {n}
      BY <1>2
    <2>2. Get(Limit(r)) = n
      BY <2>1 DEF Get
    <2>3. n > 0
      BY <2>1 DEF QueryThrows, result_limit_throws, Limit
    <2> QED  BY <2>1, <2>2, <2>3 DEF result_limit, isDefined
  <1> QED  BY <1>1, <1>2, LimitIsNumber

(* A top of one of the lengths that the request allows answers it.         *)
LEMMA TopsAreAnswers ==
    ASSUME NEW facts, NEW t \in Contents(facts), NEW r,
           NEW n \in IF Limit(r).value = {} THEN 1..Cardinality(Cells) ELSE Limit(r).value,
           NEW list \in Top(t, r, n)
    PROVE  list \in Answers(facts, r)
  <1> DEFINE lengths == IF Limit(r).value = {} THEN 1..Cardinality(Cells) ELSE Limit(r).value
  <1>1. Answers(facts, r) = UNION {Top(u, r, m) : u \in Contents(facts), m \in lengths}
    BY DEF Answers, Limit
  <1> HIDE DEF lengths
  <1>2. n \in lengths
    BY DEF lengths
  <1>3. Top(t, r, n) \in {Top(u, r, m) : u \in Contents(facts), m \in lengths}
    BY <1>2
  <1> QED  BY <1>1, <1>3

(* What exec() returns answers the request it was made for.                *)
LEMMA FreshAnswers ==
    ASSUME NEW facts, NEW t \in Contents(facts), NEW r, ~QueryThrows(r),
           NEW list \in Top(t, r, result_limit(Limit(r)))
    PROVE  list \in Answers(facts, r)
  <1> DEFINE n == result_limit(Limit(r))
             C == Cardinality(Cells)
  <1>1. C \in Nat \ {0}
    BY CellsAssumption, FS_CardinalityType, FS_EmptySet DEF CellsAssumption
  <1>2. n \in Nat \ {0} /\ (Limit(r).value # {} => Limit(r).value = {n})
    BY LimitIsPositive
  <1>3. PICK s \in Sorted(t, Matching(r)) : list = Cut(s, n)
    BY DEF Top
  <1>4. s \in Seq(Counted(t, Matching(r))) /\ Len(s) <= C
    BY <1>3, SortedLists
  <1> HIDE DEF n, C
  <1>5. CASE Limit(r).value = {}
    <2>1. PICK m \in 1..C : Cut(s, n) = Cut(s, m)
      BY <1>1, <1>2, <1>4, CutWithin
    <2>2. list \in Top(t, r, m)
      BY <1>3, <2>1 DEF Top
    <2> QED  BY <1>5, <2>1, <2>2, TopsAreAnswers DEF C
  <1>6. CASE Limit(r).value # {}
    <2>1. list \in Top(t, r, n) /\ n \in Limit(r).value
      BY <1>2, <1>3, <1>6 DEF Top
    <2> QED  BY <1>6, <2>1, TopsAreAnswers
  <1> QED  BY <1>5, <1>6

(* ... and so does a list that was cut longer for another request, once    *)
(* getCachedResult() has cut it again.                                     *)
LEMMA CachedAnswers ==
    ASSUME NEW facts, NEW t \in Contents(facts), NEW r, ~HasDates(r), NEW value, Taken(value, OfLocale(LocaleOf(r)), t),
           ~\E n \in Limit(r).value : Len(value) < n,
           NEW list, list # <<>>,
           list = SubSeq(value, 1, IF Limit(r).value = {} THEN Len(value)
                                   ELSE Get([value |-> Limit(r).value]))
    PROVE  list \in Answers(facts, r)
  <1> DEFINE C == Cardinality(Cells)
             es == Matching(r)
  <1>1. C \in Nat \ {0}
    BY CellsAssumption, FS_CardinalityType, FS_EmptySet DEF CellsAssumption
  <1>2. PICK s \in Sorted(t, es), m \in Nat \ {0} : value = Cut(s, m)
    BY WithoutDates DEF Taken
  <1>3. s \in Seq(Counted(t, es)) /\ Len(s) <= C
    BY <1>2, SortedLists
  <1> HIDE DEF C, es
  <1>4. value \in Seq(Counted(t, es)) /\ Len(value) \in Nat
    BY <1>2, <1>3, CutIsSeq
  <1>5. CASE Limit(r).value = {}
    <2>1. list = SubSeq(value, 1, Len(value))
      BY <1>5
    <2>2. Len(value) # 0
      BY <2>1, <1>4, SubSeqEmpty
    <2>3. Len(value) \in 1..Len(Cut(s, m))
      BY <1>2, <1>4, <2>2
    <2>4. list = Cut(s, Len(value))
      BY <1>2, <1>3, <2>1, <2>3, CutOfCut
    <2>5. PICK n \in 1..C : Cut(s, Len(value)) = Cut(s, n)
      BY <1>1, <1>3, <1>4, <2>2, CutWithin
    <2>6. list \in Top(t, r, n)
      BY <1>2, <2>4, <2>5 DEF Top, es
    <2> QED  BY <1>5, <2>5, <2>6, TopsAreAnswers DEF C
  <1>6. CASE \E n \in Int : Limit(r).value = {n}
    <2>1. PICK n \in Int : Limit(r).value = {n}
      BY <1>6
    <2>2. Get([value |-> Limit(r).value]) = n
      BY <2>1 DEF Get
    <2>3. list = SubSeq(value, 1, n) /\ n <= Len(value)
      <3>1. Limit(r).value # {} /\ n \in Limit(r).value
        BY <2>1
      <3>2. list = SubSeq(value, 1, n)
        BY <2>2, <3>1, Zenon
      <3>3. n <= Len(value)
        BY <1>4, <3>1
      <3> QED  BY <3>2, <3>3
    <2>4. n >= 1
      <3>1. CASE n < 1
        <4>1. SubSeq(value, 1, n) = <<>>
          BY <3>1, SubSeqEmpty
        <4> QED  BY <2>3, <4>1
      <3> QED  BY <3>1
    <2>5. n \in 1..Len(Cut(s, m))
      BY <1>2, <1>4, <2>3, <2>4
    <2>6. list = Cut(s, n)
      BY <1>2, <1>3, <2>3, <2>5, CutOfCut
    <2>7. list \in Top(t, r, n)
      BY <1>2, <2>6 DEF Top, es
    <2>8. Limit(r).value # {} /\ n \in Limit(r).value
      BY <2>1
    <2> QED  BY <2>7, <2>8, TopsAreAnswers
  <1> QED  BY <1>5, <1>6, LimitIsNumber

-----------------------------------------------------------------------------
(* How old a list is                                                       *)

(* What was true of the cells in the last n seconds.                       *)
Since(past, n) == UNION {past[a] : a \in 0..n}

(* What a scan has read was there to be found since it began.              *)
ScanOK(c, facts) ==
    /\ c.read \in [Cells -> Values]
    /\ \A x \in Cells \ c.listed : <<x, "hidden">> \in facts
    /\ \A x \in c.pending : c.read[x] = None
    /\ \A x \in c.counted : <<x, "shown">> \in facts
    /\ \A x \in Cells \ (c.pending \cup c.counted) : Finds(x, c.read[x], facts)

Listed(c, facts) ==
    \E t \in Contents(facts) : c.list \in Top(t, c.request, result_limit(Limit(c.request)))

(* A scan, and a list that is about to be saved and answered, began at     *)
(* c.at, at most ScanTime ago.                                             *)
ResultOK(c, time, past) ==
    c.step \in {"scan", "save"} =>
        /\ c.at \in 0..time /\ time - c.at <= ScanTime
        /\ c.step = "scan" => ScanOK(c, Since(past, time - c.at))
        /\ c.step = "save" => Listed(c, Since(past, time - c.at))

Made(l, entry, facts) == \E t \in Contents(facts) : Taken(entry.value, OfLocale(l), t)

(* An entry of the cache was made by a scan that began at some second at,  *)
(* and saved, CacheTime before the end of its life, at most ScanTime       *)
(* later.  The history knows what was true since as long as the entry may  *)
(* be used.                                                                *)
EntryOK(l, entry, time, past) ==
    \E at \in 0..time :
        /\ entry.live_until - CacheTime - at <= ScanTime
        /\ time - at <= MaxAge => Made(l, entry, Since(past, time - at))

AgesOK ==
    /\ ResultOK(call, now, recent)
    /\ \A l \in DOMAIN cache : EntryOK(l, cache[l], now, recent)

IsCall(c) ==
    c = [step |-> c.step, request |-> c.request, list |-> c.list, at |-> c.at,
         listed |-> c.listed, pending |-> c.pending, counted |-> c.counted, read |-> c.read]

TopInv ==
    /\ TypeOK
    /\ IsCall(call)
    /\ recent = [a \in 0..MaxAge |-> recent[a]]
    /\ Now(cells, shown) \subseteq recent[0]
    /\ call.step # "idle" => ~QueryThrows(call.request)
    /\ AgesOK

(* The times are numbers.                                                  *)
LEMMA MaxAgeIsNat == MaxAge \in Nat /\ CacheTime \in Nat /\ ScanTime \in Nat /\ ScanTime <= MaxAge
  BY TimesAssumption DEF TimesAssumption, MaxAge

(* With more facts a scan finds no less.                                   *)
LEMMA MoreFacts ==
    ASSUME NEW facts, NEW facts2, facts \subseteq facts2
    PROVE  /\ Contents(facts) \subseteq Contents(facts2)
           /\ \A c : ScanOK(c, facts) => ScanOK(c, facts2)
           /\ \A c : Listed(c, facts) => Listed(c, facts2)
           /\ \A l, e : Made(l, e, facts) => Made(l, e, facts2)
  <1>1. \A c, v : Finds(c, v, facts) => Finds(c, v, facts2)
    BY DEF Finds
  <1>2. Contents(facts) \subseteq Contents(facts2)
    BY <1>1 DEF Contents
  <1>3. \A c : ScanOK(c, facts) => ScanOK(c, facts2)
    BY <1>1 DEF ScanOK
  <1> QED  BY <1>2, <1>3 DEF Listed, Made

(* d seconds later what was found is d seconds older.                      *)
LEMMA Kept ==
    ASSUME NEW time \in Nat, NEW d \in Nat, NEW past, NEW past2,
           \A n \in 0..MaxAge : n + d <= MaxAge => Since(past, n) \subseteq Since(past2, n + d)
    PROVE  /\ \A c : /\ ResultOK(c, time, past)
                     /\ c.step \in {"scan", "save"} => time + d - c.at <= ScanTime
                     => ResultOK(c, time + d, past2)
           /\ \A l, e : EntryOK(l, e, time, past) => EntryOK(l, e, time + d, past2)
  <1>1. ASSUME NEW c, ResultOK(c, time, past), c.step \in {"scan", "save"},
               time + d - c.at <= ScanTime
        PROVE  ResultOK(c, time + d, past2)
    <2>1. /\ c.at \in 0..time /\ time - c.at \in 0..MaxAge
          /\ (time - c.at) + d <= MaxAge /\ (time - c.at) + d = (time + d) - c.at
      BY <1>1, MaxAgeIsNat DEF ResultOK
    <2>2. Since(past, time - c.at) \subseteq Since(past2, (time + d) - c.at)
      BY <2>1
    <2>3. /\ c.step = "scan" => ScanOK(c, Since(past2, (time + d) - c.at))
          /\ c.step = "save" => Listed(c, Since(past2, (time + d) - c.at))
      BY <1>1, <2>2, MoreFacts DEF ResultOK
    <2>4. c.at \in 0..(time + d)
      BY <2>1
    <2> QED  BY <1>1, <2>3, <2>4 DEF ResultOK
  <1>2. ASSUME NEW c, c.step \notin {"scan", "save"}  PROVE ResultOK(c, time + d, past2)
    BY <1>2 DEF ResultOK
  <1>3. ASSUME NEW l, NEW e, EntryOK(l, e, time, past)  PROVE EntryOK(l, e, time + d, past2)
    <2>1. PICK at \in 0..time :
            /\ e.live_until - CacheTime - at <= ScanTime
            /\ time - at <= MaxAge => Made(l, e, Since(past, time - at))
      BY <1>3 DEF EntryOK
    <2>2. ASSUME (time + d) - at <= MaxAge  PROVE Made(l, e, Since(past2, (time + d) - at))
      <3>1. time - at \in 0..MaxAge /\ (time - at) + d <= MaxAge /\ (time - at) + d = (time + d) - at
        BY <2>2, MaxAgeIsNat
      <3>2. Since(past, time - at) \subseteq Since(past2, (time + d) - at)
        BY <3>1
      <3>3. Made(l, e, Since(past, time - at)) /\ time - at <= MaxAge
        BY <2>1, <3>1
      <3> QED  BY <3>2, <3>3, MoreFacts
    <2>3. at \in 0..(time + d)
      OBVIOUS
    <2> QED  BY <2>1, <2>2, <2>3 DEF EntryOK
  <1> QED  BY <1>1, <1>2, <1>3

(* An entry that is not expired is made of facts of the last MaxAge        *)
(* seconds.                                                                *)
LEMMA LiveEntries ==
    ASSUME NEW l, NEW e, NEW time \in Nat, NEW past, EntryOK(l, e, time, past),
           e.live_until \in Int, ~(e.live_until < time)
    PROVE  Made(l, e, Since(past, MaxAge))
  <1>1. PICK at \in 0..time :
          /\ e.live_until - CacheTime - at <= ScanTime
          /\ time - at <= MaxAge => Made(l, e, Since(past, time - at))
    BY DEF EntryOK
  <1>2. time - at \in 0..MaxAge
    BY <1>1, MaxAgeIsNat, TimesAssumption DEF MaxAge, TimesAssumption
  <1>3. Since(past, time - at) \subseteq Since(past, MaxAge)
    BY <1>2, MaxAgeIsNat DEF Since
  <1> QED  BY <1>1, <1>2, <1>3, MoreFacts

-----------------------------------------------------------------------------
(* Steps                                                                   *)

(* What is true now was true in this second, whenever the scan began.      *)
LEMMA NowIsFound ==
    ASSUME TopInv, call.step \in {"scan", "save"}
    PROVE  Now(cells, shown) \subseteq Since(recent, now - call.at)
  <1>1. call.at \in 0..now /\ now \in Nat
    BY TimesAssumption DEF TopInv, AgesOK, ResultOK, TypeOK, TimesAssumption
  <1>2. 0 \in 0..(now - call.at)
    BY <1>1
  <1> QED  BY <1>2 DEF TopInv, Since

(* The invariant holds before the first request.                           *)
LEMMA InitTop == Init => TopInv
  <1> SUFFICES ASSUME Init  PROVE TopInv
    OBVIOUS
  <1>1. /\ now = 0 /\ cells \in [Cells -> Values] /\ shown \subseteq Cells
        /\ cache = <<>> /\ call = Idle
        /\ recent = [a \in 0..MaxAge |-> IF a = 0 THEN Now(cells, shown) ELSE {}]
    BY DEF Init
  <1>2. DOMAIN cache = {}
    BY <1>1
  <1>3. 0 \in 0..MaxTime /\ Now(cells, shown) \subseteq recent[0]
    BY <1>1, MaxAgeIsNat, TimesAssumption DEF TimesAssumption
  <1>4. call.step = "idle" /\ call.pending = {} /\ call.counted = {} /\ IsCall(call)
    BY <1>1 DEF Idle, Call, IsCall
  <1>5. TypeOK
    BY <1>1, <1>2, <1>3, <1>4 DEF TypeOK
  <1>6. AgesOK
    BY <1>2, <1>4 DEF AgesOK, ResultOK
  <1> QED  BY <1>1, <1>3, <1>4, <1>5, <1>6 DEF TopInv

(* Claims, copies, expiry, sweeps and truncate() change the cells.         *)
LEMMA CellsStep ==
    ASSUME TopInv, NEW bytes \in [Cells -> Values], NEW live \in SUBSET Cells,
           CellsBecome(bytes, live)
    PROVE  TopInv'
  <1>1. /\ cells' = bytes /\ shown' = live
        /\ recent' = [recent EXCEPT ![0] = @ \cup Now(bytes, live)]
        /\ UNCHANGED <<now, cache, call, answer>>
    BY DEF CellsBecome
  <1>2. now \in Nat
    BY TimesAssumption DEF TopInv, TypeOK, TimesAssumption
  <1>3. /\ \A a \in 0..MaxAge : recent[a] \subseteq recent'[a]
        /\ recent' = [a \in 0..MaxAge |-> recent'[a]] /\ Now(bytes, live) \subseteq recent'[0]
    <2> DEFINE found == Now(bytes, live)
    <2>1. 0 \in 0..MaxAge /\ recent = [a \in 0..MaxAge |-> recent[a]]
      BY MaxAgeIsNat DEF TopInv
    <2>2. recent' = [recent EXCEPT ![0] = @ \cup found]
      BY <1>1
    <2> HIDE DEF found
    <2>3. /\ recent' = [a \in 0..MaxAge |-> recent'[a]] /\ recent'[0] = recent[0] \cup found
          /\ \A a \in 0..MaxAge : a # 0 => recent'[a] = recent[a]
      BY <2>1, <2>2
    <2> QED  BY <2>3 DEF found
  <1>4. \A n \in 0..MaxAge : n + 0 <= MaxAge => Since(recent, n) \subseteq Since(recent', n + 0)
    <2>1. ASSUME NEW n \in 0..MaxAge  PROVE Since(recent, n) \subseteq Since(recent', n)
      BY <1>3, MaxAgeIsNat DEF Since
    <2>2. \A n \in 0..MaxAge : n + 0 = n
      BY MaxAgeIsNat
    <2> QED  BY <2>1, <2>2
  <1>5. AgesOK'
    <2> HIDE DEF ResultOK, EntryOK
    <2>1. /\ call.step \in {"scan", "save"} => now + 0 - call.at <= ScanTime
          /\ ResultOK(call, now, recent)
      BY <1>2 DEF TopInv, AgesOK, ResultOK
    <2>2. ResultOK(call, now + 0, recent')
      BY <1>2, <1>4, <2>1, Kept
    <2>3. \A l, e : EntryOK(l, e, now, recent) => EntryOK(l, e, now + 0, recent')
      BY <1>2, <1>4, Kept
    <2>4. now + 0 = now
      BY <1>2
    <2> QED  BY <1>1, <2>2, <2>3, <2>4 DEF TopInv, AgesOK
  <1>6. TypeOK'
    BY <1>1 DEF TopInv, TypeOK
  <1> QED  BY <1>1, <1>3, <1>5, <1>6 DEF TopInv

(* They are the three steps of the other processes.                        *)
LEMMA CellsChange ==
    ASSUME TopInv,
           \/ \E c \in Cells : addDestination(c) \/ \E v \in Values : Copy(c, v)
           \/ \E row \in SUBSET Cells : Hide(row)
    PROVE  \E bytes \in [Cells -> Values], live \in SUBSET Cells : CellsBecome(bytes, live)
  <1>0. cells \in [Cells -> Values] /\ shown \in SUBSET Cells
    BY DEF TopInv, TypeOK
  <1>1. ASSUME NEW c \in Cells, addDestination(c)
        PROVE  \E bytes \in [Cells -> Values], live \in SUBSET Cells : CellsBecome(bytes, live)
    <2>1. shown \cup {c} \in SUBSET Cells
      BY <1>0
    <2> QED  BY <1>0, <1>1, <2>1 DEF addDestination
  <1>2. ASSUME NEW c \in Cells, NEW v \in Values, Copy(c, v)
        PROVE  \E bytes \in [Cells -> Values], live \in SUBSET Cells : CellsBecome(bytes, live)
    <2>1. [cells EXCEPT ![c] = v] \in [Cells -> Values]
      BY <1>0
    <2> QED  BY <1>0, <1>2, <2>1 DEF Copy
  <1>3. ASSUME NEW row \in SUBSET Cells, Hide(row)
        PROVE  \E bytes \in [Cells -> Values], live \in SUBSET Cells : CellsBecome(bytes, live)
    <2>1. shown \ row \in SUBSET Cells
      BY <1>0
    <2> QED  BY <1>0, <1>3, <2>1 DEF Hide
  <1> QED  BY <1>1, <1>2, <1>3

(* A second passes.                                                        *)
LEMMA TickStep ==
    ASSUME TopInv, Tick  PROVE TopInv'
  <1>1. /\ now' = now + 1 /\ UNCHANGED <<cells, shown, cache, call, answer>>
        /\ recent' = [a \in 0..MaxAge |-> IF a = 0 THEN Now(cells, shown) ELSE recent[a - 1]]
        /\ call.step \in {"scan", "save"} => now - call.at < ScanTime
    BY DEF Tick
  <1>2. now \in Nat
    BY TimesAssumption DEF TopInv, TypeOK, TimesAssumption
  <1>3. \A n \in 0..MaxAge : n + 1 <= MaxAge => Since(recent, n) \subseteq Since(recent', n + 1)
    <2>1. ASSUME NEW n \in 0..MaxAge, n + 1 <= MaxAge, NEW f \in Since(recent, n)
          PROVE  f \in Since(recent', n + 1)
      <3>1. PICK a \in 0..n : f \in recent[a]
        BY DEF Since
      <3>2. a + 1 \in 0..MaxAge /\ a + 1 \in 0..(n + 1) /\ a + 1 # 0 /\ (a + 1) - 1 = a
        BY <2>1, MaxAgeIsNat
      <3>3. recent'[a + 1] = recent[a]
        BY <1>1, <3>2
      <3> QED  BY <3>1, <3>2, <3>3 DEF Since
    <2> QED  BY <2>1
  <1>4. AgesOK'
    <2>1. /\ call.step \in {"scan", "save"} => now + 1 - call.at <= ScanTime
          /\ ResultOK(call, now, recent)
      BY <1>1, <1>2, MaxAgeIsNat DEF TopInv, AgesOK, ResultOK
    <2>2. ResultOK(call, now + 1, recent')
      BY <1>2, <1>3, <2>1, Kept
    <2>3. \A l, e : EntryOK(l, e, now, recent) => EntryOK(l, e, now + 1, recent')
      BY <1>2, <1>3, Kept
    <2> QED  BY <1>1, <2>2, <2>3 DEF TopInv, AgesOK
  <1>5. TypeOK'
    <2>1. now' \in 0..MaxTime
      BY <1>1, <1>2, TimesAssumption DEF Tick, TimesAssumption
    <2>2. \A x : x \in 0..(now + CacheTime) => x \in 0..(now' + CacheTime)
      BY <1>1, <1>2, MaxAgeIsNat
    <2> QED  BY <1>1, <2>1, <2>2 DEF TopInv, TypeOK
  <1>6. recent' = [a \in 0..MaxAge |-> recent'[a]] /\ Now(cells', shown') \subseteq recent'[0]
    BY <1>1, MaxAgeIsNat
  <1> QED  BY <1>1, <1>4, <1>5, <1>6 DEF TopInv

(* A call and a cache that the process may have now.                       *)
GoodCall(c) ==
    /\ c.step \in {"idle", "query", "scan", "save"}
    /\ IsCall(c)
    /\ c.pending \cap c.counted = {}
    /\ c.step # "idle" => ~QueryThrows(c.request)
    /\ ResultOK(c, now, recent)

GoodCache(k) ==
    \A l \in DOMAIN k : /\ k[l].live_until \in 0..(now + CacheTime) /\ k[l].value # <<>>
                        /\ EntryOK(l, k[l], now, recent)

(* The process does something with its call and its cache.                 *)
LEMMA CallStep ==
    ASSUME TopInv, UNCHANGED <<now, cells, shown, recent>>, GoodCall(call'), GoodCache(cache')
    PROVE  TopInv'
  <1>1. TypeOK'
    BY DEF TopInv, TypeOK, GoodCall, GoodCache
  <1>2. AgesOK'
    BY DEF AgesOK, GoodCall, GoodCache
  <1> QED  BY <1>1, <1>2 DEF TopInv, GoodCall

(* What the process has.                                                   *)
LEMMA Entries ==
    ASSUME TopInv  PROVE GoodCache(cache) /\ GoodCall(call)
  BY DEF TopInv, TypeOK, AgesOK, GoodCache, GoodCall

(* A call that waits for nothing, and a cache that is empty.               *)
LEMMA IdleCalls == GoodCall(Idle) /\ GoodCache(<<>>)
  <1>1. GoodCall(Idle)
    BY DEF Idle, Call, IsCall, ResultOK, GoodCall
  <1>2. DOMAIN <<>> = {}
    OBVIOUS
  <1> QED  BY <1>1, <1>2 DEF GoodCache

(* Errors, answers from the cache and restarts.                            *)
LEMMA ReplyStep ==
    ASSUME TopInv,
           \/ \E r \in Requests : BadRequest(r) \/ CacheHit(r)
           \/ execThrows \/ Restart
    PROVE  TopInv'
  <1>1. GoodCache(cache) /\ GoodCall(call) /\ GoodCall(Idle) /\ GoodCache(<<>>)
    BY Entries, IdleCalls
  <1>2. UNCHANGED <<now, cells, shown, recent>>
    BY DEF BadRequest, CacheHit, execThrows, Restart
  <1>3. call' \in {call, Idle} /\ cache' \in {cache, <<>>}
    BY DEF BadRequest, CacheHit, Reply, execThrows, Restart
  <1>4. GoodCall(call') /\ GoodCache(cache')
    BY <1>1, <1>3
  <1> QED  BY <1>2, <1>4, CallStep

(* A miss may erase an entry, and begins a query.                          *)
LEMMA MissStep ==
    ASSUME TopInv, NEW r \in Requests, CacheMiss(r)  PROVE TopInv'
  <1> DEFINE c == Call("query", r, <<>>, 0)
  <1>1. \A l \in DOMAIN Erased(r) : l \in DOMAIN cache /\ Erased(r)[l] = cache[l]
    BY DEF Erased
  <1>2. GoodCache(Erased(r))
    BY <1>1, Entries DEF GoodCache
  <1>3. cache' = Erased(r) /\ UNCHANGED <<now, cells, shown, recent>>
    BY DEF CacheMiss
  <1>4. call' = call \/ (~QueryThrows(r) /\ call' = c)
    BY DEF CacheMiss
  <1>5. ~QueryThrows(r) => GoodCall(c)
    BY DEF Call, IsCall, ResultOK, GoodCall
  <1>6. GoodCall(call') /\ GoodCache(cache')
    BY <1>2, <1>3, <1>4, <1>5, Entries
  <1> QED  BY <1>3, <1>6, CallStep

(* The scan begins: what is not listed was hidden in this second.          *)
LEMMA BeginStep == ASSUME TopInv, BeginScan  PROVE TopInv'
  <1> DEFINE b == Call("scan", call.request, <<>>, now)
             none == [x \in Cells |-> None]
  <1>1. /\ call.step = "query" /\ call' = [b EXCEPT !.listed = shown, !.pending = Cells]
        /\ UNCHANGED <<now, cells, shown, cache, recent>>
    BY DEF BeginScan
  <1>2. b = [step |-> "scan", request |-> call.request, list |-> <<>>, at |-> now,
             listed |-> {}, pending |-> {}, counted |-> {}, read |-> none]
    BY DEF Call
  <1> HIDE DEF b, none
  <1>3. /\ b.step = "scan" /\ b.request = call.request /\ b.at = now
        /\ b.counted = {} /\ b.read = none /\ IsCall(b)
    BY <1>2 DEF IsCall
  <1>4. /\ call'.step = "scan" /\ call'.request = call.request /\ call'.at = now
        /\ call'.listed = shown /\ call'.pending = Cells /\ call'.counted = {}
        /\ call'.read = none /\ IsCall(call')
    BY <1>1, <1>3 DEF IsCall
  <1>5. now \in 0..now /\ now - now = 0 /\ 0 <= ScanTime
    BY TimesAssumption DEF TopInv, TypeOK, TimesAssumption
  <1>6. recent[0] \subseteq Since(recent, 0)
    BY DEF Since
  <1>7. \A x \in Cells \ shown : <<x, "hidden">> \in Since(recent, 0)
    BY <1>6 DEF TopInv, Now
  <1>8. none \in [Cells -> Values] /\ \A x \in Cells : none[x] = None
    BY DEF none, Values
  <1>9. ScanOK(call', Since(recent, 0))
    BY <1>4, <1>7, <1>8 DEF ScanOK
  <1>10. GoodCall(call')
    BY <1>1, <1>4, <1>5, <1>9 DEF GoodCall, ResultOK, TopInv
  <1> QED  BY <1>1, <1>10, Entries, CallStep

(* The size of a row is read: a cell is counted when it is shown, and left *)
(* out only when it is hidden or was when the scan began.                  *)
LEMMA SizeStep == ASSUME TopInv, NEW x \in Cells, ReadSize(x)  PROVE TopInv'
  <1> DEFINE facts == Since(recent, now - call.at)
  <1>1. /\ call.step = "scan" /\ x \in call.pending
        /\ UNCHANGED <<now, cells, shown, cache, recent>>
    BY DEF ReadSize
  <1>2. ScanOK(call, facts) /\ call.at \in 0..now /\ now - call.at <= ScanTime
    BY <1>1 DEF TopInv, AgesOK, ResultOK
  <1>3. Now(cells, shown) \subseteq facts
    BY <1>1, NowIsFound
  <1>4. call.pending \cap call.counted = {} /\ IsCall(call) /\ ~QueryThrows(call.request)
    BY <1>1 DEF TopInv, TypeOK
  <1> HIDE DEF facts
  <1>5. CASE x \in shown /\ call' = [call EXCEPT !.pending = @ \ {x}, !.counted = @ \cup {x}]
    <2>1. /\ call'.step = "scan" /\ call'.request = call.request /\ call'.at = call.at
          /\ call'.listed = call.listed /\ call'.read = call.read /\ IsCall(call')
          /\ call'.pending = call.pending \ {x} /\ call'.counted = call.counted \cup {x}
      BY <1>1, <1>4, <1>5 DEF IsCall
    <2>2. <<x, "shown">> \in facts
      BY <1>3, <1>5 DEF Now
    <2>3. ScanOK(call', facts)
      BY <1>2, <2>1, <2>2 DEF ScanOK
    <2>4. GoodCall(call')
      BY <1>1, <1>2, <1>4, <2>1, <2>3 DEF GoodCall, ResultOK, facts
    <2> QED  BY <1>1, <2>4, Entries, CallStep
  <1>6. CASE (x \notin shown \/ x \notin call.listed) /\ call' = [call EXCEPT !.pending = @ \ {x}]
    <2>1. /\ call'.step = "scan" /\ call'.request = call.request /\ call'.at = call.at
          /\ call'.listed = call.listed /\ call'.read = call.read /\ IsCall(call')
          /\ call'.pending = call.pending \ {x} /\ call'.counted = call.counted
      BY <1>1, <1>4, <1>6 DEF IsCall
    <2>2. <<x, "hidden">> \in facts
      BY <1>2, <1>3, <1>6 DEF Now, ScanOK
    <2>3. Finds(x, call.read[x], facts)
      BY <1>1, <1>2, <2>2 DEF Finds, ScanOK
    <2>4. ScanOK(call', facts)
      BY <1>2, <2>1, <2>3 DEF ScanOK
    <2>5. GoodCall(call')
      BY <1>1, <1>2, <1>4, <2>1, <2>4 DEF GoodCall, ResultOK, facts
    <2> QED  BY <1>1, <2>5, Entries, CallStep
  <1> QED  BY <1>5, <1>6 DEF ReadSize

(* A counted cell is read: its bytes are those of this second.             *)
LEMMA CellStep == ASSUME TopInv, NEW x \in Cells, ReadCell(x)  PROVE TopInv'
  <1> DEFINE facts == Since(recent, now - call.at)
             read == [call.read EXCEPT ![x] = cells[x]]
  <1>1. /\ call.step = "scan" /\ x \in call.counted
        /\ UNCHANGED <<now, cells, shown, cache, recent>>
    BY DEF ReadCell
  <1>2. ScanOK(call, facts) /\ call.at \in 0..now /\ now - call.at <= ScanTime
    BY <1>1 DEF TopInv, AgesOK, ResultOK
  <1>3. <<x, "bytes", cells[x]>> \in facts
    <2>1. Now(cells, shown) \subseteq facts
      BY <1>1, NowIsFound
    <2> QED  BY <2>1 DEF Now
  <1>4. call.pending \cap call.counted = {} /\ IsCall(call) /\ ~QueryThrows(call.request)
    BY <1>1 DEF TopInv, TypeOK
  <1>5. cells[x] \in Values /\ call.read \in [Cells -> Values]
    BY <1>2 DEF TopInv, TypeOK, ScanOK
  <1>6. /\ read \in [Cells -> Values] /\ read[x] = cells[x]
        /\ \A y \in Cells : y # x => read[y] = call.read[y]
    BY <1>5
  <1>7. call' = [call EXCEPT !.counted = call.counted \ {x}, !.read = read]
    BY <1>4 DEF ReadCell, IsCall
  <1> HIDE DEF facts, read
  <1>8. /\ call'.step = "scan" /\ call'.request = call.request /\ call'.at = call.at
        /\ call'.listed = call.listed /\ call'.read = read /\ IsCall(call')
        /\ call'.pending = call.pending /\ call'.counted = call.counted \ {x}
    BY <1>1, <1>4, <1>7 DEF IsCall
  <1>9. Finds(x, read[x], facts)
    BY <1>1, <1>2, <1>3, <1>6 DEF Finds, ScanOK
  <1>10. ScanOK(call', facts)
    <2>1. \A y \in call'.pending : call'.read[y] = None
      <3>1. ASSUME NEW y \in call.pending  PROVE read[y] = None
        <4>1. y # x /\ call.read[y] = None
          BY <1>1, <1>2, <1>4 DEF ScanOK
        <4>2. CASE y \in Cells
          BY <1>6, <4>1, <4>2
        <4>3. CASE y \notin Cells
          BY <1>6, <4>1, <4>3 DEF read
        <4> QED  BY <4>2, <4>3
      <3> QED  BY <1>8, <3>1
    <2>2. \A y \in Cells \ (call'.pending \cup call'.counted) : Finds(y, call'.read[y], facts)
      <3>1. ASSUME NEW y \in Cells \ (call.pending \cup (call.counted \ {x}))
            PROVE  Finds(y, read[y], facts)
        <4>1. CASE y = x
          BY <1>9, <4>1
        <4>2. CASE y # x
          <5>1. read[y] = call.read[y] /\ Finds(y, call.read[y], facts)
            BY <1>2, <1>6, <4>2 DEF ScanOK
          <5> QED  BY <5>1
        <4> QED  BY <4>1, <4>2
      <3> QED  BY <1>8, <3>1
    <2> QED  BY <1>2, <1>6, <1>8, <2>1, <2>2 DEF ScanOK
  <1>11. GoodCall(call')
    BY <1>1, <1>2, <1>4, <1>8, <1>10 DEF GoodCall, ResultOK, facts
  <1> QED  BY <1>1, <1>11, Entries, CallStep

(* exec() has read every cell.                                             *)
LEMMA ExecStep == ASSUME TopInv, exec  PROVE TopInv'
  <1> DEFINE r == call.request
             facts == Since(recent, now - call.at)
  <1>1. PICK list \in Top(call.read, r, result_limit(TopParams(r).destinations_limit)) :
          call' = Call("save", r, list, call.at)
    BY DEF exec
  <1>2. /\ call.step = "scan" /\ call.pending = {} /\ call.counted = {}
        /\ UNCHANGED <<now, cells, shown, cache, recent>>
    BY DEF exec
  <1>3. /\ ScanOK(call, facts) /\ call.at \in 0..now /\ now - call.at <= ScanTime
        /\ ~QueryThrows(r)
    BY <1>2 DEF TopInv, AgesOK, ResultOK
  <1> HIDE DEF facts
  <1>4. call.read \in Contents(facts)
    BY <1>2, <1>3 DEF ScanOK, Contents
  <1>5. /\ call'.step = "save" /\ call'.request = r /\ call'.list = list /\ call'.at = call.at
        /\ call'.pending = {} /\ call'.counted = {} /\ IsCall(call')
    BY <1>1 DEF Call, IsCall
  <1>6. Listed(call', facts)
    BY <1>1, <1>4, <1>5 DEF Listed, Limit
  <1>7. GoodCall(call')
    BY <1>2, <1>3, <1>5, <1>6 DEF GoodCall, ResultOK, facts
  <1> QED  BY <1>2, <1>7, Entries, CallStep

(* What is saved was made by a scan that began at most ScanTime ago.       *)
LEMMA SaveStep == ASSUME TopInv, saveResultToCache  PROVE TopInv'
  <1> DEFINE r == call.request
             list == call.list
             at == call.at
             facts == Since(recent, now - at)
             new == [value |-> list, live_until |-> now + CacheTime]
  <1>1. now \in Nat /\ CacheTime \in Nat /\ ScanTime \in Nat
    BY TimesAssumption DEF TopInv, TypeOK, TimesAssumption
  <1>2. /\ call.step = "save" /\ ~QueryThrows(r)
        /\ at \in 0..now /\ now - at <= ScanTime /\ Listed(call, facts)
    BY DEF saveResultToCache, TopInv, AgesOK, ResultOK
  <1>3. new.value = list /\ new.live_until = now + CacheTime
    OBVIOUS
  <1>4. ASSUME ~HasDates(r)  PROVE EntryOK(LocaleOf(r), new, now, recent)
    <2>1. PICK t \in Contents(facts) : list \in Top(t, r, result_limit(Limit(r)))
      BY <1>2 DEF Listed
    <2>2. Taken(list, OfLocale(LocaleOf(r)), t)
      BY <1>2, <1>4, <2>1, LimitIsPositive, WithoutDates DEF Top, Taken
    <2> HIDE DEF new, list, r
    <2>3. Made(LocaleOf(r), new, facts)
      BY <1>3, <2>1, <2>2 DEF Made
    <2> HIDE DEF at
    <2>4. new.live_until - CacheTime - at <= ScanTime
      BY <1>1, <1>2, <1>3
    <2> QED  BY <1>2, <2>3, <2>4 DEF EntryOK
  <1>5. GoodCache(Saved)
    <2>1. CASE list = <<>> \/ HasDates(r)
      <3>1. Saved = cache
        BY <2>1 DEF Saved
      <3> QED  BY <3>1, Entries
    <2>2. CASE list # <<>> /\ ~HasDates(r)
      <3>1. Saved = [l \in DOMAIN cache \cup {LocaleOf(r)} |->
                       IF l = LocaleOf(r) THEN new ELSE cache[l]]
        BY <2>2 DEF Saved
      <3>2. new.live_until \in 0..(now + CacheTime) /\ new.value # <<>>
        BY <1>1, <2>2
      <3>3. EntryOK(LocaleOf(r), new, now, recent)
        BY <1>4, <2>2
      <3> HIDE DEF new, list, r
      <3>4. ASSUME NEW l \in DOMAIN Saved
            PROVE  \/ l = LocaleOf(r) /\ Saved[l] = new
                   \/ l \in DOMAIN cache /\ Saved[l] = cache[l]
        BY <3>1
      <3> QED  BY <3>2, <3>3, <3>4, Entries DEF GoodCache
    <2> QED  BY <2>1, <2>2
  <1>6. cache' = Saved /\ UNCHANGED <<now, cells, shown, recent>> /\ call' = Idle
    BY DEF saveResultToCache, Reply
  <1>7. GoodCall(call') /\ GoodCache(cache')
    BY <1>5, <1>6, IdleCalls
  <1> QED  BY <1>6, <1>7, CallStep

(* The invariant is inductive.                                             *)
LEMMA TopSteps == TopInv /\ [Next]_vars => TopInv'
  <1> SUFFICES ASSUME TopInv, [Next]_vars  PROVE TopInv'
    OBVIOUS
  <1>1. CASE Tick
    BY <1>1, TickStep
  <1>2. CASE \/ \E c \in Cells : addDestination(c) \/ \E v \in Values : Copy(c, v)
             \/ \E row \in SUBSET Cells : Hide(row)
    BY <1>2, CellsChange, CellsStep
  <1>3. CASE \E r \in Requests : BadRequest(r) \/ CacheHit(r) \/ CacheMiss(r)
    BY <1>3, ReplyStep, MissStep
  <1>4. CASE BeginScan \/ \E c \in Cells : ReadSize(c) \/ ReadCell(c)
    BY <1>4, BeginStep, SizeStep, CellStep
  <1>5. CASE exec \/ execThrows \/ saveResultToCache \/ Restart
    BY <1>5, ReplyStep, ExecStep, SaveStep
  <1>6. CASE UNCHANGED vars
    BY <1>6 DEF vars, TopInv, TypeOK, AgesOK
  <1> QED  BY <1>1, <1>2, <1>3, <1>4, <1>5, <1>6 DEF Next

(***************************************************************************)
(* The clock, the cells, the call and the cache keep their types, and no   *)
(* entry of the cache lives longer than CacheTime from now or is empty.    *)
(***************************************************************************)
THEOREM TopTypes == Spec => []TypeOK
  <1>1. TopInv => TypeOK
    BY DEF TopInv
  <1> QED  BY InitTop, TopSteps, <1>1, PTL DEF Spec

-----------------------------------------------------------------------------
(* The promise                                                             *)

(* The answers that carry no list.                                         *)
Refusals == {Refused(0), Refused(400), Refused(500)}

(* Errors, and no answer yet.                                              *)
LEMMA RefusalsAreKept ==
    ASSUME UNCHANGED <<cells, shown, recent>>, answer' \in Refusals
    PROVE  Promise!Next
  <1>1. answer' \in {Refused(s) : s \in {0, 400, 500}}
    BY DEF Refusals
  <1>2. Promise!Answer
    BY <1>1 DEF Promise!Answer
  <1> QED  BY <1>2 DEF Promise!Next

(* A list that follows from the facts of MaxAge seconds.                   *)
LEMMA AnswerIsKept ==
    ASSUME UNCHANGED <<cells, shown, recent>>, NEW r, NEW list,
           answer'.list = list, answer'.request = r, list \in Answers(Since(recent, MaxAge), r)
    PROVE  Promise!Next
  <1>1. Promise!Answer
    BY DEF Promise!Answer, Since
  <1> QED  BY <1>1 DEF Promise!Next

(* A hit: the entry is not expired, so what it was made of is recent.      *)
LEMMA HitIsKept ==
    ASSUME TopInv, NEW r \in Requests, CacheHit(r)  PROVE Promise!Next
  <1> DEFINE l == LocaleOf(r)
             list == getCachedResult(r)
             value == cache[l].value
             facts == Since(recent, MaxAge)
  <1>1. /\ ~HasDates(r) /\ l \in DOMAIN cache /\ ~is_expired(cache[l])
        /\ ~\E n \in Limit(r).value : Len(value) < n
        /\ list # <<>>
        /\ list = SubSeq(value, 1, IF Limit(r).value = {} THEN Len(value)
                                   ELSE Get([value |-> Limit(r).value]))
    BY DEF CacheHit, getCachedResult, Limit
  <1>2. now \in Nat /\ CacheTime \in Nat
    BY TimesAssumption DEF TopInv, TypeOK, TimesAssumption
  <1>3. EntryOK(l, cache[l], now, recent) /\ cache[l].live_until \in Int
    BY <1>1, <1>2, Entries DEF GoodCache
  <1>4. ~(cache[l].live_until < now)
    BY <1>1 DEF is_expired
  <1>5. PICK t \in Contents(facts) : Taken(value, OfLocale(l), t)
    BY <1>2, <1>3, <1>4, LiveEntries DEF Made
  <1>6. answer'.list = list /\ answer'.request = r /\ UNCHANGED <<cells, shown, recent>>
    BY DEF CacheHit, Reply
  <1> HIDE DEF list, value, facts
  <1>7. list \in Answers(facts, r)
    BY <1>1, <1>5, CachedAnswers
  <1> QED  BY <1>6, <1>7, AnswerIsKept DEF facts

(* A result of exec(): its scan began at most ScanTime ago.                *)
LEMMA ResultIsKept ==
    ASSUME TopInv, saveResultToCache  PROVE Promise!Next
  <1> DEFINE r == call.request
             list == call.list
             age == now - call.at
             facts == Since(recent, MaxAge)
  <1>1. now \in Nat
    BY TimesAssumption DEF TopInv, TypeOK, TimesAssumption
  <1>2. /\ ~QueryThrows(r) /\ call.at \in 0..now /\ age <= ScanTime
        /\ Listed(call, Since(recent, age))
    BY DEF saveResultToCache, TopInv, AgesOK, ResultOK
  <1>3. age \in 0..MaxAge
    BY <1>1, <1>2, MaxAgeIsNat
  <1>4. Since(recent, age) \subseteq facts
    BY <1>3, MaxAgeIsNat DEF Since
  <1>5. Listed(call, facts)
    BY <1>2, <1>4, MoreFacts
  <1>6. PICK t \in Contents(facts) : list \in Top(t, r, result_limit(Limit(r)))
    BY <1>5 DEF Listed
  <1>7. answer'.list = list /\ answer'.request = r /\ UNCHANGED <<cells, shown, recent>>
    BY DEF saveResultToCache, Reply
  <1> HIDE DEF r, list, facts
  <1>8. list \in Answers(facts, r)
    BY <1>2, <1>6, FreshAnswers
  <1> QED  BY <1>7, <1>8, AnswerIsKept DEF facts

(* What is true of the cells is one of the facts.                          *)
LEMMA NowIsFacts ==
    ASSUME NEW bytes \in [Cells -> Values], NEW live  PROVE Now(bytes, live) \in SUBSET Facts
  BY DEF Now, Facts

(* Every step of TopDst is a step of TopAnswers, or changes nothing there. *)
LEMMA TopImplements == TopInv /\ [Next]_vars => [Promise!Next]_Promise!vars
  <1> SUFFICES ASSUME TopInv, [Next]_vars  PROVE Promise!Next \/ UNCHANGED Promise!vars
    OBVIOUS
  <1>1. CASE Tick
    BY <1>1 DEF Tick, Promise!Next, Promise!SecondPasses
  <1>2. CASE \/ \E c \in Cells : addDestination(c) \/ \E v \in Values : Copy(c, v)
             \/ \E row \in SUBSET Cells : Hide(row)
    <2>1. PICK bytes \in [Cells -> Values], live \in SUBSET Cells : CellsBecome(bytes, live)
      BY <1>2, CellsChange
    <2>2. /\ cells' = bytes /\ shown' = live /\ UNCHANGED answer
          /\ recent' = [recent EXCEPT ![0] = @ \cup Now(bytes, live)]
      BY <2>1 DEF CellsBecome
    <2>3. Now(bytes, live) \in SUBSET Facts
      BY NowIsFacts
    <2>4. Promise!Change
      BY <2>2, <2>3 DEF Promise!Change
    <2> QED  BY <2>4 DEF Promise!Next
  <1>3. ASSUME NEW r \in Requests, BadRequest(r)  PROVE Promise!Next
    <2>1. answer' \in Refusals /\ UNCHANGED <<cells, shown, recent>>
      BY <1>3 DEF BadRequest, ErrorStatus, Refusals
    <2> QED  BY <2>1, RefusalsAreKept
  <1>4. ASSUME NEW r \in Requests, CacheMiss(r)  PROVE Promise!Next
    <2>1. answer' \in Refusals /\ UNCHANGED <<cells, shown, recent>>
      BY <1>4 DEF CacheMiss, Refusals
    <2> QED  BY <2>1, RefusalsAreKept
  <1>5. CASE execThrows \/ Restart
    <2>1. answer' \in Refusals /\ UNCHANGED <<cells, shown, recent>>
      BY <1>5 DEF execThrows, Restart, Refusals
    <2> QED  BY <2>1, RefusalsAreKept
  <1>6. CASE BeginScan \/ exec \/ \E c \in Cells : ReadSize(c) \/ ReadCell(c)
    <2>1. UNCHANGED <<cells, shown, recent, answer>>
      BY <1>6 DEF BeginScan, exec, ReadSize, ReadCell
    <2> QED  BY <2>1 DEF Promise!vars
  <1>7. CASE UNCHANGED vars
    BY <1>7 DEF vars, Promise!vars
  <1> QED  BY <1>1, <1>2, <1>3, <1>4, <1>5, <1>6, <1>7, HitIsKept, ResultIsKept DEF Next

(***************************************************************************)
(* The cache, filled by any requests, never makes an answer older than     *)
(* CacheTime plus ScanTime, and never answers one locale, limit or date    *)
(* with the list of another, whatever the other processes do to the table  *)
(* during the scan and after it: TopDst implements TopAnswers.             *)
(***************************************************************************)
THEOREM TopImplementsPromise == Spec => AnswersAreRecent
  <1>1. Init => Promise!Init
    <2> SUFFICES ASSUME Init  PROVE Promise!Init
      OBVIOUS
    <2>1. answer \in {Refused(s) : s \in {0, 400, 500}}
      BY DEF Init
    <2>2. Now(cells, shown) \in SUBSET Facts
      BY NowIsFacts DEF Init
    <2> QED  BY <2>1, <2>2 DEF Init, Promise!Init
  <1> QED  BY <1>1, InitTop, TopSteps, TopImplements, PTL DEF Spec, AnswersAreRecent, Promise!Spec
=============================================================================

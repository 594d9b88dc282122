-------------------------- MODULE DealsQueryProofs --------------------------
(***************************************************************************)
(* Searches of deals, for any requests, any table of texts and any values  *)
(* of uninitialized memory: the types of the state; that no answer is      *)
(* beaten by a newer deal of its group; that every group has one answer,   *)
(* a deal that the request wants; that no day of an interval is cut off;   *)
(* and that an answer's list of sizes counts itself.                       *)
(***************************************************************************)
EXTENDS DealsQuery, DatesProofs, FiniteSetTheorems, SequenceTheorems, WellFoundedInduction, TLAPS

(* What addDeal() makes sure of for every element of the table. *)
DealOK(d) ==
    /\ d.timestamp \in Nat
    /\ d.price \in Int
    /\ d.departure_date \in 0..LastDate /\ d.departure_date \in DateCodes
    /\ d.return_date \in 0..LastDate /\ d.return_date \in DateCodes \cup {0}
    /\ d.return_date # 0 => d.departure_date <= d.return_date
    /\ d.stay_days \in 0..UINT8_MAX
    /\ \E w : d.departure_day_of_week = {w}
    /\ \E w : d.return_day_of_week = {w}

StoreOK ==
    /\ store \in Seq(Range(store))
    /\ \A d \in Range(store) : DealOK(d)
    /\ horizon \in Nat

(* A request that is being scanned for, or was answered after its scan. *)
Searching == phase = "scan" \/ (phase = "answered" /\ reply.status \in {200, 204})

(* The query is the one that getTop() builds of the request. *)
QueryOK ==
    /\ request \in TopRequests
    /\ \E p \in WithLocaleTop(TopParams(request)) : \E s \in Queries(p, now) :
         /\ ~BadDates(TopParams(request)) /\ ~SettersThrow(p)
         /\ ~pre_searchThrows(QueryClass(p), s)
         /\ q = pre_search(QueryClass(p), s)

(* The key under which the scan keeps a deal, and whether it keeps it. *)
KeyOf(d) ==
    IF request.path = "/deals/uniqueRoutes" THEN <<d.origin, d.destination>>
    ELSE IF q.class = "SimplyCheapest" THEN d.destination
    ELSE IF q.class = "CheapestByDay" THEN getDateToGroup(q, d)
    ELSE d.destination_country

Met(d) == request.path = "/deals/top" => Passes(q.filters, q.min_timestamp, d)

(* No reason to answer with d in place of r: it is not newer, or it costs   *)
(* more and is for another trip.                                            *)
NotBetter(d, r) == d.timestamp > r.timestamp => d.price > r.price /\ ~equal(d, r)

(* The groups that the scan has made of the first n elements of the table: *)
(* every history holds deals of its key, every deal that the scan has met  *)
(* is in a group, and when the table is in the order of time, the last     *)
(* deal of a history is its newest and none that the scan has met is       *)
(* better.                                                                 *)
GroupsOK(h, n) ==
    /\ IsFiniteSet(DOMAIN h)
    /\ \A k \in DOMAIN h :
         /\ h[k] \in Seq(Range(store)) /\ h[k] # <<>>
         /\ request.path = "/deals/uniqueRoutes" => Len(h[k]) = 1
         /\ \A i \in 1..Len(h[k]) : \E j \in 1..n :
              h[k][i] = store[j] /\ KeyOf(store[j]) = k /\ Met(store[j])
    /\ \A j \in 1..n : Met(store[j]) => KeyOf(store[j]) \in DOMAIN h
    /\ TimeOrdered => \A j \in 1..n : Met(store[j]) =>
         NotBetter(store[j], Last(h[KeyOf(store[j])]))

Grouped == {"/deals/top", "/deals/uniqueRoutes"}

SearchInv ==
    /\ phase = "idle" => request = Fresh /\ q = Fresh /\ hist = <<>> /\ result = <<>>
    /\ phase = "answered" /\ reply.status \in {200, 204} => pos = Len(store)
    /\ Searching /\ request.path = "/deals/top" => QueryOK
    /\ Searching /\ request.path \in Grouped => GroupsOK(hist, pos)
    /\ Searching /\ phase = "answered" /\ request.path \in Grouped /\ TimeOrdered =>
         \A i \in DOMAIN result : \E k \in DOMAIN hist : result[i] = Last(hist[k])
    /\ Searching /\ phase = "answered" /\ request.path = "/deals/top" =>
         /\ Len(result) \in Nat /\ reply = writeTopResult(result)
         /\ \E s \in Sorted(q, {findCheapestAndLast(hist[k]) : k \in DOMAIN hist}) :
              result = SubSeq(s, 1, Smaller(Len(s), q.limit))

TypesInv == TypeOK /\ StoreOK

QueryInv == TypesInv /\ SearchInv

-----------------------------------------------------------------------------
(* Parameters                                                               *)

(* The value of a parameter that is defined is one of its values. *)
LEMMA GetValue == ASSUME NEW p, isDefined(p) PROVE Get(p) \in p.value
  BY DEF isDefined, Get

(* Required() changes no value, and a parameter that must be there and      *)
(* throws nothing is defined.                                               *)
LEMMA RequiredValue ==
    ASSUME NEW p PROVE Required(p).value = p.value
  BY DEF Required, Undefined, Throws

(* The dates that an interval may span. *)
LEMMA DatesAreNat == LastDate \in Nat /\ \A c \in 0..LastDate : c \in Nat
<1>1. LastDate \in Nat
  BY SMT DEF LastDate
<1> QED BY <1>1

(* Dates are numbers up to LastDate, and a required one that throws nothing *)
(* is defined.                                                              *)
LEMMA DateTypes ==
    ASSUME NEW text
    PROVE  /\ Date(text).value \subseteq 0..LastDate /\ Date(text).value \subseteq DateCodes
           /\ Required(Date(text)).error = Nothing => isDefined(Required(Date(text)))
<1>1. CASE text = <<>>
  BY <1>1 DEF Date, Undefined, Required, Throws, Nothing, BadParameter
<1>2. CASE text # <<>>
  <2>1. CASE Whole(text) \in DOMAIN DateOf
    <3>1. /\ Date(text) = Defined(DateOf[Whole(text)]) /\ DateOf[Whole(text)] \in 0..LastDate
          /\ DateOf[Whole(text)] \in DateCodes
      BY <1>2, <2>1, DatesAssumption DEF Date, Read, DateCodes
    <3> QED BY <3>1 DEF Defined, Required, Undefined, isDefined
  <2>2. CASE Whole(text) \notin DOMAIN DateOf
    <3>1. Date(text) = Throws(BadParameter)
      BY <1>2, <2>2 DEF Date, Read
    <3> QED BY <3>1 DEF Throws, Required, Undefined, Nothing, BadParameter
  <2> QED BY <2>1, <2>2
<1> QED BY <1>1, <1>2

(* Numbers are integers, and a required one that throws nothing is defined. *)
LEMMA NumberTypes ==
    ASSUME NEW text
    PROVE  /\ Number(text).value \subseteq Int
           /\ Required(Number(text)).error = Nothing => isDefined(Required(Number(text)))
<1>1. CASE text = <<>>
  BY <1>1 DEF Number, Undefined, Required, Throws, Nothing, BadParameter
<1>2. CASE text # <<>>
  <2>1. CASE text[1] \in DOMAIN NumberOf
    <3>1. Number(text) = Defined(NumberOf[text[1]]) /\ NumberOf[text[1]] \in Int
      BY <1>2, <2>1, NumberAssumption DEF Number, Read
    <3> QED BY <3>1 DEF Defined, Required, Undefined, isDefined
  <2>2. CASE text[1] \notin DOMAIN NumberOf
    <3>1. Number(text) = Throws(InternalError)
      BY <1>2, <2>2 DEF Number, Read
    <3> QED BY <3>1 DEF Throws, Required, Undefined, Nothing, InternalError
  <2> QED BY <2>1, <2>2
<1> QED BY <1>1, <1>2

(* The difference of two dates is an integer. *)
LEMMA DaysAfterIsInt ==
    ASSUME NEW a \in Nat, NEW b \in Nat PROVE days_after(a, b) \in Int
<1>1. ASSUME NEW y \in Nat, NEW m \in Nat, NEW d \in Nat PROVE rdn(y, m, d) \in Int
  <2>1. \A x \in Int : Quotient(x, 4) \in Int /\ Quotient(x, 100) \in Int
                        /\ Quotient(x, 400) \in Int /\ Quotient(x, 5) \in Int
    BY SMT DEF Quotient
  <2> QED BY <2>1, SMT DEF rdn
<1>2. \A c \in Nat : Year(c) \in Nat /\ Month(c) \in Nat /\ Day(c) \in Nat
  BY SMT DEF Year, Month, Day
<1>3. rdn(Year(a), Month(a), Day(a)) \in Int /\ rdn(Year(b), Month(b), Day(b)) \in Int
  BY <1>1, <1>2
<1> QED BY <1>3 DEF days_after

(* So is the duration of an interval. *)
LEMMA DurationIsInt ==
    ASSUME NEW t1, NEW t2 PROVE duration(Date(t1), Date(t2)) \in Int
<1>1. CASE isDefined(Date(t1)) /\ isDefined(Date(t2))
  <2>1. Get(Date(t1)) \in Nat /\ Get(Date(t2)) \in Nat
    BY <1>1, GetValue, DateTypes, DatesAreNat
  <2> QED BY <2>1, DaysAfterIsInt DEF duration
<1>2. CASE ~(isDefined(Date(t1)) /\ isDefined(Date(t2)))
  BY <1>2 DEF duration
<1> QED BY <1>1, <1>2

(* A list names finitely many codes. *)
LEMMA CodesAreFinite ==
    ASSUME NEW table, NEW text \in Seq(STRING)
    PROVE  IsFiniteSet(codes_set(Codes(table, text)))
<1> DEFINE Single(i) == IF i = "" THEN {} ELSE {table[i]}
           f == [k \in DOMAIN text |-> Single(text[k])]
           S == {Single(i) : i \in {text[k] : k \in DOMAIN text}}
<1>1. IsFiniteSet(DOMAIN text)
  BY FS_Interval
<1>2. f \in Surjection(DOMAIN text, S)
  BY DEF Surjection
<1>3. IsFiniteSet(S)
  BY <1>1, <1>2, FS_Surjection
<1>4. \A T \in S : IsFiniteSet(T)
  BY FS_EmptySet, FS_Singleton
<1>5. IsFiniteSet(UNION S)
  BY <1>3, <1>4, FS_UNION
<1>6. Codes(table, text).value = {} \/ Codes(table, text).value = {S}
  BY DEF Codes, Undefined, Throws, Defined
<1>7. UNION {S} = S /\ UNION {} = {}
  OBVIOUS
<1>8. codes_set(Codes(table, text)) = {} \/ codes_set(Codes(table, text)) = UNION S
  BY <1>6, <1>7 DEF codes_set
<1> QED BY <1>5, <1>8, FS_EmptySet

-----------------------------------------------------------------------------
(* The table                                                                *)

(* A sequence is one over its own elements. *)
LEMMA OverItsElements ==
    ASSUME NEW T, NEW s \in Seq(T)
    PROVE  s \in Seq(Range(s)) /\ Range(s) \subseteq T
<1>1. /\ Len(s) \in Nat /\ DOMAIN s = 1..Len(s) /\ s = [i \in 1..Len(s) |-> s[i]]
  BY LenProperties
<1>2. \A i \in 1..Len(s) : s[i] \in Range(s) /\ s[i] \in T
  BY <1>1 DEF Range
<1>3. s \in [1..Len(s) -> Range(s)]
  BY <1>1, <1>2
<1>4. s \in Seq(Range(s))
  BY <1>1, <1>3, SeqDef
<1>5. Range(s) \subseteq T
  BY <1>1, <1>2 DEF Range
<1> QED BY <1>4, <1>5

(* FirstError() is Nothing only if no parameter throws.  The lists that     *)
(* matter here are those of the eight parameters of /deals/add.             *)
LEMMA NoError ==
    ASSUME NEW ps, DOMAIN ps = 1..8, FirstError(ps) = Nothing
    PROVE  \A k \in 1..8 : ps[k].error = Nothing
<1> DEFINE bad == {k \in DOMAIN ps : ps[k].error # Nothing}
           first == CHOOSE k \in bad : \A j \in bad : k <= j
<1> SUFFICES ASSUME bad # {} PROVE FALSE
  OBVIOUS
<1>1. \E k \in bad : \A j \in bad : k <= j
  <2> HIDE DEF bad
  <2>1. bad \subseteq 1..8
    BY DEF bad
  <2> SUFFICES ASSUME \A k \in bad : \E j \in bad : j < k PROVE FALSE
    BY <2>1
  <2>2. \A j \in bad : j \in Int /\ j >= 1 /\ j <= 8
    BY <2>1
  <2>3. \A j \in bad : j > 2
    BY <2>2
  <2>4. \A j \in bad : j > 4
    BY <2>2, <2>3
  <2>5. \A j \in bad : j > 6
    BY <2>2, <2>4
  <2>6. \A j \in bad : j > 8
    BY <2>2, <2>5
  <2> QED BY <2>2, <2>6
<1>2. first \in bad
  BY <1>1
<1>3. FirstError(ps) = ps[first].error
  BY DEF FirstError
<1> QED BY <1>2, <1>3

(* What addDeal() stores. *)
LEMMA AddedDeal ==
    ASSUME NEW r, AddError(AddParams(r)) = Nothing, ~AddRefused(AddParams(r)), now \in Nat,
           NEW d \in DealInfos(AddParams(r), r.size)
    PROVE  DealOK(d)
<1> DEFINE p == AddParams(r)
           ps == <<p.return_date, p.departure_date, p.price, p.locale,
                   p.destination_country, p.origin, p.destination, p.direct_flight>>
<1>1. /\ p.return_date = Date(r.return_date)
      /\ p.departure_date = Required(Date(r.departure_date))
      /\ p.price = Required(Number(r.price))
  BY DEF AddParams
<1> HIDE DEF p
<1>2. p.departure_date.error = Nothing /\ p.price.error = Nothing
  <2>1. \A k \in 1..8 : ps[k].error = Nothing
    <3>1. DOMAIN ps = 1..8
      OBVIOUS
    <3>2. FirstError(ps) = Nothing
      BY DEF AddError, p
    <3> HIDE DEF ps
    <3> QED BY <3>1, <3>2, NoError
  <2>2. ps[2].error = Nothing /\ ps[3].error = Nothing
    BY <2>1
  <2> QED BY <2>2
<1>3. isDefined(p.departure_date) /\ isDefined(p.price)
  BY <1>1, <1>2, DateTypes, NumberTypes
<1>4. Get(p.departure_date) \in 0..LastDate /\ Get(p.price) \in Int
  BY <1>1, <1>3, GetValue, DateTypes, NumberTypes, RequiredValue
<1>5. isDefined(p.return_date) => Get(p.return_date) \in 0..LastDate
  BY <1>1, GetValue, DateTypes
<1>6. StayDays(p.departure_date, p.return_date) \in 0..UINT8_MAX
  <2>1. CASE isUndefined(p.return_date)
    BY <2>1 DEF StayDays, UINT8_MAX
  <2>2. CASE ~isUndefined(p.return_date)
    <3> DEFINE n == days_after(Get(p.return_date), Get(p.departure_date))
    <3>1. n \in Int
      BY <1>4, <1>5, <2>2, DaysAfterIsInt, DatesAreNat DEF isDefined, isUndefined
    <3>2. StayDays(p.departure_date, p.return_date) =
            IF Above(n, UINT8_MAX) THEN UINT8_MAX ELSE n
      BY <2>2 DEF StayDays
    <3> HIDE DEF n
    <3> QED BY <3>1, <3>2 DEF Above, UINT8_MAX
  <2> QED BY <2>1, <2>2
<1>7. \A dates : \A m \in WeekdayMasks(dates, Stray) : \E w : m = {w}
  BY DEF WeekdayMasks
<1>8. 0 \in 0..LastDate
  BY DatesAreNat
<1>9. PICK dw \in WeekdayMasks(p.departure_date.value, Stray),
           rw \in WeekdayMasks(p.return_date.value, Stray) :
        /\ d.timestamp = now
        /\ d.departure_date = Get(p.departure_date)
        /\ d.return_date = IF isDefined(p.return_date) THEN Get(p.return_date) ELSE 0
        /\ d.departure_day_of_week = dw
        /\ d.return_day_of_week = rw
        /\ d.stay_days = StayDays(p.departure_date, p.return_date)
        /\ d.price = Get(p.price)
  BY DEF DealInfos, p
<1>10. /\ Get(p.departure_date) \in DateCodes
       /\ isDefined(p.return_date) => Get(p.return_date) \in DateCodes
  BY <1>1, <1>3, GetValue, DateTypes, RequiredValue
<1>11. isDefined(p.return_date) => Get(p.departure_date) <= Get(p.return_date)
  <2> SUFFICES ASSUME isDefined(p.return_date), Get(p.departure_date) > Get(p.return_date)
               PROVE  FALSE
    BY <1>4, <1>5, DatesAreNat
  <2>1. Get(p.departure_date) \in p.departure_date.value /\ Get(p.return_date) \in p.return_date.value
    BY <1>3, GetValue
  <2>2. Later(p.departure_date, p.return_date)
    BY <2>1 DEF Later
  <2> QED BY <2>2 DEF AddRefused, p
<1> DEFINE dep == Get(p.departure_date)
           ret == IF isDefined(p.return_date) THEN Get(p.return_date) ELSE 0
<1>12. /\ dep \in 0..LastDate /\ dep \in DateCodes
       /\ ret \in 0..LastDate /\ ret \in DateCodes \cup {0} /\ (ret # 0 => dep <= ret)
  BY <1>4, <1>5, <1>8, <1>10, <1>11
<1>13. d.departure_date = dep /\ d.return_date = ret
  BY <1>9
<1> HIDE DEF dep, ret
<1>14. /\ \E w : d.departure_day_of_week = {w}
       /\ \E w : d.return_day_of_week = {w}
  BY <1>7, <1>9
<1> QED BY <1>4, <1>6, <1>9, <1>12, <1>13, <1>14 DEF DealOK

(* An element comes into a sequence. *)
LEMMA Inserted ==
    ASSUME NEW T, NEW s \in Seq(T), NEW e \in T, NEW i \in 1..(Len(s) + 1)
    PROVE  InsertAt(s, i, e) \in Seq(T) /\ Len(InsertAt(s, i, e)) = Len(s) + 1
<1> DEFINE a == SubSeq(s, 1, i - 1)
           c == SubSeq(s, i, Len(s))
<1>1. Len(s) \in Nat /\ \A k \in 1..Len(s) : s[k] \in T
  BY ElementOfSeq, LenProperties
<1>2. a \in Seq(T) /\ Len(a) = i - 1
  <2>1. \A k \in 1..(i - 1) : s[k] \in T
    BY <1>1
  <2> QED BY <1>1, <2>1, SubSeqProperties
<1>3. c \in Seq(T) /\ Len(c) = Len(s) - i + 1
  <2>1. \A k \in i..Len(s) : s[k] \in T
    BY <1>1
  <2> QED BY <1>1, <2>1, SubSeqProperties
<1>4. <<e>> \in Seq(T) /\ Len(<<e>>) = 1
  OBVIOUS
<1>5. InsertAt(s, i, e) = (a \o <<e>>) \o c
  BY DEF InsertAt
<1> HIDE DEF a, c
<1>6. a \o <<e>> \in Seq(T) /\ Len(a \o <<e>>) = i
  BY <1>1, <1>2, <1>4, ConcatProperties
<1>7. (a \o <<e>>) \o c \in Seq(T) /\ Len((a \o <<e>>) \o c) = i + Len(c)
  BY <1>3, <1>6, ConcatProperties
<1> QED BY <1>1, <1>3, <1>5, <1>7

-----------------------------------------------------------------------------
(* The query                                                                *)

(* The top of a locale changes the destinations of a request only. *)
LEMMA LocaleFields ==
    ASSUME NEW r, NEW p \in WithLocaleTop(TopParams(r))
    PROVE  LET p0 == TopParams(r)
           IN  /\ p.origin = p0.origin
               /\ p.destination_countries = p0.destination_countries
               /\ p.departure_date_from = p0.departure_date_from
               /\ p.departure_date_to = p0.departure_date_to
               /\ p.return_date_from = p0.return_date_from
               /\ p.return_date_to = p0.return_date_to
               /\ p.departure_days_of_week = p0.departure_days_of_week
               /\ p.return_days_of_week = p0.return_days_of_week
               /\ p.stay_from = p0.stay_from /\ p.stay_to = p0.stay_to
               /\ p.timelimit = p0.timelimit
               /\ p.deals_limit = p0.deals_limit
               /\ p.direct_flights = p0.direct_flights
               /\ p.roundtrip_flights = p0.roundtrip_flights
               /\ p.departure_or_return_date = p0.departure_or_return_date
               /\ p.all_combinations = p0.all_combinations
               /\ p.group_by_date = p0.group_by_date
               /\ p.group_by_country = p0.group_by_country
               /\ \/ p.destinations = p0.destinations
                  \/ \E top \in LocaleTops : p.destinations = add_codes(p0.destinations, top)
<1> DEFINE p0 == TopParams(r)
<1>1. CASE ~Is(p0.add_locale_top, TRUE)
  BY <1>1 DEF WithLocaleTop
<1>2. CASE Is(p0.add_locale_top, TRUE)
  <2>1. PICK top \in LocaleTops : p = [p0 EXCEPT !.destinations = add_codes(@, top)]
    BY <1>2 DEF WithLocaleTop
  <2> DEFINE v == add_codes(p0.destinations, top)
  <2>2. p = [p0 EXCEPT !.destinations = v]
    BY <2>1
  <2> HIDE DEF v
  <2>3. \A f \in DOMAIN p0 : f # "destinations" => p[f] = p0[f]
    BY <2>2
  <2>4. "destinations" \in DOMAIN p0
    BY DEF TopParams
  <2>5. p.destinations = v
    BY <2>2, <2>4
  <2>6. DOMAIN p0 = {"origin", "destinations", "destination_countries",
            "departure_date_from", "departure_date_to", "return_date_from",
            "return_date_to", "departure_days_of_week", "return_days_of_week",
            "stay_from", "stay_to", "timelimit", "deals_limit", "direct_flights",
            "roundtrip_flights", "add_locale_top", "group_by_date", "group_by_country",
            "locale", "departure_or_return_date", "all_combinations"}
    BY DEF TopParams
  <2> HIDE DEF p0
  <2>7. /\ p.origin = p0.origin
        /\ p.destination_countries = p0.destination_countries
        /\ p.departure_date_from = p0.departure_date_from
        /\ p.departure_date_to = p0.departure_date_to
        /\ p.return_date_from = p0.return_date_from
        /\ p.return_date_to = p0.return_date_to
        /\ p.departure_days_of_week = p0.departure_days_of_week
        /\ p.return_days_of_week = p0.return_days_of_week
    BY <2>3, <2>6
  <2>8. /\ p.stay_from = p0.stay_from /\ p.stay_to = p0.stay_to
        /\ p.timelimit = p0.timelimit
        /\ p.deals_limit = p0.deals_limit
        /\ p.direct_flights = p0.direct_flights
        /\ p.roundtrip_flights = p0.roundtrip_flights
        /\ p.departure_or_return_date = p0.departure_or_return_date
        /\ p.all_combinations = p0.all_combinations
        /\ p.group_by_date = p0.group_by_date
        /\ p.group_by_country = p0.group_by_country
    BY <2>3, <2>6
  <2> QED BY <2>5, <2>7, <2>8 DEF v, p0
<1> QED BY <1>1, <1>2

(* A number cut to 16 bits. *)
LEMMA SixteenBits == \A n \in Int : uint16_t(n) \in 0..UINT16_MAX
<1> SUFFICES ASSUME NEW n \in Int PROVE uint16_t(n) \in 0..UINT16_MAX
  OBVIOUS
<1>1. uint16_t(n) \in Int /\ uint16_t(n) >= 0 /\ uint16_t(n) <= UINT16_MAX
  BY SMT DEF uint16_t, UINT16_MAX
<1>2. UINT16_MAX \in Int
  BY SMT DEF UINT16_MAX
<1> QED BY <1>1, <1>2, SMT

(* The limit of an answer fits into 16 bits. *)
LEMMA LimitFits ==
    ASSUME NEW r \in TopRequests, NEW p \in WithLocaleTop(TopParams(r)),
           ~SettersThrow(p), NEW s \in Queries(p, now)
    PROVE  pre_search(QueryClass(p), s).limit \in 0..UINT16_MAX
<1>1. PICK dep \in durations(p.departure_date_from, p.departure_date_to),
           ret \in durations(p.return_date_from, p.return_date_to) :
        /\ s.departure_duration = dep /\ s.return_duration = ret
        /\ s.countries = codes_set(p.destination_countries)
        /\ s.limit = result_limit(p.deals_limit)
        /\ s.max_duration = max_duration(p.departure_date_from, p.departure_date_to,
                                         p.return_date_from, p.return_date_to)
  BY DEF Queries
<1>2. /\ p.destination_countries = CountryCodes(r.destination_countries)
      /\ p.departure_date_from = Date(r.departure_date_from)
      /\ p.departure_date_to = Date(r.departure_date_to)
      /\ p.return_date_from = Date(r.return_date_from)
      /\ p.return_date_to = Date(r.return_date_to)
      /\ p.deals_limit = Number(r.deals_limit)
  BY LocaleFields DEF TopParams
<1>3. s.departure_duration \in Int /\ s.return_duration \in Int
  BY <1>1, <1>2, DurationIsInt, UninitializedAssumption DEF durations
<1>4. s.max_duration \in Int
  BY <1>1, <1>2, DurationIsInt DEF max_duration
<1>5. s.limit \in 0..UINT16_MAX
  <2>1. ASSUME isDefined(p.deals_limit) PROVE s.limit \in Int /\ s.limit >= 0 /\ s.limit <= 367
    <3>1. Get(p.deals_limit) \in p.deals_limit.value /\ Get(p.deals_limit) \in Int
      BY <1>2, <2>1, GetValue, NumberTypes
    <3>2. Get(p.deals_limit) > 0 /\ Get(p.deals_limit) <= 367
      BY <3>1 DEF SettersThrow, result_limit_throws
    <3>3. s.limit = Get(p.deals_limit)
      BY <1>1, <2>1 DEF result_limit
    <3> QED BY <3>1, <3>2, <3>3
  <2>2. ASSUME ~isDefined(p.deals_limit) PROVE s.limit \in Int /\ s.limit >= 0 /\ s.limit <= 367
    BY <1>1, <2>2 DEF result_limit, DefaultLimit
  <2>3. s.limit \in Int /\ s.limit >= 0 /\ s.limit <= 367
    BY <2>1, <2>2
  <2>4. UINT16_MAX \in Int /\ 367 <= UINT16_MAX
    BY SMT DEF UINT16_MAX
  <2> QED BY <2>3, <2>4, SMT
<1>6. CountryLimit(s) \in 0..UINT16_MAX
  <2>1. IsFiniteSet(s.countries)
    BY <1>1, <1>2, CodesAreFinite, RequestsAssumption DEF CountryCodes
  <2>2. Cardinality(s.countries) \in Int
    BY <2>1, FS_CardinalityType
  <2> QED BY <1>5, <2>2, SixteenBits DEF CountryLimit
<1>7. DayLimit(s) \in 0..UINT16_MAX
  <2>1. s.departure_duration * s.return_duration \in Int
    BY <1>3
  <2> QED BY <1>3, <1>4, <1>5, <2>1, SixteenBits DEF DayLimit
<1>8. pre_search(QueryClass(p), s).limit \in {DayLimit(s), CountryLimit(s), s.limit}
  BY DEF pre_search
<1> QED BY <1>5, <1>6, <1>7, <1>8

-----------------------------------------------------------------------------
(* Types                                                                    *)

(* The table is empty at first. *)
LEMMA TypesInit == Init => TypesInv
<1> SUFFICES ASSUME Init PROVE TypesInv
  OBVIOUS
<1>1. store \in Seq(Range(store)) /\ Len(store) = 0
  BY EmptySeq DEF Init
<1>2. \A d \in Range(store) : DealOK(d)
  <2>1. DOMAIN store = {}
    BY <1>1, LenProperties DEF Init
  <2> QED BY <2>1 DEF Range
<1>3. TypeOK
  BY <1>1, BoundsAssumption DEF Init, TypeOK, NoReply
<1>4. horizon \in Nat
  BY BoundsAssumption DEF Init
<1> QED BY <1>1, <1>2, <1>3, <1>4 DEF TypesInv, StoreOK

(* One more element. *)
LEMMA StoreGrows ==
    ASSUME TypesInv, NEW r, addDeal(r)
    PROVE  StoreOK' /\ Len(store') = Len(store) + 1 /\ Len(store) \in Nat
<1> DEFINE p == AddParams(r)
<1>1. PICK d \in DealInfos(p, r.size), i \in 1..(Len(store) + 1) : store' = InsertAt(store, i, d)
  BY DEF addDeal
<1>2. now \in Nat
  BY BoundsAssumption DEF TypesInv, TypeOK
<1>3. DealOK(d)
  BY <1>2, AddedDeal DEF addDeal
<1> DEFINE T == Range(store) \cup {d}
<1>4. store \in Seq(T) /\ d \in T
  <2>1. store \in Seq(Range(store)) /\ Len(store) \in Nat
    BY LenProperties DEF TypesInv, StoreOK
  <2>2. \A k \in 1..Len(store) : store[k] \in T
    BY <2>1, ElementOfSeq
  <2>3. store \in [1..Len(store) -> T]
    BY <2>1, <2>2, LenProperties
  <2> QED BY <2>1, <2>3, SeqDef
<1>5. store' \in Seq(T) /\ Len(store') = Len(store) + 1
  BY <1>1, <1>4, Inserted
<1>6. store' \in Seq(Range(store')) /\ Range(store') \subseteq T
  BY <1>5, OverItsElements
<1>7. \A x \in Range(store') : DealOK(x)
  BY <1>3, <1>6 DEF TypesInv, StoreOK
<1>8. Len(store) \in Nat
  BY <1>4, LenProperties
<1>9. StoreOK'
  BY <1>6, <1>7 DEF StoreOK, DealOK, TypesInv, addDeal
<1> QED BY <1>5, <1>8, <1>9

(* Every step keeps the types. *)
LEMMA TypesNext == TypesInv /\ [Next]_vars => TypesInv'
<1> SUFFICES ASSUME TypesInv, [Next]_vars PROVE TypesInv'
  OBVIOUS
<1>1. ASSUME UNCHANGED <<store, horizon>> PROVE StoreOK'
  BY <1>1 DEF TypesInv, StoreOK, DealOK
<1>2. Len(store) \in Nat /\ now \in Nat
  <2>1. store \in Seq(Range(store)) /\ now \in DEALS_EXPIRES..MaxTime
    BY DEF TypesInv, StoreOK, TypeOK
  <2> QED BY <2>1, LenProperties, BoundsAssumption
<1>3. CASE UNCHANGED vars
  BY <1>1, <1>3 DEF TypesInv, TypeOK, vars
<1>4. CASE Tick
  BY <1>1, <1>2, <1>4, BoundsAssumption DEF TypesInv, TypeOK, Tick
<1>5. ASSUME NEW r \in AddRequests, addDeal(r) PROVE TypesInv'
  <2>1. StoreOK' /\ Len(store') = Len(store) + 1
    BY <1>5, StoreGrows
  <2>2. UNCHANGED <<now, phase, q, pos, reply>> /\ Len(store) < MaxDeals
    BY <1>5 DEF addDeal
  <2> QED BY <1>2, <2>1, <2>2, BoundsAssumption DEF TypesInv, TypeOK
<1>6. ASSUME NEW r, NEW status \in {400, 500}, Refuse(r, status) PROVE TypesInv'
  BY <1>1, <1>6 DEF TypesInv, TypeOK, Refuse
<1>7. \A e : ErrorStatus(e) \in {400, 500}
  BY DEF ErrorStatus
<1>8. ASSUME NEW r \in AddRequests, addDealThrows(r) PROVE TypesInv'
  BY <1>6, <1>7, <1>8 DEF addDealThrows
<1>9. ASSUME NEW r, NEW query, BeginScan(r, query), query # Fresh => query.limit \in 0..UINT16_MAX
      PROVE  TypesInv'
  BY <1>1, <1>2, <1>9 DEF TypesInv, TypeOK, BeginScan
<1>10. ASSUME NEW r \in TopRequests, getTop(r) PROVE TypesInv'
  <2>1. PICK p \in WithLocaleTop(TopParams(r)) :
          /\ ~SettersThrow(p)
          /\ \E s \in Queries(p, now) : BeginScan(r, pre_search(QueryClass(p), s))
    BY <1>10 DEF getTop
  <2>2. PICK s \in Queries(p, now) : BeginScan(r, pre_search(QueryClass(p), s))
    BY <2>1
  <2>3. pre_search(QueryClass(p), s).limit \in 0..UINT16_MAX
    BY <2>1, LimitFits
  <2> QED BY <1>9, <2>2, <2>3
<1>11. ASSUME NEW r \in TopRequests, getTopThrows(r) PROVE TypesInv'
  BY <1>6, <1>7, <1>11 DEF getTopThrows
<1>12. CASE getUniqueRoutes \/ getStats
  BY <1>9, <1>12 DEF getUniqueRoutes, getStats
<1>13. CASE process_element \/ process_route \/ process_stats
  <2>1. Scanned
    BY <1>13 DEF process_element, process_route, process_stats
  <2> QED BY <1>1, <1>2, <2>1 DEF Scanned, TypesInv, TypeOK
<1>14. CASE AnswerTop \/ AnswerRoutes \/ AnswerStats
  <2>1. /\ UNCHANGED <<now, store, horizon, q, pos>> /\ phase' = "answered"
        /\ reply'.status \in {200, 204}
    BY <1>14 DEF AnswerTop, AnswerRoutes, AnswerStats, writeTopResult
  <2> QED BY <1>1, <2>1 DEF TypesInv, TypeOK
<1>15. CASE Close
  BY <1>1, <1>2, <1>15 DEF TypesInv, TypeOK, Close, NoReply
<1> QED BY <1>3, <1>4, <1>5, <1>8, <1>10, <1>11, <1>12, <1>13, <1>14, <1>15 DEF Next

(***************************************************************************)
(* The clock stays in its bounds, the scan inside the table, the limit of  *)
(* an answer within the uint16_t that pre_search() cuts a number of days   *)
(* or countries to, whatever an uninitialized duration holds, and every    *)
(* answer has one of the statuses that the server sends.                   *)
(***************************************************************************)
THEOREM QueryTypes == Spec => []TypeOK
<1>1. TypesInv => TypeOK
  BY DEF TypesInv
<1> QED BY TypesInit, TypesNext, <1>1, PTL DEF Spec

-----------------------------------------------------------------------------
(* Groups                                                                   *)

(* The elements of the table have the types that comparisons need. *)
LEMMA StoreElements ==
    ASSUME StoreOK
    PROVE  /\ Len(store) \in Nat /\ DOMAIN store = 1..Len(store)
           /\ \A j \in 1..Len(store) : store[j] \in Range(store) /\ DealOK(store[j])
<1>1. Len(store) \in Nat /\ DOMAIN store = 1..Len(store)
  BY LenProperties DEF StoreOK
<1>2. \A j \in 1..Len(store) : store[j] \in Range(store)
  BY <1>1 DEF Range
<1> QED BY <1>1, <1>2 DEF StoreOK

(* An element that the scan passes and that changes no group. *)
LEMMA GroupKept ==
    ASSUME NEW h, NEW n \in Nat, GroupsOK(h, n),
           Met(store[n + 1]) => /\ KeyOf(store[n + 1]) \in DOMAIN h
                                /\ NotBetter(store[n + 1], Last(h[KeyOf(store[n + 1])]))
    PROVE  GroupsOK(h, n + 1)
<1>1. \A j \in 1..(n + 1) : j \in 1..n \/ j = n + 1
  OBVIOUS
<1>2. \A j \in 1..n : j \in 1..(n + 1)
  OBVIOUS
<1>3. IsFiniteSet(DOMAIN h)
  BY DEF GroupsOK
<1>4. ASSUME NEW k \in DOMAIN h
      PROVE  /\ h[k] \in Seq(Range(store)) /\ h[k] # <<>>
             /\ request.path = "/deals/uniqueRoutes" => Len(h[k]) = 1
             /\ \A i \in 1..Len(h[k]) : \E j \in 1..(n + 1) :
                  h[k][i] = store[j] /\ KeyOf(store[j]) = k /\ Met(store[j])
  BY <1>2 DEF GroupsOK
<1>5. ASSUME NEW j \in 1..(n + 1), Met(store[j])
      PROVE  /\ KeyOf(store[j]) \in DOMAIN h
             /\ TimeOrdered => NotBetter(store[j], Last(h[KeyOf(store[j])]))
  BY <1>1, <1>5 DEF GroupsOK
<1> QED BY <1>3, <1>4, <1>5 DEF GroupsOK

(* An element that begins a group, or becomes the last one of its history. *)
LEMMA GroupGrows ==
    ASSUME StoreOK, NEW h, NEW n \in Nat, n < Len(store), GroupsOK(h, n),
           Met(store[n + 1]), NEW new, NEW key, key = KeyOf(store[n + 1]),
           \/ new = <<store[n + 1]>>
           \/ /\ key \in DOMAIN h /\ request.path # "/deals/uniqueRoutes"
              /\ new = Append(h[key], store[n + 1]),
           NEW h2, DOMAIN h2 = DOMAIN h \cup {key}, h2[key] = new,
           \A k \in DOMAIN h : k # key => h2[k] = h[k]
    PROVE  GroupsOK(h2, n + 1)
<1> DEFINE d == store[n + 1]
<1>1. /\ d \in Range(store) /\ DealOK(d) /\ n + 1 \in 1..Len(store)
      /\ \A j \in 1..n : j \in 1..Len(store) /\ DealOK(store[j]) /\ j < n + 1
      /\ DOMAIN store = 1..Len(store)
  BY StoreElements
<1>2. DOMAIN h2 = DOMAIN h \cup {key} /\ h2[key] = new
  OBVIOUS
<1>3. \A k \in DOMAIN h : k # key => h2[k] = h[k]
  OBVIOUS
<1>5. IsFiniteSet(DOMAIN h2)
  BY <1>2, FS_AddElement DEF GroupsOK
<1>6. /\ new \in Seq(Range(store)) /\ new # <<>> /\ Last(new) = d
      /\ request.path = "/deals/uniqueRoutes" => Len(new) = 1
      /\ \A i \in 1..Len(new) : new[i] = d \/ (key \in DOMAIN h /\ i \in 1..Len(h[key])
                                                 /\ new[i] = h[key][i])
  <2>1. CASE new = <<d>>
    BY <1>1, <2>1 DEF Last
  <2>2. CASE /\ key \in DOMAIN h /\ request.path # "/deals/uniqueRoutes"
             /\ new = Append(h[key], d)
    <3>1. h[key] \in Seq(Range(store)) /\ Len(h[key]) \in Nat
      BY <2>2, LenProperties DEF GroupsOK
    <3>2. /\ new \in Seq(Range(store)) /\ Len(new) = Len(h[key]) + 1
          /\ \A i \in 1..Len(h[key]) : new[i] = h[key][i]
          /\ new[Len(h[key]) + 1] = d
      BY <1>1, <2>2, <3>1, AppendProperties
    <3>3. new # <<>>
      BY <3>1, <3>2
    <3>4. \A i \in 1..Len(new) : i \in 1..Len(h[key]) \/ i = Len(h[key]) + 1
      BY <3>1, <3>2
    <3> QED BY <2>2, <3>2, <3>3, <3>4 DEF Last
  <2> QED BY <2>1, <2>2
<1> HIDE DEF d
<1>7. \A j \in 1..n : j \in 1..(n + 1)
  OBVIOUS
<1>8. d = store[n + 1] /\ n + 1 \in 1..(n + 1) /\ KeyOf(d) = key /\ Met(d)
  BY DEF d
<1>9. ASSUME NEW k \in DOMAIN h2
      PROVE  /\ h2[k] \in Seq(Range(store)) /\ h2[k] # <<>>
             /\ request.path = "/deals/uniqueRoutes" => Len(h2[k]) = 1
             /\ \A i \in 1..Len(h2[k]) : \E j \in 1..(n + 1) :
                  h2[k][i] = store[j] /\ KeyOf(store[j]) = k /\ Met(store[j])
  <2>1. CASE k = key
    <3>1. ASSUME NEW i \in 1..Len(new)
          PROVE  \E j \in 1..(n + 1) : new[i] = store[j] /\ KeyOf(store[j]) = k /\ Met(store[j])
      <4>1. CASE new[i] = d
        BY <1>8, <2>1, <4>1
      <4>2. CASE key \in DOMAIN h /\ i \in 1..Len(h[key]) /\ new[i] = h[key][i]
        BY <1>7, <2>1, <4>2 DEF GroupsOK
      <4> QED BY <1>6, <4>1, <4>2
    <3> QED BY <1>2, <1>6, <2>1, <3>1
  <2>2. CASE k # key
    <3>1. k \in DOMAIN h /\ h2[k] = h[k]
      BY <1>2, <1>3, <2>2
    <3> QED BY <1>7, <3>1 DEF GroupsOK
  <2> QED BY <2>1, <2>2
<1>10. ASSUME NEW j \in 1..(n + 1), Met(store[j])  PROVE KeyOf(store[j]) \in DOMAIN h2
  BY <1>2, <1>8, <1>10 DEF GroupsOK
<1>11. ASSUME TimeOrdered, NEW j \in 1..(n + 1), Met(store[j])
       PROVE  NotBetter(store[j], Last(h2[KeyOf(store[j])]))
  <2>1. store[j].timestamp \in Nat /\ d.timestamp \in Nat /\ store[j].timestamp <= d.timestamp
    <3>1. CASE j = n + 1
      BY <1>1, <1>8, <3>1 DEF DealOK
    <3>2. CASE j \in 1..n
      BY <1>1, <1>8, <1>11, <3>2 DEF DealOK, TimeOrdered
    <3> QED BY <3>1, <3>2
  <2>2. CASE KeyOf(store[j]) = key
    BY <1>2, <1>6, <2>1, <2>2 DEF NotBetter
  <2>3. CASE KeyOf(store[j]) # key
    <3>1. j \in 1..n
      BY <1>8, <2>3
    <3>2. KeyOf(store[j]) \in DOMAIN h /\ NotBetter(store[j], Last(h[KeyOf(store[j])]))
      BY <1>11, <3>1 DEF GroupsOK
    <3> QED BY <1>2, <1>3, <2>3, <3>2
  <2> QED BY <2>2, <2>3
<1> QED BY <1>5, <1>9, <1>10, <1>11 DEF GroupsOK

(* The last deal of a history is an element that the scan has passed. *)
LEMMA LastOfGroup ==
    ASSUME NEW h, NEW n \in Nat, GroupsOK(h, n), NEW k \in DOMAIN h
    PROVE  /\ Len(h[k]) \in Nat /\ Len(h[k]) > 0
           /\ \E j \in 1..n : Last(h[k]) = store[j] /\ KeyOf(store[j]) = k /\ Met(store[j])
<1>1. Len(h[k]) \in Nat /\ Len(h[k]) > 0
  BY LenProperties, EmptySeq DEF GroupsOK
<1>2. Len(h[k]) \in 1..Len(h[k])
  BY <1>1
<1> QED BY <1>1, <1>2 DEF GroupsOK, Last

(* The deal of a group that does not give way is not worse. *)
LEMMA KeepsTheBetter ==
    ASSUME NEW dst, NEW d, DealOK(dst), DealOK(d),
           ~Takes(dst, d) \/ ~RouteTakes(dst, d)
    PROVE  NotBetter(d, dst)
<1>1. /\ dst.price \in Int /\ d.price \in Int
      /\ dst.timestamp \in Nat /\ d.timestamp \in Nat
  BY DEF DealOK
<1> QED BY <1>1 DEF Takes, RouteTakes, NotBetter

(* A step of the scan keeps the groups in order. *)
LEMMA GroupsStep ==
    ASSUME TypesInv, phase = "scan", request.path \in Grouped, GroupsOK(hist, pos),
           request.path = "/deals/top" => QueryOK,
           process_element \/ process_route
    PROVE  GroupsOK(hist', pos')
<1> DEFINE d == store[pos + 1]
           key == KeyOf(d)
<1>1. pos \in Nat /\ pos < Len(store) /\ pos' = pos + 1 /\ DealOK(d) /\ StoreOK
  BY StoreElements DEF process_element, process_route, Scanned, TypesInv, TypeOK
<1>2. ASSUME key \in DOMAIN hist PROVE DealOK(Last(hist[key]))
  <2>1. PICK j \in 1..pos : Last(hist[key]) = store[j]
    BY <1>1, <1>2, LastOfGroup
  <2> QED BY <1>1, <2>1, StoreElements
<1>3. CASE ~Met(d) /\ hist' = hist
  BY <1>1, <1>3, GroupKept
<1>4. CASE key \in DOMAIN hist /\ hist' = hist
           /\ (~Takes(Last(hist[key]), d) \/ ~RouteTakes(Last(hist[key]), d))
  <2>1. NotBetter(d, Last(hist[key]))
    BY <1>1, <1>2, <1>4, KeepsTheBetter
  <2> QED BY <1>1, <1>4, <2>1, GroupKept
<1>5. ASSUME Met(d), NEW new,
             \/ new = <<d>>
             \/ /\ key \in DOMAIN hist /\ request.path # "/deals/uniqueRoutes"
                /\ new = Append(hist[key], d),
             DOMAIN hist' = DOMAIN hist \cup {key}, hist'[key] = new,
             \A k \in DOMAIN hist : k # key => hist'[k] = hist[k]
      PROVE  GroupsOK(hist', pos')
  <2> HIDE DEF key
  <2>1. key = KeyOf(store[pos + 1])
    BY DEF key
  <2>2. \/ new = <<store[pos + 1]>>
        \/ /\ key \in DOMAIN hist /\ request.path # "/deals/uniqueRoutes"
           /\ new = Append(hist[key], store[pos + 1])
    BY <1>5
  <2>3. StoreOK /\ pos \in Nat /\ pos < Len(store) /\ Met(store[pos + 1])
    BY <1>1, <1>5
  <2> HIDE DEF d
  <2> DEFINE h2 == hist'
  <2>4. /\ DOMAIN h2 = DOMAIN hist \cup {key} /\ h2[key] = new
        /\ \A k \in DOMAIN hist : k # key => h2[k] = hist[k]
    BY <1>5
  <2> HIDE DEF h2
  <2>5. GroupsOK(h2, pos + 1)
    BY <2>1, <2>2, <2>3, <2>4, GroupGrows
  <2> QED BY <1>1, <2>5 DEF h2
<1>6. CASE process_route
  <2>1. request.path = "/deals/uniqueRoutes" /\ key = <<d.origin, d.destination>> /\ Met(d)
    BY <1>6 DEF process_route, KeyOf, Met
  <2>2. hist' = IF key \in DOMAIN hist /\ ~RouteTakes(hist[key][1], d) THEN hist
                ELSE [k \in DOMAIN hist \cup {key} |-> IF k = key THEN <<d>> ELSE hist[k]]
    BY <1>6, <2>1 DEF process_route
  <2> HIDE DEF key, d
  <2>3. key \in DOMAIN hist => hist[key][1] = Last(hist[key])
    BY <2>1 DEF GroupsOK, Last
  <2>4. CASE key \in DOMAIN hist /\ ~RouteTakes(hist[key][1], d)
    BY <1>4, <2>2, <2>3, <2>4
  <2>5. CASE ~(key \in DOMAIN hist /\ ~RouteTakes(hist[key][1], d))
    <3> DEFINE new == <<d>>
    <3>1. /\ DOMAIN hist' = DOMAIN hist \cup {key} /\ hist'[key] = new
          /\ \A k \in DOMAIN hist : k # key => hist'[k] = hist[k]
      BY <2>2, <2>5
    <3> HIDE DEF new
    <3> QED BY <1>5, <2>1, <3>1 DEF new
  <2> QED BY <2>4, <2>5
<1>7. CASE process_element
  <2>1. request.path = "/deals/top"
    BY <1>7 DEF process_element
  <2>2. Met(d) <=> Passes(q.filters, q.min_timestamp, d)
    BY <2>1 DEF Met
  <2>3. CASE ~Met(d)
    BY <1>3, <1>7, <2>2, <2>3 DEF process_element
  <2>4. CASE Met(d)
    <3>1. process_deal(d)
      BY <1>7, <2>2, <2>4 DEF process_element
    <3>2. Keep(key, d)
      BY <2>1, <3>1 DEF process_deal, SimplyCheapest, CheapestByDay, CheapestByCountry, KeyOf
    <3> HIDE DEF key, d
    <3>3. CASE key \notin DOMAIN hist
      BY <1>5, <2>4, <3>2, <3>3 DEF Keep
    <3>4. CASE key \in DOMAIN hist /\ ~Takes(Last(hist[key]), d)
      BY <1>4, <3>2, <3>4 DEF Keep
    <3>5. CASE key \in DOMAIN hist /\ Takes(Last(hist[key]), d)
      <4> DEFINE new == Append(hist[key], d)
      <4>1. hist' = [hist EXCEPT ![key] = new]
        BY <3>2, <3>5 DEF Keep
      <4>3. request.path # "/deals/uniqueRoutes"
        BY <2>1
      <4> HIDE DEF new
      <4>4. /\ DOMAIN hist' = DOMAIN hist \cup {key} /\ hist'[key] = new
            /\ \A k \in DOMAIN hist : k # key => hist'[k] = hist[k]
        BY <3>5, <4>1
      <4> QED BY <1>5, <2>4, <3>5, <4>3, <4>4 DEF new
    <3> QED BY <3>3, <3>4, <3>5
  <2> QED BY <2>3, <2>4
<1> QED BY <1>6, <1>7

-----------------------------------------------------------------------------
(* Answers                                                                  *)

(* A sequence that SetToSeqs() makes of a finite set holds its elements. *)
LEMMA ListedElements ==
    ASSUME NEW S, IsFiniteSet(S), NEW s \in SetToSeqs(S)
    PROVE  s \in Seq(S) /\ DOMAIN s = 1..Len(s) /\ \A i \in 1..Len(s) : s[i] \in S
<1>1. Cardinality(S) \in Nat
  BY FS_CardinalityType
<1>2. s \in [1..Cardinality(S) -> S]
  BY DEF SetToSeqs
<1>3. s \in Seq(S)
  BY <1>1, <1>2, SeqDef
<1> QED BY <1>3, LenProperties

(* The image of a finite domain is finite. *)
LEMMA FiniteImage ==
    ASSUME NEW D, IsFiniteSet(D), NEW f, DOMAIN f = D
    PROVE  IsFiniteSet({f[k] : k \in D})
<1> DEFINE g == [k \in D |-> f[k]]
           S == {f[k] : k \in D}
<1>1. g \in Surjection(D, S)
  BY DEF Surjection
<1> QED BY <1>1, FS_Surjection

(* When the table is in the order of time, post_search() takes the last    *)
(* deal of every history: none before it is newer and for the same trip.   *)
LEMMA LastIsTaken ==
    ASSUME StoreOK, NEW h, NEW n \in Nat, n <= Len(store), GroupsOK(h, n), TimeOrdered,
           NEW k \in DOMAIN h
    PROVE  findCheapestAndLast(h[k]) = Last(h[k])
<1>1. Len(h[k]) \in Nat /\ Len(h[k]) > 0
  BY LastOfGroup
<1>2. ASSUME NEW i \in 1..(Len(h[k]) - 1) PROVE ~Outdates(h[k][i], h[k][Len(h[k])])
  <2>1. i \in 1..Len(h[k])
    BY <1>1
  <2>2. PICK j \in 1..n : h[k][i] = store[j] /\ KeyOf(store[j]) = k /\ Met(store[j])
    BY <2>1 DEF GroupsOK
  <2>3. NotBetter(h[k][i], Last(h[k]))
    BY <2>2 DEF GroupsOK
  <2> QED BY <2>3 DEF NotBetter, Outdates, Last
<1> QED BY <1>2 DEF findCheapestAndLast, Last

(* The answer to /deals/top is a list of the deals that post_search() takes. *)
LEMMA AnswerOfTop ==
    ASSUME TypesInv, GroupsOK(hist, pos), AnswerTop, q # Fresh
    PROVE  result' \in Seq({findCheapestAndLast(hist[k]) : k \in DOMAIN hist})
<1> DEFINE f == [k \in DOMAIN hist |-> findCheapestAndLast(hist[k])]
           S == {f[k] : k \in DOMAIN hist}
<1>1. PICK s \in Sorted(q, {findCheapestAndLast(hist[k]) : k \in DOMAIN hist}) :
        result' = SubSeq(s, 1, Smaller(Len(s), q.limit))
  BY DEF AnswerTop
<1>2. S = {findCheapestAndLast(hist[k]) : k \in DOMAIN hist}
  OBVIOUS
<1>3. IsFiniteSet(S)
  <2>1. DOMAIN f = DOMAIN hist /\ IsFiniteSet(DOMAIN hist)
    BY DEF GroupsOK
  <2> HIDE DEF f
  <2> QED BY <2>1, FiniteImage
<1> HIDE DEF S, f
<1>4. s \in SetToSeqs(S)
  BY <1>1, <1>2 DEF Sorted
<1>5. s \in Seq(S) /\ Len(s) \in Nat /\ \A i \in 1..Len(s) : s[i] \in S
  BY <1>3, <1>4, ListedElements, LenProperties
<1>6. q.limit \in Int
  <2>1. q.limit \in 0..UINT16_MAX
    BY DEF TypesInv, TypeOK
  <2> QED BY <2>1
<1> DEFINE m == Smaller(Len(s), q.limit)
<1>7. m \in Int /\ m <= Len(s)
  BY <1>5, <1>6 DEF Smaller
<1> HIDE DEF m
<1>8. \A i \in 1..m : s[i] \in S
  BY <1>5, <1>7
<1>9. SubSeq(s, 1, m) \in Seq(S)
  BY <1>7, <1>8, SubSeqProperties
<1> QED BY <1>1, <1>2, <1>9 DEF m

(* The deals of an answer are the last ones of their histories. *)
LEMMA AnswersAreLast ==
    ASSUME TypesInv, GroupsOK(hist, pos), TimeOrdered,
           (AnswerTop /\ q # Fresh) \/ AnswerRoutes
    PROVE  \A i \in DOMAIN result' : \E k \in DOMAIN hist : result'[i] = Last(hist[k])
<1>1. pos \in Nat /\ pos = Len(store) /\ StoreOK /\ IsFiniteSet(DOMAIN hist)
  BY StoreElements DEF TypesInv, TypeOK, AnswerTop, AnswerRoutes, GroupsOK
<1>2. CASE AnswerTop /\ q # Fresh
  <2> DEFINE S == {findCheapestAndLast(hist[k]) : k \in DOMAIN hist}
  <2>1. \A x \in S : \E k \in DOMAIN hist : x = Last(hist[k])
    BY <1>1, LastIsTaken
  <2>2. result' \in Seq(S)
    BY <1>2, AnswerOfTop
  <2> HIDE DEF S
  <2>3. \A i \in DOMAIN result' : result'[i] \in S
    BY <2>2, LenProperties, ElementOfSeq
  <2> QED BY <2>1, <2>3
<1>3. CASE AnswerRoutes
  <2> DEFINE f == [k \in DOMAIN hist |-> hist[k][1]]
             S == {f[k] : k \in DOMAIN hist}
  <2>1. PICK s \in SetToSeqs({hist[k][1] : k \in DOMAIN hist}) : result' = s
    BY <1>3 DEF AnswerRoutes
  <2>2. S = {hist[k][1] : k \in DOMAIN hist}
    OBVIOUS
  <2>3. IsFiniteSet(S)
    <3>1. DOMAIN f = DOMAIN hist
      OBVIOUS
    <3> HIDE DEF f
    <3> QED BY <1>1, <3>1, FiniteImage
  <2>4. \A x \in S : \E k \in DOMAIN hist : x = Last(hist[k])
    BY <1>3 DEF AnswerRoutes, GroupsOK, Last
  <2> HIDE DEF S, f
  <2>5. \A i \in DOMAIN result' : result'[i] \in S
    BY <2>1, <2>2, <2>3, ListedElements
  <2> QED BY <2>4, <2>5
<1> QED BY <1>2, <1>3

(* The ends of an interval that the setters make of two optional bounds. *)
LEMMA WithinInterval ==
    ASSUME NEW from, NEW to, NEW x, NEW last, NEW i,
           x \in 0..last,
           i.from = (IF isDefined(from) THEN Get(from) ELSE 0),
           i.to = (IF isDefined(to) THEN Get(to) ELSE last),
           \A v \in from.value : x >= v, \A v \in to.value : x <= v
    PROVE  x >= i.from /\ x <= i.to
<1>1. x >= i.from
  <2>1. CASE isDefined(from)
    BY <2>1, GetValue
  <2>2. CASE ~isDefined(from)
    BY <2>2
  <2> QED BY <2>1, <2>2
<1>2. x <= i.to
  <2>1. CASE isDefined(to)
    BY <2>1, GetValue
  <2>2. CASE ~isDefined(to)
    BY <2>2
  <2> QED BY <2>1, <2>2
<1> QED BY <1>1, <1>2

(* The codes of a list: none of a list that is not given, and otherwise one *)
(* for every item, unless the setter throws for an empty one.               *)
LEMMA CodesOfList ==
    ASSUME NEW table, NEW text \in Seq(STRING), ~codes_throw(Codes(table, text))
    PROVE  LET c == Codes(table, text)
           IN  /\ isUndefined(c) => codes_set(c) = {}
               /\ isDefined(c) => codes_set(c) # {}
               /\ \A x : x \in codes_set(c) <=> {x} \in UNION c.value
               /\ \A x, v : v \in c.value => (x \in codes_set(c) <=> {x} \in v)
<1> DEFINE c == Codes(table, text)
           Single(i) == IF i = "" THEN {} ELSE {table[i]}
           items == {text[k] : k \in DOMAIN text}
           S == {Single(i) : i \in items}
<1>1. CASE isUndefined(c)
  BY <1>1 DEF isUndefined, isDefined, codes_set
<1>2. CASE isDefined(c)
  <2>1. text # <<>> /\ c.value = {S}
    BY <1>2 DEF Codes, Undefined, Throws, Defined, isDefined
  <2>2. UNION c.value = S /\ {} \notin S
    BY <2>1 DEF codes_throw
  <2>3. \A T \in S : \E x : T = {x}
    BY <2>2
  <2>4. S # {}
    <3>1. Len(text) \in Nat /\ Len(text) # 0 /\ DOMAIN text = 1..Len(text)
      BY <2>1, LenProperties, EmptySeq
    <3>2. text[1] \in items
      BY <3>1
    <3>3. Single(text[1]) \in S
      BY <3>2
    <3> QED BY <3>3
  <2> HIDE DEF S, c
  <2>5. codes_set(c) = UNION S
    BY <2>2 DEF codes_set
  <2>6. \A x : x \in UNION S <=> {x} \in S
    BY <2>3
  <2>7. UNION S # {}
    BY <2>3, <2>4
  <2> QED BY <1>2, <2>1, <2>2, <2>5, <2>6, <2>7 DEF isUndefined, isDefined, c
<1> QED BY <1>1, <1>2 DEF isUndefined, isDefined

(* A date or a number has one value, if it is defined. *)
LEMMA OneValue ==
    ASSUME NEW text
    PROVE  /\ \A v \in Date(text).value : Date(text).value = {v} /\ Get(Date(text)) = v
           /\ \A v \in Number(text).value : Number(text).value = {v} /\ Get(Number(text)) = v
<1>1. Date(text).value = {} \/ \E x : Date(text).value = {x}
  BY DEF Date, Read, Undefined, Defined, Throws
<1>2. Number(text).value = {} \/ \E x : Number(text).value = {x}
  BY DEF Number, Read, Undefined, Defined, Throws
<1> QED BY <1>1, <1>2 DEF Get

(* The filters of the query, told by the parameters of the request. *)
LEMMA QueryFilters ==
    ASSUME QueryOK
    PROVE  LET p == TopParams(request)
               s == q.filters
           IN  /\ s.origin = p.origin.value
               /\ s.countries = codes_set(p.destination_countries)
               /\ ~codes_throw(p.destinations) /\ ~codes_throw(p.destination_countries)
               /\ s.departure = interval(p.departure_date_from, p.departure_date_to)
               /\ s.return = interval(p.return_date_from, p.return_date_to)
               /\ s.departure_weekdays = p.departure_days_of_week.value
               /\ s.return_weekdays = p.return_days_of_week.value
               /\ s.stay = stay_days(p.stay_from, p.stay_to)
               /\ s.direct = p.direct_flights.value
               /\ s.roundtrip = p.roundtrip_flights.value
               /\ s.timestamp = max_lifetime_sec(p.timelimit, now)
               /\ s.exact = p.departure_or_return_date.value
               /\ IF Is(p.add_locale_top, TRUE)
                  THEN \E top \in LocaleTops : s.destinations = codes_set(p.destinations) \cup top
                  ELSE s.destinations = codes_set(p.destinations)
               /\ q.min_timestamp = (IF horizon > now THEN horizon ELSE now) - DEALS_EXPIRES
<1> DEFINE p0 == TopParams(request)
<1>1. PICK p \in WithLocaleTop(p0) : \E s \in Queries(p, now) :
         ~SettersThrow(p) /\ q = pre_search(QueryClass(p), s)
  BY DEF QueryOK
<1>2. PICK s \in Queries(p, now) : q = pre_search(QueryClass(p), s)
  BY <1>1
<1>3. /\ q.filters = s
      /\ q.min_timestamp = (IF horizon > now THEN horizon ELSE now) - DEALS_EXPIRES
  BY <1>2 DEF pre_search
<1>4. /\ s.origin = p.origin.value
      /\ s.destinations = codes_set(p.destinations)
      /\ s.countries = codes_set(p.destination_countries)
      /\ s.departure = interval(p.departure_date_from, p.departure_date_to)
      /\ s.return = interval(p.return_date_from, p.return_date_to)
      /\ s.departure_weekdays = p.departure_days_of_week.value
      /\ s.return_weekdays = p.return_days_of_week.value
      /\ s.stay = stay_days(p.stay_from, p.stay_to)
      /\ s.direct = p.direct_flights.value
      /\ s.roundtrip = p.roundtrip_flights.value
      /\ s.timestamp = max_lifetime_sec(p.timelimit, now)
      /\ s.exact = p.departure_or_return_date.value
  BY DEF Queries, filter
<1>5. /\ p.origin = p0.origin
      /\ p.destination_countries = p0.destination_countries
      /\ p.departure_date_from = p0.departure_date_from
      /\ p.departure_date_to = p0.departure_date_to
      /\ p.return_date_from = p0.return_date_from
      /\ p.return_date_to = p0.return_date_to
      /\ p.departure_days_of_week = p0.departure_days_of_week
      /\ p.return_days_of_week = p0.return_days_of_week
      /\ p.stay_from = p0.stay_from /\ p.stay_to = p0.stay_to
      /\ p.timelimit = p0.timelimit
      /\ p.direct_flights = p0.direct_flights
      /\ p.roundtrip_flights = p0.roundtrip_flights
      /\ p.departure_or_return_date = p0.departure_or_return_date
  BY LocaleFields
<1>6. ~codes_throw(p.destinations) /\ ~codes_throw(p.destination_countries)
  BY <1>1 DEF SettersThrow
<1>7. ASSUME NEW top, p.destinations = add_codes(p0.destinations, top)
      PROVE  /\ UNION p0.destinations.value \subseteq UNION p.destinations.value
             /\ codes_set(p.destinations) = codes_set(p0.destinations) \cup top
  <2> DEFINE U == UNION p0.destinations.value
  <2>1. CASE top = {}
    BY <1>7, <2>1 DEF add_codes
  <2>2. CASE top # {}
    <3>1. p.destinations.value = {U \cup {{c} : c \in top}}
      BY <1>7, <2>2 DEF add_codes, Defined
    <3> HIDE DEF U
    <3>2. UNION p.destinations.value = U \cup {{c} : c \in top}
      BY <3>1
    <3>3. UNION (U \cup {{c} : c \in top}) = (UNION U) \cup top
      OBVIOUS
    <3>4. codes_set(p.destinations) = (UNION U) \cup top
      BY <3>2, <3>3 DEF codes_set
    <3>5. codes_set(p0.destinations) = UNION U
      BY DEF codes_set, U
    <3> QED BY <3>2, <3>4, <3>5 DEF U
  <2> QED BY <2>1, <2>2
<1> HIDE DEF p0
<1>8. CASE Is(p0.add_locale_top, TRUE)
  <2>1. PICK top \in LocaleTops : p = [p0 EXCEPT !.destinations = add_codes(@, top)]
    BY <1>8 DEF WithLocaleTop
  <2>2. p.destinations = add_codes(p0.destinations, top)
    BY <2>1 DEF p0, TopParams
  <2>3. /\ UNION p0.destinations.value \subseteq UNION p.destinations.value
        /\ codes_set(p.destinations) = codes_set(p0.destinations) \cup top
    BY <1>7, <2>2
  <2>4. ~codes_throw(p0.destinations)
    BY <1>6, <2>3 DEF codes_throw
  <2> QED BY <1>3, <1>4, <1>5, <1>6, <1>8, <2>3, <2>4 DEF p0
<1>9. CASE ~Is(p0.add_locale_top, TRUE)
  <2>1. p = p0
    BY <1>9 DEF WithLocaleTop
  <2> QED BY <1>3, <1>4, <1>5, <1>6, <1>9, <2>1 DEF p0
<1> QED BY <1>8, <1>9

(* The filters let every wanted deal through, unless a lifetime above the   *)
(* clock has wrapped.                                                       *)
LEMMA WantedPasses ==
    ASSUME QueryOK, now \in Nat, horizon \in Nat, NEW d, DealOK(d), Wanted(d),
           \A t \in q.filters.timestamp : ~Above(t, d.timestamp)
    PROVE  Passes(q.filters, q.min_timestamp, d)
<1> DEFINE p == TopParams(request)
           s == q.filters
<1>1. /\ s.origin = p.origin.value
      /\ s.countries = codes_set(p.destination_countries)
      /\ s.departure = interval(p.departure_date_from, p.departure_date_to)
      /\ s.return = interval(p.return_date_from, p.return_date_to)
      /\ s.departure_weekdays = p.departure_days_of_week.value
      /\ s.return_weekdays = p.return_days_of_week.value
      /\ s.stay = stay_days(p.stay_from, p.stay_to)
      /\ s.direct = p.direct_flights.value
      /\ s.roundtrip = p.roundtrip_flights.value
      /\ s.exact = p.departure_or_return_date.value
      /\ q.min_timestamp = (IF horizon > now THEN horizon ELSE now) - DEALS_EXPIRES
  BY QueryFilters
<1>2. IF Is(p.add_locale_top, TRUE)
      THEN \E top \in LocaleTops : s.destinations = codes_set(p.destinations) \cup top
      ELSE s.destinations = codes_set(p.destinations)
  BY QueryFilters
<1>3. /\ d.timestamp > now - DEALS_EXPIRES /\ d.timestamp > horizon - DEALS_EXPIRES
      /\ \A v \in p.origin.value : d.origin = v
      /\ \A v \in p.roundtrip_flights.value : v = (d.return_date # 0)
      /\ \A v \in p.destination_countries.value : {d.destination_country} \in v
      /\ \A v \in p.departure_date_from.value : d.departure_date >= v
      /\ \A v \in p.departure_date_to.value : d.departure_date <= v
      /\ \A v \in p.return_date_from.value : d.return_date >= v
      /\ \A v \in p.return_date_to.value : d.return_date <= v
      /\ \A v \in p.departure_or_return_date.value : v \in {d.departure_date, d.return_date}
      /\ \A v \in p.stay_from.value : d.stay_days >= v
      /\ \A v \in p.stay_to.value : d.stay_days <= v
      /\ \A v \in p.direct_flights.value : v = d.direct
      /\ \A v \in p.departure_days_of_week.value : d.departure_day_of_week \subseteq v
      /\ \A v \in p.return_days_of_week.value : d.return_day_of_week \subseteq v
  BY DEF Wanted
<1>4. \/ isUndefined(p.destinations) /\ ~Is(p.add_locale_top, TRUE)
      \/ /\ Is(p.add_locale_top, TRUE)
         /\ \E top \in LocaleTops :
               /\ s.destinations = codes_set(p.destinations) \cup top
               /\ d.destination \in top \/ (top = {} /\ isUndefined(p.destinations))
      \/ {d.destination} \in UNION p.destinations.value
  BY DEF Wanted
<1>5. /\ d.departure_date \in 0..LastDate /\ d.return_date \in 0..LastDate
      /\ d.stay_days \in 0..UINT8_MAX
      /\ \E w : d.departure_day_of_week = {w}
      /\ \E w : d.return_day_of_week = {w}
  BY DEF DealOK
<1> DEFINE x == d.departure_date
           y == d.return_date
           z == d.stay_days
<1> HIDE DEF p, s, x, y, z
<1>8. d.timestamp > q.min_timestamp
  BY <1>1, <1>3
<1>9. s.origin \subseteq {d.origin}
  BY <1>1, <1>3
<1>10. \A t \in s.timestamp : ~Above(t, d.timestamp)
  BY DEF s
<1>11. \A flag \in s.roundtrip : flag = (d.return_date # 0)
  BY <1>1, <1>3
<1>12. s.destinations # {} => d.destination \in s.destinations
  <2>1. CASE isUndefined(p.destinations) /\ ~Is(p.add_locale_top, TRUE)
    BY <1>2, <2>1 DEF isUndefined, codes_set
  <2>2. CASE \E top : /\ s.destinations = codes_set(p.destinations) \cup top
                      /\ d.destination \in top \/ (top = {} /\ isUndefined(p.destinations))
    BY <2>2 DEF isUndefined, codes_set
  <2>3. CASE {d.destination} \in UNION p.destinations.value
    <3>1. d.destination \in codes_set(p.destinations)
      BY <2>3 DEF codes_set
    <3> QED BY <1>2, <3>1
  <2> QED BY <1>4, <2>1, <2>2, <2>3
<1>13. s.countries # {} => d.destination_country \in s.countries
  BY <1>1, <1>3 DEF codes_set
<1>14. \A i \in s.departure : x >= i.from /\ x <= i.to
  <2> DEFINE from == p.departure_date_from
             to == p.departure_date_to
  <2> SUFFICES ASSUME NEW i \in s.departure PROVE x >= i.from /\ x <= i.to
    OBVIOUS
  <2>1. /\ x \in 0..LastDate
        /\ i.from = (IF isDefined(from) THEN Get(from) ELSE 0)
        /\ i.to = (IF isDefined(to) THEN Get(to) ELSE LastDate)
        /\ \A v \in from.value : x >= v
        /\ \A v \in to.value : x <= v
    BY <1>1, <1>3, <1>5 DEF interval, x
  <2> HIDE DEF from, to
  <2> QED BY <2>1, WithinInterval
<1>15. \A i \in s.return : y >= i.from /\ y <= i.to
  <2> DEFINE from == p.return_date_from
             to == p.return_date_to
  <2> SUFFICES ASSUME NEW i \in s.return PROVE y >= i.from /\ y <= i.to
    OBVIOUS
  <2>1. /\ y \in 0..LastDate
        /\ i.from = (IF isDefined(from) THEN Get(from) ELSE 0)
        /\ i.to = (IF isDefined(to) THEN Get(to) ELSE LastDate)
        /\ \A v \in from.value : y >= v
        /\ \A v \in to.value : y <= v
    BY <1>1, <1>3, <1>5 DEF interval, y
  <2> HIDE DEF from, to
  <2> QED BY <2>1, WithinInterval
<1>16. \A e \in s.exact : d.return_date = e \/ d.departure_date = e
  BY <1>1, <1>3
<1>17. \A i \in s.stay : z >= i.from /\ z <= i.to
  <2> DEFINE from == p.stay_from
             to == p.stay_to
  <2> SUFFICES ASSUME NEW i \in s.stay PROVE z >= i.from /\ z <= i.to
    OBVIOUS
  <2>1. /\ z \in 0..UINT8_MAX
        /\ i.from = (IF isDefined(from) THEN Get(from) ELSE 0)
        /\ i.to = (IF isDefined(to) THEN Get(to) ELSE UINT8_MAX)
        /\ \A v \in from.value : z >= v
        /\ \A v \in to.value : z <= v
    BY <1>1, <1>3, <1>5 DEF stay_days, z
  <2> HIDE DEF from, to
  <2> QED BY <2>1, WithinInterval
<1>18. \A flag \in s.direct : flag = d.direct
  BY <1>1, <1>3
<1>19. /\ \A days_set \in s.departure_weekdays : d.departure_day_of_week \cap days_set # {}
       /\ \A days_set \in s.return_weekdays : d.return_day_of_week \cap days_set # {}
  BY <1>1, <1>3, <1>5
<1> QED BY <1>8, <1>9, <1>10, <1>11, <1>12, <1>13, <1>14, <1>15, <1>16, <1>17,
           <1>18, <1>19 DEF Passes, s, x, y, z

(* A bound of an interval that is given is met inside of the interval. *)
LEMMA InsideBounds ==
    ASSUME NEW from, NEW to, NEW x, NEW last, NEW I,
           \A v \in from.value : Get(from) = v, \A v \in to.value : Get(to) = v,
           I = (IF isUndefined(from) /\ isUndefined(to) THEN {}
                ELSE {[from |-> IF isDefined(from) THEN Get(from) ELSE 0,
                       to |-> IF isDefined(to) THEN Get(to) ELSE last]}),
           \A i \in I : x >= i.from /\ x <= i.to
    PROVE  /\ \A v \in from.value : x >= v
           /\ \A v \in to.value : x <= v
<1>1. ASSUME isDefined(from) \/ isDefined(to)
      PROVE  /\ x >= IF isDefined(from) THEN Get(from) ELSE 0
             /\ x <= IF isDefined(to) THEN Get(to) ELSE last
  <2> DEFINE i == [from |-> IF isDefined(from) THEN Get(from) ELSE 0,
                   to |-> IF isDefined(to) THEN Get(to) ELSE last]
  <2>1. i \in I
    BY <1>1 DEF isDefined, isUndefined
  <2>2. x >= i.from /\ x <= i.to
    BY <2>1
  <2> QED BY <2>2
<1>2. ASSUME NEW v \in from.value PROVE x >= v
  <2>1. isDefined(from) /\ Get(from) = v
    BY DEF isDefined
  <2> QED BY <1>1, <2>1
<1>3. ASSUME NEW v \in to.value PROVE x <= v
  <2>1. isDefined(to) /\ Get(to) = v
    BY DEF isDefined
  <2> QED BY <1>1, <2>1
<1> QED BY <1>2, <1>3

(* And they let nothing else through. *)
LEMMA PassesWanted ==
    ASSUME QueryOK, now \in Nat, horizon \in Nat, NEW d, DealOK(d),
           Passes(q.filters, q.min_timestamp, d)
    PROVE  Wanted(d)
<1> DEFINE p == TopParams(request)
           s == q.filters
<1>1. /\ s.origin = p.origin.value
      /\ s.countries = codes_set(p.destination_countries)
      /\ s.departure = interval(p.departure_date_from, p.departure_date_to)
      /\ s.return = interval(p.return_date_from, p.return_date_to)
      /\ s.departure_weekdays = p.departure_days_of_week.value
      /\ s.return_weekdays = p.return_days_of_week.value
      /\ s.stay = stay_days(p.stay_from, p.stay_to)
      /\ s.direct = p.direct_flights.value
      /\ s.roundtrip = p.roundtrip_flights.value
      /\ s.timestamp = max_lifetime_sec(p.timelimit, now)
      /\ s.exact = p.departure_or_return_date.value
      /\ q.min_timestamp = (IF horizon > now THEN horizon ELSE now) - DEALS_EXPIRES
  BY QueryFilters
<1>2. /\ ~codes_throw(p.destinations) /\ ~codes_throw(p.destination_countries)
      /\ IF Is(p.add_locale_top, TRUE)
         THEN \E top \in LocaleTops : s.destinations = codes_set(p.destinations) \cup top
         ELSE s.destinations = codes_set(p.destinations)
  BY QueryFilters
<1>3. /\ d.timestamp > q.min_timestamp
      /\ s.origin \subseteq {d.origin}
      /\ \A t \in s.timestamp : ~Above(t, d.timestamp)
      /\ \A flag \in s.roundtrip : flag = (d.return_date # 0)
      /\ s.destinations # {} => d.destination \in s.destinations
      /\ s.countries # {} => d.destination_country \in s.countries
      /\ \A i \in s.departure : d.departure_date >= i.from /\ d.departure_date <= i.to
      /\ \A i \in s.return : d.return_date >= i.from /\ d.return_date <= i.to
      /\ \A e \in s.exact : d.return_date = e \/ d.departure_date = e
      /\ \A i \in s.stay : d.stay_days >= i.from /\ d.stay_days <= i.to
      /\ \A flag \in s.direct : flag = d.direct
      /\ \A days_set \in s.departure_weekdays : d.departure_day_of_week \cap days_set # {}
      /\ \A days_set \in s.return_weekdays : d.return_day_of_week \cap days_set # {}
  BY DEF Passes
<1>4. /\ p.destinations = Codes(Iata, request.destinations)
      /\ p.destination_countries = Codes(Country, request.destination_countries)
      /\ p.departure_date_from = Date(request.departure_date_from)
      /\ p.departure_date_to = Date(request.departure_date_to)
      /\ p.return_date_from = Date(request.return_date_from)
      /\ p.return_date_to = Date(request.return_date_to)
      /\ p.stay_from = Number(request.stay_from)
      /\ p.stay_to = Number(request.stay_to)
      /\ p.timelimit = Number(request.timelimit)
  BY DEF TopParams, IATACodes, CountryCodes
<1>5. request.destinations \in Seq(STRING) /\ request.destination_countries \in Seq(STRING)
  BY RequestsAssumption DEF QueryOK
<1> HIDE DEF p, s
<1>6. d.timestamp > now - DEALS_EXPIRES /\ d.timestamp > horizon - DEALS_EXPIRES
  BY <1>1, <1>3, BoundsAssumption DEF DealOK
<1>7. \A v \in p.timelimit.value : d.timestamp + v >= now
  <2> SUFFICES ASSUME NEW v \in p.timelimit.value PROVE d.timestamp + v >= now
    OBVIOUS
  <2>1. ~Above(now - v, d.timestamp)
    BY <1>1, <1>3 DEF max_lifetime_sec
  <2>2. v \in Int /\ d.timestamp \in Nat
    BY <1>4, NumberTypes DEF DealOK
  <2> QED BY <2>1, <2>2 DEF Above
<1>8. \/ isUndefined(p.destinations) /\ ~Is(p.add_locale_top, TRUE)
      \/ /\ Is(p.add_locale_top, TRUE)
         /\ \E top \in LocaleTops :
               /\ s.destinations = codes_set(p.destinations) \cup top
               /\ d.destination \in top \/ (top = {} /\ isUndefined(p.destinations))
      \/ {d.destination} \in UNION p.destinations.value
  <2> DEFINE c == Codes(Iata, request.destinations)
  <2>2. p.destinations = c /\ ~codes_throw(c)
    BY <1>2, <1>4
  <2>3. /\ isDefined(c) => codes_set(c) # {}
        /\ \A x : x \in codes_set(c) <=> {x} \in UNION c.value
    BY <1>5, <2>2, CodesOfList
  <2> HIDE DEF c
  <2>1. /\ isDefined(p.destinations) => codes_set(p.destinations) # {}
        /\ d.destination \in codes_set(p.destinations)
             => {d.destination} \in UNION p.destinations.value
    BY <2>2, <2>3
  <2> QED BY <1>2, <1>3, <2>1 DEF isUndefined, isDefined
<1>9. \A v \in p.destination_countries.value : {d.destination_country} \in v
  <2>1. /\ isDefined(p.destination_countries) => codes_set(p.destination_countries) # {}
        /\ \A x, v : v \in p.destination_countries.value =>
                       (x \in codes_set(p.destination_countries) <=> {x} \in v)
    BY <1>2, <1>4, <1>5, CodesOfList
  <2> QED BY <1>1, <1>3, <2>1 DEF isDefined
<1>10. /\ \A v \in p.departure_date_from.value : d.departure_date >= v
       /\ \A v \in p.departure_date_to.value : d.departure_date <= v
  <2> DEFINE from == p.departure_date_from
             to == p.departure_date_to
             x == d.departure_date
             I == s.departure
  <2>1. /\ \A v \in from.value : Get(from) = v
        /\ \A v \in to.value : Get(to) = v
        /\ I = (IF isUndefined(from) /\ isUndefined(to) THEN {}
                ELSE {[from |-> IF isDefined(from) THEN Get(from) ELSE 0,
                       to |-> IF isDefined(to) THEN Get(to) ELSE LastDate]})
        /\ \A i \in I : x >= i.from /\ x <= i.to
    BY <1>1, <1>3, <1>4, OneValue DEF interval
  <2> HIDE DEF from, to, x, I
  <2>2. (\A v \in from.value : x >= v) /\ (\A v \in to.value : x <= v)
    BY <2>1, InsideBounds
  <2> QED BY <2>2 DEF from, to, x
<1>11. /\ \A v \in p.return_date_from.value : d.return_date >= v
       /\ \A v \in p.return_date_to.value : d.return_date <= v
  <2> DEFINE from == p.return_date_from
             to == p.return_date_to
             x == d.return_date
             I == s.return
  <2>1. /\ \A v \in from.value : Get(from) = v
        /\ \A v \in to.value : Get(to) = v
        /\ I = (IF isUndefined(from) /\ isUndefined(to) THEN {}
                ELSE {[from |-> IF isDefined(from) THEN Get(from) ELSE 0,
                       to |-> IF isDefined(to) THEN Get(to) ELSE LastDate]})
        /\ \A i \in I : x >= i.from /\ x <= i.to
    BY <1>1, <1>3, <1>4, OneValue DEF interval
  <2> HIDE DEF from, to, x, I
  <2>2. (\A v \in from.value : x >= v) /\ (\A v \in to.value : x <= v)
    BY <2>1, InsideBounds
  <2> QED BY <2>2 DEF from, to, x
<1>12. /\ \A v \in p.stay_from.value : d.stay_days >= v
       /\ \A v \in p.stay_to.value : d.stay_days <= v
  <2> DEFINE from == p.stay_from
             to == p.stay_to
             x == d.stay_days
             I == s.stay
  <2>1. /\ \A v \in from.value : Get(from) = v
        /\ \A v \in to.value : Get(to) = v
        /\ I = (IF isUndefined(from) /\ isUndefined(to) THEN {}
                ELSE {[from |-> IF isDefined(from) THEN Get(from) ELSE 0,
                       to |-> IF isDefined(to) THEN Get(to) ELSE UINT8_MAX]})
        /\ \A i \in I : x >= i.from /\ x <= i.to
    BY <1>1, <1>3, <1>4, OneValue DEF stay_days
  <2> HIDE DEF from, to, x, I
  <2>2. (\A v \in from.value : x >= v) /\ (\A v \in to.value : x <= v)
    BY <2>1, InsideBounds
  <2> QED BY <2>2 DEF from, to, x
<1>13. /\ \A v \in p.departure_days_of_week.value : d.departure_day_of_week \subseteq v
       /\ \A v \in p.return_days_of_week.value : d.return_day_of_week \subseteq v
  <2>1. (\E w : d.departure_day_of_week = {w}) /\ (\E w : d.return_day_of_week = {w})
    BY DEF DealOK
  <2> QED BY <1>1, <1>3, <2>1
<1>14. /\ \A v \in p.origin.value : d.origin = v
       /\ \A v \in p.roundtrip_flights.value : v = (d.return_date # 0)
       /\ \A v \in p.departure_or_return_date.value : v \in {d.departure_date, d.return_date}
       /\ \A v \in p.direct_flights.value : v = d.direct
  BY <1>1, <1>3
<1> QED BY <1>6, <1>7, <1>8, <1>9, <1>10, <1>11, <1>12, <1>13, <1>14 DEF Wanted, p, s

(* The group of a deal, told by the query: GroupOf tells the same one by    *)
(* the request, see GroupOfRequest.                                         *)
QueryGroup(d) ==
    IF request.path = "/deals/uniqueRoutes" THEN <<d.origin, d.destination>>
    ELSE IF q.class = "SimplyCheapest" THEN <<d.destination>>
    ELSE IF q.class = "CheapestByCountry" THEN <<d.destination_country>>
    ELSE IF q.filters.exact # {}
    THEN IF d.return_date \in q.filters.exact THEN <<"to", d.departure_date>>
         ELSE <<"from", d.return_date>>
    ELSE IF q.filters.all_combinations THEN <<d.departure_date, d.return_date>>
    ELSE IF q.by_return THEN <<d.return_date>>
    ELSE <<d.departure_date>>

QueryGroups == {QueryGroup(d) : d \in Candidates}

(* Deals of a group have the same key. *)
LEMMA KeyOfGroup ==
    ASSUME request.path = "/deals/uniqueRoutes" \/ QueryOK, NEW d, NEW r,
           QueryGroup(d) = QueryGroup(r)
    PROVE  KeyOf(d) = KeyOf(r)
<1>1. CASE request.path = "/deals/uniqueRoutes"
  BY <1>1 DEF QueryGroup, KeyOf
<1>2. CASE request.path # "/deals/uniqueRoutes"
  <2>1. q.class \in {"SimplyCheapest", "CheapestByDay", "CheapestByCountry"}
    <3>1. PICK p, s : q = pre_search(QueryClass(p), s)
      BY <1>2 DEF QueryOK
    <3>2. q.class = QueryClass(p)
      BY <3>1 DEF pre_search
    <3> QED BY <3>2 DEF QueryClass
  <2>2. CASE q.class \in {"SimplyCheapest", "CheapestByCountry"}
    BY <1>2, <2>2 DEF QueryGroup, KeyOf
  <2>3. CASE q.class = "CheapestByDay"
    <3>1. KeyOf(d) = getDateToGroup(q, d) /\ KeyOf(r) = getDateToGroup(q, r)
      BY <1>2, <2>3 DEF KeyOf
    <3>2. CASE q.filters.exact # {}
      <4>1. \/ d.return_date \in q.filters.exact /\ r.return_date \in q.filters.exact
                 /\ d.departure_date = r.departure_date
            \/ d.return_date \notin q.filters.exact /\ r.return_date \notin q.filters.exact
                 /\ d.return_date = r.return_date
        BY <1>2, <2>3, <3>2 DEF QueryGroup
      <4> QED BY <3>1, <3>2, <4>1 DEF getDateToGroup
    <3>3. CASE q.filters.exact = {} /\ q.filters.all_combinations
      BY <1>2, <2>3, <3>1, <3>3 DEF QueryGroup, getDateToGroup
    <3>4. CASE q.filters.exact = {} /\ ~q.filters.all_combinations
      BY <1>2, <2>3, <3>1, <3>4 DEF QueryGroup, getDateToGroup
    <3> QED BY <3>2, <3>3, <3>4
  <2> QED BY <2>1, <2>2, <2>3
<1> QED BY <1>1, <1>2

-----------------------------------------------------------------------------
(* The search from its begin to its answer                                  *)

(* As long as a request is served, what is asked of its groups is the same. *)
LEMMA SameQuery ==
    ASSUME UNCHANGED <<now, horizon, store, request, q>>
    PROVE  /\ QueryOK => QueryOK'
           /\ GroupsOK(hist', pos') => GroupsOK(hist, pos)'
           /\ TimeOrdered' = TimeOrdered
<1>1. QueryOK => QueryOK'
  BY DEF QueryOK, pre_search
<1>2. TimeOrdered' = TimeOrdered
  BY DEF TimeOrdered
<1>3. GroupsOK(hist', pos') => GroupsOK(hist, pos)'
  BY <1>2 DEF GroupsOK, KeyOf, Met
<1> QED BY <1>1, <1>2, <1>3

(* No search has begun. *)
LEMMA SearchInit == Init => SearchInv
  BY DEF Init, SearchInv, Searching, NoReply

(* Every step keeps what is known of the search. *)
LEMMA SearchNext == QueryInv /\ [Next]_vars => SearchInv'
<1> SUFFICES ASSUME QueryInv, [Next]_vars PROVE SearchInv'
  OBVIOUS
<1> USE DEF QueryInv
<1>1. CASE UNCHANGED vars
  <2>1. UNCHANGED <<now, horizon, store, phase, request, q, pos, hist, result, reply>>
    BY <1>1 DEF vars
  <2>2. GroupsOK(hist, pos) => GroupsOK(hist, pos)'
    BY <2>1, SameQuery
  <2> DEFINE List == \E s \in Sorted(q, {findCheapestAndLast(hist[k]) : k \in DOMAIN hist}) :
                       result = SubSeq(s, 1, Smaller(Len(s), q.limit))
  <2>3. List => List'
    BY <2>1
  <2>4. reply = writeTopResult(result) => reply' = writeTopResult(result')
    BY <2>1
  <2>5. (QueryOK => QueryOK') /\ TimeOrdered' = TimeOrdered
    BY <2>1, SameQuery
  <2>6. Searching' = Searching
    BY <2>1 DEF Searching
  <2> QED BY <2>1, <2>2, <2>3, <2>4, <2>5, <2>6 DEF SearchInv
<1>2. ASSUME phase = "idle", UNCHANGED <<phase, request, q, hist, result>> PROVE SearchInv'
  BY <1>2 DEF SearchInv, Searching
<1>3. CASE Tick
  BY <1>2, <1>3 DEF Tick
<1>4. ASSUME NEW r, addDeal(r) PROVE SearchInv'
  BY <1>2, <1>4 DEF addDeal
<1>5. ASSUME NEW r, NEW status \in {400, 500}, Refuse(r, status) PROVE SearchInv'
  BY <1>5 DEF Refuse, SearchInv, Searching
<1>6. \A e : ErrorStatus(e) \in {400, 500}
  BY DEF ErrorStatus
<1>7. ASSUME NEW r, addDealThrows(r) PROVE SearchInv'
  BY <1>5, <1>6, <1>7 DEF addDealThrows
<1>8. ASSUME NEW r, NEW query, BeginScan(r, query), r.path = "/deals/top" => QueryOK'
      PROVE  SearchInv'
  <2>1. GroupsOK(hist, pos)'
    <3>1. hist' = <<>> /\ pos' = 0
      BY <1>8 DEF BeginScan
    <3>2. (DOMAIN hist = {})' /\ (\A j \in 1..pos : FALSE)'
      BY <3>1
    <3> QED BY <3>2, FS_EmptySet DEF GroupsOK
  <2> QED BY <1>8, <2>1 DEF BeginScan, SearchInv, Searching
<1>9. ASSUME NEW r \in TopRequests, getTop(r) PROVE SearchInv'
  <2>1. PICK p \in WithLocaleTop(TopParams(r)) :
          /\ ~BadDates(TopParams(r)) /\ ~SettersThrow(p)
          /\ \E s \in Queries(p, now) : /\ ~pre_searchThrows(QueryClass(p), s)
                                        /\ BeginScan(r, pre_search(QueryClass(p), s))
    BY <1>9 DEF getTop
  <2>2. PICK s \in Queries(p, now) : /\ ~pre_searchThrows(QueryClass(p), s)
                                     /\ BeginScan(r, pre_search(QueryClass(p), s))
    BY <2>1
  <2>3. request' = r /\ q' = pre_search(QueryClass(p), s) /\ UNCHANGED <<now, horizon>>
    BY <2>2 DEF BeginScan
  <2>4. q' = pre_search(QueryClass(p), s)'
    BY <2>3 DEF pre_search
  <2>5. QueryOK'
    BY <2>1, <2>2, <2>3, <2>4 DEF QueryOK
  <2> QED BY <1>8, <2>2, <2>5
<1>10. ASSUME NEW r, getTopThrows(r) PROVE SearchInv'
  BY <1>5, <1>6, <1>10 DEF getTopThrows
<1>11. CASE getUniqueRoutes \/ getStats
  BY <1>8, <1>11 DEF getUniqueRoutes, getStats
<1>12. CASE process_element \/ process_route
  <2>1. /\ phase = "scan" /\ phase' = "scan" /\ request.path \in Grouped
        /\ UNCHANGED <<now, horizon, store, request, q>>
    BY <1>12 DEF process_element, process_route, Scanned, Grouped
  <2>2. GroupsOK(hist, pos) /\ (request.path = "/deals/top" => QueryOK)
    BY <2>1 DEF SearchInv, Searching
  <2>3. GroupsOK(hist, pos)'
    BY <1>12, <2>1, <2>2, GroupsStep, SameQuery
  <2> QED BY <2>1, <2>2, <2>3, SameQuery DEF SearchInv, Searching
<1>13. CASE process_stats
  <2>1. phase' = "scan" /\ request'.path = "/deals/stats"
    BY <1>13 DEF process_stats, Scanned
  <2> QED BY <2>1 DEF SearchInv, Grouped
<1>14. CASE AnswerTop \/ AnswerRoutes
  <2>1. /\ phase = "scan" /\ phase' = "answered" /\ pos = Len(store)
        /\ request.path \in Grouped
        /\ UNCHANGED <<now, horizon, store, request, q, pos, hist>>
    BY <1>14 DEF AnswerTop, AnswerRoutes, Grouped
  <2>2. GroupsOK(hist, pos) /\ (request.path = "/deals/top" => QueryOK)
    BY <2>1 DEF SearchInv, Searching
  <2>3. GroupsOK(hist, pos)'
    BY <2>1, <2>2, SameQuery
  <2>4. AnswerTop => q # Fresh
    <3>1. AnswerTop => QueryOK
      BY <2>2 DEF AnswerTop
    <3>2. QueryOK => q # Fresh
      BY DEF QueryOK, pre_search, Fresh
    <3> QED BY <3>1, <3>2
  <2>5. TimeOrdered => \A i \in DOMAIN result' : \E k \in DOMAIN hist : result'[i] = Last(hist[k])
    BY <1>14, <2>2, <2>4, AnswersAreLast
  <2>6. TimeOrdered' =>
          \A i \in DOMAIN result' : \E k \in DOMAIN hist' : result'[i] = Last(hist'[k])
    BY <2>1, <2>5, SameQuery
  <2>7. ASSUME request'.path = "/deals/top"
        PROVE  /\ Len(result') \in Nat /\ reply' = writeTopResult(result')
               /\ \E s \in Sorted(q', {findCheapestAndLast(hist'[k]) : k \in DOMAIN hist'}) :
                    result' = SubSeq(s, 1, Smaller(Len(s), q'.limit))
    <3>1. AnswerTop
      BY <1>14, <2>1, <2>7 DEF AnswerRoutes
    <3> DEFINE S == {findCheapestAndLast(hist[k]) : k \in DOMAIN hist}
    <3>2. result' \in Seq(S)
      BY <2>2, <2>4, <3>1, AnswerOfTop
    <3> HIDE DEF S
    <3>3. Len(result') \in Nat
      BY <3>2, LenProperties
    <3>4. \E s \in Sorted(q, S) : result' = SubSeq(s, 1, Smaller(Len(s), q.limit))
      BY <3>1 DEF AnswerTop, S
    <3>5. q' = q /\ S = {findCheapestAndLast(hist'[k]) : k \in DOMAIN hist'}
      BY <2>1 DEF S
    <3> QED BY <3>1, <3>3, <3>4, <3>5 DEF AnswerTop
  <2> QED BY <2>1, <2>2, <2>3, <2>6, <2>7, SameQuery DEF SearchInv, Searching
<1>15. CASE AnswerStats
  <2>1. /\ phase' = "answered" /\ request'.path = "/deals/stats"
        /\ pos' = pos /\ store' = store /\ pos = Len(store)
    BY <1>15 DEF AnswerStats
  <2> QED BY <2>1 DEF SearchInv, Grouped
<1>16. CASE Close
  BY <1>16 DEF Close, SearchInv, Searching
<1> QED BY <1>1, <1>3, <1>4, <1>7, <1>9, <1>10, <1>11, <1>12, <1>13, <1>14, <1>15, <1>16
        DEF Next

(* Every step keeps the whole invariant. *)
LEMMA QueryInvNext == QueryInv /\ [Next]_vars => QueryInv'
  BY TypesNext, SearchNext DEF QueryInv

(* The invariant says that no deal beats an answer of its group. *)
QueryNewest ==
    Answered(Grouped) /\ TimeOrdered =>
        \A i \in DOMAIN result, d \in Candidates :
            QueryGroup(d) = QueryGroup(result[i]) /\ d.timestamp > result[i].timestamp =>
                d.price > result[i].price /\ ~equal(d, result[i])

(* ... and that is so in every state of the program. *)
LEMMA AnswersHold == QueryInv => QueryNewest
<1> SUFFICES ASSUME QueryInv, Answered(Grouped), TimeOrdered,
                    NEW i \in DOMAIN result, NEW d \in Candidates,
                    QueryGroup(d) = QueryGroup(result[i]), d.timestamp > result[i].timestamp
             PROVE  d.price > result[i].price /\ ~equal(d, result[i])
  BY DEF QueryNewest
<1>1. /\ TypesInv /\ StoreOK /\ Searching /\ phase = "answered" /\ request.path \in Grouped
      /\ pos = Len(store)
  BY DEF QueryInv, SearchInv, TypesInv, Searching, Answered
<1>2. /\ GroupsOK(hist, pos) /\ (request.path = "/deals/top" => QueryOK)
      /\ \E k \in DOMAIN hist : result[i] = Last(hist[k])
  BY <1>1 DEF QueryInv, SearchInv
<1>3. PICK k \in DOMAIN hist : result[i] = Last(hist[k])
  BY <1>2
<1>4. pos \in Nat /\ DOMAIN store = 1..pos /\ \A j \in 1..pos : DealOK(store[j])
  BY <1>1, StoreElements
<1>5. PICK jr \in 1..pos : result[i] = store[jr] /\ KeyOf(store[jr]) = k /\ Met(store[jr])
  BY <1>2, <1>3, <1>4, LastOfGroup
<1>6. PICK j \in 1..pos : d = store[j] /\ (request.path = "/deals/top" => Wanted(store[j]))
  BY <1>4 DEF Candidates
<1>7. now \in Nat /\ horizon \in Nat
  BY <1>1, BoundsAssumption DEF TypesInv, TypeOK, StoreOK
<1>8. Met(d)
  <2> SUFFICES ASSUME request.path = "/deals/top" PROVE Passes(q.filters, q.min_timestamp, d)
    BY DEF Met
  <2>1. Passes(q.filters, q.min_timestamp, store[jr])
    BY <1>5 DEF Met
  <2>2. DealOK(d) /\ Wanted(d) /\ DealOK(store[jr])
    BY <1>4, <1>6
  <2>3. ASSUME NEW t \in q.filters.timestamp PROVE ~Above(t, d.timestamp)
    <3>1. ~Above(t, store[jr].timestamp)
      BY <2>1 DEF Passes
    <3>2. PICK v \in TopParams(request).timelimit.value : t = now - v
      BY <1>2, QueryFilters DEF max_lifetime_sec
    <3>3. v \in Int /\ d.timestamp + v >= now
      BY <2>2, NumberTypes DEF Wanted, TopParams
    <3>4. d.timestamp \in Nat /\ store[jr].timestamp \in Nat
      BY <2>2 DEF DealOK
    <3> QED BY <1>7, <3>1, <3>2, <3>3, <3>4 DEF Above
  <2> QED BY <1>2, <1>7, <2>2, <2>3, WantedPasses
<1>9. KeyOf(d) = k
  <2>1. request.path = "/deals/uniqueRoutes" \/ QueryOK
    BY <1>1, <1>2 DEF Grouped
  <2>2. QueryGroup(d) = QueryGroup(store[jr])
    BY <1>5
  <2> QED BY <1>5, <2>1, <2>2, KeyOfGroup
<1>10. NotBetter(d, Last(hist[k]))
  BY <1>2, <1>6, <1>8, <1>9 DEF GroupsOK
<1> QED BY <1>3, <1>10 DEF NotBetter

-----------------------------------------------------------------------------
(* The sizes in front of an answer                                          *)

(* Among numbers there is a least one: what induction needs. *)
LEMMA LeastNumber ==
    ASSUME NEW T, T \subseteq Nat, T # {}
    PROVE  \E x \in T : \A y \in T : x <= y
<1> DEFINE R == {ss \in Nat \X Nat : ss[1] < ss[2]}
<1>1. IsWellFoundedOn(R, Nat)
  BY NatLessThanWellFounded DEF OpToRel
<1>2. PICK x \in T : \A y \in T : ~(<<y, x>> \in R)
  <2> HIDE DEF R
  <2> QED BY <1>1, WFMin
<1>3. \A y \in T : ~(y < x)
  BY <1>2
<1> QED BY <1>3

(* A number of digits is a number, whatever it is the digits of. *)
LEMMA DigitsIsNat == ASSUME NEW n PROVE Digits(n) \in Nat
<1> DEFINE S == {k \in 0..9 : 10^k <= n}
<1>1. S \in SUBSET (0..9) /\ IsFiniteSet(0..9)
  <2>1. 0 \in Int /\ 9 \in Int
    OBVIOUS
  <2>2. IsFiniteSet(0..9)
    BY <2>1, FS_Interval, Zenon
  <2> QED BY <2>2, Zenon
<1>2. Digits(n) = IF n = 0 THEN 1 ELSE Cardinality(S)
  BY DEF Digits
<1> HIDE DEF S
<1>3. IsFiniteSet(S)
  BY <1>1, FS_Subset
<1>4. Cardinality(S) \in Nat
  BY <1>3, FS_CardinalityType
<1> QED BY <1>2, <1>4

(* The length of a list of sizes is a number. *)
LEMMA SizesLengthIsNat == ASSUME NEW deals, Len(deals) \in Nat PROVE SizesLength(deals) \in Nat
<1> DEFINE L == Len(deals)
           g == [n \in 1..L |-> Digits(deals[n].size) + 1]
           Sums(n) == {f \in [0..n -> Nat] : f[0] = 0 /\ \A m \in 1..n : f[m] = f[m - 1] + g[m]}
           Step(f) == [n \in 0..L |-> IF n = 0 THEN 0 ELSE f[n - 1] + Digits(deals[n].size) + 1]
           sum == CHOOSE f : f = Step(f)
<1>1. L \in Nat /\ \A n \in 1..L : g[n] \in Nat
  BY DigitsIsNat
<1>2. Sums(L) # {}
  <2> DEFINE T == {n \in 0..L : Sums(n) = {}}
  <2> SUFFICES ASSUME T # {} PROVE FALSE
    <3>1. L \in 0..L
      BY <1>1
    <3> HIDE DEF Sums
    <3> QED BY <3>1
  <2>1. T \subseteq Nat
    BY <1>1
  <2>2. PICK x \in T : \A y \in T : x <= y
    <3> HIDE DEF T
    <3> QED BY <2>1, LeastNumber
  <2>3. x # 0
    <3>1. [i \in 0..0 |-> 0] \in Sums(0)
      OBVIOUS
    <3> QED BY <3>1
  <2>4. x \in 1..L /\ x - 1 \in 0..L /\ x - 1 \notin T
    <3>1. x \in 0..L /\ x \in Nat
      BY <2>1
    <3> HIDE DEF T
    <3> QED BY <1>1, <2>2, <2>3, <3>1
  <2>5. PICK f : f \in Sums(x - 1)
    BY <2>4
  <2> DEFINE f2 == [i \in 0..x |-> IF i = x THEN f[x - 1] + g[x] ELSE f[i]]
  <2> HIDE DEF g, T
  <2>6. /\ f \in [0..(x - 1) -> Nat] /\ f[0] = 0
        /\ \A m \in 1..(x - 1) : f[m] = f[m - 1] + g[m]
    BY <2>5
  <2>7. f2 \in [0..x -> Nat] /\ f2[0] = 0
    BY <1>1, <2>4, <2>6
  <2>8. ASSUME NEW m \in 1..x PROVE f2[m] = f2[m - 1] + g[m]
    <3>1. CASE m = x
      BY <2>4, <3>1
    <3>2. CASE m # x
      <4>1. m \in 1..(x - 1) /\ m \in 0..x /\ m - 1 \in 0..x /\ m - 1 # x
        BY <2>4, <3>2
      <4> QED BY <2>6, <3>2, <4>1
    <3> QED BY <3>1, <3>2
  <2>9. f2 \in Sums(x)
    BY <2>7, <2>8
  <2> QED BY <2>2, <2>9 DEF T
<1>3. PICK f : f \in Sums(L)
  BY <1>2
<1>4. f = Step(f)
  <2>1. f \in [0..L -> Nat] /\ f[0] = 0 /\ \A m \in 1..L : f[m] = f[m - 1] + g[m]
    BY <1>3
  <2>2. ASSUME NEW n \in 0..L
        PROVE  f[n] = IF n = 0 THEN 0 ELSE f[n - 1] + Digits(deals[n].size) + 1
    <3>1. CASE n = 0
      BY <2>1, <3>1
    <3>2. CASE n # 0
      <4>1. n \in 1..L /\ n - 1 \in 0..L
        BY <1>1, <3>2
      <4>2. f[n] = f[n - 1] + (Digits(deals[n].size) + 1) /\ f[n - 1] \in Nat
        BY <2>1, <4>1
      <4> QED BY <3>2, <4>2, DigitsIsNat
    <3> QED BY <3>1, <3>2
  <2> QED BY <2>1, <2>2
<1>5. sum = Step(sum)
  BY <1>4
<1>6. \A n \in 0..L : sum[n] = IF n = 0 THEN 0 ELSE sum[n - 1] + Digits(deals[n].size) + 1
  <2> HIDE DEF sum
  <2> QED BY <1>5
<1>7. SizesLength(deals) = sum[L]
  BY DEF SizesLength
<1> HIDE DEF sum, L
<1>8. \A n \in 0..L : sum[n] \in Nat
  <2> DEFINE T == {n \in 0..L : sum[n] \notin Nat}
  <2> SUFFICES ASSUME T # {} PROVE FALSE
    OBVIOUS
  <2>1. T \subseteq Nat
    BY <1>1
  <2>2. PICK x \in T : \A y \in T : x <= y
    <3> HIDE DEF T
    <3> QED BY <2>1, LeastNumber
  <2>3. x # 0
    BY <1>1, <1>6
  <2>4. x \in 0..L /\ x - 1 \in 0..L /\ x - 1 \notin T
    BY <1>1, <2>1, <2>2, <2>3
  <2>5. sum[x - 1] \in Nat /\ sum[x] = sum[x - 1] + Digits(deals[x].size) + 1
    BY <1>6, <2>3, <2>4
  <2> QED BY <2>2, <2>5, DigitsIsNat
<1> QED BY <1>1, <1>7, <1>8

(* The powers of ten that Digits() compares with. *)
Power == [k \in 0..9 |-> 10^k]

(* Their values. *)
LEMMA PowersOfTen ==
    /\ Power[0] = 1 /\ Power[1] = 10 /\ Power[2] = 100 /\ Power[3] = 1000
    /\ Power[4] = 10000 /\ Power[5] = 100000 /\ Power[6] = 1000000
    /\ Power[7] = 10000000 /\ Power[8] = 100000000 /\ Power[9] = 1000000000
  BY SMT DEF Power

(* They are the powers. *)
LEMMA PowerOfTen == \A k \in 0..9 : Power[k] = 10^k
  BY DEF Power

(* They grow. *)
LEMMA PowersGrow == \A j, k \in 0..9 : /\ Power[j] \in Nat /\ Power[j] > 0
                                       /\ j < k => Power[j] < Power[k]
  BY PowersOfTen, SMT

(* Digits() counts: a number from 10^j on, and below the next power, has   *)
(* j + 1 digits; all numbers from 10^9 on count as ten.                     *)
LEMMA DigitsBetween ==
    ASSUME NEW n \in Nat, NEW j \in 0..9, n >= Power[j], j < 9 => n < Power[j + 1]
    PROVE  Digits(n) = j + 1
<1>1. \A k \in 0..9 : k <= j => Power[k] <= n
  BY PowersGrow, SMT
<1>2. \A k \in 0..9 : k > j => ~(Power[k] <= n)
  <2> SUFFICES ASSUME NEW k \in 0..9, k > j PROVE ~(Power[k] <= n)
    OBVIOUS
  <2>1. j + 1 \in 0..9 /\ (k = j + 1 \/ k > j + 1) /\ n < Power[j + 1]
    OBVIOUS
  <2> QED BY <2>1, PowersGrow, SMT
<1>3. {k \in 0..9 : Power[k] <= n} = 0..j
  <2>1. \A k : k \in 0..j <=> k \in 0..9 /\ k <= j
    OBVIOUS
  <2>2. \A k \in 0..9 : k <= j \/ k > j
    OBVIOUS
  <2> QED BY <1>1, <1>2, <2>1, <2>2, Zenon
<1>4. {k \in 0..9 : Power[k] <= n} = {k \in 0..9 : 10^k <= n}
  BY PowerOfTen, Zenon
<1>5. Cardinality(0..j) = j + 1
  BY FS_Interval
<1>6. n # 0
  BY PowersGrow, SMT
<1>7. Digits(n) = Cardinality({k \in 0..9 : 10^k <= n})
  BY <1>6 DEF Digits
<1> QED BY <1>3, <1>4, <1>5, <1>7

(* Every number but zero lies between two powers, or has ten digits. *)
LEMMA BetweenPowers ==
    ASSUME NEW n \in Nat, n # 0
    PROVE  \E j \in 0..9 : n >= Power[j] /\ (j < 9 => n < Power[j + 1])
<1>1. ASSUME NEW j \in 0..8, n < Power[j + 1], n >= Power[j]
      PROVE  \E i \in 0..9 : n >= Power[i] /\ (i < 9 => n < Power[i + 1])
  BY <1>1
<1>2. CASE n >= Power[9]
  BY <1>2
<1>3. n >= Power[0]
  BY PowersOfTen, SMT
<1>4. CASE n < Power[5]
  BY <1>1, <1>3, <1>4, PowersOfTen, SMT
<1>5. CASE n >= Power[5] /\ n < Power[9]
  BY <1>1, <1>5, PowersOfTen, SMT
<1> QED BY <1>2, <1>4, <1>5, PowersOfTen, SMT

(* The number that writeTopResult() writes first counts itself, those       *)
(* lengths included that its own digits carry over a power of ten.          *)
LEMMA SizeInfoIsExact ==
    ASSUME NEW len \in Nat
    PROVE  SizeInfo(len) = Digits(SizeInfo(len)) + 1 + len
<1>1. CASE len = 0
  <2>1. Digits(0) = 1
    BY DEF Digits
  <2>2. Digits(2) = 1
    <3>1. 2 >= Power[0] /\ 2 < Power[0 + 1]
      BY PowersOfTen, SMT
    <3> QED BY <3>1, DigitsBetween
  <2> QED BY <1>1, <2>1, <2>2 DEF SizeInfo
<1>2. CASE len # 0
  <2>1. PICK j \in 0..9 : len >= Power[j] /\ (j < 9 => len < Power[j + 1])
    BY <1>2, BetweenPowers
  <2>2. Digits(len) = j + 1
    BY <2>1, DigitsBetween
  <2> DEFINE m == len + (j + 1) + 1
  <2>3. m \in Nat /\ m + 1 \in Nat /\ m > len /\ m <= len + 11
    OBVIOUS
  <2>4. Power[j] \in Nat
    BY PowersGrow
  <2>5. CASE j = 9 \/ m < Power[j + 1]
    <3>1. m >= Power[j] /\ (j < 9 => m < Power[j + 1])
      BY <2>1, <2>3, <2>4, <2>5
    <3> HIDE DEF m
    <3>2. Digits(m) = j + 1
      BY <2>3, <3>1, DigitsBetween
    <3>3. SizeInfo(len) = m
      BY <2>2, <3>2 DEF SizeInfo, m
    <3> QED BY <3>2, <3>3 DEF m
  <2>6. CASE j # 9 /\ ~(m < Power[j + 1])
    <3>1. /\ j + 1 \in 0..9 /\ j < 9
          /\ Power[j + 1] \in Nat
          /\ j + 1 < 9 => Power[(j + 1) + 1] \in Nat /\ Power[j + 1] + 12 <= Power[(j + 1) + 1]
      BY <2>6, PowersOfTen, SMT
    <3>2. /\ m >= Power[j + 1] /\ m + 1 >= Power[j + 1]
          /\ j + 1 < 9 => m < Power[(j + 1) + 1] /\ m + 1 < Power[(j + 1) + 1]
      BY <2>1, <2>3, <2>6, <3>1
    <3> HIDE DEF m
    <3>3. Digits(m) = j + 2 /\ Digits(m + 1) = j + 2
      <4>1. Digits(m) = (j + 1) + 1
        BY <2>3, <3>1, <3>2, DigitsBetween
      <4>2. Digits(m + 1) = (j + 1) + 1
        BY <2>3, <3>1, <3>2, DigitsBetween
      <4> QED BY <4>1, <4>2
    <3>4. SizeInfo(len) = m + 1
      BY <2>2, <3>3 DEF SizeInfo, m
    <3> QED BY <3>3, <3>4 DEF m
  <2> QED BY <2>5, <2>6
<1> QED BY <1>1, <1>2


(***************************************************************************)
(* The first number of an answer to /deals/top is the length of the list   *)
(* of sizes with the number itself and its semicolon, for every number of  *)
(* deals and every size: writeTopResult() measures the number before it is *)
(* added and corrects for the digit that the addition may carry.           *)
(***************************************************************************)
THEOREM SizesAreExact == Spec => []SizeInfoCountsItself
<1>1. Init => QueryInv
  BY TypesInit, SearchInit DEF QueryInv
<1>2. QueryInv => SizeInfoCountsItself
  <2> SUFFICES ASSUME QueryInv, Answered({"/deals/top"}), result # <<>>
               PROVE  reply.size_info = Digits(reply.size_info) + 1 + SizesLength(result)
    BY DEF SizeInfoCountsItself
  <2>1. Len(result) \in Nat /\ reply = writeTopResult(result)
    BY DEF QueryInv, SearchInv, Searching, Answered
  <2>2. reply.size_info = SizeInfo(SizesLength(result))
    BY <2>1 DEF writeTopResult
  <2>3. SizesLength(result) \in Nat
    BY <2>1, SizesLengthIsNat
  <2> QED BY <2>2, <2>3, SizeInfoIsExact
<1> QED BY <1>1, <1>2, QueryInvNext, PTL DEF Spec

-----------------------------------------------------------------------------
(* One answer for every group                                               *)

(* What a loop finds that goes down from m while m is in C. *)
Loops(N, C, T, g) ==
    {f \in [0..N -> T] : \A m \in 0..N : f[m] = IF m \in C THEN f[m - 1] ELSE g[m]}

(* It ends at a place that is not in C. *)
LEMMA LoopEnds ==
    ASSUME NEW N \in Nat, NEW C \in SUBSET (1..N), NEW T, NEW g \in [0..N -> T]
    PROVE  Loops(N, C, T, g) # {}
<1> DEFINE Ends(n) == {f \in [0..n -> T] :
                          \A m \in 0..n : f[m] = IF m \in C THEN f[m - 1] ELSE g[m]}
           B == {n \in 0..N : Ends(n) = {}}
<1>1. B = {}
  <2> SUFFICES ASSUME B # {} PROVE FALSE
    OBVIOUS
  <2>1. B \subseteq Nat
    OBVIOUS
  <2>2. PICK x \in B : \A y \in B : x <= y
    <3> HIDE DEF B
    <3> QED BY <2>1, LeastNumber
  <2>3. x # 0
    <3>1. [i \in 0..0 |-> g[0]] \in Ends(0)
      OBVIOUS
    <3> QED BY <3>1
  <2>4. x \in 1..N /\ x - 1 \in 0..N /\ x - 1 \notin B
    <3>1. x \in 0..N /\ x \in Nat
      OBVIOUS
    <3> HIDE DEF B
    <3> QED BY <2>2, <2>3, <3>1
  <2>5. PICK f : f \in Ends(x - 1)
    BY <2>4
  <2> DEFINE f2 == [i \in 0..x |-> IF i = x THEN IF x \in C THEN f[x - 1] ELSE g[x] ELSE f[i]]
  <2> HIDE DEF B
  <2>6. /\ f \in [0..(x - 1) -> T]
        /\ \A m \in 0..(x - 1) : f[m] = IF m \in C THEN f[m - 1] ELSE g[m]
    BY <2>5
  <2>7. f2 \in [0..x -> T]
    BY <2>4, <2>6
  <2>8. ASSUME NEW m \in 0..x PROVE f2[m] = IF m \in C THEN f2[m - 1] ELSE g[m]
    <3>1. CASE m = x
      BY <2>4, <3>1
    <3>2. CASE m # x
      <4>1. m \in 0..(x - 1) /\ m \in 0..x /\ (m \in C => m - 1 \in 0..x /\ m - 1 # x)
        BY <2>4, <3>2
      <4>2. f2[m] = f[m] /\ (m \in C => f2[m - 1] = f[m - 1])
        BY <3>2, <4>1
      <4> QED BY <2>6, <4>1, <4>2
    <3> QED BY <3>1, <3>2
  <2>9. f2 \in Ends(x)
    BY <2>7, <2>8
  <2> QED BY <2>2, <2>9 DEF B
<1>2. N \in 0..N
  OBVIOUS
<1>3. PICK f : f \in Ends(N)
  BY <1>1, <1>2
<1> QED BY <1>3 DEF Loops

(* findCheapestAndLast() takes a deal of the history. *)
LEMMA TakenFromHistory ==
    ASSUME NEW T, NEW h \in Seq(T), h # <<>>
    PROVE  \E i \in 1..Len(h) : findCheapestAndLast(h) = h[i]
<1> DEFINE n == Len(h)
           N == n - 2
           More(m) == \E i \in 2..m : Outdates(h[i], h[m + 2])
           C == {m \in 0..N : More(m)}
           g == [m \in 0..N |-> h[m + 2]]
           S == {h[i] : i \in 1..n}
           Step(f) == [m \in 0..N |-> IF More(m) THEN f[m - 1] ELSE h[m + 2]]
           retry == CHOOSE f : f = Step(f)
<1>1. n \in Nat /\ n >= 1 /\ n \in 1..n
  BY LenProperties, EmptySeq
<1>2. findCheapestAndLast(h)
        = IF \E i \in 1..(n - 1) : Outdates(h[i], h[n]) THEN retry[n - 2] ELSE h[n]
  BY DEF findCheapestAndLast
<1>3. CASE ~\E i \in 1..(n - 1) : Outdates(h[i], h[n])
  BY <1>1, <1>2, <1>3
<1>4. CASE \E i \in 1..(n - 1) : Outdates(h[i], h[n])
  <2>1. N \in Nat
    <3>1. PICK i \in 1..(n - 1) : TRUE
      BY <1>4
    <3> QED BY <1>1, <3>1
  <2>2. \A m \in 0..N : g[m] = h[m + 2] /\ h[m + 2] \in S
    BY <1>1, <2>1
  <2>3. C \in SUBSET (1..N) /\ 0 \notin C
    BY <2>1
  <2>4. \A m \in 0..N : m \in C <=> More(m)
    OBVIOUS
  <2> HIDE DEF More, S, g, C
  <2>5. Loops(N, C, S, g) # {}
    <3>1. g \in [0..N -> S]
      BY <2>2 DEF g
    <3> HIDE DEF N
    <3> QED BY <2>1, <2>3, <3>1, LoopEnds
  <2>6. \E f : f = Step(f)
    <3>1. PICK f \in [0..N -> S] : \A m \in 0..N : f[m] = IF m \in C THEN f[m - 1] ELSE g[m]
      BY <2>5 DEF Loops
    <3>2. f = Step(f)
      BY <2>2, <2>4, <3>1
    <3> QED BY <3>2
  <2>7. retry = Step(retry)
    BY <2>6
  <2> HIDE DEF retry
  <2>8. \A m \in 0..N : retry[m] = IF m \in C THEN retry[m - 1] ELSE h[m + 2]
    BY <2>4, <2>7
  <2>9. \A m \in 0..N : retry[m] \in S
    <3> DEFINE B == {m \in 0..N : retry[m] \notin S}
    <3> SUFFICES ASSUME B # {} PROVE FALSE
      OBVIOUS
    <3>1. B \subseteq Nat
      BY <2>1
    <3>2. PICK x \in B : \A y \in B : x <= y
      <4> HIDE DEF B
      <4> QED BY <3>1, LeastNumber
    <3>3. x \in 0..N /\ x \in C /\ x # 0
      BY <2>2, <2>3, <2>8
    <3>4. x - 1 \in 0..N /\ x - 1 \notin B
      BY <2>1, <3>1, <3>2, <3>3
    <3> QED BY <2>8, <3>2, <3>3, <3>4
  <2>10. N \in 0..N
    BY <2>1
  <2>11. findCheapestAndLast(h) = retry[N]
    BY <1>2, <1>4
  <2> QED BY <2>9, <2>10, <2>11 DEF S
<1> QED BY <1>3, <1>4

(* The powers of two by which Word() takes a number apart. *)
Two == [k \in 0..27 |-> 2^k]

(* Their values, as far as keys depend on them. *)
LEMMA PowersOfTwo ==
    /\ Two[0] = 1 /\ Two[14] = 16384 /\ Two[27] = 134217728
    /\ \A k \in 0..26 : Two[k] \in Nat /\ Two[k] > 0 /\ Two[k + 1] = 2 * Two[k]
<1>1. /\ Two[0] = 1 /\ Two[1] = 2 /\ Two[2] = 4 /\ Two[3] = 8 /\ Two[4] = 16
      /\ Two[5] = 32 /\ Two[6] = 64 /\ Two[7] = 128 /\ Two[8] = 256 /\ Two[9] = 512
      /\ Two[10] = 1024 /\ Two[11] = 2048 /\ Two[12] = 4096 /\ Two[13] = 8192
      /\ Two[14] = 16384 /\ Two[15] = 32768 /\ Two[16] = 65536 /\ Two[17] = 131072
      /\ Two[18] = 262144 /\ Two[19] = 524288 /\ Two[20] = 1048576 /\ Two[21] = 2097152
      /\ Two[22] = 4194304 /\ Two[23] = 8388608 /\ Two[24] = 16777216
      /\ Two[25] = 33554432 /\ Two[26] = 67108864 /\ Two[27] = 134217728
  BY SMT DEF Two
<1> HIDE DEF Two
<1>3. \A k \in 0..26 : Two[k] \in Nat /\ Two[k] > 0 /\ Two[k + 1] = 2 * Two[k]
  BY <1>1, SMT
<1> QED BY <1>1, <1>3, SMT

(* They are the powers that Word() divides by. *)
LEMMA PowerOfTwo == \A k \in 0..26 : Two[k] = 2^k
  BY DEF Two

(* A product with a positive number is not smaller. *)
LEMMA ProductGrows ==
    ASSUME NEW K \in Nat, NEW w \in Int, w >= 1 PROVE K * w >= K
  BY SMT

(* There is one remainder. *)
LEMMA RemainderIs ==
    ASSUME NEW K \in Nat, K > 0, NEW u \in Nat, NEW t \in Nat, t < K,
           NEW a \in Nat, a = K * u + t
    PROVE  a % K = t
<1> DEFINE d == a \div K
           e == a % K
<1>1. d \in Int /\ e \in Int /\ a = K * d + e /\ 0 <= e /\ e < K
  BY SMT
<1> HIDE DEF d, e
<1>2. K * (u - d) = e - t /\ K * (d - u) = t - e
  BY <1>1, SMT
<1>3. ~(u - d >= 1)
  BY <1>1, <1>2, ProductGrows, SMT
<1>4. ~(d - u >= 1)
  BY <1>1, <1>2, ProductGrows, SMT
<1>5. u = d
  BY <1>1, <1>3, <1>4, SMT
<1> QED BY <1>1, <1>5, SMT DEF e

(* A bit in front of a remainder. *)
LEMMA NextBit ==
    ASSUME NEW a \in Nat, NEW M \in Nat, M > 0
    PROVE  a % (2 * M) = (a % M) + M * ((a \div M) % 2)
<1> DEFINE x == a \div M
           i == a % M
           u == x \div 2
           e == x % 2
           t == i + M * e
           K == 2 * M
<1>1. x \in Nat /\ i \in Nat /\ a = M * x + i /\ i < M
  BY SMT
<1> HIDE DEF x, i
<1>2. u \in Nat /\ e \in {0, 1} /\ x = 2 * u + e
  BY <1>1, SMT
<1> HIDE DEF u, e
<1>3. M * x = K * u + M * e
  BY <1>1, <1>2, SMT
<1>4. M * e = 0 \/ M * e = M
  BY <1>2, SMT
<1>5. t \in Nat /\ t < K /\ K \in Nat /\ K > 0 /\ a = K * u + t
  BY <1>1, <1>2, <1>3, <1>4, SMT
<1> HIDE DEF t, K
<1>6. a % K = t
  BY <1>2, <1>5, RemainderIs
<1> QED BY <1>6 DEF t, K, x, i, e

(* Numbers whose last n bits are the same have the same remainder. *)
LEMMA SameBits ==
    ASSUME NEW a \in Nat, NEW b \in Nat, NEW n \in 0..27,
           \A k \in 0..26 : k < n => (k \in Word(a) <=> k \in Word(b))
    PROVE  a % Two[n] = b % Two[n]
<1> DEFINE B == {k \in 0..n : a % Two[k] # b % Two[k]}
<1> SUFFICES ASSUME B # {} PROVE FALSE
  <2>1. n \in 0..n
    OBVIOUS
  <2> QED BY <2>1
<1>1. B \subseteq Nat
  OBVIOUS
<1>2. PICK x \in B : \A y \in B : x <= y
  <2> HIDE DEF B
  <2> QED BY <1>1, LeastNumber
<1>3. x \in 0..n /\ a % Two[x] # b % Two[x]
  OBVIOUS
<1>4. x # 0
  <2>1. a % 1 = 0 /\ b % 1 = 0
    BY SMT
  <2> QED BY <1>3, <2>1, PowersOfTwo
<1> DEFINE k == x - 1
<1>5. k \in 0..26 /\ k < n /\ k \in 0..n /\ k + 1 = x /\ k \notin B
  BY <1>2, <1>3, <1>4
<1> HIDE DEF k
<1>6. a % Two[k] = b % Two[k]
  BY <1>5
<1> HIDE DEF B
<1> DEFINE M == Two[k]
<1>7. M \in Nat /\ M > 0 /\ M = 2^k /\ Two[x] = 2 * M
  <2>1. M \in Nat /\ M > 0 /\ Two[k + 1] = 2 * M
    BY <1>5, PowersOfTwo
  <2>2. M = 2^k
    BY <1>5, PowerOfTwo, Zenon
  <2> QED BY <1>5, <2>1, <2>2, Zenon
<1>8. (a \div 2^k) % 2 = 1 <=> (b \div 2^k) % 2 = 1
  BY <1>5 DEF Word
<1> HIDE DEF M
<1>9. (a \div M) % 2 = (b \div M) % 2
  <2> DEFINE y == a \div M
             z == b \div M
  <2>1. y \in Nat /\ z \in Nat
    BY <1>7, SMT
  <2>2. y % 2 = 1 <=> z % 2 = 1
    BY <1>7, <1>8
  <2> HIDE DEF y, z
  <2>3. y % 2 = z % 2
    BY <2>1, <2>2, SMT
  <2> QED BY <2>3 DEF y, z
<1>10. a % (2 * M) = b % (2 * M)
  <2>1. a % (2 * M) = (a % M) + M * ((a \div M) % 2)
    BY <1>7, NextBit
  <2>2. b % (2 * M) = (b % M) + M * ((b \div M) % 2)
    BY <1>7, NextBit
  <2>3. a % M = b % M
    BY <1>6 DEF M
  <2> QED BY <1>9, <2>1, <2>2, <2>3, Zenon
<1> QED BY <1>3, <1>7, <1>10

(* A date has 27 bits. *)
LEMMA DatesFit == LastDate \in Nat /\ LastDate < 134217728
  BY SMT DEF LastDate

(* A date has a word of its own. *)
LEMMA WordOfDate ==
    ASSUME NEW a \in 0..LastDate, NEW b \in 0..LastDate, Word(a) = Word(b)
    PROVE  a = b
<1>1. a \in Nat /\ b \in Nat /\ a < 134217728 /\ b < 134217728
  BY DatesFit, SMT
<1>2. a % Two[27] = b % Two[27]
  <2>1. 27 \in 0..27 /\ \A k \in 0..26 : k < 27 => (k \in Word(a) <=> k \in Word(b))
    OBVIOUS
  <2> QED BY <1>1, <2>1, SameBits
<1>3. Two[27] = 134217728
  BY PowersOfTwo
<1>4. a % 134217728 = b % 134217728
  BY <1>2, <1>3, SMT
<1> QED BY <1>1, <1>4, SMT

(* Numbers that are near each other are told apart by their last 14 bits. *)
LEMMA NearNumbers ==
    ASSUME NEW a \in Nat, NEW b \in Nat, a - b < 16384, b - a < 16384,
           \A k \in 0..13 : k \in Word(a) <=> k \in Word(b)
    PROVE  a = b
<1>1. \A k \in 0..26 : k < 14 => (k \in Word(a) <=> k \in Word(b))
  <2>1. \A k \in 0..26 : k < 14 => k \in 0..13
    OBVIOUS
  <2> QED BY <2>1
<1>2. a % Two[14] = b % Two[14]
  <2>1. 14 \in 0..27
    OBVIOUS
  <2> QED BY <1>1, <2>1, SameBits
<1>3. Two[14] = 16384
  BY PowersOfTwo
<1>4. a % 16384 = b % 16384
  BY <1>2, <1>3, SMT
<1> QED BY <1>4, SMT

(* The key that getDateToGroup() folds two dates into tells the dates of    *)
(* short intervals apart: their last 14 bits are in different places.       *)
LEMMA FoldedDates ==
    ASSUME NEW a \in Nat, NEW b \in Nat, a - b < 16384, b - a < 16384,
           NEW x \in Nat, NEW y \in Nat, x - y < 16384, y - x < 16384,
           Xor(ShiftLeft(Word(a), 18), Word(x)) = Xor(ShiftLeft(Word(b), 18), Word(y))
    PROVE  a = b /\ x = y
<1> DEFINE A == ShiftLeft(Word(a), 18)
           B == ShiftLeft(Word(b), 18)
<1>1. /\ Word(a) \subseteq 0..26 /\ Word(b) \subseteq 0..26
      /\ Word(x) \subseteq 0..26 /\ Word(y) \subseteq 0..26
  BY DEF Word
<1>2. \A k \in 0..13 : /\ k \notin A /\ k \notin B
                       /\ k + 18 \in A <=> k \in Word(a)
                       /\ k + 18 \in B <=> k \in Word(b)
  <2> SUFFICES ASSUME NEW k \in 0..13, NEW c, Word(c) \subseteq 0..26
               PROVE  /\ k \notin ShiftLeft(Word(c), 18)
                      /\ k + 18 \in ShiftLeft(Word(c), 18) <=> k \in Word(c)
    BY <1>1
  <2> DEFINE W == Word(c)
  <2>1. W \subseteq 0..26 /\ ShiftLeft(Word(c), 18) = {j + 18 : j \in W} \cap 0..31
    BY DEF ShiftLeft
  <2> HIDE DEF W
  <2>2. k \notin {j + 18 : j \in W}
    BY <2>1
  <2>3. k + 18 \in {j + 18 : j \in W} <=> k \in W
    BY <2>1
  <2>4. k + 18 \in 0..31
    OBVIOUS
  <2> QED BY <2>1, <2>2, <2>3, <2>4 DEF W
<1>3. Xor(A, Word(x)) = Xor(B, Word(y))
  OBVIOUS
<1> HIDE DEF A, B
<1>4. \A k \in 0..13 : k \in Word(x) <=> k \in Word(y)
  BY <1>2, <1>3 DEF Xor
<1>5. x = y
  BY <1>4, NearNumbers
<1>6. A = B
  BY <1>3, <1>5 DEF Xor
<1>7. \A k \in 0..13 : k \in Word(a) <=> k \in Word(b)
  BY <1>2, <1>6
<1>8. a = b
  BY <1>7, NearNumbers
<1> QED BY <1>5, <1>8

(* How pre_search() sets up the query of the request. *)
LEMMA QuerySetUp ==
    ASSUME QueryOK
    PROVE  LET p == TopParams(request)
               s == q.filters
           IN  /\ ~BadDates(p)
               /\ q.class = QueryClass(p)
               /\ q.by_return = group_by_return_date(q.class, s)
               /\ q.class = "CheapestByDay" => q.limit = DayLimit(s) /\ ~checkInputParamsThrows(s)
               /\ s.departure_duration
                    \in durations(p.departure_date_from, p.departure_date_to)
               /\ s.return_duration \in durations(p.return_date_from, p.return_date_to)
               /\ s.max_duration = max_duration(p.departure_date_from, p.departure_date_to,
                                                p.return_date_from, p.return_date_to)
               /\ s.all_combinations = Is(p.all_combinations, TRUE)
<1> DEFINE p0 == TopParams(request)
<1>1. PICK p \in WithLocaleTop(p0) : \E s \in Queries(p, now) :
         /\ ~BadDates(p0) /\ ~pre_searchThrows(QueryClass(p), s)
         /\ q = pre_search(QueryClass(p), s)
  BY DEF QueryOK
<1>2. PICK s \in Queries(p, now) : /\ ~pre_searchThrows(QueryClass(p), s)
                                   /\ q = pre_search(QueryClass(p), s)
  BY <1>1
<1>3. /\ s.departure_duration \in durations(p.departure_date_from, p.departure_date_to)
      /\ s.return_duration \in durations(p.return_date_from, p.return_date_to)
      /\ s.max_duration = max_duration(p.departure_date_from, p.departure_date_to,
                                       p.return_date_from, p.return_date_to)
      /\ s.all_combinations = Is(p.all_combinations, TRUE)
  <2>1. PICK dep \in durations(p.departure_date_from, p.departure_date_to),
             ret \in durations(p.return_date_from, p.return_date_to) :
          /\ s.departure_duration = dep /\ s.return_duration = ret
          /\ s.max_duration = max_duration(p.departure_date_from, p.departure_date_to,
                                           p.return_date_from, p.return_date_to)
          /\ s.all_combinations = all_combinations(p.all_combinations)
    BY DEF Queries
  <2> QED BY <2>1 DEF all_combinations
<1>4. /\ p.departure_date_from = p0.departure_date_from
      /\ p.departure_date_to = p0.departure_date_to
      /\ p.return_date_from = p0.return_date_from
      /\ p.return_date_to = p0.return_date_to
      /\ p.all_combinations = p0.all_combinations
      /\ p.group_by_date = p0.group_by_date
      /\ p.group_by_country = p0.group_by_country
  BY LocaleFields
<1> HIDE DEF p0
<1>5. QueryClass(p) = QueryClass(p0)
  BY <1>4 DEF QueryClass
<1>6. /\ q.filters = s
      /\ q.class = QueryClass(p)
      /\ q.by_return = group_by_return_date(QueryClass(p), s)
      /\ QueryClass(p) = "CheapestByDay" => q.limit = DayLimit(s)
  BY <1>2 DEF pre_search
<1>7. QueryClass(p) = "CheapestByDay" => ~checkInputParamsThrows(s)
  BY <1>2 DEF pre_searchThrows
<1> QED BY <1>1, <1>3, <1>4, <1>5, <1>6, <1>7 DEF p0

(* Dates of the calendar that are not in order are days that are not. *)
LEMMA DaysInOrder ==
    ASSUME NEW a \in Nat, NEW b \in Nat, CalendarDate(a), CalendarDate(b), a <= b
    PROVE  DayNumber(a) \in Int /\ DayNumber(b) \in Int /\ DayNumber(a) <= DayNumber(b)
<1>1. CASE a < b
  BY <1>1, LaterIsLater
<1>2. CASE a = b
  <2>1. /\ Year(a) \in Nat /\ Month(a) \in Nat /\ Day(a) \in Nat
        /\ Year(a) >= 1 /\ 1 <= Month(a) /\ Month(a) <= 12
    BY CalendarParts
  <2>2. Month(a) \in 1..12 /\ Day(a) \in 1..31
    BY CalendarParts
  <2>3. DayNumber(a) \in Int
    BY <2>1, <2>2, RdnIsInt DEF DayNumber
  <2> QED BY <1>2, <2>3
<1> QED BY <1>1, <1>2

(* The dates of a short interval have numbers near each other. *)
LEMMA NearInterval ==
    ASSUME NEW from \in Nat, NEW to \in Nat, NEW a \in Nat, NEW b \in Nat,
           CalendarDate(from), CalendarDate(to), CalendarDate(a), CalendarDate(b),
           from <= a, a <= to, from <= b, b <= to,
           days_after(to, from) <= 10
    PROVE  a - b < 16384 /\ b - a < 16384
<1>1. DayNumber(from) \in Int /\ DayNumber(to) \in Int
  <2>1. from <= to
    OBVIOUS
  <2> QED BY <2>1, DaysInOrder
<1>2. DayNumber(a) \in Int /\ DayNumber(from) <= DayNumber(a) /\ DayNumber(a) <= DayNumber(to)
  BY DaysInOrder
<1>3. DayNumber(b) \in Int /\ DayNumber(from) <= DayNumber(b) /\ DayNumber(b) <= DayNumber(to)
  BY DaysInOrder
<1>4. DayNumber(to) - DayNumber(from) <= 10
  BY DEF days_after, DayNumber
<1>5. DayNumber(a) - DayNumber(b) <= 10 /\ DayNumber(b) - DayNumber(a) <= 10
  BY <1>1, <1>2, <1>3, <1>4
<1> QED BY <1>5, NearDates

(* The dates of a request are dates that a text names. *)
LEMMA RequestDates ==
    ASSUME NEW text, isDefined(Date(text)), CalendarDates
    PROVE  /\ Get(Date(text)) \in Nat /\ CalendarDate(Get(Date(text)))
           /\ Date(text).value = {Get(Date(text))}
<1>1. Get(Date(text)) \in Date(text).value
  BY GetValue
<1>2. Get(Date(text)) \in 0..LastDate /\ Get(Date(text)) \in DateCodes
  BY <1>1, DateTypes
<1> QED BY <1>1, <1>2, DatesAreNat, OneValue DEF CalendarDates

(* The duration of a closed interval of dates in order is positive. *)
LEMMA DurationOfDates ==
    ASSUME NEW from, NEW to, isDefined(from), isDefined(to),
           Get(from) \in Nat, Get(to) \in Nat, CalendarDate(Get(from)), CalendarDate(Get(to)),
           Get(from) <= Get(to)
    PROVE  /\ duration(from, to) \in Int /\ duration(from, to) >= 1
           /\ duration(from, to) = DayNumber(Get(to)) - DayNumber(Get(from)) + 1
           /\ days_after(Get(to), Get(from)) = duration(from, to) - 1
<1>1. /\ DayNumber(Get(from)) \in Int /\ DayNumber(Get(to)) \in Int
      /\ DayNumber(Get(from)) <= DayNumber(Get(to))
  BY DaysInOrder
<1>2. days_after(Get(to), Get(from)) = DayNumber(Get(to)) - DayNumber(Get(from))
  BY DEF days_after, DayNumber
<1>3. duration(from, to) = days_after(Get(to), Get(from)) + 1
  BY DEF duration
<1> QED BY <1>1, <1>2, <1>3

(* The four dates of a request, as Date() reads them. *)
LEMMA DatesOfRequest ==
    LET p == TopParams(request)
    IN  /\ p.departure_date_from = Date(request.departure_date_from)
        /\ p.departure_date_to = Date(request.departure_date_to)
        /\ p.return_date_from = Date(request.return_date_from)
        /\ p.return_date_to = Date(request.return_date_to)
        /\ p.departure_or_return_date = Date(request.departure_or_return_date)
  BY DEF TopParams

(* The interval between two dates of a request that must be in order. *)
LEMMA OrderedDates ==
    ASSUME NEW t1, NEW t2, CalendarDates,
           isDefined(Date(t1)), isDefined(Date(t2)), ~Later(Date(t1), Date(t2))
    PROVE  LET from == Date(t1)
               to == Date(t2)
           IN  /\ Get(from) \in Nat /\ Get(to) \in Nat /\ Get(from) <= Get(to)
               /\ CalendarDate(Get(from)) /\ CalendarDate(Get(to))
               /\ DayNumber(Get(from)) \in Int /\ DayNumber(Get(to)) \in Int
               /\ duration(from, to) \in Int /\ duration(from, to) >= 1
               /\ duration(from, to) = DayNumber(Get(to)) - DayNumber(Get(from)) + 1
               /\ days_after(Get(to), Get(from)) = duration(from, to) - 1
<1> DEFINE from == Date(t1)
           to == Date(t2)
<1>1. /\ Get(from) \in Nat /\ Get(to) \in Nat
      /\ CalendarDate(Get(from)) /\ CalendarDate(Get(to))
      /\ Get(from) \in from.value /\ Get(to) \in to.value
  BY RequestDates, GetValue
<1> HIDE DEF from, to
<1>2. Get(from) <= Get(to)
  BY <1>1 DEF Later, from, to
<1>3. isDefined(from) /\ isDefined(to)
  BY DEF from, to
<1>4. DayNumber(Get(from)) \in Int /\ DayNumber(Get(to)) \in Int
  BY <1>1, <1>2, DaysInOrder
<1>5. /\ duration(from, to) \in Int /\ duration(from, to) >= 1
      /\ duration(from, to) = DayNumber(Get(to)) - DayNumber(Get(from)) + 1
      /\ days_after(Get(to), Get(from)) = duration(from, to) - 1
  BY <1>1, <1>2, <1>3, DurationOfDates
<1> QED BY <1>1, <1>2, <1>4, <1>5 DEF from, to

(* A query for all combinations of days has two short intervals of days. *)
LEMMA CombinedDays ==
    ASSUME QueryOK, NamedDays, CalendarDates,
           q.class = "CheapestByDay", q.filters.all_combinations
    PROVE  LET p == TopParams(request)
               s == q.filters
           IN  /\ Closed(p.departure_date_from, p.departure_date_to)
               /\ Closed(p.return_date_from, p.return_date_to)
               /\ s.departure_duration = duration(p.departure_date_from, p.departure_date_to)
               /\ s.return_duration = duration(p.return_date_from, p.return_date_to)
               /\ duration(p.departure_date_from, p.departure_date_to) <= 11
               /\ duration(p.return_date_from, p.return_date_to) <= 11
<1> DEFINE p == TopParams(request)
           s == q.filters
           depFrom == p.departure_date_from
           depTo == p.departure_date_to
           retFrom == p.return_date_from
           retTo == p.return_date_to
<1>1. /\ ~BadDates(p) /\ q.class = QueryClass(p)
      /\ ~checkInputParamsThrows(s)
      /\ s.departure_duration \in durations(depFrom, depTo)
      /\ s.return_duration \in durations(retFrom, retTo)
      /\ s.all_combinations = Is(p.all_combinations, TRUE)
  BY QuerySetUp
<1>2. Is(p.group_by_date, TRUE) /\ Is(p.all_combinations, TRUE)
  BY <1>1 DEF QueryClass
<1>3. /\ isDefined(depFrom) \/ isDefined(depTo)
      /\ isDefined(retFrom) \/ isDefined(retTo)
  BY <1>2 DEF NamedDays, QueryOK
<1>4. /\ depFrom = Date(request.departure_date_from)
      /\ depTo = Date(request.departure_date_to)
      /\ retFrom = Date(request.return_date_from)
      /\ retTo = Date(request.return_date_to)
  BY DatesOfRequest
<1>5. ~Later(depFrom, depTo) /\ ~Later(retFrom, retTo)
  BY <1>1 DEF BadDates
<1>6. /\ s.departure_duration # 0 /\ s.return_duration # 0
      /\ ~Above(s.departure_duration, 11) /\ ~Above(s.return_duration, 11)
  BY <1>1 DEF checkInputParamsThrows
<1> HIDE DEF p, s, depFrom, depTo, retFrom, retTo
<1>7. s.departure_duration = duration(depFrom, depTo) /\ s.return_duration = duration(retFrom, retTo)
  BY <1>1, <1>3 DEF durations, interval, isDefined, isUndefined
<1>8. /\ isDefined(depFrom) /\ isDefined(depTo)
      /\ isDefined(retFrom) /\ isDefined(retTo)
  BY <1>6, <1>7 DEF duration
<1>9. duration(depFrom, depTo) \in Int /\ duration(depFrom, depTo) >= 1
  BY <1>4, <1>5, <1>8, OrderedDates
<1>10. duration(retFrom, retTo) \in Int /\ duration(retFrom, retTo) >= 1
  BY <1>4, <1>5, <1>8, OrderedDates
<1>11. duration(depFrom, depTo) <= 11 /\ duration(retFrom, retTo) <= 11
  BY <1>6, <1>7, <1>9, <1>10 DEF Above
<1> QED BY <1>7, <1>8, <1>11 DEF Closed, p, s, depFrom, depTo, retFrom, retTo

(* The dates of a deal are inside of the intervals of the request. *)
LEMMA DealInside ==
    ASSUME NEW d, DealOK(d), Wanted(d), CalendarDates
    PROVE  LET p == TopParams(request)
           IN  /\ d.departure_date \in Nat /\ CalendarDate(d.departure_date)
               /\ d.return_date \in Nat
               /\ d.return_date # 0 => CalendarDate(d.return_date)
               /\ isDefined(p.departure_date_from) =>
                    Get(p.departure_date_from) <= d.departure_date
               /\ isDefined(p.departure_date_to) => d.departure_date <= Get(p.departure_date_to)
               /\ isDefined(p.return_date_from) =>
                    Get(p.return_date_from) <= d.return_date /\ d.return_date # 0
               /\ isDefined(p.return_date_to) => d.return_date <= Get(p.return_date_to)
<1> DEFINE p == TopParams(request)
           from == p.return_date_from
<1>1. /\ d.departure_date \in Nat /\ CalendarDate(d.departure_date)
      /\ d.return_date \in Nat
      /\ d.return_date # 0 => CalendarDate(d.return_date)
  BY DatesAreNat DEF DealOK, CalendarDates
<1>2. /\ \A v \in p.departure_date_from.value : d.departure_date >= v
      /\ \A v \in p.departure_date_to.value : d.departure_date <= v
      /\ \A v \in p.return_date_from.value : d.return_date >= v
      /\ \A v \in p.return_date_to.value : d.return_date <= v
  BY DEF Wanted
<1>3. from = Date(request.return_date_from)
  BY DatesOfRequest
<1> HIDE DEF p
<1>4. isDefined(from) => Get(from) \in Nat /\ Get(from) >= 1
  <2> SUFFICES ASSUME isDefined(from) PROVE Get(from) \in Nat /\ Get(from) >= 1
    OBVIOUS
  <2>1. Get(from) \in Nat /\ CalendarDate(Get(from))
    BY <1>3, RequestDates
  <2>2. Get(from) # 0
    <3>1. ~CalendarDate(0)
      <4>1. Year(0) = 0
        BY SMT DEF Year
      <4> QED BY <4>1 DEF CalendarDate
    <3> QED BY <2>1, <3>1
  <2> QED BY <2>1, <2>2
<1>5. /\ isDefined(p.departure_date_from) => Get(p.departure_date_from) <= d.departure_date
      /\ isDefined(p.departure_date_to) => d.departure_date <= Get(p.departure_date_to)
      /\ isDefined(from) => Get(from) <= d.return_date
      /\ isDefined(p.return_date_to) => d.return_date <= Get(p.return_date_to)
  BY <1>2, GetValue
<1> QED BY <1>1, <1>4, <1>5 DEF p

(* No two groups share a key. *)
LEMMA GroupOfKey ==
    ASSUME QueryOK, NamedDays, CalendarDates,
           NEW d, NEW r, DealOK(d), DealOK(r), Wanted(d), Wanted(r), KeyOf(d) = KeyOf(r)
    PROVE  QueryGroup(d) = QueryGroup(r)
<1>1. request.path # "/deals/uniqueRoutes"
  BY RequestsAssumption DEF QueryOK
<1>2. CASE q.class # "CheapestByDay"
  <2>1. q.class \in {"SimplyCheapest", "CheapestByDay", "CheapestByCountry"}
    BY QuerySetUp DEF QueryClass
  <2> QED BY <1>1, <1>2, <2>1 DEF KeyOf, QueryGroup
<1>3. CASE q.class = "CheapestByDay"
  <2>1. getDateToGroup(q, d) = getDateToGroup(q, r)
    BY <1>1, <1>3 DEF KeyOf
  <2>2. /\ d.departure_date \in 0..LastDate /\ d.return_date \in 0..LastDate
        /\ r.departure_date \in 0..LastDate /\ r.return_date \in 0..LastDate
    BY DEF DealOK
  <2>3. CASE q.filters.exact # {}
    <3>1. \A n : 31 \notin Word(n)
      <4>1. \A n : Word(n) \subseteq 0..26
        BY DEF Word
      <4>2. 31 \notin 0..26
        OBVIOUS
      <4> QED BY <4>1, <4>2
    <3>2. CASE d.return_date \in q.filters.exact /\ r.return_date \in q.filters.exact
      <4>1. Word(d.departure_date) = Word(r.departure_date)
        BY <2>1, <2>3, <3>2 DEF getDateToGroup
      <4>2. d.departure_date = r.departure_date
        BY <2>2, <4>1, WordOfDate
      <4> QED BY <1>1, <1>3, <2>3, <3>2, <4>2 DEF QueryGroup
    <3>3. CASE d.return_date \notin q.filters.exact /\ r.return_date \notin q.filters.exact
      <4>1. Word(d.return_date) \cup {31} = Word(r.return_date) \cup {31}
        BY <2>1, <2>3, <3>3 DEF getDateToGroup
      <4>2. Word(d.return_date) = Word(r.return_date)
        BY <3>1, <4>1
      <4>3. d.return_date = r.return_date
        BY <2>2, <4>2, WordOfDate
      <4> QED BY <1>1, <1>3, <2>3, <3>3, <4>3 DEF QueryGroup
    <3>4. CASE ~(d.return_date \in q.filters.exact <=> r.return_date \in q.filters.exact)
      BY <2>1, <2>3, <3>1, <3>4 DEF getDateToGroup
    <3> QED BY <3>2, <3>3, <3>4
  <2>4. CASE q.filters.exact = {} /\ q.filters.all_combinations
    <3> DEFINE p == TopParams(request)
               depFrom == p.departure_date_from
               depTo == p.departure_date_to
               retFrom == p.return_date_from
               retTo == p.return_date_to
    <3>1. /\ isDefined(depFrom) /\ isDefined(depTo)
          /\ isDefined(retFrom) /\ isDefined(retTo)
          /\ duration(depFrom, depTo) <= 11 /\ duration(retFrom, retTo) <= 11
      BY <1>3, <2>4, CombinedDays DEF Closed
    <3>2. /\ depFrom = Date(request.departure_date_from)
          /\ depTo = Date(request.departure_date_to)
          /\ retFrom = Date(request.return_date_from)
          /\ retTo = Date(request.return_date_to)
      BY DatesOfRequest
    <3>3. ~Later(depFrom, depTo) /\ ~Later(retFrom, retTo)
      BY QuerySetUp DEF BadDates
    <3>4. \A x \in {d, r} :
            /\ x.departure_date \in Nat /\ CalendarDate(x.departure_date)
            /\ x.return_date \in Nat /\ CalendarDate(x.return_date)
            /\ Get(depFrom) <= x.departure_date /\ x.departure_date <= Get(depTo)
            /\ Get(retFrom) <= x.return_date /\ x.return_date <= Get(retTo)
      BY <3>1, DealInside
    <3> HIDE DEF p, depFrom, depTo, retFrom, retTo
    <3>5. /\ Get(depFrom) \in Nat /\ Get(depTo) \in Nat
          /\ CalendarDate(Get(depFrom)) /\ CalendarDate(Get(depTo))
          /\ days_after(Get(depTo), Get(depFrom)) <= 10
      BY <3>1, <3>2, <3>3, OrderedDates
    <3>6. /\ Get(retFrom) \in Nat /\ Get(retTo) \in Nat
          /\ CalendarDate(Get(retFrom)) /\ CalendarDate(Get(retTo))
          /\ days_after(Get(retTo), Get(retFrom)) <= 10
      BY <3>1, <3>2, <3>3, OrderedDates
    <3>7. /\ d.departure_date - r.departure_date < 16384
          /\ r.departure_date - d.departure_date < 16384
      BY <3>4, <3>5, NearInterval
    <3>8. d.return_date - r.return_date < 16384 /\ r.return_date - d.return_date < 16384
      BY <3>4, <3>6, NearInterval
    <3>9. Xor(ShiftLeft(Word(d.departure_date), 18), Word(d.return_date))
            = Xor(ShiftLeft(Word(r.departure_date), 18), Word(r.return_date))
      BY <2>1, <2>4 DEF getDateToGroup
    <3>10. d.departure_date = r.departure_date /\ d.return_date = r.return_date
      BY <3>4, <3>7, <3>8, <3>9, FoldedDates
    <3> QED BY <1>1, <1>3, <2>4, <3>10 DEF QueryGroup
  <2>5. CASE q.filters.exact = {} /\ ~q.filters.all_combinations /\ q.by_return
    <3>1. d.return_date = r.return_date
      BY <2>1, <2>2, <2>5, WordOfDate DEF getDateToGroup
    <3> QED BY <1>1, <1>3, <2>5, <3>1 DEF QueryGroup
  <2>6. CASE q.filters.exact = {} /\ ~q.filters.all_combinations /\ ~q.by_return
    <3>1. d.departure_date = r.departure_date
      BY <2>1, <2>2, <2>6, WordOfDate DEF getDateToGroup
    <3> QED BY <1>1, <1>3, <2>6, <3>1 DEF QueryGroup
  <2> QED BY <2>3, <2>4, <2>5, <2>6
<1> QED BY <1>2, <1>3

(* Sets that a one-to-one function relates have the same size. *)
LEMMA OneToOne ==
    ASSUME NEW D, IsFiniteSet(D), NEW T, NEW f \in [D -> T],
           \A x, y \in D : f[x] = f[y] => x = y, \A t \in T : \E x \in D : f[x] = t
    PROVE  IsFiniteSet(T) /\ Cardinality(T) = Cardinality(D)
<1>1. f \in Surjection(D, T) /\ f \in Injection(D, T)
  BY DEF Surjection, Injection, IsInjective
<1> QED BY <1>1, FS_Surjection

(* What is known of the groups when a request to /deals/top is answered:    *)
(* Taken is the deal that a group is answered with.                         *)
Taken == [k \in DOMAIN hist |-> findCheapestAndLast(hist[k])]

(* The deal of a group is a wanted one that belongs to it. *)
LEMMA TakenIsWanted ==
    ASSUME QueryInv, Answered({"/deals/top"}), NEW k \in DOMAIN hist
    PROVE  /\ Taken[k] \in Candidates /\ Wanted(Taken[k]) /\ DealOK(Taken[k])
           /\ KeyOf(Taken[k]) = k
<1>1. /\ StoreOK /\ pos = Len(store) /\ QueryOK /\ GroupsOK(hist, pos)
      /\ request.path = "/deals/top"
  BY DEF QueryInv, TypesInv, SearchInv, Searching, Answered, Grouped
<1>2. hist[k] \in Seq(Range(store)) /\ hist[k] # <<>>
  BY <1>1 DEF GroupsOK
<1>3. PICK i \in 1..Len(hist[k]) : findCheapestAndLast(hist[k]) = hist[k][i]
  BY <1>2, TakenFromHistory
<1>4. PICK j \in 1..pos : hist[k][i] = store[j] /\ KeyOf(store[j]) = k /\ Met(store[j])
  BY <1>1 DEF GroupsOK
<1>5. Taken[k] = store[j] /\ j \in DOMAIN store /\ DealOK(store[j])
  BY <1>1, <1>3, <1>4, StoreElements DEF Taken
<1>6. now \in Nat /\ horizon \in Nat
  BY <1>1, BoundsAssumption DEF QueryInv, TypesInv, TypeOK, StoreOK
<1>7. Wanted(store[j])
  BY <1>1, <1>4, <1>5, <1>6, PassesWanted DEF Met
<1>8. store[j] \in Candidates
  BY <1>5, <1>7 DEF Candidates
<1> QED BY <1>4, <1>5, <1>7, <1>8

(* Every wanted deal of the table has a group. *)
LEMMA WantedHasGroup ==
    ASSUME QueryInv, Answered({"/deals/top"}), ShortLifetimes, NEW d \in Candidates
    PROVE  DealOK(d) /\ Wanted(d) /\ KeyOf(d) \in DOMAIN hist
<1>1. /\ StoreOK /\ pos = Len(store) /\ QueryOK /\ GroupsOK(hist, pos)
      /\ request.path = "/deals/top"
  BY DEF QueryInv, TypesInv, SearchInv, Searching, Answered, Grouped
<1>2. PICK j \in DOMAIN store : d = store[j] /\ Wanted(store[j])
  BY <1>1 DEF Candidates
<1>3. j \in 1..pos /\ DealOK(d)
  BY <1>1, <1>2, StoreElements
<1>4. /\ now \in Nat /\ horizon \in Nat /\ DEALS_EXPIRES \in Nat
      /\ DEALS_EXPIRES <= now
  BY <1>1, BoundsAssumption DEF QueryInv, TypesInv, TypeOK, StoreOK
<1>5. ASSUME NEW t \in q.filters.timestamp PROVE ~Above(t, d.timestamp)
  <2>1. PICK v \in TopParams(request).timelimit.value : t = now - v
    BY <1>1, QueryFilters DEF max_lifetime_sec
  <2>2. v \in Int /\ d.timestamp + v >= now
    BY <1>2, NumberTypes DEF Wanted, TopParams
  <2>3. v <= DEALS_EXPIRES
    BY <1>1 DEF ShortLifetimes, QueryOK
  <2>4. d.timestamp \in Nat
    BY <1>3 DEF DealOK
  <2> QED BY <1>4, <2>1, <2>2, <2>3, <2>4 DEF Above
<1>6. Passes(q.filters, q.min_timestamp, d)
  BY <1>1, <1>2, <1>3, <1>4, <1>5, WantedPasses
<1> QED BY <1>1, <1>2, <1>3, <1>6 DEF GroupsOK, Met

(* There are as many groups of wanted deals as groups that the scan made,   *)
(* and as many deals to answer with.                                        *)
LEMMA GroupsCounted ==
    ASSUME QueryInv, Answered({"/deals/top"}),
           CalendarDates, ShortLifetimes, NamedDays
    PROVE  LET S == {findCheapestAndLast(hist[k]) : k \in DOMAIN hist}
           IN  /\ IsFiniteSet(S) /\ IsFiniteSet(QueryGroups)
               /\ Cardinality(QueryGroups) = Cardinality(S)
<1> DEFINE S == {findCheapestAndLast(hist[k]) : k \in DOMAIN hist}
           D == DOMAIN hist
           g == [k \in D |-> QueryGroup(Taken[k])]
<1>1. QueryOK /\ IsFiniteSet(D)
  BY DEF QueryInv, SearchInv, Searching, Answered, Grouped, GroupsOK
<1>2. DOMAIN Taken = D /\ S = {Taken[k] : k \in D}
  BY DEF Taken
<1> HIDE DEF S
<1>3. \A k \in D : /\ Taken[k] \in Candidates /\ Wanted(Taken[k]) /\ DealOK(Taken[k])
                   /\ KeyOf(Taken[k]) = k
  BY TakenIsWanted
<1>4. IsFiniteSet(S) /\ Cardinality(S) = Cardinality(D)
  <2>1. Taken \in [D -> S]
    BY <1>2 DEF Taken
  <2>2. \A x, y \in D : Taken[x] = Taken[y] => x = y
    BY <1>3
  <2>3. \A t \in S : \E x \in D : Taken[x] = t
    BY <1>2
  <2> HIDE DEF D
  <2> QED BY <1>1, <2>1, <2>2, <2>3, OneToOne
<1>5. IsFiniteSet(QueryGroups) /\ Cardinality(QueryGroups) = Cardinality(D)
  <2>1. g \in [D -> QueryGroups]
    BY <1>3 DEF QueryGroups
  <2>2. \A x, y \in D : g[x] = g[y] => x = y
    BY <1>1, <1>3, KeyOfGroup
  <2>3. ASSUME NEW t \in QueryGroups PROVE \E x \in D : g[x] = t
    <3>1. PICK d \in Candidates : t = QueryGroup(d)
      BY DEF QueryGroups
    <3>2. DealOK(d) /\ Wanted(d) /\ KeyOf(d) \in D
      BY WantedHasGroup
    <3>3. QueryGroup(Taken[KeyOf(d)]) = QueryGroup(d)
      BY <1>1, <1>3, <3>2, GroupOfKey
    <3> QED BY <3>1, <3>2, <3>3
  <2> HIDE DEF g, D
  <2> QED BY <1>1, <2>1, <2>2, <2>3, OneToOne
<1> QED BY <1>4, <1>5 DEF S

(* The invariant says that the answers are one wanted deal of every group,  *)
(* as far as the limit goes.                                                *)
OnePerQueryGroup ==
    Answered({"/deals/top"}) =>
        /\ \A i \in DOMAIN result : result[i] \in Candidates
        /\ \A i, j \in DOMAIN result :
             QueryGroup(result[i]) = QueryGroup(result[j]) => i = j
        /\ Len(result) = Smaller(Cardinality(QueryGroups), q.limit)

(* ... for dates of the calendar and requests that set what the code reads. *)
LEMMA GroupsAnswered ==
    ASSUME QueryInv, CalendarDates, ShortLifetimes, NamedDays
    PROVE  OnePerQueryGroup
<1> SUFFICES ASSUME Answered({"/deals/top"})
             PROVE  /\ \A i \in DOMAIN result : result[i] \in Candidates
                    /\ \A i, j \in DOMAIN result :
                         QueryGroup(result[i]) = QueryGroup(result[j]) => i = j
                    /\ Len(result) = Smaller(Cardinality(QueryGroups), q.limit)
  BY DEF OnePerQueryGroup
<1> DEFINE S == {findCheapestAndLast(hist[k]) : k \in DOMAIN hist}
<1>1. QueryOK /\ phase = "answered" /\ request.path = "/deals/top" /\ Searching
  BY DEF QueryInv, SearchInv, Searching, Answered
<1>2. PICK s \in Sorted(q, S) : result = SubSeq(s, 1, Smaller(Len(s), q.limit))
  BY <1>1 DEF QueryInv, SearchInv
<1>3. IsFiniteSet(S) /\ Cardinality(QueryGroups) = Cardinality(S) /\ Cardinality(S) \in Nat
  BY GroupsCounted, FS_CardinalityType
<1>4. \A x \in S : \E k \in DOMAIN hist : x = Taken[k]
  BY DEF Taken
<1> HIDE DEF S
<1> DEFINE n == Cardinality(S)
<1>5. s \in [1..n -> S] /\ \A i, j \in 1..n : i # j => s[i] # s[j]
  BY <1>2 DEF Sorted, SetToSeqs
<1>6. n \in Nat
  BY <1>3
<1> HIDE DEF n
<1>7. s \in Seq(S) /\ Len(s) = n
  <2>1. s \in Seq(S)
    BY <1>5, <1>6, SeqDef
  <2>2. Len(s) \in Nat /\ DOMAIN s = 1..Len(s) /\ DOMAIN s = 1..n
    BY <1>5, <2>1, LenProperties
  <2> DEFINE l == Len(s)
  <2>3. l \in Nat /\ \A i : i \in 1..l <=> i \in 1..n
    BY <2>2
  <2> HIDE DEF l
  <2>4. ~(l > n) /\ ~(n > l)
    <3>1. l > n => l \in 1..l /\ l \notin 1..n
      BY <1>6, <2>3
    <3>2. n > l => n \in 1..n /\ n \notin 1..l
      BY <1>6, <2>3
    <3> QED BY <2>3, <3>1, <3>2
  <2>5. l = n
    BY <1>6, <2>3, <2>4
  <2> QED BY <2>1, <2>5 DEF l
<1>8. q.limit \in Nat
  <2>1. q # Fresh
    BY <1>1 DEF QueryOK, pre_search, Fresh
  <2>2. q.limit \in 0..UINT16_MAX
    BY <2>1 DEF QueryInv, TypesInv, TypeOK
  <2> QED BY <2>2
<1> DEFINE m == Smaller(n, q.limit)
<1>9. m \in Nat /\ m <= n
  BY <1>6, <1>8 DEF Smaller
<1>10. result = SubSeq(s, 1, m)
  BY <1>2, <1>7
<1> HIDE DEF m
<1>11. /\ result \in Seq(S) /\ Len(result) = m
       /\ \A i \in 1..m : i \in 1..n /\ result[i] = s[i]
  <2>1. \A i \in 1..m : i \in 1..n /\ s[i] \in S
    BY <1>5, <1>6, <1>9
  <2>2. /\ SubSeq(s, 1, m) \in Seq(S)
        /\ Len(SubSeq(s, 1, m)) = IF 1 <= m THEN m - 1 + 1 ELSE 0
        /\ \A i \in 1..(m - 1 + 1) : SubSeq(s, 1, m)[i] = s[1 + i - 1]
    BY <1>9, <2>1, SubSeqProperties
  <2>3. \A i \in 1..m : i \in 1..(m - 1 + 1) /\ 1 + i - 1 = i
    BY <1>9
  <2>4. Len(SubSeq(s, 1, m)) = m
    BY <1>9, <2>2
  <2> QED BY <1>10, <2>1, <2>2, <2>3, <2>4
<1>12. DOMAIN result = 1..m
  BY <1>11, LenProperties
<1>13. \A i \in DOMAIN result : i \in 1..n /\ \E k \in DOMAIN hist : result[i] = Taken[k]
                                                                 /\ s[i] = Taken[k]
  BY <1>4, <1>5, <1>11, <1>12
<1>14. \A i \in DOMAIN result : result[i] \in Candidates
  BY <1>13, TakenIsWanted
<1>15. ASSUME NEW i \in DOMAIN result, NEW j \in DOMAIN result,
              QueryGroup(result[i]) = QueryGroup(result[j])
       PROVE  i = j
  <2>1. PICK k \in DOMAIN hist : result[i] = Taken[k] /\ s[i] = Taken[k]
    BY <1>13
  <2>2. PICK x \in DOMAIN hist : result[j] = Taken[x] /\ s[j] = Taken[x]
    BY <1>13
  <2>3. KeyOf(Taken[k]) = k /\ KeyOf(Taken[x]) = x
    BY TakenIsWanted
  <2>4. k = x
    BY <1>1, <1>15, <2>1, <2>2, <2>3, KeyOfGroup
  <2>5. s[i] = s[j] /\ i \in 1..n /\ j \in 1..n
    BY <1>13, <2>1, <2>2, <2>4
  <2> QED BY <1>5, <2>5
<1>16. Len(result) = Smaller(Cardinality(QueryGroups), q.limit)
  BY <1>3, <1>11 DEF m, n
<1> QED BY <1>14, <1>15, <1>16

-----------------------------------------------------------------------------
(* The groups of a query and the groups that its request names              *)

(* The day by which the request, or what nothing has set, makes the code    *)
(* group a search by day.                                                   *)
RequestDay ==
    LET p == TopParams(request)
        from == p.departure_date_from
        to == p.departure_date_to
    IN  IF request.path # "/deals/top" THEN "departure_date"
        ELSE IF isUndefined(from) /\ isUndefined(to)
        THEN IF q.by_return THEN "return_date" ELSE "departure_date"
        ELSE IF Closed(from, to) /\ Get(from) < Get(to) THEN "departure_date"
        ELSE "return_date"

(* It is one of those that are allowed. *)
LEMMA RequestDayAllowed == RequestDay \in DaysOfGroups
  BY Zenon DEF RequestDay, DaysOfGroups

(* The only one, when the interval of departure is closed. *)
LEMMA ClosedRequestDay ==
    ASSUME request.path = "/deals/top",
           Closed(TopParams(request).departure_date_from, TopParams(request).departure_date_to)
    PROVE  DaysOfGroups = {RequestDay}
<1> DEFINE from == TopParams(request).departure_date_from
           to == TopParams(request).departure_date_to
<1>1. ~(isUndefined(from) /\ isUndefined(to))
  BY DEF Closed, isDefined, isUndefined
<1> QED BY <1>1 DEF RequestDay, DaysOfGroups

(* pre_search() groups by days of return unless the request names several   *)
(* days of departure.                                                       *)
LEMMA ByReturnOfRequest ==
    ASSUME QueryOK, CalendarDates, q.class = "CheapestByDay",
           q.filters.exact = {}, ~q.filters.all_combinations
    PROVE  RequestDay = IF q.by_return THEN "return_date" ELSE "departure_date"
<1> DEFINE p == TopParams(request)
           s == q.filters
           dur == s.departure_duration
           from == p.departure_date_from
           to == p.departure_date_to
<1>1. request.path = "/deals/top"
  BY RequestsAssumption DEF QueryOK
<1>2. /\ ~BadDates(p) /\ q.by_return = group_by_return_date(q.class, s)
      /\ dur \in durations(from, to)
  BY QuerySetUp
<1>3. q.by_return <=> ~Above(dur, 1)
  BY <1>2 DEF group_by_return_date
<1>4. from = Date(request.departure_date_from) /\ to = Date(request.departure_date_to)
  BY DatesOfRequest
<1>5. ~Later(from, to)
  BY <1>2 DEF BadDates
<1>6. RequestDay = IF isUndefined(from) /\ isUndefined(to)
                   THEN IF q.by_return THEN "return_date" ELSE "departure_date"
                   ELSE IF Closed(from, to) /\ Get(from) < Get(to) THEN "departure_date"
                   ELSE "return_date"
  BY <1>1 DEF RequestDay
<1> HIDE DEF p, s, dur, from, to
<1>7. CASE isUndefined(from) /\ isUndefined(to)
  BY <1>6, <1>7
<1>8. CASE ~(isUndefined(from) /\ isUndefined(to))
  <2>1. dur = duration(from, to)
    BY <1>2, <1>8 DEF durations, interval
  <2>2. CASE Closed(from, to)
    <3>1. /\ Get(from) \in Nat /\ Get(to) \in Nat /\ Get(from) <= Get(to)
          /\ CalendarDate(Get(from)) /\ CalendarDate(Get(to))
          /\ DayNumber(Get(from)) \in Int /\ DayNumber(Get(to)) \in Int
          /\ dur \in Int /\ dur >= 1 /\ dur = DayNumber(Get(to)) - DayNumber(Get(from)) + 1
      BY <1>4, <1>5, <2>1, <2>2, OrderedDates DEF Closed
    <3>2. Above(dur, 1) <=> dur > 1
      BY <3>1 DEF Above
    <3>3. Get(from) < Get(to) => DayNumber(Get(from)) < DayNumber(Get(to))
      BY <3>1, LaterIsLater
    <3>4. ~(Get(from) < Get(to)) => Get(from) = Get(to)
      BY <3>1
    <3>5. dur > 1 <=> Get(from) < Get(to)
      BY <3>1, <3>3, <3>4
    <3> QED BY <1>3, <1>6, <1>8, <2>2, <3>2, <3>5
  <2>3. CASE ~Closed(from, to)
    <3>1. dur = 0
      BY <2>1, <2>3 DEF Closed, duration
    <3>2. ~Above(dur, 1)
      BY <3>1 DEF Above
    <3> QED BY <1>3, <1>6, <1>8, <2>3, <3>2
  <2> QED BY <2>2, <2>3
<1> QED BY <1>7, <1>8

(* The request and the query tell the same groups. *)
LEMMA GroupOfRequest ==
    ASSUME request.path = "/deals/uniqueRoutes" \/ QueryOK, CalendarDates, NEW d
    PROVE  GroupOf(RequestDay, d) = QueryGroup(d)
<1>1. CASE request.path = "/deals/uniqueRoutes"
  BY <1>1 DEF GroupOf, QueryGroup
<1>2. CASE request.path # "/deals/uniqueRoutes"
  <2> DEFINE p == TopParams(request)
             s == q.filters
             exact == p.departure_or_return_date
  <2>1. QueryOK
    BY <1>2
  <2>2. q.class = QueryClass(p) /\ s.all_combinations = Is(p.all_combinations, TRUE)
    BY <2>1, QuerySetUp
  <2>3. s.exact = exact.value /\ exact = Date(request.departure_or_return_date)
    BY <2>1, QueryFilters, DatesOfRequest
  <2>4. isDefined(exact) <=> s.exact # {}
    BY <2>3 DEF isDefined
  <2>5. isDefined(exact) => (d.return_date \in s.exact <=> d.return_date = Get(exact))
    BY <2>3, <2>4, OneValue
  <2>6. /\ Is(p.group_by_date, TRUE) => q.class = "CheapestByDay"
        /\ ~Is(p.group_by_date, TRUE) /\ Is(p.group_by_country, TRUE) =>
             q.class = "CheapestByCountry"
        /\ ~Is(p.group_by_date, TRUE) /\ ~Is(p.group_by_country, TRUE) =>
             q.class = "SimplyCheapest"
    BY <2>2 DEF QueryClass
  <2>7. GroupOf(RequestDay, d) =
          IF Is(p.group_by_date, TRUE)
          THEN IF isDefined(exact)
               THEN IF d.return_date = Get(exact) THEN <<"to", d.departure_date>>
                    ELSE <<"from", d.return_date>>
               ELSE IF Is(p.all_combinations, TRUE) THEN <<d.departure_date, d.return_date>>
               ELSE <<d[RequestDay]>>
          ELSE IF Is(p.group_by_country, TRUE) THEN <<d.destination_country>>
          ELSE <<d.destination>>
    BY <1>2 DEF GroupOf
  <2>8. q.filters = s
    OBVIOUS
  <2> HIDE DEF p, s, exact
  <2>9. CASE ~Is(p.group_by_date, TRUE)
    BY <1>2, <2>6, <2>7, <2>9 DEF QueryGroup
  <2>10. CASE Is(p.group_by_date, TRUE) /\ isDefined(exact)
    BY <1>2, <2>4, <2>5, <2>6, <2>7, <2>8, <2>10 DEF QueryGroup
  <2>11. CASE Is(p.group_by_date, TRUE) /\ ~isDefined(exact) /\ Is(p.all_combinations, TRUE)
    BY <1>2, <2>2, <2>4, <2>6, <2>7, <2>8, <2>11 DEF QueryGroup
  <2>12. CASE Is(p.group_by_date, TRUE) /\ ~isDefined(exact) /\ ~Is(p.all_combinations, TRUE)
    <3>1. s.exact = {} /\ ~s.all_combinations /\ q.class = "CheapestByDay"
      BY <2>2, <2>4, <2>6, <2>12
    <3>2. RequestDay = IF q.by_return THEN "return_date" ELSE "departure_date"
      BY <2>1, <2>8, <3>1, ByReturnOfRequest
    <3>3. QueryGroup(d) = IF q.by_return THEN <<d.return_date>> ELSE <<d.departure_date>>
      BY <1>2, <2>8, <3>1 DEF QueryGroup
    <3>4. GroupOf(RequestDay, d) = <<d[RequestDay]>>
      BY <2>7, <2>12
    <3> QED BY <3>2, <3>3, <3>4
  <2> QED BY <2>9, <2>10, <2>11, <2>12
<1> QED BY <1>1, <1>2

(* So there are as many. *)
LEMMA GroupsOfRequest ==
    ASSUME QueryOK, CalendarDates
    PROVE  Groups(RequestDay) = QueryGroups
  BY GroupOfRequest DEF Groups, QueryGroups

(***************************************************************************)
(* For any requests, any table in the order of time and any number of      *)
(* deals: an answer to /deals/top and /deals/uniqueRoutes is not beaten by *)
(* a newer deal of its group.  process_deal() and UniqueProcessor replace  *)
(* a deal when they must, and findCheapestAndLast() takes nothing back.    *)
(***************************************************************************)
THEOREM AnswersAreNewest ==
    ASSUME CalendarDates
    PROVE  Spec => []NoNewerIsBetter
<1>1. Init => QueryInv
  BY TypesInit, SearchInit DEF QueryInv
<1>2. QueryInv => NoNewerIsBetter
  <2> SUFFICES ASSUME QueryInv, Answered(Grouped), TimeOrdered
               PROVE  \A i \in DOMAIN result, d \in Candidates :
                        /\ GroupOf(RequestDay, d) = GroupOf(RequestDay, result[i])
                        /\ d.timestamp > result[i].timestamp
                        => d.price > result[i].price /\ ~equal(d, result[i])
    BY RequestDayAllowed DEF NoNewerIsBetter, Grouped
  <2>1. request.path = "/deals/uniqueRoutes" \/ QueryOK
    BY DEF QueryInv, SearchInv, Searching, Answered, Grouped
  <2>2. \A d : GroupOf(RequestDay, d) = QueryGroup(d)
    BY <2>1, GroupOfRequest
  <2>3. QueryNewest
    BY AnswersHold
  <2> QED BY <2>2, <2>3 DEF QueryNewest
<1> QED BY <1>1, <1>2, QueryInvNext, PTL DEF Spec

(***************************************************************************)
(* For any requests, tables, locales and limits: an answer to /deals/top   *)
(* is one wanted deal of each group and leaves out no group as far as its  *)
(* limit goes.  Filters and Wanted agree on every deal, the 32 bits of a   *)
(* key tell the groups apart, and post_search() takes a deal of the group. *)
(* The dates must be dates, and no request may leave unset or let wrap     *)
(* what the code computes with.                                            *)
(***************************************************************************)
THEOREM EveryGroupAnswered ==
    ASSUME CalendarDates, ShortLifetimes, NamedDays
    PROVE  Spec => []OneAnswerPerGroup
<1>1. Init => QueryInv
  BY TypesInit, SearchInit DEF QueryInv
<1>2. QueryInv => OneAnswerPerGroup
  <2> SUFFICES ASSUME QueryInv, Answered({"/deals/top"})
               PROVE  /\ \A i \in DOMAIN result : result[i] \in Candidates
                      /\ \A i, j \in DOMAIN result :
                           GroupOf(RequestDay, result[i]) = GroupOf(RequestDay, result[j]) => i = j
                      /\ Len(result) = Smaller(Cardinality(Groups(RequestDay)), q.limit)
    BY RequestDayAllowed DEF OneAnswerPerGroup
  <2>1. QueryOK
    BY DEF QueryInv, SearchInv, Searching, Answered
  <2>2. Groups(RequestDay) = QueryGroups /\ \A d : GroupOf(RequestDay, d) = QueryGroup(d)
    BY <2>1, GroupOfRequest, GroupsOfRequest
  <2>3. OnePerQueryGroup
    BY GroupsAnswered
  <2> QED BY <2>2, <2>3 DEF OnePerQueryGroup
<1> QED BY <1>1, <1>2, QueryInvNext, PTL DEF Spec

-----------------------------------------------------------------------------
(* An answer for every day                                                  *)

(* A date of the calendar has a day of its own. *)
LEMMA DayOfDate ==
    ASSUME NEW a \in Nat, NEW b \in Nat, CalendarDate(a), CalendarDate(b),
           DayNumber(a) = DayNumber(b)
    PROVE  a = b
<1>1. CASE a < b
  BY <1>1, LaterIsLater
<1>2. CASE b < a
  BY <1>2, LaterIsLater
<1> QED BY <1>1, <1>2

(* Things that have a day of their own are not more than the days. *)
LEMMA OnePerDay ==
    ASSUME NEW G, NEW a \in Int, NEW b \in Int, a <= b, NEW f \in [G -> a..b],
           \A x, y \in G : f[x] = f[y] => x = y
    PROVE  Cardinality(G) <= b - a + 1
<1>1. f \in Injection(G, a..b)
  BY DEF Injection, IsInjective
<1>2. IsFiniteSet(a..b) /\ Cardinality(a..b) = b - a + 1
  BY FS_Interval
<1> QED BY <1>1, <1>2, FS_Injection

(* Nor are things that have a pair of days more than the pairs. *)
LEMMA OnePerPair ==
    ASSUME NEW G, NEW a \in Int, NEW b \in Int, a <= b, NEW c \in Int, NEW d \in Int, c <= d,
           NEW f \in [G -> (a..b) \X (c..d)],
           \A x, y \in G : f[x] = f[y] => x = y
    PROVE  Cardinality(G) <= (b - a + 1) * (d - c + 1)
<1>1. f \in Injection(G, (a..b) \X (c..d))
  BY DEF Injection, IsInjective
<1>2. IsFiniteSet(a..b) /\ Cardinality(a..b) = b - a + 1
  BY FS_Interval
<1>3. IsFiniteSet(c..d) /\ Cardinality(c..d) = d - c + 1
  BY FS_Interval
<1>4. /\ IsFiniteSet((a..b) \X (c..d))
      /\ Cardinality((a..b) \X (c..d)) = (b - a + 1) * (d - c + 1)
  BY <1>2, <1>3, FS_Product
<1> QED BY <1>1, <1>4, FS_Injection

(* What fits into 16 bits is not cut. *)
LEMMA NotCut == ASSUME NEW n \in Nat, n <= UINT16_MAX PROVE uint16_t(n) = n
  BY SMT DEF uint16_t, UINT16_MAX

(* The intervals of a search by day that are closed: days in order, as many *)
(* as the query counts, and at most a year of each.                         *)
LEMMA ClosedDays ==
    ASSUME QueryOK, CalendarDates, q.class = "CheapestByDay",
           Closed(TopParams(request).departure_date_from, TopParams(request).departure_date_to),
           Closed(TopParams(request).return_date_from, TopParams(request).return_date_to)
    PROVE  LET p == TopParams(request)
               s == q.filters
               a == DayNumber(Get(p.departure_date_from))
               b == DayNumber(Get(p.departure_date_to))
               c == DayNumber(Get(p.return_date_from))
               d == DayNumber(Get(p.return_date_to))
           IN  /\ a \in Int /\ b \in Int /\ c \in Int /\ d \in Int
               /\ a <= b /\ c <= d /\ a <= d
               /\ s.departure_duration = b - a + 1 /\ s.departure_duration <= 367
               /\ s.return_duration = d - c + 1 /\ s.return_duration <= 367
               /\ s.max_duration = d - a + 1
               /\ s.max_duration = duration(p.departure_date_from, p.return_date_to)
               /\ s.all_combinations => s.departure_duration <= 11 /\ s.return_duration <= 11
<1> DEFINE p == TopParams(request)
           s == q.filters
           depFrom == p.departure_date_from
           depTo == p.departure_date_to
           retFrom == p.return_date_from
           retTo == p.return_date_to
           a == DayNumber(Get(depFrom))
           b == DayNumber(Get(depTo))
           c == DayNumber(Get(retFrom))
           d == DayNumber(Get(retTo))
<1>1. /\ isDefined(depFrom) /\ isDefined(depTo)
      /\ isDefined(retFrom) /\ isDefined(retTo)
  BY DEF Closed
<1>2. /\ ~BadDates(p) /\ ~checkInputParamsThrows(s)
      /\ s.departure_duration \in durations(depFrom, depTo)
      /\ s.return_duration \in durations(retFrom, retTo)
      /\ s.max_duration = max_duration(depFrom, depTo, retFrom, retTo)
  BY QuerySetUp
<1>3. /\ depFrom = Date(request.departure_date_from)
      /\ depTo = Date(request.departure_date_to)
      /\ retFrom = Date(request.return_date_from)
      /\ retTo = Date(request.return_date_to)
  BY DatesOfRequest
<1>4. ~Later(depFrom, depTo) /\ ~Later(retFrom, retTo) /\ ~Later(depFrom, retTo)
  BY <1>2 DEF BadDates
<1>5. s.departure = interval(depFrom, depTo) /\ s.return = interval(retFrom, retTo)
  BY QueryFilters
<1> HIDE DEF p, s, depFrom, depTo, retFrom, retTo
<1>6. s.departure # {} /\ s.return # {}
  BY <1>1, <1>5 DEF interval, isDefined, isUndefined
<1>7. /\ s.departure_duration = duration(depFrom, depTo)
      /\ s.return_duration = duration(retFrom, retTo)
      /\ s.max_duration = duration(depFrom, retTo)
  BY <1>1, <1>2, <1>5, <1>6 DEF durations, max_duration
<1>8. /\ a \in Int /\ b \in Int
      /\ duration(depFrom, depTo) \in Int /\ duration(depFrom, depTo) >= 1
      /\ duration(depFrom, depTo) = b - a + 1
  BY <1>1, <1>3, <1>4, OrderedDates
<1>9. /\ c \in Int /\ d \in Int
      /\ duration(retFrom, retTo) \in Int /\ duration(retFrom, retTo) >= 1
      /\ duration(retFrom, retTo) = d - c + 1
  BY <1>1, <1>3, <1>4, OrderedDates
<1>10. /\ duration(depFrom, retTo) \in Int /\ duration(depFrom, retTo) >= 1
       /\ duration(depFrom, retTo) = d - a + 1
  BY <1>1, <1>3, <1>4, OrderedDates
<1> HIDE DEF a, b, c, d
<1>11. a <= b /\ c <= d /\ a <= d
  BY <1>8, <1>9, <1>10
<1>12. /\ ~Above(s.departure_duration, 367) /\ ~Above(s.return_duration, 367)
       /\ s.all_combinations => /\ ~Above(s.departure_duration, 11)
                                /\ ~Above(s.return_duration, 11)
  BY <1>2, <1>6 DEF checkInputParamsThrows
<1>13. s.departure_duration <= 367 /\ s.return_duration <= 367
  BY <1>7, <1>8, <1>9, <1>12 DEF Above
<1>14. s.all_combinations => s.departure_duration <= 11 /\ s.return_duration <= 11
  BY <1>7, <1>8, <1>9, <1>12 DEF Above
<1> QED BY <1>7, <1>8, <1>9, <1>10, <1>11, <1>13, <1>14
        DEF a, b, c, d, p, s, depFrom, depTo, retFrom, retTo

(* The limit of such a search. *)
LEMMA ClosedLimit ==
    ASSUME QueryOK, CalendarDates, ShortSpans, q.class = "CheapestByDay",
           Closed(TopParams(request).departure_date_from, TopParams(request).departure_date_to),
           Closed(TopParams(request).return_date_from, TopParams(request).return_date_to)
    PROVE  LET s == q.filters
           IN  q.limit = IF s.exact # {} THEN s.max_duration
                         ELSE IF s.all_combinations
                         THEN s.departure_duration * s.return_duration
                         ELSE IF q.by_return THEN s.return_duration
                         ELSE s.departure_duration
<1> DEFINE p == TopParams(request)
           s == q.filters
           dep == s.departure_duration
           ret == s.return_duration
           span == s.max_duration
<1>1. /\ dep \in Nat /\ dep >= 1 /\ dep <= 367
      /\ ret \in Nat /\ ret >= 1 /\ ret <= 367
      /\ span \in Nat /\ span >= 1
      /\ span = duration(p.departure_date_from, p.return_date_to)
      /\ s.all_combinations => dep <= 11 /\ ret <= 11
  BY ClosedDays
<1>2. q.limit = DayLimit(s) /\ q.by_return = group_by_return_date(q.class, s)
  BY QuerySetUp
<1>3. s.exact # {} => span <= UINT16_MAX
  <2>1. s.exact = p.departure_or_return_date.value
    BY QueryFilters
  <2> QED BY <1>1, <2>1 DEF ShortSpans, QueryOK, isDefined
<1> HIDE DEF p, s
<1>4. 367 <= UINT16_MAX /\ UINT16_MAX \in Nat
  BY SMT DEF UINT16_MAX
<1>5. uint16_t(dep) = dep /\ uint16_t(ret) = ret
  BY <1>1, <1>4, NotCut
<1>6. s.exact # {} => uint16_t(span) = span
  BY <1>1, <1>3, NotCut
<1>7. s.all_combinations => uint16_t(dep * ret) = dep * ret
  <2> SUFFICES ASSUME s.all_combinations PROVE uint16_t(dep * ret) = dep * ret
    OBVIOUS
  <2> DEFINE n == dep * ret
  <2>1. n \in Nat /\ n <= 121
    <3> HIDE DEF dep, ret
    <3>1. dep * ret <= 11 * ret
      BY <1>1
    <3> QED BY <1>1, <3>1
  <2> HIDE DEF n
  <2>2. uint16_t(n) = n
    BY <1>4, <2>1, NotCut
  <2> QED BY <2>2 DEF n
<1>8. Above(dep, 1) <=> dep > 1
  BY <1>1 DEF Above
<1>9. q.by_return <=> s.exact = {} /\ ~s.all_combinations /\ ~(dep > 1)
  BY <1>2, <1>8 DEF group_by_return_date, s
<1>10. q.limit = IF s.exact # {} THEN uint16_t(span)
                 ELSE IF s.all_combinations THEN uint16_t(dep * ret)
                 ELSE IF dep > 1 THEN uint16_t(dep) ELSE uint16_t(ret)
  BY <1>1, <1>2, <1>8 DEF DayLimit
<1> QED BY <1>5, <1>6, <1>7, <1>9, <1>10 DEF s

(* There are not more groups of days than the limit lets through. *)
LEMMA GroupsWithinLimit ==
    ASSUME QueryInv, Answered({"/deals/top"}),
           CalendarDates, ShortLifetimes, ShortSpans, q.class = "CheapestByDay",
           Closed(TopParams(request).departure_date_from, TopParams(request).departure_date_to),
           Closed(TopParams(request).return_date_from, TopParams(request).return_date_to)
    PROVE  Cardinality(QueryGroups) <= q.limit
<1> DEFINE p == TopParams(request)
           s == q.filters
           a == DayNumber(Get(p.departure_date_from))
           b == DayNumber(Get(p.departure_date_to))
           c == DayNumber(Get(p.return_date_from))
           d == DayNumber(Get(p.return_date_to))
<1>1. QueryOK /\ request.path = "/deals/top"
  BY DEF QueryInv, SearchInv, Searching, Answered
<1>2. /\ a \in Int /\ b \in Int /\ c \in Int /\ d \in Int
      /\ a <= b /\ c <= d /\ a <= d
      /\ s.departure_duration = b - a + 1
      /\ s.return_duration = d - c + 1
      /\ s.max_duration = d - a + 1
  BY <1>1, ClosedDays
<1>3. q.limit = IF s.exact # {} THEN s.max_duration
                ELSE IF s.all_combinations THEN s.departure_duration * s.return_duration
                ELSE IF q.by_return THEN s.return_duration
                ELSE s.departure_duration
  BY <1>1, ClosedLimit
<1>4. /\ p.departure_date_from = Date(request.departure_date_from)
      /\ p.departure_date_to = Date(request.departure_date_to)
      /\ p.return_date_from = Date(request.return_date_from)
      /\ p.return_date_to = Date(request.return_date_to)
  BY DatesOfRequest
<1>5. ASSUME NEW x \in Candidates
      PROVE  /\ x.departure_date \in Nat /\ CalendarDate(x.departure_date)
             /\ x.return_date \in Nat /\ CalendarDate(x.return_date)
             /\ x.departure_date <= x.return_date
             /\ DayNumber(x.departure_date) \in a..b
             /\ DayNumber(x.return_date) \in c..d
             /\ \A e \in s.exact : e \in {x.departure_date, x.return_date}
  <2>1. DealOK(x) /\ Wanted(x)
    BY WantedHasGroup
  <2>2. /\ x.departure_date \in Nat /\ CalendarDate(x.departure_date)
        /\ x.return_date \in Nat /\ x.return_date # 0
        /\ CalendarDate(x.return_date)
        /\ Get(p.departure_date_from) <= x.departure_date
        /\ x.departure_date <= Get(p.departure_date_to)
        /\ Get(p.return_date_from) <= x.return_date
        /\ x.return_date <= Get(p.return_date_to)
    BY <2>1, DealInside DEF Closed
  <2>3. /\ Get(p.departure_date_from) \in Nat /\ CalendarDate(Get(p.departure_date_from))
        /\ Get(p.departure_date_to) \in Nat /\ CalendarDate(Get(p.departure_date_to))
        /\ Get(p.return_date_from) \in Nat /\ CalendarDate(Get(p.return_date_from))
        /\ Get(p.return_date_to) \in Nat /\ CalendarDate(Get(p.return_date_to))
    BY <1>4, RequestDates DEF Closed
  <2> HIDE DEF p
  <2>4. DayNumber(x.departure_date) \in Int
    BY <2>2, <2>3, DaysInOrder
  <2>5. a <= DayNumber(x.departure_date) /\ DayNumber(x.departure_date) <= b
    BY <2>2, <2>3, DaysInOrder
  <2>6. DayNumber(x.return_date) \in Int
    BY <2>2, <2>3, DaysInOrder
  <2>7. c <= DayNumber(x.return_date) /\ DayNumber(x.return_date) <= d
    BY <2>2, <2>3, DaysInOrder
  <2>8. x.departure_date <= x.return_date
    BY <2>1, <2>2 DEF DealOK
  <2>9. \A e \in s.exact : e \in {x.departure_date, x.return_date}
    <3>1. s.exact = p.departure_or_return_date.value
      BY <1>1, QueryFilters DEF p
    <3> QED BY <2>1, <3>1 DEF Wanted, p
  <2> HIDE DEF a, b, c, d
  <2> QED BY <1>2, <2>2, <2>4, <2>5, <2>6, <2>7, <2>8, <2>9
<1> HIDE DEF a, b, c, d, p, s
<1>6. \A g \in QueryGroups : \E x \in Candidates : g = QueryGroup(x)
  BY DEF QueryGroups
<1>7. request.path # "/deals/uniqueRoutes" /\ q.filters = s
  BY <1>1 DEF s
<1>8. CASE s.exact # {}
  <2> DEFINE f == [g \in QueryGroups |-> DayNumber(g[2])]
  <2>1. PICK e \in s.exact : TRUE
    BY <1>8
  <2>2. ASSUME NEW g \in QueryGroups
        PROVE  \E k \in Nat : /\ CalendarDate(k) /\ DayNumber(k) \in a..d /\ e \in Nat
                              /\ \/ g = <<"to", k>> /\ k <= e
                                 \/ g = <<"from", k>> /\ e < k
    <3>1. PICK x \in Candidates : g = QueryGroup(x)
      BY <1>6
    <3>2. /\ x.departure_date \in Nat /\ CalendarDate(x.departure_date)
          /\ x.return_date \in Nat /\ CalendarDate(x.return_date)
          /\ x.departure_date <= x.return_date
          /\ DayNumber(x.departure_date) \in a..b
          /\ DayNumber(x.return_date) \in c..d
          /\ \A y \in s.exact : y \in {x.departure_date, x.return_date}
      BY <1>5
    <3>3. DayNumber(x.departure_date) <= DayNumber(x.return_date)
      BY <3>2, DaysInOrder
    <3>4. DayNumber(x.departure_date) \in a..d /\ DayNumber(x.return_date) \in a..d
      BY <1>2, <3>2, <3>3
    <3>5. g = IF x.return_date \in s.exact THEN <<"to", x.departure_date>>
              ELSE <<"from", x.return_date>>
      BY <1>7, <1>8, <3>1 DEF QueryGroup
    <3>6. e \in Nat /\ (x.return_date \in s.exact => x.departure_date <= e)
      BY <2>1, <3>2
    <3>7. x.return_date \notin s.exact => e < x.return_date
      BY <2>1, <3>2
    <3> QED BY <3>2, <3>4, <3>5, <3>6, <3>7
  <2>3. f \in [QueryGroups -> a..d]
    BY <2>2
  <2>4. \A x, y \in QueryGroups : f[x] = f[y] => x = y
    <3> SUFFICES ASSUME NEW x \in QueryGroups, NEW y \in QueryGroups, f[x] = f[y] PROVE x = y
      OBVIOUS
    <3>1. PICK k \in Nat : /\ CalendarDate(k) /\ e \in Nat
                           /\ \/ x = <<"to", k>> /\ k <= e
                              \/ x = <<"from", k>> /\ e < k
      BY <2>2
    <3>2. PICK l \in Nat : /\ CalendarDate(l) /\ e \in Nat
                           /\ \/ y = <<"to", l>> /\ l <= e
                              \/ y = <<"from", l>> /\ e < l
      BY <2>2
    <3>3. x[2] = k /\ y[2] = l
      BY <3>1, <3>2
    <3>4. k = l
      BY <3>1, <3>2, <3>3, DayOfDate
    <3> QED BY <3>1, <3>2, <3>4
  <2> HIDE DEF f
  <2>5. Cardinality(QueryGroups) <= d - a + 1
    BY <1>2, <2>3, <2>4, OnePerDay
  <2> QED BY <1>2, <1>3, <1>8, <2>5
<1>9. CASE s.exact = {} /\ s.all_combinations
  <2> DEFINE f == [g \in QueryGroups |-> <<DayNumber(g[1]), DayNumber(g[2])>>]
  <2>1. ASSUME NEW g \in QueryGroups
        PROVE  \E k, l \in Nat : /\ CalendarDate(k) /\ CalendarDate(l)
                                 /\ DayNumber(k) \in a..b /\ DayNumber(l) \in c..d
                                 /\ g = <<k, l>>
    <3>1. PICK x \in Candidates : g = QueryGroup(x)
      BY <1>6
    <3>2. g = <<x.departure_date, x.return_date>>
      <4>1. q.class = "CheapestByDay"
        OBVIOUS
      <4> QED BY <1>7, <1>9, <3>1, <4>1 DEF QueryGroup
    <3> QED BY <1>5, <3>2
  <2>2. f \in [QueryGroups -> (a..b) \X (c..d)]
    BY <2>1
  <2>3. \A x, y \in QueryGroups : f[x] = f[y] => x = y
    <3> SUFFICES ASSUME NEW x \in QueryGroups, NEW y \in QueryGroups, f[x] = f[y] PROVE x = y
      OBVIOUS
    <3>1. PICK k, l \in Nat : CalendarDate(k) /\ CalendarDate(l) /\ x = <<k, l>>
      BY <2>1
    <3>2. PICK m, n \in Nat : CalendarDate(m) /\ CalendarDate(n) /\ y = <<m, n>>
      BY <2>1
    <3>3. DayNumber(k) = DayNumber(m) /\ DayNumber(l) = DayNumber(n)
      BY <3>1, <3>2
    <3>4. k = m /\ l = n
      BY <3>1, <3>2, <3>3, DayOfDate
    <3> QED BY <3>1, <3>2, <3>4
  <2> HIDE DEF f
  <2>4. Cardinality(QueryGroups) <= (b - a + 1) * (d - c + 1)
    BY <1>2, <2>2, <2>3, OnePerPair
  <2>5. q.limit = (b - a + 1) * (d - c + 1)
    BY <1>2, <1>3, <1>9
  <2> QED BY <2>4, <2>5
<1>10. CASE s.exact = {} /\ ~s.all_combinations
  <2> DEFINE f == [g \in QueryGroups |-> DayNumber(g[1])]
             from == IF q.by_return THEN c ELSE a
             to == IF q.by_return THEN d ELSE b
  <2>1. ASSUME NEW g \in QueryGroups
        PROVE  \E k \in Nat : /\ CalendarDate(k) /\ DayNumber(k) \in from..to
                              /\ g = <<k>>
    <3>1. PICK x \in Candidates : g = QueryGroup(x)
      BY <1>6
    <3>2. g = IF q.by_return THEN <<x.return_date>> ELSE <<x.departure_date>>
      <4>1. q.class = "CheapestByDay"
        OBVIOUS
      <4> QED BY <1>7, <1>10, <3>1, <4>1 DEF QueryGroup
    <3> QED BY <1>5, <3>2
  <2>2. from \in Int /\ to \in Int /\ from <= to
    BY <1>2
  <2> HIDE DEF from, to
  <2>3. f \in [QueryGroups -> from..to]
    BY <2>1
  <2>4. \A x, y \in QueryGroups : f[x] = f[y] => x = y
    <3> SUFFICES ASSUME NEW x \in QueryGroups, NEW y \in QueryGroups, f[x] = f[y] PROVE x = y
      OBVIOUS
    <3>1. PICK k \in Nat : CalendarDate(k) /\ x = <<k>>
      BY <2>1
    <3>2. PICK l \in Nat : CalendarDate(l) /\ y = <<l>>
      BY <2>1
    <3>3. DayNumber(k) = DayNumber(l)
      BY <3>1, <3>2
    <3>4. k = l
      BY <3>1, <3>2, <3>3, DayOfDate
    <3> QED BY <3>1, <3>2, <3>4
  <2> HIDE DEF f
  <2>5. Cardinality(QueryGroups) <= to - from + 1
    BY <2>2, <2>3, <2>4, OnePerDay
  <2>6. q.limit = to - from + 1
    BY <1>2, <1>3, <1>10 DEF from, to
  <2> QED BY <2>5, <2>6
<1> QED BY <1>8, <1>9, <1>10

(***************************************************************************)
(* A search by day whose intervals are closed is answered in full, for any *)
(* dates of the calendar: the limit that pre_search() computes of          *)
(* durations is never less than the number of groups, around the turn of a *)
(* year, with days of departure and of return that overlap, and for days   *)
(* on either side of departure_or_return_date.                             *)
(***************************************************************************)
THEOREM NoDayCutOff ==
    ASSUME CalendarDates, ShortLifetimes, NamedDays, ShortSpans
    PROVE  Spec => []EveryDayAnswered
<1>1. Init => QueryInv
  BY TypesInit, SearchInit DEF QueryInv
<1>2. QueryInv => EveryDayAnswered
  <2> DEFINE p == TopParams(request)
  <2> SUFFICES ASSUME QueryInv, Answered({"/deals/top"}), Is(p.group_by_date, TRUE),
                      Closed(p.departure_date_from, p.departure_date_to),
                      Closed(p.return_date_from, p.return_date_to)
               PROVE  \A day \in DaysOfGroups : Len(result) = Cardinality(Groups(day))
    BY DEF EveryDayAnswered
  <2>5. QueryOK /\ request.path = "/deals/top"
    BY DEF QueryInv, SearchInv, Searching, Answered
  <2>6. DaysOfGroups = {RequestDay} /\ Groups(RequestDay) = QueryGroups
    BY <2>5, ClosedRequestDay, GroupsOfRequest
  <2>7. q.class = "CheapestByDay"
    BY <2>5, QuerySetUp DEF QueryClass
  <2>1. Cardinality(QueryGroups) <= q.limit
    BY <2>7, GroupsWithinLimit
  <2>2. Len(result) = Smaller(Cardinality(QueryGroups), q.limit)
    BY GroupsAnswered DEF OnePerQueryGroup
  <2>3. Cardinality(QueryGroups) \in Nat
    BY GroupsCounted, FS_CardinalityType
  <2>4. q.limit \in Int
    <3>1. QueryOK
      BY DEF QueryInv, SearchInv, Searching, Answered
    <3>2. q # Fresh
      BY <3>1 DEF QueryOK, pre_search, Fresh
    <3>3. q.limit \in 0..UINT16_MAX
      BY <3>2 DEF QueryInv, TypesInv, TypeOK
    <3> QED BY <3>3
  <2> QED BY <2>1, <2>2, <2>3, <2>4, <2>6 DEF Smaller
<1> QED BY <1>1, <1>2, QueryInvNext, PTL DEF Spec

=============================================================================

---------------------------- MODULE DealsQuery ----------------------------
(***************************************************************************)
(* The requests that read and add deals, from the text of their parameters *)
(* to the answer: POST /deals/add, GET /deals/top with its three ways of   *)
(* grouping (SimplyCheapest, CheapestByDay, CheapestByCountry),            *)
(* GET /deals/uniqueRoutes and GET /deals/stats.                           *)
(*                                                                         *)
(* The index table is the sequence of its elements in the order in which a *)
(* scan meets them.  A new element may come anywhere in it: rows of the    *)
(* table are reused, and two processes that add at the same time pass each *)
(* other (see Table and DealsDb, where the concurrency is).                *)
(***************************************************************************)
EXTENDS SearchQuery, SequencesExt

CONSTANTS AddRequests,    \* requests to /deals/add
          TopRequests,    \* requests to /deals/top
          LocaleTops,     \* what TopDstDatabase may answer to getTop()
          Stray,          \* weekdays that day_of_week() finds for no date
          Horizons,       \* values of global_expire_at
          DEALS_EXPIRES,
          MaxTime,        \* bound on the clock
          MaxDeals        \* bound on the table

ASSUME BoundsAssumption ==
    /\ DEALS_EXPIRES \in Nat /\ MaxTime \in Nat /\ MaxDeals \in Nat
    /\ DEALS_EXPIRES <= MaxTime
    /\ Stray \subseteq 0..6 /\ Stray # {}
    /\ Horizons \subseteq Nat

ASSUME RequestsAssumption ==
    \A r \in TopRequests :
        /\ r.path = "/deals/top"
        /\ r.destinations \in Seq(STRING) /\ r.destination_countries \in Seq(STRING)

VARIABLES now,      \* timing::getTimestampSec()
          horizon,  \* table.context.shm.global_expire_at
          store,    \* elements of the index table, in the order of a scan
          phase,    \* of the process: "idle", "scan" or "answered"
          request,  \* parameters of the request being served
          q,        \* the query object: filters, and what pre_search() sets
          pos,      \* elements that the scan has passed
          hist,     \* grouped_..._hist of the query
          result,   \* what execute() returns
          reply     \* status and size_info of the answer

vars == <<now, horizon, store, phase, request, q, pos, hist, result, reply>>

NoReply == [status |-> 0, size_info |-> 0]
Fresh == [path |-> "none"]

Init ==
    /\ now = DEALS_EXPIRES
    /\ horizon \in Horizons
    /\ store = <<>>
    /\ phase = "idle"
    /\ request = Fresh /\ q = Fresh
    /\ pos = 0 /\ hist = <<>> /\ result = <<>>
    /\ reply = NoReply

Tick ==
    /\ phase = "idle"
    /\ now < MaxTime
    /\ now' = now + 1
    /\ UNCHANGED <<horizon, store, phase, request, q, pos, hist, result, reply>>

-----------------------------------------------------------------------------
(* POST /deals/add                                                         *)

AddParams(r) ==
    [return_date |-> Date(r.return_date),
     departure_date |-> Required(Date(r.departure_date)),
     price |-> Required(Number(r.price)),
     locale |-> Required(CountryCode(r.locale)),
     destination_country |-> Required(CountryCode(r.destination_country)),
     origin |-> Required(IATACode(r.origin)),
     destination |-> Required(IATACode(r.destination)),
     direct_flight |-> Required(Boolean(r.direct_flight))]

AddError(p) ==
    FirstError(<<p.return_date, p.departure_date, p.price, p.locale,
                 p.destination_country, p.origin, p.destination, p.direct_flight>>)

AddRefused(p) ==
    \/ p.origin.value = p.destination.value
    \/ Later(p.departure_date, p.return_date)

(* Nights between the two dates, cut to what a uint8_t holds.              *)
StayDays(departure, return) ==
    IF isUndefined(return) THEN UINT8_MAX
    ELSE LET n == days_after(Get(return), Get(departure))
         IN  IF Above(n, UINT8_MAX) THEN UINT8_MAX ELSE n

(* The elements that addDeal() may store for p: one, up to the weekday     *)
(* that it finds for a return date which is not there.                     *)
DealInfos(p, size) ==
    {[timestamp |-> now,
      origin |-> Get(p.origin),
      destination |-> Get(p.destination),
      destination_country |-> Get(p.destination_country),
      departure_date |-> Get(p.departure_date),
      return_date |-> IF isDefined(p.return_date) THEN Get(p.return_date) ELSE 0,
      departure_day_of_week |-> dw,
      return_day_of_week |-> rw,
      stay_days |-> StayDays(p.departure_date, p.return_date),
      direct |-> Get(p.direct_flight),
      price |-> Get(p.price),
      size |-> size]
     : dw \in WeekdayMasks(p.departure_date.value, Stray),
       rw \in WeekdayMasks(p.return_date.value, Stray)}

addDeal(r) ==
    LET p == AddParams(r)
    IN  /\ phase = "idle"
        /\ Len(store) < MaxDeals
        /\ AddError(p) = Nothing
        /\ ~AddRefused(p)
        /\ \E d \in DealInfos(p, r.size), i \in 1..(Len(store) + 1) :
              store' = InsertAt(store, i, d)
        /\ UNCHANGED <<now, horizon, phase, request, q, pos, hist, result, reply>>

(* An answer that says why, before anything is stored or searched.         *)
Refuse(r, status) ==
    /\ phase' = "answered"
    /\ request' = r
    /\ reply' = [status |-> status, size_info |-> 0]
    /\ UNCHANGED <<now, horizon, store, q, pos, hist, result>>

addDealThrows(r) ==
    LET p == AddParams(r)
    IN  /\ phase = "idle"
        /\ \/ AddError(p) # Nothing /\ Refuse(r, ErrorStatus(AddError(p)))
           \/ AddError(p) = Nothing /\ AddRefused(p) /\ Refuse(r, 400)

-----------------------------------------------------------------------------
(* GET /deals/top: parameters, query and pre_search()                      *)

TopParams(r) ==
    [origin |-> Required(IATACode(r.origin)),
     destinations |-> IATACodes(r.destinations),
     destination_countries |-> CountryCodes(r.destination_countries),
     departure_date_from |-> Date(r.departure_date_from),
     departure_date_to |-> Date(r.departure_date_to),
     return_date_from |-> Date(r.return_date_from),
     return_date_to |-> Date(r.return_date_to),
     departure_days_of_week |-> Weekdays(r.departure_days_of_week),
     return_days_of_week |-> Weekdays(r.return_days_of_week),
     stay_from |-> Number(r.stay_from),
     stay_to |-> Number(r.stay_to),
     timelimit |-> Number(r.timelimit),
     deals_limit |-> Number(r.deals_limit),
     direct_flights |-> Boolean(r.direct_flights),
     roundtrip_flights |-> Boolean(r.roundtrip_flights),
     add_locale_top |-> Boolean(r.add_locale_top),
     group_by_date |-> Boolean(r.group_by_date),
     group_by_country |-> Boolean(r.group_by_country),
     locale |-> CountryCode(r.locale),
     departure_or_return_date |-> Date(r.departure_or_return_date),
     all_combinations |-> Boolean(r.all_combinations)]

TopError(p) ==
    FirstError(<<p.origin, p.destinations, p.destination_countries, p.departure_date_from,
                 p.departure_date_to, p.return_date_from, p.return_date_to,
                 p.departure_days_of_week, p.return_days_of_week, p.stay_from, p.stay_to,
                 p.timelimit, p.deals_limit, p.direct_flights, p.roundtrip_flights,
                 p.add_locale_top, p.group_by_date, p.group_by_country, p.locale,
                 p.departure_or_return_date, p.all_combinations>>)

(* The dates of a request must be in order, as far as they are given.      *)
BadDates(p) ==
    \/ Later(p.return_date_from, p.return_date_to)
    \/ Later(p.departure_date_from, p.departure_date_to)
    \/ Later(p.departure_date_from, p.return_date_from)
    \/ Later(p.departure_date_from, p.return_date_to)
    \/ Later(p.departure_date_to, p.return_date_to)

NoLocale(p) == Is(p.add_locale_top, TRUE) /\ isUndefined(p.locale)

(* Destinations of the locale's top join those of the request.             *)
WithLocaleTop(p) ==
    IF Is(p.add_locale_top, TRUE)
    THEN {[p EXCEPT !.destinations = add_codes(@, top)] : top \in LocaleTops}
    ELSE {p}

QueryClass(p) ==
    IF Is(p.group_by_date, TRUE) THEN "CheapestByDay"
    ELSE IF Is(p.group_by_country, TRUE) THEN "CheapestByCountry"
    ELSE "SimplyCheapest"

(* CheapestByDay::checkInputParams()                                       *)
checkInputParamsThrows(s) ==
    LET dep == s.departure_duration
        ret == s.return_duration
    IN  \/ dep = 0 /\ ret = 0
        \/ s.departure # {} /\ Above(dep, 367)
        \/ s.return # {} /\ Above(ret, 367)
        \/ s.all_combinations /\ (dep = 0 \/ ret = 0 \/ Above(dep, 11) \/ Above(ret, 11))

pre_searchThrows(class, s) ==
    IF class = "CheapestByDay" THEN checkInputParamsThrows(s) ELSE s.all_combinations

(* CheapestByDay::pre_search() groups by return date when there is only    *)
(* one day of departure.                                                   *)
group_by_return_date(class, s) ==
    /\ class = "CheapestByDay"
    /\ s.exact = {} /\ ~s.all_combinations
    /\ ~Above(s.departure_duration, 1)

(* A slip in CheapestByDay::pre_search(): the last day is not counted.     *)
DayLimitShort(s) ==
    uint16_t(s.departure_duration - 1)

(* ... and makes room for one answer for every day of its interval.        *)
DayLimit(s) ==
    IF s.exact # {} THEN IF s.max_duration # 0 THEN uint16_t(s.max_duration) ELSE s.limit
    ELSE IF s.all_combinations THEN uint16_t(s.departure_duration * s.return_duration)
    ELSE IF Above(s.departure_duration, 1) THEN uint16_t(s.departure_duration)
    ELSE IF s.return_duration # 0 THEN uint16_t(s.return_duration) ELSE s.limit

CountryLimit(s) ==
    IF s.countries # {} THEN uint16_t(Cardinality(s.countries)) ELSE s.limit

pre_search(class, s) ==
    [filters |-> s,
     class |-> class,
     by_return |-> group_by_return_date(class, s),
     limit |-> CASE class = "CheapestByDay" -> DayLimit(s)
                 [] class = "CheapestByCountry" -> CountryLimit(s)
                 [] OTHER -> s.limit,
     min_timestamp |-> (IF horizon > now THEN horizon ELSE now) - DEALS_EXPIRES]

(* processRecords() begins to hand the elements of the table to the query. *)
BeginScan(r, query) ==
    /\ phase' = "scan"
    /\ request' = r
    /\ q' = query
    /\ pos' = 0 /\ hist' = <<>> /\ result' = <<>>
    /\ UNCHANGED <<now, horizon, store, reply>>

getTop(r) ==
    LET p0 == TopParams(r)
    IN  /\ phase = "idle"
        /\ TopError(p0) = Nothing
        /\ ~BadDates(p0) /\ ~NoLocale(p0)
        /\ \E p \in WithLocaleTop(p0) :
              /\ ~SettersThrow(p)
              /\ \E s \in Queries(p, now) :
                    /\ ~pre_searchThrows(QueryClass(p), s)
                    /\ BeginScan(r, pre_search(QueryClass(p), s))

getTopThrows(r) ==
    LET p == TopParams(r)
    IN  /\ phase = "idle"
        /\ \/ TopError(p) # Nothing /\ Refuse(r, ErrorStatus(TopError(p)))
           \/ /\ TopError(p) = Nothing
              /\ \/ BadDates(p) \/ NoLocale(p) \/ SettersThrow(p)
                 \/ \E s \in Queries(p, now) : pre_searchThrows(QueryClass(p), s)
              /\ Refuse(r, 400)

-----------------------------------------------------------------------------
(* The scan: DealsSearchQuery::process_element()                           *)

(* The filters, in the order of the code.                                  *)
Passes(s, min_timestamp, d) ==
    /\ d.timestamp > min_timestamp
    /\ s.origin \subseteq {d.origin}
    /\ \A t \in s.timestamp : ~Above(t, d.timestamp)
    /\ \A flag \in s.roundtrip : flag = (d.return_date # 0)
    /\ s.destinations # {} => d.destination \in s.destinations
    /\ s.countries # {} => d.destination_country \in s.countries
    /\ \A i \in s.departure : d.departure_date >= i.from /\ d.departure_date <= i.to
    /\ \A i \in s.return : d.return_date >= i.from /\ d.return_date <= i.to
    /\ \A e \in s.exact : d.return_date = e \/ d.departure_date = e
    /\ \A i \in s.stay : d.stay_days >= i.from /\ d.stay_days <= i.to
    /\ \A flag \in s.direct : flag = d.direct
    /\ \A days_set \in s.departure_weekdays : d.departure_day_of_week \cap days_set # {}
    /\ \A days_set \in s.return_weekdays : d.return_day_of_week \cap days_set # {}

(* deals::utils::equal()                                                   *)
equal(d1, d2) ==
    /\ d1.departure_date = d2.departure_date
    /\ d1.return_date = d2.return_date
    /\ d1.direct = d2.direct
    /\ d1.destination = d2.destination
    /\ d1.origin = d2.origin

(* A slip in process_deal(): a newer price of the same trip counts only    *)
(* when it is not higher.                                                  *)
TakesCheaper(dst, d) == dst.price = 0 \/ d.price <= dst.price

(* Whether the deal of a group gives way to d.                             *)
Takes(dst, d) ==
    IF dst.price = 0 \/ d.price <= dst.price
    THEN ~(equal(d, dst) /\ dst.timestamp > d.timestamp)
    ELSE equal(d, dst) /\ dst.timestamp < d.timestamp

(* The map of the groups and the map of their histories are one here: they *)
(* are written together, and the deal of a group is the last one of its    *)
(* history, but for the mark overriden, which no answer shows.             *)
Keep(key, d) ==
    hist' = IF key \notin DOMAIN hist THEN [k \in DOMAIN hist \cup {key} |->
                                              IF k = key THEN <<d>> ELSE hist[k]]
            ELSE IF Takes(Last(hist[key]), d) THEN [hist EXCEPT ![key] = Append(@, d)]
            ELSE hist

(* A word of 32 bits is the set of the positions of its ones.              *)
Word(n) == {k \in 0..26 : (n \div 2^k) % 2 = 1}
ShiftLeft(w, n) == {k + n : k \in w} \cap 0..31
Xor(w1, w2) == (w1 \ w2) \cup (w2 \ w1)

(* A slip in getDateToGroup(): the two dates are not shifted apart.        *)
getDateToGroupUnshifted(query, d) ==
    Xor(Word(d.departure_date), Word(d.return_date))

getDateToGroup(query, d) ==
    IF query.filters.exact # {}
    THEN IF d.return_date \in query.filters.exact THEN Word(d.departure_date)
         ELSE Word(d.return_date) \cup {31}
    ELSE IF query.filters.all_combinations
    THEN Xor(ShiftLeft(Word(d.departure_date), 18), Word(d.return_date))
    ELSE IF query.by_return THEN Word(d.return_date)
    ELSE Word(d.departure_date)

SimplyCheapest(d) == Keep(d.destination, d)
CheapestByDay(d) == Keep(getDateToGroup(q, d), d)
CheapestByCountry(d) == Keep(d.destination_country, d)

process_deal(d) ==
    \/ q.class = "SimplyCheapest" /\ SimplyCheapest(d)
    \/ q.class = "CheapestByDay" /\ CheapestByDay(d)
    \/ q.class = "CheapestByCountry" /\ CheapestByCountry(d)

Scanned ==
    /\ phase = "scan"
    /\ pos < Len(store)
    /\ pos' = pos + 1
    /\ UNCHANGED <<now, horizon, store, phase, request, q, result, reply>>

process_element ==
    /\ Scanned
    /\ request.path = "/deals/top"
    /\ LET d == store[pos + 1]
       IN  IF Passes(q.filters, q.min_timestamp, d) THEN process_deal(d) ELSE UNCHANGED hist

-----------------------------------------------------------------------------
(* The end of a search: post_search(), execute() and the answer            *)

Outdates(d, last) == equal(d, last) /\ d.timestamp > last.timestamp

(* findCheapestAndLast().  When a deal of the history outdates the last    *)
(* one, the code takes history[len] and only then decreases len, and its   *)
(* loop starts again at the second deal: the first retry is with the same  *)
(* deal.  retry[len] is the result of the loop as it starts again.         *)
findCheapestAndLast(h) ==
    LET n == Len(h)
        retry[len \in 0..(n - 2)] ==
            IF \E i \in 2..len : Outdates(h[i], h[len + 2]) THEN retry[len - 1]
            ELSE h[len + 2]
    IN  IF \E i \in 1..(n - 1) : Outdates(h[i], h[n]) THEN retry[n - 2] ELSE h[n]

(* The orders in which the answers are sorted.                             *)
CheaperFirst(a, b) == a.price < b.price
CountryBefore(a, b) == a.price < b.price

DayBefore(query, a, b) ==
    IF query.filters.exact # {}
    THEN LET e == Get([value |-> query.filters.exact])
         IN  IF a.return_date = e /\ b.return_date = e
             THEN a.departure_date < b.departure_date
             ELSE IF a.departure_date = e /\ b.departure_date = e
             THEN a.return_date < b.return_date
             ELSE a.return_date = e
    ELSE IF query.by_return THEN a.return_date < b.return_date
    ELSE IF a.departure_date = b.departure_date THEN a.return_date < b.return_date
    ELSE a.departure_date < b.departure_date

Before(query, a, b) ==
    CASE query.class = "CheapestByDay" -> DayBefore(query, a, b)
      [] query.class = "CheapestByCountry" -> CountryBefore(a, b)
      [] OTHER -> CheaperFirst(a, b)

(* The deals that the groups are answered with, sorted; std::sort() leaves *)
(* the order of equal ones open.                                           *)
Sorted(query, deals) ==
    {s \in SetToSeqs(deals) :
        \A i, j \in DOMAIN s : i < j => ~Before(query, s[j], s[i])}

Smaller(a, b) == IF a < b THEN a ELSE b

(* The number of characters of a number, and of the list of the sizes.     *)
Digits(n) == IF n = 0 THEN 1 ELSE Cardinality({k \in 0..9 : 10^k <= n})
SizesLength(deals) ==
    LET sum[n \in 0..Len(deals)] ==
            IF n = 0 THEN 0 ELSE sum[n - 1] + Digits(deals[n].size) + 1
    IN  sum[Len(deals)]

(* A slip in writeTopResult(): the first number does not count itself.     *)
SizeInfoAlone(len) == len + Digits(len) + 1

(* writeTopResult(): the first number is the length of size_info, with the *)
(* number itself.                                                          *)
SizeInfo(len) ==
    LET strlen == Digits(len)
        corrected == IF Digits(len + strlen + 1) # strlen THEN strlen + 1 ELSE strlen
    IN  len + corrected + 1

writeTopResult(deals) ==
    IF deals = <<>> THEN [status |-> 204, size_info |-> 0]
    ELSE [status |-> 200, size_info |-> SizeInfo(SizesLength(deals))]

AnswerTop ==
    /\ phase = "scan" /\ pos = Len(store)
    /\ request.path = "/deals/top"
    /\ \E s \in Sorted(q, {findCheapestAndLast(hist[k]) : k \in DOMAIN hist}) :
          result' = SubSeq(s, 1, Smaller(Len(s), q.limit))
    /\ reply' = writeTopResult(result')
    /\ phase' = "answered"
    /\ UNCHANGED <<now, horizon, store, request, q, pos, hist>>

-----------------------------------------------------------------------------
(* GET /deals/uniqueRoutes and GET /deals/stats                            *)

(* Both look at every element that the table shows, expired ones too.      *)
getUniqueRoutes == phase = "idle" /\ BeginScan([path |-> "/deals/uniqueRoutes"], Fresh)
getStats == phase = "idle" /\ BeginScan([path |-> "/deals/stats"], Fresh)

RouteTakes(dst, d) ==
    IF dst.price = 0 \/ dst.price >= d.price
    THEN ~(dst.price = d.price /\ dst.timestamp > d.timestamp)
    ELSE equal(d, dst) /\ dst.timestamp < d.timestamp

(* UniqueProcessor: one deal per route, without a history.                 *)
process_route ==
    /\ Scanned
    /\ request.path = "/deals/uniqueRoutes"
    /\ LET d == store[pos + 1]
           route == <<d.origin, d.destination>>
       IN  hist' = IF route \in DOMAIN hist /\ ~RouteTakes(hist[route][1], d) THEN hist
                   ELSE [k \in DOMAIN hist \cup {route} |->
                            IF k = route THEN <<d>> ELSE hist[k]]

(* StatsProcessor, whose four numbers are all that it keeps.               *)
NoStats == [elements |-> 0, size |-> 0, min |-> LastDate, max |-> 0]
StatsOf(h) == IF h = <<>> THEN NoStats ELSE h[1]

process_stats ==
    /\ Scanned
    /\ request.path = "/deals/stats"
    /\ LET d == store[pos + 1]
           s == StatsOf(hist)
       IN  hist' = <<[elements |-> s.elements + 1,
                      size |-> s.size + d.size,
                      min |-> Smaller(s.min, d.timestamp),
                      max |-> IF d.timestamp > s.max THEN d.timestamp ELSE s.max]>>

(* The routes are answered in the order of the hash map, one text for all. *)
AnswerRoutes ==
    /\ phase = "scan" /\ pos = Len(store)
    /\ request.path = "/deals/uniqueRoutes"
    /\ \E s \in SetToSeqs({hist[k][1] : k \in DOMAIN hist}) : result' = s
    /\ reply' = [status |-> IF result' = <<>> THEN 204 ELSE 200, size_info |-> 0]
    /\ phase' = "answered"
    /\ UNCHANGED <<now, horizon, store, request, q, pos, hist>>

(* The statistics are never an empty text.                                 *)
AnswerStats ==
    /\ phase = "scan" /\ pos = Len(store)
    /\ request.path = "/deals/stats"
    /\ result' = <<StatsOf(hist)>>
    /\ reply' = [status |-> 200, size_info |-> 0]
    /\ phase' = "answered"
    /\ UNCHANGED <<now, horizon, store, request, q, pos, hist>>

(* The query object and the connection go; nothing of them is kept.        *)
Close ==
    /\ phase = "answered"
    /\ phase' = "idle"
    /\ request' = Fresh /\ q' = Fresh
    /\ pos' = 0 /\ hist' = <<>> /\ result' = <<>>
    /\ reply' = NoReply
    /\ UNCHANGED <<now, horizon, store>>

Next ==
    \/ Tick
    \/ \E r \in AddRequests : addDeal(r) \/ addDealThrows(r)
    \/ \E r \in TopRequests : getTop(r) \/ getTopThrows(r)
    \/ getUniqueRoutes \/ getStats
    \/ process_element \/ process_route \/ process_stats
    \/ AnswerTop \/ AnswerRoutes \/ AnswerStats
    \/ Close

Spec == Init /\ [][Next]_vars

-----------------------------------------------------------------------------
(* Properties                                                              *)

TypeOK ==
    /\ now \in DEALS_EXPIRES..MaxTime
    /\ Len(store) <= MaxDeals
    /\ phase \in {"idle", "scan", "answered"}
    /\ pos \in 0..Len(store)
    /\ q # Fresh => q.limit \in 0..UINT16_MAX
    /\ reply.status \in {0, 200, 204, 400, 500}

Answered(paths) == phase = "answered" /\ request.path \in paths /\ reply.status \in {200, 204}

(* What the parameters of a request ask for, read as the documentation     *)
(* reads them and not as the filters of the query are built.               *)
Wanted(d) ==
    LET p == TopParams(request)
    IN  /\ d.timestamp > now - DEALS_EXPIRES /\ d.timestamp > horizon - DEALS_EXPIRES
        /\ \A v \in p.origin.value : d.origin = v
        /\ \A v \in p.timelimit.value : d.timestamp + v >= now
        /\ \A v \in p.roundtrip_flights.value : v = (d.return_date # 0)
        /\ \/ isUndefined(p.destinations) /\ ~Is(p.add_locale_top, TRUE)
           \/ /\ Is(p.add_locale_top, TRUE)
              /\ \E top \in LocaleTops :
                    /\ q.filters.destinations = codes_set(p.destinations) \cup top
                    /\ d.destination \in top \/ (top = {} /\ isUndefined(p.destinations))
           \/ {d.destination} \in UNION p.destinations.value
        /\ \A v \in p.destination_countries.value : {d.destination_country} \in v
        /\ \A v \in p.departure_date_from.value : d.departure_date >= v
        /\ \A v \in p.departure_date_to.value : d.departure_date <= v
        /\ \A v \in p.return_date_from.value : d.return_date >= v
        /\ \A v \in p.return_date_to.value : d.return_date <= v
        /\ \A v \in p.departure_or_return_date.value : v \in {d.departure_date, d.return_date}
        /\ \A v \in p.stay_from.value : d.stay_days >= v
        /\ \A v \in p.stay_to.value : d.stay_days <= v
        /\ \A v \in p.direct_flights.value : v = d.direct
        /\ \A v \in p.departure_days_of_week.value : d.departure_day_of_week \subseteq v
        /\ \A v \in p.return_days_of_week.value : d.return_day_of_week \subseteq v

Closed(from, to) == isDefined(from) /\ isDefined(to)

(* The day by which a search by day groups: of departure, when the request *)
(* gives an interval of several days of departure, and else of return; the *)
(* documentation has groups by departure for those too.  For a             *)
(* request that gives no day of departure the code compares a duration     *)
(* that nothing has set, and it may be either.                             *)
DaysOfGroups ==
    LET p == TopParams(request)
        from == p.departure_date_from
        to == p.departure_date_to
    IN  IF request.path # "/deals/top" THEN {"departure_date"}
        ELSE IF isUndefined(from) /\ isUndefined(to) THEN {"departure_date", "return_date"}
        ELSE IF Closed(from, to) /\ Get(from) < Get(to) THEN {"departure_date"}
        ELSE {"return_date"}

(* The group that a deal belongs to, told by the parameters of the request *)
(* and by dates and names: not by the query, nor by the 32 bits of a key.  *)
GroupOf(day, d) ==
    LET p == TopParams(request)
        exact == p.departure_or_return_date
    IN  IF request.path = "/deals/uniqueRoutes" THEN <<d.origin, d.destination>>
        ELSE IF Is(p.group_by_date, TRUE)
        THEN IF isDefined(exact)
             THEN IF d.return_date = Get(exact) THEN <<"to", d.departure_date>>
                  ELSE <<"from", d.return_date>>
             ELSE IF Is(p.all_combinations, TRUE) THEN <<d.departure_date, d.return_date>>
             ELSE <<d[day]>>
        ELSE IF Is(p.group_by_country, TRUE) THEN <<d.destination_country>>
        ELSE <<d.destination>>

Candidates ==
    {store[i] : i \in {j \in DOMAIN store : request.path = "/deals/top" => Wanted(store[j])}}

Groups(day) == {GroupOf(day, d) : d \in Candidates}

(***************************************************************************)
(* An answer to /deals/top holds wanted deals only, at most one of a       *)
(* group, and a deal of every group as far as the limit goes: no filter    *)
(* drops or lets in a deal at the edge of an interval, and no two groups   *)
(* share a key (CheapestByDay folds two dates into 32 bits).               *)
(***************************************************************************)
OneAnswerPerGroup ==
    Answered({"/deals/top"}) =>
        /\ \A i \in DOMAIN result : result[i] \in Candidates
        /\ \E day \in DaysOfGroups :
              /\ \A i, j \in DOMAIN result :
                    GroupOf(day, result[i]) = GroupOf(day, result[j]) => i = j
              /\ Len(result) = Smaller(Cardinality(Groups(day)), q.limit)

(* The elements of the table lie in the order of their timestamps.         *)
TimeOrdered == \A i, j \in DOMAIN store : i < j => store[i].timestamp <= store[j].timestamp

(***************************************************************************)
(* When the scan meets the deals in the order in which they were stored,   *)
(* no deal of a group that is newer than the answer is cheaper or is for   *)
(* the same trip: process_deal() replaces, findCheapestAndLast() does not  *)
(* undo it.  The same holds for unique routes.  That a newer deal for the  *)
(* same trip replaces the older one, dearer or not, is what the comment in *)
(* deals_types.cpp wants; the documentation wants the cheaper of the two,  *)
(* see RightByOneRule.                                                     *)
(***************************************************************************)
NoNewerIsBetter ==
    Answered({"/deals/top", "/deals/uniqueRoutes"}) /\ TimeOrdered =>
        \E day \in DaysOfGroups :
            \A i \in DOMAIN result, d \in Candidates :
                /\ GroupOf(day, d) = GroupOf(day, result[i])
                /\ d.timestamp > result[i].timestamp
                => d.price > result[i].price /\ ~equal(d, result[i])

(***************************************************************************)
(* A search by day whose intervals are closed is never cut: the limit that *)
(* pre_search() computes from durations is enough for a group per day, per *)
(* pair of days, or per day on either side of departure_or_return_date.    *)
(***************************************************************************)
EveryDayAnswered ==
    LET p == TopParams(request)
    IN  /\ Answered({"/deals/top"})
        /\ Is(p.group_by_date, TRUE)
        /\ Closed(p.departure_date_from, p.departure_date_to)
        /\ Closed(p.return_date_from, p.return_date_to)
        => \A day \in DaysOfGroups : Len(result) = Cardinality(Groups(day))

(***************************************************************************)
(* The first number of the answer to /deals/top is the length of the whole *)
(* list of sizes, the number itself and its semicolon included: a client   *)
(* finds the data behind it.                                               *)
(***************************************************************************)
SizeInfoCountsItself ==
    Answered({"/deals/top"}) /\ result # <<>> =>
        reply.size_info = Digits(reply.size_info) + 1 + SizesLength(result)

(* What the comments at findCheapestAndLast() want of an answer a: no newer *)
(* deal for the same trip has replaced it, and it is the cheapest of its    *)
(* group of which that is true.                                             *)
CheapestUpToDate(a, day) ==
    LET Current(d) == \A o \in Candidates : ~Outdates(o, d)
    IN  /\ Current(a)
        /\ \A d \in Candidates :
              GroupOf(day, d) = GroupOf(day, a) /\ Current(d) => a.price <= d.price

(* What the documentation says of it: of several deals stored for one       *)
(* origin, destination and pair of dates the one with the lowest price.     *)
LowestPrice(a) ==
    \A d \in Candidates :
        /\ d.origin = a.origin /\ d.destination = a.destination
        /\ d.departure_date = a.departure_date /\ d.return_date = a.return_date
        => a.price <= d.price

(***************************************************************************)
(* When the scan meets the deals in the order in which they were stored,   *)
(* an answer of findCheapestAndLast() is right by the comments in the code *)
(* or by the documentation: whoever is right about what a newer and dearer *)
(* deal for the same trip means.                                           *)
(***************************************************************************)
RightByOneRule ==
    Answered({"/deals/top"}) /\ TimeOrdered =>
        \E day \in DaysOfGroups : \A i \in DOMAIN result :
            CheapestUpToDate(result[i], day) \/ LowestPrice(result[i])

-----------------------------------------------------------------------------
(* What the properties on answers are promised for, as far as it is not in *)
(* the assumptions on the constants; DealsQueryProofs needs it.            *)

(* The dates that texts can name.                                          *)
DateCodes == {DateOf[item] : item \in DOMAIN DateOf}

(* The dates that texts name are dates: the code checks their form only,   *)
(* and a month 99 would make two pairs of dates share a key.               *)
CalendarDates == \A c \in DateCodes : CalendarDate(c)

(* No request asks for deals of a lifetime that may exceed the clock: the   *)
(* bound that it sets is a uint32_t, wraps, and stops every deal.           *)
ShortLifetimes ==
    \A r \in TopRequests : \A v \in TopParams(r).timelimit.value : v <= DEALS_EXPIRES

(* A request for all combinations of days names days of departure and of    *)
(* return: checkInputParams() would read a duration that nothing has set.   *)
NamedDays ==
    \A r \in TopRequests :
        LET p == TopParams(r)
        IN  Is(p.group_by_date, TRUE) /\ Is(p.all_combinations, TRUE) =>
              /\ isDefined(p.departure_date_from) \/ isDefined(p.departure_date_to)
              /\ isDefined(p.return_date_from) \/ isDefined(p.return_date_to)

(* The days of a request around one date fit into the limit of an answer,   *)
(* which has 16 bits: 179 years.                                            *)
ShortSpans ==
    \A r \in TopRequests :
        LET p == TopParams(r)
        IN  isDefined(p.departure_or_return_date)
              /\ Closed(p.departure_date_from, p.departure_date_to)
              /\ Closed(p.return_date_from, p.return_date_to)
              => duration(p.departure_date_from, p.return_date_to) <= UINT16_MAX
=============================================================================

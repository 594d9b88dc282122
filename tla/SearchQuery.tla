---------------------------- MODULE SearchQuery ----------------------------
(***************************************************************************)
(* query::SearchQuery: the filters of a search and the setters that fill   *)
(* them from the parameters of a request.  A filter that is not set is {}, *)
(* one that is set is a set of one value; the sets of destinations and     *)
(* countries are filters when they are not empty.                          *)
(*                                                                         *)
(* DateInterval has no initializers: as long as departure_dates() or       *)
(* return_dates() has not set a filter its duration is whatever the stack  *)
(* held, a member of Uninitialized.                                        *)
(***************************************************************************)
EXTENDS Types

CONSTANT Uninitialized

ASSUME UninitializedAssumption == Uninitialized \subseteq Int /\ Uninitialized # {}

(* UINT32_MAX as the end of an interval: above every date.                 *)
LastDate == 99999999

ASSUME DatesAssumption == \A item \in DOMAIN DateOf : DateOf[item] \in 0..LastDate

UINT8_MAX == 255
UINT16_MAX == 65535

(* A slip in the declaration of filter_result_limit: it is not narrow.     *)
uint16_tWide(n) == n

(* The default of filter_result_limit, and its width.                      *)
DefaultLimit == 20
uint16_t(n) == n % 65536

(* destinations() and destination_countries() take the code of every       *)
(* element, and throw for one that is not defined.                         *)
codes_throw(p) == {} \in UNION p.value
codes_set(p) == UNION UNION p.value

(* departure_dates() and return_dates(): an end that is not given is open. *)
interval(from, to) ==
    IF isUndefined(from) /\ isUndefined(to) THEN {}
    ELSE {[from |-> IF isDefined(from) THEN Get(from) ELSE 0,
           to |-> IF isDefined(to) THEN Get(to) ELSE LastDate]}

interval_throws(from, to) == \E i \in interval(from, to) : i.from > i.to

(* The number of days of a closed interval; 0 for one with an open end.    *)
duration(from, to) ==
    IF isDefined(from) /\ isDefined(to) THEN days_after(Get(to), Get(from)) + 1 ELSE 0

(* What the field duration may hold once the setter has run.               *)
durations(from, to) ==
    IF interval(from, to) = {} THEN Uninitialized ELSE {duration(from, to)}

(* calc_departue_return_max_duration()                                     *)
max_duration(dep_from, dep_to, ret_from, ret_to) ==
    LET dep_range == duration(dep_from, dep_to)
        ret_range == duration(ret_from, ret_to)
    IN  IF isDefined(dep_from) /\ isDefined(ret_to) THEN duration(dep_from, ret_to)
        ELSE IF Above(dep_range, ret_range) THEN dep_range ELSE ret_range

stay_days(from, to) ==
    IF isUndefined(from) /\ isUndefined(to) THEN {}
    ELSE {[from |-> IF isDefined(from) THEN Get(from) ELSE 0,
           to |-> IF isDefined(to) THEN Get(to) ELSE UINT8_MAX]}

stay_days_throws(from, to) ==
    \/ \E n \in from.value \cup to.value : n > UINT8_MAX
    \/ \E i \in stay_days(from, to) : i.from > i.to

result_limit(limit) == IF isDefined(limit) THEN Get(limit) ELSE DefaultLimit
result_limit_throws(limit) == \E n \in limit.value : ~(n > 0 /\ n <= 367)

(* timestamp_value is a uint32_t: it wraps for a lifetime above the clock. *)
max_lifetime_sec(lifetime, now) == {now - n : n \in lifetime.value}

(* all_combinations() is not a filter that is set, only a flag.            *)
all_combinations(flag) == Is(flag, TRUE)

(* The setters of the other filters keep the value of a parameter that is  *)
(* defined: weekdays, direct flights, round trips, origin, exact date.     *)
filter(p) == p.value

(* searchFor() calls the setters one after the other; each of them may     *)
(* throw a types::Error, and all of those are bad parameters.              *)
SettersThrow(p) ==
    \/ codes_throw(p.destinations)
    \/ codes_throw(p.destination_countries)
    \/ interval_throws(p.departure_date_from, p.departure_date_to)
    \/ interval_throws(p.return_date_from, p.return_date_to)
    \/ stay_days_throws(p.stay_from, p.stay_to)
    \/ result_limit_throws(p.deals_limit)

(* The query that searchFor() has built of the parameters p.               *)
Queries(p, now) ==
    {[origin |-> filter(p.origin),
      destinations |-> codes_set(p.destinations),
      countries |-> codes_set(p.destination_countries),
      departure |-> interval(p.departure_date_from, p.departure_date_to),
      departure_duration |-> dep,
      return |-> interval(p.return_date_from, p.return_date_to),
      return_duration |-> ret,
      departure_weekdays |-> filter(p.departure_days_of_week),
      return_weekdays |-> filter(p.return_days_of_week),
      stay |-> stay_days(p.stay_from, p.stay_to),
      direct |-> filter(p.direct_flights),
      roundtrip |-> filter(p.roundtrip_flights),
      timestamp |-> max_lifetime_sec(p.timelimit, now),
      limit |-> result_limit(p.deals_limit),
      exact |-> filter(p.departure_or_return_date),
      max_duration |-> max_duration(p.departure_date_from, p.departure_date_to,
                                    p.return_date_from, p.return_date_to),
      all_combinations |-> all_combinations(p.all_combinations)]
     : dep \in durations(p.departure_date_from, p.departure_date_to),
       ret \in durations(p.return_date_from, p.return_date_to)}
=============================================================================

--------------------------- MODULE MCDealsQuery ---------------------------
(* Texts, requests and bounds for the runs of DealsQuery.                  *)
EXTENDS DealsQuery

MCIata == [MOW |-> "MOW", MAD |-> "MAD", BER |-> "BER"]
MCCountry == [IT |-> 108, DE |-> 82, RU |-> 184]
MCDateOf == ("2016-12-31" :> 20161231) @@ ("2017-01-01" :> 20170101)
              @@ ("2017-01-02" :> 20170102)
MCNumberOf == ("0" :> 0) @@ ("1" :> 1) @@ ("2" :> 2) @@ ("14" :> 14) @@ ("15" :> 15)
                @@ ("16" :> 16) @@ ("254" :> 254)

Add(destination, country, departure, return, direct, price, size) ==
    [path |-> "/deals/add", origin |-> <<"MOW">>, destination |-> <<destination>>,
     destination_country |-> <<country>>, departure_date |-> <<departure>>,
     return_date |-> return, direct_flight |-> direct, price |-> <<price>>,
     locale |-> <<"RU">>, size |-> size]

Good == {
    Add("MAD", "IT", "2016-12-31", <<"2017-01-02">>, <<"true">>, "14", 1000),
    Add("MAD", "IT", "2016-12-31", <<"2017-01-02">>, <<"true">>, "16", 1000),
    Add("MAD", "IT", "2017-01-01", <<"2017-01-02">>, <<"false">>, "15", 100),
    Add("BER", "DE", "2017-01-01", <<>>, <<"true">>, "15", 100),
    Add("BER", "DE", "2017-01-01", <<"2017-01-01">>, <<"true">>, "0", 1)}

(* What addDeal() refuses: a price that is no number, no date, a flight to *)
(* its own origin, a return before the departure.                          *)
Refused == {
    Add("MAD", "IT", "2017-01-01", <<>>, <<"true">>, "cheap", 1),
    Add("MAD", "IT", "soon", <<>>, <<>>, "15", 1),
    Add("MOW", "RU", "2017-01-01", <<>>, <<"true">>, "15", 1),
    Add("MAD", "IT", "2017-01-02", <<"2016-12-31">>, <<"true">>, "15", 1)}

MCAddRequests == Good \cup Refused

Plain == [path |-> "/deals/top", origin |-> <<"MOW">>, destinations |-> <<>>,
        destination_countries |-> <<>>, departure_date_from |-> <<>>,
        departure_date_to |-> <<>>, return_date_from |-> <<>>, return_date_to |-> <<>>,
        departure_days_of_week |-> <<>>, return_days_of_week |-> <<>>, stay_from |-> <<>>,
        stay_to |-> <<>>, timelimit |-> <<>>, deals_limit |-> <<>>, direct_flights |-> <<>>,
        roundtrip_flights |-> <<>>, add_locale_top |-> <<>>, group_by_date |-> <<>>,
        group_by_country |-> <<>>, locale |-> <<>>, departure_or_return_date |-> <<>>,
        all_combinations |-> <<>>]

ByDay == [Plain EXCEPT !.group_by_date = <<"true">>,
                     !.departure_date_from = <<"2016-12-31">>,
                     !.departure_date_to = <<"2017-01-01">>]
TwoWays == [ByDay EXCEPT !.return_date_from = <<"2016-12-31">>,
                         !.return_date_to = <<"2017-01-02">>]

Answerable == {
    Plain,
    [Plain EXCEPT !.deals_limit = <<"1">>, !.timelimit = <<"1">>],
    [Plain EXCEPT !.destinations = <<"MAD", "BER">>, !.roundtrip_flights = <<"true">>,
                !.stay_from = <<"1">>, !.stay_to = <<"254">>],
    [Plain EXCEPT !.departure_days_of_week = <<"sun">>, !.return_days_of_week = <<"mon", "sun">>],
    [Plain EXCEPT !.add_locale_top = <<"true">>, !.locale = <<"RU">>,
                !.direct_flights = <<"true">>],
    [Plain EXCEPT !.add_locale_top = <<"true">>, !.locale = <<"RU">>,
                !.destinations = <<"MAD">>],
    [Plain EXCEPT !.group_by_country = <<"true">>, !.destination_countries = <<"IT">>],
    ByDay,
    [Plain EXCEPT !.group_by_date = <<"true">>, !.return_date_from = <<"2017-01-01">>,
                !.return_date_to = <<"2017-01-02">>],
    TwoWays,
    [TwoWays EXCEPT !.departure_date_from = <<"2017-01-01">>, !.deals_limit = <<"1">>],
    [TwoWays EXCEPT !.all_combinations = <<"true">>],
    [TwoWays EXCEPT !.departure_or_return_date = <<"2017-01-01">>]}

Unanswerable == {
    [Plain EXCEPT !.origin = <<>>],
    [Plain EXCEPT !.deals_limit = <<"many">>],
    [Plain EXCEPT !.deals_limit = <<"0">>],
    [Plain EXCEPT !.destinations = <<"MAD", "", "BER">>],
    [Plain EXCEPT !.add_locale_top = <<"true">>],
    [Plain EXCEPT !.all_combinations = <<"true">>],
    [Plain EXCEPT !.departure_days_of_week = <<"noday">>],
    [Plain EXCEPT !.departure_date_from = <<"2017-01-02">>, !.return_date_to = <<"2016-12-31">>]}

MCTopRequests == Answerable \cup Unanswerable

(* For the comment at findCheapestAndLast(): one group per destination, and *)
(* no price of 0, which stands for an empty group.                         *)
MCPriced == {r \in Good : r.price # <<"0">>}
MCCheapestRequests == {Plain}

MCLocaleTops == {{}, {"BER"}}
MCUninitialized == {0, 70001}

(* The requests are among those that the properties are promised for.      *)
ASSUME MCPromised == CalendarDates /\ ShortLifetimes /\ NamedDays /\ ShortSpans
=============================================================================

----------------------------- MODULE MCTopDst -----------------------------
(* Two cells, two destinations of one locale and two departure dates for   *)
(* TopDst, and requests for that locale and for one that is unknown.       *)
EXTENDS TopDst

MCIata == [MAD |-> "MAD", BER |-> "BER"]
MCCountry == [RU |-> 184]
MCDateOf == ("2017-01-01" :> 20170101) @@ ("2017-01-02" :> 20170102)
MCNumberOf == ("0" :> 0) @@ ("1" :> 1)

Element(locale, dst, date) == [locale |-> locale, destination |-> dst, departure_date |-> date]
MCDstInfos == {Element(184, "MAD", 20170101), Element(184, "BER", 20170102)}

Locale(name) == [locale |-> name, departure_date_from |-> <<>>, departure_date_to |-> <<>>,
                 destinations_limit |-> <<>>]
MCRequests == {
    Locale(<<"RU">>),
    [Locale(<<"RU">>) EXCEPT !.destinations_limit = <<"1">>],
    [Locale(<<"RU">>) EXCEPT !.departure_date_from = <<"2017-01-02">>],
    [Locale(<<"RU">>) EXCEPT !.destinations_limit = <<"0">>],
    Locale(<<"XX">>)}

MCUninitialized == {0}

(* No action and no property tells one cell from another.                  *)
MCSymmetry == Permutations(Cells)
=============================================================================

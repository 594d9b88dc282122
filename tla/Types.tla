------------------------------- MODULE Types -------------------------------
(***************************************************************************)
(* The parameters of a request (types.cpp, types.hpp): what becomes of a   *)
(* text of the query string.                                               *)
(*                                                                         *)
(* A text is the sequence of the items that split_string() makes of it at  *)
(* its commas; the empty sequence is a parameter that was not given, or    *)
(* given without a value.  What the letters of an item encode is a         *)
(* constant for each class; an item that is in none of them stands for any *)
(* text that the class cannot read.                                        *)
(*                                                                         *)
(* A parameter is a record of the exception that its constructor throws    *)
(* and its value: {} when it is undefined, else a set of one element.      *)
(***************************************************************************)
EXTENDS Dates, Sequences

CONSTANTS Iata,      \* items of three characters, and the codes they pack to
          Country,   \* items that name a country, and their place in COUNTRIES
          DateOf,    \* items of the form YYYY-MM-DD, and the numbers in them
          NumberOf   \* items that begin with a number that stol() can read,
                     \* and what a uint32_t keeps of it: it modulo 2^32

ASSUME NumberAssumption == \A item \in DOMAIN NumberOf : NumberOf[item] \in Nat

(* Exceptions: types::Error with its two codes, and whatever else a        *)
(* library throws, which on_data() answers like an internal error.         *)
Nothing == "none"
BadParameter == "BadParameter"
InternalError == "InternalError"

Undefined == [error |-> Nothing, value |-> {}]
Defined(v) == [error |-> Nothing, value |-> {v}]
Throws(e) == [error |-> e, value |-> {}]

isDefined(p) == p.value # {}
isUndefined(p) == p.value = {}

(* get_code(), get_value(), isTrue() of a parameter that is defined.       *)
Get(p) == CHOOSE v \in p.value : TRUE
Is(p, v) == p.value = {v}

(* The text as one item: a comma makes it unreadable to every class but    *)
(* the lists (and to Number, whose stol() stops at it).                    *)
Whole(text) == IF text = <<>> THEN "" ELSE IF Len(text) = 1 THEN text[1] ELSE ","

(* A class that reads one item by a table.                                 *)
Read(table, item, e) ==
    IF item \in DOMAIN table THEN Defined(table[item]) ELSE Throws(e)

IATACode(text) ==
    IF text = <<>> THEN Undefined ELSE Read(Iata, Whole(text), BadParameter)

CountryCode(text) ==
    IF text = <<>> THEN Undefined ELSE Read(Country, Whole(text), BadParameter)

(* A list reads every item with the class of its elements, for which the   *)
(* empty item between two commas is not defined and no error.              *)
Codes(table, text) ==
    LET items == {text[k] : k \in DOMAIN text}
    IN  IF text = <<>> THEN Undefined
        ELSE IF \E i \in items : i # "" /\ i \notin DOMAIN table THEN Throws(BadParameter)
        ELSE Defined({IF i = "" THEN {} ELSE {table[i]} : i \in items})

IATACodes(text) == Codes(Iata, text)
CountryCodes(text) == Codes(Country, text)

(* add_code(): codes from the database join the list.                      *)
add_codes(p, codes) ==
    IF codes = {} THEN p
    ELSE Defined((UNION p.value) \cup {{c} : c \in codes})

(* date_to_int() checks the dashes and that the rest is a number.          *)
Date(text) ==
    IF text = <<>> THEN Undefined ELSE Read(DateOf, Whole(text), BadParameter)

(* Comparison of dates: false when one of them is undefined.               *)
Later(d1, d2) == \E a \in d1.value, b \in d2.value : a > b

days == <<"mon", "tue", "wed", "thu", "fri", "sat", "sun">>
day_of_week_from_str(item) ==
    IF \E i \in 1..7 : days[i] = item THEN (CHOOSE i \in 1..7 : days[i] = item) - 1 ELSE 7

(* The days whose bits are set; the eighth bit is the error.               *)
weekdays_bitmask(text) == {day_of_week_from_str(text[k]) : k \in DOMAIN text}

Weekdays(text) ==
    IF text = <<>> THEN Undefined
    ELSE IF 7 \in weekdays_bitmask(text) THEN Throws(BadParameter)
    ELSE Defined(weekdays_bitmask(text))

(* stol() reads a long, of which value keeps 32 bits: "-1" is the largest  *)
(* number there is.  For a text that it cannot read, or beyond 64 bits, it *)
(* throws what is not a types::Error: Optional and Required do not turn it *)
(* into a bad parameter.                                                   *)
Number(text) ==
    IF text = <<>> THEN Undefined ELSE Read(NumberOf, text[1], InternalError)

Boolean(text) ==
    IF text = <<>> THEN Undefined
    ELSE IF Whole(text) \in {"true", "false"} THEN Defined(Whole(text) = "true")
    ELSE Throws(BadParameter)

(* A parameter that must be there.  The constructor of Optional adds its   *)
(* name to the message and leaves the parameter as it is.                  *)
Required(p) == IF p = Undefined THEN Throws(BadParameter) ELSE p

(* The exception of the first parameter that throws, in the order in which *)
(* a handler constructs them.                                              *)
FirstError(ps) ==
    LET bad == {k \in DOMAIN ps : ps[k].error # Nothing}
    IN  IF bad = {} THEN Nothing
        ELSE ps[CHOOSE k \in bad : \A j \in bad : k <= j].error

(* terminateWithError()                                                    *)
ErrorStatus(e) == IF e = BadParameter THEN 400 ELSE 500
=============================================================================

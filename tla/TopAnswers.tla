---------------------------- MODULE TopAnswers ----------------------------
(***************************************************************************)
(* What /destinations/top promises, without a word about caches or scans:  *)
(* an answer is a list that follows from what was true of the table in the *)
(* last MaxAge seconds, for the request that is answered.                  *)
(***************************************************************************)
EXTENDS Naturals, Sequences, FiniteSets

CONSTANTS MaxAge,       \* how old an answer may be, in seconds
          Facts,        \* what may be true of the table
          Refusals,     \* answers that are errors
          Tops(_, _)    \* the lists that answer a request, from a set of facts

VARIABLES found,    \* what is true of the table now
          recent,   \* recent[a]: what was true of it in the second now - a
          answer    \* the last answer

vars == <<found, recent, answer>>

Init ==
    /\ found \in SUBSET Facts
    /\ recent = [a \in 0..MaxAge |-> IF a = 0 THEN found ELSE {}]
    /\ answer \in Refusals

(* Deals are added, expire, or are cleared.                                *)
Change ==
    /\ found' \in SUBSET Facts
    /\ recent' = [recent EXCEPT ![0] = @ \cup found']
    /\ UNCHANGED answer

SecondPasses ==
    /\ recent' = [a \in 0..MaxAge |-> IF a = 0 THEN found ELSE recent[a - 1]]
    /\ UNCHANGED <<found, answer>>

Answer ==
    /\ \/ answer' \in Refusals
       \/ answer'.list \in Tops(UNION {recent[a] : a \in 0..MaxAge}, answer'.request)
    /\ UNCHANGED <<found, recent>>

Next == Change \/ SecondPasses \/ Answer

Spec == Init /\ [][Next]_vars
=============================================================================

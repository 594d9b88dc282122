----------------------------- MODULE MCDealsDb -----------------------------
(***************************************************************************)
(* DealsDb for TLC.  Processes are interchangeable, and so are deals.       *)
(***************************************************************************)
EXTENDS DealsDb, TLC

Symmetry == Permutations(Procs) \union Permutations(Deals)
=============================================================================

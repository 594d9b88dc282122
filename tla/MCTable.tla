------------------------------ MODULE MCTable ------------------------------
(***************************************************************************)
(* Table for TLC.  The processes are interchangeable; safety runs use that. *)
(***************************************************************************)
EXTENDS Table, TLC

ProcSymmetry == Permutations(Procs)

-----------------------------------------------------------------------------
(* What the documentation and the comments of the repository say            *)

(* "No data is duplicated between instances; each instance maps the same    *)
(* physical memory" (DOCUMENTATION.md): once addRecord() has returned, the  *)
(* page that the row names holds the record, for every process.             *)
StoredRecordsReachable ==
    \A s \in Slots : \A c \in stored[s] :
      /\ file[s] \in Pages
      /\ \A i \in Cells : c.from <= i /\ i < c.to => elements[file[s]][i] = c.by
=============================================================================

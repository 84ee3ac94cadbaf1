---------------------------- MODULE MCHistoryCache ---------------------------
(* Instances of HistoryCache. *)
EXTENDS HistoryCache, TLC

Interchangeable == Permutations(Term) \cup Permutations(Worker)
=============================================================================

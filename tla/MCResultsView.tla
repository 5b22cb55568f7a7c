--------------------------- MODULE MCResultsView ---------------------------
(* Two runs, of which the first answers late, and two tables of an overlay *)
(* are interchangeable.                                                    *)
EXTENDS ResultsView, TLC

Interchangeable == Permutations(Runs) \cup Permutations(Tables)
=============================================================================

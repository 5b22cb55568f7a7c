--------------------------- MODULE MCCaseSession ---------------------------
(* Cases, runs and slots are interchangeable.                              *)
EXTENDS CaseSession, TLC

Interchangeable ==
    Permutations(Cases) \cup Permutations(Runs) \cup Permutations(Slots)
=============================================================================

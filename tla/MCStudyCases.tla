---------------------------- MODULE MCStudyCases ----------------------------
(* Threads, projects and identifiers are interchangeable.                  *)
EXTENDS StudyCases, TLC

Interchangeable ==
    Permutations(Procs) \cup Permutations(Cases) \cup Permutations(Projects)
=============================================================================

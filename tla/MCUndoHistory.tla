--------------------------- MODULE MCUndoHistory ---------------------------
(* A field that is set and reset, and one that is only ever set: it goes   *)
(* back by undo alone.  Slots are interchangeable.                         *)
EXTENDS UndoHistory, TLC

CONSTANTS name, in_service

MCFields == {name, in_service}
MCEdits == {p \in Parts : p.new # p.old /\ (p.field = name => p.new = 1)}
Slots == Permutations(Calls)
=============================================================================

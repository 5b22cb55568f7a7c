--------------------------- MODULE LinearHistory ---------------------------
(***************************************************************************)
(* What undo and redo promise: one line of documents, the present one in   *)
(* the middle.  An edit goes on from the present and forgets the future;   *)
(* only the oldest document of the past is ever dropped.  The promise is   *)
(* void from the moment its caller breaks the rules until the line is      *)
(* cleared.                                                                *)
(***************************************************************************)
EXTENDS Integers, Sequences

CONSTANTS
    Docs,           \* documents
    MaxHistory      \* how many documents of the past are kept

VARIABLES
    past,           \* documents undo returns to, the nearest one last
    present,
    future,         \* documents redo returns to, the nearest one last
    void            \* nothing is promised any more

lineVars == <<past, present, future, void>>

LineInit ==
    /\ past = << >>
    /\ present \in Docs
    /\ future = << >>
    /\ void = FALSE

Top(s) == s[Len(s)]
Pop(s) == SubSeq(s, 1, Len(s) - 1)
Latest(s) == IF Len(s) > MaxHistory THEN Tail(s) ELSE s

Edit(d) ==
    /\ past' = Latest(Append(past, present))
    /\ present' = d
    /\ future' = << >>

Undo ==
    /\ past # << >>
    /\ past' = Pop(past)
    /\ present' = Top(past)
    /\ future' = Append(future, present)

Redo ==
    /\ future # << >>
    /\ past' = Append(past, present)
    /\ present' = Top(future)
    /\ future' = Pop(future)

Forget ==
    /\ past' = << >>
    /\ future' = << >>
    /\ UNCHANGED present

Promised ==
    /\ ~void
    /\ UNCHANGED void
    /\ Edit(present') \/ Undo \/ Redo \/ Forget

GiveUp == void' = TRUE

Restart ==
    /\ void /\ ~void'
    /\ past' = << >>
    /\ future' = << >>

LineNext == Promised \/ GiveUp \/ Restart
LineSpec == LineInit /\ [][LineNext]_lineVars
=============================================================================

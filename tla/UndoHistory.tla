---------------------------- MODULE UndoHistory ----------------------------
(***************************************************************************)
(* The undo history of the editor: ui/history/HistoryStore.ts with the     *)
(* property commands of ui/history/commands.  A command writes fields of   *)
(* the document, one awaited call of applyFn per field; the stacks are set *)
(* after the last one.  push, undo, redo and commitTransaction are async   *)
(* and no caller waits for the previous call: every call in flight has a   *)
(* slot.                                                                   *)
(***************************************************************************)
EXTENDS Integers, Sequences, FiniteSets

CONSTANTS
    Fields,         \* (element, field) pairs of the document
    Values,
    Edits,          \* the parts users ask for, among Parts
    MAX_HISTORY_SIZE,
    Calls,          \* bound: calls in flight at once
    MaxParts,       \* bound: fields one command or transaction writes
    MaxStacked,     \* bound: commands stacked when a call starts on a
                    \* disturbed history
    NoTransaction,  \* activeTransaction is null
    NoCall          \* a slot without a call

VARIABLES
    doc,                \* what applyFn writes
    undoStack,
    redoStack,
    activeTransaction,  \* the commands of the open transaction, or none
    calls,              \* per slot a call in flight, or NoCall
    disturbed           \* history: the stacks may no longer fit the document

stacks == <<undoStack, redoStack>>
historyVars == <<doc, stacks, activeTransaction, calls, disturbed>>

Docs == [Fields -> Values]

(* A command is the list of the fields it writes.  A transaction becomes   *)
(* the list of those of its commands.                                      *)
Parts == [field : Fields, old : Values, new : Values]
Commands == Seq(Parts)
InFlight == [op : {"push", "undo", "redo"}, command : Commands,
             order : Seq(Nat), done : Nat]

ASSUME HistoryAssumption ==
    /\ MAX_HISTORY_SIZE \in Nat \ {0}
    /\ MaxParts \in Nat
    /\ Edits \subseteq Parts
    /\ MaxStacked \in Nat

ASSUME MarkersAssumption ==
    /\ NoTransaction \notin Commands
    /\ NoCall \notin InFlight

HistoryTypeOK ==
    /\ doc \in Docs
    /\ undoStack \in Seq(Commands)
    /\ redoStack \in Seq(Commands)
    /\ activeTransaction \in Commands \cup {NoTransaction}
    /\ calls \in [Calls -> InFlight \cup {NoCall}]
    /\ \A s \in Calls : calls[s] # NoCall =>
          /\ calls[s].done <= Len(calls[s].command)
          /\ calls[s].order \in
                [DOMAIN calls[s].command -> DOMAIN calls[s].command]
    /\ disturbed \in BOOLEAN

HistoryInit ==
    /\ doc \in Docs
    /\ undoStack = << >>
    /\ redoStack = << >>
    /\ activeTransaction = NoTransaction
    /\ calls = [s \in Calls |-> NoCall]
    /\ disturbed = FALSE

-----------------------------------------------------------------------------
(* Commands.                                                               *)

Top(stack) == stack[Len(stack)]
(* stack.slice(0, -1) of an empty stack is empty.                          *)
Pop(stack) == IF stack = << >> THEN stack ELSE SubSeq(stack, 1, Len(stack) - 1)

Touched(c) == {c[i].field : i \in DOMAIN c}
FirstOn(c, f) ==
    CHOOSE i \in DOMAIN c :
        c[i].field = f /\ \A j \in DOMAIN c : c[j].field = f => i <= j
LastOn(c, f) ==
    CHOOSE i \in DOMAIN c :
        c[i].field = f /\ \A j \in DOMAIN c : c[j].field = f => j <= i

(* What a command found, and what it leaves, in a field it writes.         *)
OldOf(c, f) == c[FirstOn(c, f)].old
NewOf(c, f) == c[LastOn(c, f)].new

(* The command was made for this document.                                 *)
Fits(c, d) == \A f \in Touched(c) : OldOf(c, f) = d[f]

(* The editor fills old from the document it shows when it issues a        *)
(* command; one command names a field once.                                *)
IssuedOn(d) ==
    {c \in UNION {[1..n -> Edits] : n \in 1..MaxParts} :
        /\ \A i \in DOMAIN c : c[i].old = d[c[i].field]
        /\ \A i, j \in DOMAIN c : c[i].field = c[j].field => i = j}

(* The order the parts are written in.  apply goes through them as they    *)
(* stand.  revert goes through the commands of a composite backwards, but  *)
(* through the parts of a batch forwards: those of one field, which belong *)
(* to different commands, are written last first, and how the others are   *)
(* arranged is left open.  The mutant reverts every part in order.         *)
InOrder(c) == [i \in DOMAIN c |-> i]
RevertOrders_InOrder(c) == {InOrder(c)}
RevertOrders(c) ==
    {order \in [DOMAIN c -> DOMAIN c] :
        /\ \A m \in DOMAIN c : \E i \in DOMAIN c : order[i] = m
        /\ \A i, j \in DOMAIN c :
              /\ i < j
              /\ c[order[i]].field = c[order[j]].field
              => order[j] < order[i]}

(* The i-th write of a call.                                               *)
WriteAt(k, i) ==
    LET p == k.command[k.order[i]]
    IN  [field |-> p.field, value |-> IF k.op = "undo" THEN p.old ELSE p.new]

-----------------------------------------------------------------------------
(* Calls.                                                                  *)

Busy == \E s \in Calls : calls[s] # NoCall
Stacked == Len(undoStack) + Len(redoStack)

(* The call captures its command; the stacks change when it ends.  The     *)
(* caller breaks the rule by not waiting, or by pushing a command made for *)
(* another document.                                                       *)
Begin(s, op, c, order) ==
    /\ calls[s] = NoCall /\ (disturbed => Stacked <= MaxStacked)
    /\ calls' = [calls EXCEPT ![s] = [op |-> op, command |-> c,
                                      order |-> order, done |-> 0]]
    /\ disturbed' = (disturbed \/ Busy \/ (op = "push" /\ ~Fits(c, doc)))

(* push: inside a transaction the command is only kept, not applied.       *)
Push(c) ==
    \/ /\ activeTransaction = NoTransaction
       /\ \E s \in Calls : Begin(s, "push", c, InOrder(c))
       /\ UNCHANGED <<doc, stacks, activeTransaction>>
    \/ /\ activeTransaction # NoTransaction
       /\ Len(activeTransaction) + Len(c) <= MaxParts
       /\ activeTransaction' = activeTransaction \o c
       /\ UNCHANGED <<doc, stacks, calls, disturbed>>

Undo(s) ==
    /\ undoStack # << >>
    /\ \E order \in RevertOrders(Top(undoStack)) :
          Begin(s, "undo", Top(undoStack), order)
    /\ UNCHANGED <<doc, stacks, activeTransaction>>

Redo(s) ==
    /\ redoStack # << >>
    /\ Begin(s, "redo", Top(redoStack), InOrder(Top(redoStack)))
    /\ UNCHANGED <<doc, stacks, activeTransaction>>

(* One applyFn takes effect.  The mutant skips every second part.          *)
Write_Skips(s) ==
    LET k == calls[s]
        w == WriteAt(k, k.done + 1)
    IN  /\ k # NoCall /\ k.done < Len(k.command)
        /\ doc' = [doc EXCEPT ![w.field] = w.value]
        /\ calls' = [calls EXCEPT ![s].done = @ + 2]
        /\ UNCHANGED <<stacks, activeTransaction, disturbed>>
Write(s) ==
    LET k == calls[s]
        w == WriteAt(k, k.done + 1)
    IN  /\ k # NoCall /\ k.done < Len(k.command)
        /\ doc' = [doc EXCEPT ![w.field] = w.value]
        /\ calls' = [calls EXCEPT ![s].done = @ + 1]
        /\ UNCHANGED <<stacks, activeTransaction, disturbed>>

(* The last applyFn was answered: the command moves.  undo and redo remove *)
(* whatever is on top by now.  The mutants: push keeps what could be       *)
(* redone; push does not drop the oldest command.                          *)
Moved_KeepsRedo(k) ==
    CASE k.op = "push" ->
            LET pushed == Append(undoStack, k.command)
            IN  /\ undoStack' = IF Len(pushed) > MAX_HISTORY_SIZE
                                THEN Tail(pushed) ELSE pushed
                /\ UNCHANGED redoStack
      [] k.op = "undo" -> /\ undoStack' = Pop(undoStack)
                          /\ redoStack' = Append(redoStack, k.command)
      [] k.op = "redo" -> /\ undoStack' = Append(undoStack, k.command)
                          /\ redoStack' = Pop(redoStack)
Moved_NoLimit(k) ==
    CASE k.op = "push" -> /\ undoStack' = Append(undoStack, k.command)
                          /\ redoStack' = << >>
      [] k.op = "undo" -> /\ undoStack' = Pop(undoStack)
                          /\ redoStack' = Append(redoStack, k.command)
      [] k.op = "redo" -> /\ undoStack' = Append(undoStack, k.command)
                          /\ redoStack' = Pop(redoStack)
Moved(k) ==
    CASE k.op = "push" ->
            LET pushed == Append(undoStack, k.command)
            IN  /\ undoStack' = IF Len(pushed) > MAX_HISTORY_SIZE
                                THEN Tail(pushed) ELSE pushed
                /\ redoStack' = << >>
      [] k.op = "undo" -> /\ undoStack' = Pop(undoStack)
                          /\ redoStack' = Append(redoStack, k.command)
      [] k.op = "redo" -> /\ undoStack' = Append(undoStack, k.command)
                          /\ redoStack' = Pop(redoStack)

End(s) ==
    LET k == calls[s]
    IN  /\ k # NoCall /\ k.done = Len(k.command)
        /\ Moved(k)
        /\ calls' = [calls EXCEPT ![s] = NoCall]
        /\ UNCHANGED <<doc, activeTransaction, disturbed>>

(* An applyFn rejects: push throws, undo and redo return false, and what   *)
(* was written stays written.                                              *)
Reject(s) ==
    /\ calls[s] # NoCall
    /\ calls' = [calls EXCEPT ![s] = NoCall]
    /\ disturbed' = (disturbed \/ calls[s].done > 0)
    /\ UNCHANGED <<doc, stacks, activeTransaction>>

-----------------------------------------------------------------------------
(* Transactions.                                                           *)

(* commitTransaction up to its first await.                                *)
PushCollected ==
    IF activeTransaction = << >>
    THEN UNCHANGED <<calls, disturbed>>
    ELSE \E s \in Calls :
            Begin(s, "push", activeTransaction, InOrder(activeTransaction))

CommitTransaction ==
    /\ activeTransaction # NoTransaction
    /\ PushCollected
    /\ activeTransaction' = NoTransaction
    /\ UNCHANGED <<doc, stacks>>

(* An open transaction is committed first, and not awaited.                *)
BeginTransaction ==
    /\ \/ activeTransaction = NoTransaction /\ UNCHANGED <<calls, disturbed>>
       \/ activeTransaction # NoTransaction /\ PushCollected
    /\ activeTransaction' = << >>
    /\ UNCHANGED <<doc, stacks>>

RollbackTransaction ==
    /\ activeTransaction' = NoTransaction
    /\ UNCHANGED <<doc, stacks, calls, disturbed>>

(* A call in flight survives and will set the emptied stacks.              *)
Clear ==
    /\ undoStack' = << >>
    /\ redoStack' = << >>
    /\ activeTransaction' = NoTransaction
    /\ disturbed' = Busy
    /\ UNCHANGED <<doc, calls>>

HistoryNext ==
    \/ \E c \in IssuedOn(doc) : Push(c)
    \/ \E s \in Calls : Undo(s) \/ Redo(s)
    \/ \E s \in Calls : Write(s) \/ End(s) \/ Reject(s)
    \/ BeginTransaction
    \/ CommitTransaction
    \/ RollbackTransaction
    \/ Clear

HistorySpec == HistoryInit /\ [][HistoryNext]_historyVars

-----------------------------------------------------------------------------
(* Correctness, for callers that wait for the previous call, whose edits   *)
(* fit the document and whose calls fail as a whole.                       *)

(* The document between two calls: the writes of the call in flight are    *)
(* taken back.                                                             *)
Running == CHOOSE s \in Calls : calls[s] # NoCall
Before(k, f) ==
    IF k.op = "undo" THEN NewOf(k.command, f) ELSE OldOf(k.command, f)
Settled ==
    IF ~Busy THEN doc
    ELSE LET k == calls[Running]
         IN  [f \in Fields |->
                IF f \in Touched(k.command) THEN Before(k, f) ELSE doc[f]]

(* The document once the commands of a stack from the top down to i are    *)
(* reverted or applied; ValueOf says what one of them leaves in a field.   *)
Reached(stack, i, ValueOf(_, _)) ==
    [f \in Fields |->
        LET J == {j \in i..Len(stack) : f \in Touched(stack[j])}
        IN  IF J = {} THEN Settled[f]
            ELSE ValueOf(stack[CHOOSE j \in J : \A h \in J : j <= h], f)]
Line(stack, ValueOf(_, _)) ==
    [i \in 1..Len(stack) |-> Reached(stack, i, ValueOf)]

(* Every command on the undo stack finds, when its turn comes, the values  *)
(* it left, and every command on the redo stack those it was made for      *)
(* (Command.ts: revert must restore the exact previous state).             *)
StacksFit ==
    ~disturbed =>
        /\ \A i \in 1..Len(undoStack) : \A f \in Touched(undoStack[i]) :
              Reached(undoStack, i + 1, OldOf)[f] = NewOf(undoStack[i], f)
        /\ \A i \in 1..Len(redoStack) : \A f \in Touched(redoStack[i]) :
              Reached(redoStack, i + 1, NewOf)[f] = OldOf(redoStack[i], f)

(* redo appends to the undo stack without looking at the limit; the two    *)
(* stacks together still never outgrow it.                                 *)
StacksBounded == ~disturbed => Stacked <= MAX_HISTORY_SIZE

(* Undo and redo walk one line of documents.                               *)
History == INSTANCE LinearHistory WITH
    Docs <- Docs,
    MaxHistory <- MAX_HISTORY_SIZE,
    past <- IF disturbed THEN << >> ELSE Line(undoStack, OldOf),
    present <- IF disturbed THEN doc ELSE Settled,
    future <- IF disturbed THEN << >> ELSE Line(redoStack, NewOf),
    void <- disturbed
RefinesLinearHistory == History!LineSpec
=============================================================================

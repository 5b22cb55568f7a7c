------------------------- MODULE UndoHistory_proofs -------------------------
(***************************************************************************)
(* The stacks of UndoHistory for every document, every limit and any       *)
(* number of calls in flight: their type and their bound, that what is on  *)
(* top of them fits the document, and that together they implement         *)
(* LinearHistory.                                                          *)
(***************************************************************************)
EXTENDS UndoHistory, WellFoundedInduction, SequenceTheorems, TLAPS

(* While nobody has broken the rules at most one call is in flight, and    *)
(* the command it moves is still on its stack.                             *)
OneCall ==
    ~disturbed =>
        \A s \in Calls : calls[s] # NoCall =>
            /\ \A t \in Calls : calls[t] # NoCall => t = s
            /\ calls[s].op = "undo" => undoStack # << >>
            /\ calls[s].op = "redo" => redoStack # << >>
HistoryInv == HistoryTypeOK /\ OneCall /\ StacksBounded

-----------------------------------------------------------------------------
(* Sequences.                                                              *)

LEMMA Shorter ==
    ASSUME NEW S, NEW s \in Seq(S), NEW n \in Nat, n <= Len(s)
    PROVE  SubSeq(s, 1, n) \in Seq(S) /\ Len(SubSeq(s, 1, n)) = n
OBVIOUS

LEMMA NothingStacked == << >> \in Seq(Commands) /\ << >> \in Commands
BY DEF Commands

LEMMA TopType ==
    ASSUME NEW stack \in Seq(Commands), stack # << >>
    PROVE  Top(stack) \in Commands
BY DEF Top

LEMMA PopType ==
    ASSUME NEW stack \in Seq(Commands)
    PROVE  /\ Pop(stack) \in Seq(Commands)
           /\ stack # << >> => Len(Pop(stack)) = Len(stack) - 1
<1>1. CASE stack = << >>
  BY <1>1 DEF Pop
<1>2. CASE stack # << >>
  <2>1. Len(stack) \in Nat /\ Len(stack) > 0
    BY <1>2
  <2>2. Len(stack) - 1 \in Nat /\ Len(stack) - 1 <= Len(stack)
    BY <2>1
  <2> QED
    BY <1>2, <2>2, Shorter DEF Pop
<1> QED
  BY <1>1, <1>2

(* What the editor issues is a command.                                    *)
LEMMA IssuedCommands == \A c \in IssuedOn(doc) : c \in Commands
<1> SUFFICES ASSUME NEW c \in IssuedOn(doc) PROVE c \in Commands
  OBVIOUS
<1>1. PICK n \in 1..MaxParts : c \in [1..n -> Edits]
  BY DEF IssuedOn
<1>2. n \in Nat /\ Edits \subseteq Parts
  BY HistoryAssumption
<1> QED
  BY <1>1, <1>2 DEF Commands

(* A call that has written one part more.                                  *)
LEMMA WroteOne ==
    ASSUME NEW k \in InFlight, NEW j, j = [k EXCEPT !.done = k.done + 1]
    PROVE  /\ j \in InFlight /\ j.op = k.op /\ j.command = k.command
           /\ j.order = k.order /\ j.done = k.done + 1
<1> DEFINE C == Commands
           O == Seq(Nat)
<1>1. k \in [op : {"push", "undo", "redo"}, command : C, order : O, done : Nat]
  BY DEF InFlight
<1> HIDE DEF C, O
<1>2. /\ j \in [op : {"push", "undo", "redo"}, command : C, order : O,
                done : Nat]
      /\ j.op = k.op /\ j.command = k.command
      /\ j.order = k.order /\ j.done = k.done + 1
  BY <1>1
<1> QED BY <1>2 DEF InFlight, C, O

(* A part that is written is a part of the command.                        *)
LEMMA WrittenPart ==
    ASSUME NEW k \in InFlight, NEW i \in 1..Len(k.command),
           k.order \in [DOMAIN k.command -> DOMAIN k.command]
    PROVE  /\ WriteAt(k, i).field \in Fields
           /\ WriteAt(k, i).field \in Touched(k.command)
           /\ WriteAt(k, i).value \in Values
<1>1. k.command \in Seq(Parts) /\ DOMAIN k.command = 1..Len(k.command)
  BY DEF InFlight, Commands
<1>2. k.order[i] \in DOMAIN k.command
  BY <1>1
<1>3. k.command[k.order[i]] \in Parts
  BY <1>1, <1>2
<1> QED
  BY <1>2, <1>3 DEF WriteAt, Parts, Touched

(* The orders of a call go through all parts of its command.               *)
LEMMA OrdersFit ==
    ASSUME NEW c \in Commands
    PROVE  /\ InOrder(c) \in [DOMAIN c -> DOMAIN c]
           /\ InOrder(c) \in Seq(Nat)
           /\ \A order \in RevertOrders(c) :
                 /\ order \in [DOMAIN c -> DOMAIN c]
                 /\ order \in Seq(Nat)
<1>1. Len(c) \in Nat /\ DOMAIN c = 1..Len(c) /\ DOMAIN c \subseteq Nat
  BY DEF Commands
<1>2. ASSUME NEW order \in [DOMAIN c -> DOMAIN c]
      PROVE  order \in Seq(Nat)
  <2>1. order \in [1..Len(c) -> Nat]
    BY <1>1
  <2> QED BY <1>1, <2>1
<1>3. InOrder(c) \in [DOMAIN c -> DOMAIN c]
  BY DEF InOrder
<1> QED BY <1>2, <1>3 DEF RevertOrders

-----------------------------------------------------------------------------
(* The steps.                                                              *)

(* The invariant holds at the start.                                       *)
LEMMA InitInv == HistoryInit => HistoryInv
<1> SUFFICES ASSUME HistoryInit PROVE HistoryInv
  OBVIOUS
<1>1. \A s \in Calls : calls[s] = NoCall
  BY DEF HistoryInit
<1>2. HistoryTypeOK
  BY <1>1, NothingStacked DEF HistoryInit, HistoryTypeOK
<1>3. StacksBounded
  BY HistoryAssumption DEF HistoryInit, StacksBounded, Stacked
<1> QED
  BY <1>1, <1>2, <1>3 DEF HistoryInv, OneCall

(* A call starts: it is the only one, or the rules are broken.             *)
LEMMA BeginInv ==
    ASSUME HistoryInv, NEW s \in Calls, NEW op \in {"push", "undo", "redo"},
           NEW c \in Commands, NEW order \in [DOMAIN c -> DOMAIN c],
           order \in Seq(Nat), Begin(s, op, c, order),
           op = "undo" => undoStack # << >>,
           op = "redo" => redoStack # << >>,
           UNCHANGED <<doc, stacks>>,
           activeTransaction' \in Commands \cup {NoTransaction}
    PROVE  HistoryInv'
<1> DEFINE k == [op |-> op, command |-> c, order |-> order, done |-> 0]
<1>1. /\ k \in InFlight /\ k.done <= Len(k.command)
      /\ k.order \in [DOMAIN k.command -> DOMAIN k.command]
  BY DEF InFlight, Commands
<1>2. /\ calls[s] = NoCall /\ calls' = [calls EXCEPT ![s] = k]
      /\ disturbed' \in BOOLEAN
      /\ ~disturbed' => ~disturbed /\ ~Busy
  BY DEF Begin, HistoryInv, HistoryTypeOK, Busy, Fits
<1>3. /\ calls'[s] = k
      /\ \A t \in Calls \ {s} : calls'[t] = calls[t]
      /\ calls' \in [Calls -> InFlight \cup {NoCall}]
  BY <1>1, <1>2 DEF HistoryInv, HistoryTypeOK
<1>4. UNCHANGED <<doc, undoStack, redoStack>>
  BY DEF stacks
<1>5. ASSUME NEW t \in Calls, calls'[t] # NoCall
      PROVE  /\ calls'[t].done <= Len(calls'[t].command)
             /\ calls'[t].order \in
                   [DOMAIN calls'[t].command -> DOMAIN calls'[t].command]
  <2>1. CASE t = s
    BY <1>1, <1>3, <2>1
  <2>2. CASE t # s
    BY <1>3, <1>5, <2>2 DEF HistoryInv, HistoryTypeOK
  <2> QED
    BY <2>1, <2>2
<1>6. HistoryTypeOK'
  BY <1>2, <1>3, <1>4, <1>5 DEF HistoryInv, HistoryTypeOK
<1>7. OneCall'
  <2> SUFFICES ASSUME ~disturbed', NEW t \in Calls, calls'[t] # NoCall
               PROVE  /\ \A u \in Calls : calls'[u] # NoCall => u = t
                      /\ calls'[t].op = "undo" => undoStack' # << >>
                      /\ calls'[t].op = "redo" => redoStack' # << >>
    BY DEF OneCall
  <2>1. \A u \in Calls : calls[u] = NoCall
    BY <1>2 DEF Busy
  <2>2. t = s /\ \A u \in Calls : calls'[u] # NoCall => u = t
    BY <1>3, <2>1
  <2>3. calls'[t].op = op
    BY <1>3, <2>2
  <2> QED
    BY <1>4, <2>2, <2>3
<1>8. StacksBounded'
  BY <1>2, <1>4 DEF HistoryInv, StacksBounded, Stacked
<1> QED
  BY <1>6, <1>7, <1>8 DEF HistoryInv

(* Nothing but the transaction changes.                                    *)
LEMMA TransactionInv ==
    ASSUME HistoryInv, UNCHANGED <<doc, stacks, calls, disturbed>>,
           activeTransaction' \in Commands \cup {NoTransaction}
    PROVE  HistoryInv'
<1>1. UNCHANGED <<doc, undoStack, redoStack, calls, disturbed>>
  BY DEF stacks
<1> QED
  BY <1>1 DEF HistoryInv, HistoryTypeOK, OneCall, StacksBounded, Stacked

(* A command is pushed, or kept in the transaction.                        *)
LEMMA PushInv ==
    ASSUME HistoryInv, NEW c \in Commands, Push(c)
    PROVE  HistoryInv'
<1>1. activeTransaction \in Commands \cup {NoTransaction}
  BY DEF HistoryInv, HistoryTypeOK
<1>2. CASE activeTransaction = NoTransaction
  BY <1>1, <1>2, OrdersFit, BeginInv DEF Push
<1>3. CASE activeTransaction # NoTransaction
  <2>1. activeTransaction \o c \in Commands
    BY <1>1, <1>3 DEF Commands
  <2> QED
    BY <1>3, <2>1, TransactionInv DEF Push
<1> QED
  BY <1>2, <1>3

(* A transaction opens or ends.                                            *)
LEMMA CommitInv ==
    ASSUME HistoryInv,
           CommitTransaction \/ BeginTransaction \/ RollbackTransaction
    PROVE  HistoryInv'
<1>1. activeTransaction \in Commands \cup {NoTransaction}
  BY DEF HistoryInv, HistoryTypeOK
<1>2. /\ UNCHANGED <<doc, stacks>>
      /\ activeTransaction' \in Commands \cup {NoTransaction}
  BY NothingStacked
     DEF CommitTransaction, BeginTransaction, RollbackTransaction
<1>3. CASE \E s \in Calls :
              /\ Begin(s, "push", activeTransaction,
                       InOrder(activeTransaction))
              /\ activeTransaction # NoTransaction
  BY <1>1, <1>2, <1>3, OrdersFit, BeginInv
<1>4. CASE UNCHANGED <<calls, disturbed>>
  BY <1>2, <1>4, TransactionInv
<1> QED
  BY <1>3, <1>4 DEF CommitTransaction, BeginTransaction,
     RollbackTransaction, PushCollected

(* One part is written.                                                    *)
LEMMA WriteInv ==
    ASSUME HistoryInv, NEW s \in Calls, Write(s)
    PROVE  HistoryInv'
<1> DEFINE k == calls[s]
           w == WriteAt(k, k.done + 1)
           j == [k EXCEPT !.done = k.done + 1]
<1>1. /\ k \in InFlight /\ k.done < Len(k.command)
      /\ k.order \in [DOMAIN k.command -> DOMAIN k.command]
  BY DEF Write, HistoryInv, HistoryTypeOK
<1>2. k.done + 1 \in 1..Len(k.command)
  BY <1>1 DEF InFlight, Commands
<1>3. w.field \in Fields /\ w.value \in Values
  BY <1>1, <1>2, WrittenPart
<1>4. doc' \in Docs
  BY <1>3 DEF Write, HistoryInv, HistoryTypeOK, Docs
<1>5. /\ j \in InFlight /\ j.op = k.op /\ j.command = k.command
      /\ j.order = k.order /\ j.done = k.done + 1
  BY <1>1, WroteOne
<1>6. calls' = [calls EXCEPT ![s] = j]
  BY DEF Write
<1>7. /\ calls'[s] = j
      /\ \A t \in Calls \ {s} : calls'[t] = calls[t]
      /\ calls' \in [Calls -> InFlight \cup {NoCall}]
  BY <1>5, <1>6 DEF HistoryInv, HistoryTypeOK
<1>8. UNCHANGED <<undoStack, redoStack, activeTransaction, disturbed>>
  BY DEF Write, stacks
<1>9. \A t \in Calls : calls'[t] # NoCall =>
         /\ calls'[t].done <= Len(calls'[t].command)
         /\ calls'[t].order \in
               [DOMAIN calls'[t].command -> DOMAIN calls'[t].command]
         /\ calls[t] # NoCall /\ calls'[t].op = calls[t].op
  <2>1. /\ calls'[s].done <= Len(calls'[s].command)
        /\ calls'[s].order \in
              [DOMAIN calls'[s].command -> DOMAIN calls'[s].command]
    BY <1>1, <1>5, <1>7, <1>2
  <2>2. calls[s] # NoCall
    BY DEF Write
  <2> QED
    BY <1>5, <1>7, <2>1, <2>2 DEF HistoryInv, HistoryTypeOK
<1>10. HistoryTypeOK'
  BY <1>4, <1>7, <1>8, <1>9 DEF HistoryInv, HistoryTypeOK
<1>11. OneCall'
  BY <1>8, <1>9 DEF HistoryInv, OneCall
<1>12. StacksBounded'
  BY <1>8 DEF HistoryInv, StacksBounded, Stacked
<1> QED
  BY <1>10, <1>11, <1>12 DEF HistoryInv

(* A call ends: its slot is free, and the stacks are what the caller says. *)
LEMMA CallGone ==
    ASSUME HistoryInv, NEW s \in Calls,
           calls' = [calls EXCEPT ![s] = NoCall],
           calls[s] # NoCall,
           UNCHANGED <<doc, activeTransaction>>,
           disturbed' \in BOOLEAN, ~disturbed' => ~disturbed,
           undoStack' \in Seq(Commands), redoStack' \in Seq(Commands),
           StacksBounded'
    PROVE  HistoryInv'
<1>1. /\ calls'[s] = NoCall
      /\ \A t \in Calls \ {s} : calls'[t] = calls[t]
      /\ calls' \in [Calls -> InFlight \cup {NoCall}]
  BY DEF HistoryInv, HistoryTypeOK
<1>2. HistoryTypeOK'
  BY <1>1 DEF HistoryInv, HistoryTypeOK
<1>3. ~disturbed' => \A t \in Calls : calls'[t] = NoCall
  BY <1>1 DEF HistoryInv, OneCall
<1> QED
  BY <1>2, <1>3 DEF HistoryInv, OneCall

(* The command moves.  The two stacks grow together only by push, which    *)
(* empties one of them and drops what is over the limit.                   *)
LEMMA EndInv ==
    ASSUME HistoryInv, NEW s \in Calls, End(s)
    PROVE  HistoryInv'
<1> DEFINE k == calls[s]
           pushed == Append(undoStack, k.command)
<1>1. k # NoCall /\ k \in InFlight /\ k.command \in Commands
  BY DEF End, HistoryInv, HistoryTypeOK, InFlight
<1>2. /\ undoStack \in Seq(Commands) /\ redoStack \in Seq(Commands)
      /\ Len(undoStack) \in Nat /\ Len(redoStack) \in Nat
      /\ MAX_HISTORY_SIZE \in Nat
  BY HistoryAssumption DEF HistoryInv, HistoryTypeOK
<1>3. /\ ~disturbed => Len(undoStack) + Len(redoStack) <= MAX_HISTORY_SIZE
      /\ ~disturbed /\ k.op = "undo" => undoStack # << >>
      /\ ~disturbed /\ k.op = "redo" => redoStack # << >>
  BY <1>1 DEF HistoryInv, StacksBounded, Stacked, OneCall
<1>4. disturbed' = disturbed /\ disturbed \in BOOLEAN /\ Moved(k)
  BY DEF End, HistoryInv, HistoryTypeOK
<1>5. /\ undoStack' \in Seq(Commands) /\ redoStack' \in Seq(Commands)
      /\ ~disturbed =>
            Len(undoStack') + Len(redoStack') <= MAX_HISTORY_SIZE
  <2>1. CASE k.op = "push"
    <3>1. /\ undoStack' = IF Len(pushed) > MAX_HISTORY_SIZE
                          THEN Tail(pushed) ELSE pushed
          /\ redoStack' = << >>
      BY <1>4, <2>1 DEF Moved
    <3>2. pushed \in Seq(Commands) /\ Len(pushed) = Len(undoStack) + 1
      BY <1>1, <1>2
    <3>3. pushed # << >>
      BY <1>2, <3>2
    <3>4. Tail(pushed) \in Seq(Commands) /\ Len(Tail(pushed)) = Len(undoStack)
      BY <3>2, <3>3, <1>2
    <3> QED
      BY <1>2, <1>3, <3>1, <3>2, <3>4
  <2>2. CASE k.op = "undo"
    <3>1. /\ undoStack' = Pop(undoStack)
          /\ redoStack' = Append(redoStack, k.command)
      BY <1>4, <2>2 DEF Moved
    <3>2. /\ Append(redoStack, k.command) \in Seq(Commands)
          /\ Len(Append(redoStack, k.command)) = Len(redoStack) + 1
      BY <1>1, <1>2
    <3> QED
      BY <1>2, <1>3, <2>2, <3>1, <3>2, PopType
  <2>3. CASE k.op = "redo"
    <3>1. redoStack' = Pop(redoStack) /\ undoStack' = pushed
      BY <1>4, <2>3 DEF Moved
    <3>2. pushed \in Seq(Commands) /\ Len(pushed) = Len(undoStack) + 1
      BY <1>1, <1>2
    <3> QED
      BY <1>2, <1>3, <2>3, <3>1, <3>2, PopType
  <2> QED
    BY <1>1, <2>1, <2>2, <2>3 DEF InFlight
<1>6. StacksBounded'
  BY <1>4, <1>5 DEF StacksBounded, Stacked
<1>7. /\ calls' = [calls EXCEPT ![s] = NoCall]
      /\ UNCHANGED <<doc, activeTransaction>>
  BY DEF End
<1> QED
  BY <1>1, <1>4, <1>5, <1>6, <1>7, CallGone

(* A part was refused.                                                     *)
LEMMA RejectInv ==
    ASSUME HistoryInv, NEW s \in Calls, Reject(s)
    PROVE  HistoryInv'
<1>1. /\ calls[s] # NoCall
      /\ calls' = [calls EXCEPT ![s] = NoCall]
      /\ UNCHANGED <<doc, undoStack, redoStack, activeTransaction>>
      /\ disturbed' = (disturbed \/ calls[s].done > 0)
  BY DEF Reject, stacks
<1>2. disturbed' \in BOOLEAN /\ (~disturbed' => ~disturbed)
  BY <1>1
<1>3. undoStack' \in Seq(Commands) /\ redoStack' \in Seq(Commands)
  BY <1>1 DEF HistoryInv, HistoryTypeOK
<1>4. StacksBounded'
  BY <1>1, <1>2 DEF HistoryInv, StacksBounded, Stacked
<1> QED
  BY <1>1, <1>2, <1>3, <1>4, CallGone

(* The stacks are emptied; a call in flight will write to them again.      *)
LEMMA ClearInv ==
    ASSUME HistoryInv, Clear
    PROVE  HistoryInv'
<1>1. HistoryTypeOK'
  BY DEF Clear, HistoryInv, HistoryTypeOK, Busy
<1>2. ~disturbed' => \A s \in Calls : calls'[s] = NoCall
  BY DEF Clear, Busy
<1>3. Len(undoStack') + Len(redoStack') <= MAX_HISTORY_SIZE
  BY HistoryAssumption DEF Clear
<1> QED
  BY <1>1, <1>2, <1>3 DEF HistoryInv, OneCall, StacksBounded, Stacked

(* The invariant is inductive.                                             *)
LEMMA StepInv == HistoryInv /\ [HistoryNext]_historyVars => HistoryInv'
<1> SUFFICES ASSUME HistoryInv, [HistoryNext]_historyVars
             PROVE  HistoryInv'
  OBVIOUS
<1>1. CASE UNCHANGED historyVars
  BY <1>1, TransactionInv DEF historyVars, HistoryInv, HistoryTypeOK
<1>2. ASSUME NEW c \in IssuedOn(doc), Push(c) PROVE HistoryInv'
  BY <1>2, IssuedCommands, PushInv
<1>3. ASSUME NEW s \in Calls, Undo(s) \/ Redo(s) PROVE HistoryInv'
  <2>1. /\ undoStack \in Seq(Commands) /\ redoStack \in Seq(Commands)
        /\ activeTransaction \in Commands \cup {NoTransaction}
    BY DEF HistoryInv, HistoryTypeOK
  <2>2. CASE Undo(s)
    BY <2>1, <2>2, TopType, OrdersFit, BeginInv DEF Undo
  <2>3. CASE Redo(s)
    BY <2>1, <2>3, TopType, OrdersFit, BeginInv DEF Redo
  <2> QED
    BY <1>3, <2>2, <2>3
<1>4. ASSUME NEW s \in Calls, Write(s) \/ End(s) \/ Reject(s)
      PROVE  HistoryInv'
  BY <1>4, WriteInv, EndInv, RejectInv
<1> QED
  BY <1>1, <1>2, <1>3, <1>4, CommitInv, ClearInv DEF HistoryNext

(* The types are right, also when calls overlap and fail.                  *)
THEOREM HistoryTypeCorrect == HistorySpec => []HistoryTypeOK
<1>1. HistoryInv => HistoryTypeOK
  BY DEF HistoryInv
<1> QED
  BY InitInv, StepInv, <1>1, PTL DEF HistorySpec

(* redo never looks at the limit; as long as the callers wait, the two     *)
(* stacks together stay within it all the same.                            *)
THEOREM StacksStayBounded == HistorySpec => []StacksBounded
<1>1. HistoryInv => StacksBounded
  BY DEF HistoryInv
<1> QED
  BY InitInv, StepInv, <1>1, PTL DEF HistorySpec
-----------------------------------------------------------------------------
(* Least and greatest numbers.                                             *)

LEMMA LeastOf ==
    ASSUME NEW J, J \subseteq Nat, J # {}
    PROVE  \E j \in J : \A h \in J : j <= h
<1> DEFINE R == OpToRel(<, Nat)
<1>1. PICK j \in J : \A h \in J : ~ (<<h, j>> \in R)
  <2>1. IsWellFoundedOn(R, Nat)
    BY NatLessThanWellFounded
  <2> HIDE DEF R
  <2> QED BY <2>1, WFMin
<1>2. \A h \in J : ~ (h < j)
  BY <1>1, J \subseteq Nat, Zenon DEF OpToRel
<1> QED BY <1>2

LEMMA GreatestOf ==
    ASSUME NEW n \in Nat, NEW J, J \subseteq 1..n, J # {}
    PROVE  \E j \in J : \A h \in J : h <= j
<1> DEFINE K == {n - j : j \in J}
<1>1. K \subseteq Nat /\ K # {}
  <2>1. \A j \in J : n - j \in Nat
    OBVIOUS
  <2> QED BY <2>1
<1>2. PICK k \in K : \A h \in K : k <= h
  <2> HIDE DEF K
  <2> QED BY <1>1, LeastOf
<1>3. PICK j \in J : k = n - j
  BY <1>2
<1>4. ASSUME NEW h \in J PROVE h <= j
  <2>1. n - h \in K
    OBVIOUS
  <2>2. n - j <= n - h
    BY <1>2, <1>3, <2>1
  <2>3. h \in Int /\ j \in Int
    OBVIOUS
  <2> QED BY <2>2, <2>3
<1> QED BY <1>4

-----------------------------------------------------------------------------
(* Patches.  On either side, before and after, a command is a patch: what  *)
(* it found or leaves in the fields it touches.                            *)
Other(side) == IF side = "old" THEN "new" ELSE "old"
Patch(side, c) ==
    [f \in Touched(c) |-> IF side = "old" THEN OldOf(c, f) ELSE NewOf(c, f)]
Patches(side, stack) == [j \in 1..Len(stack) |-> Patch(side, stack[j])]

IsDoc(d) == d = [f \in Fields |-> d[f]]
Laid(p, d) == [f \in Fields |-> IF f \in DOMAIN p THEN p[f] ELSE d[f]]

(* The document d under the patches w[n], ..., w[i], laid in this order.   *)
Holders(w, n, i, f) == {j \in i..n : f \in DOMAIN w[j]}
Under(w, n, d, i) ==
    [f \in Fields |->
        LET J == Holders(w, n, i, f)
        IN  IF J = {} THEN d[f]
            ELSE w[CHOOSE j \in J : \A h \in J : j <= h][f]]

(* The lowest patch that holds a field decides.                            *)
LEMMA UnderAt ==
    ASSUME NEW w, NEW n \in Nat, NEW d, NEW i \in Nat, NEW f \in Fields,
           NEW m \in Holders(w, n, i, f),
           \A h \in Holders(w, n, i, f) : m <= h
    PROVE  Under(w, n, d, i)[f] = w[m][f]
<1> DEFINE J == Holders(w, n, i, f)
           c == CHOOSE j \in J : \A h \in J : j <= h
<1>1. J \subseteq Int
  BY DEF Holders
<1>2. c \in J /\ \A h \in J : c <= h
  OBVIOUS
<1>3. c = m
  BY <1>1, <1>2
<1>4. Under(w, n, d, i)[f] = w[c][f]
  BY DEF Under
<1> QED BY <1>3, <1>4

LEMMA UnderNone ==
    ASSUME NEW w, NEW n \in Nat, NEW d, NEW i \in Nat, NEW f \in Fields,
           Holders(w, n, i, f) = {}
    PROVE  Under(w, n, d, i)[f] = d[f]
BY DEF Under

LEMMA LowestHolder ==
    ASSUME NEW w, NEW n \in Nat, NEW i \in Nat, NEW f,
           Holders(w, n, i, f) # {}
    PROVE  \E m \in Holders(w, n, i, f) :
              \A h \in Holders(w, n, i, f) : m <= h
<1>1. Holders(w, n, i, f) \subseteq Nat
  BY DEF Holders
<1> QED BY <1>1, LeastOf

LEMMA UnderIsDoc ==
    ASSUME NEW w, NEW n, NEW d, NEW i
    PROVE  IsDoc(Under(w, n, d, i))
BY DEF IsDoc, Under

LEMMA SameDoc ==
    ASSUME NEW d, NEW e, IsDoc(d), IsDoc(e), \A f \in Fields : d[f] = e[f]
    PROVE  d = e
BY DEF IsDoc

(* Nothing is laid on the document.                                        *)
LEMMA UnderNothing ==
    ASSUME NEW w, NEW n \in Nat, NEW d, IsDoc(d)
    PROVE  Under(w, n, d, n + 1) = d
<1>1. \A f \in Fields : Holders(w, n, n + 1, f) = {}
  BY DEF Holders
<1> QED BY <1>1 DEF Under, IsDoc

(* The topmost patch may as well be part of the document.                  *)
LEMMA UnderTop ==
    ASSUME NEW w, NEW n \in Nat \ {0}, NEW d, NEW i \in 1..n
    PROVE  Under(w, n, d, i) = Under(w, n - 1, Laid(w[n], d), i)
<1> DEFINE e == Laid(w[n], d)
<1>1. ASSUME NEW f \in Fields
      PROVE  Under(w, n, d, i)[f] = Under(w, n - 1, e, i)[f]
  <2> DEFINE J == Holders(w, n, i, f)
             H == Holders(w, n - 1, i, f)
  <2>1. /\ H \subseteq J
        /\ \A j \in J : j \in H \/ j = n
        /\ n \in J <=> f \in DOMAIN w[n]
        /\ \A h \in H : h <= n
    BY DEF Holders
  <2>2. CASE H # {}
    <3>1. PICK m \in H : \A h \in H : m <= h
      BY <2>2, LowestHolder
    <3>2. m \in J /\ \A j \in J : m <= j
      BY <2>1, <3>1
    <3>3. Under(w, n - 1, e, i)[f] = w[m][f]
      BY <3>1, UnderAt
    <3>4. Under(w, n, d, i)[f] = w[m][f]
      BY <3>2, UnderAt
    <3> QED BY <3>3, <3>4
  <2>3. CASE H = {} /\ f \in DOMAIN w[n]
    <3>1. n \in J /\ \A j \in J : n <= j
      BY <2>1, <2>3
    <3>2. Under(w, n, d, i)[f] = w[n][f]
      BY <3>1, UnderAt
    <3>3. Under(w, n - 1, e, i)[f] = e[f]
      BY <2>3, UnderNone
    <3> QED BY <2>3, <3>2, <3>3 DEF Laid
  <2>4. CASE H = {} /\ f \notin DOMAIN w[n]
    <3>1. J = {}
      BY <2>1, <2>4
    <3>2. Under(w, n, d, i)[f] = d[f]
      BY <3>1, UnderNone
    <3>3. Under(w, n - 1, e, i)[f] = e[f]
      BY <2>4, UnderNone
    <3> QED BY <2>4, <3>2, <3>3 DEF Laid
  <2> QED BY <2>2, <2>3, <2>4
<1> HIDE DEF e
<1> QED BY <1>1, UnderIsDoc, SameDoc DEF e

(* Only the patches that are laid count.                                   *)
SameOn(w, v, i, n) == \A j \in i..n : w[j] = v[j]

LEMMA UnderSame ==
    ASSUME NEW w, NEW v, NEW n \in Nat, NEW d, NEW i \in Nat,
           SameOn(w, v, i, n)
    PROVE  Under(w, n, d, i) = Under(v, n, d, i)
<1>1. ASSUME NEW f \in Fields
      PROVE  Under(w, n, d, i)[f] = Under(v, n, d, i)[f]
  <2>1. Holders(w, n, i, f) = Holders(v, n, i, f)
    BY DEF Holders, SameOn
  <2>2. CASE Holders(w, n, i, f) = {}
    <3>1. Under(w, n, d, i)[f] = d[f]
      BY <2>2, UnderNone
    <3>2. Under(v, n, d, i)[f] = d[f]
      <4>1. Holders(v, n, i, f) = {}
        BY <2>1, <2>2
      <4> QED BY <4>1, UnderNone
    <3> QED BY <3>1, <3>2
  <2>3. CASE Holders(w, n, i, f) # {}
    <3>1. PICK m \in Holders(w, n, i, f) :
              \A h \in Holders(w, n, i, f) : m <= h
      BY <2>3, LowestHolder
    <3>2. w[m] = v[m]
      BY <3>1 DEF Holders, SameOn
    <3>3. Under(w, n, d, i)[f] = w[m][f]
      BY <3>1, UnderAt
    <3>4. Under(v, n, d, i)[f] = v[m][f]
      BY <2>1, <3>1, UnderAt
    <3> QED BY <3>2, <3>3, <3>4
  <2> QED BY <2>2, <2>3
<1> QED BY <1>1, UnderIsDoc, SameDoc

(* The lowest patch falls out.                                             *)
LEMMA UnderShift ==
    ASSUME NEW w, NEW v, NEW n \in Nat \ {0}, NEW d, NEW i \in 1..n,
           \A j \in 1..(n - 1) : v[j] = w[j + 1]
    PROVE  Under(v, n - 1, d, i) = Under(w, n, d, i + 1)
<1>1. ASSUME NEW f \in Fields
      PROVE  Under(v, n - 1, d, i)[f] = Under(w, n, d, i + 1)[f]
  <2> DEFINE J == Holders(w, n, i + 1, f)
             H == Holders(v, n - 1, i, f)
  <2>1. ASSUME NEW h \in H PROVE h + 1 \in J
    <3>1. h \in i..(n - 1) /\ f \in DOMAIN v[h]
      BY DEF Holders
    <3>2. h \in 1..(n - 1) /\ h + 1 \in (i + 1)..n
      BY <3>1
    <3> QED BY <3>1, <3>2 DEF Holders
  <2>2. ASSUME NEW j \in J PROVE j - 1 \in H
    <3>1. j \in (i + 1)..n /\ f \in DOMAIN w[j]
      BY DEF Holders
    <3>2. j - 1 \in 1..(n - 1) /\ j - 1 \in i..(n - 1) /\ (j - 1) + 1 = j
      BY <3>1
    <3> QED BY <3>1, <3>2 DEF Holders
  <2>3. CASE H = {}
    <3>1. J = {}
      BY <2>2, <2>3
    <3>2. Under(v, n - 1, d, i)[f] = d[f]
      BY <2>3, UnderNone
    <3>3. Under(w, n, d, i + 1)[f] = d[f]
      BY <3>1, UnderNone
    <3> QED BY <3>2, <3>3
  <2>4. CASE H # {}
    <3>1. PICK m \in H : \A h \in H : m <= h
      BY <2>4, LowestHolder
    <3>2. m \in 1..(n - 1) /\ H \subseteq Int /\ J \subseteq Int
      BY <3>1 DEF Holders
    <3>3. m + 1 \in J /\ \A j \in J : m + 1 <= j
      BY <2>1, <2>2, <3>1, <3>2
    <3>4. Under(v, n - 1, d, i)[f] = v[m][f]
      BY <3>1, UnderAt
    <3>5. Under(w, n, d, i + 1)[f] = w[m + 1][f]
      BY <3>3, UnderAt
    <3> QED BY <3>2, <3>4, <3>5
  <2> QED BY <2>3, <2>4
<1> QED BY <1>1, UnderIsDoc, SameDoc

-----------------------------------------------------------------------------
(* Stacks.                                                                 *)

(* Every command on the stack finds, under the commands above it, what is  *)
(* on its other side.                                                      *)
Fit(side, stack, d) ==
    \A i \in 1..Len(stack) : \A f \in Touched(stack[i]) :
        Under(Patches(side, stack), Len(stack), d, i + 1)[f]
            = Patch(Other(side), stack[i])[f]

(* The documents a stack leads to.                                         *)
LineOf(side, stack, d) ==
    [i \in 1..Len(stack) |-> Under(Patches(side, stack), Len(stack), d, i)]

(* This is what the properties of UndoHistory say about the stacks.        *)
LEMMA ReachedIsUnder ==
    ASSUME NEW stack \in Seq(Commands), NEW i \in Nat \ {0}
    PROVE  /\ Reached(stack, i, OldOf)
                 = Under(Patches("old", stack), Len(stack), Settled, i)
           /\ Reached(stack, i, NewOf)
                 = Under(Patches("new", stack), Len(stack), Settled, i)
<1> DEFINE n == Len(stack)
           J(f) == {j \in i..n : f \in Touched(stack[j])}
           c(f) == CHOOSE j \in J(f) : \A h \in J(f) : j <= h
<1>1. n \in Nat
  OBVIOUS
<1>2. ASSUME NEW side, NEW f \in Fields
      PROVE  J(f) = Holders(Patches(side, stack), n, i, f)
  <2>1. ASSUME NEW j \in i..n
        PROVE  DOMAIN Patches(side, stack)[j] = Touched(stack[j])
    BY <1>1 DEF Patches, Patch
  <2> QED BY <2>1 DEF Holders
<1>3. ASSUME NEW f \in Fields
      PROVE  /\ Reached(stack, i, OldOf)[f] =
                   IF J(f) = {} THEN Settled[f] ELSE OldOf(stack[c(f)], f)
             /\ Reached(stack, i, NewOf)[f] =
                   IF J(f) = {} THEN Settled[f] ELSE NewOf(stack[c(f)], f)
  BY DEF Reached
<1>4. ASSUME NEW side, NEW f \in Fields
      PROVE  Under(Patches(side, stack), n, Settled, i)[f] =
                 IF J(f) = {} THEN Settled[f]
                 ELSE Patch(side, stack[c(f)])[f]
  <2>1. CASE J(f) = {}
    <3>1. Holders(Patches(side, stack), n, i, f) = {}
      BY <1>2, <2>1
    <3> HIDE DEF J, c
    <3> QED BY <1>1, <2>1, <3>1, UnderNone
  <2>2. CASE J(f) # {}
    <3>1. /\ c(f) \in Holders(Patches(side, stack), n, i, f)
          /\ \A h \in Holders(Patches(side, stack), n, i, f) : c(f) <= h
      <4>1. J(f) \subseteq Nat
        BY <1>1
      <4>2. \E j \in J(f) : \A h \in J(f) : j <= h
        <5> HIDE DEF J
        <5> QED BY <2>2, <4>1, LeastOf
      <4>3. c(f) \in J(f) /\ \A h \in J(f) : c(f) <= h
        <5> HIDE DEF J
        <5> QED BY <4>2
      <4> HIDE DEF J, c
      <4> QED BY <1>2, <4>3
    <3>2. Under(Patches(side, stack), n, Settled, i)[f]
              = Patches(side, stack)[c(f)][f]
      <4> HIDE DEF c
      <4> QED BY <1>1, <3>1, UnderAt
    <3>3. c(f) \in 1..n
      <4> HIDE DEF c
      <4> QED BY <1>1, <3>1 DEF Holders
    <3>4. Patches(side, stack)[c(f)] = Patch(side, stack[c(f)])
      <4> HIDE DEF c
      <4> QED BY <3>3 DEF Patches
    <3> HIDE DEF J, c
    <3> QED BY <2>2, <3>2, <3>4
  <2> QED BY <2>1, <2>2
<1>5. ASSUME NEW f \in Fields, J(f) # {}
      PROVE  f \in Touched(stack[c(f)])
  <2>1. J(f) \subseteq Nat
    BY <1>1
  <2>2. \E j \in J(f) : \A h \in J(f) : j <= h
    <3> HIDE DEF J
    <3> QED BY <1>5, <2>1, LeastOf
  <2>3. c(f) \in J(f)
    <3> HIDE DEF J
    <3> QED BY <2>2
  <2> QED BY <2>3
<1> HIDE DEF J, c
<1>6. ASSUME NEW f \in Fields
      PROVE  /\ Reached(stack, i, OldOf)[f]
                   = Under(Patches("old", stack), n, Settled, i)[f]
             /\ Reached(stack, i, NewOf)[f]
                   = Under(Patches("new", stack), n, Settled, i)[f]
  BY <1>3, <1>4, <1>5 DEF Patch
<1>7. /\ IsDoc(Reached(stack, i, OldOf))
      /\ IsDoc(Reached(stack, i, NewOf))
  BY DEF IsDoc, Reached
<1> QED BY <1>6, <1>7, UnderIsDoc, SameDoc

(* t is s with one more command on top.                                    *)
OneOver(t, s) ==
    /\ s \in Seq(Commands) /\ t \in Seq(Commands)
    /\ Len(t) = Len(s) + 1
    /\ \A j \in 1..Len(s) : t[j] = s[j]

(* The fields a command touches hold this side of it.                      *)
Shows(side, c, d) == \A f \in Touched(c) : d[f] = Patch(side, c)[f]

(* What lies under the patch of the command on top is the same for both.   *)
LEMMA UnderOneMore ==
    ASSUME NEW side, NEW s, NEW t, OneOver(t, s), NEW e, NEW i \in 1..Len(t)
    PROVE  Under(Patches(side, t), Len(t), e, i)
               = Under(Patches(side, s), Len(s),
                       Laid(Patch(side, Top(t)), e), i)
<1> DEFINE n == Len(t)
           w == Patches(side, t)
           v == Patches(side, s)
           d == Laid(Patch(side, t[n]), e)
<1>1. n \in Nat \ {0} /\ Len(s) = n - 1 /\ n - 1 \in Nat /\ i \in Nat
  BY DEF OneOver
<1>2. w[n] = Patch(side, t[n])
  BY <1>1 DEF Patches
<1>3. SameOn(w, v, i, n - 1)
  BY <1>1 DEF Patches, OneOver, SameOn
<1> HIDE DEF w, v
<1>4. Under(w, n, e, i) = Under(w, n - 1, d, i)
  BY <1>1, <1>2, UnderTop
<1>5. Under(w, n - 1, d, i) = Under(v, n - 1, d, i)
  BY <1>1, <1>3, UnderSame
<1> QED BY <1>1, <1>4, <1>5 DEF w, v, Top

LEMMA LaidIsDoc == ASSUME NEW p, NEW d PROVE IsDoc(Laid(p, d))
BY DEF IsDoc, Laid

LEMMA LineIsSeq ==
    ASSUME NEW side, NEW stack \in Seq(Commands), NEW d
    PROVE  /\ LineOf(side, stack, d) \in
                 Seq({Under(Patches(side, stack), Len(stack), d, i) :
                          i \in 1..Len(stack)})
           /\ Len(LineOf(side, stack, d)) = Len(stack)
           /\ \A i \in 1..Len(stack) : LineOf(side, stack, d)[i]
                 = Under(Patches(side, stack), Len(stack), d, i)
BY DEF LineOf

(* A line goes on.                                                         *)
Longer(line, d) == Append(line, d)

(* The documents the two stacks lead to, and whether their commands fit.   *)
LEMMA OneMore ==
    ASSUME NEW side, NEW s, NEW t, OneOver(t, s), NEW e, IsDoc(e),
           NEW d, d = Laid(Patch(side, Top(t)), e)
    PROVE  /\ LineOf(side, t, e) = Longer(LineOf(side, s, d), d)
           /\ Fit(side, t, e) <=>
                 /\ Fit(side, s, d)
                 /\ Shows(Other(side), Top(t), e)
<1> DEFINE n == Len(t)
           U(i) == Under(Patches(side, t), n, e, i)
           V(i) == Under(Patches(side, s), Len(s), d, i)
<1>1. /\ n \in Nat \ {0} /\ Len(s) = n - 1 /\ n - 1 \in Nat
      /\ s \in Seq(Commands) /\ t \in Seq(Commands)
      /\ \A j \in 1..(n - 1) : t[j] = s[j]
  BY DEF OneOver
<1>2. ASSUME NEW i \in 1..n PROVE U(i) = V(i)
  BY UnderOneMore
<1>3. U(n + 1) = e
  BY <1>1, UnderNothing
<1>4. V(n) = d
  <2>1. IsDoc(d)
    BY LaidIsDoc
  <2>2. n = Len(s) + 1
    BY <1>1
  <2> QED BY <1>1, <2>1, <2>2, UnderNothing
<1>5. /\ Fit(side, t, e) <=> \A i \in 1..n : \A f \in Touched(t[i]) :
                                 U(i + 1)[f] = Patch(Other(side), t[i])[f]
      /\ Fit(side, s, d) <=> \A i \in 1..(n - 1) : \A f \in Touched(s[i]) :
                                 V(i + 1)[f] = Patch(Other(side), s[i])[f]
  BY <1>1 DEF Fit
<1>6. LineOf(side, t, e) = Append(LineOf(side, s, d), d)
  <2> DEFINE S == {V(i) : i \in 1..(n - 1)} \cup {d}
             a == LineOf(side, t, e)
             b == LineOf(side, s, d)
  <2>1. b \in Seq(S) /\ Len(b) = n - 1 /\ \A i \in 1..(n - 1) : b[i] = V(i)
    BY <1>1 DEF LineOf
  <2>2. \A i \in 1..n : U(i) \in S
    BY <1>1, <1>2, <1>4
  <2>3. a \in Seq(S) /\ Len(a) = n /\ \A i \in 1..n : a[i] = U(i)
    <3> HIDE DEF S
    <3> QED BY <1>1, <2>2 DEF LineOf
  <2>4. d \in S
    OBVIOUS
  <2> HIDE DEF S, a, b, U, V
  <2>5. /\ Append(b, d) \in Seq(S) /\ Len(Append(b, d)) = n
        /\ \A i \in 1..(n - 1) : Append(b, d)[i] = V(i)
        /\ Append(b, d)[n] = d
    BY <1>1, <2>1, <2>4
  <2>6. \A i \in 1..n : a[i] = Append(b, d)[i]
    BY <1>1, <1>2, <1>4, <2>3, <2>5
  <2>7. a = Append(b, d)
    BY <2>3, <2>5, <2>6, SeqEqual
  <2> QED BY <2>7 DEF a, b
<1> HIDE DEF U, V
<1>7. ASSUME Fit(side, t, e)
      PROVE  /\ Fit(side, s, d)
             /\ Shows(Other(side), Top(t), e)
  <2>1. ASSUME NEW i \in 1..(n - 1), NEW f \in Touched(s[i])
        PROVE  V(i + 1)[f] = Patch(Other(side), s[i])[f]
    BY <1>1, <1>2, <1>5, <1>7
  <2> QED BY <1>1, <1>3, <1>5, <1>7, <2>1 DEF Shows, Top
<1>8. ASSUME Fit(side, s, d), Shows(Other(side), Top(t), e)
      PROVE  Fit(side, t, e)
  <2>1. ASSUME NEW i \in 1..n, NEW f \in Touched(t[i])
        PROVE  U(i + 1)[f] = Patch(Other(side), t[i])[f]
    <3>1. CASE i = n
      BY <1>3, <1>8, <3>1 DEF Shows, Top
    <3>2. CASE i # n
      BY <1>1, <1>2, <1>5, <1>8, <3>2
    <3> QED BY <3>1, <3>2
  <2> QED BY <1>5, <2>1
<1> QED BY <1>6, <1>7, <1>8 DEF Longer

(* The oldest command falls out.                                           *)
LEMMA OneLess ==
    ASSUME NEW side, NEW t \in Seq(Commands), t # << >>, NEW d
    PROVE  /\ LineOf(side, Tail(t), d) = Tail(LineOf(side, t, d))
           /\ Fit(side, t, d) => Fit(side, Tail(t), d)
<1> DEFINE n == Len(t)
           s == Tail(t)
           U(i) == Under(Patches(side, t), n, d, i)
           V(i) == Under(Patches(side, s), n - 1, d, i)
<1>1. /\ n \in Nat \ {0} /\ n - 1 \in Nat
      /\ s \in Seq(Commands) /\ Len(s) = n - 1
      /\ \A j \in 1..(n - 1) : s[j] = t[j + 1]
  BY HeadTailProperties
<1> HIDE DEF s
<1>2. ASSUME NEW i \in 1..n PROVE V(i) = U(i + 1)
  <2>1. \A j \in 1..(n - 1) : Patches(side, s)[j] = Patches(side, t)[j + 1]
    BY <1>1 DEF Patches
  <2> DEFINE w == Patches(side, t)
             v == Patches(side, s)
  <2>2. \A j \in 1..(n - 1) : v[j] = w[j + 1]
    BY <2>1
  <2> HIDE DEF w, v, n
  <2>3. Under(v, n - 1, d, i) = Under(w, n, d, i + 1)
    BY <1>1, <2>2, UnderShift
  <2> QED BY <2>3 DEF w, v
<1>3. /\ Fit(side, t, d) <=> \A i \in 1..n : \A f \in Touched(t[i]) :
                                 U(i + 1)[f] = Patch(Other(side), t[i])[f]
      /\ Fit(side, s, d) <=> \A i \in 1..(n - 1) : \A f \in Touched(s[i]) :
                                 V(i + 1)[f] = Patch(Other(side), s[i])[f]
  BY <1>1 DEF Fit
<1>4. LineOf(side, s, d) = Tail(LineOf(side, t, d))
  <2> DEFINE S == {U(i) : i \in 1..n}
             a == LineOf(side, s, d)
             b == LineOf(side, t, d)
  <2>1. b \in Seq(S) /\ Len(b) = n /\ \A i \in 1..n : b[i] = U(i)
    BY <1>1 DEF LineOf
  <2>2. \A i \in 1..(n - 1) : V(i) \in S
    BY <1>1, <1>2
  <2>3. a \in Seq(S) /\ Len(a) = n - 1 /\ \A i \in 1..(n - 1) : a[i] = V(i)
    <3> HIDE DEF S
    <3> QED BY <1>1, <2>2 DEF LineOf
  <2> HIDE DEF S, a, b, U, V
  <2>4. b # << >>
    BY <1>1, <2>1
  <2>5. /\ Tail(b) \in Seq(S) /\ Len(Tail(b)) = n - 1
        /\ \A i \in 1..(n - 1) : Tail(b)[i] = b[i + 1]
    BY <1>1, <2>1, <2>4, HeadTailProperties
  <2>6. \A i \in 1..(n - 1) : a[i] = Tail(b)[i]
    BY <1>1, <1>2, <2>1, <2>3, <2>5
  <2>7. a = Tail(b)
    BY <2>3, <2>5, <2>6, SeqEqual
  <2> QED BY <2>7 DEF a, b
<1> HIDE DEF U, V
<1>5. ASSUME Fit(side, t, d), NEW i \in 1..(n - 1), NEW f \in Touched(s[i])
      PROVE  V(i + 1)[f] = Patch(Other(side), s[i])[f]
  BY <1>1, <1>2, <1>3, <1>5
<1> QED BY <1>3, <1>4, <1>5 DEF s

-----------------------------------------------------------------------------
(* The call in flight.  Before it the fields of its command hold one side  *)
(* of it, afterwards the other.                                            *)
BeforeSide(op) == IF op = "undo" THEN "new" ELSE "old"

(* The command is the one its stack gave; before its first write the       *)
(* document is as the command expects it; later on, the last write so far  *)
(* to a field is what the field holds.                                     *)
FlightOK(k) ==
    /\ IF k.op = "undo" THEN k.order \in RevertOrders(k.command)
                        ELSE k.order = InOrder(k.command)
    /\ k.op = "undo" => k.command = Top(undoStack)
    /\ k.op = "redo" => k.command = Top(redoStack)
    /\ k.done = 0 => \A f \in Touched(k.command) : doc[f] = Before(k, f)
    /\ \A i \in 1..k.done :
          (\A j \in (i + 1)..k.done :
              WriteAt(k, j).field # WriteAt(k, i).field)
          => doc[WriteAt(k, i).field] = WriteAt(k, i).value

FlightsOK == \A s \in Calls : calls[s] # NoCall => FlightOK(calls[s])

FitInv ==
    /\ HistoryInv
    /\ ~disturbed => /\ FlightsOK
                     /\ Fit("old", undoStack, Settled)
                     /\ Fit("new", redoStack, Settled)

(* The document between two calls, while the rules are kept.               *)
SettledIs ==
    ~disturbed =>
        /\ ~Busy => Settled = doc
        /\ \A s \in Calls : calls[s] # NoCall =>
              Settled = Laid(Patch(BeforeSide(calls[s].op), calls[s].command),
                             doc)
        /\ IsDoc(Settled)

LEMMA SettledLemma == HistoryInv => SettledIs
<1> SUFFICES ASSUME HistoryInv, ~disturbed
             PROVE  /\ ~Busy => Settled = doc
                    /\ \A s \in Calls : calls[s] # NoCall => Settled =
                          Laid(Patch(BeforeSide(calls[s].op),
                                     calls[s].command), doc)
                    /\ IsDoc(Settled)
  BY DEF SettledIs
<1>1. ASSUME NEW s \in Calls, calls[s] # NoCall
      PROVE  Settled = Laid(Patch(BeforeSide(calls[s].op), calls[s].command),
                            doc)
  <2>1. \A t \in Calls : calls[t] # NoCall => t = s
    BY <1>1 DEF HistoryInv, OneCall
  <2>2. Busy /\ Running = s
    BY <1>1, <2>1 DEF Busy, Running
  <2> DEFINE k == calls[s]
             p == Patch(BeforeSide(k.op), k.command)
  <2>3. /\ DOMAIN p = Touched(k.command)
        /\ \A f \in Touched(k.command) : p[f] = Before(k, f)
    BY DEF Patch, BeforeSide, Before
  <2>4. Settled = [f \in Fields |-> IF f \in Touched(k.command)
                                    THEN Before(k, f) ELSE doc[f]]
    BY <2>2 DEF Settled
  <2> HIDE DEF k, p
  <2>5. Settled = Laid(p, doc)
    BY <2>3, <2>4 DEF Laid
  <2> QED BY <2>5 DEF k, p
<1>2. ~Busy => Settled = doc
  BY DEF Settled
<1>3. IsDoc(Settled)
  <2>1. CASE Busy
    BY <1>1, <2>1, LaidIsDoc DEF Busy
  <2>2. CASE ~Busy
    BY <1>2, <2>2 DEF IsDoc, HistoryInv, HistoryTypeOK, Docs
  <2> QED BY <2>1, <2>2
<1> QED BY <1>1, <1>2, <1>3

(* The command on top fits the document.                                   *)
LEMMA TopFits ==
    ASSUME NEW side, NEW stack \in Seq(Commands), stack # << >>,
           NEW d, IsDoc(d), Fit(side, stack, d)
    PROVE  Shows(Other(side), Top(stack), d)
<1> DEFINE n == Len(stack)
<1>1. n \in Nat \ {0} /\ n \in 1..n
  OBVIOUS
<1>2. Under(Patches(side, stack), n, d, n + 1) = d
  <2> HIDE DEF n
  <2> QED BY <1>1, UnderNothing
<1>3. ASSUME NEW f \in Touched(stack[n])
      PROVE  Under(Patches(side, stack), n, d, n + 1)[f]
                 = Patch(Other(side), stack[n])[f]
  BY <1>1 DEF Fit
<1> QED BY <1>2, <1>3 DEF Top, Shows

(* All parts are written: the fields hold the other side of the command.   *)
LEMMA FirstOnIs ==
    ASSUME NEW c \in Commands, NEW f \in Touched(c)
    PROVE  /\ FirstOn(c, f) \in 1..Len(c)
           /\ c[FirstOn(c, f)].field = f
           /\ \A j \in 1..Len(c) : c[j].field = f => FirstOn(c, f) <= j
<1> DEFINE J == {i \in 1..Len(c) : c[i].field = f}
<1>1. c \in Seq(Parts) /\ DOMAIN c = 1..Len(c) /\ Len(c) \in Nat
  BY DEF Commands
<1>2. J # {} /\ J \subseteq Nat
  BY <1>1 DEF Touched
<1>3. \E m \in J : \A h \in J : m <= h
  <2> HIDE DEF J
  <2> QED BY <1>2, LeastOf
<1>4. \E m \in DOMAIN c :
          c[m].field = f /\ \A j \in DOMAIN c : c[j].field = f => m <= j
  BY <1>1, <1>3
<1> QED BY <1>1, <1>4 DEF FirstOn

LEMMA LastOnIs ==
    ASSUME NEW c \in Commands, NEW f \in Touched(c)
    PROVE  /\ LastOn(c, f) \in 1..Len(c)
           /\ c[LastOn(c, f)].field = f
           /\ \A j \in 1..Len(c) : c[j].field = f => j <= LastOn(c, f)
<1> DEFINE J == {i \in 1..Len(c) : c[i].field = f}
<1>1. c \in Seq(Parts) /\ DOMAIN c = 1..Len(c) /\ Len(c) \in Nat
  BY DEF Commands
<1>2. J # {} /\ J \subseteq 1..Len(c)
  BY <1>1 DEF Touched
<1>3. \E m \in J : \A h \in J : h <= m
  <2> HIDE DEF J
  <2> QED BY <1>1, <1>2, GreatestOf
<1>4. \E m \in DOMAIN c :
          c[m].field = f /\ \A j \in DOMAIN c : c[j].field = f => j <= m
  BY <1>1, <1>3
<1> QED BY <1>1, <1>4 DEF LastOn

LEMMA AllWritten ==
    ASSUME NEW k \in InFlight, FlightOK(k), k.done = Len(k.command),
           NEW f \in Touched(k.command)
    PROVE  doc[f] = Patch(Other(BeforeSide(k.op)), k.command)[f]
<1> DEFINE c == k.command
           n == Len(c)
<1>1. c \in Commands /\ c \in Seq(Parts) /\ n \in Nat
  BY DEF InFlight, Commands
<1>2. \A i \in 1..n :
          (\A j \in (i + 1)..n : WriteAt(k, j).field # WriteAt(k, i).field)
          => doc[WriteAt(k, i).field] = WriteAt(k, i).value
  BY DEF FlightOK
<1>3. CASE k.op = "undo"
  <2> DEFINE m == FirstOn(c, f)
             o == k.order
  <2>1. /\ m \in 1..n /\ c[m].field = f
        /\ \A j \in 1..n : c[j].field = f => m <= j
    BY <1>1, FirstOnIs
  <2> HIDE DEF m
  <2>2. /\ o \in [1..n -> 1..n]
        /\ \A h \in 1..n : \E i \in 1..n : o[i] = h
        /\ \A i, j \in 1..n :
              i < j /\ c[o[i]].field = c[o[j]].field => o[j] < o[i]
    <3>1. o \in RevertOrders(c) /\ DOMAIN c = 1..n
      BY <1>1, <1>3 DEF FlightOK
    <3> HIDE DEF c, n, o
    <3> QED BY <3>1 DEF RevertOrders
  <2>3. PICK i \in 1..n : o[i] = m
    BY <2>1, <2>2
  <2>4. WriteAt(k, i).field = f /\ WriteAt(k, i).value = c[m].old
    BY <1>3, <2>1, <2>3 DEF WriteAt
  <2>5. ASSUME NEW j \in (i + 1)..n PROVE WriteAt(k, j).field # f
    <3>1. j \in 1..n /\ i < j
      BY <1>1
    <3>2. o[j] \in 1..n
      BY <2>2, <3>1
    <3>3. c[o[j]].field # f
      <4> SUFFICES ASSUME c[o[j]].field = f PROVE FALSE
        OBVIOUS
      <4>1. o[j] < m /\ m <= o[j]
        BY <2>1, <2>2, <2>3, <3>1
      <4> QED BY <2>1, <3>2, <4>1
    <3> QED BY <1>3, <3>3 DEF WriteAt
  <2>6. doc[f] = c[m].old
    BY <1>2, <2>3, <2>4, <2>5
  <2>7. Patch("old", c)[f] = c[m].old
    BY DEF Patch, OldOf, m
  <2> QED BY <1>3, <2>6, <2>7 DEF BeforeSide, Other
<1>4. CASE k.op # "undo"
  <2> DEFINE m == LastOn(c, f)
  <2>1. /\ m \in 1..n /\ c[m].field = f
        /\ \A j \in 1..n : c[j].field = f => j <= m
    BY <1>1, LastOnIs
  <2> HIDE DEF m
  <2>2. \A i \in 1..n : k.order[i] = i
    <3>1. k.order = InOrder(c) /\ DOMAIN c = 1..n
      BY <1>1, <1>4 DEF FlightOK
    <3> HIDE DEF c, n
    <3> QED BY <1>1, <3>1 DEF InOrder
  <2>3. WriteAt(k, m).field = f /\ WriteAt(k, m).value = c[m].new
    BY <1>4, <2>1, <2>2 DEF WriteAt
  <2>4. ASSUME NEW j \in (m + 1)..n PROVE WriteAt(k, j).field # f
    <3>1. j \in 1..n /\ ~ (j <= m)
      BY <1>1, <2>1
    <3> QED BY <1>4, <2>1, <2>2, <3>1 DEF WriteAt
  <2>5. doc[f] = c[m].new
    BY <1>2, <2>1, <2>3, <2>4
  <2>6. Patch("new", c)[f] = c[m].new
    BY DEF Patch, NewOf, m
  <2> QED BY <1>4, <2>5, <2>6 DEF BeforeSide, Other
<1> QED BY <1>3, <1>4

-----------------------------------------------------------------------------
(* Steps between which the document of the callers does not move.          *)
Quiet ==
    /\ UNCHANGED <<undoStack, redoStack>>
    /\ Settled' = Settled
    /\ FlightsOK'

LEMMA NotBusyIs == ~Busy <=> \A s \in Calls : calls[s] = NoCall
BY DEF Busy

LEMMA BeginQuiet ==
    ASSUME FitInv, HistoryInv', ~disturbed',
           NEW s \in Calls, NEW op \in {"push", "undo", "redo"},
           NEW c \in Commands, NEW order \in Seq(Nat),
           Begin(s, op, c, order), UNCHANGED <<doc, stacks>>,
           IF op = "undo" THEN order \in RevertOrders(c)
                          ELSE order = InOrder(c),
           op = "undo" => undoStack # << >> /\ c = Top(undoStack),
           op = "redo" => redoStack # << >> /\ c = Top(redoStack)
    PROVE  ~disturbed /\ Quiet
<1> DEFINE k == [op |-> op, command |-> c, order |-> order, done |-> 0]
<1>1. /\ ~disturbed /\ ~Busy
      /\ op = "push" => Fits(c, doc)
      /\ calls' = [calls EXCEPT ![s] = k]
      /\ UNCHANGED <<doc, undoStack, redoStack>>
  BY DEF Begin, FitInv, HistoryInv, HistoryTypeOK, Busy, stacks
<1>2. /\ undoStack \in Seq(Commands) /\ redoStack \in Seq(Commands)
      /\ calls \in [Calls -> InFlight \cup {NoCall}]
      /\ SettledIs
  BY SettledLemma DEF FitInv, HistoryInv, HistoryTypeOK
<1>3. Settled = doc /\ IsDoc(doc)
  BY <1>1, <1>2 DEF SettledIs
<1>4. SettledIs'
  BY SettledLemma, PTL
<1>5. calls'[s] = k /\ \A t \in Calls : t # s => calls'[t] = NoCall
  BY <1>1, <1>2 DEF Busy
<1>6. \A f \in Touched(c) : doc[f] = Patch(BeforeSide(op), c)[f]
  <2>1. CASE op = "push"
    BY <1>1, <2>1 DEF Fits, BeforeSide, Patch
  <2>2. CASE op = "undo"
    <3>1. Fit("old", undoStack, doc)
      BY <1>1, <1>3 DEF FitInv
    <3>2. undoStack # << >> /\ c = Top(undoStack)
      BY <2>2
    <3>3. Shows(Other("old"), c, doc)
      BY <1>2, <1>3, <3>1, <3>2, TopFits
    <3> QED BY <2>2, <3>3 DEF BeforeSide, Other, Shows
  <2>3. CASE op = "redo"
    <3>1. Fit("new", redoStack, doc)
      BY <1>1, <1>3 DEF FitInv
    <3>2. redoStack # << >> /\ c = Top(redoStack)
      BY <2>3
    <3>3. Shows(Other("new"), c, doc)
      BY <1>2, <1>3, <3>1, <3>2, TopFits
    <3> QED BY <2>3, <3>3 DEF BeforeSide, Other, Shows
  <2> QED BY <2>1, <2>2, <2>3
<1>7. /\ k # NoCall /\ k.op = op /\ k.command = c /\ k.done = 0
      /\ k.order = order
  BY MarkersAssumption DEF InFlight
<1>8. Settled' = Settled
  <2>1. Settled' = Laid(Patch(BeforeSide(op), c), doc)
    BY <1>1, <1>4, <1>5, <1>7 DEF SettledIs
  <2>2. Laid(Patch(BeforeSide(op), c), doc) = doc
    BY <1>3, <1>6 DEF Laid, Patch, IsDoc
  <2> QED BY <1>3, <2>1, <2>2
<1>9. ASSUME NEW f \in Touched(c) PROVE doc[f] = Before(k, f)
  BY <1>6, <1>7 DEF Patch, BeforeSide, Before
<1> HIDE DEF k
<1>10. FlightOK(k)'
  BY <1>1, <1>7, <1>9 DEF FlightOK, Before
<1>11. FlightsOK'
  BY <1>5, <1>10 DEF FlightsOK
<1> QED BY <1>1, <1>8, <1>11 DEF Quiet

LEMMA StillQuiet ==
    ASSUME FitInv, ~disturbed',
           UNCHANGED <<doc, undoStack, redoStack, calls, disturbed>>
    PROVE  ~disturbed /\ Quiet
<1>1. ~disturbed /\ FlightsOK
  BY DEF FitInv
<1>2. Settled' = Settled
  BY DEF Settled, Busy, Running
<1>3. FlightsOK'
  BY <1>1 DEF FlightsOK, FlightOK
<1> QED BY <1>1, <1>2, <1>3 DEF Quiet

LEMMA PushQuiet ==
    ASSUME FitInv, HistoryInv', ~disturbed', NEW c \in Commands, Push(c)
    PROVE  ~disturbed /\ Quiet
<1>1. CASE activeTransaction = NoTransaction
  BY <1>1, OrdersFit, BeginQuiet DEF Push
<1>2. CASE activeTransaction # NoTransaction
  BY <1>2, StillQuiet DEF Push, stacks
<1> QED BY <1>1, <1>2

LEMMA CommitQuiet ==
    ASSUME FitInv, HistoryInv', ~disturbed',
           CommitTransaction \/ BeginTransaction \/ RollbackTransaction
    PROVE  ~disturbed /\ Quiet
<1>1. activeTransaction \in Commands \cup {NoTransaction}
  BY DEF FitInv, HistoryInv, HistoryTypeOK
<1>2. UNCHANGED <<doc, stacks>> /\ UNCHANGED <<doc, undoStack, redoStack>>
  BY DEF CommitTransaction, BeginTransaction, RollbackTransaction, stacks
<1>3. CASE \E s \in Calls :
              /\ Begin(s, "push", activeTransaction,
                       InOrder(activeTransaction))
              /\ activeTransaction # NoTransaction
  BY <1>1, <1>2, <1>3, OrdersFit, BeginQuiet
<1>4. CASE UNCHANGED <<calls, disturbed>>
  BY <1>2, <1>4, StillQuiet
<1> QED BY <1>3, <1>4 DEF CommitTransaction, BeginTransaction,
     RollbackTransaction, PushCollected

LEMMA WriteQuiet ==
    ASSUME FitInv, HistoryInv', ~disturbed', NEW s \in Calls, Write(s)
    PROVE  ~disturbed /\ Quiet
<1> DEFINE k == calls[s]
           c == k.command
           w == WriteAt(k, k.done + 1)
           j == [k EXCEPT !.done = k.done + 1]
<1>1. /\ ~disturbed
      /\ k # NoCall /\ k \in InFlight /\ k.done < Len(c)
      /\ k.order \in [DOMAIN c -> DOMAIN c]
      /\ FlightsOK /\ SettledIs
      /\ doc \in Docs
      /\ calls \in [Calls -> InFlight \cup {NoCall}]
      /\ \A t \in Calls : calls[t] # NoCall => t = s
  BY SettledLemma DEF Write, FitInv, HistoryInv, HistoryTypeOK, OneCall
<1>2. /\ k.done \in Nat /\ c \in Seq(Parts) /\ Len(c) \in Nat
      /\ c \in Commands /\ DOMAIN c = 1..Len(c)
  BY <1>1 DEF InFlight, Commands
<1>3. /\ doc' = [doc EXCEPT ![w.field] = w.value]
      /\ UNCHANGED <<undoStack, redoStack>>
      /\ calls' = [calls EXCEPT ![s] = j]
  BY DEF Write, stacks
<1>4. /\ j \in InFlight /\ j # NoCall
      /\ j.op = k.op /\ j.command = c /\ j.order = k.order
      /\ j.done = k.done + 1
  BY <1>1, WroteOne, MarkersAssumption
<1>5. calls'[s] = j /\ \A t \in Calls : t # s => calls'[t] = NoCall
  BY <1>1, <1>3
<1>6. w.field \in Touched(c)
  <2>1. k.done + 1 \in 1..Len(c)
    BY <1>1, <1>2
  <2> QED BY <1>1, <2>1, WrittenPart
<1>7. /\ doc'[w.field] = w.value
      /\ \A f \in Fields : f # w.field => doc'[f] = doc[f]
  <2>1. w.field \in Fields
    <3>1. k.done + 1 \in 1..Len(k.command)
      BY <1>1, <1>2
    <3> QED BY <1>1, <3>1, WrittenPart
  <2> QED BY <1>1, <1>3, <2>1 DEF Docs
<1>8. Settled' = Settled
  <2> DEFINE p == Patch(BeforeSide(k.op), c)
  <2>1. Settled = Laid(p, doc)
    BY <1>1 DEF SettledIs
  <2>2. SettledIs'
    BY SettledLemma, PTL
  <2>3. Settled' = Laid(Patch(BeforeSide(j.op), j.command), doc')
    BY <1>4, <1>5, <2>2 DEF SettledIs
  <2>4. DOMAIN p = Touched(c)
    BY DEF Patch
  <2> HIDE DEF p, w
  <2>5. Laid(p, doc') = Laid(p, doc)
    BY <1>6, <1>7, <2>4 DEF Laid
  <2> QED BY <1>4, <2>1, <2>3, <2>5 DEF p
<1>9. ASSUME NEW i \in 1..j.done,
             \A h \in (i + 1)..j.done :
                 WriteAt(j, h).field # WriteAt(j, i).field
      PROVE  doc'[WriteAt(j, i).field] = WriteAt(j, i).value
  <2>1. \A h : WriteAt(j, h) = WriteAt(k, h)
    BY <1>4 DEF WriteAt
  <2>2. CASE i = k.done + 1
    BY <1>7, <2>1, <2>2
  <2>3. CASE i # k.done + 1
    <3>1. i \in 1..k.done /\ k.done + 1 \in (i + 1)..j.done
      BY <1>2, <1>4, <2>3
    <3>2. WriteAt(k, i).field # w.field
      BY <1>9, <2>1, <3>1
    <3>3. \A h \in (i + 1)..k.done :
              WriteAt(k, h).field # WriteAt(k, i).field
      BY <1>2, <1>4, <1>9, <2>1, <3>1
    <3>4. doc[WriteAt(k, i).field] = WriteAt(k, i).value
      BY <1>1, <3>1, <3>3 DEF FlightsOK, FlightOK
    <3>5. WriteAt(k, i).field \in Fields
      <4>1. i \in 1..Len(k.command)
        BY <1>1, <1>2, <3>1
      <4> QED BY <1>1, <4>1, WrittenPart
    <3> QED BY <1>7, <2>1, <3>2, <3>4, <3>5
  <2> QED BY <2>2, <2>3
<1>10. FlightsOK'
  <2>1. /\ IF j.op = "undo" THEN j.order \in RevertOrders(j.command)
                            ELSE j.order = InOrder(j.command)
        /\ j.op = "undo" => j.command = Top(undoStack')
        /\ j.op = "redo" => j.command = Top(redoStack')
        /\ j.done # 0
    BY <1>1, <1>2, <1>3, <1>4 DEF FlightsOK, FlightOK
  <2> QED BY <1>5, <1>9, <2>1 DEF FlightsOK, FlightOK
<1> QED BY <1>1, <1>3, <1>8, <1>10 DEF Quiet

(* A call that fails before its first write leaves no trace.               *)
LEMMA RejectQuiet ==
    ASSUME FitInv, HistoryInv', ~disturbed', NEW s \in Calls, Reject(s)
    PROVE  ~disturbed /\ Quiet
<1> DEFINE k == calls[s]
<1>1. /\ ~disturbed /\ k # NoCall /\ k \in InFlight /\ ~ (k.done > 0)
      /\ FlightsOK /\ SettledIs
      /\ calls \in [Calls -> InFlight \cup {NoCall}]
      /\ \A t \in Calls : calls[t] # NoCall => t = s
  BY SettledLemma DEF Reject, FitInv, HistoryInv, HistoryTypeOK, OneCall
<1>2. k.done = 0
  BY <1>1 DEF InFlight
<1>3. /\ calls' = [calls EXCEPT ![s] = NoCall]
      /\ UNCHANGED <<doc, undoStack, redoStack>>
  BY DEF Reject, stacks
<1>4. \A t \in Calls : calls'[t] = NoCall
  BY <1>1, <1>3
<1>5. Settled' = doc
  <2>1. SettledIs'
    BY SettledLemma, PTL
  <2>2. ~Busy'
    BY <1>4 DEF Busy
  <2> QED BY <1>3, <2>1, <2>2 DEF SettledIs
<1>6. Settled = doc
  <2>1. \A f \in Touched(k.command) : doc[f] = Before(k, f)
    BY <1>1, <1>2 DEF FlightsOK, FlightOK
  <2>2. Settled = Laid(Patch(BeforeSide(k.op), k.command), doc)
    BY <1>1 DEF SettledIs
  <2>3. IsDoc(doc)
    BY DEF IsDoc, FitInv, HistoryInv, HistoryTypeOK, Docs
  <2> QED BY <2>1, <2>2, <2>3 DEF Laid, Patch, BeforeSide, Before, IsDoc
<1>7. FlightsOK'
  BY <1>4 DEF FlightsOK
<1> QED BY <1>1, <1>3, <1>5, <1>6, <1>7 DEF Quiet

-----------------------------------------------------------------------------
(* The end of a call: its command leaves one stack or comes to another.    *)

LEMMA Leaves ==
    ASSUME NEW side, NEW stack \in Seq(Commands), stack # << >>,
           NEW d, IsDoc(d),
           NEW e, e = Laid(Patch(Other(side), Top(stack)), d),
           Shows(side, Top(stack), d), Fit(side, stack, e)
    PROVE  /\ Fit(side, Pop(stack), d)
           /\ LineOf(side, stack, e) = Longer(LineOf(side, Pop(stack), d), d)
<1>1. OneOver(stack, Pop(stack))
  <2>1. Pop(stack) = SubSeq(stack, 1, Len(stack) - 1)
    BY DEF Pop
  <2>2. /\ Pop(stack) \in Seq(Commands)
        /\ Len(Pop(stack)) = Len(stack) - 1
        /\ Len(stack) \in Nat
    BY PopType
  <2>3. \A j \in 1..(Len(stack) - 1) : stack[j] = Pop(stack)[j]
    BY <2>1, <2>2
  <2> QED BY <2>2, <2>3 DEF OneOver
<1>2. IsDoc(e)
  BY LaidIsDoc
<1>3. d = Laid(Patch(side, Top(stack)), e)
  <2>1. \A f \in Fields : d[f] = Laid(Patch(side, Top(stack)), e)[f]
    BY DEF Laid, Patch, Shows
  <2> QED BY <2>1, LaidIsDoc, SameDoc
<1> QED BY <1>1, <1>2, <1>3, OneMore

LEMMA Comes ==
    ASSUME NEW side, NEW stack \in Seq(Commands), NEW c \in Commands,
           NEW d, IsDoc(d), NEW e, e = Laid(Patch(side, c), d),
           Shows(Other(side), c, d), Fit(side, stack, e)
    PROVE  /\ Fit(side, Append(stack, c), d)
           /\ LineOf(side, Append(stack, c), d)
                 = Longer(LineOf(side, stack, e), e)
<1>1. OneOver(Append(stack, c), stack) /\ Top(Append(stack, c)) = c
  BY DEF OneOver, Top
<1> QED BY <1>1, OneMore

LEMMA EmptyStack ==
    ASSUME NEW side, NEW d
    PROVE  Fit(side, << >>, d) /\ LineOf(side, << >>, d) = << >>
BY DEF Fit, LineOf

PastOf == LineOf("old", undoStack, Settled)
FutureOf == LineOf("new", redoStack, Settled)

(* Where the end of a call moves the document and the lines.               *)
Moves ==
    /\ Settled' = doc
    /\ \/ /\ LET past == Longer(PastOf, Settled)
             IN  PastOf' = IF Len(past) > MAX_HISTORY_SIZE THEN Tail(past)
                           ELSE past
          /\ FutureOf' = << >>
       \/ /\ PastOf = Longer(PastOf', doc)
          /\ FutureOf' = Longer(FutureOf, Settled)
       \/ /\ FutureOf = Longer(FutureOf', doc)
          /\ PastOf' = Longer(PastOf, Settled)

LEMMA EndMoves ==
    ASSUME FitInv, HistoryInv', ~disturbed', NEW s \in Calls, End(s)
    PROVE  /\ ~disturbed /\ doc' = doc
           /\ Moves
           /\ FlightsOK'
           /\ Fit("old", undoStack', Settled')
           /\ Fit("new", redoStack', Settled')
<1> DEFINE k == calls[s]
           c == k.command
<1>1. /\ ~disturbed /\ k # NoCall /\ k \in InFlight /\ k.done = Len(c)
      /\ FlightOK(k) /\ SettledIs
      /\ calls \in [Calls -> InFlight \cup {NoCall}]
      /\ \A t \in Calls : calls[t] # NoCall => t = s
      /\ k.op = "undo" => undoStack # << >>
      /\ k.op = "redo" => redoStack # << >>
  BY SettledLemma
     DEF End, FitInv, FlightsOK, HistoryInv, HistoryTypeOK, OneCall
<1>2. /\ undoStack \in Seq(Commands) /\ redoStack \in Seq(Commands)
      /\ c \in Commands /\ IsDoc(doc)
      /\ MAX_HISTORY_SIZE \in Nat
  BY <1>1, HistoryAssumption
     DEF FitInv, HistoryInv, HistoryTypeOK, InFlight, IsDoc, Docs
<1>3. Moved(k) /\ calls' = [calls EXCEPT ![s] = NoCall] /\ doc' = doc
  BY DEF End
<1>4. \A t \in Calls : calls'[t] = NoCall
  BY <1>1, <1>3
<1>5. Settled' = doc
  <2>1. SettledIs'
    BY SettledLemma, PTL
  <2>2. ~Busy'
    BY <1>4 DEF Busy
  <2> QED BY <1>3, <2>1, <2>2 DEF SettledIs
<1>6. Settled = Laid(Patch(BeforeSide(k.op), c), doc)
  BY <1>1 DEF SettledIs
<1>7. Shows(Other(BeforeSide(k.op)), c, doc)
  BY <1>1, AllWritten DEF Shows
<1>8. Fit("old", undoStack, Settled) /\ Fit("new", redoStack, Settled)
  BY <1>1 DEF FitInv
<1>9. FlightsOK'
  BY <1>4 DEF FlightsOK
<1>10. Other("old") = "new" /\ Other("new") = "old"
  BY DEF Other
<1> DEFINE past == LineOf("old", undoStack, Settled)
           future == LineOf("new", redoStack, Settled)
           past1 == LineOf("old", undoStack', doc)
           future1 == LineOf("new", redoStack', doc)
<1>11. /\ PastOf = past /\ FutureOf = future
       /\ PastOf' = past1 /\ FutureOf' = future1
  BY <1>5 DEF PastOf, FutureOf
<1>12. CASE k.op = "push"
  <2> DEFINE pushed == Append(undoStack, c)
  <2>1. /\ undoStack' = IF Len(pushed) > MAX_HISTORY_SIZE
                        THEN Tail(pushed) ELSE pushed
        /\ redoStack' = << >>
    BY <1>3, <1>12 DEF Moved
  <2>2. /\ Fit("old", pushed, doc)
        /\ LineOf("old", pushed, doc) = Longer(past, Settled)
    BY <1>2, <1>6, <1>7, <1>8, <1>10, <1>12, Comes DEF BeforeSide
  <2>3. pushed \in Seq(Commands) /\ Len(pushed) = Len(undoStack) + 1
        /\ pushed # << >>
    BY <1>2
  <2>4. Len(LineOf("old", pushed, doc)) = Len(pushed)
    BY <2>3, LineIsSeq
  <2> HIDE DEF pushed, past
  <2>5. /\ Fit("old", Tail(pushed), doc)
        /\ LineOf("old", Tail(pushed), doc) = Tail(LineOf("old", pushed, doc))
    BY <2>2, <2>3, OneLess
  <2>6. Fit("old", undoStack', doc)
    BY <2>1, <2>2, <2>5
  <2>7. past1 = IF Len(Longer(past, Settled)) > MAX_HISTORY_SIZE
                THEN Tail(Longer(past, Settled)) ELSE Longer(past, Settled)
    BY <2>1, <2>2, <2>4, <2>5
  <2>8. Fit("new", redoStack', doc) /\ future1 = << >>
    BY <2>1, EmptyStack
  <2> QED BY <1>1, <1>3, <1>5, <1>9, <1>11, <2>6, <2>7, <2>8 DEF Moves
<1>13. CASE k.op = "undo"
  <2>1. /\ undoStack' = Pop(undoStack)
        /\ redoStack' = Append(redoStack, c)
    BY <1>3, <1>13 DEF Moved
  <2>2. c = Top(undoStack) /\ undoStack # << >>
    BY <1>1, <1>13 DEF FlightOK
  <2>3. /\ Settled = Laid(Patch("new", c), doc)
        /\ Shows("old", c, doc)
    BY <1>6, <1>7, <1>10, <1>13 DEF BeforeSide
  <2> HIDE DEF c
  <2>4. Fit("old", undoStack', doc) /\ past = Longer(past1, doc)
    BY <1>2, <1>8, <1>10, <2>1, <2>2, <2>3, Leaves
  <2>5. Fit("new", redoStack', doc) /\ future1 = Longer(future, Settled)
    BY <1>2, <1>8, <1>10, <2>1, <2>3, Comes
  <2> QED BY <1>1, <1>3, <1>5, <1>9, <1>11, <2>4, <2>5 DEF Moves
<1>14. CASE k.op = "redo"
  <2>1. /\ undoStack' = Append(undoStack, c)
        /\ redoStack' = Pop(redoStack)
    BY <1>3, <1>14 DEF Moved
  <2>2. c = Top(redoStack) /\ redoStack # << >>
    BY <1>1, <1>14 DEF FlightOK
  <2>3. /\ Settled = Laid(Patch("old", c), doc)
        /\ Shows("new", c, doc)
    BY <1>6, <1>7, <1>10, <1>14 DEF BeforeSide
  <2> HIDE DEF c
  <2>4. Fit("new", redoStack', doc) /\ future = Longer(future1, doc)
    BY <1>2, <1>8, <1>10, <2>1, <2>2, <2>3, Leaves
  <2>5. Fit("old", undoStack', doc) /\ past1 = Longer(past, Settled)
    BY <1>2, <1>8, <1>10, <2>1, <2>3, Comes
  <2> QED BY <1>1, <1>3, <1>5, <1>9, <1>11, <2>4, <2>5 DEF Moves
<1> QED BY <1>1, <1>12, <1>13, <1>14 DEF InFlight

-----------------------------------------------------------------------------
(* The theorems on the two stacks.                                         *)

(* A step after which the rules are kept empties the stacks, ends a call,  *)
(* or does not move the document of the callers.                           *)
LEMMA StepKinds ==
    ASSUME FitInv, [HistoryNext]_historyVars, HistoryInv', ~disturbed'
    PROVE  \/ Clear
           \/ \E s \in Calls : End(s)
           \/ ~disturbed /\ Quiet
<1>1. ASSUME NEW s \in Calls, Undo(s) \/ Redo(s) PROVE ~disturbed /\ Quiet
  <2>1. undoStack \in Seq(Commands) /\ redoStack \in Seq(Commands)
    BY DEF FitInv, HistoryInv, HistoryTypeOK
  <2>2. CASE Undo(s)
    BY <2>1, <2>2, TopType, OrdersFit, BeginQuiet DEF Undo
  <2>3. CASE Redo(s)
    BY <2>1, <2>3, TopType, OrdersFit, BeginQuiet DEF Redo
  <2> QED BY <1>1, <2>2, <2>3
<1>2. ASSUME NEW c \in IssuedOn(doc), Push(c) PROVE ~disturbed /\ Quiet
  BY <1>2, IssuedCommands, PushQuiet
<1>3. CASE UNCHANGED historyVars
  BY <1>3, StillQuiet DEF historyVars, stacks
<1> QED
  BY <1>1, <1>2, <1>3, WriteQuiet, RejectQuiet, CommitQuiet DEF HistoryNext

LEMMA ClearEmpties ==
    ASSUME HistoryInv', ~disturbed', Clear
    PROVE  /\ ~Busy /\ UNCHANGED <<doc, calls>> /\ Settled' = doc
           /\ \A s \in Calls : calls'[s] = NoCall
           /\ undoStack' = << >> /\ redoStack' = << >>
<1>1. /\ ~Busy /\ UNCHANGED <<doc, calls>>
      /\ undoStack' = << >> /\ redoStack' = << >>
  BY DEF Clear
<1>2. \A s \in Calls : calls'[s] = NoCall
  BY <1>1 DEF Busy
<1>3. SettledIs'
  BY SettledLemma, PTL
<1>4. Settled' = doc
  BY <1>1, <1>2, <1>3 DEF SettledIs, Busy
<1> QED BY <1>1, <1>2, <1>4

LEMMA FitInit == HistoryInit => FitInv
<1> SUFFICES ASSUME HistoryInit PROVE FitInv
  OBVIOUS
<1>1. FlightsOK
  BY DEF HistoryInit, FlightsOK
<1> QED BY <1>1, InitInv, EmptyStack DEF HistoryInit, FitInv

LEMMA FitStep == FitInv /\ [HistoryNext]_historyVars => FitInv'
<1> SUFFICES ASSUME FitInv, [HistoryNext]_historyVars PROVE FitInv'
  OBVIOUS
<1>1. HistoryInv'
  BY StepInv DEF FitInv
<1>2. SUFFICES ASSUME ~disturbed'
               PROVE  /\ FlightsOK'
                      /\ Fit("old", undoStack', Settled')
                      /\ Fit("new", redoStack', Settled')
  BY <1>1 DEF FitInv
<1>3. CASE Clear
  BY <1>1, <1>2, <1>3, ClearEmpties, EmptyStack DEF FlightsOK
<1>4. CASE \E s \in Calls : End(s)
  BY <1>1, <1>2, <1>4, EndMoves
<1>5. CASE ~disturbed /\ Quiet
  BY <1>5 DEF FitInv, Quiet
<1> QED BY <1>1, <1>2, <1>3, <1>4, <1>5, StepKinds

LEMMA FitInvariant == HistorySpec => []FitInv
  BY FitInit, FitStep, PTL DEF HistorySpec

(* What undo is about to revert, and redo to apply, always finds the       *)
(* values it was made for, however many commands touch the same fields,    *)
(* and also between the writes of a call: revert restores the state that   *)
(* apply found.                                                            *)
THEOREM StacksAlwaysFit == HistorySpec => []StacksFit
<1>1. ASSUME FitInv, ~disturbed
      PROVE  /\ \A i \in 1..Len(undoStack) : \A f \in Touched(undoStack[i]) :
                   Reached(undoStack, i + 1, OldOf)[f] = NewOf(undoStack[i], f)
             /\ \A i \in 1..Len(redoStack) : \A f \in Touched(redoStack[i]) :
                   Reached(redoStack, i + 1, NewOf)[f] = OldOf(redoStack[i], f)
  <2>1. undoStack \in Seq(Commands) /\ redoStack \in Seq(Commands)
    BY <1>1 DEF FitInv, HistoryInv, HistoryTypeOK
  <2>2. Fit("old", undoStack, Settled) /\ Fit("new", redoStack, Settled)
    BY <1>1 DEF FitInv
  <2>3. ASSUME NEW i \in 1..Len(undoStack), NEW f \in Touched(undoStack[i])
        PROVE  Reached(undoStack, i + 1, OldOf)[f] = NewOf(undoStack[i], f)
    <3>1. Reached(undoStack, i + 1, OldOf)
            = Under(Patches("old", undoStack), Len(undoStack), Settled, i + 1)
      BY <2>1, ReachedIsUnder
    <3>2. Patch(Other("old"), undoStack[i])[f] = NewOf(undoStack[i], f)
      BY DEF Patch, Other
    <3> QED BY <2>2, <3>1, <3>2 DEF Fit
  <2>4. ASSUME NEW i \in 1..Len(redoStack), NEW f \in Touched(redoStack[i])
        PROVE  Reached(redoStack, i + 1, NewOf)[f] = OldOf(redoStack[i], f)
    <3>1. Reached(redoStack, i + 1, NewOf)
            = Under(Patches("new", redoStack), Len(redoStack), Settled, i + 1)
      BY <2>1, ReachedIsUnder
    <3>2. Patch(Other("new"), redoStack[i])[f] = OldOf(redoStack[i], f)
      BY DEF Patch, Other
    <3> QED BY <2>2, <3>1, <3>2 DEF Fit
  <2> QED BY <2>3, <2>4
<1>2. FitInv => StacksFit
  BY <1>1 DEF StacksFit
<1> QED BY <1>2, FitInvariant, PTL

-----------------------------------------------------------------------------
(* The refinement.                                                         *)

(* The lines of LinearHistory are those of the proofs.                     *)
LinesAre ==
    /\ Line(undoStack, OldOf) = PastOf
    /\ Line(redoStack, NewOf) = FutureOf

LEMMA LinesLemma == HistoryInv => LinesAre
<1> SUFFICES ASSUME HistoryInv PROVE LinesAre
  OBVIOUS
<1>1. undoStack \in Seq(Commands) /\ redoStack \in Seq(Commands)
  BY DEF HistoryInv, HistoryTypeOK
<1>2. \A i \in 1..Len(undoStack) : Reached(undoStack, i, OldOf)
          = Under(Patches("old", undoStack), Len(undoStack), Settled, i)
  BY <1>1, ReachedIsUnder
<1>3. \A i \in 1..Len(redoStack) : Reached(redoStack, i, NewOf)
          = Under(Patches("new", redoStack), Len(redoStack), Settled, i)
  BY <1>1, ReachedIsUnder
<1>4. Line(undoStack, OldOf) = PastOf
  BY <1>2 DEF Line, PastOf, LineOf
<1>5. Line(redoStack, NewOf) = FutureOf
  BY <1>3 DEF Line, FutureOf, LineOf
<1> QED BY <1>4, <1>5 DEF LinesAre

LEMMA LineInitRefines == HistoryInit => History!LineInit
<1> SUFFICES ASSUME HistoryInit PROVE History!LineInit
  OBVIOUS
<1>1. HistoryInv /\ LinesAre /\ SettledIs
  BY InitInv, LinesLemma, SettledLemma
<1>2. /\ ~disturbed /\ doc \in Docs /\ ~Busy
      /\ undoStack = << >> /\ redoStack = << >>
  BY DEF HistoryInit, Busy
<1>3. PastOf = << >> /\ FutureOf = << >>
  BY <1>2, EmptyStack DEF PastOf, FutureOf
<1>4. disturbed = FALSE
  BY DEF HistoryInit
<1> QED BY <1>1, <1>2, <1>3, <1>4 DEF History!LineInit, LinesAre, SettledIs

(* The nearest document is the last one of a line, and taking it off       *)
(* leaves the rest.                                                        *)
LEMMA LongerParts ==
    ASSUME NEW side, NEW stack \in Seq(Commands), NEW d, NEW e,
           NEW line, line = Longer(LineOf(side, stack, d), e)
    PROVE  /\ line # << >>
           /\ line[Len(line)] = e
           /\ SubSeq(line, 1, Len(line) - 1) = LineOf(side, stack, d)
<1> DEFINE rest == LineOf(side, stack, d)
<1>1. PICK S : rest \in Seq(S)
  BY LineIsSeq
<1>2. PICK T : T = S \cup {e}
  OBVIOUS
<1>3. rest \in Seq(T) /\ e \in T
  BY <1>1, <1>2
<1> HIDE DEF rest
<1>4. /\ line \in Seq(T) /\ Len(line) = Len(rest) + 1 /\ Len(rest) \in Nat
      /\ line[Len(rest) + 1] = e
      /\ \A i \in 1..Len(rest) : line[i] = rest[i]
  BY <1>3 DEF Longer, rest
<1>5. /\ SubSeq(line, 1, Len(rest)) \in Seq(T)
      /\ Len(SubSeq(line, 1, Len(rest))) = Len(rest)
      /\ \A i \in 1..Len(rest) : SubSeq(line, 1, Len(rest))[i] = rest[i]
  BY <1>4
<1>6. SubSeq(line, 1, Len(rest)) = rest
  BY <1>3, <1>5, SeqEqual
<1>7. Len(line) - 1 = Len(rest) /\ line # << >>
  BY <1>4
<1> QED BY <1>4, <1>6, <1>7 DEF rest

(* With the rules kept before and after it, a step moves along the line.   *)
LEMMA LineStep ==
    ASSUME FitInv, FitInv', [HistoryNext]_historyVars, ~disturbed, ~disturbed'
    PROVE  [History!LineNext]_(History!lineVars)
<1>1. /\ LinesAre /\ LinesAre'
      /\ HistoryInv /\ HistoryInv'
      /\ disturbed = FALSE /\ disturbed' = FALSE
  <2>1. HistoryInv /\ HistoryInv'
    BY DEF FitInv
  <2>2. LinesAre'
    BY <2>1, LinesLemma, PTL
  <2> QED BY <2>1, <2>2, LinesLemma DEF HistoryInv, HistoryTypeOK
<1>2. CASE Clear
  <2>1. /\ Settled' = Settled
        /\ PastOf' = << >> /\ FutureOf' = << >>
    <3>1. SettledIs
      BY <1>1, SettledLemma
    <3> QED BY <1>1, <1>2, <3>1, ClearEmpties, EmptyStack
            DEF PastOf, FutureOf, SettledIs
  <2>2. History!Forget
    BY <1>1, <2>1 DEF History!Forget, LinesAre
  <2> QED BY <1>1, <2>2 DEF History!LineNext, History!Promised
<1>3. CASE \E s \in Calls : End(s)
  <2>1. Moves /\ doc' = doc
    BY <1>1, <1>3, EndMoves
  <2>2. undoStack' \in Seq(Commands) /\ redoStack' \in Seq(Commands)
    BY <1>1 DEF HistoryInv, HistoryTypeOK
  <2>3. CASE /\ LET line == Longer(PastOf, Settled)
                IN  PastOf' = IF Len(line) > MAX_HISTORY_SIZE THEN Tail(line)
                              ELSE line
             /\ FutureOf' = << >>
    <3>1. History!Edit(Settled')
      BY <1>1, <2>3 DEF History!Edit, History!Latest, LinesAre, Longer
    <3> QED BY <1>1, <3>1 DEF History!LineNext, History!Promised
  <2>4. CASE /\ PastOf = Longer(PastOf', doc)
             /\ FutureOf' = Longer(FutureOf, Settled)
    <3>1. /\ PastOf # << >> /\ PastOf[Len(PastOf)] = doc
          /\ SubSeq(PastOf, 1, Len(PastOf) - 1) = PastOf'
      BY <2>4, <2>2, LongerParts DEF PastOf
    <3>2. Settled' = doc /\ FutureOf' = Append(FutureOf, Settled)
      BY <2>1, <2>4 DEF Longer, Moves
    <3>3. History!Undo
      BY <1>1, <3>1, <3>2
         DEF History!Undo, History!Pop, History!Top, LinesAre
    <3> QED BY <1>1, <3>3 DEF History!LineNext, History!Promised
  <2>5. CASE /\ FutureOf = Longer(FutureOf', doc)
             /\ PastOf' = Longer(PastOf, Settled)
    <3>1. /\ FutureOf # << >> /\ FutureOf[Len(FutureOf)] = doc
          /\ SubSeq(FutureOf, 1, Len(FutureOf) - 1) = FutureOf'
      BY <2>5, <2>2, LongerParts DEF FutureOf
    <3>2. Settled' = doc /\ PastOf' = Append(PastOf, Settled)
      BY <2>1, <2>5 DEF Longer, Moves
    <3>3. History!Redo
      BY <1>1, <3>1, <3>2
         DEF History!Redo, History!Pop, History!Top, LinesAre
    <3> QED BY <1>1, <3>3 DEF History!LineNext, History!Promised
  <2> QED BY <2>1, <2>3, <2>4, <2>5 DEF Moves
<1>4. CASE Quiet
  <2>1. Settled' = Settled /\ PastOf' = PastOf /\ FutureOf' = FutureOf
    BY <1>4 DEF Quiet, PastOf, FutureOf
  <2> QED BY <1>1, <2>1 DEF History!lineVars, LinesAre
<1> QED BY <1>1, <1>2, <1>3, <1>4, StepKinds

LEMMA LineStepRefines ==
    FitInv /\ FitInv' /\ [HistoryNext]_historyVars
        => [History!LineNext]_(History!lineVars)
<1> SUFFICES ASSUME FitInv, FitInv', [HistoryNext]_historyVars
             PROVE  [History!LineNext]_(History!lineVars)
  OBVIOUS
<1>1. /\ HistoryInv /\ HistoryInv'
      /\ disturbed \in BOOLEAN /\ disturbed' \in BOOLEAN
  BY DEF FitInv, HistoryInv, HistoryTypeOK
<1>2. CASE ~disturbed /\ ~disturbed'
  BY <1>2, LineStep
<1>3. CASE disturbed'
  BY <1>1, <1>3 DEF History!LineNext, History!GiveUp
(* The promise is restored by clear alone.                                 *)
<1>4. CASE disturbed /\ ~disturbed'
  <2>1. Clear
    BY <1>4 DEF HistoryNext, historyVars, Push, Undo, Redo, Begin, Write, End,
                Reject, BeginTransaction, CommitTransaction, PushCollected,
                RollbackTransaction
  <2>2. PastOf' = << >> /\ FutureOf' = << >>
    BY <1>1, <1>4, <2>1, ClearEmpties, EmptyStack DEF PastOf, FutureOf
  <2>3. LinesAre'
    BY <1>1, LinesLemma, PTL
  <2>4. History!Restart
    BY <1>4, <2>2, <2>3 DEF History!Restart, LinesAre
  <2> QED BY <2>4 DEF History!LineNext
<1> QED BY <1>1, <1>2, <1>3, <1>4

(* Undo and redo walk one line of documents: an edit goes on from the      *)
(* present one and forgets the future, undo and redo restore exactly the   *)
(* neighbouring documents, and only the oldest one is ever dropped.        *)
THEOREM HistoryIsLinear == HistorySpec => RefinesLinearHistory
  BY LineInitRefines, LineStepRefines, FitInvariant, PTL
     DEF HistorySpec, RefinesLinearHistory, History!LineSpec
=============================================================================

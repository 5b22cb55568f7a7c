---------------------------- MODULE EnmRegister ----------------------------
(***************************************************************************)
(* What the domain-ops endpoint promises: one versioned register per case. *)
(* A request is applied at most once.  A request that names a base is      *)
(* applied to that base or not at all.  Each application makes one new     *)
(* revision.  Memory may be lost as a whole, never one update of it.       *)
(***************************************************************************)
EXTENDS EnmModel

VARIABLES
    model,          \* the current model of each case, or NoEnm
    applied         \* requests that took effect: records with case, base, op

regVars == <<model, applied>>

RegInit ==
    /\ model = [c \in Cases |-> NoEnm]
    /\ applied = {}

(* A case is looked at for the first time.                                 *)
Create(c) ==
    /\ model[c] = NoEnm
    /\ model' = [model EXCEPT ![c] = DefaultEnm(c)]
    /\ UNCHANGED applied

Current(c) == IF model[c] = NoEnm THEN DefaultEnm(c) ELSE model[c]

(* Compare and swap, or a plain write when no base is named.               *)
Apply(r) ==
    LET current == Current(r.case)
        x == Execute(current.content, r.op)
    IN  /\ r \notin applied
        /\ r.base \in {NoHash, ComputeHash(current)}
        /\ x \in Contents \ {current.content}
        /\ model' = [model EXCEPT ![r.case] = NextEnm(r.case, current, x)]
        /\ applied' = applied \cup {r}

(* The process restarts.                                                   *)
Forget ==
    /\ model' = [c \in Cases |-> NoEnm]
    /\ UNCHANGED applied

(* The request that takes effect is the one that enters applied.           *)
RegNext ==
    \/ \E c \in Cases : Create(c)
    \/ \E r \in applied' : Apply(r)
    \/ Forget

RegSpec == RegInit /\ [][RegNext]_regVars
=============================================================================

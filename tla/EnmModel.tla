------------------------------ MODULE EnmModel ------------------------------
(***************************************************************************)
(* The Energy Network Model (ENM) of one case as the backend stores it:    *)
(* a revision, a content and the hash written into its header.             *)
(* Source: backend/src/enm/store.py, enm/hash.py and the operation         *)
(* dispatcher of enm/domain_operations.py.                                 *)
(*                                                                         *)
(* A content is abstract.  A domain operation is a function from contents  *)
(* to contents, or OpError where the handler answers with an error.        *)
(***************************************************************************)
EXTENDS Integers

CONSTANTS
    Cases,          \* case identifiers
    HeaderName,     \* HeaderName[c]: the name in the header, which has the
                    \* first characters of c and may be that of another case
    Contents,       \* what a network can contain
    EmptyContent,   \* the network of a model nobody has edited
    Ops,            \* domain operations with their payloads
    RefreshOp,      \* the operation refresh_snapshot
    OpError,        \* answer of a handler that refuses
    Effect,         \* Effect[x, o]: content after o, or OpError
    NoEnm           \* absence of a model

ASSUME ModelAssumption ==
    /\ EmptyContent \in Contents
    /\ RefreshOp \in Ops
    /\ OpError \notin Contents
    /\ Effect \in [Contents \X Ops -> Contents \cup {OpError}]
    /\ \A x \in Contents : Effect[x, RefreshOp] = x

Revisions == Nat \ {0}

(* A perfect SHA-256 of what compute_enm_hash keeps: the header (its name, *)
(* all that is left of the case, and its revision) and the content.        *)
Hashes == {HeaderName[c] : c \in Cases} \X Revisions \X Contents
NoHash == << >>

Enms == [case : Cases, revision : Revisions, content : Contents, hash : Hashes]

ASSUME NoEnmAssumption == NoEnm \notin Enms

(* The fields the hash depends on.                                         *)
HashOf(c, n, x) == <<HeaderName[c], n, x>>

ComputeHash(e) == HashOf(e.case, e.revision, e.content)

HashIsCurrent(e) == e.hash = ComputeHash(e)

(* A model whose header is complete: the hash is computed last.            *)
Sealed(c, n, x) ==
    [case |-> c, revision |-> n, content |-> x, hash |-> HashOf(c, n, x)]

(* The model get_enm creates for a case it has never seen.                 *)
DefaultEnm(c) == Sealed(c, 1, EmptyContent)

(* execute_domain_operation: a new content or an error, header untouched.  *)
Execute(x, op) == Effect[x, op]

(* set_enm, first half: would the new content, under the revision already  *)
(* stored, hash to the hash already stored?                                *)
SameAsStored(existing, x) ==
    /\ existing # NoEnm
    /\ HashOf(existing.case, existing.revision, x) = existing.hash

(* set_enm, second half: the model that replaces the stored one.  In the   *)
(* mutants the hash is taken before the revision is set, and the revision  *)
(* is not raised.                                                          *)
OldRevision(existing) == IF existing = NoEnm THEN 0 ELSE existing.revision

NextEnm_EarlyHash(c, existing, x) ==
    [Sealed(c, OldRevision(existing) + 1, x) EXCEPT
        !.hash = HashOf(c, OldRevision(existing), x)]
NextEnm_SameRevision(c, existing, x) ==
    Sealed(c, IF existing = NoEnm THEN 1 ELSE existing.revision, x)
NextEnm(c, existing, x) == Sealed(c, OldRevision(existing) + 1, x)

(* The optimistic concurrency check of domain_ops: an empty base hash      *)
(* means that the client does not ask for the check (the mutant never asks)*)
BaseAccepted_Unchecked(base, e) == TRUE
BaseAccepted(base, e) == base = NoHash \/ base = e.hash
=============================================================================

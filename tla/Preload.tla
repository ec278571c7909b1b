------------------------------- MODULE Preload -------------------------------
(***************************************************************************)
(* Repo.Preload of src/repo.go (lines 195-254): loading an association of  *)
(* one or several in-memory parent records with one batched read.  Each    *)
(* parent has a has-many field (a slice, which the mapping loop appends    *)
(* to) and a has-one field (a pointer, which the loop sets); a child row   *)
(* belongs to the parents whose reference key equals its foreign key.     *)
(* The read of the child rows is one adapter call; the rows come back in   *)
(* an order the query does not fix, and the loop maps them in that order. *)
(* A call is one step: the rest of Preload only touches caller memory.     *)
(***************************************************************************)
EXTENDS Naturals, SequencesExt

CONSTANTS
    Parents,    \* the in-memory parent records
    PIds,       \* reference-key values of parents
    Children,   \* the child rows of the associated table
    Vals,       \* values of the child column a caller's filter looks at
    NoChild,    \* a nil has-one pointer
    MaxCalls    \* bound on the number of Preload calls

ASSUME PreloadConstantsAssumption ==
    /\ NoChild \notin Children
    /\ IsFiniteSet(Children)
    /\ MaxCalls \in Nat

Fields == {"many", "one"}

Row == [fk : PIds, val : Vals]

VARIABLES
    ref,        \* ref[p]: reference key of parent p (its primary key)
    rows,       \* rows[ch]: the stored child row ch
    many,       \* many[p]: p's has-many slice, in order
    one,        \* one[p]: p's has-one pointer
    done,       \* done[p]: the fields a Preload has filled for p
    calls,      \* Preload calls made
    last        \* the last call: field, filter, result and rows read

vars == <<ref, rows, many, one, done, calls, last>>

Init ==
    /\ ref \in [Parents -> PIds]
    /\ rows \in [Children -> Row]
    /\ many = [p \in Parents |-> <<>>]
    /\ one = [p \in Parents |-> NoChild]
    /\ done = [p \in Parents |-> {}]
    /\ calls = 0
    /\ last = [field |-> "many", filter |-> Vals, res |-> "none",
               read |-> {}]

-----------------------------------------------------------------------------
(* The child rows whose foreign key is id: those the read where.In(column, *)
(* ids) returns for a key id of ids.                                        *)
KeyRows(id) == {ch \in Children : rows[ch].fk = id}

(* The orders in which the loop over the result meets the rows of each    *)
(* key of ids.  The read has no ORDER BY, so the result is any ordering   *)
(* of the rows, and the rows of one key come in any order, independent of *)
(* the other keys' rows: every family of per-key orders is the projection *)
(* of some ordering of the whole result, and every ordering projects to   *)
(* one.                                                                    *)
Orders(ids) ==
    {o \in [ids -> UNION {SetToSeqs(KeyRows(id)) : id \in ids}] :
        \A id \in ids : o[id] \in SetToSeqs(KeyRows(id))}

(* The rows of the result that belong to parent p, in result order: the   *)
(* loop over the result hands a row to p through addrs[id] exactly when   *)
(* the row's foreign key id is p's reference key (lines 236-240).          *)
RowsOf(order, p) == order[ref[p]]

(* The mapping loop (lines 235-251) for the targets: appends to a slice, *)
(* sets a pointer, in result order, so the last row wins.                 *)
MapMany(order, targets) ==
    [p \in Parents |-> IF p \in targets THEN many[p] \o RowsOf(order, p)
                       ELSE many[p]]

(* Mutant: the has-one fields are rebuilt for the targets only.          *)
MapOneTargetsOnly(order, targets) ==
    [p \in targets |-> IF Len(RowsOf(order, p)) > 0
                       THEN Last(RowsOf(order, p))
                       ELSE one[p]]

MapOne(order, targets) ==
    [p \in Parents |-> IF p \in targets /\ Len(RowsOf(order, p)) > 0
                       THEN Last(RowsOf(order, p))
                       ELSE one[p]]

(* Preload(record, field, queries...) with the targets the path reaches   *)
(* in the record: nothing to load returns nil (lines 205-208 and 213-216); *)
(* otherwise one All with where.In(column, ids...) (line 229): an adapter  *)
(* error is returned before any field is touched, and otherwise the rows   *)
(* come back in some order and are mapped.  The caller's queries are       *)
(* never passed to All.                                                    *)
Preload(f, targets, flt) ==
    /\ calls < MaxCalls
    /\ calls' = calls + 1
    /\ UNCHANGED <<ref, rows>>
    /\ \/ /\ targets = {}
          /\ last' = [field |-> f, filter |-> flt, res |-> "nil", read |-> {}]
          /\ UNCHANGED <<many, one, done>>
       \/ /\ targets # {}
          /\ last' = [field |-> f, filter |-> flt, res |-> "Unexpected",
                      read |-> {}]
          /\ UNCHANGED <<many, one, done>>
       \/ /\ targets # {}
          /\ LET ids  == {ref[p] : p \in targets}
                 read == {ch \in Children : rows[ch].fk \in ids}
             IN  /\ \E order \in Orders(ids) :
                       IF f = "many"
                       THEN many' = MapMany(order, targets) /\ UNCHANGED one
                       ELSE one' = MapOne(order, targets) /\ UNCHANGED many
                 /\ last' = [field |-> f, filter |-> flt, res |-> "nil",
                             read |-> read]
          /\ done' = [p \in Parents |-> IF p \in targets THEN done[p] \cup {f}
                                        ELSE done[p]]

Next ==
    \E f \in Fields, targets \in SUBSET Parents, flt \in SUBSET Vals :
        Preload(f, targets, flt)

Spec == Init /\ [][Next]_vars

-----------------------------------------------------------------------------
TypeOK ==
    /\ ref \in [Parents -> PIds]
    /\ rows \in [Children -> Row]
    /\ many \in [Parents -> Seq(Children)]
    /\ one \in [Parents -> Children \cup {NoChild}]
    /\ done \in [Parents -> SUBSET Fields]
    /\ calls \in 0..MaxCalls

(* A slice association holds each child once.  The mapping loop appends  *)
(* to the slice already in the record (line 242) instead of replacing it, *)
(* so a second Preload of the same field duplicates its children.         *)
NoDuplicates ==
    \A p \in Parents : IsInjective(many[p])

(* Spec section 4.4: Preload(record, path, filters...) loads the children *)
(* the filters select.  The rows read are those of where.In alone: the    *)
(* queries argument is never passed to All (line 229).                    *)
FiltersHonoured ==
    last.res = "nil" => \A ch \in last.read : rows[ch].val \in last.filter

=============================================================================

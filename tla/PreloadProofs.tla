---------------------------- MODULE PreloadProofs ----------------------------
(***************************************************************************)
(* Proofs about Preload, for every finite child table, every set of        *)
(* parents and keys, and every bound on the calls.                         *)
(***************************************************************************)
EXTENDS Preload, FiniteSetTheorems, SequenceTheorems, TLAPS

(* An ordering of a finite set S is a sequence of S of length |S| that    *)
(* holds every element of S.                                                *)
LEMMA SetToSeqsCovers ==
  ASSUME NEW S, IsFiniteSet(S), NEW s \in SetToSeqs(S)
  PROVE  /\ s \in Seq(S)
         /\ Len(s) = Cardinality(S)
         /\ \A x \in S : \E i \in 1..Len(s) : s[i] = x
  <1> DEFINE n == Cardinality(S)
  <1>1. n \in Nat
    BY FS_CardinalityType
  <1>2. s \in [1..n -> S] /\ \A i, j \in 1..n : i # j => s[i] # s[j]
    BY DEF SetToSeqs
  <1>3. s \in Seq(S) /\ Len(s) = n
    BY <1>1, <1>2
  <1>4. s \in Injection(1..n, S)
    BY <1>2 DEF Injection, IsInjective
  <1>5. Cardinality(1..n) = n /\ IsFiniteSet(1..n)
    BY <1>1, FS_Interval
  <1>6. s \in Surjection(1..n, S)
    BY <1>4, <1>5, FS_Injection
  <1>7. QED
    BY <1>3, <1>6 DEF Surjection

(* The rows of one key are finitely many children.                        *)
LEMMA KeyRowsFinite ==
  ASSUME NEW id
  PROVE  IsFiniteSet(KeyRows(id)) /\ KeyRows(id) \subseteq Children
  BY PreloadConstantsAssumption, FS_Subset DEF KeyRows

(* What a Preload hands a target: an ordering of exactly the children     *)
(* with its key.                                                           *)
LEMMA RowsOfProps ==
  ASSUME NEW ids, NEW order \in Orders(ids), NEW p, ref[p] \in ids
  PROVE  /\ RowsOf(order, p) \in Seq(Children)
         /\ \A i \in 1..Len(RowsOf(order, p)) :
               rows[RowsOf(order, p)[i]].fk = ref[p]
         /\ \A ch \in KeyRows(ref[p]) :
               \E i \in 1..Len(RowsOf(order, p)) : RowsOf(order, p)[i] = ch
         /\ (KeyRows(ref[p]) # {} => Len(RowsOf(order, p)) > 0)
  <1> DEFINE S == KeyRows(ref[p])
             s == RowsOf(order, p)
  <1>1. s \in SetToSeqs(S)
    BY DEF Orders, RowsOf
  <1>2. IsFiniteSet(S) /\ S \subseteq Children
    BY KeyRowsFinite
  <1>3. s \in Seq(S) /\ Len(s) = Cardinality(S)
        /\ \A x \in S : \E i \in 1..Len(s) : s[i] = x
    BY <1>1, <1>2, SetToSeqsCovers
  <1>4. s \in Seq(Children)
    BY <1>2, <1>3, SeqMonotonic
  <1>5. \A i \in 1..Len(s) : s[i] \in S
    BY <1>3, ElementOfSeq
  <1>6. QED
    BY <1>3, <1>4, <1>5 DEF KeyRows

(* The slices the mapping loop leaves: each target's slice is its old     *)
(* slice followed by the rows of its key, and the other slices are kept.   *)
LEMMA MapManyProps ==
  ASSUME TypeOK, NEW targets \in SUBSET Parents,
         NEW order \in Orders({ref[q] : q \in targets}), NEW p \in Parents
  PROVE  LET m == MapMany(order, targets)[p]
         IN  /\ m \in Seq(Children)
             /\ p \notin targets => m = many[p]
             /\ p \in targets =>
                   /\ Len(m) = Len(many[p]) + Len(RowsOf(order, p))
                   /\ \A i \in 1..Len(m) :
                         m[i] = IF i <= Len(many[p]) THEN many[p][i]
                                ELSE RowsOf(order, p)[i - Len(many[p])]
                   /\ \A i \in 1..Len(RowsOf(order, p)) :
                         m[Len(many[p]) + i] = RowsOf(order, p)[i]
  <1>1. CASE p \notin targets
    BY <1>1 DEF MapMany, TypeOK
  <1>2. CASE p \in targets
    <2> DEFINE r == RowsOf(order, p)
    <2>1. r \in Seq(Children)
      BY <1>2, RowsOfProps
    <2>2. many[p] \in Seq(Children)
      BY DEF TypeOK
    <2>3. MapMany(order, targets)[p] = many[p] \o r
      BY <1>2 DEF MapMany
    <2>4. Len(many[p]) \in Nat /\ Len(r) \in Nat
      BY <2>1, <2>2, LenProperties
    <2>5. QED
      BY <1>2, <2>1, <2>2, <2>3, <2>4, ConcatProperties
  <1>3. QED
    BY <1>1, <1>2

(* The pointers the mapping loop leaves: a target with a row of its key   *)
(* points to the last such row; every other pointer is kept.              *)
LEMMA MapOneProps ==
  ASSUME TypeOK, NEW targets \in SUBSET Parents,
         NEW order \in Orders({ref[q] : q \in targets}), NEW p \in Parents
  PROVE  LET o == MapOne(order, targets)[p]
         IN  /\ o \in Children \cup {NoChild}
             /\ (p \in targets /\ KeyRows(ref[p]) # {}) =>
                   o \in KeyRows(ref[p])
             /\ ~(p \in targets /\ KeyRows(ref[p]) # {}) => o = one[p]
  <1>1. CASE p \in targets /\ KeyRows(ref[p]) # {}
    <2> DEFINE r == RowsOf(order, p)
    <2>0. ref[p] \in {ref[q] : q \in targets}
      BY <1>1
    <2>1a. r \in Seq(Children)
      BY <2>0, RowsOfProps
    <2>1b. \A i \in 1..Len(r) : rows[r[i]].fk = ref[p]
      BY <2>0, RowsOfProps
    <2>1c. Len(r) > 0
      BY <1>1, <2>0, RowsOfProps
    <2>1. r \in Seq(Children) /\ Len(r) > 0
          /\ \A i \in 1..Len(r) : rows[r[i]].fk = ref[p]
      BY <2>1a, <2>1b, <2>1c
    <2>2. Len(r) \in 1..Len(r)
      BY <2>1, LenProperties
    <2>3. MapOne(order, targets)[p] = r[Len(r)]
      BY <1>1, <2>1 DEF MapOne, Last
    <2>4. r[Len(r)] \in Children
      BY <2>1, <2>2, ElementOfSeq
    <2>5. rows[r[Len(r)]].fk = ref[p]
      BY <2>1, <2>2
    <2>6. r[Len(r)] \in KeyRows(ref[p])
      BY <2>4, <2>5 DEF KeyRows
    <2>7. QED
      BY <1>1, <2>3, <2>6, <2>4
  <1>2. CASE p \in targets /\ KeyRows(ref[p]) = {}
    <2>1. Len(RowsOf(order, p)) = 0
      <3>1. RowsOf(order, p) \in SetToSeqs(KeyRows(ref[p]))
        BY <1>2 DEF Orders, RowsOf
      <3>2. QED
        BY <1>2, <3>1, KeyRowsFinite, SetToSeqsCovers, FS_EmptySet
    <2>2. QED
      BY <1>2, <2>1 DEF MapOne, TypeOK
  <1>3. CASE p \notin targets
    BY <1>3 DEF MapOne, TypeOK
  <1>4. QED
    BY <1>1, <1>2, <1>3

-----------------------------------------------------------------------------
(* The fields a call marks as filled.                                     *)
LEMMA DoneStep ==
  ASSUME TypeOK, NEW f \in Fields, NEW targets \in SUBSET Parents
  PROVE  [p \in Parents |-> IF p \in targets THEN done[p] \cup {f}
                            ELSE done[p]] \in [Parents -> SUBSET Fields]
  BY DEF TypeOK

(* Every Preload call, whichever of its three outcomes it has, keeps the  *)
(* slices sequences of children, the pointers children or nil, and the    *)
(* call count within its bound (Repo.Preload, lines 195-254).              *)
THEOREM TypeCorrect == Spec => []TypeOK
  <1>1. Init => TypeOK
    BY PreloadConstantsAssumption DEF Init, TypeOK
  <1>2. TypeOK /\ [Next]_vars => TypeOK'
    <2> SUFFICES ASSUME TypeOK, [Next]_vars PROVE TypeOK'
      OBVIOUS
    <2>1. ASSUME NEW f \in Fields, NEW targets \in SUBSET Parents,
                 NEW flt \in SUBSET Vals, Preload(f, targets, flt)
          PROVE  TypeOK'
      <3>1. calls' \in 0..MaxCalls /\ ref' = ref /\ rows' = rows
        BY <2>1, PreloadConstantsAssumption DEF Preload, TypeOK
      <3>2. CASE UNCHANGED <<many, one, done>>
        BY <3>1, <3>2 DEF TypeOK
      <3>3. CASE /\ targets # {}
                 /\ \E order \in Orders({ref[p] : p \in targets}) :
                       IF f = "many"
                       THEN many' = MapMany(order, targets) /\ UNCHANGED one
                       ELSE one' = MapOne(order, targets) /\ UNCHANGED many
                 /\ done' = [p \in Parents |-> IF p \in targets
                                               THEN done[p] \cup {f}
                                               ELSE done[p]]
        <4>1. PICK order \in Orders({ref[p] : p \in targets}) :
                 IF f = "many"
                 THEN many' = MapMany(order, targets) /\ UNCHANGED one
                 ELSE one' = MapOne(order, targets) /\ UNCHANGED many
          BY <3>3
        <4>2. MapMany(order, targets) \in [Parents -> Seq(Children)]
          BY MapManyProps DEF MapMany
        <4>3. MapOne(order, targets) \in [Parents -> Children \cup {NoChild}]
          BY MapOneProps DEF MapOne
        <4>4. many' \in [Parents -> Seq(Children)]
              /\ one' \in [Parents -> Children \cup {NoChild}]
          BY <4>1, <4>2, <4>3 DEF TypeOK
        <4>5. done' \in [Parents -> SUBSET Fields]
          BY <3>3, DoneStep
        <4>6. QED
          BY <3>1, <4>4, <4>5 DEF TypeOK
      <3>4. QED
        BY <2>1, <3>2, <3>3 DEF Preload
    <2>2. CASE UNCHANGED vars
      BY <2>2 DEF vars, TypeOK
    <2>3. QED
      BY <2>1, <2>2 DEF Next
  <1>3. QED
    BY <1>1, <1>2, PTL DEF Spec

====

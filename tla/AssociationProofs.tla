-------------------------- MODULE AssociationProofs --------------------------
(***************************************************************************)
(* Proofs about the association upsert orchestrator, for every set of      *)
(* primary keys and every bound on the calls and on the children inserted. *)
(***************************************************************************)
EXTENDS Association, FiniteSetTheorems, TLAPS

(* The owner's user_id is only stamped by the Insert of a new buyer, and   *)
(* the buyer is only replaced by that Insert's re-read: when both are set  *)
(* they name the same row.                                                 *)
BuyerStamped == (fk # Unset /\ buyer # Zero) => fk = buyer

(* The inductive invariant of the orchestrator.                           *)
AssocInv ==
    /\ TypeOK
    /\ BuyerStamped
    /\ OwnerReferencesBuyer
    /\ ReplaceDropsLoaded

-----------------------------------------------------------------------------
(* Every initial state satisfies AssocInv: no call has been made.         *)
LEMMA InitAssocInv == Init => AssocInv
  BY AssociationConstantsAssumption
  DEF Init, AssocInv, TypeOK, OwnedItems, Owners, Results, BuyerStamped,
      OwnerReferencesBuyer, ReplaceDropsLoaded

(* A belongs-to upsert keeps AssocInv: user_id is only ever set to a row  *)
(* the Insert has just stored, and together with the buyer it re-reads.   *)
LEMMA BelongsToInv ==
  ASSUME AssocInv, NEW ch \in Nested, BelongsTo(ch)
  PROVE  AssocInv'
  <1> USE DEF AssocInv, TypeOK, Results, Done
  <1>1. calls' \in 0..MaxCalls /\ last'.kind \in {"skip", "belongsTo"}
        /\ UNCHANGED <<addresses, items, address, loaded, coll>>
    BY AssociationConstantsAssumption DEF BelongsTo, BelongsToUpdate,
       BelongsToInsert
  <1>2. ReplaceDropsLoaded'
    BY <1>1 DEF ReplaceDropsLoaded
  <1>3. CASE UNCHANGED <<users, buyer, fk>>
    <2>1. last'.res \in Results
      BY <1>3 DEF BelongsTo, BelongsToUpdate, BelongsToInsert
    <2>2. (last'.kind = "belongsTo" /\ last'.res = "nil" /\ fk # Unset)
          => fk = buyer
      BY <1>3 DEF BelongsTo, BelongsToUpdate, BelongsToInsert, BuyerStamped
    <2>3. QED
      BY <1>1, <1>2, <1>3, <2>1, <2>2 DEF BuyerStamped, OwnerReferencesBuyer
  <1>4. CASE ~UNCHANGED <<users, buyer, fk>>
    <2>1. buyer = Zero /\ ch # None /\ ch.id \in {Keep, buyer}
      BY <1>4 DEF BelongsTo, BelongsToUpdate
    <2>2. PICK i \in Ids \ users :
               /\ users' = users \cup {i}
               /\ fk' = i
               /\ \/ Done("belongsTo", "Unexpected") /\ UNCHANGED buyer
                  \/ Done("belongsTo", "nil") /\ buyer' = i
      BY <1>4, <2>1 DEF BelongsTo, BelongsToInsert
    <2>3. QED
      BY <1>1, <1>2, <2>1, <2>2
      DEF BuyerStamped, OwnerReferencesBuyer
  <1>5. QED
    BY <1>3, <1>4

(* A has-one upsert keeps AssocInv: its Update and re-read filter on the *)
(* owner's foreign key, and its Insert stamps the new row with it.        *)
LEMMA HasOneInv ==
  ASSUME AssocInv, NEW ch \in Nested, HasOne(ch)
  PROVE  AssocInv'
  <1> USE DEF AssocInv, TypeOK, Results, Done
  <1>1. /\ calls' \in 0..MaxCalls
        /\ last'.kind \in {"skip", "hasOne"} /\ last'.res \in Results
        /\ UNCHANGED <<users, items, buyer, fk, loaded, coll>>
    BY AssociationConstantsAssumption DEF HasOne, HasOneUpdate, HasOneInsert
  <1>2. OwnerReferencesBuyer' /\ BuyerStamped' /\ ReplaceDropsLoaded'
    BY <1>1 DEF OwnerReferencesBuyer, BuyerStamped, ReplaceDropsLoaded
  <1>3. CASE ch = None \/ ch.id \notin {Keep, address}
    BY <1>1, <1>2, <1>3 DEF HasOne
  <1>4. CASE ch # None /\ ch.id \in {Keep, address} /\ address # Zero
    <2>1. address \in Ids /\ HasOneUpdate
      BY <1>4 DEF HasOne
    <2>2. QED
      BY <1>1, <1>2, <2>1 DEF HasOneUpdate, Owners
  <1>5. CASE ch # None /\ ch.id \in {Keep, address} /\ address = Zero
    <2>1. HasOneInsert
      BY <1>5 DEF HasOne
    <2>2. CASE UNCHANGED <<addresses, address>>
      BY <1>1, <1>2, <2>1, <2>2 DEF HasOneInsert
    <2>3. CASE ~UNCHANGED <<addresses, address>>
      <3>1. PICK i \in {j \in Ids : addresses[j] = Absent} :
                 /\ addresses' = [addresses EXCEPT ![i] = Owner]
                 /\ \/ Done("hasOne", "Unexpected") /\ UNCHANGED address
                    \/ Done("hasOne", "nil") /\ address' = i
        BY <2>1, <2>3 DEF HasOneInsert
      <3>2. QED
        BY <1>1, <1>2, <1>5, <3>1 DEF Owners
    <2>4. QED
      BY <2>2, <2>3
  <1>6. QED
    BY <1>3, <1>4, <1>5

(* InsertAll into an items table in which no child of the loaded         *)
(* collection is stored under Owner keeps the items typed and, when the   *)
(* call returns nil, leaves exactly the new children in the collection,   *)
(* all under Owner, and none of the children held before under Owner.     *)
LEMMA InsertAllPost ==
  ASSUME TypeOK, NEW base \in [Ids -> Owners \cup {Absent}], NEW n,
         \A j \in coll : base[j] # Owner,
         HasManyInsertAll(base, n)
  PROVE  /\ items' \in [Ids -> Owners \cup {Absent}]
         /\ coll' \subseteq Ids /\ loaded' \in BOOLEAN
         /\ last'.kind = "hasMany" /\ last'.res \in Results
         /\ last'.res = "nil" =>
               /\ coll' = last'.new
               /\ \A i \in coll' : items'[i] = Owner
               /\ \A j \in last'.held \ last'.new : items'[j] # Owner
  <1> USE DEF TypeOK, Results
  <1>1. CASE items' = base /\ last'.res = "Unexpected" /\ last'.kind = "hasMany"
             /\ UNCHANGED <<loaded, coll>>
    BY <1>1
  <1>2. CASE \E new \in SUBSET {i \in Ids : base[i] = Absent} :
                /\ items' = [i \in Ids |-> IF i \in new THEN Owner ELSE base[i]]
                /\ \/ /\ last' = [kind |-> "hasMany", res |-> "Unexpected",
                                  before |-> items, held |-> coll, new |-> new]
                      /\ UNCHANGED <<loaded, coll>>
                   \/ /\ last' = [kind |-> "hasMany", res |-> "nil",
                                  before |-> items, held |-> coll, new |-> new]
                      /\ loaded' = TRUE
                      /\ coll' = new
    <2>1. PICK new \in SUBSET {i \in Ids : base[i] = Absent} :
                /\ items' = [i \in Ids |-> IF i \in new THEN Owner ELSE base[i]]
                /\ \/ /\ last' = [kind |-> "hasMany", res |-> "Unexpected",
                                  before |-> items, held |-> coll, new |-> new]
                      /\ UNCHANGED <<loaded, coll>>
                   \/ /\ last' = [kind |-> "hasMany", res |-> "nil",
                                  before |-> items, held |-> coll, new |-> new]
                      /\ loaded' = TRUE
                      /\ coll' = new
      BY <1>2
    <2>2. items' \in [Ids -> Owners \cup {Absent}]
      BY <2>1 DEF Owners
    <2>3. CASE last' = [kind |-> "hasMany", res |-> "Unexpected",
                        before |-> items, held |-> coll, new |-> new]
               /\ UNCHANGED <<loaded, coll>>
      BY <2>2, <2>3
    <2>4. CASE last' = [kind |-> "hasMany", res |-> "nil", before |-> items,
                        held |-> coll, new |-> new]
               /\ loaded' = TRUE /\ coll' = new
      <3>1. \A i \in coll' : items'[i] = Owner
        BY <2>1, <2>4
      <3>2. \A j \in last'.held \ last'.new : items'[j] # Owner
        BY <2>1, <2>4
      <3>3. QED
        BY <2>2, <2>4, <3>1, <3>2
    <2>5. QED
      BY <2>1, <2>3, <2>4
  <1>3. QED
    BY <1>1, <1>2 DEF HasManyInsertAll

(* A has-many upsert keeps AssocInv.  The collection is replaced only     *)
(* after the Delete of the loaded children stored under Owner, or when    *)
(* the caller's insertion flag says the owner has none.                   *)
LEMMA HasManyInv ==
  ASSUME AssocInv, NEW n \in 1..MaxNew, NEW insertion \in BOOLEAN,
         HasMany(n, insertion)
  PROVE  AssocInv'
  <1> USE DEF AssocInv, TypeOK, Results
  <1> DEFINE old == IF insertion THEN {} ELSE coll
  <1>1. /\ calls' \in 0..MaxCalls
        /\ UNCHANGED <<users, addresses, buyer, fk, address>>
        /\ (insertion => OwnedItems = {})
    BY AssociationConstantsAssumption DEF HasMany
  <1>2. last'.kind = "hasMany"
    BY DEF HasMany, HasManyInsertAll, Done
  <1>3. OwnerReferencesBuyer' /\ BuyerStamped'
    BY <1>1, <1>2 DEF OwnerReferencesBuyer, BuyerStamped
  <1>4. CASE Done("hasMany", "panic") /\ UNCHANGED <<items, loaded, coll>>
    BY <1>1, <1>3, <1>4 DEF Done, ReplaceDropsLoaded
  <1>5. CASE Done("hasMany", "Unexpected") /\ UNCHANGED <<items, loaded, coll>>
    BY <1>1, <1>3, <1>5 DEF Done, ReplaceDropsLoaded
  <1>6. CASE (loaded \/ insertion) /\ old = {} /\ HasManyInsertAll(items, n)
    <2>1. \A j \in coll : items[j] # Owner
      BY <1>1, <1>6 DEF OwnedItems
    <2>2. QED
      BY <1>1, <1>3, <2>1, <1>6, InsertAllPost
      DEF ReplaceDropsLoaded
  <1>7. CASE /\ (loaded \/ insertion) /\ old # {}
             /\ HasManyInsertAll([i \in Ids |-> IF i \in old /\ items[i] = Owner
                                               THEN Absent ELSE items[i]], n)
    <2> DEFINE base == [i \in Ids |-> IF i \in old /\ items[i] = Owner
                                      THEN Absent ELSE items[i]]
    <2>1. ~insertion /\ old = coll
      BY <1>7
    <2>2. base \in [Ids -> Owners \cup {Absent}] /\ \A j \in coll : base[j] # Owner
      BY <2>1, AssociationConstantsAssumption DEF Owners
    <2>3. QED
      BY <1>1, <1>3, <1>7, <2>2, InsertAllPost
      DEF ReplaceDropsLoaded
  <1>8. QED
    <2>1. \/ ~loaded /\ ~insertion /\ Done("hasMany", "panic")
             /\ UNCHANGED <<items, loaded, coll>>
          \/ (loaded \/ insertion) /\ old = {} /\ HasManyInsertAll(items, n)
          \/ (loaded \/ insertion) /\ old # {} /\ Done("hasMany", "Unexpected")
             /\ UNCHANGED <<items, loaded, coll>>
          \/ /\ (loaded \/ insertion) /\ old # {}
             /\ HasManyInsertAll([i \in Ids |-> IF i \in old /\ items[i] = Owner
                                               THEN Absent ELSE items[i]], n)
      BY DEF HasMany
    <2>2. QED
      BY <2>1, <1>4, <1>5, <1>6, <1>7

(* AssocInv is inductive.                                                  *)
LEMMA AssocStep == AssocInv /\ [Next]_vars => AssocInv'
  <1> SUFFICES ASSUME AssocInv, [Next]_vars PROVE AssocInv'
    OBVIOUS
  <1>1. ASSUME NEW ch \in Nested, BelongsTo(ch) PROVE AssocInv'
    BY <1>1, BelongsToInv
  <1>2. ASSUME NEW ch \in Nested, HasOne(ch) PROVE AssocInv'
    BY <1>2, HasOneInv
  <1>3. ASSUME NEW n \in 1..MaxNew, NEW insertion \in BOOLEAN,
               HasMany(n, insertion)
        PROVE AssocInv'
    BY <1>3, HasManyInv
  <1>4. CASE UNCHANGED vars
    BY <1>4 DEF vars, AssocInv, TypeOK, BuyerStamped, OwnerReferencesBuyer,
       ReplaceDropsLoaded
  <1>5. QED
    BY <1>1, <1>2, <1>3, <1>4 DEF Next

(* Every reachable state satisfies AssocInv.                              *)
LEMMA AssocInvariant == Spec => []AssocInv
  BY InitAssocInv, AssocStep, PTL DEF Spec

(* Type correctness of the orchestrator, for every bound on the calls.   *)
THEOREM TypeCorrect == Spec => []TypeOK
  BY AssocInvariant, PTL DEF AssocInv

(* Belongs-to upsert (spec section 8): the owner's user_id, once set,     *)
(* references a stored users row, and after a belongs-to upsert that      *)
(* returned nil it is the id of the buyer the owner holds, over any       *)
(* sequence of upserts with failed Inserts and re-reads.                  *)
THEOREM OwnerReferencesBuyerInvariant == Spec => []OwnerReferencesBuyer
  BY AssocInvariant, PTL DEF AssocInv

(* Has-many replace: one that returns nil leaves exactly the inserted     *)
(* children in the collection, all under Owner, and none of the children  *)
(* held before still stored under Owner.                                   *)
THEOREM ReplaceDropsLoadedInvariant == Spec => []ReplaceDropsLoaded
  BY AssocInvariant, PTL DEF AssocInv

====

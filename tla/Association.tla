----------------------------- MODULE Association -----------------------------
(***************************************************************************)
(* The association upsert orchestrator (upsertBelongsTo, upsertHasOne,     *)
(* upsertHasMany) of an owner record with id Owner.  Its code is not in    *)
(* src/; its unit tests in src/repo.go (lines 628-1184) fix, for every     *)
(* path, the adapter calls it makes, their queries and what each return   *)
(* leads to, and this module is translated from them.  The owner has a    *)
(* belongs-to buyer (a row of the users table, referenced by the owner's  *)
(* own changeset column user_id), a has-one address and a has-many        *)
(* collection of items, both stored with a foreign key.  A call is one    *)
(* step: its adapter calls are made in sequence by one caller, and each   *)
(* may fail.                                                               *)
(***************************************************************************)
EXTENDS Naturals, FiniteSets

CONSTANTS
    Ids,        \* primary-key values the adapter may assign
    Owner,      \* the owner's primary key
    Other,      \* another owner, that stale rows may belong to
    Zero,       \* a zero primary key: no associated record loaded
    Keep,       \* a nested changeset that carries no primary key
    None,       \* no nested changeset for the association
    Unset,      \* the owner's changeset has no user_id
    Absent,     \* no row under this primary key
    MaxNew,     \* bound on the children one has-many changeset inserts
    MaxCalls    \* bound on the number of orchestrator calls

ASSUME AssociationConstantsAssumption ==
    /\ Owner # Other
    /\ {Zero, Keep, None, Unset, Absent} \cap (Ids \cup {Owner, Other}) = {}
    /\ MaxNew \in Nat \ {0}
    /\ MaxCalls \in Nat

Owners == {Owner, Other}

Results == {"nil", "NotFound", "Unexpected", "panic"}

(* A nested belongs-to or has-one changeset: absent, or one that may set  *)
(* the primary key.                                                        *)
Nested == {None} \cup [id : Ids \cup {Keep}]

VARIABLES
    users,      \* the users table: the primary keys it stores
    addresses,  \* addresses[i]: user_id of address row i, or Absent
    items,      \* items[i]: user_id of item row i, or Absent
    buyer,      \* the id of the owner's loaded buyer, or Zero
    fk,         \* user_id in the owner's own changeset, or Unset
    address,    \* the id of the owner's loaded address, or Zero
    loaded,     \* whether the owner's items collection is loaded
    coll,       \* the ids of the items in the loaded collection
    calls,      \* orchestrator calls made
    last        \* the last call: kind, result, items and collection before, new

vars == <<users, addresses, items, buyer, fk, address, loaded, coll, calls,
          last>>

OwnedItems == {i \in Ids : items[i] = Owner}

Init ==
    /\ users \in SUBSET Ids
    /\ addresses \in [Ids -> Owners \cup {Absent}]
    /\ items \in [Ids -> Owners \cup {Absent}]
    /\ buyer \in {Zero} \cup users
    /\ fk = Unset
    /\ address \in {Zero} \cup Ids
    /\ loaded \in BOOLEAN
    /\ coll = IF loaded THEN OwnedItems ELSE {}
    /\ calls = 0
    /\ last = [kind |-> "none", res |-> "nil", before |-> items, held |-> coll,
               new |-> {}]

(* The record of a call that leaves the items table alone.                *)
Done(k, r) ==
    last' = [kind |-> k, res |-> r, before |-> items, held |-> coll,
             new |-> {}]

-----------------------------------------------------------------------------
(* belongs-to, loaded buyer (tests at lines 628-685): Update where id =   *)
(* buyer; its error is returned; then the re-read One(where id = buyer),   *)
(* NotFound when the row is gone.  The owner's user_id is not touched.    *)
BelongsToUpdate ==
    /\ \/ Done("belongsTo", "Unexpected")    \* the Update or the re-read
       \/ Done("belongsTo", IF buyer \in users THEN "nil" ELSE "NotFound")
    /\ UNCHANGED <<users, buyer, fk>>

(* Mutant: the id the Insert returns is stamped before its error is      *)
(* checked, and on an error that id is zero.                             *)
BelongsToInsertStampUnchecked ==
    \/ Done("belongsTo", "Unexpected") /\ fk' = Zero /\ UNCHANGED <<users, buyer>>
    \/ \E i \in Ids \ users :
          /\ users' = users \cup {i}
          /\ fk' = i
          /\ \/ Done("belongsTo", "Unexpected") /\ UNCHANGED buyer
             \/ Done("belongsTo", "nil") /\ buyer' = i

(* belongs-to, no buyer loaded (lines 710-779): Insert into users; its     *)
(* error is returned and user_id stays unset.  After a successful Insert  *)
(* the owner's changeset gets user_id = the new id (spec section 4.3,     *)
(* belongs-to item 3), and the re-read by that id follows.                *)
BelongsToInsert ==
    \/ Done("belongsTo", "Unexpected") /\ UNCHANGED <<users, buyer, fk>>
    \/ \E i \in Ids \ users :
          /\ users' = users \cup {i}
          /\ fk' = i
          /\ \/ Done("belongsTo", "Unexpected") /\ UNCHANGED buyer
             \/ Done("belongsTo", "nil") /\ buyer' = i

(* upsertBelongsTo(doc, changes): no nested changes is nil (lines 780-    *)
(* 793); a nested primary key other than the loaded buyer's panics (lines *)
(* 686-709); otherwise update the loaded buyer or insert a new one.       *)
BelongsTo(ch) ==
    /\ calls < MaxCalls
    /\ calls' = calls + 1
    /\ \/ /\ ch = None
          /\ Done("skip", "nil")
          /\ UNCHANGED <<users, buyer, fk>>
       \/ /\ ch # None
          /\ ch.id \notin {Keep, buyer}
          /\ Done("belongsTo", "panic")
          /\ UNCHANGED <<users, buyer, fk>>
       \/ /\ ch # None
          /\ ch.id \in {Keep, buyer}
          /\ IF buyer # Zero THEN BelongsToUpdate ELSE BelongsToInsert
    /\ UNCHANGED <<addresses, items, address, loaded, coll>>

-----------------------------------------------------------------------------
(* has-one, loaded address (lines 794-849): Update where id = address and *)
(* user_id = Owner, the double predicate; no matching row is not an       *)
(* error of Update, and the re-read with the same query then finds none.  *)
HasOneUpdate ==
    /\ \/ Done("hasOne", "Unexpected")    \* the Update or the re-read
       \/ Done("hasOne", IF addresses[address] = Owner THEN "nil"
                         ELSE "NotFound")
    /\ UNCHANGED <<addresses, address>>

(* has-one, no address loaded (lines 873-937): the changeset is stamped    *)
(* with user_id = Owner and inserted; the re-read is by the new id.       *)
HasOneInsert ==
    \/ Done("hasOne", "Unexpected") /\ UNCHANGED <<addresses, address>>
    \/ \E i \in {j \in Ids : addresses[j] = Absent} :
          /\ addresses' = [addresses EXCEPT ![i] = Owner]
          /\ \/ Done("hasOne", "Unexpected") /\ UNCHANGED address
             \/ Done("hasOne", "nil") /\ address' = i

(* upsertHasOne(doc, changes, nil): as belongs-to, a nested primary key   *)
(* other than the loaded address's panics (lines 850-872).                *)
HasOne(ch) ==
    /\ calls < MaxCalls
    /\ calls' = calls + 1
    /\ \/ /\ ch = None
          /\ Done("skip", "nil")
          /\ UNCHANGED <<addresses, address>>
       \/ /\ ch # None
          /\ ch.id \notin {Keep, address}
          /\ Done("hasOne", "panic")
          /\ UNCHANGED <<addresses, address>>
       \/ /\ ch # None
          /\ ch.id \in {Keep, address}
          /\ IF address # Zero THEN HasOneUpdate ELSE HasOneInsert
    /\ UNCHANGED <<users, items, buyer, fk, loaded, coll>>

-----------------------------------------------------------------------------
(* Mutant: the children are stamped with the owner's own user_id column  *)
(* instead of its primary key.                                             *)
HasManyInsertAllStampFk(base, n) ==
    \/ /\ items' = base
       /\ last' = [kind |-> "hasMany", res |-> "Unexpected", before |-> items,
                   held |-> coll, new |-> {}]
       /\ UNCHANGED <<loaded, coll>>
    \/ \E new \in SUBSET {i \in Ids : base[i] = Absent} :
          /\ Cardinality(new) = n
          /\ items' = [i \in Ids |-> IF i \in new THEN fk ELSE base[i]]
          /\ \/ /\ last' = [kind |-> "hasMany", res |-> "Unexpected",
                            before |-> items, held |-> coll, new |-> new]
                /\ UNCHANGED <<loaded, coll>>
             \/ /\ last' = [kind |-> "hasMany", res |-> "nil",
                            before |-> items, held |-> coll, new |-> new]
                /\ loaded' = TRUE
                /\ coll' = new

(* InsertAll of n children stamped with user_id = Owner into the items    *)
(* table base, then All(where id IN the assigned ids) into the collection *)
(* (lines 938-1012).                                                       *)
HasManyInsertAll(base, n) ==
    \/ /\ items' = base
       /\ last' = [kind |-> "hasMany", res |-> "Unexpected", before |-> items,
                   held |-> coll, new |-> {}]
       /\ UNCHANGED <<loaded, coll>>
    \/ \E new \in SUBSET {i \in Ids : base[i] = Absent} :
          /\ Cardinality(new) = n
          /\ items' = [i \in Ids |-> IF i \in new THEN Owner ELSE base[i]]
          /\ \/ /\ last' = [kind |-> "hasMany", res |-> "Unexpected",
                            before |-> items, held |-> coll, new |-> new]
                /\ UNCHANGED <<loaded, coll>>
             \/ /\ last' = [kind |-> "hasMany", res |-> "nil",
                            before |-> items, held |-> coll, new |-> new]
                /\ loaded' = TRUE
                /\ coll' = new

(* Mutant: the loaded children are never deleted.                        *)
HasManyWithoutDelete(n, insertion) ==
    /\ calls < MaxCalls
    /\ calls' = calls + 1
    /\ insertion => OwnedItems = {}
    /\ \/ /\ ~loaded /\ ~insertion
          /\ Done("hasMany", "panic")
          /\ UNCHANGED <<items, loaded, coll>>
       \/ /\ loaded \/ insertion
          /\ HasManyInsertAll(items, n)
    /\ UNCHANGED <<users, addresses, buyer, fk, address>>

(* upsertHasMany(doc, changes, Owner, insertion) with n new children.     *)
(* insertion is the caller's word that the owner is new, so it has no     *)
(* children.  Otherwise the collection must be loaded, or the call panics *)
(* (lines 1161-1184); when it holds items, one Delete where user_id =     *)
(* Owner and id IN the loaded ids comes first, and its error is returned  *)
(* before anything is inserted (lines 1013-1160).                         *)
HasMany(n, insertion) ==
    /\ calls < MaxCalls
    /\ calls' = calls + 1
    /\ insertion => OwnedItems = {}
    /\ LET old == IF insertion THEN {} ELSE coll
       IN  \/ /\ ~loaded /\ ~insertion
              /\ Done("hasMany", "panic")
              /\ UNCHANGED <<items, loaded, coll>>
           \/ /\ loaded \/ insertion
              /\ old = {}
              /\ HasManyInsertAll(items, n)
           \/ /\ loaded \/ insertion
              /\ old # {}
              /\ Done("hasMany", "Unexpected")
              /\ UNCHANGED <<items, loaded, coll>>
           \/ /\ loaded \/ insertion
              /\ old # {}
              /\ HasManyInsertAll([i \in Ids |-> IF i \in old /\ items[i] = Owner
                                                 THEN Absent ELSE items[i]],
                                  n)
    /\ UNCHANGED <<users, addresses, buyer, fk, address>>

Next ==
    \/ \E ch \in Nested : BelongsTo(ch) \/ HasOne(ch)
    \/ \E n \in 1..MaxNew, insertion \in BOOLEAN : HasMany(n, insertion)

Spec == Init /\ [][Next]_vars

-----------------------------------------------------------------------------
TypeOK ==
    /\ users \subseteq Ids
    /\ addresses \in [Ids -> Owners \cup {Absent}]
    /\ items \in [Ids -> Owners \cup {Absent}]
    /\ buyer \in Ids \cup {Zero}
    /\ fk \in Ids \cup {Zero, Unset}
    /\ address \in Ids \cup {Zero}
    /\ loaded \in BOOLEAN
    /\ coll \subseteq Ids
    /\ calls \in 0..MaxCalls
    /\ last.res \in Results

(* Spec section 8, belongs-to upsert: once the owner's changeset carries  *)
(* user_id, it references a stored users row, over any sequence of calls, *)
(* failed Inserts and failed re-reads included; and after a belongs-to    *)
(* upsert that returned nil it is the id of the buyer the owner holds.    *)
OwnerReferencesBuyer ==
    /\ fk # Unset => fk \in users
    /\ (last.kind = "belongsTo" /\ last.res = "nil" /\ fk # Unset) => fk = buyer

(* Spec section 8, has-many replace: a replace that returns nil leaves    *)
(* the collection holding exactly the rows it inserted, all stored with   *)
(* user_id = Owner, and none of the children the owner held before the   *)
(* call still stored under Owner.                                         *)
ReplaceDropsLoaded ==
    (last.kind = "hasMany" /\ last.res = "nil") =>
        /\ coll = last.new
        /\ \A i \in coll : items[i] = Owner
        /\ \A j \in last.held \ last.new : items[j] # Owner

(* Spec section 4.3, has-many item 6: a failure at the delete or the      *)
(* insert stage aborts the whole has-many step.  Delete and InsertAll are *)
(* two adapter calls and no rollback follows a failed InsertAll, so the   *)
(* loaded children can be gone when the call returns its error.           *)
HasManyAllOrNothing ==
    (last.kind = "hasMany" /\ last.res = "Unexpected") => items = last.before

=============================================================================

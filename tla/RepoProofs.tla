----------------------------- MODULE RepoProofs -----------------------------
(***************************************************************************)
(* Proofs about the repository shell of Repo, for every set of clients,   *)
(* primary keys and column values.                                          *)
(***************************************************************************)
EXTENDS Repo, TLAPS

(* Between a write and its re-read, the row written is in the store, and  *)
(* the re-read either filters on its primary key or on a key with no row  *)
(* (Update moved the row to a new primary key).                           *)
WrittenRowStored ==
    \A c \in Clients :
        (pc[c] = "reread" /\ wrote[c]) =>
            /\ key[c] \in Ids
            /\ want[c].id \in Ids
            /\ table[want[c].id] = want[c].name
            /\ key[c] = want[c].id \/ table[key[c]] = Absent

(* The step of client d, one of the disjuncts of Next.                     *)
Step(d) ==
    \/ One(d) \/ All(d) \/ Aggregate(d) \/ InsertNothing(d)
    \/ \E v \in Names : Insert(d, v)
    \/ ReRead(d)
    \/ UpdateNothing(d) \/ \E ch \in Change : Update(d, ch)
    \/ Delete(d)

(* The inductive invariant behind RoundTrip for a single client.           *)
SingleInv == TypeOK /\ WrittenRowStored /\ RoundTrip

-----------------------------------------------------------------------------
(* Changes applied to a stored row give a well-typed row, whose primary   *)
(* key is the changeset's or the row's own.                                *)
LEMMA ApplyType ==
  ASSUME NEW r \in [id : Ids, name : Names], NEW ch \in Change
  PROVE  /\ Apply(r, ch) \in [id : Ids, name : Names]
         /\ Apply(r, ch).id = IF ch.id = Keep THEN r.id ELSE ch.id
         /\ Apply(r, ch).name = IF ch.name = Keep THEN r.name ELSE ch.name
  BY DEF Apply, Change

(* Every initial state is well typed.                                     *)
LEMMA InitTypeOK == Init => TypeOK
  BY RepoConstantsAssumption DEF Init, TypeOK, Record, ZeroRecord, Results

(* A re-read by a key of the store keeps the record and result typed.     *)
LEMMA ReadOneType ==
  ASSUME TypeOK, NEW c \in Clients, NEW k \in Ids, ReadOne(c, k)
  PROVE  rec' \in [Clients -> Record] /\ res' \in [Clients -> Results]
  <1>1. RowAt(k) \in Record \/ ~Matches(k)
    BY DEF Matches, RowAt, TypeOK, Record
  <1>2. QED
    BY <1>1 DEF ReadOne, TypeOK, Results

(* Every step of every client keeps the state well typed.                *)
LEMMA TypeStep == TypeOK /\ [Next]_vars => TypeOK'
  <1> SUFFICES ASSUME TypeOK, [Next]_vars PROVE TypeOK'
    OBVIOUS
  <1>1. ASSUME NEW c \in Clients, One(c) PROVE TypeOK'
    BY <1>1, ReadOneType DEF One, TypeOK
  <1>2. ASSUME NEW c \in Clients, All(c) \/ Aggregate(c) PROVE TypeOK'
    BY <1>2 DEF All, Aggregate, TypeOK, Results
  <1>3. ASSUME NEW c \in Clients, InsertNothing(c) \/ UpdateNothing(c)
        PROVE TypeOK'
    BY <1>3 DEF InsertNothing, UpdateNothing, TypeOK, Results
  <1>4. ASSUME NEW c \in Clients, NEW v \in Names, Insert(c, v) PROVE TypeOK'
    <2>1. CASE \E e \in {"Constraint", "Unexpected"} :
                    /\ res' = [res EXCEPT ![c] = e]
                    /\ wrote' = [wrote EXCEPT ![c] = FALSE]
                    /\ UNCHANGED <<table, pc, key, want>>
      BY <1>4, <2>1 DEF Insert, TypeOK, Results
    <2>2. CASE \E i \in Ids :
                 /\ table[i] = Absent
                 /\ table' = [table EXCEPT ![i] = v]
                 /\ pc' = [pc EXCEPT ![c] = "reread"]
                 /\ key' = [key EXCEPT ![c] = i]
                 /\ want' = [want EXCEPT ![c] = [id |-> i, name |-> v]]
                 /\ wrote' = [wrote EXCEPT ![c] = TRUE]
                 /\ UNCHANGED res
      <3>1. PICK i \in Ids :
                 /\ table' = [table EXCEPT ![i] = v]
                 /\ pc' = [pc EXCEPT ![c] = "reread"]
                 /\ key' = [key EXCEPT ![c] = i]
                 /\ want' = [want EXCEPT ![c] = [id |-> i, name |-> v]]
                 /\ wrote' = [wrote EXCEPT ![c] = TRUE]
                 /\ UNCHANGED res
        BY <2>2
      <3>2. [id |-> i, name |-> v] \in Record
        BY DEF Record
      <3>3. QED
        BY <1>4, <3>1, <3>2 DEF Insert, TypeOK
    <2>3. QED
      BY <1>4, <2>1, <2>2 DEF Insert
  <1>5. ASSUME NEW c \in Clients, ReRead(c) PROVE TypeOK'
    <2>1. key[c] \in Ids \/ key[c] = Zero
      BY DEF TypeOK
    <2>2. CASE key[c] \in Ids
      BY <1>5, <2>2, ReadOneType DEF ReRead, TypeOK
    <2>3. CASE key[c] = Zero
      BY <1>5, <2>3, RepoConstantsAssumption
      DEF ReRead, ReadOne, Matches, TypeOK, Results
    <2>4. QED
      BY <2>1, <2>2, <2>3
  <1>6. ASSUME NEW c \in Clients, NEW ch \in Change, Update(c, ch)
        PROVE TypeOK'
    <2> DEFINE k == rec[c].id
               new == Apply(RowAt(k), ch)
    <2>1. CASE ~Matches(k)
      <3>1. k \in Ids \cup {Zero}
        BY DEF TypeOK, Record
      <3>2. /\ op' = [op EXCEPT ![c] = "update"]
            /\ UNCHANGED rec
            /\ \/ /\ res' = [res EXCEPT ![c] = "Unexpected"]
                  /\ wrote' = [wrote EXCEPT ![c] = FALSE]
                  /\ UNCHANGED <<table, pc, key, want>>
               \/ /\ pc' = [pc EXCEPT ![c] = "reread"]
                  /\ key' = [key EXCEPT ![c] = k]
                  /\ wrote' = [wrote EXCEPT ![c] = FALSE]
                  /\ UNCHANGED <<table, res, want>>
        BY <1>6, <2>1 DEF Update
      <3>3. QED
        BY <3>1, <3>2 DEF TypeOK, Results
    <2>2. CASE Matches(k)
      <3>1. k \in Ids /\ RowAt(k) \in [id : Ids, name : Names]
        BY <2>2 DEF Matches, RowAt, TypeOK
      <3>2. new \in [id : Ids, name : Names]
        BY <3>1, ApplyType
      <3>3. new \in Record
        BY <3>2 DEF Record
      <3>4. new.id \in Ids /\ new.name \in Names
        BY <3>2
      <3>5. [table EXCEPT ![k] = Absent, ![new.id] = new.name]
              \in [Ids -> Names \cup {Absent}]
        BY <3>1, <3>4 DEF TypeOK
      <3>6. [want EXCEPT ![c] = new] \in [Clients -> Record]
        BY <3>3 DEF TypeOK
      <3>7. [key EXCEPT ![c] = k] \in [Clients -> Ids \cup {Zero}]
        BY <3>1 DEF TypeOK
      <3>8. QED
        BY <1>6, <2>2, <3>5, <3>6, <3>7 DEF Update, TypeOK, Results
    <2>3. QED
      BY <2>1, <2>2
  <1>7. ASSUME NEW c \in Clients, Delete(c) PROVE TypeOK'
    BY <1>7 DEF Delete, Matches, TypeOK, Results
  <1>8. CASE UNCHANGED vars
    BY <1>8 DEF vars, TypeOK
  <1>9. QED
    BY <1>1, <1>2, <1>3, <1>4, <1>5, <1>6, <1>7, <1>8 DEF Next

(* Type correctness of the repository shell: every reachable state is   *)
(* well typed, for any number of clients calling One, All, Aggregate,     *)
(* Insert, Update and Delete concurrently.                                 *)
THEOREM TypeCorrect == Spec => []TypeOK
  BY InitTypeOK, TypeStep, PTL DEF Spec

-----------------------------------------------------------------------------
(* The facts of SingleInv about client c.                                 *)
SingleOK(c) ==
    /\ (pc[c] = "reread" /\ wrote[c]) =>
          /\ key[c] \in Ids
          /\ want[c].id \in Ids
          /\ table[want[c].id] = want[c].name
          /\ key[c] = want[c].id \/ table[key[c]] = Absent
    /\ (Finished(c, "insert") \/ Finished(c, "update")) =>
          /\ rec[c] = want[c]
          /\ table[rec[c].id] = rec[c].name

(* The write half of Update leaves the row it wrote in the store and, if  *)
(* it moved the row, no row under the old primary key.                     *)
LEMMA UpdateWrite ==
  ASSUME TypeOK, NEW c \in Clients, NEW ch \in Change,
         Matches(rec[c].id)
  PROVE  LET k   == rec[c].id
             new == Apply(RowAt(k), ch)
             t   == [table EXCEPT ![k] = Absent, ![new.id] = new.name]
         IN  /\ k \in Ids /\ new.id \in Ids
             /\ t[new.id] = new.name
             /\ k = new.id \/ t[k] = Absent
  <1> DEFINE k == rec[c].id
             new == Apply(RowAt(k), ch)
  <1>1. k \in Ids /\ RowAt(k) \in [id : Ids, name : Names]
    BY DEF Matches, RowAt, TypeOK
  <1>2. new \in [id : Ids, name : Names]
    BY <1>1, ApplyType
  <1>3. QED
    BY <1>1, <1>2 DEF TypeOK

(* One client's steps keep SingleOK: with no other client, nobody else   *)
(* touches the store between the write and the re-read.                    *)
LEMMA SingleOKStep ==
  ASSUME TypeOK, NEW d \in Clients, SingleOK(d), Step(d)
  PROVE  SingleOK(d)'
  <1>1. CASE One(d) \/ All(d) \/ Aggregate(d) \/ InsertNothing(d)
             \/ UpdateNothing(d) \/ Delete(d)
    BY <1>1 DEF One, All, Aggregate, InsertNothing, UpdateNothing, Delete,
       SingleOK, Finished, TypeOK
  <1>2. CASE \E v \in Names : Insert(d, v)
    BY <1>2 DEF Insert, SingleOK, Finished, TypeOK
  <1>3. CASE ReRead(d)
    <2>1. CASE res'[d] = "nil" /\ wrote[d]
      <3>1. Matches(key[d]) /\ rec'[d] = RowAt(key[d])
        BY <1>3, <2>1 DEF ReRead, ReadOne, TypeOK
      <3>2. key[d] = want[d].id
        BY <1>3, <2>1, <3>1 DEF ReRead, SingleOK, Matches
      <3>3. want[d] \in Record
        BY DEF TypeOK
      <3>4. rec'[d] = want[d]
        BY <3>1, <3>2, <3>3, <1>3, <2>1 DEF ReRead, SingleOK, RowAt, Record
      <3>5. QED
        BY <1>3, <3>2, <3>4, <1>3 DEF ReRead, SingleOK, Finished
    <2>2. CASE ~(res'[d] = "nil" /\ wrote[d])
      BY <1>3, <2>2 DEF ReRead, SingleOK, Finished
    <2>3. QED
      BY <2>1, <2>2
  <1>4. CASE \E ch \in Change : Update(d, ch)
    <2>1. PICK ch \in Change : Update(d, ch)
      BY <1>4
    <2>2. CASE Matches(rec[d].id)
      <3> DEFINE k == rec[d].id
                 new == Apply(RowAt(k), ch)
      <3>1. CASE wrote'[d] = FALSE /\ pc'[d] = pc[d] /\ pc[d] = "idle"
        BY <2>1, <3>1 DEF Update, SingleOK, Finished
      <3>2. CASE /\ table' = [table EXCEPT ![k] = Absent, ![new.id] = new.name]
                 /\ pc' = [pc EXCEPT ![d] = "reread"]
                 /\ key' = [key EXCEPT ![d] = k]
                 /\ want' = [want EXCEPT ![d] = new]
                 /\ wrote' = [wrote EXCEPT ![d] = TRUE]
        <4>1. k \in Ids /\ new.id \in Ids /\ table'[new.id] = new.name
              /\ (k = new.id \/ table'[k] = Absent)
          BY <2>2, <3>2, UpdateWrite
        <4>2. pc'[d] = "reread" /\ key'[d] = k /\ want'[d] = new
          BY <3>2 DEF TypeOK
        <4>3. QED
          BY <4>1, <4>2 DEF SingleOK, Finished
      <3>3. QED
        BY <2>1, <2>2, <3>1, <3>2 DEF Update, TypeOK
    <2>3. CASE ~Matches(rec[d].id)
      BY <2>1, <2>3 DEF Update, SingleOK, Finished, TypeOK
    <2>4. QED
      BY <2>2, <2>3
  <1>5. QED
    BY <1>1, <1>2, <1>3, <1>4 DEF Step

(* Every initial state satisfies SingleInv.                              *)
LEMMA InitSingleInv == Init => SingleInv
  BY InitTypeOK DEF Init, SingleInv, WrittenRowStored, RoundTrip, Finished

(* The Insert and Update round trip (spec section 8) of a Repo used by one *)
(* goroutine: a write that returns nil leaves the record holding exactly   *)
(* the row written, primary key included, and that row in the store, over *)
(* any sequence of calls, failed ones included.  With a second client the  *)
(* property fails (run repo_roundtrip_race), so the hypothesis is needed.  *)
THEOREM SingleClientRoundTrip ==
  ASSUME NEW C, Clients = {C}
  PROVE  Spec => []RoundTrip
  <1>1. SingleInv <=> TypeOK /\ SingleOK(C)
    BY DEF SingleInv, SingleOK, WrittenRowStored, RoundTrip
  <1>2. SingleInv /\ [Next]_vars => SingleInv'
    <2> SUFFICES ASSUME SingleInv, [Next]_vars PROVE SingleInv'
      OBVIOUS
    <2>1. TypeOK /\ TypeOK' /\ SingleOK(C)
      BY <1>1, TypeStep DEF SingleInv
    <2>2. CASE UNCHANGED vars
      BY <2>1, <2>2 DEF vars, SingleOK, Finished, SingleInv,
         WrittenRowStored, RoundTrip
    <2>3. CASE Next
      <3>1. Step(C)
        BY <2>3 DEF Next, Step
      <3>2. SingleOK(C)'
        BY <2>1, <3>1, SingleOKStep
      <3>3. QED
        BY <2>1, <3>2 DEF SingleInv, SingleOK, WrittenRowStored, RoundTrip
    <2>4. QED
      BY <2>2, <2>3
  <1>3. QED
    BY InitSingleInv, <1>2, PTL DEF Spec, SingleInv

====

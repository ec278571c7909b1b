-------------------------------- MODULE Repo --------------------------------
(***************************************************************************)
(* The repository shell of src/repo.go: One, Insert, Update and Delete of   *)
(* a single-table record, each run by several clients at once against one  *)
(* store.  Every adapter call is one atomic step on the store; a call that  *)
(* makes two adapter calls (Insert and Update write, then re-read the row  *)
(* through One) is two steps, and the other clients may act between them.  *)
(* A record is a primary key and one column; the store maps primary keys   *)
(* to the column of the row, or to Absent when there is no such row.       *)
(***************************************************************************)
EXTENDS Naturals, FiniteSets

CONSTANTS
    Clients,    \* goroutines calling the same Repo
    Ids,        \* primary-key values the store can assign
    Names,      \* values of the record's one column
    Absent,     \* no row with this primary key
    Zero,       \* Go zero value of a field of an unread record
    Keep        \* a changeset that leaves this field alone

ASSUME RepoConstantsAssumption ==
    /\ Absent \notin Names
    /\ Zero \notin Ids \cup Names
    /\ Keep \notin Ids \cup Names

Results == {"nil", "NotFound", "Constraint", "Unexpected"}

Record == [id : Ids \cup {Zero}, name : Names \cup {Zero}]

Change == [id : Ids \cup {Keep}, name : Names \cup {Keep}]

VARIABLES
    table,      \* the store: primary key -> column, or Absent
    rec,        \* rec[c]: the record client c passed by pointer
    pc,         \* "idle", or "reread" between a write and its One
    key,        \* primary key the pending re-read filters on
    res,        \* result of client c's last call
    op,         \* the call client c is in, or made last
    want,       \* the record the last write should leave behind
    wrote       \* the adapter write of the last call succeeded

vars == <<table, rec, pc, key, res, op, want, wrote>>

ZeroRecord == [id |-> Zero, name |-> Zero]

(* The row the query where.Eq(primaryKey, k) matches, if any.              *)
Matches(k) == k \in Ids /\ table[k] # Absent

RowAt(k) == [id |-> k, name |-> table[k]]

(* Changes applied to a record: a field the changeset sets, or the record's *)
(* own value.                                                               *)
Apply(r, ch) ==
    [f \in {"id", "name"} |-> IF ch[f] = Keep THEN r[f] ELSE ch[f]]

Init ==
    /\ table \in [Ids -> Names \cup {Absent}]
    /\ rec = [c \in Clients |-> ZeroRecord]
    /\ pc = [c \in Clients |-> "idle"]
    /\ key = [c \in Clients |-> Zero]
    /\ res = [c \in Clients |-> "nil"]
    /\ op = [c \in Clients |-> "none"]
    /\ want = [c \in Clients |-> ZeroRecord]
    /\ wrote = [c \in Clients |-> FALSE]

-----------------------------------------------------------------------------
(* Mutant: the count is not checked, so an empty result is scanned into   *)
(* the record as a row.                                                     *)
ReadOneIgnoringCount(c, k) ==
    \/ /\ res' = [res EXCEPT ![c] = "Unexpected"]
       /\ UNCHANGED rec
    \/ /\ res' = [res EXCEPT ![c] = "nil"]
       /\ rec' = [rec EXCEPT ![c] = RowAt(k)]

(* One with a query filtering on primary key k: adapter.All with Limit(1),  *)
(* an adapter error returned as is, no row is NotFound, otherwise the row   *)
(* is scanned into the record.                                              *)
ReadOne(c, k) ==
    \/ /\ res' = [res EXCEPT ![c] = "Unexpected"]
       /\ UNCHANGED rec
    \/ /\ ~Matches(k)
       /\ res' = [res EXCEPT ![c] = "NotFound"]
       /\ UNCHANGED rec
    \/ /\ Matches(k)
       /\ res' = [res EXCEPT ![c] = "nil"]
       /\ rec' = [rec EXCEPT ![c] = RowAt(k)]

One(c) ==
    /\ pc[c] = "idle"
    /\ \E k \in Ids : ReadOne(c, k)
    /\ op' = [op EXCEPT ![c] = "one"]
    /\ wrote' = [wrote EXCEPT ![c] = FALSE]
    /\ UNCHANGED <<table, pc, key, want>>

(* Insert: no changes returns nil at once; an adapter error is returned;   *)
(* otherwise the adapter stores the row under a free primary key and       *)
(* returns that id, which the re-read then filters on.                     *)
InsertNothing(c) ==
    /\ pc[c] = "idle"
    /\ res' = [res EXCEPT ![c] = "nil"]
    /\ op' = [op EXCEPT ![c] = "insert"]
    /\ wrote' = [wrote EXCEPT ![c] = FALSE]
    /\ UNCHANGED <<table, rec, pc, key, want>>

(* All, and Aggregate with Count built on it: one adapter read whose      *)
(* error is returned as is and whose output is not a record of the model. *)
All(c) ==
    /\ pc[c] = "idle"
    /\ \E r \in {"nil", "Unexpected"} : res' = [res EXCEPT ![c] = r]
    /\ op' = [op EXCEPT ![c] = "all"]
    /\ wrote' = [wrote EXCEPT ![c] = FALSE]
    /\ UNCHANGED <<table, rec, pc, key, want>>

Aggregate(c) ==
    /\ pc[c] = "idle"
    /\ \E r \in {"nil", "Unexpected"} : res' = [res EXCEPT ![c] = r]
    /\ op' = [op EXCEPT ![c] = "aggregate"]
    /\ wrote' = [wrote EXCEPT ![c] = FALSE]
    /\ UNCHANGED <<table, rec, pc, key, want>>

Insert(c, v) ==
    /\ pc[c] = "idle"
    /\ op' = [op EXCEPT ![c] = "insert"]
    /\ \/ /\ \E e \in {"Constraint", "Unexpected"} :
                res' = [res EXCEPT ![c] = e]
          /\ wrote' = [wrote EXCEPT ![c] = FALSE]
          /\ UNCHANGED <<table, pc, key, want>>
       \/ \E i \in Ids :
             /\ table[i] = Absent
             /\ table' = [table EXCEPT ![i] = v]
             /\ pc' = [pc EXCEPT ![c] = "reread"]
             /\ key' = [key EXCEPT ![c] = i]
             /\ want' = [want EXCEPT ![c] = [id |-> i, name |-> v]]
             /\ wrote' = [wrote EXCEPT ![c] = TRUE]
             /\ UNCHANGED res
    /\ UNCHANGED rec

(* Mutant: the re-read scans into a copy of the record.                  *)
ReReadIntoCopy(c) ==
    /\ pc[c] = "reread"
    /\ res' = [res EXCEPT ![c] = IF Matches(key[c]) THEN "nil" ELSE "NotFound"]
    /\ pc' = [pc EXCEPT ![c] = "idle"]
    /\ UNCHANGED <<table, rec, key, op, want, wrote>>

(* The second half of Insert and of Update: One(record, where pk = key).   *)
ReRead(c) ==
    /\ pc[c] = "reread"
    /\ ReadOne(c, key[c])
    /\ pc' = [pc EXCEPT ![c] = "idle"]
    /\ UNCHANGED <<table, key, op, want, wrote>>

(* Update: no changes returns nil at once.  Otherwise the query filters  *)
(* on the record's primary key as it is in memory; the adapter writes the  *)
(* changes into the matching row, if there is one (no row is not an       *)
(* error), and refuses a new primary key that another row holds.  The      *)
(* re-read then filters on that same query, the old primary key.           *)
UpdateNothing(c) ==
    /\ pc[c] = "idle"
    /\ res' = [res EXCEPT ![c] = "nil"]
    /\ op' = [op EXCEPT ![c] = "update"]
    /\ wrote' = [wrote EXCEPT ![c] = FALSE]
    /\ UNCHANGED <<table, rec, pc, key, want>>

Update(c, ch) ==
    /\ pc[c] = "idle"
    /\ ch # [id |-> Keep, name |-> Keep]
    /\ op' = [op EXCEPT ![c] = "update"]
    /\ LET k   == rec[c].id
           new == Apply(RowAt(k), ch)
       IN  \/ /\ res' = [res EXCEPT ![c] = "Unexpected"]
              /\ wrote' = [wrote EXCEPT ![c] = FALSE]
              /\ UNCHANGED <<table, pc, key, want>>
           \/ /\ Matches(k)
              /\ new.id # k
              /\ table[new.id] # Absent
              /\ res' = [res EXCEPT ![c] = "Constraint"]
              /\ wrote' = [wrote EXCEPT ![c] = FALSE]
              /\ UNCHANGED <<table, pc, key, want>>
           \/ /\ Matches(k)
              /\ new.id = k \/ table[new.id] = Absent
              /\ table' = [table EXCEPT ![k] = Absent, ![new.id] = new.name]
              /\ pc' = [pc EXCEPT ![c] = "reread"]
              /\ key' = [key EXCEPT ![c] = k]
              /\ want' = [want EXCEPT ![c] = new]
              /\ wrote' = [wrote EXCEPT ![c] = TRUE]
              /\ UNCHANGED res
           \/ /\ ~Matches(k)
              /\ pc' = [pc EXCEPT ![c] = "reread"]
              /\ key' = [key EXCEPT ![c] = k]
              /\ wrote' = [wrote EXCEPT ![c] = FALSE]
              /\ UNCHANGED <<table, res, want>>
    /\ UNCHANGED rec

(* Delete: the adapter removes the row with the record's primary key, if  *)
(* there is one, or fails; the record in memory is left as it is.         *)
Delete(c) ==
    /\ pc[c] = "idle"
    /\ op' = [op EXCEPT ![c] = "delete"]
    /\ LET k == rec[c].id
       IN  \/ /\ res' = [res EXCEPT ![c] = "Unexpected"]
              /\ wrote' = [wrote EXCEPT ![c] = FALSE]
              /\ UNCHANGED table
           \/ /\ res' = [res EXCEPT ![c] = "nil"]
              /\ wrote' = [wrote EXCEPT ![c] = Matches(k)]
              /\ table' = IF Matches(k) THEN [table EXCEPT ![k] = Absent]
                          ELSE table
    /\ UNCHANGED <<rec, pc, key, want>>

Next ==
    \E c \in Clients :
        \/ One(c)
        \/ All(c)
        \/ Aggregate(c)
        \/ InsertNothing(c)
        \/ \E v \in Names : Insert(c, v)
        \/ ReRead(c)
        \/ UpdateNothing(c)
        \/ \E ch \in Change : Update(c, ch)
        \/ Delete(c)

Spec == Init /\ [][Next]_vars

-----------------------------------------------------------------------------
TypeOK ==
    /\ table \in [Ids -> Names \cup {Absent}]
    /\ rec \in [Clients -> Record]
    /\ pc \in [Clients -> {"idle", "reread"}]
    /\ key \in [Clients -> Ids \cup {Zero}]
    /\ res \in [Clients -> Results]
    /\ op \in [Clients -> {"none", "one", "all", "aggregate", "insert",
                                "update", "delete"}]
    /\ want \in [Clients -> Record]
    /\ wrote \in [Clients -> BOOLEAN]

(* Finished(c, o): client c's last call was o, it wrote a row, and it      *)
(* returned nil.                                                            *)
Finished(c, o) ==
    pc[c] = "idle" /\ op[c] = o /\ wrote[c] /\ res[c] = "nil"

(* Insert and Update round trip (spec section 8): when a write returns    *)
(* nil, the record holds exactly the row the adapter wrote, primary key   *)
(* included, and the store still holds it, however the record was read   *)
(* before and whatever the earlier calls left behind (lines 109-170).     *)
RoundTrip ==
    \A c \in Clients :
        (Finished(c, "insert") \/ Finished(c, "update")) =>
            /\ rec[c] = want[c]
            /\ table[rec[c].id] = rec[c].name

(* Spec section 2: the write is followed by a re-read by primary key that *)
(* reflects the stored row back into the record.  Update re-reads by the *)
(* primary key the record had before the write (lines 152 and 169), so an *)
(* Update that changes the primary key writes its row and then reports    *)
(* NotFound.                                                               *)
UpdateWriteNotMissing ==
    \A c \in Clients :
        (pc[c] = "idle" /\ op[c] = "update" /\ wrote[c]) => res[c] # "NotFound"

(* Spec section 4.3, item 5: an adapter error aborts the write and is     *)
(* surfaced to the caller.  Insert stores its row and then returns the    *)
(* error of the re-read (line 131), so an Insert that reports a failure   *)
(* may have stored its row: a caller that retries it inserts it twice.    *)
InsertErrorWroteNothing ==
    \A c \in Clients :
        (pc[c] = "idle" /\ op[c] = "insert" /\ res[c] # "nil") => ~wrote[c]

=============================================================================

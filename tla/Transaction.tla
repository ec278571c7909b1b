---------------------------- MODULE Transaction ----------------------------
(***************************************************************************)
(* Repo.Transaction (src/repo.go, lines 263-293) and the adapter scopes it *)
(* opens.                                                                  *)
(*                                                                         *)
(* A call of Transaction(fn) is a frame on a call stack.  It begins an     *)
(* adapter scope, runs the callback fn against the transactional repo,    *)
(* and its deferred function then recovers a panic of fn, rolls back or   *)
(* commits.  fn is user code: it writes through the transactional         *)
(* adapter, calls Transaction again on the repo it was given (a nested    *)
(* frame), returns an error or nil, or panics.  A re-raised panic unwinds *)
(* into the enclosing frame's fn, whose deferred function then runs.      *)
(*                                                                         *)
(* The adapter (external to the repository, modelled from the contract of *)
(* Begin/Commit/Rollback) keeps a stack of scopes, each the view of the    *)
(* store its writes go to: Begin on a transactional adapter opens a nested *)
(* scope (a savepoint), Commit of a nested scope makes its view the view  *)
(* of its parent, Commit of the outermost scope makes it the committed    *)
(* store, and Rollback drops the scope.  Each of them may fail; a failed  *)
(* Commit or Rollback ends the scope without applying it.                 *)
(***************************************************************************)
EXTENDS Naturals, Sequences, FiniteSets

CONSTANTS
    Keys,       \* the rows fn may write
    Vals,       \* the values a row may hold
    NoVal,      \* the value of a row that does not exist
    MaxDepth    \* bound on the nesting of Transaction calls

ASSUME NoValAssumption == NoVal \notin Vals
ASSUME MaxDepthAssumption == MaxDepth \in Nat \ {0}

(* grimoire errors.Kind values an adapter or fn may produce.               *)
ErrKinds == {"NotFound", "Constraint", "Unexpected"}
(* Mutant: the kind check of line 277 dropped, Unexpected recovered too.  *)
RecognizedAllKinds == ErrKinds
(* The kinds the recover branch turns into a returned error (line 277).    *)
Recognized == ErrKinds \ {"Unexpected"}
(* Spec section 7: the panics that are not of an "expected" kind.         *)
Fatal == {"Unexpected", "NonError"}
(* What fn may panic with: an errors.Error of some kind, or anything else *)
(* (a runtime error, a string).                                           *)
PanicVals == ErrKinds \cup {"NonError"}
(* The error value a frame returns: nil or an error of some kind.         *)
Results == ErrKinds \cup {"nil"}

Store == [Keys -> Vals \cup {NoVal}]

(* A frame of Transaction: "begin" before adapter.Begin (line 264), "body" *)
(* while fn runs (line 289), "deferred" when fn has returned or panicked  *)
(* and the deferred function (lines 273-287) is about to run.  err is the *)
(* local err, panic the value recover() will return ("none" for nil).     *)
Frame == [phase : {"begin", "body", "deferred"},
          err   : Results,
          panic : PanicVals \cup {"none"}]

(* A returned error is nil or an errors.Error; a panic carries any value. *)
Outcome == [how : {"none", "return"}, val : Results]
             \cup [how : {"panic"}, val : PanicVals]

VARIABLES
    db,       \* the committed store
    scopes,   \* the adapter's open scopes, outermost first, each a view
    frames,   \* the call stack of Transaction frames, outermost first
    db0,      \* ghost: db when the outermost call started
    final,    \* ghost: the outermost scope's view when its fn finished
    raised,   \* ghost: an unrecognized panic raised during this call
    outcome   \* ghost: how the last outermost call ended

vars == <<db, scopes, frames, db0, final, raised, outcome>>

-----------------------------------------------------------------------------
Top == frames[Len(frames)]

(* What the innermost open scope reads: its view, or the store.           *)
View == IF Len(scopes) = 0 THEN db ELSE scopes[Len(scopes)]

PopScope == [i \in 1..(Len(scopes) - 1) |-> scopes[i]]

(* The stack with its innermost frame replaced by f, and without it.      *)
SetTop(f) == [frames EXCEPT ![Len(frames)] = f]

Caller == [i \in 1..(Len(frames) - 1) |-> frames[i]]

NewFrame == [phase |-> "begin", err |-> "nil", panic |-> "none"]

(* The innermost frame returns res to its caller: the enclosing fn, which *)
(* goes on running, or the application.                                    *)
ReturnTo(res) ==
    IF Len(frames) = 1
    THEN /\ frames' = <<>>
         /\ outcome' = [how |-> "return", val |-> res]
    ELSE /\ frames' = Caller
         /\ UNCHANGED outcome

(* The innermost frame re-panics with p (line 280): the panic unwinds     *)
(* through the enclosing fn into that frame's deferred function, whose    *)
(* err is still the nil Begin returned.                                    *)
PanicTo(p) ==
    IF Len(frames) = 1
    THEN /\ frames' = <<>>
         /\ outcome' = [how |-> "panic", val |-> p]
    ELSE /\ frames' = [Caller EXCEPT ![Len(frames) - 1] =
                           [phase |-> "deferred", err |-> "nil", panic |-> p]]
         /\ UNCHANGED outcome

-----------------------------------------------------------------------------
Init ==
    /\ db \in Store
    /\ scopes = <<>>
    /\ frames = <<>>
    /\ db0 = db
    /\ final = db
    /\ raised = "none"
    /\ outcome = [how |-> "none", val |-> "nil"]

(* The application calls repo.Transaction(fn) on a repo not in a          *)
(* transaction.                                                            *)
Call ==
    /\ Len(frames) = 0
    /\ frames' = <<NewFrame>>
    /\ db0' = db
    /\ raised' = "none"
    /\ UNCHANGED <<db, scopes, final, outcome>>

(* adp, err := r.adapter.Begin(); on error return it (lines 264-267).     *)
Begin ==
    /\ Len(frames) > 0
    /\ Top.phase = "begin"
    /\ \/ /\ scopes' = Append(scopes, View)
          /\ frames' = SetTop([Top EXCEPT !.phase = "body"])
          /\ UNCHANGED outcome
       \/ /\ \E e \in ErrKinds : ReturnTo(e)
          /\ UNCHANGED scopes
    /\ UNCHANGED <<db, db0, final, raised>>

(* fn writes row k through the transactional adapter (an insert, update  *)
(* or delete of that row).                                                 *)
Write(k, v) ==
    /\ Len(frames) > 0
    /\ Top.phase = "body"
    /\ scopes' = [scopes EXCEPT ![Len(scopes)][k] = v]
    /\ UNCHANGED <<db, frames, db0, final, raised, outcome>>

(* fn calls Transaction on the repo it was given.                         *)
Nest ==
    /\ Len(frames) > 0
    /\ Top.phase = "body"
    /\ Len(frames) < MaxDepth
    /\ frames' = Append(frames, NewFrame)
    /\ UNCHANGED <<db, scopes, db0, final, raised, outcome>>

(* err = fn(txRepo) (line 289): fn returns e.                             *)
FnReturn(e) ==
    /\ Len(frames) > 0
    /\ Top.phase = "body"
    /\ frames' = SetTop([Top EXCEPT !.phase = "deferred", !.err = e])
    /\ UNCHANGED <<db, scopes, db0, final, raised, outcome>>

(* fn panics with p (a Must* call on an error, or a runtime fault).       *)
FnPanic(p) ==
    /\ Len(frames) > 0
    /\ Top.phase = "body"
    /\ frames' = SetTop([Top EXCEPT !.phase = "deferred", !.panic = p])
    /\ raised' = IF p \in Fatal THEN p ELSE raised
    /\ UNCHANGED <<db, scopes, db0, final, outcome>>

(* The view of the outermost scope is recorded when its fn has finished. *)
RecordFinal ==
    final' = IF Len(frames) = 1 THEN scopes[Len(scopes)] ELSE final

(* The deferred function (lines 273-287).  A panic is recovered, the     *)
(* scope rolled back (the Rollback error is dropped), and the panic      *)
(* either becomes err (a recognized errors.Error) or is re-raised.  An    *)
(* error returned by fn rolls back; nil commits and err becomes the      *)
(* Commit result.                                                          *)
(* Mutant: the deferred function forgets adapter.Rollback on a panic.     *)
RecoverWithoutRollback ==
    /\ Len(frames) > 0
    /\ Top.phase = "deferred"
    /\ Top.panic # "none"
    /\ IF Top.panic \in Recognized THEN ReturnTo(Top.panic) ELSE PanicTo(Top.panic)
    /\ RecordFinal
    /\ UNCHANGED <<db, scopes, db0, raised>>

(* Mutant: the errors.Error type assertion of line 277 inverted, so a    *)
(* recovered value that is not an error is returned as the error.         *)
RecoverNonErrorAsError ==
    /\ Len(frames) > 0
    /\ Top.phase = "deferred"
    /\ Top.panic # "none"
    /\ scopes' = PopScope
    /\ IF Top.panic \in Recognized \cup {"NonError"}
       THEN ReturnTo(Top.panic) ELSE PanicTo(Top.panic)
    /\ RecordFinal
    /\ UNCHANGED <<db, db0, raised>>

Recover ==
    /\ Len(frames) > 0
    /\ Top.phase = "deferred"
    /\ Top.panic # "none"
    /\ scopes' = PopScope
    /\ IF Top.panic \in Recognized THEN ReturnTo(Top.panic) ELSE PanicTo(Top.panic)
    /\ RecordFinal
    /\ UNCHANGED <<db, db0, raised>>

RollbackOnError ==
    /\ Len(frames) > 0
    /\ Top.phase = "deferred"
    /\ Top.panic = "none"
    /\ Top.err # "nil"
    /\ scopes' = PopScope
    /\ ReturnTo(Top.err)
    /\ RecordFinal
    /\ UNCHANGED <<db, db0, raised>>

(* Mutant: a nested Commit commits to the store, as on an adapter whose   *)
(* nested Begin opens no savepoint.                                        *)
ApplyCommitToStore ==
    /\ db' = scopes[Len(scopes)]
    /\ scopes' = [PopScope EXCEPT ![Len(scopes) - 1] = scopes[Len(scopes)]]

(* Commit of the innermost scope: into the store if it is the outermost,  *)
(* into the parent's view otherwise.                                       *)
ApplyCommit ==
    IF Len(scopes) = 1
    THEN /\ db' = scopes[1]
         /\ scopes' = <<>>
    ELSE /\ scopes' = [PopScope EXCEPT ![Len(scopes) - 1] = scopes[Len(scopes)]]
         /\ UNCHANGED db

(* Mutant: the Commit error is dropped, txRepo.adapter.Commit() is       *)
(* called without assigning err (line 285).                                *)
CommitErrorDropped ==
    /\ Len(frames) > 0
    /\ Top.phase = "deferred"
    /\ Top.panic = "none"
    /\ Top.err = "nil"
    /\ \/ ApplyCommit
       \/ scopes' = PopScope /\ UNCHANGED db
    /\ ReturnTo("nil")
    /\ RecordFinal
    /\ UNCHANGED <<db0, raised>>

Commit ==
    /\ Len(frames) > 0
    /\ Top.phase = "deferred"
    /\ Top.panic = "none"
    /\ Top.err = "nil"
    /\ \/ /\ ApplyCommit
          /\ ReturnTo("nil")
       \/ /\ scopes' = PopScope
          /\ UNCHANGED db
          /\ \E e \in ErrKinds : ReturnTo(e)
    /\ RecordFinal
    /\ UNCHANGED <<db0, raised>>

Next ==
    \/ Call
    \/ Begin
    \/ \E k \in Keys, v \in Vals \cup {NoVal} : Write(k, v)
    \/ Nest
    \/ \E e \in Results : FnReturn(e)
    \/ \E p \in PanicVals : FnPanic(p)
    \/ Recover
    \/ RollbackOnError
    \/ Commit

Spec == Init /\ [][Next]_vars

-----------------------------------------------------------------------------
TypeOK ==
    /\ db \in Store
    /\ scopes \in Seq(Store)
    /\ frames \in Seq(Frame)
    /\ Len(frames) <= MaxDepth
    /\ db0 \in Store
    /\ final \in Store
    /\ raised \in PanicVals \cup {"none"}
    /\ outcome \in Outcome

(* Every Transaction frame past Begin owns exactly one open adapter      *)
(* scope, and no other scope is open: however fn nests calls, returns    *)
(* errors or panics, and however a panic unwinds through several frames, *)
(* each frame's deferred function closes the scope its Begin opened       *)
(* (lines 272-290), so no transaction or savepoint is left open.          *)
Opened == {i \in 1..Len(frames) : frames[i].phase # "begin"}

ScopesMatchFrames == Len(scopes) = Cardinality(Opened)

Idle == Len(frames) = 0 /\ outcome.how # "none"

(* All or nothing: when a Transaction call has returned nil, the store    *)
(* holds exactly what fn left in its scope; when it returned an error or *)
(* panicked (a Begin, Commit or fn failure at any nesting depth), the     *)
(* store is what it was before the call (lines 264-292).                  *)
Atomicity ==
    Idle => IF outcome = [how |-> "return", val |-> "nil"]
            THEN db = final
            ELSE db = db0

(* A panic that is not a recognized errors.Error, raised by fn at any     *)
(* depth, is never swallowed: after rollback it is re-raised unchanged   *)
(* through every enclosing Transaction up to the caller (line 280).       *)
PanicNotSwallowed ==
    (Idle /\ raised # "none") => outcome = [how |-> "panic", val |-> raised]

(* Spec section 5: a Transaction called on a repo already bound to a      *)
(* transaction reuses its scope instead of opening a second one, the     *)
(* inTransaction flag telling the repo it is in one.  The code sets the  *)
(* flag (line 270) but Begin is called whatever it says (line 264).       *)
NoNestedScope == Len(scopes) <= 1
(* Refinement: with the call stack non-empty read as "a call is running"   *)
(* and the outcome as its result, every behaviour of Transaction is one   *)
(* of AtomicTransaction.  Only the step that ends an outermost call, its   *)
(* Commit, Rollback or re-raise (lines 272-287), may change the store, and *)
(* it changes it only when the call returns nil; nested Commits, writes   *)
(* of fn and every rollback leave the store alone.                         *)
AT == INSTANCE AtomicTransaction WITH busy <- Len(frames) > 0, result <- outcome

ImplementsAtomic == AT!Spec

=============================================================================

------------------------- MODULE TransactionProofs -------------------------
(***************************************************************************)
(* Proofs about Transaction, for every set of rows and values and every    *)
(* nesting bound.                                                          *)
(***************************************************************************)
EXTENDS Transaction, FiniteSetTheorems, SequenceTheorems, TLAPS

(* Every frame below the innermost is running its fn: it is waiting on the *)
(* nested Transaction call that fn made.                                   *)
StackShape == \A i \in 1..(Len(frames) - 1) : frames[i].phase = "body"

(* The number of open scopes, counted from the stack.                     *)
ScopeCount ==
    Len(scopes) = IF Len(frames) = 0 THEN 0
                  ELSE IF Top.phase = "begin" THEN Len(frames) - 1
                  ELSE Len(frames)

(* The store does not change while a call is running.                     *)
DbStable == Len(frames) > 0 => db = db0

(* A fatal panic is being unwound by the innermost frame, or has left    *)
(* the outermost one.                                                      *)
PanicTrack ==
    raised # "none" =>
        /\ raised \in Fatal
        /\ Len(frames) > 0 => Top.phase = "deferred" /\ Top.panic = raised
        /\ Len(frames) = 0 => outcome = [how |-> "panic", val |-> raised]

IInv ==
    /\ TypeOK
    /\ StackShape
    /\ ScopeCount
    /\ DbStable
    /\ Atomicity
    /\ PanicTrack

-----------------------------------------------------------------------------
(* Every initial state, before any Transaction call, satisfies IInv.      *)
LEMMA InitIInv == Init => IInv
  BY NoValAssumption, MaxDepthAssumption
  DEF Init, IInv, TypeOK, Store, Outcome, Results, StackShape, ScopeCount,
      DbStable, Atomicity, Idle, PanicTrack

(* A step that changes nothing keeps IInv.                                *)
LEMMA StutterIInv == IInv /\ UNCHANGED vars => IInv'
  BY DEF vars, IInv, TypeOK, Store, Outcome, Results, StackShape, ScopeCount,
      DbStable, Atomicity, Idle, PanicTrack, Top

(* A top-level Transaction call (repo.go line 263) keeps IInv.            *)
LEMMA CallIInv == IInv /\ Call => IInv'
  BY MaxDepthAssumption
  DEF Call, NewFrame, Frame, Results, PanicVals, IInv, TypeOK, StackShape,
      ScopeCount, DbStable, Atomicity, Idle, PanicTrack, Top

(* The last element of a non-empty sequence is one of its elements.      *)
LEMMA LastElem ==
  ASSUME NEW S, NEW s \in Seq(S), Len(s) > 0
  PROVE  s[Len(s)] \in S
  BY LenProperties

(* Replacing the last element.                                             *)
LEMMA ReplaceLast ==
  ASSUME NEW S, NEW s \in Seq(S), Len(s) > 0, NEW x \in S
  PROVE  LET t == [s EXCEPT ![Len(s)] = x]
         IN  /\ t \in Seq(S)
             /\ Len(t) = Len(s)
             /\ t[Len(s)] = x
             /\ \A i \in 1..(Len(s) - 1) : t[i] = s[i]
  BY ExceptSeq

(* Dropping the last element.                                              *)
LEMMA DropLast ==
  ASSUME NEW S, NEW s \in Seq(S), Len(s) > 0
  PROVE  LET t == [i \in 1..(Len(s) - 1) |-> s[i]]
         IN  /\ t \in Seq(S)
             /\ Len(t) = Len(s) - 1
             /\ \A i \in 1..(Len(s) - 1) : t[i] = s[i]
  <1> DEFINE t == [i \in 1..(Len(s) - 1) |-> s[i]]
  <1>1. Len(s) - 1 \in Nat /\ \A i \in 1..(Len(s) - 1) : s[i] \in S
    BY LenProperties
  <1>2. t \in Seq(S)
    BY <1>1, IsASeq
  <1>3. Len(t) = Len(s) - 1
    BY <1>1, <1>2, LenProperties
  <1>4. QED
    BY <1>2, <1>3

(* Facts every step starts from: the innermost frame is a Frame, and the  *)
(* number of scopes it implies.                                            *)
LEMMA TopFacts ==
  ASSUME IInv, Len(frames) > 0
  PROVE  /\ Top \in Frame
         /\ Len(frames) \in Nat
         /\ Len(frames) <= MaxDepth
         /\ Top.phase = "begin" => Len(scopes) = Len(frames) - 1
         /\ Top.phase # "begin" => Len(scopes) = Len(frames)
         /\ raised # "none" => Top.phase = "deferred" /\ Top.panic = raised
         /\ db = db0
  <1>1. frames \in Seq(Frame)
    BY DEF IInv, TypeOK
  <1>2. Top \in Frame /\ Len(frames) \in Nat /\ Len(frames) <= MaxDepth
    BY <1>1, LastElem, LenProperties DEF Top, IInv, TypeOK
  <1>3. QED
    BY <1>2 DEF IInv, ScopeCount, PanicTrack, DbStable

(* Begin, opening a scope or failing (repo.go lines 264-267), keeps IInv. *)
LEMMA BeginIInv == IInv /\ Begin => IInv'
  <1> SUFFICES ASSUME IInv, Begin PROVE IInv'
    OBVIOUS
  <1>1. /\ Len(frames) > 0
        /\ Top.phase = "begin"
        /\ Top \in Frame
        /\ Len(frames) \in Nat
        /\ Len(frames) <= MaxDepth
        /\ Len(scopes) = Len(frames) - 1
        /\ raised = "none"
        /\ db = db0
    BY TopFacts DEF Begin
  <1>2. CASE /\ scopes' = Append(scopes, View)
             /\ frames' = SetTop([Top EXCEPT !.phase = "body"])
             /\ UNCHANGED outcome
    <2>1. View \in Store
      BY <1>1, LastElem DEF View, IInv, TypeOK
    <2>2. scopes' \in Seq(Store) /\ Len(scopes') = Len(frames)
      BY <1>1, <1>2, <2>1, AppendProperties DEF IInv, TypeOK
    <2>3. [Top EXCEPT !.phase = "body"] \in Frame
      BY <1>1 DEF Frame
    <2>4. /\ frames' \in Seq(Frame)
          /\ Len(frames') = Len(frames)
          /\ frames'[Len(frames)] = [Top EXCEPT !.phase = "body"]
          /\ \A i \in 1..(Len(frames) - 1) : frames'[i] = frames[i]
      BY <1>1, <1>2, <2>3, ReplaceLast DEF SetTop, IInv, TypeOK
    <2>5. Top'.phase = "body"
      BY <1>1, <2>4 DEF Top
    <2>6. UNCHANGED <<db, db0, final, raised, outcome>>
      BY <1>2 DEF Begin
    <2>7. TypeOK'
      BY <1>1, <2>2, <2>4, <2>6 DEF IInv, TypeOK
    <2>8. StackShape'
      BY <1>1, <2>4 DEF IInv, StackShape
    <2>9. QED
      BY <1>1, <2>2, <2>4, <2>5, <2>6, <2>7, <2>8
      DEF IInv, ScopeCount, DbStable, Atomicity, Idle, PanicTrack
  <1>3. CASE /\ \E e \in ErrKinds : ReturnTo(e)
             /\ UNCHANGED scopes
    <2>1. PICK e \in ErrKinds : ReturnTo(e)
      BY <1>3
    <2>2. UNCHANGED <<db, db0, final, raised, scopes>>
      BY <1>3 DEF Begin
    <2>3. CASE Len(frames) = 1
      <3>1. frames' = <<>> /\ outcome' = [how |-> "return", val |-> e]
        BY <2>1, <2>3 DEF ReturnTo
      <3>2. outcome' \in Outcome /\ outcome' # [how |-> "return", val |-> "nil"]
        BY <3>1 DEF Outcome, Results, ErrKinds
      <3>3. <<>> \in Seq(Frame) /\ Len(frames') = 0
        BY <3>1, EmptySeq
      <3>4. QED
        BY <1>1, <2>2, <2>3, <3>1, <3>2, <3>3, MaxDepthAssumption
        DEF IInv, TypeOK, StackShape, ScopeCount, DbStable, Atomicity, Idle, PanicTrack
    <2>4. CASE Len(frames) # 1
      <3>1. Len(frames) > 1 /\ frames' = Caller /\ UNCHANGED outcome
        BY <1>1, <2>1, <2>4 DEF ReturnTo
      <3>2. /\ frames' \in Seq(Frame)
            /\ Len(frames') = Len(frames) - 1
            /\ \A i \in 1..(Len(frames) - 1) : frames'[i] = frames[i]
        BY <1>1, <3>1, DropLast DEF Caller, IInv, TypeOK
      <3>3. Top'.phase = "body" /\ StackShape'
        BY <1>1, <3>1, <3>2 DEF Top, IInv, StackShape
      <3>4. TypeOK'
        <4>1. TypeOK
          BY DEF IInv
        <4>2. Len(frames') <= MaxDepth
          BY <1>1, <3>2, MaxDepthAssumption
        <4>3. QED
          BY <2>2, <3>1, <3>2, <4>1, <4>2 DEF TypeOK
      <3>5. ScopeCount'
        BY <1>1, <2>2, <3>1, <3>2, <3>3 DEF ScopeCount
      <3>6. DbStable' /\ Atomicity' /\ PanicTrack'
        BY <1>1, <2>2, <3>1, <3>2 DEF DbStable, Atomicity, Idle, PanicTrack
      <3>7. QED
        BY <3>3, <3>4, <3>5, <3>6 DEF IInv
    <2>5. QED
      BY <2>3, <2>4
  <1>4. QED
    BY <1>2, <1>3 DEF Begin

(* A write by fn to its scope keeps IInv.                                 *)
LEMMA WriteIInv ==
  ASSUME IInv, NEW k \in Keys, NEW v \in Vals \cup {NoVal}, Write(k, v)
  PROVE  IInv'
  <1>1. /\ Len(frames) > 0
        /\ Top.phase = "body"
        /\ Len(scopes) = Len(frames)
        /\ Len(frames) \in Nat
    BY TopFacts DEF Write
  <1>2. UNCHANGED <<db, frames, db0, final, raised, outcome>>
    BY DEF Write
  <1>3. scopes \in Seq(Store)
    BY DEF IInv, TypeOK
  <1>4. [scopes[Len(scopes)] EXCEPT ![k] = v] \in Store
    BY <1>1, <1>3, LastElem DEF Store
  <1>5. scopes' = [scopes EXCEPT ![Len(scopes)] = [scopes[Len(scopes)] EXCEPT ![k] = v]]
    BY DEF Write
  <1>6. scopes' \in Seq(Store) /\ Len(scopes') = Len(scopes)
    BY <1>1, <1>3, <1>4, <1>5, ReplaceLast
  <1>7. TypeOK'
    BY <1>2, <1>6 DEF IInv, TypeOK
  <1>8. ScopeCount'
    BY <1>1, <1>2, <1>6 DEF ScopeCount, Top
  <1>9. (StackShape /\ DbStable /\ Atomicity /\ PanicTrack)'
    BY <1>2 DEF IInv, StackShape, DbStable, Atomicity, Idle, PanicTrack, Top
  <1>10. QED
    BY <1>7, <1>8, <1>9 DEF IInv

(* A nested Transaction call made by fn (repo.go line 289) keeps IInv.    *)
LEMMA NestIInv == IInv /\ Nest => IInv'
  <1> SUFFICES ASSUME IInv, Nest PROVE IInv'
    OBVIOUS
  <1>1. /\ Len(frames) > 0
        /\ Top.phase = "body"
        /\ Len(scopes) = Len(frames)
        /\ Len(frames) \in Nat
        /\ Len(frames) < MaxDepth
        /\ raised = "none"
        /\ db = db0
    BY TopFacts DEF Nest
  <1>2. UNCHANGED <<db, scopes, db0, final, raised, outcome>>
    BY DEF Nest
  <1>3. NewFrame \in Frame
    BY DEF NewFrame, Frame, Results, PanicVals
  <1>4. /\ frames' \in Seq(Frame)
        /\ Len(frames') = Len(frames) + 1
        /\ \A i \in 1..Len(frames) : frames'[i] = frames[i]
        /\ frames'[Len(frames) + 1] = NewFrame
    <2>1. frames \in Seq(Frame)
      BY DEF IInv, TypeOK
    <2>2. QED
      BY <1>3, <2>1, AppendProperties DEF Nest
  <1>5. TypeOK'
    BY <1>1, <1>2, <1>4, MaxDepthAssumption DEF IInv, TypeOK
  <1>6. StackShape'
    BY <1>1, <1>4 DEF IInv, StackShape, Top
  <1>7. ScopeCount'
    BY <1>1, <1>2, <1>4 DEF ScopeCount, Top, NewFrame
  <1>8. (DbStable /\ Atomicity /\ PanicTrack)'
    BY <1>1, <1>2, <1>4 DEF DbStable, Atomicity, Idle, PanicTrack
  <1>9. QED
    BY <1>5, <1>6, <1>7, <1>8 DEF IInv

(* Replacing the innermost frame keeps the stack's shape.                 *)
LEMMA SetTopFacts ==
  ASSUME IInv, Len(frames) > 0, NEW f \in Frame, frames' = SetTop(f)
  PROVE  /\ frames' \in Seq(Frame)
         /\ Len(frames') = Len(frames)
         /\ Top' = f
         /\ StackShape'
  <1>1. frames \in Seq(Frame)
    BY DEF IInv, TypeOK
  <1>2. /\ frames' \in Seq(Frame)
        /\ Len(frames') = Len(frames)
        /\ frames'[Len(frames)] = f
        /\ \A i \in 1..(Len(frames) - 1) : frames'[i] = frames[i]
    BY <1>1, ReplaceLast DEF SetTop
  <1>3. QED
    BY <1>2 DEF Top, IInv, StackShape

(* fn returning an error or nil (repo.go line 289) keeps IInv.            *)
LEMMA FnReturnIInv ==
  ASSUME IInv, NEW e \in Results, FnReturn(e)
  PROVE  IInv'
  <1>1. /\ Len(frames) > 0
        /\ Top.phase = "body"
        /\ Top \in Frame
        /\ Len(scopes) = Len(frames)
        /\ Len(frames) \in Nat
        /\ Len(frames) <= MaxDepth
        /\ raised = "none"
        /\ db = db0
    BY TopFacts DEF FnReturn
  <1>2. UNCHANGED <<db, scopes, db0, final, raised, outcome>>
    BY DEF FnReturn
  <1>3. [Top EXCEPT !.phase = "deferred", !.err = e] \in Frame
    BY <1>1 DEF Frame
  <1>4. /\ frames' \in Seq(Frame)
        /\ Len(frames') = Len(frames)
        /\ Top' = [Top EXCEPT !.phase = "deferred", !.err = e]
        /\ StackShape'
    BY <1>1, <1>3, SetTopFacts DEF FnReturn
  <1>5. Top'.phase = "deferred"
    BY <1>1, <1>4
  <1>6. TypeOK'
    BY <1>1, <1>2, <1>4 DEF IInv, TypeOK
  <1>7. ScopeCount'
    BY <1>1, <1>2, <1>4, <1>5 DEF ScopeCount
  <1>8. (DbStable /\ Atomicity /\ PanicTrack)'
    BY <1>1, <1>2, <1>4 DEF DbStable, Atomicity, Idle, PanicTrack
  <1>9. QED
    BY <1>4, <1>6, <1>7, <1>8 DEF IInv

(* fn panicking (repo.go line 289) keeps IInv.                            *)
LEMMA FnPanicIInv ==
  ASSUME IInv, NEW p \in PanicVals, FnPanic(p)
  PROVE  IInv'
  <1>1. /\ Len(frames) > 0
        /\ Top.phase = "body"
        /\ Top \in Frame
        /\ Len(scopes) = Len(frames)
        /\ Len(frames) \in Nat
        /\ Len(frames) <= MaxDepth
        /\ raised = "none"
        /\ db = db0
    BY TopFacts DEF FnPanic
  <1>2. UNCHANGED <<db, scopes, db0, final, outcome>>
    BY DEF FnPanic
  <1>3. [Top EXCEPT !.phase = "deferred", !.panic = p] \in Frame
    BY <1>1 DEF Frame
  <1>4. /\ frames' \in Seq(Frame)
        /\ Len(frames') = Len(frames)
        /\ Top' = [Top EXCEPT !.phase = "deferred", !.panic = p]
        /\ StackShape'
    BY <1>1, <1>3, SetTopFacts DEF FnPanic
  <1>5. Top'.phase = "deferred" /\ Top'.panic = p
    BY <1>1, <1>4
  <1>6. raised' = IF p \in Fatal THEN p ELSE "none"
    BY <1>1 DEF FnPanic
  <1>7. TypeOK'
    BY <1>1, <1>2, <1>4, <1>6 DEF IInv, TypeOK, Fatal, PanicVals, ErrKinds
  <1>8. ScopeCount'
    BY <1>1, <1>2, <1>4, <1>5 DEF ScopeCount
  <1>9. (DbStable /\ Atomicity /\ PanicTrack)'
    BY <1>1, <1>2, <1>4, <1>5, <1>6 DEF DbStable, Atomicity, Idle, PanicTrack
  <1>10. QED
    BY <1>4, <1>7, <1>8, <1>9 DEF IInv

(* The outcomes a call can hand to its caller are outcomes.               *)
LEMMA OutcomeValues ==
  /\ \A x \in Results : [how |-> "return", val |-> x] \in Outcome
  /\ \A x \in PanicVals : [how |-> "panic", val |-> x] \in Outcome
  BY DEF Outcome

(* Returning from the innermost frame.                                    *)
LEMMA ReturnToFacts ==
  ASSUME IInv, Len(frames) > 0, NEW res, ReturnTo(res)
  PROVE  /\ frames' \in Seq(Frame)
         /\ StackShape'
         /\ Len(frames) = 1 => /\ Len(frames') = 0
                                /\ outcome' = [how |-> "return", val |-> res]
         /\ Len(frames) > 1 => /\ Len(frames') = Len(frames) - 1
                                /\ Top'.phase = "body"
                                /\ outcome' = outcome
  <1>1. frames \in Seq(Frame) /\ Len(frames) \in Nat
    BY DEF IInv, TypeOK
  <1>2. CASE Len(frames) = 1
    <2>1. frames' = <<>> /\ outcome' = [how |-> "return", val |-> res]
      BY <1>2 DEF ReturnTo
    <2>2. QED
      BY <1>2, <2>1, EmptySeq DEF StackShape
  <1>3. CASE Len(frames) # 1
    <2>1. frames' = Caller /\ outcome' = outcome
      BY <1>3 DEF ReturnTo
    <2>2. /\ frames' \in Seq(Frame)
          /\ Len(frames') = Len(frames) - 1
          /\ \A i \in 1..(Len(frames) - 1) : frames'[i] = frames[i]
      BY <1>1, <2>1, DropLast DEF Caller
    <2>3. QED
      BY <1>1, <1>3, <2>1, <2>2 DEF IInv, StackShape, Top
  <1>4. QED
    BY <1>2, <1>3

(* Re-raising from the innermost frame into the enclosing one.            *)
LEMMA PanicToFacts ==
  ASSUME IInv, Len(frames) > 0, NEW p \in PanicVals, PanicTo(p)
  PROVE  /\ frames' \in Seq(Frame)
         /\ StackShape'
         /\ Len(frames) = 1 => /\ Len(frames') = 0
                                /\ outcome' = [how |-> "panic", val |-> p]
         /\ Len(frames) > 1 => /\ Len(frames') = Len(frames) - 1
                                /\ Top'.phase = "deferred"
                                /\ Top'.panic = p
                                /\ outcome' = outcome
  <1>1. frames \in Seq(Frame) /\ Len(frames) \in Nat
    BY DEF IInv, TypeOK
  <1>0. \A n \in Nat : n > 0 /\ n # 1 => n > 1
    OBVIOUS
  <1>2. CASE Len(frames) = 1
    <2>1. frames' = <<>> /\ outcome' = [how |-> "panic", val |-> p]
      BY <1>2 DEF PanicTo
    <2>2. QED
      BY <1>2, <2>1, EmptySeq DEF StackShape
  <1>3. CASE Len(frames) # 1
    <2> DEFINE f == [phase |-> "deferred", err |-> "nil", panic |-> p]
    <2>1. frames' = [Caller EXCEPT ![Len(frames) - 1] = f] /\ outcome' = outcome
      BY <1>3 DEF PanicTo
    <2>2. /\ Caller \in Seq(Frame)
          /\ Len(Caller) = Len(frames) - 1
          /\ \A i \in 1..(Len(frames) - 1) : Caller[i] = frames[i]
      BY <1>1, DropLast DEF Caller
    <2>3. f \in Frame
      BY DEF Frame, Results, PanicVals
    <2>4. /\ frames' \in Seq(Frame)
          /\ Len(frames') = Len(frames) - 1
          /\ frames'[Len(frames) - 1] = f
          /\ \A i \in 1..(Len(frames) - 2) : frames'[i] = frames[i]
      BY <1>1, <1>3, <2>1, <2>2, <2>3, ReplaceLast
    <2>5. Len(frames) > 1
      BY <1>0, <1>1, <1>3
    <2>6. Top'.phase = "deferred" /\ Top'.panic = p
      BY <2>4 DEF Top
    <2>7. StackShape'
      BY <1>1, <2>4 DEF IInv, StackShape
    <2>8. QED
      BY <2>1, <2>4, <2>5, <2>6, <2>7
  <1>4. QED
    BY <1>2, <1>3

(* Dropping the innermost scope.                                           *)
LEMMA PopScopeFacts ==
  ASSUME IInv, Len(scopes) > 0
  PROVE  /\ PopScope \in Seq(Store)
         /\ Len(PopScope) = Len(scopes) - 1
         /\ \A i \in 1..(Len(scopes) - 1) : PopScope[i] = scopes[i]
         /\ scopes[Len(scopes)] \in Store
  <1>1. scopes \in Seq(Store)
    BY DEF IInv, TypeOK
  <1>2. QED
    BY <1>1, DropLast, LastElem DEF PopScope

(* What holds when the innermost frame's deferred function runs.         *)
LEMMA DeferredFacts ==
  ASSUME IInv, Len(frames) > 0, Top.phase = "deferred"
  PROVE  /\ Top \in Frame
         /\ Len(frames) \in Nat
         /\ Len(frames) <= MaxDepth
         /\ Len(scopes) = Len(frames)
         /\ raised # "none" => Top.panic = raised
         /\ db = db0
         /\ PopScope \in Seq(Store)
         /\ Len(PopScope) = Len(scopes) - 1
         /\ \A i \in 1..(Len(scopes) - 1) : PopScope[i] = scopes[i]
         /\ scopes[Len(scopes)] \in Store
  <1>1. /\ Top \in Frame
        /\ Len(frames) \in Nat
        /\ Len(frames) <= MaxDepth
        /\ Len(scopes) = Len(frames)
        /\ raised # "none" => Top.panic = raised
        /\ db = db0
    BY TopFacts
  <1>2. QED
    BY <1>1, PopScopeFacts

(* The deferred recover with its Rollback (repo.go lines 272-281) keeps IInv. *)
LEMMA RecoverIInv == IInv /\ Recover => IInv'
  <1> SUFFICES ASSUME IInv, Recover PROVE IInv'
    OBVIOUS
  <1>1. /\ Len(frames) > 0
        /\ Top.phase = "deferred"
        /\ Top.panic # "none"
        /\ Top.panic \in PanicVals
    BY TopFacts DEF Recover, Frame
  <1>2. /\ Len(frames) \in Nat
        /\ Len(frames) <= MaxDepth
        /\ Len(scopes) = Len(frames)
        /\ raised # "none" => Top.panic = raised
        /\ db = db0
        /\ PopScope \in Seq(Store)
        /\ Len(PopScope) = Len(scopes) - 1
        /\ scopes[Len(scopes)] \in Store
    BY <1>1, DeferredFacts
  <1>3. /\ scopes' = PopScope
        /\ final' = IF Len(frames) = 1 THEN scopes[Len(scopes)] ELSE final
        /\ UNCHANGED <<db, db0, raised>>
    BY DEF Recover, RecordFinal
  <1>4. scopes' \in Seq(Store) /\ Len(scopes') = Len(frames) - 1 /\ final' \in Store
    BY <1>2, <1>3 DEF IInv, TypeOK
  <1>5. CASE Top.panic \in Recognized
    <2>1. ReturnTo(Top.panic)
      BY <1>5 DEF Recover
    <2>2. raised = "none"
      BY <1>2, <1>5 DEF IInv, PanicTrack, Fatal, Recognized, ErrKinds
    <2>3. Top.panic \in Results /\ Top.panic # "nil"
      BY <1>5 DEF Recognized, ErrKinds, Results
    <2>4. /\ frames' \in Seq(Frame)
          /\ StackShape'
          /\ Len(frames) = 1 => /\ Len(frames') = 0
                                 /\ outcome' = [how |-> "return", val |-> Top.panic]
          /\ Len(frames) > 1 => /\ Len(frames') = Len(frames) - 1
                                 /\ Top'.phase = "body"
                                 /\ outcome' = outcome
      BY <1>1, <2>1, ReturnToFacts
    <2>5. outcome' \in Outcome
      BY <1>1, <1>2, <2>3, <2>4, OutcomeValues DEF IInv, TypeOK
    <2>6. TypeOK'
      BY <1>2, <1>3, <1>4, <2>2, <2>4, <2>5, MaxDepthAssumption DEF IInv, TypeOK, PanicVals
    <2>7. ScopeCount'
      BY <1>2, <1>4, <2>4 DEF ScopeCount
    <2>8. (DbStable /\ Atomicity /\ PanicTrack)'
      BY <1>2, <1>3, <2>2, <2>3, <2>4 DEF DbStable, Atomicity, Idle, PanicTrack
    <2>9. QED
      BY <2>4, <2>6, <2>7, <2>8 DEF IInv
  <1>6. CASE Top.panic \notin Recognized
    <2>1. PanicTo(Top.panic)
      BY <1>6 DEF Recover
    <2>2. /\ frames' \in Seq(Frame)
          /\ StackShape'
          /\ Len(frames) = 1 => /\ Len(frames') = 0
                                 /\ outcome' = [how |-> "panic", val |-> Top.panic]
          /\ Len(frames) > 1 => /\ Len(frames') = Len(frames) - 1
                                 /\ Top'.phase = "deferred"
                                 /\ Top'.panic = Top.panic
                                 /\ outcome' = outcome
      BY <1>1, <2>1, PanicToFacts
    <2>3. outcome' \in Outcome
      BY <1>1, <1>2, <2>2, OutcomeValues DEF IInv, TypeOK
    <2>4. TypeOK'
      BY <1>2, <1>3, <1>4, <2>2, <2>3, MaxDepthAssumption DEF IInv, TypeOK
    <2>5. ScopeCount'
      BY <1>2, <1>4, <2>2 DEF ScopeCount
    <2>6. (DbStable /\ Atomicity /\ PanicTrack)'
      BY <1>2, <1>3, <2>2 DEF IInv, DbStable, Atomicity, Idle, PanicTrack
    <2>7. QED
      BY <2>2, <2>4, <2>5, <2>6 DEF IInv
  <1>7. QED
    BY <1>5, <1>6

(* Rollback after fn returned an error (repo.go lines 282-283) keeps IInv. *)
LEMMA RollbackOnErrorIInv == IInv /\ RollbackOnError => IInv'
  <1> SUFFICES ASSUME IInv, RollbackOnError PROVE IInv'
    OBVIOUS
  <1>1. /\ Len(frames) > 0
        /\ Top.phase = "deferred"
        /\ Top.panic = "none"
        /\ Top.err \in Results
        /\ Top.err # "nil"
    BY TopFacts DEF RollbackOnError, Frame
  <1>2. /\ Len(frames) \in Nat
        /\ Len(frames) <= MaxDepth
        /\ Len(scopes) = Len(frames)
        /\ raised = "none"
        /\ db = db0
        /\ PopScope \in Seq(Store)
        /\ Len(PopScope) = Len(scopes) - 1
        /\ scopes[Len(scopes)] \in Store
    BY <1>1, DeferredFacts
  <1>3. /\ scopes' = PopScope
        /\ final' = IF Len(frames) = 1 THEN scopes[Len(scopes)] ELSE final
        /\ UNCHANGED <<db, db0, raised>>
        /\ ReturnTo(Top.err)
    BY DEF RollbackOnError, RecordFinal
  <1>4. scopes' \in Seq(Store) /\ Len(scopes') = Len(frames) - 1 /\ final' \in Store
    BY <1>2, <1>3 DEF IInv, TypeOK
  <1>5. /\ frames' \in Seq(Frame)
        /\ StackShape'
        /\ Len(frames) = 1 => /\ Len(frames') = 0
                               /\ outcome' = [how |-> "return", val |-> Top.err]
        /\ Len(frames) > 1 => /\ Len(frames') = Len(frames) - 1
                               /\ Top'.phase = "body"
                               /\ outcome' = outcome
    BY <1>1, <1>3, ReturnToFacts
  <1>6. outcome' \in Outcome
    BY <1>1, <1>2, <1>5, OutcomeValues DEF IInv, TypeOK
  <1>7. TypeOK'
    BY <1>2, <1>3, <1>4, <1>5, <1>6, MaxDepthAssumption DEF IInv, TypeOK, PanicVals
  <1>8. ScopeCount'
    BY <1>2, <1>4, <1>5 DEF ScopeCount
  <1>9. (DbStable /\ Atomicity /\ PanicTrack)'
    BY <1>1, <1>2, <1>3, <1>5 DEF DbStable, Atomicity, Idle, PanicTrack
  <1>10. QED
    BY <1>5, <1>7, <1>8, <1>9 DEF IInv

(* Commit after fn returned nil (repo.go lines 284-285) keeps IInv.       *)
LEMMA CommitIInv == IInv /\ Commit => IInv'
  <1> SUFFICES ASSUME IInv, Commit PROVE IInv'
    OBVIOUS
  <1>1. /\ Len(frames) > 0
        /\ Top.phase = "deferred"
        /\ Top.panic = "none"
        /\ Top.err = "nil"
    BY DEF Commit
  <1>2. /\ Len(frames) \in Nat
        /\ Len(frames) <= MaxDepth
        /\ Len(scopes) = Len(frames)
        /\ raised = "none"
        /\ db = db0
        /\ PopScope \in Seq(Store)
        /\ Len(PopScope) = Len(scopes) - 1
        /\ \A i \in 1..(Len(scopes) - 1) : PopScope[i] = scopes[i]
        /\ scopes[Len(scopes)] \in Store
    BY <1>1, DeferredFacts
  <1>3. /\ final' = IF Len(frames) = 1 THEN scopes[Len(scopes)] ELSE final
        /\ UNCHANGED <<db0, raised>>
        /\ final' \in Store
    BY <1>2 DEF Commit, RecordFinal, IInv, TypeOK
  <1>4. CASE ApplyCommit /\ ReturnTo("nil")
    <2>1. /\ frames' \in Seq(Frame)
          /\ StackShape'
          /\ Len(frames) = 1 => /\ Len(frames') = 0
                                 /\ outcome' = [how |-> "return", val |-> "nil"]
          /\ Len(frames) > 1 => /\ Len(frames') = Len(frames) - 1
                                 /\ Top'.phase = "body"
                                 /\ outcome' = outcome
      BY <1>1, <1>4, ReturnToFacts
    <2>2. CASE Len(frames) = 1
      <3>1. db' = scopes[1] /\ scopes' = <<>> /\ final' = scopes[1]
        BY <1>2, <1>3, <1>4, <2>2 DEF ApplyCommit
      <3>2. scopes' \in Seq(Store) /\ Len(scopes') = 0 /\ db' \in Store
        BY <1>2, <2>2, <3>1, EmptySeq
      <3>3. outcome' \in Outcome
        BY <2>1, <2>2 DEF Outcome, Results
      <3>4. TypeOK'
        BY <1>3, <2>1, <2>2, <3>2, <3>3, MaxDepthAssumption DEF IInv, TypeOK
      <3>5. ScopeCount'
        BY <2>1, <2>2, <3>2 DEF ScopeCount
      <3>6. (DbStable /\ Atomicity /\ PanicTrack)'
        BY <1>2, <1>3, <2>1, <2>2, <3>1 DEF DbStable, Atomicity, Idle, PanicTrack
      <3>7. QED
        BY <2>1, <3>4, <3>5, <3>6 DEF IInv
    <2>3. CASE Len(frames) # 1
      <3> DEFINE n == Len(scopes)
      <3>1. n > 1
        BY <1>1, <1>2, <2>3
      <3>2. scopes' = [PopScope EXCEPT ![n - 1] = scopes[n]] /\ db' = db
        BY <1>4, <3>1 DEF ApplyCommit
      <3>3. scopes' \in Seq(Store) /\ Len(scopes') = n - 1
        BY <1>2, <3>1, <3>2, ReplaceLast
      <3>4. outcome' = outcome /\ Len(frames') = Len(frames) - 1 /\ Top'.phase = "body"
        BY <1>2, <2>1, <2>3
      <3>5. TypeOK'
        BY <1>2, <1>3, <2>1, <3>2, <3>3, <3>4, MaxDepthAssumption DEF IInv, TypeOK
      <3>6. ScopeCount'
        BY <1>2, <3>3, <3>4 DEF ScopeCount
      <3>7. (DbStable /\ Atomicity /\ PanicTrack)'
        BY <1>2, <1>3, <3>1, <3>2, <3>4 DEF DbStable, Atomicity, Idle, PanicTrack
      <3>8. QED
        BY <2>1, <3>5, <3>6, <3>7 DEF IInv
    <2>4. QED
      BY <2>2, <2>3
  <1>5. CASE /\ scopes' = PopScope
             /\ UNCHANGED db
             /\ \E e \in ErrKinds : ReturnTo(e)
    <2>1. PICK e \in ErrKinds : ReturnTo(e)
      BY <1>5
    <2>2. /\ frames' \in Seq(Frame)
          /\ StackShape'
          /\ Len(frames) = 1 => /\ Len(frames') = 0
                                 /\ outcome' = [how |-> "return", val |-> e]
          /\ Len(frames) > 1 => /\ Len(frames') = Len(frames) - 1
                                 /\ Top'.phase = "body"
                                 /\ outcome' = outcome
      BY <1>1, <2>1, ReturnToFacts
    <2>3. e \in Results /\ e # "nil"
      BY DEF ErrKinds, Results
    <2>4. outcome' \in Outcome
      BY <1>1, <1>2, <2>2, <2>3, OutcomeValues DEF IInv, TypeOK
    <2>5. scopes' \in Seq(Store) /\ Len(scopes') = Len(frames) - 1
      BY <1>2, <1>5
    <2>6. TypeOK'
      BY <1>2, <1>3, <1>5, <2>2, <2>4, <2>5, MaxDepthAssumption DEF IInv, TypeOK
    <2>7. ScopeCount'
      BY <2>2, <2>5 DEF ScopeCount
    <2>8. (DbStable /\ Atomicity /\ PanicTrack)'
      BY <1>2, <1>3, <1>5, <2>2, <2>3 DEF DbStable, Atomicity, Idle, PanicTrack
    <2>9. QED
      BY <2>2, <2>6, <2>7, <2>8 DEF IInv
  <1>6. QED
    BY <1>4, <1>5 DEF Commit

-----------------------------------------------------------------------------
(* Every step of Transaction, or a stutter, preserves the inductive       *)
(* invariant: one lemma per handler above.                                *)
LEMMA NextIInv == IInv /\ [Next]_vars => IInv'
  <1> SUFFICES ASSUME IInv, [Next]_vars PROVE IInv'
    OBVIOUS
  <1>1. CASE Call
    BY <1>1, CallIInv
  <1>2. CASE Begin
    BY <1>2, BeginIInv
  <1>3. CASE \E k \in Keys, v \in Vals \cup {NoVal} : Write(k, v)
    BY <1>3, WriteIInv
  <1>4. CASE Nest
    BY <1>4, NestIInv
  <1>5. CASE \E e \in Results : FnReturn(e)
    BY <1>5, FnReturnIInv
  <1>6. CASE \E p \in PanicVals : FnPanic(p)
    BY <1>6, FnPanicIInv
  <1>7. CASE Recover
    BY <1>7, RecoverIInv
  <1>8. CASE RollbackOnError
    BY <1>8, RollbackOnErrorIInv
  <1>9. CASE Commit
    BY <1>9, CommitIInv
  <1>10. CASE UNCHANGED vars
    BY <1>10, StutterIInv
  <1>11. QED
    BY <1>1, <1>2, <1>3, <1>4, <1>5, <1>6, <1>7, <1>8, <1>9, <1>10 DEF Next

(* The inductive invariant holds in every reachable state of Transaction. *)
THEOREM IInvInvariant == Spec => []IInv
  BY InitIInv, NextIInv, PTL DEF Spec

(* Every state of the Transaction model is well typed: stores map every *)
(* row to a value or to no value, and calls nest at most MaxDepth deep.  *)
THEOREM TypeCorrect == Spec => []TypeOK
  <1>1. IInv => TypeOK
    BY DEF IInv
  <1>2. QED
    BY <1>1, IInvInvariant, PTL

(* Transaction is all or nothing for every store, every nesting depth and *)
(* every mix of Begin, Commit and fn failures (repo.go lines 263-293).     *)
THEOREM AtomicityInvariant == Spec => []Atomicity
  <1>1. IInv => Atomicity
    BY DEF IInv
  <1>2. QED
    BY <1>1, IInvInvariant, PTL

(* A fatal panic of fn is re-raised by every enclosing Transaction and     *)
(* reaches the caller unchanged (repo.go line 280), at any depth.         *)
THEOREM PanicNotSwallowedInvariant == Spec => []PanicNotSwallowed
  <1>1. IInv => PanicNotSwallowed
    BY DEF IInv, PanicTrack, Idle, PanicNotSwallowed
  <1>2. QED
    BY <1>1, IInvInvariant, PTL

(* The frames past Begin are the whole stack, or all of it but the top.   *)
LEMMA OpenedInterval ==
  ASSUME IInv, Len(frames) > 0
  PROVE  Opened = IF Top.phase = "begin" THEN 1..(Len(frames) - 1)
                  ELSE 1..Len(frames)
  BY DEF IInv, StackShape, Opened, Top

(* Each open adapter scope belongs to exactly one Transaction frame past *)
(* Begin, whatever the depth (repo.go lines 264-290).                     *)
THEOREM ScopesMatchFramesInvariant == Spec => []ScopesMatchFrames
  <1>1. IInv => ScopesMatchFrames
    <2> SUFFICES ASSUME IInv PROVE ScopesMatchFrames
      OBVIOUS
    <2>1. Len(frames) \in Nat
      BY LenProperties DEF IInv, TypeOK
    <2>2. CASE Len(frames) = 0
      <3>1. Opened = 1..0
        BY <2>2 DEF Opened
      <3>2. QED
        BY <2>2, <3>1, FS_Interval DEF IInv, ScopeCount, ScopesMatchFrames
    <2>3. CASE Len(frames) > 0
      <3>1. Cardinality(1..(Len(frames) - 1)) = Len(frames) - 1
            /\ Cardinality(1..Len(frames)) = Len(frames)
        BY <2>1, <2>3, FS_Interval
      <3>2. QED
        BY <2>3, <3>1, OpenedInterval DEF IInv, ScopeCount, ScopesMatchFrames
    <2>4. QED
      BY <2>1, <2>2, <2>3
  <1>2. QED
    BY <1>1, IInvInvariant, PTL

-----------------------------------------------------------------------------
(* Refinement of AtomicTransaction.  A step that keeps a call running     *)
(* leaves the outcome alone; a step that ends the outermost call sets it. *)
CallEnds ==
    /\ Len(frames') > 0 => outcome' = outcome
    /\ Len(frames') = 0 => outcome'.how # "none"

(* Returning from the innermost frame ends the call or keeps it running.  *)
LEMMA ReturnToEnds ==
  ASSUME IInv, Len(frames) > 0, NEW res, ReturnTo(res)
  PROVE  CallEnds
  <1>0. \A n \in Nat : n > 0 /\ n # 1 => n > 1
    OBVIOUS
  <1>1. Len(frames) \in Nat
    BY TopFacts
  <1>2. /\ Len(frames) = 1 => /\ Len(frames') = 0
                               /\ outcome' = [how |-> "return", val |-> res]
        /\ Len(frames) > 1 => /\ Len(frames') = Len(frames) - 1
                               /\ outcome' = outcome
    BY ReturnToFacts
  <1>3. CASE Len(frames) = 1
    <2>1. Len(frames') = 0 /\ outcome'.how = "return"
      BY <1>2, <1>3
    <2>2. QED
      BY <2>1 DEF CallEnds
  <1>4. CASE Len(frames) # 1
    <2>1. Len(frames) > 1
      BY <1>0, <1>1, <1>4
    <2>2. Len(frames') > 0 /\ outcome' = outcome
      BY <1>1, <1>2, <2>1
    <2>3. QED
      BY <2>2 DEF CallEnds
  <1>5. QED
    BY <1>3, <1>4

(* Re-raising from the innermost frame ends the call or keeps it running. *)
LEMMA PanicToEnds ==
  ASSUME IInv, Len(frames) > 0, NEW p \in PanicVals, PanicTo(p)
  PROVE  CallEnds
  <1>0. \A n \in Nat : n > 0 /\ n # 1 => n > 1
    OBVIOUS
  <1>1. Len(frames) \in Nat
    BY TopFacts
  <1>2. /\ Len(frames) = 1 => /\ Len(frames') = 0
                               /\ outcome' = [how |-> "panic", val |-> p]
        /\ Len(frames) > 1 => /\ Len(frames') = Len(frames) - 1
                               /\ outcome' = outcome
    BY PanicToFacts
  <1>3. CASE Len(frames) = 1
    <2>1. Len(frames') = 0 /\ outcome'.how = "panic"
      BY <1>2, <1>3
    <2>2. QED
      BY <2>1 DEF CallEnds
  <1>4. CASE Len(frames) # 1
    <2>1. Len(frames) > 1
      BY <1>0, <1>1, <1>4
    <2>2. Len(frames') > 0 /\ outcome' = outcome
      BY <1>1, <1>2, <2>1
    <2>3. QED
      BY <2>2 DEF CallEnds
  <1>5. QED
    BY <1>3, <1>4

(* Replacing the innermost frame keeps the call running, outcome unset.   *)
LEMMA SetTopEnds ==
  ASSUME IInv, Len(frames) > 0, NEW f \in Frame, frames' = SetTop(f),
         outcome' = outcome
  PROVE  CallEnds
  BY SetTopFacts DEF CallEnds

(* Every step taken while a call runs keeps db0, and ends the call only    *)
(* by handing it an outcome.                                               *)
LEMMA StepEnds ==
  ASSUME IInv, Next, Len(frames) > 0
  PROVE  db0' = db0 /\ CallEnds
  <1>1. Top \in Frame /\ Len(frames) \in Nat
    BY TopFacts
  <1>2. CASE Call
    BY <1>2 DEF Call
  <1>3. CASE Begin
    <2>1. [Top EXCEPT !.phase = "body"] \in Frame
      BY <1>1 DEF Frame
    <2>2. CASE frames' = SetTop([Top EXCEPT !.phase = "body"]) /\ UNCHANGED outcome
      BY <1>3, <2>1, <2>2, SetTopEnds DEF Begin
    <2>3. CASE \E e \in ErrKinds : ReturnTo(e)
      BY <1>3, <2>3, ReturnToEnds DEF Begin
    <2>4. QED
      BY <1>3, <2>2, <2>3 DEF Begin
  <1>4. CASE \E k \in Keys, v \in Vals \cup {NoVal} : Write(k, v)
    BY <1>4 DEF Write, CallEnds
  <1>5. CASE Nest
    <2>1. frames \in Seq(Frame)
      BY DEF IInv, TypeOK
    <2>2. Len(frames') = Len(frames) + 1
      BY <1>5, <2>1, AppendProperties DEF Nest, NewFrame
    <2>3. QED
      BY <1>1, <1>5, <2>2 DEF Nest, CallEnds
  <1>6. CASE \E e \in Results : FnReturn(e)
    <2>1. PICK e \in Results : FnReturn(e)
      BY <1>6
    <2>2. [Top EXCEPT !.phase = "deferred", !.err = e] \in Frame
      BY <1>1 DEF Frame
    <2>3. QED
      BY <2>1, <2>2, SetTopEnds DEF FnReturn
  <1>7. CASE \E p \in PanicVals : FnPanic(p)
    <2>1. PICK p \in PanicVals : FnPanic(p)
      BY <1>7
    <2>2. [Top EXCEPT !.phase = "deferred", !.panic = p] \in Frame
      BY <1>1 DEF Frame
    <2>3. QED
      BY <2>1, <2>2, SetTopEnds DEF FnPanic
  <1>8. CASE Recover
    <2>1. Top.panic \in PanicVals
      BY <1>1, <1>8 DEF Recover, Frame
    <2>2. CASE Top.panic \in Recognized
      BY <1>8, <2>2, ReturnToEnds DEF Recover
    <2>3. CASE Top.panic \notin Recognized
      BY <1>8, <2>1, <2>3, PanicToEnds DEF Recover
    <2>4. QED
      BY <2>2, <2>3
  <1>9. CASE RollbackOnError
    BY <1>9, ReturnToEnds DEF RollbackOnError
  <1>10. CASE Commit
    BY <1>10, ReturnToEnds DEF Commit
  <1>11. QED
    BY <1>2, <1>3, <1>4, <1>5, <1>6, <1>7, <1>8, <1>9, <1>10 DEF Next

(* An outcome that is set and is not nil is one of the abstract failures. *)
LEMMA OutcomeFailures ==
  ASSUME NEW o \in Outcome, o.how # "none", o # [how |-> "return", val |-> "nil"]
  PROVE  o \in AT!Failures
  BY DEF Outcome, Results, AT!Failures

(* Transaction implements AtomicTransaction for every store and every     *)
(* nesting bound: a call is one unit to its caller, and the store changes *)
(* only when an outermost call returns nil (repo.go lines 263-293).       *)
THEOREM Refinement == Spec => ImplementsAtomic
  <1>1. Init => AT!Init
    BY DEF Init, AT!Init, AT!Store, Store
  <1>2. IInv /\ IInv' /\ [Next]_vars
          => [AT!Start \/ AT!Finish]_<<db, Len(frames) > 0, outcome>>
    <2> SUFFICES ASSUME IInv, IInv', [Next]_vars
                 PROVE  [AT!Start \/ AT!Finish]_<<db, Len(frames) > 0, outcome>>
      OBVIOUS
    <2>1. CASE UNCHANGED vars
      BY <2>1 DEF vars
    <2>2. CASE Next /\ Len(frames) = 0
      <3>1. Call
        BY <2>2 DEF Next, Begin, Write, Nest, FnReturn, FnPanic, Recover,
                    RollbackOnError, Commit
      <3>2. Len(frames') = 1 /\ UNCHANGED <<db, outcome>>
        BY <3>1 DEF Call
      <3>3. QED
        BY <2>2, <3>2 DEF AT!Start
    <2>3. CASE Next /\ Len(frames) > 0
      <3>1. db0' = db0 /\ CallEnds
        BY <2>3, StepEnds
      <3>2. db = db0
        BY <2>3 DEF IInv, DbStable
      <3>3. CASE Len(frames') > 0
        <4>1. db' = db0' /\ outcome' = outcome
          BY <3>1, <3>3 DEF IInv, DbStable, CallEnds
        <4>2. QED
          BY <2>3, <3>1, <3>2, <3>3, <4>1
      <3>4. CASE Len(frames') = 0
        <4>1. outcome'.how # "none" /\ outcome' \in Outcome /\ db' \in Store
          BY <3>1, <3>4 DEF CallEnds, IInv, TypeOK
        <4>2. Atomicity'
          BY DEF IInv
        <4>3. CASE outcome' = [how |-> "return", val |-> "nil"]
          BY <2>3, <3>4, <4>1, <4>3 DEF AT!Finish, AT!Ok, AT!Store, Store
        <4>4. CASE outcome' # [how |-> "return", val |-> "nil"]
          <5>1. db' = db
            BY <3>1, <3>2, <3>4, <4>1, <4>2, <4>4 DEF Atomicity, Idle
          <5>2. outcome' \in AT!Failures
            BY <4>1, <4>4, OutcomeFailures
          <5>3. QED
            BY <2>3, <3>4, <5>1, <5>2 DEF AT!Finish
        <4>5. QED
          BY <4>3, <4>4
      <3>5. Len(frames') \in Nat
        BY LenProperties DEF IInv, TypeOK
      <3>6. QED
        BY <3>3, <3>4, <3>5
    <2>4. QED
      BY <2>1, <2>2, <2>3, LenProperties DEF IInv, TypeOK
  <1>3. QED
    BY <1>1, <1>2, IInvInvariant, PTL DEF Spec, ImplementsAtomic, AT!Spec

=============================================================================

------------------------ MODULE ValueTransitProofs ------------------------
(***************************************************************************)
(* Proofs about ValueTransit, for every depth cap, and however many        *)
(* documents and items.                                                    *)
(***************************************************************************)
EXTENDS ValueTransit, TLAPS

(* Closing or dropping the innermost container: what is left of the stack. *)
LEMMA OuterStack ==
  ASSUME stack \in Seq(Container), stack # <<>>
  PROVE  /\ Outer \in Seq(Container)
         /\ Len(Outer) = Len(stack) - 1
         /\ Len(stack) \in Nat /\ Len(stack) > 0
         /\ Outer # <<>> <=> Len(stack) > 1
<1>1. Len(stack) \in Nat /\ Len(stack) > 0
  OBVIOUS
<1>2. ASSUME NEW n \in Nat, n = Len(stack) - 1
      PROVE  SubSeq(stack, 1, n) \in Seq(Container) /\ Len(SubSeq(stack, 1, n)) = n
  <2>1. 0 <= n /\ n <= Len(stack)
    BY <1>1, <1>2
  <2>2. SubSeq(stack, 1, n) \in Seq(Container)
    BY <2>1
  <2>3. Len(SubSeq(stack, 1, n)) = n
    BY <2>1
  <2> QED
    BY <2>2, <2>3
<1>3. Len(stack) - 1 \in Nat
  BY <1>1
<1>4. Outer \in Seq(Container) /\ Len(Outer) = Len(stack) - 1
  BY <1>2, <1>3, Zenon DEF Outer
<1> QED
  BY <1>1, <1>4

(* The inductive invariant holds at the start ...                          *)
LEMMA Initially == Init => IInv
  BY CallsAssumption, CapAssumption
  DEF Init, IInv, TypeOK, Accounted, ShapeOK, Step, InC, Container

(* ... and every step of an encoder preserves it.                          *)
LEMMA Inductively == IInv /\ [Next]_vars => IInv'
<1> SUFFICES ASSUME IInv, [Next]_vars PROVE IInv'
  OBVIOUS
<1> USE CallsAssumption, CapAssumption, BoundAssumption DEF IInv
<1>0. Len(stack) \in Nat
  BY DEF TypeOK
<1>1. ASSUME NEW c \in Calls, NEW n \in 0..MaxDocs, Begin(c, n) PROVE IInv'
  BY <1>1 DEF Begin, TypeOK, Accounted, ShapeOK, Step, InC, Container
<1>2. ASSUME NEW v \in {"null", "scalar"}, EncodeLeaf(v) PROVE IInv'
  <2>1. CASE stack # <<>>
    BY <1>0, <1>2, <2>1
    DEF EncodeLeaf, Completed, Reach, TooDeep, Level, TypeOK, Accounted, ShapeOK, Step, InC
  <2>2. CASE stack = <<>>
    BY <1>0, <1>2, <2>2
    DEF EncodeLeaf, Completed, Reach, TooDeep, Level, TypeOK, Accounted, ShapeOK, Step, InC
  <2> QED BY <2>1, <2>2
<1>3. ASSUME NEW k \in Container, Open(k) PROVE IInv'
  <2>1. /\ stack' \in Seq(Container) /\ stack' # <<>>
        /\ Len(stack') = Len(stack) + 1
    BY <1>3 DEF Open, TypeOK
  <2>2. k # "null" /\ Len(stack) <= Cap
    BY <1>0, <1>3 DEF Open, TooDeep, Level, Container
  <2>3. deep' = [deep EXCEPT !.other = IF Len(stack) > @ THEN Len(stack) ELSE @]
    BY <1>3, <2>2 DEF Open, Reach, Level
  <2>4. deep' \in [null : Nat, other : Nat] /\ deep'.other <= Cap
    BY <1>0, <2>2, <2>3 DEF TypeOK, ShapeOK
  <2>5. TypeOK'
    BY <1>3, <2>1, <2>4 DEF Open, TypeOK, Step
  <2>6. Accounted'
    BY <1>0, <1>3, <2>1 DEF Open, TypeOK, Accounted, InC
  <2>7. ShapeOK'
    BY <1>0, <1>3, <2>1, <2>2, <2>4 DEF Open, TypeOK, ShapeOK, InC
  <2> QED
    BY <2>5, <2>6, <2>7
<1>4. ASSUME NEW v, Reject(v) PROVE IInv'
  BY <1>0, <1>4 DEF Reject, TypeOK, Accounted, ShapeOK, Step, InC
<1>5. CASE NextItem
  BY <1>0, <1>5 DEF NextItem, TypeOK, Accounted, ShapeOK, Step, InC
<1>6. CASE BadKey
  BY <1>0, <1>6, OuterStack DEF BadKey, TypeOK, Accounted, ShapeOK, Step, InC
<1>7. CASE IterationFails
  BY <1>0, <1>7 DEF IterationFails, TypeOK, Accounted, ShapeOK, Step, InC
<1>8. CASE Push
  BY <1>0, <1>8 DEF Push, TypeOK, Accounted, ShapeOK, Step, InC
<1>9. CASE PushFails
  BY <1>0, <1>9 DEF PushFails, TypeOK, Accounted, ShapeOK, Step, InC
<1>10. CASE Close
  <2>1. stack # <<>> /\ todo > 0
    BY <1>10 DEF Close, ShapeOK
  <2>2. CASE Outer # <<>>
    BY <1>0, <1>10, <2>1, <2>2, OuterStack
    DEF Close, Completed, TypeOK, Accounted, ShapeOK, Step, InC
  <2>3. CASE Outer = <<>>
    BY <1>0, <1>10, <2>1, <2>3, OuterStack
    DEF Close, Completed, TypeOK, Accounted, ShapeOK, Step, InC
  <2> QED BY <2>2, <2>3
<1>11. CASE Unwind
  <2>1. CASE stack # <<>>
    BY <1>0, <1>11, <2>1, OuterStack DEF Unwind, TypeOK, Accounted, ShapeOK, Step, InC
  <2>2. CASE stack = <<>>
    BY <1>0, <1>11, <2>2 DEF Unwind, TypeOK, Accounted, ShapeOK, Step, InC
  <2> QED BY <2>1, <2>2
<1>12. CASE EngineCall
  BY <1>0, <1>12 DEF EngineCall, TypeOK, Accounted, ShapeOK, Step, InC
<1>13. CASE Free
  BY <1>0, <1>13 DEF Free, TypeOK, Accounted, ShapeOK, Step, InC
<1>14. CASE UNCHANGED vars
  BY <1>14 DEF vars, TypeOK, Accounted, ShapeOK, Step, InC
<1> QED
  BY <1>1, <1>2, <1>3, <1>4, <1>5, <1>6, <1>7, <1>8, <1>9, <1>10, <1>11, <1>12,
     <1>13, <1>14 DEF Next

(* The inductive invariant, in every reachable state.                      *)
THEOREM Inductive == Spec => []IInv
  BY Initially, Inductively, PTL DEF Spec

(* The types; in particular no tree is freed, or pushed, that is not there *)
(* (any more), on any path out of either encoder.                          *)
THEOREM TypeCorrect == Spec => []TypeOK
  BY Inductive, PTL DEF IInv

(* Neither encoder passes a document on that the engine cannot decode for  *)
(* its depth, nulls aside.                                                 *)
THEOREM AcceptedStaysDecodable == Spec => []AcceptedIsDecodable
<1>1. IInv => AcceptedIsDecodable
  BY DEF IInv, ShapeOK, AcceptedIsDecodable
<1> QED
  BY <1>1, Inductive, PTL

(* What exists when the engine is called is what it is called with, in     *)
(* both encoders.                                                          *)
THEOREM EngineGetsAll == Spec => []DocumentsAreAll
<1>1. IInv => DocumentsAreAll
  BY DEF IInv, TypeOK, ShapeOK, Accounted, DocumentsAreAll
<1> QED
  BY <1>1, Inductive, PTL

(* Whatever fails, a native method that encodes documents has freed every  *)
(* tree of theirs when it returns.                                         *)
THEOREM NothingIsLeftByC == Spec => []NothingLeftByC
<1>1. IInv => NothingLeftByC
  BY DEF IInv, TypeOK, ShapeOK, Accounted, InC, NothingLeftByC
<1> QED
  BY <1>1, Inductive, PTL
=============================================================================

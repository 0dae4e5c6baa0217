--------------------------- MODULE MarshalProofs ---------------------------
(***************************************************************************)
(* Proofs about Marshal, for arrays of every length, and with or without   *)
(* failures.  The methods enter by the few facts that are stated first;    *)
(* every step then shows one conjunct of the inductive invariant at a      *)
(* time.                                                                   *)
(***************************************************************************)
EXTENDS Marshal, TLAPS

(* What a method may need.  Two lanes are the names of nLoadWithRenames;   *)
(* lists that may hold nulls have one.                                     *)
LEMMA NeedsFacts ==
  ASSUME NEW x \in Method
  PROVE  /\ Needs[x].copies \in 0..3 /\ Needs[x].tables \in 0..4
         /\ Needs[x].pins \in 0..3 /\ Needs[x].lanes \in 0..2
         /\ Needs[x].lanes = 2 => x = "nLoadWithRenames"
         /\ x = "nPredIn" => Needs[x].copies = 0 /\ Needs[x].lanes = 1
         /\ x = "nPutMany" => Needs[x].copies = 0
BY DEF Method, Needs, Need, OneArgument, TwoArguments, ThreeArguments, FieldAndVector,
       Names, Pairs, Definitions, Values, Renames

(* What a method holds is resources, and the path of nPredIn is none of    *)
(* those it asked for before.                                              *)
LEMMA ResourceFacts ==
  ASSUME TypeOK
  PROVE  /\ Copies \subseteq Kinds \X (1..4)
         /\ Tables \subseteq Kinds \X (1..4)
         /\ Pins \subseteq Kinds \X (1..4)
         /\ <<"copy", 1>> \in Kinds \X (1..4)
         /\ m = "nPredIn" => <<"copy", 1>> \notin Copies \cup Tables \cup Pins
         /\ m = "nPutMany" => Copies = {}
<1>1. m \in Method
  BY DEF TypeOK
<1>2. /\ Needs[m].copies \in 0..3 /\ Needs[m].tables \in 0..4 /\ Needs[m].pins \in 0..3
      /\ m \in {"nPredIn", "nPutMany"} => Needs[m].copies = 0
  BY <1>1, NeedsFacts
<1>3. \A kind \in Kinds, n \in 0..4 : Of(kind, n) \subseteq Kinds \X (1..4)
  BY DEF Of
<1>4. Copies \subseteq Kinds \X (1..4) /\ Tables \subseteq Kinds \X (1..4)
  BY <1>2, <1>3 DEF Copies, Tables, Kinds
<1>5. Pins \subseteq Kinds \X (1..4)
  <2>1. (IF m = "nQueryVector" /\ count = 0 THEN 0 ELSE Needs[m].pins) \in 0..4
    BY <1>2
  <2> QED
    BY <1>3, <2>1 DEF Pins, Kinds
<1>6. ASSUME m = "nPredIn" PROVE <<"copy", 1>> \notin Copies \cup Tables \cup Pins
  <2>1. <<"copy", 1>> \notin Copies
    BY <1>2, <1>6 DEF Copies, Of
  <2>2. <<"copy", 1>> \notin Tables /\ <<"copy", 1>> \notin Pins
    BY DEF Tables, Pins, Of
  <2> QED
    BY <2>1, <2>2
<1>7. m = "nPutMany" => Copies = {}
  BY <1>2 DEF Copies, Of
<1> QED
  BY <1>4, <1>5, <1>6, <1>7 DEF Kinds

(* The elements a loop counts are cells of the tables. *)
LEMMA LaneFacts ==
  ASSUME TypeOK
  PROVE  /\ Lanes \subseteq 1..2 /\ Elements \in 0..MaxCount /\ done \in Nat
         /\ 2 \in Lanes => 1 \in Lanes /\ m = "nLoadWithRenames"
         /\ m = "nPredIn" => 2 \notin Lanes
         /\ \A l \in Lanes, i \in 1..done : <<l, i>> \in Cells
<1> USE CountAssumption
<1>1. m \in Method
  BY DEF TypeOK
<1>2. /\ Needs[m].lanes \in 0..2
      /\ Needs[m].lanes = 2 => m = "nLoadWithRenames"
      /\ m = "nPredIn" => Needs[m].lanes = 1
  BY <1>1, NeedsFacts
<1>3. Lanes \subseteq 1..2 /\ (2 \in Lanes => 1 \in Lanes /\ Needs[m].lanes = 2)
  BY <1>2 DEF Lanes
<1>4. Elements \in 0..MaxCount
  BY DEF Elements, TypeOK
<1>5. done \in Nat /\ done <= MaxCount
  BY <1>4 DEF TypeOK
<1>6. ASSUME NEW l \in Lanes, NEW i \in 1..done PROVE <<l, i>> \in Cells
  <2>1. l \in 1..2 /\ i \in 1..MaxCount
    BY <1>3, <1>5
  <2> QED
    BY <2>1 DEF Cells
<1> QED
  BY <1>2, <1>3, <1>4, <1>5, <1>6

(* A method's needs do not change while it runs. *)
LEMMA SameMethod ==
  ASSUME UNCHANGED <<m, count>>
  PROVE  UNCHANGED <<Copies, Tables, Pins, Lanes, Elements, MayBeNull>>
BY DEF Copies, Tables, Pins, Lanes, Elements, MayBeNull

LEMMA Initially == Init => IInv
<1> SUFFICES ASSUME Init PROVE IInv
  OBVIOUS
<1>1. 0 \in 0..Elements
  BY DEF Init, Elements
<1>2. TypeOK
  <2>1. cell \in [Cells -> Pointer]
    BY DEF Init, Unset, Pointer
  <2>2. count \in 0..MaxCount /\ done \in 0..Elements
    BY <1>1, CountAssumption DEF Init
  <2> QED
    BY <2>1, <2>2 DEF Init, TypeOK
<1>3. HeldOK /\ CellsOK /\ PendOK
  BY DEF Init, HeldOK, CellsOK, PendOK, Unset
<1> QED
  BY <1>2, <1>3 DEF IInv

(* A call begins with nothing. *)
LEMMA CallStep ==
  ASSUME IInv, NEW x \in Method, NEW n \in 0..MaxCount, Call(x, n)
  PROVE  IInv'
<1> USE CountAssumption
<1>1. TypeOK'
  <2>1. 0 \in 0..Elements'
    BY DEF Call, Elements
  <2> QED
    BY <2>1 DEF IInv, TypeOK, Call, Unset, Pointer
<1>2. HeldOK'
  BY DEF IInv, Call, HeldOK
<1>3. CellsOK' /\ PendOK'
  BY DEF Call, CellsOK, PendOK, Unset
<1> QED
  BY <1>1, <1>2, <1>3 DEF IInv

LEMMA Inductively == IInv /\ [Next]_vars => IInv'
<1> SUFFICES ASSUME IInv, [Next]_vars PROVE IInv'
  OBVIOUS
<1>a. TypeOK /\ HeldOK /\ CellsOK /\ PendOK
  BY DEF IInv
<1>1. ASSUME Mismatch PROVE IInv'
  <2>0. UNCHANGED <<Copies, Tables, Pins, Lanes, Elements, MayBeNull>>
    BY <1>1, SameMethod DEF Mismatch
  <2>1. TypeOK'
    BY <1>a, <1>1, <2>0, ResourceFacts, LaneFacts, ThrowsAssumption DEF Mismatch, TypeOK, Pointer
  <2>2. HeldOK'
    BY <1>a, <1>1, <2>0, ResourceFacts DEF Mismatch, HeldOK
  <2>3. CellsOK'
    BY <1>a, <1>1, <2>0, LaneFacts DEF Mismatch, CellsOK, TypeOK, PendOK, HalfPair, LastPairFailed, Cells
  <2>4. PendOK'
    BY <1>a, <1>1, <2>0, LaneFacts, ResourceFacts, ThrowsAssumption
       DEF Mismatch, PendOK, HalfPair, LastPairFailed, HeldOK, TypeOK
  <2> QED
    BY <2>1, <2>2, <2>3, <2>4 DEF IInv
<1>2. ASSUME Copy PROVE IInv'
  <2>0. UNCHANGED <<Copies, Tables, Pins, Lanes, Elements, MayBeNull>>
    BY <1>2, SameMethod DEF Copy
  <2>1. TypeOK'
    BY <1>a, <1>2, <2>0, ResourceFacts, LaneFacts, ThrowsAssumption DEF Copy, TypeOK, Pointer
  <2>2. HeldOK'
    BY <1>a, <1>2, <2>0, ResourceFacts DEF Copy, HeldOK
  <2>3. CellsOK'
    BY <1>a, <1>2, <2>0, LaneFacts DEF Copy, CellsOK, TypeOK, PendOK, HalfPair, LastPairFailed, Cells
  <2>4. PendOK'
    BY <1>a, <1>2, <2>0, LaneFacts, ResourceFacts, ThrowsAssumption
       DEF Copy, PendOK, HalfPair, LastPairFailed, HeldOK, TypeOK
  <2> QED
    BY <2>1, <2>2, <2>3, <2>4 DEF IInv
<1>3. ASSUME CopyFails PROVE IInv'
  <2>0. UNCHANGED <<Copies, Tables, Pins, Lanes, Elements, MayBeNull>>
    BY <1>3, SameMethod DEF CopyFails
  <2>1. TypeOK'
    BY <1>a, <1>3, <2>0, ResourceFacts, LaneFacts, ThrowsAssumption DEF CopyFails, Fail, GiveBack, TypeOK, Pointer
  <2>2. HeldOK'
    BY <1>a, <1>3, <2>0, ResourceFacts DEF CopyFails, Fail, GiveBack, HeldOK
  <2>3. CellsOK'
    BY <1>a, <1>3, <2>0, LaneFacts DEF CopyFails, Fail, GiveBack, CellsOK, TypeOK, PendOK, HalfPair, LastPairFailed, Cells
  <2>4. PendOK'
    BY <1>a, <1>3, <2>0, LaneFacts, ResourceFacts, ThrowsAssumption
       DEF CopyFails, Fail, GiveBack, PendOK, HalfPair, LastPairFailed, HeldOK, TypeOK
  <2> QED
    BY <2>1, <2>2, <2>3, <2>4 DEF IInv
<1>4. ASSUME Allocate PROVE IInv'
  <2>0. UNCHANGED <<Copies, Tables, Pins, Lanes, Elements, MayBeNull>>
    BY <1>4, SameMethod DEF Allocate
  <2>1. TypeOK'
    BY <1>a, <1>4, <2>0, ResourceFacts, LaneFacts, ThrowsAssumption DEF Allocate, Fail, TypeOK, Pointer
  <2>2. HeldOK'
    BY <1>a, <1>4, <2>0, ResourceFacts DEF Allocate, Fail, HeldOK
  <2>3. CellsOK'
    BY <1>a, <1>4, <2>0, LaneFacts DEF Allocate, Fail, CellsOK, TypeOK, PendOK, HalfPair, LastPairFailed, Cells
  <2>4. PendOK'
    BY <1>a, <1>4, <2>0, LaneFacts, ResourceFacts, ThrowsAssumption
       DEF Allocate, Fail, PendOK, HalfPair, LastPairFailed, HeldOK, TypeOK
  <2> QED
    BY <2>1, <2>2, <2>3, <2>4 DEF IInv
<1>5. ASSUME Pin PROVE IInv'
  <2>0. UNCHANGED <<Copies, Tables, Pins, Lanes, Elements, MayBeNull>>
    BY <1>5, SameMethod DEF Pin
  <2>1. TypeOK'
    BY <1>a, <1>5, <2>0, ResourceFacts, LaneFacts, ThrowsAssumption DEF Pin, Fail, TypeOK, Pointer
  <2>2. HeldOK'
    BY <1>a, <1>5, <2>0, ResourceFacts DEF Pin, Fail, HeldOK
  <2>3. CellsOK'
    BY <1>a, <1>5, <2>0, LaneFacts DEF Pin, Fail, CellsOK, TypeOK, PendOK, HalfPair, LastPairFailed, Cells
  <2>4. PendOK'
    BY <1>a, <1>5, <2>0, LaneFacts, ResourceFacts, ThrowsAssumption
       DEF Pin, Fail, PendOK, HalfPair, LastPairFailed, HeldOK, TypeOK
  <2> QED
    BY <2>1, <2>2, <2>3, <2>4 DEF IInv
<1>6. ASSUME Element PROVE IInv'
  <2>0. UNCHANGED <<Copies, Tables, Pins, Lanes, Elements, MayBeNull>>
    BY <1>6, SameMethod DEF Element
  <2>1. TypeOK'
    BY <1>a, <1>6, <2>0, ResourceFacts, LaneFacts, ThrowsAssumption DEF Element, TypeOK, Pointer
  <2>2. HeldOK'
    BY <1>a, <1>6, <2>0, ResourceFacts DEF Element, HeldOK
  <2>3. CellsOK'
    BY <1>a, <1>6, <2>0, LaneFacts DEF Element, CellsOK, TypeOK, PendOK, HalfPair, LastPairFailed, Cells
  <2>4. PendOK'
    BY <1>a, <1>6, <2>0, LaneFacts, ResourceFacts, ThrowsAssumption
       DEF Element, PendOK, HalfPair, LastPairFailed, HeldOK, TypeOK
  <2> QED
    BY <2>1, <2>2, <2>3, <2>4 DEF IInv
<1>7. ASSUME NEW l \in 1..2, ElementFails(l) PROVE IInv'
  <2>0. UNCHANGED <<Copies, Tables, Pins, Lanes, Elements, MayBeNull>>
    BY <1>7, SameMethod DEF ElementFails
  <2>1. TypeOK'
    BY <1>a, <1>7, <2>0, ResourceFacts, LaneFacts, ThrowsAssumption DEF ElementFails, Fail, TypeOK, Pointer
  <2>2. HeldOK'
    BY <1>a, <1>7, <2>0, ResourceFacts DEF ElementFails, Fail, HeldOK
  <2>3. CellsOK'
    <3> SUFFICES ASSUME NEW c \in Cells
                 PROVE  IF c[1] \in Lanes /\ c[2] <= done'
                          THEN \/ cell'[c] = "copy"
                               \/ cell'[c] = "static" /\ MayBeNull
                               \/ c[1] = 2 /\ HalfPair(c[2])'
                          ELSE cell'[c] = "unset"
      BY <1>7, <2>0 DEF CellsOK, ElementFails
    <3>1. /\ c[1] \in 1..2 /\ c[2] \in Nat /\ done \in Nat
          /\ cell'[c] = IF c[1] < l /\ c[2] = done + 1 THEN "copy" ELSE cell[c]
      BY <1>a, <1>7, LaneFacts, CountAssumption DEF Cells, ElementFails
    <3>2. IF c[1] \in Lanes /\ c[2] <= done
            THEN cell[c] = "copy" \/ (cell[c] = "static" /\ MayBeNull)
            ELSE cell[c] = "unset"
      BY <1>a, <1>7 DEF ElementFails, CellsOK, PendOK, HalfPair, LastPairFailed
    <3>3. CASE l = 1
      BY <1>7, <3>1, <3>2, <3>3 DEF ElementFails
    <3>4. CASE l = 2
      <4>1. done' = done + 1 /\ m' = "nLoadWithRenames" /\ pend' /\ 1 \in Lanes
        BY <1>a, <1>7, <3>4, LaneFacts DEF ElementFails, Fail
      <4>2. CASE c[1] = 2 /\ c[2] = done + 1
        <5>1. c = <<2, done + 1>> /\ <<1, done + 1>> \in Cells
          BY <3>1, <4>2 DEF Cells
        <5>2. cell'[<<1, done + 1>>] = "copy"
          BY <1>7, <3>1, <3>4, <5>1 DEF ElementFails
        <5>3. cell'[<<2, done + 1>>] = "unset"
          BY <3>1, <3>2, <4>2, <5>1, <3>4
        <5>4. HalfPair(c[2])'
          BY <4>1, <4>2, <5>2, <5>3 DEF HalfPair
        <5>5. cell'[c] = "unset"
          BY <5>1, <5>3
        <5> QED
          BY <4>2, <5>4, <5>5
      <4>3. CASE ~(c[1] = 2 /\ c[2] = done + 1)
        BY <3>1, <3>2, <3>4, <4>1, <4>3
      <4> QED
        BY <4>2, <4>3
    <3> QED
      BY <3>3, <3>4
  <2>4. PendOK'
    BY <1>a, <1>7, <2>0, LaneFacts, ResourceFacts, ThrowsAssumption
       DEF ElementFails, Fail, PendOK, HalfPair, LastPairFailed, HeldOK, TypeOK
  <2> QED
    BY <2>1, <2>2, <2>3, <2>4 DEF IInv
<1>8. ASSUME LoopEnds PROVE IInv'
  <2>0. UNCHANGED <<Copies, Tables, Pins, Lanes, Elements, MayBeNull>>
    BY <1>8, SameMethod DEF LoopEnds
  <2>1. TypeOK'
    BY <1>a, <1>8, <2>0, ResourceFacts, LaneFacts, ThrowsAssumption DEF LoopEnds, TypeOK, Pointer
  <2>2. HeldOK'
    BY <1>a, <1>8, <2>0, ResourceFacts DEF LoopEnds, HeldOK
  <2>3. CellsOK'
    BY <1>a, <1>8, <2>0, LaneFacts DEF LoopEnds, CellsOK, TypeOK, PendOK, HalfPair, LastPairFailed, Cells
  <2>4. PendOK'
    BY <1>a, <1>8, <2>0, LaneFacts, ResourceFacts, ThrowsAssumption
       DEF LoopEnds, PendOK, HalfPair, LastPairFailed, HeldOK, TypeOK
  <2> QED
    BY <2>1, <2>2, <2>3, <2>4 DEF IInv
<1>9. ASSUME Path PROVE IInv'
  <2>0. UNCHANGED <<Copies, Tables, Pins, Lanes, Elements, MayBeNull>>
    BY <1>9, SameMethod DEF Path
  <2>1. TypeOK'
    BY <1>a, <1>9, <2>0, ResourceFacts, LaneFacts, ThrowsAssumption DEF Path, Fail, TypeOK, Pointer
  <2>2. HeldOK'
    BY <1>a, <1>9, <2>0, ResourceFacts DEF Path, Fail, HeldOK
  <2>3. CellsOK'
    BY <1>a, <1>9, <2>0, LaneFacts DEF Path, Fail, CellsOK, TypeOK, PendOK, HalfPair, LastPairFailed, Cells
  <2>4. PendOK'
    BY <1>a, <1>9, <2>0, LaneFacts, ResourceFacts, ThrowsAssumption
       DEF Path, Fail, PendOK, HalfPair, LastPairFailed, HeldOK, TypeOK
  <2> QED
    BY <2>1, <2>2, <2>3, <2>4 DEF IInv
<1>10. ASSUME EngineCall PROVE IInv'
  <2>0. UNCHANGED <<Copies, Tables, Pins, Lanes, Elements, MayBeNull>>
    BY <1>10, SameMethod DEF EngineCall
  <2>1. TypeOK'
    BY <1>a, <1>10, <2>0, ResourceFacts, LaneFacts, ThrowsAssumption DEF EngineCall, TypeOK, Pointer
  <2>2. HeldOK'
    BY <1>a, <1>10, <2>0, ResourceFacts DEF EngineCall, HeldOK
  <2>3. CellsOK'
    BY <1>a, <1>10, <2>0, LaneFacts DEF EngineCall, CellsOK, TypeOK, PendOK, HalfPair, LastPairFailed, Cells
  <2>4. PendOK'
    BY <1>a, <1>10, <2>0, LaneFacts, ResourceFacts, ThrowsAssumption
       DEF EngineCall, PendOK, HalfPair, LastPairFailed, HeldOK, TypeOK
  <2> QED
    BY <2>1, <2>2, <2>3, <2>4 DEF IInv
<1>11. ASSUME Release PROVE IInv'
  <2>0. UNCHANGED <<Copies, Tables, Pins, Lanes, Elements, MayBeNull>>
    BY <1>11, SameMethod DEF Release
  <2>1. TypeOK'
    BY <1>a, <1>11, <2>0, ResourceFacts, LaneFacts, ThrowsAssumption DEF Release, GiveBack, TypeOK, Pointer
  <2>2. HeldOK'
    BY <1>a, <1>11, <2>0, ResourceFacts DEF Release, GiveBack, HeldOK
  <2>3. CellsOK'
    BY <1>a, <1>11, <2>0, LaneFacts DEF Release, GiveBack, CellsOK, TypeOK, PendOK, HalfPair, LastPairFailed, Cells
  <2>4. PendOK'
    BY <1>a, <1>11, <2>0, LaneFacts, ResourceFacts, ThrowsAssumption
       DEF Release, GiveBack, PendOK, HalfPair, LastPairFailed, HeldOK, TypeOK
  <2> QED
    BY <2>1, <2>2, <2>3, <2>4 DEF IInv
<1>12. CASE UNCHANGED vars
  BY <1>a, <1>12, SameMethod DEF vars, IInv, TypeOK, HeldOK, CellsOK, PendOK, HalfPair, LastPairFailed
<1> QED
  BY <1>1, <1>2, <1>3, <1>4, <1>5, <1>6, <1>7, <1>8, <1>9, <1>10, <1>11, <1>12, CallStep DEF Next

(* The inductive invariant holds of every behaviour. *)
THEOREM Inductive == Spec => []IInv
BY Initially, Inductively, PTL DEF Spec

(* Every variable stays in its type, however long the arrays are. *)
THEOREM TypeCorrect == Spec => []TypeOK
<1>1. IInv => TypeOK
  BY DEF IInv
<1> QED
  BY <1>1, Inductive, PTL

(* The last exit of a method frees copies that the method made, but for    *)
(* the nulls of a client's list, and the one new name not copied.          *)
THEOREM FreesAreOwn == Spec => []FreesOwnCopies
<1>1. IInv => FreesOwnCopies
  <2> SUFFICES ASSUME IInv, pc = "release", NEW l \in Lanes, NEW i \in 1..done
               PROVE  \/ cell[<<l, i>>] = "copy"
                      \/ cell[<<l, i>>] = "static" /\ MayBeNull
                      \/ l = 2 /\ HalfPair(i)
    BY DEF FreesOwnCopies
  <2>1. <<l, i>> \in Cells /\ i <= done
    BY LaneFacts DEF IInv
  <2> QED
    BY <2>1 DEF IInv, CellsOK
<1> QED
  BY <1>1, Inductive, PTL

(* A method returns with nothing left of what it copied, allocated and     *)
(* pinned, whatever failed and in whatever element.                        *)
THEOREM ReturnsWithNothing == Spec => []NothingLeft
<1>1. IInv => NothingLeft
  BY DEF IInv, HeldOK, CellsOK, NothingLeft
<1> QED
  BY <1>1, Inductive, PTL

(* A call reaches the engine with all of its arguments, or returns with    *)
(* an exception pending; both, in the one case of the last new name.       *)
THEOREM AllOrException == Spec => []EngineOrException
<1>1. IInv => EngineOrException
  BY DEF IInv, PendOK, EngineOrException
<1> QED
  BY <1>1, Inductive, PTL
=============================================================================

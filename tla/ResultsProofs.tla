--------------------------- MODULE ResultsProofs ---------------------------
(***************************************************************************)
(* Proofs about Results, for documents of every size and depth.            *)
(***************************************************************************)
EXTENDS Results, FiniteSetTheorems, TLAPS

(* A sequence without its last element. *)
LEMMA Pop ==
  ASSUME NEW S, NEW q \in Seq(S), q # <<>>
  PROVE  /\ SubSeq(q, 1, Len(q) - 1) \in Seq(S)
         /\ Len(SubSeq(q, 1, Len(q) - 1)) = Len(q) - 1
         /\ \A i \in 1..(Len(q) - 1) : SubSeq(q, 1, Len(q) - 1)[i] = q[i]
OBVIOUS

(* Its last element. *)
LEMMA Innermost ==
  ASSUME NEW S, NEW q \in Seq(S), q # <<>>
  PROVE  Len(q) \in Nat \ {0} /\ q[Len(q)] \in S
OBVIOUS

(* What the stack of containers is, when one is left. *)
LEMMA StackFacts ==
  ASSUME stack \in Seq(FrameSet), stack # <<>>
  PROVE  /\ Len(stack) \in Nat \ {0} /\ Top \in FrameSet
         /\ Outer \in Seq(FrameSet) /\ Len(Outer) = Len(stack) - 1
         /\ DOMAIN Outer = 1..(Len(stack) - 1) /\ DOMAIN stack = 1..Len(stack)
         /\ \A i \in 1..(Len(stack) - 1) : Outer[i] = stack[i]
<1>1. /\ Outer \in Seq(FrameSet) /\ Len(Outer) = Len(stack) - 1
      /\ Len(stack) \in Nat \ {0} /\ Top \in FrameSet
      /\ \A i \in 1..(Len(stack) - 1) : Outer[i] = stack[i]
  BY Pop, Innermost DEF Top, Outer
<1>2. DOMAIN Outer = 1..Len(Outer) /\ DOMAIN stack = 1..Len(stack)
  BY <1>1
<1> QED
  BY <1>1, <1>2

(* A sequence with one element more. *)
LEMMA Push ==
  ASSUME NEW S, NEW q \in Seq(S), NEW e \in S
  PROVE  /\ Append(q, e) # <<>> /\ Append(q, e)[Len(Append(q, e))] = e
         /\ \A i \in DOMAIN Append(q, e) :
              Append(q, e)[i] = e \/ (i \in DOMAIN q /\ Append(q, e)[i] = q[i])
<1> DEFINE n == Len(q) + 1
           r == Append(q, e)
<1>1. /\ n \in Nat \ {0} /\ r \in Seq(S) /\ Len(r) = n
      /\ DOMAIN r = 1..n /\ DOMAIN q = 1..(n - 1)
      /\ r[n] = e /\ \A i \in 1..(n - 1) : r[i] = q[i]
  OBVIOUS
<1> HIDE DEF n, r
<1>2. r # <<>>
  BY <1>1
<1> QED
  BY <1>1, <1>2 DEF r

(* A reference more or less changes the innermost frame only. *)
LEMMA RefsFacts ==
  ASSUME stack \in Seq(FrameSet), stack # <<>>, NEW n \in Nat
  PROVE  /\ WithRefs(n) \in Seq(FrameSet) /\ WithRefs(n) # <<>>
         /\ Len(WithRefs(n)) = Len(stack) /\ DOMAIN WithRefs(n) = DOMAIN stack
         /\ WithRefs(n)[Len(stack)].refs = n
         /\ \A i \in DOMAIN stack :
              /\ WithRefs(n)[i].kind = stack[i].kind
              /\ i # Len(stack) => WithRefs(n)[i] = stack[i]
<1>1. /\ Len(stack) \in Nat \ {0} /\ DOMAIN stack = 1..Len(stack) /\ Top \in FrameSet
  BY StackFacts
<1>2. WithRefs(n) = [stack EXCEPT ![Len(stack)] = [Top EXCEPT !.refs = n]]
  BY DEF WithRefs, Top
<1>3. [Top EXCEPT !.refs = n] \in FrameSet /\ [Top EXCEPT !.refs = n].kind = Top.kind
      /\ [Top EXCEPT !.refs = n].refs = n
  BY <1>1 DEF FrameSet
<1> DEFINE f == [Top EXCEPT !.refs = n]
<1>4. \A i \in DOMAIN stack :
        WithRefs(n)[i] = IF i = Len(stack) THEN f ELSE stack[i]
  BY <1>1, <1>2
<1>5. WithRefs(n) \in Seq(FrameSet) /\ Len(WithRefs(n)) = Len(stack)
      /\ DOMAIN WithRefs(n) = DOMAIN stack
  <2>1. f \in FrameSet
    BY <1>3
  <2> HIDE DEF f
  <2> QED
    BY <1>1, <1>2, <2>1 DEF f
<1>6. WithRefs(n)[Len(stack)] = f /\ WithRefs(n) # <<>>
  BY <1>1, <1>4, <1>5
<1>7. ASSUME NEW i \in DOMAIN stack
      PROVE  /\ WithRefs(n)[i].kind = stack[i].kind
             /\ i # Len(stack) => WithRefs(n)[i] = stack[i]
  <2>1. CASE i = Len(stack)
    BY <1>3, <1>6, <2>1 DEF Top
  <2>2. CASE i # Len(stack)
    BY <1>4, <2>2
  <2> QED
    BY <2>1, <2>2
<1>8. WithRefs(n)[Len(stack)].refs = n
  BY <1>3, <1>6
<1> QED
  BY <1>5, <1>6, <1>7, <1>8

(* The levels of the stack that are maps. *)
MapIndices(s) == {i \in DOMAIN s : s[i].kind = "map"}

(* They can be counted; there is none in an empty stack, one more when a   *)
(* map is opened, one less when it is left, and references are none.       *)
LEMMA MapsAreFinite ==
  ASSUME NEW S, NEW s \in Seq(S)
  PROVE  /\ IsFiniteSet(MapIndices(s)) /\ Maps(s) \in Nat
         /\ Maps(s) = Cardinality(MapIndices(s))
<1>1. IsFiniteSet(1..Len(s)) /\ DOMAIN s = 1..Len(s)
  BY FS_Interval
<1>2. MapIndices(s) \in SUBSET (1..Len(s))
  BY <1>1 DEF MapIndices
<1>3. IsFiniteSet(MapIndices(s))
  BY <1>1, <1>2, FS_Subset
<1>4. Maps(s) = Cardinality(MapIndices(s))
  BY DEF Maps, MapIndices
<1> QED
  BY <1>3, <1>4, FS_CardinalityType

LEMMA MapsOfNone == Maps(<<>>) = 0
<1>1. {i \in DOMAIN <<>> : <<>>[i].kind = "map"} = {}
  OBVIOUS
<1> QED
  BY <1>1, FS_EmptySet DEF Maps

LEMMA MapsOfAppend ==
  ASSUME stack \in Seq(FrameSet), NEW k \in {"list", "map"}
  PROVE  /\ Append(stack, Frame(k)) \in Seq(FrameSet)
         /\ Maps(Append(stack, Frame(k))) = IF k = "map" THEN Maps(stack) + 1 ELSE Maps(stack)
<1> DEFINE s == Append(stack, Frame(k))
           n == Len(stack) + 1
<1>1. Frame(k) \in FrameSet /\ Frame(k).kind = k
  BY DEF Frame, FrameSet
<1>2. /\ s \in Seq(FrameSet) /\ DOMAIN s = 1..n /\ DOMAIN stack = 1..(n - 1) /\ n \in Nat \ {0}
      /\ s[n] = Frame(k) /\ \A i \in 1..(n - 1) : s[i] = stack[i]
  BY <1>1
<1> HIDE DEF s, n
<1>3. /\ n \notin MapIndices(stack)
      /\ MapIndices(s) = IF k = "map" THEN MapIndices(stack) \cup {n} ELSE MapIndices(stack)
  BY <1>1, <1>2 DEF MapIndices
<1>4. Maps(s) = Cardinality(MapIndices(s)) /\ Maps(stack) = Cardinality(MapIndices(stack))
      /\ IsFiniteSet(MapIndices(stack))
  BY <1>2, MapsAreFinite
<1>5. Cardinality(MapIndices(stack) \cup {n}) = Cardinality(MapIndices(stack)) + 1
  BY <1>3, <1>4, FS_AddElement
<1> QED
  BY <1>2, <1>3, <1>4, <1>5 DEF s

LEMMA MapsOfOuter ==
  ASSUME stack \in Seq(FrameSet), stack # <<>>
  PROVE  Maps(stack) = IF Top.kind = "map" THEN Maps(Outer) + 1 ELSE Maps(Outer)
<1> DEFINE n == Len(stack)
<1>1. /\ n \in Nat \ {0} /\ Outer \in Seq(FrameSet)
      /\ DOMAIN Outer = 1..(n - 1) /\ DOMAIN stack = 1..n
      /\ \A i \in 1..(n - 1) : Outer[i] = stack[i]
      /\ stack[n] = Top
  BY StackFacts DEF Top
<1> HIDE DEF n
<1>2. /\ n \notin MapIndices(Outer)
      /\ MapIndices(stack) =
           IF Top.kind = "map" THEN MapIndices(Outer) \cup {n} ELSE MapIndices(Outer)
  BY <1>1 DEF MapIndices
<1>3. Maps(stack) = Cardinality(MapIndices(stack)) /\ Maps(Outer) = Cardinality(MapIndices(Outer))
      /\ IsFiniteSet(MapIndices(Outer))
  BY <1>1, MapsAreFinite
<1>4. Cardinality(MapIndices(Outer) \cup {n}) = Cardinality(MapIndices(Outer)) + 1
  BY <1>2, <1>3, FS_AddElement
<1> QED
  BY <1>2, <1>3, <1>4

LEMMA MapsOfRefs ==
  ASSUME stack \in Seq(FrameSet), stack # <<>>, NEW n \in Nat
  PROVE  Maps(WithRefs(n)) = Maps(stack)
<1>1. MapIndices(WithRefs(n)) = MapIndices(stack)
  BY RefsFacts DEF MapIndices
<1> QED
  BY <1>1 DEF Maps, MapIndices

(* What a crossing is made of. *)
PartNames == {"bytes", "text", "box", "next", "doc"}

(* Every crossing is made of them, a page of two. *)
LEMMA PartsFacts ==
  ASSUME NEW x \in Ops
  PROVE  /\ Parts[x] \in Seq({"bytes", "text", "box", "next", "doc"})
         /\ x = "page" => Parts[x] = Page
<1>1. x \in DOMAIN Parts
  BY OpsAssumption
<1>2. DOMAIN Parts = {"str", "row", "hit", "group", "field", "page", "scan", "update", "value"}
  BY DEF Parts
<1>3. /\ Row \in Seq(PartNames) /\ Hit \in Seq(PartNames) /\ Group \in Seq(PartNames)
      /\ Field \in Seq(PartNames) /\ Page \in Seq(PartNames)
      /\ Scan \in Seq(PartNames) /\ Value \in Seq(PartNames) /\ <<"bytes">> \in Seq(PartNames)
  BY DEF PartNames, Row, Hit, Group, Field, Page, Scan, Value
<1>4. <<"doc">> \in Seq(PartNames)
  BY DEF PartNames
<1>5. x = "page" => Parts[x] = Page
  BY DEF Parts
<1>6. Parts[x] \in {Row, Hit, Group, Field, Page, Scan, Value, <<"bytes">>, <<"doc">>}
  BY <1>1, <1>2 DEF Parts
<1> QED
  BY <1>3, <1>4, <1>5, <1>6 DEF PartNames

(* A sequence without its first element. *)
LEMMA TailFacts ==
  ASSUME NEW S, NEW q \in Seq(S), q # <<>>
  PROVE  Tail(q) \in Seq(S)
OBVIOUS

(* What is left of the parts; a page has two, its next key the last. *)
LEMMA TodoFacts ==
  ASSUME todo \in Seq({"bytes", "text", "box", "next", "doc"}), todo # <<>>
  PROVE  /\ Tail(todo) \in Seq({"bytes", "text", "box", "next", "doc"})
         /\ todo = Page => Head(todo) = "box" /\ Tail(todo) = <<"next">>
         /\ todo = <<"next">> => Head(todo) = "next" /\ Tail(todo) = <<>>
<1>1. Tail(todo) \in Seq({"bytes", "text", "box", "next", "doc"})
  BY TailFacts
<1>2. Head(Page) = "box" /\ Tail(Page) = <<"next">>
  BY DEF Page
<1>3. Head(<<"next">>) = "next" /\ Tail(<<"next">>) = <<>>
  OBVIOUS
<1> QED
  BY <1>1, <1>2, <1>3

(* Nothing is held and nothing has failed before the first crossing. *)
LEMMA Initially == Init => IInv
<1> SUFFICES ASSUME Init PROVE IInv
  OBVIOUS
<1>1. TypeOK
  <2>1. <<>> \in Seq({"bytes", "text", "box", "next", "doc"}) /\ <<>> \in Seq(FrameSet)
    OBVIOUS
  <2> QED
    BY <2>1 DEF Init, TypeOK
<1>2. StackOK /\ PendOK /\ PageOK
  BY DEF Init, StackOK, PendOK, PageOK
<1>3. KeysOK
  BY MapsOfNone DEF Init, KeysOK
<1> QED
  BY <1>1, <1>2, <1>3 DEF IInv

(* Every action preserves the invariant, conjunct by conjunct. *)
LEMMA Inductively == IInv /\ [Next]_vars => IInv'
<1> SUFFICES ASSUME IInv, [Next]_vars PROVE IInv'
  OBVIOUS
<1>a. TypeOK /\ StackOK /\ KeysOK /\ PendOK /\ PageOK /\ Maps(stack) \in Nat
  BY MapsAreFinite DEF IInv, TypeOK
<1>1. ASSUME NEW x \in Ops, Begin(x) PROVE IInv'
  <2>1. KeysOK' /\ keys' \in Nat
    BY <1>a, <1>1, MapsOfNone DEF Begin, KeysOK, InC, TypeOK, StackOK
  <2>2. TypeOK'
    BY <1>a, <1>1, <2>1, PartsFacts DEF Begin, TypeOK, StackOK
  <2>3. StackOK'
    BY <1>a, <1>1, PartsFacts DEF Begin, StackOK, TypeOK, Top
  <2>4. PendOK'
    BY <1>a, <1>1 DEF Begin, PendOK, TypeOK, InC, Callback
  <2>5. PageOK'
    BY <1>a, <1>1, PartsFacts DEF Begin, PageOK, TypeOK
  <2> QED
    BY <2>1, <2>2, <2>3, <2>4, <2>5 DEF IInv
<1>2. ASSUME Part PROVE IInv'
  <2>1. KeysOK' /\ keys' \in Nat
    BY <1>a, <1>2 DEF Part, doc, KeysOK, InC, TypeOK, StackOK
  <2>2. TypeOK'
    BY <1>a, <1>2, <2>1, TodoFacts DEF Part, doc, TypeOK, StackOK
  <2>3. StackOK'
    BY <1>a, <1>2, TodoFacts DEF Part, doc, StackOK, TypeOK, Top
  <2>4. PendOK'
    BY <1>a, <1>2 DEF Part, doc, PendOK, TypeOK, InC, Callback
  <2>5. PageOK'
    BY <1>a, <1>2, TodoFacts DEF Part, doc, PageOK, TypeOK
  <2> QED
    BY <2>1, <2>2, <2>3, <2>4, <2>5 DEF IInv
<1>3. ASSUME PartFails PROVE IInv'
  <2>1. KeysOK' /\ keys' \in Nat
    BY <1>a, <1>3 DEF PartFails, Throw, GiveUp, doc, KeysOK, InC, TypeOK, StackOK
  <2>2. TypeOK'
    BY <1>a, <1>3, <2>1 DEF PartFails, Throw, GiveUp, doc, TypeOK, StackOK
  <2>3. StackOK'
    BY <1>a, <1>3 DEF PartFails, Throw, GiveUp, doc, StackOK, TypeOK, Top
  <2>4. PendOK'
    BY <1>a, <1>3 DEF PartFails, Throw, GiveUp, doc, PendOK, TypeOK, InC, Callback
  <2>5. PageOK'
    BY <1>a, <1>3 DEF PartFails, Throw, GiveUp, doc, PageOK, TypeOK
  <2> QED
    BY <2>1, <2>2, <2>3, <2>4, <2>5 DEF IInv
<1>4. ASSUME DocBegins PROVE IInv'
  <2>1. KeysOK' /\ keys' \in Nat
    BY <1>a, <1>4 DEF DocBegins, doc, KeysOK, InC, TypeOK, StackOK
  <2>2. TypeOK'
    BY <1>a, <1>4, <2>1, TodoFacts DEF DocBegins, doc, TypeOK, StackOK
  <2>3. StackOK'
    BY <1>a, <1>4, TodoFacts DEF DocBegins, doc, StackOK, TypeOK, Top
  <2>4. PendOK'
    BY <1>a, <1>4 DEF DocBegins, doc, PendOK, TypeOK, InC, Callback
  <2>5. PageOK'
    BY <1>a, <1>4, TodoFacts DEF DocBegins, doc, PageOK, TypeOK
  <2> QED
    BY <2>1, <2>2, <2>3, <2>4, <2>5 DEF IInv
<1>5. ASSUME DocEnds PROVE IInv'
  <2>1. KeysOK' /\ keys' \in Nat
    BY <1>a, <1>5 DEF DocEnds, GiveUp, KeysOK, InC, TypeOK, StackOK
  <2>2. TypeOK'
    BY <1>a, <1>5, <2>1, TodoFacts DEF DocEnds, GiveUp, TypeOK, StackOK
  <2>3. StackOK'
    BY <1>a, <1>5, TodoFacts DEF DocEnds, GiveUp, StackOK, TypeOK, Top
  <2>4. PendOK'
    BY <1>a, <1>5 DEF DocEnds, GiveUp, PendOK, TypeOK, InC, Callback
  <2>5. PageOK'
    BY <1>a, <1>5, TodoFacts DEF DocEnds, GiveUp, PageOK, TypeOK
  <2> QED
    BY <2>1, <2>2, <2>3, <2>4, <2>5 DEF IInv
<1>6. ASSUME Finish PROVE IInv'
  <2>1. KeysOK' /\ keys' \in Nat
    BY <1>a, <1>6 DEF Finish, GiveUp, doc, KeysOK, InC, TypeOK, StackOK
  <2>2. TypeOK'
    BY <1>a, <1>6, <2>1 DEF Finish, GiveUp, doc, TypeOK, StackOK
  <2>3. StackOK'
    BY <1>a, <1>6 DEF Finish, GiveUp, doc, StackOK, TypeOK, Top
  <2>4. PendOK'
    BY <1>a, <1>6 DEF Finish, GiveUp, doc, PendOK, TypeOK, InC, Callback
  <2>5. PageOK'
    <3>1. op = "page" => own = {"rows"}
      <4>1. todo = <<>> /\ Page # <<>> /\ <<"next">> # <<>>
        BY <1>6 DEF Finish, Page
      <4> QED
        BY <1>a, <1>6, <4>1 DEF Finish, PageOK
    <3>2. op' = op /\ pc' = "returned"
      BY <1>6 DEF Finish, GiveUp
    <3>3. \/ given' = FALSE /\ own' = {}
          \/ given' = TRUE /\ own' = own
      BY <1>6 DEF Finish, GiveUp
    <3> QED
      BY <1>a, <3>1, <3>2, <3>3 DEF PageOK
  <2> QED
    BY <2>1, <2>2, <2>3, <2>4, <2>5 DEF IInv
<1>7. ASSUME Scalar PROVE IInv'
  <2>1. KeysOK' /\ keys' \in Nat
    BY <1>a, <1>7 DEF Scalar, Throw, KeysOK, InC, TypeOK, StackOK
  <2>2. TypeOK'
    BY <1>a, <1>7, <2>1 DEF Scalar, Throw, TypeOK, StackOK
  <2>3. StackOK'
    BY <1>a, <1>7 DEF Scalar, Throw, StackOK, TypeOK, Top
  <2>4. PendOK'
    BY <1>a, <1>7 DEF Scalar, Throw, PendOK, TypeOK, InC, Callback
  <2>5. PageOK'
    BY <1>a, <1>7 DEF Scalar, Throw, PageOK, TypeOK
  <2> QED
    BY <2>1, <2>2, <2>3, <2>4, <2>5 DEF IInv
<1>8. ASSUME Unknown PROVE IInv'
  <2>1. KeysOK' /\ keys' \in Nat
    BY <1>a, <1>8 DEF Unknown, KeysOK, InC, TypeOK, StackOK
  <2>2. TypeOK'
    BY <1>a, <1>8, <2>1 DEF Unknown, TypeOK, StackOK
  <2>3. StackOK'
    BY <1>a, <1>8 DEF Unknown, StackOK, TypeOK, Top
  <2>4. PendOK'
    BY <1>a, <1>8 DEF Unknown, PendOK, TypeOK, InC, Callback
  <2>5. PageOK'
    BY <1>a, <1>8 DEF Unknown, PageOK, TypeOK
  <2> QED
    BY <2>1, <2>2, <2>3, <2>4, <2>5 DEF IInv
<1>9. ASSUME NEW k \in {"list", "map"}, Container(k) PROVE IInv'
  <2>a. /\ pc = "decode" /\ pc' \in {"inside", "item"}
        /\ UNCHANGED <<op, todo, own, hole, given, items>>
    BY <1>9 DEF Container
  <2>b. \/ /\ stack' = Append(stack, Frame(k)) /\ pc' = "inside"
           /\ keys' = IF k = "map" THEN keys + 1 ELSE keys
           /\ UNCHANGED <<item, refused, pend>>
        \/ /\ refused' = TRUE /\ pend' = (pend \/ ~InC)
           /\ item' = "failed" /\ pc' = "item"
           /\ UNCHANGED <<stack, keys>>
    BY <1>9 DEF Container
  <2>1. KeysOK' /\ keys' \in Nat
    <3>1. Maps(stack') = Maps(stack) + (keys' - keys) /\ keys' \in {keys, keys + 1}
      <4>1. CASE UNCHANGED <<stack, keys>>
        BY <1>a, <4>1 DEF TypeOK
      <4>2. CASE /\ stack' = Append(stack, Frame(k))
                 /\ keys' = IF k = "map" THEN keys + 1 ELSE keys
        BY <1>a, <4>2, MapsOfAppend DEF TypeOK
      <4> QED
        BY <2>b, <4>1, <4>2
    <3>2. Maps(stack)' = Maps(stack')
      BY DEF Maps
    <3>3. ~pend' => ~pend
      BY <2>b
    <3>4. keys \in Nat /\ Maps(stack) \in Nat
      BY <1>a DEF TypeOK
    <3> QED
      BY <1>a, <2>a, <3>1, <3>2, <3>3, <3>4 DEF KeysOK, InC
  <2>2. TypeOK'
    BY <1>a, <1>9, <2>1, MapsOfAppend DEF Container, TypeOK, StackOK
  <2>3. StackOK'
    <3>1. CASE UNCHANGED stack /\ pc' = "item"
      BY <1>a, <2>a, <3>1 DEF StackOK
    <3>2. CASE stack' = Append(stack, Frame(k)) /\ pc' = "inside"
      <4>1. /\ stack' # <<>> /\ stack'[Len(stack')] = Frame(k)
            /\ \A i \in DOMAIN stack' :
                 stack'[i] = Frame(k) \/ (i \in DOMAIN stack /\ stack'[i] = stack[i])
        <5>1. stack \in Seq(FrameSet)
          BY <1>a DEF TypeOK
        <5>2. Frame(k) \in FrameSet
          BY DEF Frame, FrameSet
        <5>3. \A i \in DOMAIN stack' :
                stack'[i] = Frame(k) \/ (i \in DOMAIN stack /\ stack'[i] = stack[i])
          BY <3>2, <5>1, <5>2, Push
        <5> QED
          BY <3>2, <5>1, <5>2, <5>3, Push
      <4> QED
        BY <1>a, <2>a, <3>2, <4>1 DEF StackOK, Top, Frame
    <3> QED
      BY <2>b, <3>1, <3>2
  <2>4. PendOK'
    BY <1>a, <2>a, <2>b DEF PendOK, TypeOK, InC, Callback
  <2>5. PageOK'
    BY <1>a, <2>a DEF PageOK, TypeOK
  <2> QED
    BY <2>1, <2>2, <2>3, <2>4, <2>5 DEF IInv
<1>10. ASSUME Child PROVE IInv'
  <2>1. KeysOK' /\ keys' \in Nat
    BY <1>a, <1>10, MapsOfRefs DEF Child, KeysOK, InC, TypeOK, StackOK
  <2>2. TypeOK'
    BY <1>a, <1>10, <2>1, RefsFacts, StackFacts DEF Child, TypeOK, StackOK
  <2>3. StackOK'
    <3>1. pc = "inside" /\ pc' = "decode" /\ todo' = todo /\ stack # <<>> /\ Top.refs = 1
      BY <1>a, <1>10 DEF Child, StackOK
    <3>2. CASE stack' = stack
      BY <1>a, <3>1, <3>2 DEF StackOK
    <3>3. CASE stack' = WithRefs(Top.refs + 1)
      <4>1. stack' = WithRefs(2)
        BY <3>1, <3>3
      <4>2. \A i \in DOMAIN stack' : stack'[i].refs <= 2
        BY <1>a, <3>1, <4>1, RefsFacts DEF StackOK, TypeOK
      <4> QED
        BY <1>a, <3>1, <4>2 DEF StackOK
    <3> QED
      BY <1>10, <3>2, <3>3 DEF Child
  <2>4. PendOK'
    BY <1>a, <1>10 DEF Child, PendOK, TypeOK, InC, Callback
  <2>5. PageOK'
    BY <1>a, <1>10 DEF Child, PageOK, TypeOK
  <2> QED
    BY <2>1, <2>2, <2>3, <2>4, <2>5 DEF IInv
<1>11. ASSUME KeyFails PROVE IInv'
  <2>1. KeysOK' /\ keys' \in Nat
    BY <1>a, <1>11, MapsOfOuter, StackFacts, MapsAreFinite DEF KeyFails, Throw, KeysOK, InC, TypeOK, StackOK
  <2>2. TypeOK'
    BY <1>a, <1>11, <2>1, StackFacts DEF KeyFails, Throw, TypeOK, StackOK
  <2>3. StackOK'
    BY <1>a, <1>11, StackFacts DEF KeyFails, Throw, StackOK, TypeOK, Top
  <2>4. PendOK'
    BY <1>a, <1>11 DEF KeyFails, Throw, PendOK, TypeOK, InC, Callback
  <2>5. PageOK'
    BY <1>a, <1>11, StackFacts DEF KeyFails, Throw, PageOK, TypeOK
  <2> QED
    BY <2>1, <2>2, <2>3, <2>4, <2>5 DEF IInv
<1>12. ASSUME Put PROVE IInv'
  <2>1. KeysOK' /\ keys' \in Nat
    BY <1>a, <1>12, MapsOfRefs DEF Put, KeysOK, InC, TypeOK, StackOK
  <2>2. TypeOK'
    BY <1>a, <1>12, <2>1, RefsFacts, StackFacts DEF Put, TypeOK, StackOK
  <2>3. StackOK'
    <3>1. pc = "item" /\ pc' = "inside" /\ todo' = todo /\ stack # <<>> /\ stack' = WithRefs(1)
      BY <1>12 DEF Put
    <3>2. /\ stack' # <<>> /\ Len(stack') = Len(stack) /\ stack'[Len(stack)].refs = 1
          /\ \A i \in DOMAIN stack' : stack'[i].refs <= 2
      BY <1>a, <3>1, RefsFacts DEF StackOK, TypeOK
    <3> QED
      BY <1>a, <3>1, <3>2 DEF StackOK, Top
  <2>4. PendOK'
    BY <1>a, <1>12 DEF Put, PendOK, TypeOK, InC, Callback
  <2>5. PageOK'
    BY <1>a, <1>12 DEF Put, PageOK, TypeOK
  <2> QED
    BY <2>1, <2>2, <2>3, <2>4, <2>5 DEF IInv
<1>13. ASSUME Unwind PROVE IInv'
  <2>1. KeysOK' /\ keys' \in Nat
    BY <1>a, <1>13, MapsOfOuter, StackFacts, MapsAreFinite DEF Unwind, KeysOK, InC, TypeOK, StackOK
  <2>2. TypeOK'
    BY <1>a, <1>13, <2>1, StackFacts DEF Unwind, TypeOK, StackOK
  <2>3. StackOK'
    BY <1>a, <1>13, StackFacts DEF Unwind, StackOK, TypeOK, Top
  <2>4. PendOK'
    BY <1>a, <1>13 DEF Unwind, PendOK, TypeOK, InC, Callback
  <2>5. PageOK'
    BY <1>a, <1>13, StackFacts DEF Unwind, PageOK, TypeOK
  <2> QED
    BY <2>1, <2>2, <2>3, <2>4, <2>5 DEF IInv
<1>14. ASSUME Complete PROVE IInv'
  <2>1. KeysOK' /\ keys' \in Nat
    BY <1>a, <1>14, MapsOfOuter, StackFacts, MapsAreFinite DEF Complete, KeysOK, InC, TypeOK, StackOK
  <2>2. TypeOK'
    BY <1>a, <1>14, <2>1, StackFacts DEF Complete, TypeOK, StackOK
  <2>3. StackOK'
    BY <1>a, <1>14, StackFacts DEF Complete, StackOK, TypeOK, Top
  <2>4. PendOK'
    BY <1>a, <1>14 DEF Complete, PendOK, TypeOK, InC, Callback
  <2>5. PageOK'
    BY <1>a, <1>14, StackFacts DEF Complete, PageOK, TypeOK
  <2> QED
    BY <2>1, <2>2, <2>3, <2>4, <2>5 DEF IInv
<1>15. CASE UNCHANGED vars
  BY <1>a, <1>15 DEF vars, IInv, TypeOK, StackOK, KeysOK, PendOK, PageOK, InC, Callback, Top
<1> QED
  BY <1>1, <1>2, <1>3, <1>4, <1>5, <1>6, <1>7, <1>8, <1>9, <1>10, <1>11, <1>12, <1>13, <1>14, <1>15 DEF Next

(* The inductive invariant holds of every behaviour. *)
THEOREM Inductive == Spec => []IInv
BY Initially, Inductively, PTL DEF Spec

(* Every variable stays in its type: no key cursor is given back that was  *)
(* not handed out.                                                         *)
THEOREM TypeCorrect == Spec => []TypeOK
<1>1. IInv => TypeOK
  BY DEF IInv
<1> QED
  BY <1>1, Inductive, PTL

(* No walk ends early in silence, whatever fails in whatever document.     *)
THEOREM NullIsTheEnd == Spec => []NullMeansEnd
<1>1. IInv => NullMeansEnd
  BY DEF IInv, PendOK, NullMeansEnd
<1> QED
  BY <1>1, Inductive, PTL

(* No document that the JVM is given lacks a value, on any level, but for  *)
(* what the engine refuses to the decoder in C.                            *)
THEOREM DocumentsAreWhole == Spec => []GivenIsWhole
<1>1. IInv => GivenIsWhole
  BY DEF IInv, PendOK, GivenIsWhole
<1> QED
  BY <1>1, Inductive, PTL

(* Key cursors and the buffers of a page are given back, once, on every    *)
(* path and from every depth.                                              *)
THEOREM NothingStaysHeld == Spec => []NothingHeld
<1>1. IInv => NothingHeld
  <2> SUFFICES ASSUME IInv, pc = "returned" PROVE NothingHeld
    BY DEF NothingHeld
  <2>1. stack = <<>>
    BY DEF IInv, StackOK
  <2>2. InC \/ given => keys = 0
    BY <2>1, MapsOfNone DEF IInv, KeysOK, PendOK
  <2> QED
    BY <2>2 DEF IInv, PageOK, NothingHeld
<1> QED
  BY <1>1, Inductive, PTL

(* Frames with room for five references suffice for containers of every    *)
(* length.                                                                 *)
THEOREM FramesSuffice == FrameSize >= 5 => (Spec => []RefsFit)
<1> SUFFICES ASSUME FrameSize >= 5 PROVE Spec => []RefsFit
  OBVIOUS
<1>1. IInv => RefsFit
  <2> SUFFICES ASSUME IInv, NEW i \in DOMAIN stack PROVE stack[i].refs + 3 <= FrameSize
    BY DEF RefsFit
  <2>1. stack[i].refs <= 2 /\ stack[i] \in FrameSet
    BY DEF IInv, StackOK, TypeOK
  <2> QED
    BY <2>1, BoundAssumption DEF FrameSet
<1> QED
  BY <1>1, Inductive, PTL
=============================================================================

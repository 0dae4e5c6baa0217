----------------------- MODULE HandlesLifecycleProofs -----------------------
(***************************************************************************)
(* The proof that Handles implements Lifecycle, for every set of threads,  *)
(* objects and addresses, with and without misuse and exceptions.  What a  *)
(* single action does to the wrappers and to the heap is stated once       *)
(* (StepsForward); that this is a step of Lifecycle follows from the       *)
(* inductive invariant of Handles before and after the step.               *)
(***************************************************************************)
EXTENDS HandlesLifecycle, HandlesProofs

(* The engines a new wrapper o may come to belong to: its own, none, or    *)
(* that of a wrapper that is open.                                         *)
Engines(o) == {o, None} \cup {heap[obj[p].h].eng : p \in {q \in Object : Live(q)}}

(* A step gives a wrapper its allocation when it is born and never again,  *)
(* and takes no flag back.                                                 *)
StepsForward ==
  /\ gone \subseteq gone'
  /\ \A o \in Object :
       \/ obj'[o] = obj[o]
       \/ /\ obj[o].kind = "unborn" /\ obj'[o].kind # "unborn" /\ o \notin gone'
          /\ heap'[obj'[o].h].by = o
          /\ heap'[obj'[o].h].eng \in Engines(o)
  /\ \A a \in Addr : heap'[a].by \in Object =>
       heap'[a] = heap[a] \/ obj[heap'[a].by].kind = "unborn"

(* A prologue, or a return that leaves heap and wrappers alone.            *)
LEMMA FlagStep ==
  ASSUME heap' = heap, obj' = obj, gone \subseteq gone'
  PROVE  StepsForward
BY DEF StepsForward

(* A step that frees: the call's handles, its cursor, or nothing.          *)
LEMMA FreeStep ==
  ASSUME obj' = obj, gone \subseteq gone',
         \A a \in Addr : heap'[a] = heap[a] \/ heap'[a].by \notin Object
  PROVE  StepsForward
BY DEF StepsForward

(* A step in which a wrapper is born.                                      *)
LEMMA BirthStep ==
  ASSUME IInv, NEW os \in SUBSET Object,
         NEW o \in Object, NEW a \in Addr, NEW k \in WrapperKind, NEW e \in Engines(o),
         Bind(Freed(os), o, a, k, e)
  PROVE  StepsForward
<1> USE NoneAssumption
<1>a. TypeOK /\ TakenAreMarked
  BY DEF IInv
<1>1. /\ heap' = [Freed(os) EXCEPT ![a] = Cell(k, o, e)]
      /\ obj' = [obj EXCEPT ![o] = [kind |-> k, h |-> a]]
      /\ gone' = gone /\ obj[o] = Unborn
  BY DEF Bind
<1>2. FreeCell.by = None /\ Unborn.kind = "unborn"
  BY DEF FreeCell, Cell, Unborn
<1>3. o \notin gone
  BY <1>a, <1>1, <1>2 DEF TakenAreMarked
<1>4. /\ \A b \in Addr : b # a => heap'[b] = heap[b] \/ heap'[b] = FreeCell
      /\ heap'[a].by = o /\ heap'[a].eng = e
  BY <1>1 DEF Freed, Cell
<1>5. /\ obj'[o].kind = k /\ k # "unborn" /\ obj'[o].h = a
      /\ \A q \in Object : q # o => obj'[q] = obj[q]
  BY <1>a, <1>1 DEF TypeOK, WrapperKind
<1> QED
  BY <1>1, <1>2, <1>3, <1>4, <1>5 DEF StepsForward

(* Nothing freed is the heap itself. *)
LEMMA FreedNothing == ASSUME TypeOK PROVE heap = Freed({})
BY DEF Freed, TypeOK

LEMMA PrologueForward ==
  ASSUME IInv, NEW t \in Thread, Prologue(t)
  PROVE  StepsForward
<1>1. ASSUME NEW o \in Object, NEW a \in Addr, Open(t, o, a) PROVE StepsForward
  <2>1. TypeOK /\ {} \in SUBSET Object
    BY DEF IInv
  <2>2. Bind(Freed({}), o, a, "db", o)
    BY <1>1, <2>1, FreedNothing DEF Open
  <2> QED
    BY <2>1, <2>2, BirthStep DEF WrapperKind, Engines
<1>2. ASSUME NEW o \in Object, NEW op \in Ops,
             DbMethod(t, o, op) \/ CollMethod(t, o, op) \/ QueryMethod(t, o, op)
      PROVE  StepsForward
  BY <1>2, FlagStep DEF DbMethod, CollMethod, QueryMethod
<1>3. ASSUME NEW o \in Object, GraphMethod(t, o) \/ Not(t, o) \/ Close(t, o) PROVE StepsForward
  BY <1>3, FlagStep DEF GraphMethod, Not, Close
<1>4. ASSUME NEW o \in Object, NEW p \in Object,
             DeleteWhere(t, o, p) \/ Combine(t, o, p) \/ Filter(t, o, p)
      PROVE  StepsForward
  BY <1>4, FlagStep DEF DeleteWhere, Combine, Filter
<1>5. CASE Leaf(t)
  BY <1>5, FlagStep DEF Leaf
<1> QED
  BY <1>1, <1>2, <1>3, <1>4, <1>5 DEF Prologue

LEMMA NativeForward ==
  ASSUME IInv, NEW t \in Thread, Native(t)
  PROVE  StepsForward
<1> USE NoneAssumption, ThreadAssumption
<1>a. TypeOK /\ CallsHaveShape /\ {} \in SUBSET Object /\ call[t].takes \in SUBSET Object
  BY DEF IInv, TypeOK
<1>b. \A os \in SUBSET Object, a \in Addr :
        Freed(os)[a] = heap[a] \/ Freed(os)[a].by \notin Object
  BY DEF Freed, FreeCell, Cell
<1>c. \A op : Cell(Yield(op), t, None).by \notin Object
  BY DEF Cell
<1>1. CASE NativePlain(t)
  BY <1>1, FlagStep DEF NativePlain
<1>2. CASE NativeCombine(t)
  BY <1>2, <1>a, <1>b, FreeStep, BirthStep DEF NativeCombine, WrapperKind, Engines
<1>3. CASE NativeTake(t)
  BY <1>3, <1>a, <1>b, FreeStep DEF NativeTake
<1>4. CASE NativeUnmarshalled(t)
  BY <1>4, FlagStep DEF NativeUnmarshalled
<1>5. CASE NativeTerminal(t)
  <2>1. /\ Self(t) \in Object /\ obj' = obj /\ gone' = gone \cup {Self(t)}
    BY <1>5, <1>a DEF NativeTerminal, CallsHaveShape, TypeOK, Self
  <2>2. CASE heap' = Freed({Self(t)})
    BY <1>b, <2>1, <2>2, FreeStep
  <2>3. ASSUME NEW a \in Addr,
               heap' = [Freed({Self(t)}) EXCEPT ![a] = Cell(Yield(call[t].op), t, None)]
        PROVE  StepsForward
    <3>1. /\ heap'[a] = Cell(Yield(call[t].op), t, None)
          /\ \A b \in Addr : b # a => heap'[b] = Freed({Self(t)})[b]
      BY <2>3 DEF Freed
    <3> QED
      BY <1>b, <1>c, <2>1, <3>1, FreeStep
  <2> QED
    BY <1>5, <2>2, <2>3 DEF NativeTerminal
<1>6. ASSUME NEW o \in Object, NEW a \in Addr, NativeDerive(t, o, a) PROVE StepsForward
  <2>1. InNative(t) /\ call[t].op \in {"collection", "query"}
    BY <1>6 DEF NativeDerive
  <2>2. Self(t) \in Object /\ Live(Self(t))
    BY <1>a, <2>1 DEF IInv, BorrowedStayOpen, CallsHaveShape, TypeOK, Self
  <2>3. EngineOf(Self(t)) \in Engines(o)
    BY <2>2 DEF EngineOf, Engines
  <2>4. Bind(Freed({}), o, a, IF call[t].op = "query" THEN "query" ELSE "coll",
             EngineOf(Self(t)))
    BY <1>6, <1>a, FreedNothing DEF NativeDerive
  <2> QED
    BY <1>a, <2>3, <2>4, BirthStep DEF WrapperKind
<1>7. ASSUME NEW o \in Object, NEW a \in Addr, NativeLeaf(t, o, a) PROVE StepsForward
  <2>1. Bind(Freed({}), o, a, "pred", None)
    BY <1>7, <1>a, FreedNothing DEF NativeLeaf
  <2> QED
    BY <1>a, <2>1, BirthStep DEF WrapperKind, Engines
<1>8. ASSUME NEW a \in Addr, NativeRead(t, a) PROVE StepsForward
  BY <1>8, <1>a, <1>c, FreeStep DEF NativeRead, TypeOK
<1> QED
  BY <1>1, <1>2, <1>3, <1>4, <1>5, <1>6, <1>7, <1>8 DEF Native

LEMMA WalkForward ==
  ASSUME IInv, NEW t \in Thread, Walk(t)
  PROVE  StepsForward
<1>1. /\ obj' = obj /\ gone' = gone
      /\ heap' = heap \/ heap' = [heap EXCEPT ![call[t].cur] = FreeCell]
  BY DEF Walk, WalkToEnd, WalkThrows
<1>2. \A a \in Addr : heap'[a] = heap[a] \/ heap'[a].by \notin Object
  BY <1>1, NoneAssumption DEF IInv, TypeOK, FreeCell, Cell
<1> QED
  BY <1>1, <1>2, FreeStep

(* Every step of the threads is such a step.                               *)
LEMMA NextForward ==
  ASSUME IInv, Next
  PROVE  StepsForward
BY PrologueForward, NativeForward, WalkForward DEF Next

(* In a state of Handles no wrapper dangles, and an object that is not     *)
(* born stands nowhere.                                                    *)
LEMMA NobodyDangles ==
  ASSUME IInv, NEW o \in Object
  PROVE  /\ Live(o) => Stands(o)
         /\ Stands(o) => obj[o].kind # "unborn" /\ obj[o].h \in Addr
         /\ o \in gone => obj[o].kind # "unborn"
BY NoneAssumption DEF IInv, TypeOK, OwnersAreLive, TakenAreMarked, Claims, Live, Stands

(* What the mapping makes of an object: an engine for as long as the       *)
(* allocation stands, and a phase that its flag and its allocation tell.   *)
Mapped(o) ==
  /\ home[o] = IF Stands(o) THEN heap[obj[o].h].eng ELSE None
  /\ obj[o].kind = "unborn" => phase[o] = "unborn" /\ ~Stands(o)
  /\ Live(o) <=> phase[o] = "open"
  /\ Live(o) => Stands(o)
  /\ o \in gone /\ Stands(o) => phase[o] = "spent"
  /\ o \in gone /\ ~Stands(o) => phase[o] = "released"

LEMMA MappedState == IInv => \A o \in Object : Mapped(o)
BY NobodyDangles DEF Mapped, phase, home, Phase, Live

LEMMA MappedNext == IInv' => (\A o \in Object : Mapped(o))'
BY MappedState, PTL

(* A step of Handles is a step of Lifecycle.                               *)
LEMMA StepRefines ==
  ASSUME IInv, IInv', StepsForward
  PROVE  L!Next
<1> USE NoneAssumption
<1>a. (\A o \in Object : Mapped(o)) /\ (\A o \in Object : Mapped(o))'
  BY MappedState, MappedNext
<1>b. phase' = [o \in Object |-> phase'[o]] /\ home' = [o \in Object |-> home'[o]]
  BY DEF phase, home
<1>1. ASSUME NEW o \in Object PROVE L!Move(o) /\ L!Belong(o)
  <2>a. Mapped(o) /\ Mapped(o)'
    BY <1>a
  <2>b. Stands(o)' <=> obj'[o].h # None /\ heap'[obj'[o].h].by = o
    BY DEF Stands
  <2>1. CASE obj'[o] = obj[o]
    <3>1. gone \subseteq gone'
      BY DEF StepsForward
    <3>2. Stands(o)' => Stands(o) /\ heap'[obj[o].h] = heap[obj[o].h]
      <4> SUFFICES ASSUME Stands(o)' PROVE Stands(o) /\ heap'[obj[o].h] = heap[obj[o].h]
        OBVIOUS
      <4>1. obj[o].h \in Addr /\ heap'[obj[o].h].by = o /\ obj[o].kind # "unborn"
        BY <2>1, <2>b DEF IInv, TypeOK
      <4> QED
        BY <4>1 DEF StepsForward, Stands
    <3> QED
      BY <2>1, <2>a, <2>b, <3>1, <3>2
         DEF Mapped, Live, L!Move, L!Belong, L!Forward
  <2>2. CASE obj'[o] # obj[o]
    <3>1. /\ obj[o].kind = "unborn" /\ obj'[o].kind # "unborn" /\ o \notin gone'
          /\ heap'[obj'[o].h].eng \in Engines(o)
      BY <2>2 DEF StepsForward
    <3>2. phase[o] = "unborn" /\ phase'[o] = "open" /\ home'[o] = heap'[obj'[o].h].eng
      BY <2>a, <3>1 DEF Mapped, Live
    <3>3. Engines(o) = {o, None} \cup {home[p] : p \in {q \in Object : phase[q] = "open"}}
      BY <1>a DEF Engines, Mapped
    <3> QED
      BY <3>1, <3>2, <3>3 DEF L!Move, L!Belong, L!Forward
  <2> QED
    BY <2>1, <2>2
<1> QED
  BY <1>b, <1>1 DEF L!Next

(* Handles implements Lifecycle: whatever the threads do, in whatever      *)
(* order, on however many reused addresses, a wrapper opens, is given up   *)
(* and is released once each, and nothing is derived from a wrapper that   *)
(* was given up.                                                           *)
THEOREM Implements == Spec => ImplementsLifecycle
<1>1. Init => L!Init
  BY DEF Init, L!Init, phase, home, Phase, Stands, Unborn
<1>2. IInv /\ IInv' /\ [Next]_vars => [L!Next]_(L!vars)
  <2>1. SUFFICES ASSUME IInv, IInv', [Next]_vars PROVE L!Next \/ UNCHANGED L!vars
    BY DEF L!vars
  <2>2. CASE Next
    BY <2>1, <2>2, NextForward, StepRefines
  <2>3. CASE UNCHANGED vars
    BY <2>3 DEF vars, L!vars, phase, home, Phase, Stands
  <2> QED
    BY <2>1, <2>2, <2>3
<1> QED
  BY <1>1, <1>2, Inductive, PTL DEF Spec, ImplementsLifecycle, L!Spec

LP == INSTANCE LifecycleProofs WITH
        phase <- phase, home <- home, Object <- Object, None <- None

(* So an engine closes with the last allocation that keeps it open, and    *)
(* for good.                                                               *)
THEOREM EnginesStayClosed == Spec => EnginesCloseOnce
<1>1. None \notin Object
  BY NoneAssumption
<1>2. LP!Spec => LP!EnginesCloseOnce
  BY <1>1, LP!EnginesStayClosed
<1>3. L!Init => LP!Init
  BY DEF L!Init, LP!Init
<1>4. [L!Next]_(L!vars) => [LP!Next]_(LP!vars)
  BY DEF L!Next, L!Move, L!Belong, L!Forward, L!vars,
         LP!Next, LP!Move, LP!Belong, LP!Forward, LP!vars
<1>5. [\A d \in Object :
         phase[d] # "unborn" /\ (\A o \in Object : home[o] # d)
           => \A o \in Object : home'[o] # d]_(LP!vars)
      => [\A d \in Object :
            phase[d] # "unborn" /\ (\A o \in Object : home[o] # d)
              => \A o \in Object : home'[o] # d]_(L!vars)
  BY DEF L!vars, LP!vars
<1> QED
  BY <1>2, <1>3, <1>4, <1>5, Implements, PTL
     DEF ImplementsLifecycle, EnginesCloseOnce, L!Spec, LP!Spec, L!EnginesCloseOnce, LP!EnginesCloseOnce

(* A call whose thread holds handles is about to free or to consume them.  *)
LEMMA HoldersAreTakers ==
  ASSUME IInv, NEW t \in Thread, call[t].takes # {}
  PROVE  InNative(t) /\ call[t].op \in Takers
BY IdleShape
   DEF IInv, CallsHaveShape, Takers, DbReads, CollReads, Terminals, InNative, Idling, Walking

(* Clients that use nothing spent have no spent object lying about: each   *)
(* is in the hands of the call that gave it up until that has freed it.    *)
THEOREM SpentStayInHands == ~Misuse => (Spec => []SpentAreInHands)
<1> SUFFICES ASSUME ~Misuse PROVE Spec => []SpentAreInHands
  OBVIOUS
<1>1. IInv /\ PredicatesAreOwned => SpentAreInHands
  <2> SUFFICES ASSUME IInv, PredicatesAreOwned, NEW o \in Object, phase[o] = "spent"
               PROVE  \E t \in Thread : InNative(t) /\ o \in call[t].takes
    BY DEF SpentAreInHands
  <2>1. o \in gone /\ Stands(o)
    BY DEF phase, Phase
  <2>2. obj[o].h \in Addr /\ heap[obj[o].h].by = o /\ obj[o].kind \in WrapperKind
    BY <2>1 DEF Stands, IInv, TypeOK
  <2>3. heap[obj[o].h].kind \in WrapperKind
    BY <2>2 DEF IInv, CellsKnowTheirWrapper
  <2>4. o \in Claims
    BY <2>2, <2>3 DEF IInv, EngineHandlesAreOwned, PredicatesAreOwned, WrapperKind
  <2>5. PICK t \in Thread : o \in call[t].takes
    BY <2>1, <2>4 DEF Claims, Live
  <2> QED
    BY <2>5, HoldersAreTakers
<1> QED
  BY <1>1, Inductive, CarefulClients, PTL

(* A call that took handles ends with their release.                       *)
LEMMA TakersRelease ==
  ASSUME IInv, NEW t \in Thread, Prologue(t) \/ Native(t) \/ Walk(t),
         NEW o \in call[t].takes
  PROVE  obj'[o] = obj[o] /\ heap'[obj[o].h].by # o
<1> USE NoneAssumption, ThreadAssumption
<1>a. TypeOK /\ InNative(t) /\ call[t].op \in Takers /\ o \in Object
  BY HoldersAreTakers DEF IInv, TypeOK
<1>b. obj[o].h \in Addr /\ obj[o].kind # "unborn"
  BY <1>a DEF IInv, OwnersAreLive, TakenAreMarked, Claims
<1>c. Freed(call[t].takes)[obj[o].h] = FreeCell /\ FreeCell.by = None
  BY <1>b DEF Freed, FreeCell, Cell
<1>1. NativeCombine(t) \/ NativeTake(t)
  BY <1>a
     DEF Prologue, Open, DbMethod, CollMethod, QueryMethod, GraphMethod, Not, Close,
         DeleteWhere, Combine, Filter, Leaf, Native, NativePlain, NativeUnmarshalled,
         NativeTerminal, NativeDerive, NativeLeaf, NativeRead, Walk, WalkToEnd, WalkThrows,
         InNative, Walking, Idling, Takers, Marshals, DbReads, CollReads, Terminals
<1>2. CASE heap' = Freed(call[t].takes) /\ obj' = obj
  BY <1>a, <1>c, <1>2
<1>3. ASSUME NEW q \in Object, NEW a \in Addr, Bind(Freed(call[t].takes), q, a, "pred", None)
      PROVE  obj'[o] = obj[o] /\ heap'[obj[o].h].by # o
  <2>1. q # o
    BY <1>b, <1>3 DEF Bind, Unborn
  <2>2. obj'[o] = obj[o]
    BY <1>3, <2>1 DEF Bind
  <2>3. heap' = [Freed(call[t].takes) EXCEPT ![a] = Cell("pred", q, None)]
    BY <1>3 DEF Bind
  <2>4. heap'[obj[o].h] = FreeCell \/ heap'[obj[o].h].by = q
    BY <1>b, <1>c, <2>3 DEF Freed, Cell
  <2> QED
    BY <1>a, <1>c, <2>1, <2>2, <2>4
<1> QED
  BY <1>1, <1>2, <1>3 DEF NativeCombine, NativeTake

(* No call lets go of a handle it took without releasing it, whether it    *)
(* succeeds or fails and whatever the clients pass.                        *)
THEOREM TakenIsReleased == Spec => HandsLetGoReleased
<1> DEFINE LetGo ==
      \A t \in Thread : \A o \in call[t].takes :
        o \in call'[t].takes \/ phase'[o] = "released"
<1>1. IInv /\ IInv' /\ [Next]_vars => LetGo \/ UNCHANGED vars
  <2> SUFFICES ASSUME IInv, IInv', Next, NEW t \in Thread, NEW o \in call[t].takes,
                      o \notin call'[t].takes
               PROVE  phase'[o] = "released"
    OBVIOUS
  <2>1. PICK u \in Thread : Prologue(u) \/ Native(u) \/ Walk(u)
    BY DEF Next
  <2>2. u = t
    BY <2>1, OthersStay
  <2>3. obj'[o] = obj[o] /\ heap'[obj[o].h].by # o
    BY <2>1, <2>2, TakersRelease
  <2>4. o \in Object /\ o \in gone /\ obj[o].kind # "unborn"
    BY DEF IInv, TypeOK, TakenAreMarked
  <2>5. o \in gone'
    BY <2>4, NextForward DEF StepsForward
  <2>6. Mapped(o)'
    BY <2>4, MappedNext
  <2>7. ~Stands(o)'
    BY <2>3 DEF Stands
  <2> QED
    BY <2>4, <2>5, <2>6, <2>7 DEF Mapped
<1> QED
  BY <1>1, Inductive, PTL DEF Spec, HandsLetGoReleased
=============================================================================

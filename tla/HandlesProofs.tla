--------------------------- MODULE HandlesProofs ---------------------------
(***************************************************************************)
(* Proofs about Handles, for every set of threads, objects and addresses,  *)
(* with and without misuse and exceptions.  Every action of Handles is an  *)
(* instance of one of seven kinds of step; one lemma per kind shows that   *)
(* the step preserves the inductive invariant IInv.                        *)
(***************************************************************************)
EXTENDS Handles, TLAPS

(* What an idle thread holds: nothing, and no operation that needs self. *)
LEMMA IdleShape ==
  /\ Idle.op = "idle" /\ Idle.self = None /\ Idle.takes = {} /\ Idle.cur = None
  /\ "idle" \notin {"collection", "query"} \cup CollReads \cup Terminals
BY DEF Idle, CollReads, Terminals

(* A prologue that takes the handles of os (none, for most methods) and    *)
(* leaves for the native call.                                             *)
LEMMA BeginStep ==
  ASSUME IInv,
         NEW t \in Thread, Idling(t),
         NEW op \in Ops \ {"idle"}, NEW self \in Object \cup {None},
         NEW os \in SUBSET Object,
         heap' = heap, obj' = obj, gone' = gone \cup os, Enter(t, op, self, os),
         \A o \in os : Live(o) /\ ~InFlight(o),
         os # {} => op \in Takers,
         op \in {"collection", "query"} \cup CollReads \cup Terminals => self # None,
         self # None =>
           /\ self \notin os
           /\ obj[self].kind \in {"db", "coll", "query"}
           /\ op # "graph" => Live(self)
           /\ op \in Terminals => obj[self].kind = "query"
           /\ obj[self].kind = "query" => ~InFlight(self)
  PROVE  IInv'
<1> USE NoneAssumption, ThreadAssumption
<1>a. TypeOK /\ CallsHaveShape
  BY DEF IInv
<1>b. call' = [call EXCEPT ![t] = [op |-> op, self |-> self, takes |-> os, cur |-> None]]
  BY DEF Enter
<1>c. /\ call'[t] = [op |-> op, self |-> self, takes |-> os, cur |-> None]
      /\ \A u \in Thread : u # t => call'[u] = call[u]
  BY <1>a, <1>b DEF TypeOK
<1>e. call[t] = Idle
  BY <1>a DEF CallsHaveShape
<1>f. Claims' = Claims
  BY <1>a, <1>c, <1>e DEF Claims, Live, Idle
<1>1. TypeOK'
  BY <1>a, <1>b DEF TypeOK
<1>2. OwnersAreLive'
  BY <1>a, <1>f DEF IInv, OwnersAreLive, Claims, TypeOK
<1>3. TakenAreMarked'
  BY <1>a, <1>c, <1>e DEF IInv, TakenAreMarked, TypeOK, Live, InFlight, Idle
<1>4. BorrowedStayOpen'
  BY <1>a, <1>c, <1>e
     DEF IInv, BorrowedStayOpen, TypeOK, Live, InFlight, Idle, Self, InNative, Idling
<1>5. QueriesAreExclusive'
  BY <1>a, <1>c, <1>e DEF IInv, QueriesAreExclusive, TypeOK, InFlight, Self
<1>6. CallsHaveShape'
  BY <1>a, <1>c DEF CallsHaveShape, TypeOK, Idling, Walking, Self
<1>7. CellsKnowTheirWrapper'
  BY <1>a DEF IInv, CellsKnowTheirWrapper, TypeOK
<1>8. WalksHoldTheirCursor'
  BY <1>a, <1>c DEF IInv, WalksHoldTheirCursor, TypeOK, Walking
<1>9. EngineHandlesAreOwned'
  BY <1>f DEF IInv, EngineHandlesAreOwned
<1>10. QED
  BY <1>1, <1>2, <1>3, <1>4, <1>5, <1>6, <1>7, <1>8, <1>9 DEF IInv

(* A prologue that marked the receiver, a predicate, and threw.            *)
LEMMA DropStep ==
  ASSUME IInv,
         NEW p \in Object, obj[p].kind = "pred", ~InFlight(p),
         gone' = gone \cup {p}, heap' = heap, obj' = obj, call' = call
  PROVE  IInv'
<1> USE NoneAssumption, ThreadAssumption
<1>a. TypeOK /\ CallsHaveShape
  BY DEF IInv
<1>f. Claims' \subseteq Claims /\ Claims \subseteq Claims' \cup {p}
  BY DEF Claims, Live
<1>1. TypeOK'
  BY <1>a DEF TypeOK
<1>2. OwnersAreLive'
  BY <1>f DEF IInv, OwnersAreLive
<1>3. TakenAreMarked'
  BY DEF IInv, TakenAreMarked, InFlight
<1>4. BorrowedStayOpen'
  BY DEF IInv, BorrowedStayOpen, InFlight, Live, Self, InNative, Idling
<1>5. QueriesAreExclusive'
  BY DEF IInv, QueriesAreExclusive, Self
<1>6. CallsHaveShape'
  BY DEF IInv, CallsHaveShape, Idling, Walking, Self
<1>7. CellsKnowTheirWrapper'
  BY DEF IInv, CellsKnowTheirWrapper
<1>8. WalksHoldTheirCursor'
  BY DEF IInv, WalksHoldTheirCursor, Walking
<1>9. EngineHandlesAreOwned'
  BY <1>f DEF IInv, EngineHandlesAreOwned, CellsKnowTheirWrapper
<1>10. QED
  BY <1>1, <1>2, <1>3, <1>4, <1>5, <1>6, <1>7, <1>8, <1>9 DEF IInv

(* A native call that frees or consumes the handles the call took (none,   *)
(* for most methods) and returns.                                          *)
LEMMA ReturnStep ==
  ASSUME IInv,
         NEW t \in Thread,
         heap' = Freed(call[t].takes), obj' = obj, gone' = gone, Return(t)
  PROVE  IInv'
<1> USE NoneAssumption, ThreadAssumption
<1>a. TypeOK /\ CallsHaveShape
  BY DEF IInv
<1>b. call' = [call EXCEPT ![t] = Idle]
  BY DEF Return
<1>c. call'[t] = Idle /\ \A u \in Thread : u # t => call'[u] = call[u]
  BY <1>a, <1>b DEF TypeOK
<1>d. \A a \in Addr :
        \/ heap'[a] = heap[a] /\ \A o \in call[t].takes : obj[o].h # a
        \/ heap'[a] = FreeCell /\ \E o \in call[t].takes : obj[o].h = a
  BY <1>a DEF TypeOK, Freed
<1>e. FreeCell.by = None /\ FreeCell.kind = "free" /\ FreeCell \in CellSet
  BY DEF FreeCell, Cell, CellSet
<1>f. Claims' = Claims \ call[t].takes
  BY <1>a, <1>c DEF Claims, Live, Idle, IInv, TakenAreMarked, TypeOK
<1>1. TypeOK'
  BY <1>a, <1>b, <1>d, <1>e DEF TypeOK, Freed, Idle, Ops
<1>2. OwnersAreLive'
  BY <1>a, <1>d, <1>f DEF IInv, OwnersAreLive, Claims, TypeOK
<1>3. TakenAreMarked'
  BY <1>a, <1>c DEF IInv, TakenAreMarked, TypeOK, Idle
<1>4. BorrowedStayOpen'
  BY <1>a, <1>c DEF IInv, BorrowedStayOpen, TypeOK, Live, Idle, Self, InNative, Idling
<1>5. QueriesAreExclusive'
  BY <1>a, <1>c DEF IInv, QueriesAreExclusive, TypeOK, Self, Idle
<1>6. CallsHaveShape'
  BY <1>a, <1>c, IdleShape DEF CallsHaveShape, TypeOK, Idling, Walking, Self
<1>7. CellsKnowTheirWrapper'
  BY <1>a, <1>d, <1>e DEF IInv, CellsKnowTheirWrapper, TypeOK
<1>8. WalksHoldTheirCursor'
  BY <1>a, <1>c, <1>d, <1>f DEF IInv, WalksHoldTheirCursor, TypeOK, Walking, Idle, OwnersAreLive, Claims
<1>9. EngineHandlesAreOwned'
  BY <1>a, <1>d, <1>e, <1>f DEF IInv, EngineHandlesAreOwned, CellsKnowTheirWrapper, TypeOK, Claims
<1>10. QED
  BY <1>1, <1>2, <1>3, <1>4, <1>5, <1>6, <1>7, <1>8, <1>9 DEF IInv

(* A native call that returns a handle for a new wrapper, having consumed  *)
(* the handles the call took.                                              *)
LEMMA BindStep ==
  ASSUME IInv,
         NEW t \in Thread, NEW o \in Object, NEW a \in Addr,
         NEW k \in WrapperKind, NEW e \in Object \cup {None},
         Bind(Freed(call[t].takes), o, a, k, e), Return(t)
  PROVE  IInv'
<1> USE NoneAssumption, ThreadAssumption
<1>a. TypeOK /\ CallsHaveShape
  BY DEF IInv
<1>b. /\ call' = [call EXCEPT ![t] = Idle]
      /\ heap' = [Freed(call[t].takes) EXCEPT ![a] = Cell(k, o, e)]
      /\ obj' = [obj EXCEPT ![o] = [kind |-> k, h |-> a]]
      /\ gone' = gone
      /\ obj[o] = Unborn /\ Freed(call[t].takes)[a] = FreeCell
  BY DEF Return, Bind
<1>c. call'[t] = Idle /\ \A u \in Thread : u # t => call'[u] = call[u]
  BY <1>a, <1>b DEF TypeOK
<1>d. \A b \in Addr : b # a =>
        \/ heap'[b] = heap[b] /\ \A q \in call[t].takes : obj[q].h # b
        \/ heap'[b] = FreeCell /\ \E q \in call[t].takes : obj[q].h = b
  BY <1>a, <1>b DEF TypeOK, Freed
<1>e. FreeCell.by = None /\ FreeCell.kind = "free" /\ FreeCell \in CellSet
  BY DEF FreeCell, Cell, CellSet
<1>g. \/ heap[a] = FreeCell /\ \A q \in call[t].takes : obj[q].h # a
      \/ \E q \in call[t].takes : obj[q].h = a
  BY <1>a, <1>b DEF TypeOK, Freed
<1>h. /\ heap'[a] = Cell(k, o, e) /\ Cell(k, o, e) \in CellSet
      /\ Cell(k, o, e).by = o /\ Cell(k, o, e).kind = k
  <2>1. Freed(call[t].takes) = [b \in Addr |-> Freed(call[t].takes)[b]]
    BY DEF Freed
  <2>2. QED
    BY <1>b, <2>1 DEF Cell, CellSet
<1>i. /\ obj'[o].kind = k /\ obj'[o].h = a
      /\ \A q \in Object : q # o => obj'[q] = obj[q]
  BY <1>a, <1>b DEF TypeOK
<1>j. obj[o].kind = "unborn" /\ obj[o].h = None /\ o \notin gone /\ o \notin Claims /\ k # "unborn"
  BY <1>a, <1>b DEF Unborn, IInv, TakenAreMarked, Claims, Live, WrapperKind
<1>f. Claims' = (Claims \ call[t].takes) \cup {o}
  BY <1>a, <1>b, <1>c, <1>i, <1>j, IdleShape
     DEF Claims, Live, IInv, TakenAreMarked, TypeOK
<1>k. \A q \in Claims \ call[t].takes : obj[q].h # a
  BY <1>a, <1>e, <1>g DEF IInv, OwnersAreLive, Claims, TypeOK
<1>1. TypeOK'
  <2>1. heap' \in [Addr -> CellSet]
    BY <1>a, <1>b, <1>d, <1>e, <1>h DEF TypeOK, Freed
  <2>2. QED
    BY <1>a, <1>b, <1>i, <1>j, <2>1, IdleShape DEF TypeOK, Idle, Ops
<1>2. OwnersAreLive'
  <2>1. SUFFICES ASSUME NEW q \in Claims'
               PROVE  /\ obj'[q].h \in Addr
                      /\ heap'[obj'[q].h].by = q
                      /\ heap'[obj'[q].h].kind = obj'[q].kind
    BY DEF OwnersAreLive
  <2>2. CASE q = o
    BY <1>h, <1>i, <2>2
  <2>3. CASE q # o
    <3>1. q \in Claims /\ q \notin call[t].takes /\ q \in Object /\ obj'[q] = obj[q]
      BY <1>a, <1>f, <1>i, <2>1, <2>3 DEF Claims, TypeOK
    <3>2. /\ obj[q].h \in Addr /\ obj[q].h # a
          /\ heap[obj[q].h].by = q /\ heap[obj[q].h].kind = obj[q].kind
      BY <1>k, <3>1 DEF IInv, OwnersAreLive
    <3>3. \A r \in call[t].takes : heap[obj[r].h].by = r
      BY <1>a DEF IInv, OwnersAreLive, Claims, TypeOK
    <3>4. QED
      BY <1>d, <3>1, <3>2, <3>3
  <2>4. QED
    BY <2>2, <2>3
<1>3. TakenAreMarked'
  BY <1>a, <1>b, <1>c, <1>i, <1>j, IdleShape DEF IInv, TakenAreMarked, TypeOK
<1>4. BorrowedStayOpen'
  BY <1>a, <1>b, <1>c, <1>i, <1>j, IdleShape
     DEF IInv, BorrowedStayOpen, TypeOK, Live, Self, InNative, Idling
<1>5. QueriesAreExclusive'
  BY <1>a, <1>c, <1>i, <1>j, IdleShape
     DEF IInv, QueriesAreExclusive, BorrowedStayOpen, TypeOK, Self
<1>6. CallsHaveShape'
  BY <1>a, <1>c, IdleShape DEF CallsHaveShape, TypeOK, Idling, Walking, Self
<1>7. CellsKnowTheirWrapper'
  <2>1. SUFFICES ASSUME NEW b \in Addr, heap'[b].by \in Object
               PROVE  /\ obj'[heap'[b].by].h = b
                      /\ obj'[heap'[b].by].kind = heap'[b].kind
    BY DEF CellsKnowTheirWrapper
  <2>2. CASE b = a
    BY <1>h, <1>i, <2>2
  <2>3. CASE b # a
    <3>1. heap'[b] = heap[b]
      BY <1>d, <1>e, <2>1, <2>3
    <3>2. obj[heap[b].by].h = b /\ obj[heap[b].by].kind = heap[b].kind
      BY <2>1, <3>1 DEF IInv, CellsKnowTheirWrapper
    <3>3. heap[b].by # o
      BY <1>j, <3>2
    <3>4. QED
      BY <1>i, <2>1, <3>1, <3>2, <3>3
  <2>4. QED
    BY <2>2, <2>3
<1>8. WalksHoldTheirCursor'
  <2>1. SUFFICES ASSUME NEW u \in Thread, Walking(u)'
               PROVE  /\ heap'[call'[u].cur].kind \in TransientKind
                      /\ heap'[call'[u].cur].by = u
    BY DEF WalksHoldTheirCursor
  <2>2. u # t /\ call'[u] = call[u] /\ call[u].cur \in Addr
    BY <1>a, <1>c, <2>1, IdleShape DEF Walking, TypeOK
  <2>3. heap[call[u].cur].kind \in TransientKind /\ heap[call[u].cur].by = u
    BY <2>1, <2>2 DEF IInv, WalksHoldTheirCursor, Walking
  <2>4. \A q \in call[t].takes : obj[q].h # call[u].cur
    BY <1>a, <2>3 DEF IInv, OwnersAreLive, Claims, TypeOK
  <2>5. call[u].cur # a
    BY <1>e, <1>g, <2>3, <2>4
  <2>6. QED
    BY <1>d, <2>2, <2>3, <2>4, <2>5
<1>9. EngineHandlesAreOwned'
  <2>1. SUFFICES ASSUME NEW b \in Addr, heap'[b].kind \in {"db", "coll", "query"}
               PROVE  heap'[b].by \in Claims'
    BY DEF EngineHandlesAreOwned
  <2>2. CASE b = a
    BY <1>f, <1>h, <2>2
  <2>3. CASE b # a
    <3>1. heap'[b] = heap[b] /\ \A q \in call[t].takes : obj[q].h # b
      BY <1>d, <1>e, <2>1, <2>3
    <3>2. heap[b].by \in Claims
      BY <2>1, <3>1 DEF IInv, EngineHandlesAreOwned
    <3>3. obj[heap[b].by].h = b
      BY <1>a, <3>2 DEF IInv, CellsKnowTheirWrapper, Claims, TypeOK
    <3>4. QED
      BY <1>f, <3>1, <3>2, <3>3
  <2>4. QED
    BY <2>2, <2>3
<1>10. QED
  BY <1>1, <1>2, <1>3, <1>4, <1>5, <1>6, <1>7, <1>8, <1>9 DEF IInv

(* A terminal the engine was called for.                                   *)
LEMMA TerminalStep ==
  ASSUME IInv, NEW t \in Thread, NativeTerminal(t)
  PROVE  IInv'
<1> USE NoneAssumption, ThreadAssumption
<1> DEFINE s == Self(t)
<1>a. TypeOK /\ CallsHaveShape
  BY DEF IInv
<1>b. /\ call[t].takes = {} /\ s \in Object /\ Live(s) /\ obj[s].kind = "query"
      /\ s \in Claims
  <2>1. call[t].op \in Terminals /\ call[t].op # "graph" /\ InNative(t)
    BY DEF NativeTerminal, Terminals
  <2>2. call[t].op \notin Takers
    BY <2>1 DEF Terminals, Takers
  <2>3. s # None
    BY <1>a, <2>1 DEF CallsHaveShape
  <2>4. QED
    BY <1>a, <2>1, <2>2, <2>3
       DEF CallsHaveShape, IInv, BorrowedStayOpen, TypeOK, Self, Claims
<1>c. obj' = obj /\ gone' = gone \cup {s}
  BY DEF NativeTerminal
<1>d. \/ heap' = Freed({s}) /\ call' = [call EXCEPT ![t] = Idle]
      \/ \E a \in Addr :
           /\ Freed({s})[a] = FreeCell
           /\ heap' = [Freed({s}) EXCEPT ![a] = Cell(Yield(call[t].op), t, None)]
           /\ call' = [call EXCEPT ![t].cur = a]
  BY DEF NativeTerminal, Return
<1>e. FreeCell.by = None /\ FreeCell.kind = "free" /\ FreeCell \in CellSet
  BY DEF FreeCell, Cell, CellSet
<1>g. \A op : /\ Cell(Yield(op), t, None) \in CellSet
              /\ Cell(Yield(op), t, None).by = t
              /\ Cell(Yield(op), t, None).kind \in TransientKind
  BY DEF Cell, CellSet, Yield, TransientKind
<1>h. /\ Freed({s}) \in [Addr -> CellSet]
      /\ \A b \in Addr : Freed({s})[b] = IF obj[s].h = b THEN FreeCell ELSE heap[b]
  BY <1>a, <1>e DEF Freed, TypeOK
<1>i. /\ heap' \in [Addr -> CellSet]
      /\ \A b \in Addr :
           \/ heap'[b] = heap[b] /\ obj[s].h # b
           \/ heap'[b] = FreeCell /\ obj[s].h = b
           \/ /\ heap'[b].by = t /\ heap'[b].kind \in TransientKind
              /\ heap[b] = FreeCell \/ obj[s].h = b
  BY <1>d, <1>g, <1>h
<1> DEFINE J ==
      /\ \A u \in Thread : u # t => call'[u] = call[u]
      /\ call'[t].takes = {}
      /\ \/ call'[t] = Idle
         \/ /\ call'[t].op = call[t].op /\ call'[t].self = s
            /\ call'[t].cur \in Addr
            /\ heap'[call'[t].cur].by = t
            /\ heap'[call'[t].cur].kind \in TransientKind
      /\ call' \in [Thread -> [op : Ops, self : Object \cup {None},
                               takes : SUBSET Object, cur : Addr \cup {None}]]
<1>j. J
  <2>1. CASE heap' = Freed({s}) /\ call' = [call EXCEPT ![t] = Idle]
    BY <1>a, <2>1, IdleShape DEF TypeOK, Idle, Ops
  <2>2. ASSUME NEW a \in Addr,
               heap' = [Freed({s}) EXCEPT ![a] = Cell(Yield(call[t].op), t, None)],
               call' = [call EXCEPT ![t].cur = a]
        PROVE  J
    <3>1. heap'[a] = Cell(Yield(call[t].op), t, None)
      BY <1>h, <2>2
    <3>2. QED
      BY <1>a, <1>b, <1>g, <2>2, <3>1 DEF TypeOK, Self
  <2>3. QED
    BY <1>d, <2>1, <2>2
<1>k. \A u \in Thread : s \notin call[u].takes
  BY <1>b DEF IInv, TakenAreMarked, Live
<1>f. Claims' = Claims \ {s}
  BY <1>a, <1>b, <1>c, <1>j, <1>k DEF Claims, Live, TypeOK
<1>l. heap[obj[s].h].by = s /\ obj[s].h \in Addr
  BY <1>b DEF IInv, OwnersAreLive
<1>1. TypeOK'
  BY <1>a, <1>b, <1>c, <1>i, <1>j DEF TypeOK
<1>2. OwnersAreLive'
  BY <1>a, <1>c, <1>e, <1>f, <1>i, <1>l DEF IInv, OwnersAreLive, Claims, TypeOK
<1>3. TakenAreMarked'
  BY <1>a, <1>b, <1>c, <1>j DEF IInv, TakenAreMarked, TypeOK, Live
<1>4. BorrowedStayOpen'
  <2>1. \A u \in Thread :
          /\ Self(u)' = call'[u].self
          /\ InNative(u)' <=> call'[u].op # "idle" /\ call'[u].cur = None
    BY DEF Self, InNative, Idling
  <2>2. ASSUME NEW u \in Thread, call'[u].self # None
        PROVE  /\ obj[call'[u].self].kind \in {"db", "coll", "query"}
               /\ InNative(u)' /\ call'[u].op # "graph" =>
                    call'[u].self \notin gone'
               /\ InNative(u)' /\ call'[u].op \in Terminals =>
                    obj[call'[u].self].kind = "query"
    <3>1. CASE u = t
      BY <1>b, <1>j, <2>1, <2>2, <3>1, IdleShape
    <3>2. CASE u # t
      <4>1. call'[u] = call[u] /\ Self(u) = call[u].self
        BY <1>j, <3>2 DEF Self
      <4>2. Self(u) # s
        BY <1>b, <2>2, <3>2, <4>1 DEF IInv, QueriesAreExclusive
      <4>3. QED
        BY <1>c, <2>1, <2>2, <4>1, <4>2
           DEF IInv, BorrowedStayOpen, Live, InNative, Idling
    <3>3. QED
      BY <3>1, <3>2
  <2>3. QED
    BY <1>c, <2>1, <2>2 DEF BorrowedStayOpen, Live
<1>5. QueriesAreExclusive'
  BY <1>a, <1>b, <1>c, <1>j, IdleShape DEF IInv, QueriesAreExclusive, TypeOK, Self
<1>6. CallsHaveShape'
  BY <1>a, <1>b, <1>j, IdleShape DEF CallsHaveShape, NativeTerminal, InNative, Idling, Walking, Self
<1>7. CellsKnowTheirWrapper'
  BY <1>a, <1>c, <1>e, <1>i DEF IInv, CellsKnowTheirWrapper, TypeOK
<1>8. WalksHoldTheirCursor'
  <2>1. SUFFICES ASSUME NEW u \in Thread, Walking(u)'
               PROVE  /\ heap'[call'[u].cur].kind \in TransientKind
                      /\ heap'[call'[u].cur].by = u
    BY DEF WalksHoldTheirCursor
  <2>2. CASE u = t
    BY <1>j, <2>1, <2>2, IdleShape DEF Walking
  <2>3. CASE u # t
    <3>1. call'[u] = call[u] /\ call[u].cur \in Addr /\ Walking(u)
      BY <1>a, <1>j, <2>1, <2>3 DEF Walking, TypeOK
    <3>2. heap[call[u].cur].kind \in TransientKind /\ heap[call[u].cur].by = u
      BY <3>1 DEF IInv, WalksHoldTheirCursor
    <3>3. QED
      BY <1>b, <1>e, <1>i, <1>l, <3>1, <3>2
  <2>4. QED
    BY <2>2, <2>3
<1>9. EngineHandlesAreOwned'
  BY <1>a, <1>e, <1>f, <1>i DEF IInv, EngineHandlesAreOwned, CellsKnowTheirWrapper, TypeOK, Claims, TransientKind
<1>10. QED
  BY <1>1, <1>2, <1>3, <1>4, <1>5, <1>6, <1>7, <1>8, <1>9 DEF IInv

(* A read that returned a cursor or a value, walked or dropped.            *)
LEMMA ReadStep ==
  ASSUME IInv, NEW t \in Thread, NEW a \in Addr, NativeRead(t, a)
  PROVE  IInv'
<1> USE NoneAssumption, ThreadAssumption
<1>a. TypeOK /\ CallsHaveShape
  BY DEF IInv
<1>b. /\ call[t].op \in DbReads \cup CollReads /\ call[t].takes = {}
      /\ heap[a] = FreeCell /\ obj' = obj /\ gone' = gone
  BY <1>a DEF NativeRead, CallsHaveShape, DbReads, CollReads, Takers
<1>c. /\ FreeCell.by = None /\ FreeCell.kind = "free"
      /\ Cell(Yield(call[t].op), t, None) \in CellSet
      /\ Cell(Yield(call[t].op), t, None).by = t
      /\ Cell(Yield(call[t].op), t, None).kind \in TransientKind
  BY DEF FreeCell, Cell, CellSet, Yield, TransientKind
<1>d. /\ heap' \in [Addr -> CellSet]
      /\ heap'[a].by = t /\ heap'[a].kind \in TransientKind
      /\ \A b \in Addr : b # a => heap'[b] = heap[b]
  BY <1>a, <1>c DEF NativeRead, TypeOK
<1>e. \/ call' = [call EXCEPT ![t] = Idle]
      \/ call' = [call EXCEPT ![t].cur = a]
  BY DEF NativeRead, Return
<1>g. /\ \A u \in Thread : u # t => call'[u] = call[u]
      /\ call'[t].takes = {}
      /\ \/ call'[t] = Idle
         \/ /\ call'[t].op = call[t].op /\ call'[t].self = call[t].self
            /\ call'[t].cur = a
      /\ call' \in [Thread -> [op : Ops, self : Object \cup {None},
                               takes : SUBSET Object, cur : Addr \cup {None}]]
  <2>1. CASE call' = [call EXCEPT ![t] = Idle]
    <3>1. Idle \in [op : Ops, self : Object \cup {None},
                    takes : SUBSET Object, cur : Addr \cup {None}]
      BY DEF Idle, Ops
    <3>2. call'[t] = Idle /\ \A u \in Thread : u # t => call'[u] = call[u]
      BY <1>a, <2>1 DEF TypeOK
    <3>3. call' \in [Thread -> [op : Ops, self : Object \cup {None},
                               takes : SUBSET Object, cur : Addr \cup {None}]]
      BY <1>a, <2>1, <3>1 DEF TypeOK
    <3>4. QED
      BY <3>2, <3>3, IdleShape
  <2>2. CASE call' = [call EXCEPT ![t].cur = a]
    <3>1. call' = [call EXCEPT ![t] = [call[t] EXCEPT !.cur = a]]
      BY <2>2
    <3>2. [call[t] EXCEPT !.cur = a] \in
            [op : Ops, self : Object \cup {None},
             takes : SUBSET Object, cur : Addr \cup {None}]
      BY <1>a DEF TypeOK
    <3>3. call'[t] = [call[t] EXCEPT !.cur = a]
      BY <1>a, <3>1 DEF TypeOK
    <3>4. QED
      BY <1>a, <1>b, <3>1, <3>2, <3>3 DEF TypeOK
  <2>3. QED
    BY <1>e, <2>1, <2>2
<1>f. Claims' = Claims
  BY <1>a, <1>b, <1>g DEF Claims, Live, TypeOK
<1>1. TypeOK'
  BY <1>a, <1>b, <1>d, <1>g DEF TypeOK
<1>2. OwnersAreLive'
  BY <1>a, <1>b, <1>c, <1>d, <1>f DEF IInv, OwnersAreLive, Claims, TypeOK
<1>3. TakenAreMarked'
  BY <1>a, <1>b, <1>g DEF IInv, TakenAreMarked, TypeOK
<1>4. BorrowedStayOpen'
  <2>1. \A u \in Thread :
          /\ Self(u)' = call'[u].self
          /\ InNative(u)' <=> call'[u].op # "idle" /\ call'[u].cur = None
    BY DEF Self, InNative, Idling
  <2>2. QED
    BY <1>a, <1>b, <1>g, <2>1, IdleShape
       DEF IInv, BorrowedStayOpen, Live, Self, InNative, Idling
<1>5. QueriesAreExclusive'
  BY <1>a, <1>b, <1>g, IdleShape DEF IInv, QueriesAreExclusive, TypeOK, Self
<1>6. CallsHaveShape'
  BY <1>a, <1>b, <1>g, IdleShape DEF CallsHaveShape, NativeRead, InNative, Idling, Walking, Self
<1>7. CellsKnowTheirWrapper'
  BY <1>a, <1>b, <1>d DEF IInv, CellsKnowTheirWrapper, TypeOK
<1>8. WalksHoldTheirCursor'
  BY <1>a, <1>c, <1>d, <1>b, <1>g, IdleShape DEF IInv, WalksHoldTheirCursor, Walking, TypeOK, TransientKind
<1>9. EngineHandlesAreOwned'
  BY <1>a, <1>d, <1>f DEF IInv, EngineHandlesAreOwned, TypeOK, TransientKind
<1>10. QED
  BY <1>1, <1>2, <1>3, <1>4, <1>5, <1>6, <1>7, <1>8, <1>9 DEF IInv

(* The end of a walk: the cursor is freed, or leaked by an exception.      *)
LEMMA WalkStep ==
  ASSUME IInv, NEW t \in Thread, Walk(t)
  PROVE  IInv'
<1> USE NoneAssumption, ThreadAssumption
<1>a. TypeOK /\ CallsHaveShape
  BY DEF IInv
<1>b. /\ Walking(t) /\ obj' = obj /\ gone' = gone
      /\ call' = [call EXCEPT ![t] = Idle]
      /\ heap' = heap \/ heap' = [heap EXCEPT ![call[t].cur] = FreeCell]
  BY DEF Walk, WalkToEnd, WalkThrows, Return
<1>c. /\ call[t].takes = {} /\ call[t].cur \in Addr /\ heap[call[t].cur].by = t
  BY <1>a, <1>b DEF CallsHaveShape, TypeOK, IInv, WalksHoldTheirCursor, Walking,
                    DbReads, CollReads, Terminals, Takers
<1>d. FreeCell.by = None /\ FreeCell.kind = "free" /\ FreeCell \in CellSet
  BY DEF FreeCell, Cell, CellSet
<1>e. /\ heap' \in [Addr -> CellSet]
      /\ \A b \in Addr : \/ heap'[b] = heap[b]
                         \/ heap'[b] = FreeCell /\ heap[b].by = t
  BY <1>a, <1>b, <1>c, <1>d DEF TypeOK
<1>g. call'[t] = Idle /\ \A u \in Thread : u # t => call'[u] = call[u]
  BY <1>a, <1>b DEF TypeOK
<1>f. Claims' = Claims
  BY <1>a, <1>b, <1>c, <1>g, IdleShape DEF Claims, Live, TypeOK
<1>1. TypeOK'
  BY <1>a, <1>b, <1>e DEF TypeOK, Idle, Ops
<1>2. OwnersAreLive'
  BY <1>a, <1>b, <1>e, <1>f DEF IInv, OwnersAreLive, Claims, TypeOK
<1>3. TakenAreMarked'
  BY <1>a, <1>b, <1>g, IdleShape DEF IInv, TakenAreMarked, TypeOK
<1>4. BorrowedStayOpen'
  BY <1>a, <1>b, <1>g, IdleShape DEF IInv, BorrowedStayOpen, Live, Self, InNative, Idling
<1>5. QueriesAreExclusive'
  BY <1>a, <1>b, <1>g, IdleShape DEF IInv, QueriesAreExclusive, TypeOK, Self
<1>6. CallsHaveShape'
  BY <1>a, <1>g, IdleShape DEF CallsHaveShape, Idling, Walking, Self
<1>7. CellsKnowTheirWrapper'
  BY <1>a, <1>b, <1>d, <1>e DEF IInv, CellsKnowTheirWrapper, TypeOK
<1>8. WalksHoldTheirCursor'
  BY <1>a, <1>e, <1>g, IdleShape DEF IInv, WalksHoldTheirCursor, Walking, TypeOK
<1>9. EngineHandlesAreOwned'
  BY <1>a, <1>d, <1>e, <1>f DEF IInv, EngineHandlesAreOwned, TypeOK
<1>10. QED
  BY <1>1, <1>2, <1>3, <1>4, <1>5, <1>6, <1>7, <1>8, <1>9 DEF IInv

(* Before the first open nothing is allocated, born or called.             *)
LEMMA InitInvariant == Init => IInv
<1> USE NoneAssumption
<1>1. SUFFICES ASSUME Init PROVE IInv
  OBVIOUS
<1>2. /\ FreeCell.by = None /\ FreeCell.kind = "free" /\ FreeCell \in CellSet
      /\ Unborn.kind = "unborn" /\ Unborn.h = None
  BY DEF FreeCell, Cell, CellSet, Unborn
<1>3. /\ \A a \in Addr : heap[a] = FreeCell
      /\ \A o \in Object : obj[o] = Unborn
      /\ \A t \in Thread : call[t] = Idle
      /\ gone = {}
  BY <1>1 DEF Init
<1>4. TypeOK
  BY <1>1, <1>2 DEF Init, TypeOK, Unborn, Idle, Ops
<1>5. Claims = {}
  BY <1>2, <1>3, IdleShape DEF Claims, Live
<1>6. OwnersAreLive
  BY <1>5 DEF OwnersAreLive
<1>7. TakenAreMarked /\ BorrowedStayOpen /\ QueriesAreExclusive
  BY <1>3, IdleShape DEF TakenAreMarked, BorrowedStayOpen, QueriesAreExclusive, Self
<1>8. CallsHaveShape /\ WalksHoldTheirCursor
  BY <1>3, IdleShape DEF CallsHaveShape, WalksHoldTheirCursor, Walking
<1>9. CellsKnowTheirWrapper /\ EngineHandlesAreOwned
  BY <1>2, <1>3 DEF CellsKnowTheirWrapper, EngineHandlesAreOwned
<1>10. QED
  BY <1>4, <1>6, <1>7, <1>8, <1>9 DEF IInv

(* Every prologue, from a Kotlin method's entry to its native call, keeps  *)
(* the invariant.                                                          *)
LEMMA PrologueStep ==
  ASSUME IInv, NEW t \in Thread, Prologue(t)
  PROVE  IInv'
<1> USE NoneAssumption, ThreadAssumption
<1>a. TypeOK /\ CallsHaveShape /\ gone = gone \cup {}
  BY DEF IInv
<1>b. Freed({}) = heap
  BY <1>a DEF Freed, TypeOK
<1>1. ASSUME NEW o \in Object, NEW a \in Addr, Open(t, o, a) PROVE IInv'
  <2>1. call[t] = Idle /\ call[t].takes = {} /\ call' = [call EXCEPT ![t] = Idle]
    BY <1>1, <1>a, IdleShape DEF Open, CallsHaveShape, TypeOK
  <2>2. Bind(Freed(call[t].takes), o, a, "db", o) /\ Return(t)
    BY <1>1, <1>b, <2>1 DEF Open, Return
  <2>3. QED
    BY <2>2, BindStep DEF WrapperKind
<1>2. ASSUME NEW d \in Object, NEW op \in Ops, DbMethod(t, d, op) PROVE IInv'
  <2>1. op \in Ops \ {"idle"} /\ op # "graph" /\ op \notin Terminals
    BY <1>2 DEF DbMethod, DbReads, Terminals
  <2>2. QED
    BY <1>2, <1>a, <2>1, BeginStep DEF DbMethod
<1>3. ASSUME NEW c \in Object, NEW op \in Ops, CollMethod(t, c, op) PROVE IInv'
  <2>1. op \in Ops \ {"idle"} /\ op # "graph" /\ op \notin Terminals
    BY <1>3 DEF CollMethod, CollReads, Terminals
  <2>2. QED
    BY <1>3, <1>a, <2>1, BeginStep DEF CollMethod
<1>4. ASSUME NEW q \in Object, NEW op \in Ops, QueryMethod(t, q, op) PROVE IInv'
  <2>1. op \in Ops \ {"idle"} /\ op # "graph"
    BY <1>4 DEF QueryMethod, Terminals
  <2>2. QED
    BY <1>4, <1>a, <2>1, BeginStep DEF QueryMethod, MayUse
<1>5. ASSUME NEW c \in Object, GraphMethod(t, c) PROVE IInv'
  <2>1. "graph" \in Ops \ {"idle"} /\ "graph" \notin Terminals
    BY DEF Ops, CollReads, Terminals
  <2>2. QED
    BY <1>5, <1>a, <2>1, BeginStep DEF GraphMethod
<1>6. ASSUME NEW c \in Object, NEW p \in Object, DeleteWhere(t, c, p) PROVE IInv'
  <2>1. /\ "deleteWhere" \in Ops \ {"idle"} /\ "deleteWhere" \in Takers
        /\ "deleteWhere" \notin Terminals
    BY DEF Ops, Terminals, Takers
  <2>2. QED
    BY <1>6, <2>1, BeginStep DEF DeleteWhere, MayUse
<1>7. ASSUME Leaf(t) PROVE IInv'
  <2>1. "leaf" \in Ops \ {"idle"}
           /\ "leaf" \notin {"collection", "query"} \cup CollReads \cup Terminals
    BY DEF Ops, CollReads, Terminals
  <2>2. QED
    BY <1>7, <1>a, <2>1, BeginStep DEF Leaf
<1>c. /\ "combine" \in Ops \ {"idle"} /\ "combine" \in Takers
      /\ "combine" \notin {"collection", "query"} \cup CollReads \cup Terminals
  BY DEF Ops, CollReads, Terminals, Takers
<1>8. ASSUME NEW p \in Object, NEW q \in Object, Combine(t, p, q) PROVE IInv'
  <2>1. CASE q # p /\ Live(q)
    BY <1>8, <1>c, <2>1, BeginStep DEF Combine, MayUse
  <2>2. CASE ~(q # p /\ Live(q))
    BY <1>8, <2>2, DropStep DEF Combine, MayUse
  <2>3. QED
    BY <2>1, <2>2
<1>9. ASSUME NEW p \in Object, Not(t, p) PROVE IInv'
  BY <1>9, <1>c, BeginStep DEF Not, MayUse
<1>10. ASSUME NEW q \in Object, NEW p \in Object, Filter(t, q, p) PROVE IInv'
  <2>1. /\ "filter" \in Ops \ {"idle"} /\ "filter" \in Takers
        /\ "filter" \notin {"collection", "query"} \cup CollReads \cup Terminals
    BY DEF Ops, CollReads, Terminals, Takers
  <2>2. CASE Live(q)
    BY <1>10, <2>1, <2>2, BeginStep DEF Filter, MayUse
  <2>3. CASE ~Live(q)
    BY <1>10, <2>3, DropStep DEF Filter, MayUse
  <2>4. QED
    BY <2>2, <2>3
<1>11. ASSUME NEW o \in Object, Close(t, o) PROVE IInv'
  <2>1. /\ "close" \in Ops \ {"idle"} /\ "close" \in Takers
        /\ "close" \notin {"collection", "query"} \cup CollReads \cup Terminals
    BY DEF Ops, CollReads, Terminals, Takers
  <2>2. QED
    BY <1>11, <2>1, BeginStep DEF Close, MayClose
<1>12. QED
  BY <1>1, <1>2, <1>3, <1>4, <1>5, <1>6, <1>7, <1>8, <1>9, <1>10, <1>11 DEF Prologue

(* Every native call, with the wrapper's epilogue behind it, keeps it.     *)
LEMMA NativeStep ==
  ASSUME IInv, NEW t \in Thread, Native(t)
  PROVE  IInv'
<1> USE NoneAssumption, ThreadAssumption
<1>a. TypeOK /\ CallsHaveShape
  BY DEF IInv
<1>b. Freed({}) = heap
  BY <1>a DEF Freed, TypeOK
<1>c. \A op \in DbReads \cup CollReads \cup Terminals \cup
               {"use", "collection", "query", "leaf"} : op \notin Takers
  BY DEF DbReads, CollReads, Terminals, Takers
<1>1. CASE NativePlain(t)
  BY <1>1, <1>a, <1>b, <1>c, ReturnStep DEF NativePlain, CallsHaveShape
<1>2. CASE NativeCombine(t)
  BY <1>2, ReturnStep, BindStep DEF NativeCombine, WrapperKind
<1>3. CASE NativeTake(t)
  BY <1>3, ReturnStep DEF NativeTake
<1>4. CASE NativeUnmarshalled(t)
  <2>1. call[t].op \in Terminals
    BY <1>4 DEF NativeUnmarshalled, Marshals, Terminals
  <2>2. QED
    BY <1>4, <1>a, <1>b, <1>c, <2>1, ReturnStep DEF NativeUnmarshalled, CallsHaveShape
<1>5. CASE NativeTerminal(t)
  BY <1>5, TerminalStep
<1>6. ASSUME NEW o \in Object, NEW a \in Addr, NativeDerive(t, o, a) PROVE IInv'
  <2>1. call[t].takes = {} /\ Self(t) \in Object
    BY <1>6, <1>a, <1>c DEF NativeDerive, CallsHaveShape, TypeOK, Self
  <2>2. EngineOf(Self(t)) \in Object \cup {None}
    BY <1>a, <2>1 DEF EngineOf, TypeOK, CellSet
  <2>3. QED
    BY <1>6, <1>b, <2>1, <2>2, BindStep DEF NativeDerive, WrapperKind
<1>7. ASSUME NEW o \in Object, NEW a \in Addr, NativeLeaf(t, o, a) PROVE IInv'
  <2>1. call[t].takes = {}
    BY <1>7, <1>a, <1>c DEF NativeLeaf, CallsHaveShape
  <2>2. QED
    BY <1>7, <1>b, <2>1, BindStep DEF NativeLeaf, WrapperKind
<1>8. ASSUME NEW a \in Addr, NativeRead(t, a) PROVE IInv'
  BY <1>8, ReadStep
<1>9. QED
  BY <1>1, <1>2, <1>3, <1>4, <1>5, <1>6, <1>7, <1>8 DEF Native

(* Every step of the specification keeps the invariant.                    *)
LEMMA InductiveStep == IInv /\ [Next]_vars => IInv'
<1>1. SUFFICES ASSUME IInv, [Next]_vars PROVE IInv'
  OBVIOUS
<1>2. CASE Next
  BY <1>1, <1>2, PrologueStep, NativeStep, WalkStep DEF Next
<1>3. CASE UNCHANGED vars
  BY <1>1, <1>3
     DEF vars, IInv, TypeOK, OwnersAreLive, TakenAreMarked, BorrowedStayOpen,
         QueriesAreExclusive, CallsHaveShape, CellsKnowTheirWrapper,
         WalksHoldTheirCursor, EngineHandlesAreOwned, Claims, Live, Self,
         InNative, Idling, Walking
<1>4. QED
  BY <1>1, <1>2, <1>3

(* The invariant holds in every state the wrappers, the shim and the       *)
(* engine's allocator can reach.                                           *)
THEOREM Inductive == Spec => []IInv
BY InitInvariant, InductiveStep, PTL DEF Spec

(* The variables keep their types. *)
THEOREM TypeCorrect == Spec => []TypeOK
<1>1. IInv => TypeOK
  BY DEF IInv
<1>2. QED
  BY Inductive, <1>1, PTL

(* No wrapper that is open, and no handle taken to be freed or consumed,   *)
(* is ever without its own allocation: no use after free, no double free.  *)
THEOREM OwnersStayLive == Spec => []OwnersAreLive
<1>1. IInv => OwnersAreLive
  BY DEF IInv
<1>2. QED
  BY Inductive, <1>1, PTL

(* Every native call behind a guard carries the handle of an open wrapper. *)
THEOREM GuardedCallsStayLive == Spec => []GuardedCallsCrossLive
<1>1. IInv => GuardedCallsCrossLive
  <2>1. SUFFICES ASSUME IInv, NEW t \in Thread,
                        InNative(t), Self(t) # None, call[t].op # "graph"
                 PROVE  heap[SelfHandle(t)].by = Self(t)
    BY DEF GuardedCallsCrossLive
  <2>2. Self(t) \in Claims
    BY <2>1 DEF IInv, BorrowedStayOpen, Claims, TypeOK, Self
  <2>3. QED
    BY <2>1, <2>2 DEF IInv, OwnersAreLive, SelfHandle
<1>2. QED
  BY Inductive, <1>1, PTL

(* No engine handle outlives its wrapper. *)
THEOREM EngineHandlesStayOwned == Spec => []EngineHandlesAreOwned
<1>1. IInv => EngineHandlesAreOwned
  BY DEF IInv
<1>2. QED
  BY Inductive, <1>1, PTL

(* No cursor is freed under the call that walks it. *)
THEOREM WalksKeepTheirCursor == Spec => []WalksHoldTheirCursor
<1>1. IInv => WalksHoldTheirCursor
  BY DEF IInv
<1>2. QED
  BY Inductive, <1>1, PTL

(* Of a native call that took nothing, nothing is taken back. *)
LEMMA OnlyTakersTake ==
  ASSUME CallsHaveShape, NEW t \in Thread,
         call[t].op \in DbReads \cup CollReads \cup Terminals \cup
                        {"use", "collection", "query", "leaf"}
  PROVE  call[t].takes = {}
BY DEF CallsHaveShape, Takers, DbReads, CollReads, Terminals

(* A step of t that keeps what careful clients may rely on: it leaves each *)
(* predicate where it is or frees those it had taken, marks none that it   *)
(* does not take, and closes no wrapper under another call.                *)
StepsCarefully(t) ==
  /\ \A u \in Thread : u # t => call'[u] = call[u]
  /\ \A o \in Object : obj[o].kind # "unborn" => obj'[o] = obj[o]
  /\ \A a \in Addr : heap'[a].kind = "pred" =>
       \/ heap'[a] = heap[a] /\ \A o \in call[t].takes : obj[o].h # a
       \/ heap'[a].by \in {o \in Object : obj'[o].kind # "unborn" /\ o \notin gone'}
  /\ \A o \in gone' \ gone :
       /\ obj[o].kind = "pred" => o \in call'[t].takes
       /\ \A u \in Thread : u # t => o # Self(u)
  /\ call'[t].op = "graph" /\ call'[t].cur = None =>
       obj'[call'[t].self].kind # "unborn" /\ call'[t].self \notin gone'

LEMMA CarefulStep ==
  ASSUME IInv, PredicatesAreOwned, GraphsStayOpen, NEW t \in Thread, StepsCarefully(t)
  PROVE  PredicatesAreOwned' /\ GraphsStayOpen'
<1> USE NoneAssumption, ThreadAssumption
<1>1. PredicatesAreOwned'
  <2> SUFFICES ASSUME NEW a \in Addr, heap'[a].kind = "pred"
               PROVE  heap'[a].by \in Claims'
    BY DEF PredicatesAreOwned
  <2>1. CASE heap'[a].by \in {o \in Object : obj'[o].kind # "unborn" /\ o \notin gone'}
    BY <2>1 DEF Claims, Live
  <2>2. CASE heap'[a] = heap[a] /\ \A o \in call[t].takes : obj[o].h # a
    <3>1. PICK o \in Object : heap[a].by = o /\ heap[a].kind = "pred" /\ o \in Claims
      BY <2>2 DEF PredicatesAreOwned, Claims, IInv, TypeOK
    <3>2. obj[o].h = a /\ obj[o].kind = "pred" /\ obj'[o] = obj[o]
      BY <3>1 DEF IInv, CellsKnowTheirWrapper, StepsCarefully
    <3>3. o \notin call[t].takes
      BY <2>2, <3>2
    <3>4. CASE Live(o)
      <4>1. (obj'[o].kind # "unborn" /\ o \notin gone') \/ o \in call'[t].takes
        BY <3>2, <3>4 DEF Live, StepsCarefully
      <4> QED
        BY <2>2, <3>1, <4>1 DEF Claims, Live
    <3>5. CASE \E u \in Thread : o \in call[u].takes
      BY <2>2, <3>1, <3>3, <3>5 DEF Claims, StepsCarefully
    <3> QED
      BY <3>1, <3>4, <3>5 DEF Claims
  <2> QED
    BY <2>1, <2>2 DEF StepsCarefully
<1>2. GraphsStayOpen'
  <2> SUFFICES ASSUME NEW u \in Thread, call'[u].op = "graph", call'[u].cur = None
               PROVE  obj'[call'[u].self].kind # "unborn" /\ call'[u].self \notin gone'
    BY DEF GraphsStayOpen, InNative, Idling, Live, Self
  <2>1. CASE u = t
    BY <2>1 DEF StepsCarefully
  <2>2. CASE u # t
    <3>1. call'[u] = call[u] /\ InNative(u) /\ call[u].op = "graph"
      BY <2>2 DEF StepsCarefully, InNative, Idling
    <3>2. Live(Self(u)) /\ Self(u) \in Object
      BY <3>1 DEF GraphsStayOpen, IInv, CallsHaveShape, CollReads, TypeOK, Self
    <3> QED
      BY <2>2, <3>1, <3>2 DEF StepsCarefully, Live, Self
  <2> QED
    BY <2>1, <2>2
<1> QED
  BY <1>1, <1>2

(* Without misuse every step of a thread is one. *)
LEMMA EveryStepIsCareful ==
  ASSUME ~Misuse, IInv, NEW t \in Thread, Prologue(t) \/ Native(t) \/ Walk(t)
  PROVE  StepsCarefully(t)
<1> USE NoneAssumption, ThreadAssumption
<1>a. TypeOK /\ CallsHaveShape /\ CellsKnowTheirWrapper
  BY DEF IInv
<1>b. Idling(t) => call[t].takes = {}
  BY <1>a, IdleShape DEF CallsHaveShape
<1>c. FreeCell.kind = "free" /\ Unborn.kind = "unborn" /\ Idle.op = "idle"
  BY DEF FreeCell, Cell, Unborn, Idle
<1>d. /\ \A op \in DbReads \cup CollReads \cup Terminals : Yield(op) # "pred"
      /\ \A k, o, e : Cell(k, o, e).kind = k /\ Cell(k, o, e).by = o
  BY DEF Yield, Cell
<1>e. call \in [Thread -> [op : Ops, self : Object \cup {None},
                          takes : SUBSET Object, cur : Addr \cup {None}]]
  BY <1>a DEF TypeOK
<1>f. /\ \A o \in Object : obj[o] = Unborn => o \notin gone
      /\ InNative(t) /\ call[t].op \in Terminals =>
           /\ Self(t) \in Object /\ obj[Self(t)].kind = "query" /\ Self(t) # None
           /\ \A u \in Thread : u # t => Self(u) # Self(t)
      /\ Walking(t) => call[t].takes = {}
  BY <1>a, <1>c, OnlyTakersTake
     DEF IInv, TakenAreMarked, BorrowedStayOpen, QueriesAreExclusive, CallsHaveShape, TypeOK, Self
<1>1. ASSUME NEW o \in Object, NEW a \in Addr, Open(t, o, a) PROVE StepsCarefully(t)
  BY <1>a, <1>c, <1>d, <1>e, <1>1, <1>b
     DEF Open, Bind, Idling, StepsCarefully, TypeOK
<1>2. ASSUME NEW o \in Object, NEW op \in Ops,
             DbMethod(t, o, op) \/ CollMethod(t, o, op) \/ QueryMethod(t, o, op) PROVE StepsCarefully(t)
  BY <1>a, <1>c, <1>d, <1>e, <1>2, <1>b
     DEF DbMethod, CollMethod, QueryMethod, Enter, DbReads, CollReads, Terminals, Idling, StepsCarefully, TypeOK
<1>3. ASSUME NEW o \in Object, GraphMethod(t, o) PROVE StepsCarefully(t)
  BY <1>a, <1>c, <1>d, <1>e, <1>3, <1>b
     DEF GraphMethod, Enter, Live, Idling, StepsCarefully, TypeOK
<1>4. ASSUME NEW p \in Object, Not(t, p) PROVE StepsCarefully(t)
  BY <1>a, <1>c, <1>d, <1>e, <1>4, <1>b
     DEF Not, Enter, MayUse, InFlight, Self, Idling, StepsCarefully, TypeOK
<1>5. ASSUME NEW o \in Object, Close(t, o) PROVE StepsCarefully(t)
  BY <1>a, <1>c, <1>d, <1>e, <1>5, <1>b
     DEF Close, Enter, MayClose, InFlight, Self, Idling, StepsCarefully, TypeOK
<1>6. ASSUME NEW o \in Object, NEW p \in Object, DeleteWhere(t, o, p) PROVE StepsCarefully(t)
  BY <1>a, <1>c, <1>d, <1>e, <1>6, <1>b
     DEF DeleteWhere, Enter, MayUse, InFlight, Self, Idling, StepsCarefully, TypeOK
<1>7. ASSUME NEW o \in Object, NEW p \in Object, Combine(t, o, p) PROVE StepsCarefully(t)
  BY <1>a, <1>c, <1>d, <1>e, <1>7, <1>b
     DEF Combine, Enter, MayUse, InFlight, Self, Idling, StepsCarefully, TypeOK
<1>8. ASSUME NEW o \in Object, NEW p \in Object, Filter(t, o, p) PROVE StepsCarefully(t)
  BY <1>a, <1>c, <1>d, <1>e, <1>8, <1>b
     DEF Filter, Enter, MayUse, InFlight, Self, Idling, StepsCarefully, TypeOK
<1>9. ASSUME Leaf(t) PROVE StepsCarefully(t)
  BY <1>a, <1>c, <1>d, <1>e, <1>9, <1>b
     DEF Leaf, Enter, Idling, StepsCarefully, TypeOK
<1>10. ASSUME NativePlain(t) PROVE StepsCarefully(t)
  BY <1>a, <1>c, <1>d, <1>e, <1>10, OnlyTakersTake
     DEF NativePlain, Return, Idling, StepsCarefully, TypeOK
<1>11. ASSUME NativeUnmarshalled(t) PROVE StepsCarefully(t)
  BY <1>a, <1>c, <1>d, <1>e, <1>11, OnlyTakersTake
     DEF NativeUnmarshalled, Marshals, Return, Terminals, Idling, StepsCarefully, TypeOK
<1>12. ASSUME NativeCombine(t) PROVE StepsCarefully(t)
  <2>1. \A a \in Addr : Freed(call[t].takes)[a].kind = "pred" =>
          /\ Freed(call[t].takes)[a] = heap[a]
          /\ \A o \in call[t].takes : obj[o].h # a
    BY <1>c DEF Freed
  <2>2. CASE heap' = Freed(call[t].takes) /\ UNCHANGED <<obj, gone>>
    BY <1>c, <1>e, <1>12, <2>1, <2>2 DEF NativeCombine, Return, StepsCarefully
  <2>3. ASSUME NEW o \in Object, NEW a \in Addr, Bind(Freed(call[t].takes), o, a, "pred", None)
        PROVE  StepsCarefully(t)
    <3>1. /\ call' = [call EXCEPT ![t] = Idle] /\ gone' = gone /\ obj[o].kind = "unborn"
          /\ obj' = [obj EXCEPT ![o] = [kind |-> "pred", h |-> a]] /\ o \notin gone
          /\ heap' = [Freed(call[t].takes) EXCEPT ![a] = Cell("pred", o, None)]
      BY <1>c, <1>f, <1>12, <2>3 DEF NativeCombine, Return, Bind
    <3>2. /\ heap'[a].by = o
          /\ \A b \in Addr : b # a => heap'[b] = Freed(call[t].takes)[b]
      BY <1>d, <3>1 DEF Freed
    <3>3. obj'[o].kind = "pred"
      BY <1>a, <3>1 DEF TypeOK
    <3> QED
      BY <1>a, <1>c, <1>e, <2>1, <3>1, <3>2, <3>3 DEF StepsCarefully, TypeOK
  <2> QED
    BY <1>12, <2>2, <2>3 DEF NativeCombine
<1>13. ASSUME NativeTake(t) PROVE StepsCarefully(t)
  BY <1>a, <1>c, <1>d, <1>e, <1>13
     DEF NativeTake, Freed, Return, Idling, StepsCarefully, TypeOK
<1>14. ASSUME NativeTerminal(t) PROVE StepsCarefully(t)
  <2>1. /\ InNative(t) /\ call[t].op \in Terminals /\ call[t].takes = {}
        /\ obj' = obj /\ gone' = gone \cup {Self(t)}
    BY <1>a, <1>14, OnlyTakersTake DEF NativeTerminal
  <2>2. \A a \in Addr : heap'[a].kind = "pred" => heap'[a] = heap[a]
    <3>1. \A a \in Addr : Freed({Self(t)})[a].kind = "pred" => Freed({Self(t)})[a] = heap[a]
      BY <1>c DEF Freed
    <3>2. CASE heap' = Freed({Self(t)})
      BY <3>1, <3>2
    <3>3. ASSUME NEW a \in Addr,
                 heap' = [Freed({Self(t)}) EXCEPT ![a] = Cell(Yield(call[t].op), t, None)]
          PROVE  \A b \in Addr : heap'[b].kind = "pred" => heap'[b] = heap[b]
      <4>1. /\ heap'[a].kind # "pred"
            /\ \A b \in Addr : b # a => heap'[b] = Freed({Self(t)})[b]
        BY <1>d, <2>1, <3>3 DEF Freed
      <4> QED
        BY <3>1, <4>1
    <3> QED
      BY <1>14, <3>2, <3>3 DEF NativeTerminal
  <2>3. /\ \A u \in Thread : u # t => call'[u] = call[u]
        /\ call'[t].op = "graph" => call[t].op = "graph"
    BY <1>c, <1>e, <1>14 DEF NativeTerminal, Return
  <2>4. call[t].op # "graph"
    BY <2>1 DEF Terminals
  <2> QED
    BY <1>f, <2>1, <2>2, <2>3, <2>4 DEF StepsCarefully
<1>15. ASSUME NEW o \in Object, NEW a \in Addr, NativeDerive(t, o, a) PROVE StepsCarefully(t)
  BY <1>a, <1>c, <1>d, <1>e, <1>15, OnlyTakersTake
     DEF NativeDerive, Bind, Return, Idling, StepsCarefully, TypeOK
<1>16. ASSUME NEW o \in Object, NEW a \in Addr, NativeLeaf(t, o, a) PROVE StepsCarefully(t)
  BY <1>a, <1>c, <1>d, <1>e, <1>16, <1>f, OnlyTakersTake
     DEF NativeLeaf, Bind, Return, Idling, StepsCarefully, TypeOK
<1>17. ASSUME NEW a \in Addr, NativeRead(t, a) PROVE StepsCarefully(t)
  BY <1>a, <1>c, <1>d, <1>e, <1>17, OnlyTakersTake
     DEF NativeRead, Return, Idling, StepsCarefully, TypeOK
<1>18. ASSUME Walk(t) PROVE StepsCarefully(t)
  BY <1>a, <1>c, <1>d, <1>e, <1>18, <1>f
     DEF Walk, WalkToEnd, WalkThrows, Return, Idling, StepsCarefully, TypeOK
<1> QED
  BY <1>1, <1>2, <1>3, <1>4, <1>5, <1>6, <1>7, <1>8, <1>9, <1>10, <1>11, <1>12, <1>13, <1>14, <1>15, <1>16, <1>17, <1>18 DEF Prologue, Native

(* The invariant of careful clients. *)
THEOREM CarefulClients == ~Misuse => (Spec => [](PredicatesAreOwned /\ GraphsStayOpen))
<1> SUFFICES ASSUME ~Misuse PROVE Spec => [](PredicatesAreOwned /\ GraphsStayOpen)
  OBVIOUS
<1>1. Init => PredicatesAreOwned /\ GraphsStayOpen
  BY DEF Init, PredicatesAreOwned, GraphsStayOpen, FreeCell, Cell, Idle, InNative, Idling
<1>2. IInv /\ PredicatesAreOwned /\ GraphsStayOpen /\ [Next]_vars
        => PredicatesAreOwned' /\ GraphsStayOpen'
  <2> SUFFICES ASSUME IInv, PredicatesAreOwned, GraphsStayOpen, [Next]_vars
               PROVE  PredicatesAreOwned' /\ GraphsStayOpen'
    OBVIOUS
  <2>1. CASE Next
    BY <2>1, EveryStepIsCareful, CarefulStep DEF Next
  <2>2. CASE UNCHANGED vars
    BY <2>2 DEF vars, PredicatesAreOwned, GraphsStayOpen, Claims, Live, InNative, Idling, Self
  <2> QED
    BY <2>1, <2>2
<1> QED
  BY <1>1, <1>2, Inductive, PTL DEF Spec

(* Careful clients leave no predicate behind that no wrapper and no call   *)
(* has: all leaves and trees are consumed or closed.                       *)
THEOREM PredicatesStayOwned == ~Misuse => (Spec => []PredicatesAreOwned)
BY CarefulClients, PTL

(* Careful clients' calls all carry handles of open wrappers, the graph    *)
(* reads included, whose guard comes too late.                             *)
THEOREM AllCallsStayLive == ~Misuse => (Spec => []CallsCrossLive)
<1> SUFFICES ASSUME ~Misuse PROVE Spec => []CallsCrossLive
  OBVIOUS
<1>1. Spec => [](PredicatesAreOwned /\ GraphsStayOpen)
  BY CarefulClients
<1>2. IInv /\ GraphsStayOpen => CallsCrossLive
  <2> SUFFICES ASSUME IInv, GraphsStayOpen, NEW t \in Thread, InNative(t), Self(t) # None
               PROVE  heap[SelfHandle(t)].by = Self(t)
    BY DEF CallsCrossLive
  <2>1. Live(Self(t)) /\ Self(t) \in Object
    BY DEF GraphsStayOpen, IInv, BorrowedStayOpen, TypeOK, Self
  <2> QED
    BY <2>1 DEF IInv, OwnersAreLive, Claims, SelfHandle
<1> QED
  BY <1>1, <1>2, Inductive, PTL

(* A step of one thread leaves the calls of the others alone.              *)
LEMMA OthersStay ==
  ASSUME IInv, NEW u \in Thread, Prologue(u) \/ Native(u) \/ Walk(u)
  PROVE  \A t \in Thread : t # u => call'[t] = call[t]
<1>a. call \in [Thread -> [op : Ops, self : Object \cup {None},
                          takes : SUBSET Object, cur : Addr \cup {None}]]
  BY DEF IInv, TypeOK
<1>1. CASE Prologue(u)
  BY <1>a, <1>1
     DEF Prologue, Open, DbMethod, CollMethod, QueryMethod, GraphMethod, Not, Close,
         DeleteWhere, Combine, Filter, Leaf, Enter
<1>2. CASE Native(u)
  BY <1>a, <1>2
     DEF Native, NativePlain, NativeCombine, NativeTake, NativeUnmarshalled,
         NativeTerminal, NativeDerive, NativeLeaf, NativeRead, Return
<1>3. CASE Walk(u)
  BY <1>a, <1>3 DEF Walk, WalkToEnd, WalkThrows, Return
<1> QED
  BY <1>1, <1>2, <1>3

(* A cursor or a value is new in a call that walks it from now on.         *)
LEMMA NewCursors ==
  ASSUME IInv, GraphsStayOpen, NEW t \in Thread, Prologue(t) \/ Native(t) \/ Walk(t),
         NEW a \in Addr, heap'[a].kind \in TransientKind
  PROVE  heap'[a] = heap[a] \/ (heap'[a].by = t /\ call'[t].cur = a)
<1>a. TypeOK /\ CallsHaveShape
  BY DEF IInv
<1>b. \A k, o, e : Cell(k, o, e).kind = k /\ Cell(k, o, e).by = o
  BY DEF Cell
<1>c. /\ FreeCell.kind \notin TransientKind
      /\ \A k \in WrapperKind : k \notin TransientKind
  BY DEF FreeCell, Cell, TransientKind, WrapperKind
<1>d. \A os : Freed(os)[a] = heap[a] \/ Freed(os)[a] = FreeCell
  BY DEF Freed
<1>e. \A os, b, c : [Freed(os) EXCEPT ![b] = c][a] = IF a = b THEN c ELSE Freed(os)[a]
  BY DEF Freed
<1>f. \A hp, o, b, k, e : k \in WrapperKind /\ Bind(hp, o, b, k, e) /\ hp \in {heap, Freed(call[t].takes)}
        => heap'[a] = heap[a]
  BY <1>a, <1>b, <1>c, <1>d, <1>e DEF Bind, TypeOK
<1>1. CASE Prologue(t)
  BY <1>f, <1>1
     DEF Prologue, Open, DbMethod, CollMethod, QueryMethod, GraphMethod, Not, Close,
         DeleteWhere, Combine, Filter, Leaf, WrapperKind
<1>2. CASE NativePlain(t) \/ NativeUnmarshalled(t)
  BY <1>2 DEF NativePlain, NativeUnmarshalled
<1>3. CASE NativeCombine(t) \/ NativeTake(t)
  BY <1>3, <1>c, <1>d, <1>f DEF NativeCombine, NativeTake, WrapperKind
<1>4. CASE \E o \in Object, b \in Addr : NativeDerive(t, o, b) \/ NativeLeaf(t, o, b)
  BY <1>4, <1>f DEF NativeDerive, NativeLeaf, WrapperKind
<1>5. CASE NativeTerminal(t)
  <2>1. CASE heap' = Freed({Self(t)})
    BY <1>c, <1>d, <2>1
  <2>2. ASSUME NEW b \in Addr,
               heap' = [Freed({Self(t)}) EXCEPT ![b] = Cell(Yield(call[t].op), t, None)],
               call' = [call EXCEPT ![t].cur = b]
        PROVE  heap'[a] = heap[a] \/ (heap'[a].by = t /\ call'[t].cur = a)
    <3>1. call'[t].cur = b
      BY <1>a, <2>2 DEF TypeOK
    <3>2. heap'[a] = IF a = b THEN Cell(Yield(call[t].op), t, None) ELSE Freed({Self(t)})[a]
      BY <1>e, <2>2
    <3> QED
      BY <1>b, <1>c, <1>d, <3>1, <3>2
  <2> QED
    BY <1>5, <2>1, <2>2 DEF NativeTerminal
<1>6. ASSUME NEW b \in Addr, NativeRead(t, b)
      PROVE  heap'[a] = heap[a] \/ (heap'[a].by = t /\ call'[t].cur = a)
  <2>1. call' = [call EXCEPT ![t].cur = b]
    BY <1>6 DEF NativeRead, GraphsStayOpen
  <2> QED
    BY <1>a, <1>b, <1>6, <2>1 DEF NativeRead, TypeOK
<1>7. CASE Walk(t)
  BY <1>a, <1>c, <1>7 DEF Walk, WalkToEnd, WalkThrows, TypeOK
<1> QED
  BY <1>1, <1>2, <1>3, <1>4, <1>5, <1>6, <1>7 DEF Native

(* If no JNI call throws, clients that use nothing spent lose no cursor    *)
(* and no value of the engine: each is held by the call that walks it.     *)
THEOREM CursorsStayHeld == ~Misuse /\ ~Throws => (Spec => []CursorsAreHeld)
<1> SUFFICES ASSUME ~Misuse, ~Throws PROVE Spec => []CursorsAreHeld
  OBVIOUS
<1>1. Init => CursorsAreHeld
  BY DEF Init, CursorsAreHeld, FreeCell, Cell, TransientKind
<1>2. IInv /\ GraphsStayOpen /\ CursorsAreHeld /\ [Next]_vars => CursorsAreHeld'
  <2> SUFFICES ASSUME IInv, GraphsStayOpen, CursorsAreHeld, [Next]_vars,
                      NEW a \in Addr, heap'[a].kind \in TransientKind
               PROVE  heap'[a].by \in Thread /\ call'[heap'[a].by].cur = a
    BY DEF CursorsAreHeld
  <2>1. CASE UNCHANGED vars
    BY <2>1 DEF vars, CursorsAreHeld
  <2>2. ASSUME NEW t \in Thread, Prologue(t) \/ Native(t) \/ Walk(t)
        PROVE  heap'[a].by \in Thread /\ call'[heap'[a].by].cur = a
    <3>1. CASE heap'[a].by = t /\ call'[t].cur = a
      BY <3>1
    <3>2. CASE heap'[a] = heap[a]
      <4>1. heap[a].by \in Thread /\ call[heap[a].by].cur = a
        BY <3>2 DEF CursorsAreHeld
      <4>2. CASE heap[a].by # t
        BY <2>2, <3>2, <4>1, <4>2, OthersStay
      <4>3. CASE heap[a].by = t
        <5>1. Walking(t) /\ ~Idling(t) /\ ~InNative(t)
          BY <4>1, <4>3, NoneAssumption, IdleShape
             DEF Walking, Idling, InNative, IInv, CallsHaveShape
        <5>2. WalkToEnd(t)
          BY <2>2, <5>1
             DEF Prologue, Open, DbMethod, CollMethod, QueryMethod, GraphMethod, Not, Close,
                 DeleteWhere, Combine, Filter, Leaf, Native, NativePlain, NativeCombine,
                 NativeTake, NativeUnmarshalled, NativeTerminal, NativeDerive, NativeLeaf,
                 NativeRead, Walk, WalkThrows
        <5>3. heap'[a] = FreeCell
          BY <4>1, <4>3, <5>2 DEF WalkToEnd, IInv, TypeOK
        <5> QED
          BY <5>3 DEF FreeCell, Cell, TransientKind
      <4> QED
        BY <4>2, <4>3
    <3> QED
      BY <2>2, <3>1, <3>2, NewCursors
  <2> QED
    BY <2>1, <2>2 DEF Next
<1> QED
  BY <1>1, <1>2, Inductive, CarefulClients, PTL DEF Spec
=============================================================================

------------------------------ MODULE Handles ------------------------------
(***************************************************************************)
(* The ownership of engine handles: the wrapper objects of the Kotlin API  *)
(* (Db, Collection, Predicate, Query), the native calls that carry their   *)
(* handles through the JNI shim, and the engine's heap behind it.          *)
(*                                                                         *)
(* A handle is a raw address that the shim casts back to a pointer, and    *)
(* the engine's allocator reuses addresses, so nothing but the discipline  *)
(* of the wrappers keeps an address from outliving its allocation.  Every  *)
(* wrapper method runs in steps: its Kotlin prologue (the guards, take())  *)
(* up to the native call, the native call itself with the straight-line    *)
(* epilogue behind it, and, when it returned a cursor or a value, the walk *)
(* that decodes it and frees it.  Other threads run between these steps.   *)
(*                                                                         *)
(* A method that throws before any state change (a guard that fails) is a  *)
(* stutter and is not written down.                                        *)
(***************************************************************************)
CONSTANTS
  Thread,   \* Java threads
  Object,   \* wrapper objects, born one at a time and never reused
  Addr,     \* addresses the engine's allocator hands out, reused once freed
  None,     \* neither a thread nor an object nor an address (a zero handle)
  Misuse,   \* may clients pass consumed predicates, finished queries and
            \* closed collections to the methods?
  Throws    \* may a JNI call fail with an exception, for want of memory?

ASSUME NoneAssumption == None \notin Thread \cup Object \cup Addr
ASSUME ThreadAssumption == Thread \cap Object = {}
ASSUME ClientAssumption == Misuse \in BOOLEAN /\ Throws \in BOOLEAN

VARIABLES
  heap,   \* [Addr -> Cell]: what the engine has allocated at each address
  obj,    \* [Object -> Wrapper]: the class and the handle of each wrapper object
  gone,   \* the objects whose closed, consumed or done flag is set
  call    \* [Thread -> Call]: the method each thread is in

vars == <<heap, obj, gone, call>>

WrapperKind == {"db", "coll", "pred", "query"}
TransientKind == {"cursor", "value"}

(* An allocation remembers whom the engine made it for, the wrapper object *)
(* or the thread whose call returned it, and, when it keeps an engine      *)
(* open, the Db object that opened that engine.  Neither is read by the    *)
(* actions except to know which engine a derived handle belongs to.        *)
Cell(k, who, e) == [kind |-> k, by |-> who, eng |-> e]
FreeCell == Cell("free", None, None)
CellSet ==
  [kind : WrapperKind \cup TransientKind \cup {"free"},
   by   : Object \cup Thread \cup {None},
   eng  : Object \cup {None}]

Unborn == [kind |-> "unborn", h |-> None]
Live(o) == obj[o].kind # "unborn" /\ o \notin gone

Idle == [op |-> "idle", self |-> None, takes |-> {}, cur |-> None]

(* Methods that return a cursor or an owned value, and walk it. *)
DbReads    == {"collections"}
CollReads  == {"getFields", "get", "rows", "graph"}
Terminals  == {"run", "count", "aggregate", "minmax", "group"}
Ops == DbReads \cup CollReads \cup Terminals \cup
       {"idle", "close", "use", "collection", "query", "leaf", "combine",
        "filter", "deleteWhere"}

(* The walks that have no try/finally around them: Db.collections,         *)
(* Collection.get, Query.min and Query.max.                                *)
Unprotected == {"collections", "get", "minmax"}
Marshals(op) == op \in {"aggregate", "minmax", "group"}
Yield(op) == IF op \in {"get", "getFields", "minmax"} THEN "value" ELSE "cursor"

----------------------------------------------------------------------------
(* What the threading rules of the API leave to the client.                *)

InFlight(o) == \E t \in Thread : o = call[t].self \/ o \in call[t].takes

(* A predicate or a query belongs to one thread at a time; a Db or a       *)
(* Collection may be in use by many, and is closed only when none is.      *)
MayUse(o) == obj[o].kind \in {"pred", "query"} => ~InFlight(o)
MayClose(o) == ~InFlight(o)

----------------------------------------------------------------------------
(* Updates shared by the actions.                                          *)

(* Leave the prologue of a method for its native call. *)
Enter(t, op, self, takes) ==
  call' = [call EXCEPT ![t] =
             [op |-> op, self |-> self, takes |-> takes, cur |-> None]]

Return(t) == call' = [call EXCEPT ![t] = Idle]

(* The engine frees, or takes into a bigger handle, those of os. *)
Freed(os) == [a \in Addr |-> IF \E o \in os : obj[o].h = a THEN FreeCell
                                                         ELSE heap[a]]

(* Mutant: the wrapper is constructed although the native call returned 0. *)
BindUnchecked(hp, o, a, k, e) ==
  /\ obj[o] = Unborn /\ hp[a] = FreeCell
  /\ heap' = hp
  /\ obj' = [obj EXCEPT ![o] = [kind |-> k, h |-> None]]
  /\ UNCHANGED gone

(* The wrapper object o is born around a fresh allocation; hp is the heap  *)
(* that the allocator sees.                                                *)
Bind(hp, o, a, k, e) ==
  /\ obj[o] = Unborn /\ hp[a] = FreeCell
  /\ heap' = [hp EXCEPT ![a] = Cell(k, o, e)]
  /\ obj' = [obj EXCEPT ![o] = [kind |-> k, h |-> a]]
  /\ UNCHANGED gone

Idling(t) == call[t].op = "idle"
InNative(t) == ~Idling(t) /\ call[t].cur = None
Walking(t) == call[t].cur # None
Self(t) == call[t].self
SelfHandle(t) == obj[Self(t)].h
EngineOf(o) == IF obj[o].h = None THEN None ELSE heap[obj[o].h].eng

----------------------------------------------------------------------------
(* Prologues: from an idle thread to the native call.                      *)

(* open and openMemory: nobody else can see the new handle, so the native  *)
(* call and the construction of the Db are one step.                       *)
Open(t, o, a) ==
  /\ Idling(t)
  /\ Bind(heap, o, a, "db", o)
  /\ UNCHANGED call

(* Mutant: without ensureOpen(). *)
DbMethodUnguarded(t, d, op) ==
  /\ Idling(t) /\ obj[d].kind = "db"
  /\ op \in DbReads \cup {"use", "collection"}
  /\ Enter(t, op, d, {})
  /\ UNCHANGED <<heap, obj, gone>>

(* The Db methods, behind ensureOpen(). *)
DbMethod(t, d, op) ==
  /\ Idling(t) /\ obj[d].kind = "db" /\ Live(d)
  /\ op \in DbReads \cup {"use", "collection"}
  /\ Enter(t, op, d, {})
  /\ UNCHANGED <<heap, obj, gone>>

(* Mutant: without ensureOpen(). *)
CollMethodUnguarded(t, c, op) ==
  /\ Idling(t) /\ obj[c].kind = "coll"
  /\ op \in (CollReads \ {"graph"}) \cup {"use", "query"}
  /\ Enter(t, op, c, {})
  /\ UNCHANGED <<heap, obj, gone>>

(* The Collection methods, behind ensureOpen(). *)
CollMethod(t, c, op) ==
  /\ Idling(t) /\ obj[c].kind = "coll" /\ Live(c)
  /\ op \in (CollReads \ {"graph"}) \cup {"use", "query"}
  /\ Enter(t, op, c, {})
  /\ UNCHANGED <<heap, obj, gone>>

(* neighbors, inNeighbors and traverse: their native call is the argument  *)
(* of walkStrs, whose ensureOpen() therefore runs after it.                *)
GraphMethod(t, c) ==
  /\ Idling(t) /\ obj[c].kind = "coll"
  /\ Live(c) \/ Misuse
  /\ Enter(t, "graph", c, {})
  /\ UNCHANGED <<heap, obj, gone>>

(* deleteWhere(pred): ensureOpen(), then pred.take(). *)
DeleteWhere(t, c, p) ==
  /\ Idling(t) /\ obj[c].kind = "coll" /\ Live(c)
  /\ obj[p].kind = "pred" /\ Live(p) /\ MayUse(p)
  /\ gone' = gone \cup {p}
  /\ Enter(t, "deleteWhere", c, {p})
  /\ UNCHANGED <<heap, obj>>

(* The builders of the field DSL. *)
Leaf(t) ==
  /\ Idling(t)
  /\ Enter(t, "leaf", None, {})
  /\ UNCHANGED <<heap, obj, gone>>

(* Mutant: the operand crosses without its take(). *)
CombineReceiverOnly(t, p, q) ==
  /\ Idling(t)
  /\ obj[p].kind = "pred" /\ obj[q].kind = "pred" /\ Live(p)
  /\ MayUse(p) /\ MayUse(q)
  /\ q # p /\ Live(q)
  /\ gone' = gone \cup {p}
  /\ Enter(t, "combine", None, {p, q})
  /\ UNCHANGED <<heap, obj>>

(* p and q, p or q: take() on the receiver first, then on the operand.  If *)
(* the operand was consumed before, or is the receiver itself, its take()  *)
(* throws when the receiver's flag is already set.                         *)
Combine(t, p, q) ==
  /\ Idling(t)
  /\ obj[p].kind = "pred" /\ obj[q].kind = "pred" /\ Live(p)
  /\ MayUse(p) /\ MayUse(q)
  /\ IF q # p /\ Live(q)
       THEN /\ gone' = gone \cup {p, q}
            /\ Enter(t, "combine", None, {p, q})
       ELSE /\ Misuse
            /\ gone' = gone \cup {p}
            /\ UNCHANGED call
  /\ UNCHANGED <<heap, obj>>

Not(t, p) ==
  /\ Idling(t) /\ obj[p].kind = "pred" /\ Live(p) /\ MayUse(p)
  /\ gone' = gone \cup {p}
  /\ Enter(t, "combine", None, {p})
  /\ UNCHANGED <<heap, obj>>

(* filter(p): p.take() first, then the query's own take(), which throws on *)
(* a query that is done.                                                   *)
Filter(t, q, p) ==
  /\ Idling(t) /\ obj[q].kind = "query" /\ obj[p].kind = "pred" /\ Live(p)
  /\ MayUse(q) /\ MayUse(p)
  /\ gone' = gone \cup {p}
  /\ IF Live(q) THEN Enter(t, "filter", q, {p})
                ELSE Misuse /\ UNCHANGED call
  /\ UNCHANGED <<heap, obj>>

(* The other builder methods, and the terminals: take() only checks. *)
QueryMethod(t, q, op) ==
  /\ Idling(t) /\ obj[q].kind = "query" /\ Live(q) /\ MayUse(q)
  /\ op \in Terminals \cup {"use"}
  /\ Enter(t, op, q, {})
  /\ UNCHANGED <<heap, obj, gone>>

(* Mutant: the flag is never set. *)
CloseUnflagged(t, o) ==
  /\ Idling(t) /\ Live(o) /\ MayClose(o)
  /\ Enter(t, "close", None, {o})
  /\ UNCHANGED <<heap, obj, gone>>

(* close() of all four: the flag first, then the native free. *)
Close(t, o) ==
  /\ Idling(t) /\ Live(o) /\ MayClose(o)
  /\ gone' = gone \cup {o}
  /\ Enter(t, "close", None, {o})
  /\ UNCHANGED <<heap, obj>>

----------------------------------------------------------------------------
(* Native calls, with the epilogue of the wrapper.                         *)

(* Calls that make and free no handle, Db.compact among them; and any call *)
(* of a method that consumes nothing, when it fails and returns nothing.   *)
NativePlain(t) ==
  /\ InNative(t)
  /\ call[t].op \in DbReads \cup CollReads \cup
                    {"use", "collection", "query", "leaf"}
  /\ Return(t)
  /\ UNCHANGED <<heap, obj, gone>>

(* Db.collection and Collection.query: a handle derived from self. *)
NativeDerive(t, o, a) ==
  /\ InNative(t) /\ call[t].op \in {"collection", "query"}
  /\ Bind(heap, o, a, IF call[t].op = "query" THEN "query" ELSE "coll",
          EngineOf(Self(t)))
  /\ Return(t)

NativeLeaf(t, o, a) ==
  /\ InNative(t) /\ call[t].op = "leaf"
  /\ Bind(heap, o, a, "pred", None)
  /\ Return(t)

(* Mutant: the children are kept when no tree comes back. *)
NativeCombineOnSuccess(t) ==
  /\ InNative(t) /\ call[t].op = "combine"
  /\ \/ UNCHANGED <<heap, obj, gone>>
     \/ \E o \in Object, a \in Addr :
          Bind(Freed(call[t].takes), o, a, "pred", None)
  /\ Return(t)

(* and/or/not consume their children whether or not a tree comes back. *)
NativeCombine(t) ==
  /\ InNative(t) /\ call[t].op = "combine"
  /\ \/ heap' = Freed(call[t].takes) /\ UNCHANGED <<obj, gone>>
     \/ \E o \in Object, a \in Addr :
          Bind(Freed(call[t].takes), o, a, "pred", None)
  /\ Return(t)

(* Mutant: a call that fails frees nothing. *)
NativeTakeOnSuccess(t) ==
  /\ InNative(t) /\ call[t].op \in {"filter", "deleteWhere", "close"}
  /\ heap' \in {heap, Freed(call[t].takes)}
  /\ Return(t)
  /\ UNCHANGED <<obj, gone>>

(* filter and deleteWhere consume the predicate whatever the status; a     *)
(* close frees its handle.                                                 *)
NativeTake(t) ==
  /\ InNative(t) /\ call[t].op \in {"filter", "deleteWhere", "close"}
  /\ heap' = Freed(call[t].takes)
  /\ Return(t)
  /\ UNCHANGED <<obj, gone>>

(* Mutant: done is set before the native call, as close() sets it. *)
NativeUnmarshalledDone(t) ==
  /\ Throws
  /\ InNative(t) /\ Marshals(call[t].op)
  /\ gone' = gone \cup {Self(t)}
  /\ Return(t)
  /\ UNCHANGED <<heap, obj>>

(* A terminal whose field name could not be copied: the engine was never   *)
(* called, and the exception leaves before markDone().                     *)
NativeUnmarshalled(t) ==
  /\ Throws
  /\ InNative(t) /\ Marshals(call[t].op)
  /\ Return(t)
  /\ UNCHANGED <<heap, obj, gone>>

(* A terminal the engine was called for: it consumed the query, failed or  *)
(* not; then markDone().  A failure, a count or an empty minimum leaves    *)
(* nothing to walk.                                                        *)
NativeTerminal(t) ==
  /\ InNative(t) /\ call[t].op \in Terminals
  /\ gone' = gone \cup {Self(t)}
  /\ \/ heap' = Freed({Self(t)}) /\ Return(t)
     \/ /\ call[t].op \notin {"count", "aggregate"}
        /\ \E a \in Addr :
             /\ Freed({Self(t)})[a] = FreeCell
             /\ heap' = [Freed({Self(t)}) EXCEPT
                           ![a] = Cell(Yield(call[t].op), t, None)]
             /\ call' = [call EXCEPT ![t].cur = a]
  /\ UNCHANGED obj

(* A read that returned a cursor or a value.  walkStrs calls ensureOpen()  *)
(* before its try, so the cursor a closed collection's graph read returned *)
(* is dropped.                                                             *)
NativeRead(t, a) ==
  /\ InNative(t) /\ call[t].op \in DbReads \cup CollReads
  /\ heap[a] = FreeCell
  /\ heap' = [heap EXCEPT ![a] = Cell(Yield(call[t].op), t, None)]
  /\ IF call[t].op = "graph" /\ ~Live(Self(t))
       THEN Return(t)
       ELSE call' = [call EXCEPT ![t].cur = a]
  /\ UNCHANGED <<obj, gone>>

----------------------------------------------------------------------------
(* Walks: from the cursor or value to the return.                          *)

(* Mutant: the cursor is freed at its end and once more by the finally. *)
WalkFreesTwice(t) ==
  /\ Walking(t)
  /\ heap' = [heap EXCEPT ![call[t].cur] = FreeCell]
  /\ call' \in {call, [call EXCEPT ![t] = Idle]}
  /\ UNCHANGED <<obj, gone>>

WalkToEnd(t) ==
  /\ Walking(t)
  /\ heap' = [heap EXCEPT ![call[t].cur] = FreeCell]
  /\ Return(t)
  /\ UNCHANGED <<obj, gone>>

(* Mutant: a walk without its finally. *)
WalkThrowsUnprotected(t) ==
  /\ Throws
  /\ Walking(t)
  /\ Return(t)
  /\ UNCHANGED <<heap, obj, gone>>

(* An exception in the middle of the walk. *)
WalkThrows(t) ==
  /\ Throws
  /\ Walking(t)
  /\ heap' = IF call[t].op \in Unprotected
               THEN heap
               ELSE [heap EXCEPT ![call[t].cur] = FreeCell]
  /\ Return(t)
  /\ UNCHANGED <<obj, gone>>

----------------------------------------------------------------------------
Init ==
  /\ heap = [a \in Addr |-> FreeCell]
  /\ obj = [o \in Object |-> Unborn]
  /\ gone = {}
  /\ call = [t \in Thread |-> Idle]

Prologue(t) ==
  \/ \E o \in Object, a \in Addr : Open(t, o, a)
  \/ \E o \in Object, op \in Ops :
       DbMethod(t, o, op) \/ CollMethod(t, o, op) \/ QueryMethod(t, o, op)
  \/ \E o \in Object : GraphMethod(t, o) \/ Not(t, o) \/ Close(t, o)
  \/ \E o, p \in Object : DeleteWhere(t, o, p) \/ Combine(t, o, p) \/ Filter(t, o, p)
  \/ Leaf(t)

Native(t) ==
  \/ NativePlain(t) \/ NativeCombine(t) \/ NativeTake(t)
  \/ NativeUnmarshalled(t) \/ NativeTerminal(t)
  \/ \E o \in Object, a \in Addr : NativeDerive(t, o, a) \/ NativeLeaf(t, o, a)
  \/ \E a \in Addr : NativeRead(t, a)

Walk(t) == WalkToEnd(t) \/ WalkThrows(t)

Next == \E t \in Thread : Prologue(t) \/ Native(t) \/ Walk(t)

Spec == Init /\ [][Next]_vars

(* A method that was entered runs on: the engine is synchronous and a      *)
(* cursor is finite.  No client has to call anything.                      *)
FairSpec == Spec /\ \A t \in Thread : WF_vars(Native(t) \/ Walk(t))

----------------------------------------------------------------------------
(* What the wrappers guarantee.                                            *)

(* The types; a wrapper carries an address exactly when it was born.       *)
TypeOK ==
  /\ heap \in [Addr -> CellSet]
  /\ obj \in [Object -> [kind : WrapperKind \cup {"unborn"},
                         h : Addr \cup {None}]]
  /\ gone \subseteq Object
  /\ \A o \in Object : obj[o].kind # "unborn" <=> obj[o].h # None
  /\ call \in [Thread -> [op : Ops, self : Object \cup {None},
                          takes : SUBSET Object, cur : Addr \cup {None}]]

(* The wrapper objects with a claim on an engine allocation: the open      *)
(* ones, and those a call in flight has taken to free or to consume.       *)
Claims == {o \in Object : Live(o)} \cup UNION {call[t].takes : t \in Thread}

(* No use after free and no double free: at the address of every object    *)
(* with a claim stands the allocation the engine made for that object, in  *)
(* spite of reused addresses and of spent objects that clients go on       *)
(* using, as long as they wait with close() as documented (MayClose).      *)
OwnersAreLive ==
  \A o \in Claims :
    /\ obj[o].h \in Addr
    /\ heap[obj[o].h].by = o
    /\ heap[obj[o].h].kind = obj[o].kind

(* A native call that runs behind an ensureOpen() or a take() carries the  *)
(* handle of a wrapper that is still open: no close overtakes it.          *)
GuardedCallsCrossLive ==
  \A t \in Thread :
    InNative(t) /\ Self(t) # None /\ call[t].op # "graph" =>
      heap[SelfHandle(t)].by = Self(t)

(* "Use after close() throws" of every method, the graph reads included. *)
CallsCrossLive ==
  \A t \in Thread :
    InNative(t) /\ Self(t) # None => heap[SelfHandle(t)].by = Self(t)

(* Nothing that keeps an engine, and its file lock, open outlives the      *)
(* wrappers: once every Db, Collection and Query is closed or consumed and *)
(* no close is in flight, the engine has been released and the file can be *)
(* opened again; and Db.compact is never refused as busy for a handle no   *)
(* wrapper has.                                                            *)
EngineHandlesAreOwned ==
  \A a \in Addr :
    heap[a].kind \in {"db", "coll", "query"} => heap[a].by \in Claims

(* A cursor or a value the engine allocated is held by the call that is    *)
(* walking it, and two calls never walk the same one.                      *)
WalksHoldTheirCursor ==
  \A t \in Thread :
    Walking(t) => /\ heap[call[t].cur].kind \in TransientKind
                  /\ heap[call[t].cur].by = t

(* "close() frees a never-consumed root": an allocated predicate has an     *)
(* open wrapper, or is being consumed or freed by a call.                  *)
PredicatesAreOwned ==
  \A a \in Addr : heap[a].kind = "pred" => heap[a].by \in Claims

(* No cursor and no value is lost: each that is allocated is held by the   *)
(* call that walks it.  An exception in a walk without a finally loses one, *)
(* and so does a graph read of a collection that is closed.                *)
CursorsAreHeld ==
  \A a \in Addr : heap[a].kind \in TransientKind =>
    heap[a].by \in Thread /\ call[heap[a].by].cur = a

(* Every cursor or value a call walks behind a finally is freed in the end. *)
WalkedIsFreed ==
  \A t \in Thread, a \in Addr :
    (call[t].cur = a /\ call[t].op \notin Unprotected) ~> heap[a] = FreeCell

----------------------------------------------------------------------------
(* The inductive invariant behind them.                                    *)

(* Only wrappers that were born are gone; a handle a call took is marked   *)
(* on its wrapper, and taken by one call.                                  *)
TakenAreMarked ==
  /\ \A o \in gone : obj[o].kind # "unborn"
  /\ \A t \in Thread : \A o \in call[t].takes :
       o \in gone /\ \A u \in Thread : o \in call[u].takes => u = t

(* A wrapper whose handle is in a guarded native call is open, and is not  *)
(* a predicate: predicates are taken, never borrowed.                      *)
BorrowedStayOpen ==
  \A t \in Thread :
    Self(t) # None =>
      /\ obj[Self(t)].kind \in {"db", "coll", "query"}
      /\ InNative(t) /\ call[t].op # "graph" => Live(Self(t))
      /\ InNative(t) /\ call[t].op \in Terminals => obj[Self(t)].kind = "query"

(* A query is in the hands of one call. *)
QueriesAreExclusive ==
  \A t, u \in Thread :
    Self(t) # None /\ obj[Self(t)].kind = "query" /\ Self(u) = Self(t) => u = t

(* An idle thread holds nothing; only the consuming methods and close()    *)
(* hold handles they took, and only the reading ones walk.                 *)
Takers == {"combine", "filter", "deleteWhere", "close"}
CallsHaveShape ==
  \A t \in Thread :
    /\ Idling(t) => call[t] = Idle
    /\ call[t].takes # {} => call[t].op \in Takers
    /\ Walking(t) => call[t].op \in DbReads \cup CollReads \cup Terminals
    /\ call[t].op \in {"collection", "query"} \cup CollReads \cup Terminals =>
         Self(t) # None

(* An allocation made for a wrapper is of its kind and at its address.     *)
CellsKnowTheirWrapper ==
  \A a \in Addr : heap[a].by \in Object =>
    /\ obj[heap[a].by].h = a
    /\ obj[heap[a].by].kind = heap[a].kind

(* What clients that misuse nothing keep: a graph read is of an open       *)
(* collection.                                                             *)
GraphsStayOpen ==
  \A t \in Thread : InNative(t) /\ call[t].op = "graph" => Live(Self(t))

IInv ==
  /\ TypeOK
  /\ OwnersAreLive
  /\ TakenAreMarked
  /\ BorrowedStayOpen
  /\ QueriesAreExclusive
  /\ CallsHaveShape
  /\ CellsKnowTheirWrapper
  /\ WalksHoldTheirCursor
  /\ EngineHandlesAreOwned
=============================================================================

---------------------------- MODULE ValueTransit ----------------------------
(***************************************************************************)
(* Kotlin values on their way into the engine.  A call that carries        *)
(* documents encodes each of them, recursively, into a tree of engine      *)
(* values, passes the trees on, and has to get rid of them afterwards:     *)
(*                                                                         *)
(*   "store"    encodes in C, and the engine clones what it keeps (insert, *)
(*              insertAuto, insertTTL, patch, compareAndSet, and the       *)
(*              comparisons, isIn and between of the field DSL)            *)
(*   "update"   encodes the callback's result in C; the engine takes it    *)
(*   "putMany"  encodes in Kotlin, handle by handle                        *)
(*                                                                         *)
(* The recursion is a stack of containers that are being filled.  Values   *)
(* are told apart by what the encoders do with them.                       *)
(***************************************************************************)
EXTENDS Naturals, Sequences

CONSTANTS
  Calls,      \* the calls the clients make
  Cap,        \* MAX_NESTING
  MaxDocs,    \* bound: documents in a call
  MaxItems,   \* bound: items in the containers of a call
  Throws      \* may any step end in an exception (no memory, a List or Map that
              \* fails while it is read)?

ASSUME CallsAssumption == Calls \subseteq {"store", "update", "putMany"}
ASSUME CapAssumption == Cap \in Nat
ASSUME BoundAssumption == MaxDocs \in Nat /\ MaxItems \in Nat
ASSUME ThrowsAssumption == Throws \in BOOLEAN

VARIABLES
  call,    \* the call in progress, or the last one
  pc,      \* what it does next
  todo,    \* documents still to encode
  made,    \* documents encoded and not yet freed
  stack,   \* the containers being filled, the innermost last
  live,    \* trees allocated by this call that belong to no other tree
  items,   \* container items encoded by this call
  deep     \* the deepest level at which it encoded a null, and anything else

vars == <<call, pc, todo, made, stack, live, items, deep>>

Container == {"list", "map"}
Step == {"idle", "value", "inside", "push", "unwind", "engine", "free"}
InC == call # "putMany"

Level == Len(stack)         \* of the value encoded next; the document has 0
Innermost == stack[Len(stack)]
Outer == SubSeq(stack, 1, Len(stack) - 1)

(* encode_value_at looks for null before it looks at the depth, Kotlin's   *)
(* encode the other way round.                                             *)
TooDeep(v) == Level > Cap /\ (InC => v # "null")

Reach(v) ==
  deep' = IF v = "null" THEN [deep EXCEPT !.null = IF Level > @ THEN Level ELSE @]
                        ELSE [deep EXCEPT !.other = IF Level > @ THEN Level ELSE @]

(* A value is complete, with st around it: it is pushed into its container *)
(* or is one of the documents of the call.                                 *)
Completed(st) ==
  IF st # <<>>
    THEN pc' = "push" /\ UNCHANGED <<made, todo>>
    ELSE /\ made' = made + 1
         /\ todo' = todo - 1
         /\ pc' = IF todo = 1 THEN "engine" ELSE "value"

----------------------------------------------------------------------------
Begin(c, n) ==
  /\ pc = "idle"
  /\ c = "update" => n <= 1
  /\ call' = c /\ todo' = n
  /\ pc' = IF n = 0 THEN "engine" ELSE "value"
  /\ made' = 0 /\ stack' = <<>> /\ live' = 0 /\ items' = 0
  /\ deep' = [null |-> 0, other |-> 0]

(* A null, or a number, a string or an array of numbers.  An update that    *)
(* returns null deletes, and encodes nothing.                              *)
EncodeLeaf(v) ==
  /\ pc = "value" /\ v \in {"null", "scalar"} /\ ~TooDeep(v)
  /\ v = "null" /\ stack = <<>> => call # "update"
  /\ live' = live + 1
  /\ Reach(v)
  /\ Completed(stack)
  /\ UNCHANGED <<call, stack, items>>

(* Mutant: the cap is one level too high. *)
OpenOffByOne(k) ==
  /\ pc = "value" /\ k \in Container /\ Level <= Cap + 1
  /\ live' = live + 1
  /\ Reach(k)
  /\ stack' = Append(stack, k)
  /\ pc' = "inside"
  /\ UNCHANGED <<call, todo, made, items>>

(* A list or a map: the container is made, then filled. *)
Open(k) ==
  /\ pc = "value" /\ k \in Container /\ ~TooDeep(k)
  /\ live' = live + 1
  /\ Reach(k)
  /\ stack' = Append(stack, k)
  /\ pc' = "inside"
  /\ UNCHANGED <<call, todo, made, items>>

(* Too deep, of no supported type, or out of memory: nothing is made. *)
Reject(v) ==
  /\ pc = "value"
  /\ v = "unsupported" \/ TooDeep(v) \/ Throws
  /\ pc' = "unwind"
  /\ UNCHANGED <<call, todo, made, stack, live, items, deep>>

NextItem ==
  /\ pc = "inside" /\ items < MaxItems
  /\ items' = items + 1
  /\ pc' = "value"
  /\ UNCHANGED <<call, todo, made, stack, live, deep>>

(* A key that is no String.  Kotlin frees the map before it throws, C on   *)
(* its way out.                                                            *)
BadKey ==
  /\ pc = "inside" /\ Innermost = "map"
  /\ IF InC THEN UNCHANGED <<stack, live>>
            ELSE stack' = Outer /\ live' = live - 1
  /\ pc' = "unwind"
  /\ UNCHANGED <<call, todo, made, items, deep>>

(* Reading the list or the map, or copying a key, fails. *)
IterationFails ==
  /\ Throws /\ pc = "inside"
  /\ pc' = "unwind"
  /\ UNCHANGED <<call, todo, made, stack, live, items, deep>>

(* Mutant: in Kotlin the container copies the item, and nobody frees it. *)
PushCopies ==
  /\ pc = "push"
  /\ live' = (IF InC THEN live - 1 ELSE live)
  /\ pc' = "inside"
  /\ UNCHANGED <<call, todo, made, stack, items, deep>>

(* The container takes the item. *)
Push ==
  /\ pc = "push"
  /\ live' = live - 1
  /\ pc' = "inside"
  /\ UNCHANGED <<call, todo, made, stack, items, deep>>

(* Mutant: an item that could not be pushed is freed, though it is consumed. *)
PushFailsTwice ==
  /\ Throws /\ pc = "push"
  /\ live' = live - 2
  /\ pc' = "unwind"
  /\ UNCHANGED <<call, todo, made, stack, items, deep>>

(* A push consumes its item even if it fails; but nValueMapPut, the put of *)
(* the Kotlin encoder, copies the key first, and a copy that fails consumes *)
(* nothing.                                                                *)
PushFails ==
  /\ Throws /\ pc = "push"
  /\ \/ live' = live - 1
     \/ ~InC /\ Innermost = "map" /\ UNCHANGED live
  /\ pc' = "unwind"
  /\ UNCHANGED <<call, todo, made, stack, items, deep>>

Close ==
  /\ pc = "inside"
  /\ stack' = Outer
  /\ Completed(Outer)
  /\ UNCHANGED <<call, live, items, deep>>

(* Mutant: only the innermost container is freed. *)
UnwindOne ==
  /\ pc = "unwind"
  /\ IF stack # <<>> /\ InC
       THEN stack' = <<>> /\ live' = live - 1 /\ UNCHANGED pc
       ELSE stack' = <<>> /\ UNCHANGED live /\ pc' = IF InC THEN "free" ELSE "idle"
  /\ UNCHANGED <<call, todo, made, items, deep>>

(* One frame of the recursion: C frees its container, Kotlin has no        *)
(* handler.  At the bottom, C goes on to free the documents it has made.   *)
Unwind ==
  /\ pc = "unwind"
  /\ IF stack # <<>>
       THEN stack' = Outer /\ live' = (IF InC THEN live - 1 ELSE live) /\ UNCHANGED pc
       ELSE pc' = (IF InC THEN "free" ELSE "idle") /\ UNCHANGED <<stack, live>>
  /\ UNCHANGED <<call, todo, made, items, deep>>

(* Keys and paths are copied and the engine is called, or not: either way  *)
(* a store goes on to free, an update hands its value over, and nPutMany   *)
(* frees its copies of the keys only.                                      *)
EngineCall ==
  /\ pc = "engine"
  /\ pc' = IF call = "store" THEN "free" ELSE "idle"
  /\ IF call = "update" THEN live' = live - made /\ made' = 0
                        ELSE UNCHANGED <<live, made>>
  /\ UNCHANGED <<call, todo, stack, items, deep>>

(* C frees the documents it has made, the ones before a failed one too.    *)
Free ==
  /\ pc = "free"
  /\ live' = live - made
  /\ made' = 0
  /\ pc' = "idle"
  /\ UNCHANGED <<call, todo, stack, items, deep>>

----------------------------------------------------------------------------
Init ==
  /\ call \in Calls
  /\ pc = "idle" /\ todo = 0 /\ made = 0 /\ stack = <<>> /\ live = 0 /\ items = 0
  /\ deep = [null |-> 0, other |-> 0]

Next ==
  \/ \E c \in Calls, n \in 0..MaxDocs : Begin(c, n)
  \/ \E v \in {"null", "scalar"} : EncodeLeaf(v)
  \/ \E k \in Container : Open(k)
  \/ \E v \in {"null", "scalar", "unsupported"} \cup Container : Reject(v)
  \/ NextItem \/ BadKey \/ IterationFails
  \/ Push \/ PushFails \/ Close
  \/ Unwind \/ EngineCall \/ Free

Spec == Init /\ [][Next]_vars

----------------------------------------------------------------------------
(* The types; nothing is freed that is not there.                          *)
TypeOK ==
  /\ call \in Calls /\ pc \in Step
  /\ todo \in Nat /\ made \in Nat /\ items \in Nat
  /\ live \in Nat
  /\ stack \in Seq(Container)
  /\ deep \in [null : Nat, other : Nat]

(* "Built as fresh C values and freed inside the same call": when a call   *)
(* returns or throws, none of the trees it built is left ...               *)
NothingLeft == pc = "idle" => live = 0

(* ... which the native methods that do the encoding themselves, in C,     *)
(* live up to on every path.                                               *)
NothingLeftByC == InC /\ pc = "idle" => live = 0

(* As long as nothing fails, each tree finds its place: when the engine is *)
(* called, no tree exists but the documents of the call.  So a store, an   *)
(* update and the encoder in Kotlin leave nothing behind on their own, and *)
(* what a putMany that succeeds leaks is its documents, all and only those. *)
DocumentsAreAll == pc = "engine" => live = made

(* "Converter-accepted == decodable": whichever encoder made them, the      *)
(* documents that reach the engine have nothing but nulls below level Cap, *)
(* the deepest the engine decodes.                                         *)
AcceptedIsDecodable == pc = "engine" => deep.other <= Cap

(* The inductive invariant.  Every tree of the call is a container being   *)
(* filled, an item about to be pushed, or a document; behind a failure in  *)
(* Kotlin there may be more, which were left behind.                       *)
Accounted ==
  LET owned == Len(stack) + made + (IF pc = "push" THEN 1 ELSE 0)
  IN  IF InC \/ pc \notin {"unwind", "idle"} THEN live = owned ELSE live >= owned

ShapeOK ==
  /\ pc \in {"idle", "engine", "free"} => stack = <<>>
  /\ pc \in {"inside", "push"} => stack # <<>>
  /\ pc = "value" => todo > 0
  /\ InC /\ pc = "idle" => made = 0
  /\ ~InC => pc # "free"
  /\ stack # <<>> /\ pc # "unwind" => todo > 0
  /\ Len(stack) <= Cap + 1
  /\ deep.other <= Cap

IInv == TypeOK /\ Accounted /\ ShapeOK
=============================================================================

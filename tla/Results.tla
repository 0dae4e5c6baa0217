------------------------------ MODULE Results ------------------------------
(***************************************************************************)
(* What the engine returns, on its way into the JVM.  A crossing takes the *)
(* next string, row, group, hit or field of a cursor, a page, or the       *)
(* arguments of a callback, and makes Java objects of it, part by part; a  *)
(* document among the parts is decoded in C, recursively, while it is      *)
(* borrowed.  "value" is the decoder in Kotlin, which asks for each child  *)
(* in a native call of its own.                                            *)
(*                                                                         *)
(* Every JNI call may fail and leave an exception pending.  The wrappers   *)
(* take a crossing that returns NULL without an exception for the end of   *)
(* the cursor.                                                             *)
(***************************************************************************)
EXTENDS Naturals, Sequences, FiniteSets

CONSTANTS
  Ops,        \* the crossings made
  MaxItems,   \* bound: items in the containers of a document
  MaxDepth,   \* bound: containers in one another (the engine's documents have 128)
  FrameSize,  \* local references a frame of decode_value has room for
  Throws      \* can JNI calls fail?

ASSUME BoundAssumption == MaxItems \in Nat /\ MaxDepth \in Nat /\ FrameSize \in Nat
ASSUME ThrowsAssumption == Throws \in BOOLEAN

VARIABLES
  op,       \* the crossing in progress, or the last one
  pc,       \* what it does next
  todo,     \* the parts still to be made
  stack,    \* the containers being filled, the innermost last
  keys,     \* key cursors the engine has handed out and not got back
  own,      \* buffers of a page that the shim has to free or to hand on
  item,     \* the value just decoded: "made", or "failed" with nothing made
  hole,     \* was a failed value put into its container?
  refused,  \* did the engine refuse a key cursor, or give a type unknown?
  pend,     \* is an exception pending?
  given,    \* did the crossing return something?
  items     \* items of the document so far

vars == <<op, pc, todo, stack, keys, own, item, hole, refused, pend, given, items>>
doc == <<stack, keys, item, hole, refused, items>>

Row   == <<"bytes", "doc", "box">>
Hit   == <<"bytes", "box", "doc">>
Group == <<"text", "box">>
Field == <<"text", "box", "box", "box">>
Page  == <<"box", "next">>
Scan  == <<"bytes", "doc">>
Value == <<"doc">>
Parts ==
  [str |-> <<"bytes">>, row |-> Row, hit |-> Hit, group |-> Group, field |-> Field,
   page |-> Page, scan |-> Scan, update |-> <<"doc">>, value |-> Value]
ASSUME OpsAssumption == Ops \subseteq DOMAIN Parts

InC == op # "value"
Callback == op \in {"scan", "update"}

(* A frame: its container, and the local references in it, among them the  *)
(* container itself.                                                       *)
Frame(k) == [kind |-> k, refs |-> 1]
FrameSet == [kind : {"list", "map"}, refs : Nat]
Top == stack[Len(stack)]
Outer == SubSeq(stack, 1, Len(stack) - 1)
WithRefs(n) == [stack EXCEPT ![Len(stack)].refs = n]

Throw == Throws /\ pend' = TRUE

(* The crossing returns NULL, and a page frees what it got. *)
GiveUp == pc' = "returned" /\ given' = FALSE /\ own' = {}

----------------------------------------------------------------------------
(* The engine has a next element, or a page, or calls back. *)
Begin(x) ==
  /\ pc \in {"idle", "returned"}
  /\ op' = x
  /\ todo' = Parts[x]
  /\ own' = IF x = "page" THEN {"rows", "next"} ELSE {}
  /\ pend' = FALSE /\ given' = FALSE /\ hole' = FALSE /\ refused' = FALSE
  /\ items' = 0 /\ item' = "made" /\ stack' = <<>> /\ keys' = 0
  /\ pc' = "part"

(* A part that is no document is made and set; the buffer with the next    *)
(* key of a page is freed once it is copied.                               *)
Part ==
  /\ pc = "part" /\ todo # <<>> /\ Head(todo) # "doc"
  /\ todo' = Tail(todo)
  /\ own' = IF Head(todo) = "next" THEN own \ {"next"} ELSE own
  /\ UNCHANGED <<op, doc, pend, given, pc>>

(* The array, or the part, cannot be made. *)
PartFails ==
  /\ pc = "part" /\ todo # <<>> /\ Head(todo) # "doc"
  /\ Throw
  /\ GiveUp
  /\ UNCHANGED <<op, todo, doc>>

DocBegins ==
  /\ pc = "part" /\ todo # <<>> /\ Head(todo) = "doc"
  /\ pc' = "decode"
  /\ UNCHANGED <<op, todo, doc, own, pend, given>>

(* Mutant: the bridges call back whatever the decoder returned. *)
DocEndsUnchecked ==
  /\ pc = "item" /\ stack = <<>>
  /\ todo' = Tail(todo)
  /\ hole' = (hole \/ item = "failed")
  /\ pc' = "part"
  /\ UNCHANGED <<op, stack, keys, item, refused, pend, items, given, own>>

(* A row and a hit take what the decoder returned, NULL with an exception  *)
(* too, and make the parts behind it; a bridge stops, and so does Kotlin.  *)
DocEnds ==
  /\ pc = "item" /\ stack = <<>>
  /\ todo' = Tail(todo)
  /\ hole' = (hole \/ item = "failed")
  /\ IF pend /\ (Callback \/ ~InC) THEN GiveUp
                                   ELSE pc' = "part" /\ UNCHANGED <<given, own>>
  /\ UNCHANGED <<op, stack, keys, item, refused, pend, items>>

(* Mutant: nRowsNext returns what it has, without its last ExceptionCheck. *)
FinishUnchecked ==
  /\ pc = "part" /\ todo = <<>>
  /\ given' = TRUE /\ pc' = "returned"
  /\ UNCHANGED <<op, todo, doc, own, pend>>

(* The last ExceptionCheck; or the callback is invoked, which has none. *)
Finish ==
  /\ pc = "part" /\ todo = <<>>
  /\ IF pend /\ ~Callback THEN GiveUp
                          ELSE given' = TRUE /\ pc' = "returned" /\ UNCHANGED own
  /\ UNCHANGED <<op, todo, doc, pend>>

----------------------------------------------------------------------------
(* decode_value and Values.decode.                                         *)

(* A value without children; or one of any kind that cannot be made. *)
Scalar ==
  /\ pc = "decode"
  /\ pc' = "item"
  /\ \/ item' = "made" /\ UNCHANGED pend
     \/ item' = "failed" /\ Throw
  /\ UNCHANGED <<op, todo, stack, keys, own, hole, refused, given, items>>

(* A type neither decoder knows: NULL in C, an exception in Kotlin.        *)
Unknown ==
  /\ pc = "decode"
  /\ pc' = "item"
  /\ item' = "failed" /\ refused' = TRUE
  /\ pend' = (pend \/ ~InC)
  /\ UNCHANGED <<op, todo, stack, keys, own, hole, given, items>>

(* A list or a map is made, in a frame of its own.  A map that is not      *)
(* empty needs a key cursor; one that the engine refuses is NULL in C, and *)
(* an exception in Kotlin.                                                 *)
Container(k) ==
  /\ pc = "decode" /\ Len(stack) < MaxDepth
  /\ \/ /\ stack' = Append(stack, Frame(k)) /\ pc' = "inside"
        /\ keys' = IF k = "map" THEN keys + 1 ELSE keys
        /\ UNCHANGED <<item, refused, pend>>
     \/ /\ k = "map" /\ refused' = TRUE
        /\ pend' = (pend \/ ~InC)
        /\ item' = "failed" /\ pc' = "item"
        /\ UNCHANGED <<stack, keys>>
  /\ UNCHANGED <<op, todo, own, hole, given, items>>

(* The next child, behind its key. *)
Child ==
  /\ pc = "inside" /\ items < MaxItems
  /\ items' = items + 1
  /\ stack' = IF Top.kind = "map" THEN WithRefs(Top.refs + 1) ELSE stack
  /\ pc' = "decode"
  /\ UNCHANGED <<op, todo, keys, own, item, hole, refused, pend, given>>

(* Mutant: the cursor is freed here and once more on the way out. *)
KeyFailsTwice ==
  /\ pc = "inside" /\ Top.kind = "map"
  /\ Throw
  /\ stack' = Outer
  /\ keys' = keys - 2
  /\ item' = "failed" /\ pc' = "item"
  /\ UNCHANGED <<op, todo, own, hole, refused, given, items>>

(* The key of the child cannot be copied.  C frees the cursor and pops the *)
(* frame, Kotlin has no finally.                                           *)
KeyFails ==
  /\ pc = "inside" /\ Top.kind = "map"
  /\ Throw
  /\ stack' = Outer
  /\ keys' = IF InC THEN keys - 1 ELSE keys
  /\ item' = "failed" /\ pc' = "item"
  /\ UNCHANGED <<op, todo, own, hole, refused, given, items>>

(* Mutant: the reference to the child is not deleted. *)
PutKeepsChild ==
  /\ pc = "item" /\ stack # <<>> /\ ~pend
  /\ hole' = (hole \/ item = "failed")
  /\ stack' = WithRefs(Top.refs + 1)
  /\ pc' = "inside"
  /\ UNCHANGED <<op, todo, keys, own, item, refused, pend, given, items>>

(* The child, and its key, are put into the container, and their           *)
(* references deleted.                                                     *)
Put ==
  /\ pc = "item" /\ stack # <<>> /\ ~pend
  /\ hole' = (hole \/ item = "failed")
  /\ stack' = WithRefs(1)
  /\ pc' = "inside"
  /\ UNCHANGED <<op, todo, keys, own, item, refused, pend, given, items>>

(* Mutant: only the path of the key frees the cursor. *)
UnwindLeavesKeys ==
  /\ pc = "item" /\ stack # <<>>
  /\ pend \/ Throws
  /\ pend' = TRUE
  /\ stack' = Outer
  /\ item' = "failed"
  /\ UNCHANGED <<op, pc, todo, keys, own, hole, refused, given, items>>

(* The child has failed with an exception, or cannot be put: the container *)
(* is given up, level by level.                                            *)
Unwind ==
  /\ pc = "item" /\ stack # <<>>
  /\ pend \/ Throws
  /\ pend' = TRUE
  /\ stack' = Outer
  /\ keys' = IF InC /\ Top.kind = "map" THEN keys - 1 ELSE keys
  /\ item' = "failed"
  /\ UNCHANGED <<op, pc, todo, own, hole, refused, given, items>>

(* No child is left. *)
Complete ==
  /\ pc = "inside"
  /\ stack' = Outer
  /\ keys' = IF Top.kind = "map" THEN keys - 1 ELSE keys
  /\ item' = "made" /\ pc' = "item"
  /\ UNCHANGED <<op, todo, own, hole, refused, pend, given, items>>

----------------------------------------------------------------------------
Init ==
  /\ op \in Ops /\ pc = "idle" /\ todo = <<>>
  /\ stack = <<>> /\ keys = 0 /\ own = {} /\ item = "made" /\ items = 0
  /\ hole = FALSE /\ refused = FALSE /\ pend = FALSE /\ given = FALSE

Next ==
  \/ \E x \in Ops : Begin(x)
  \/ Part \/ PartFails \/ DocBegins \/ DocEnds \/ Finish
  \/ Scalar \/ Unknown \/ (\E k \in {"list", "map"} : Container(k))
  \/ Child \/ KeyFails \/ Put \/ Unwind \/ Complete

Spec == Init /\ [][Next]_vars

----------------------------------------------------------------------------
TypeOK ==
  /\ op \in Ops /\ pc \in {"part", "decode", "inside", "item", "idle", "returned"}
  /\ todo \in Seq({"bytes", "text", "box", "next", "doc"})
  /\ stack \in Seq(FrameSet)
  /\ keys \in Nat /\ items \in Nat /\ own \subseteq {"rows", "next"}
  /\ item \in {"made", "failed"}
  /\ {hole, refused, pend, given} \subseteq BOOLEAN

(* A walk never ends early in silence: a crossing that had an element to   *)
(* give and returned NULL has left an exception pending, and one that      *)
(* returned or passed on something has not.                                *)
NullMeansEnd == pc = "returned" => (given <=> ~pend)

(* "A decoded map is always complete": of the documents that the JVM is    *)
(* given, none lacks a value that could not be made, whether by the        *)
(* decoders' own failures or by the crossing's, and on no level; except,   *)
(* in C, where the engine refused a key cursor or had a type unknown.      *)
GivenIsWhole == pc = "returned" /\ given => (hole => InC /\ refused)

(* On every path, the engine gets its key cursors back from the decoder in *)
(* C, once, and from the one in Kotlin wherever it does not throw; a page  *)
(* its next key; the rows of a page are freed, or handed on with the array. *)
NothingHeld ==
  pc = "returned" =>
    /\ InC \/ given => keys = 0
    /\ own = IF op = "page" /\ given THEN {"rows"} ELSE {}

(* "Frames bound the local refs; loops delete their temporaries": however  *)
(* many items a container has, its frame has room for the three references *)
(* that utf8_to_jstring needs at a time to make a key, which are more than *)
(* the child and the replaced value that a put needs.                      *)
RefsFit == \A i \in DOMAIN stack : stack[i].refs + 3 <= FrameSize

----------------------------------------------------------------------------
(* The inductive invariant behind them.                                    *)

(* The decoder decodes for a part still to be made.  While it is inside of *)
(* a container, only the container itself has a reference in the frame;    *)
(* elsewhere a key may have another.                                       *)
StackOK ==
  /\ pc \in {"idle", "part", "returned"} => stack = <<>>
  /\ pc \in {"decode", "inside", "item"} => todo # <<>>
  /\ pc = "inside" => stack # <<>> /\ Top.refs = 1
  /\ \A i \in DOMAIN stack : stack[i].refs <= 2

(* One key cursor is out for each map that is being filled; in Kotlin, the *)
(* ones too that an exception left behind.                                 *)
Maps(s) == Cardinality({i \in DOMAIN s : s[i].kind = "map"})
KeysOK == keys >= Maps(stack) /\ (InC \/ ~pend => keys = Maps(stack))

(* What is missing is known, by an exception or by a refusal, until the    *)
(* crossing returns.                                                       *)
PendOK ==
  /\ pc = "part" /\ pend => InC /\ ~Callback
  /\ hole \/ (pc = "item" /\ item = "failed") => pend \/ (InC /\ refused)
  /\ pc = "returned" => (given <=> ~pend)

(* A page has no documents, and its next key until it is copied. *)
PageOK ==
  /\ op # "page" => own = {}
  /\ op = "page" =>
       /\ pc \in {"idle", "part", "returned"}
       /\ pc = "part" =>
            \/ todo \in {Page, <<"next">>} /\ own = {"rows", "next"}
            \/ todo = <<>> /\ own = {"rows"}
       /\ pc = "returned" => own = IF given THEN {"rows"} ELSE {}

IInv == TypeOK /\ StackOK /\ KeysOK /\ PendOK /\ PageOK
=============================================================================

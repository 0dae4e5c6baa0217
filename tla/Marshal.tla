------------------------------ MODULE Marshal ------------------------------
(***************************************************************************)
(* The arguments of a native call on their way through the JNI shim.  Each *)
(* byte array is copied into memory of its own, an array of byte arrays    *)
(* into tables of such copies, and an array of numbers is pinned; the      *)
(* engine is called with the copies; then all of it is given back.  Any    *)
(* copy can fail, half way through an array too, and every exit of a       *)
(* method has a list of its own of what it frees.                          *)
(*                                                                         *)
(* A native method is told apart by what it needs; of those with the same  *)
(* needs and the same exits one stands for all.  A document that is        *)
(* encoded counts as a copy; how it is encoded is in ValueTransit.         *)
(***************************************************************************)
EXTENDS Naturals

CONSTANTS
  MaxCount,  \* bound: elements of an array argument
  Throws     \* can a copy, an allocation or a pin fail, for want of memory?

ASSUME CountAssumption == MaxCount \in Nat
ASSUME ThrowsAssumption == Throws \in BOOLEAN

VARIABLES
  m,      \* the native method in progress, or the last one
  pc,     \* what it does next
  count,  \* the length of its array argument
  done,   \* the elements copied, as the cleanup counts them
  cell,   \* [Cells -> Pointer]: the tables of pointers, one lane per array
  held,   \* the other copies, the tables and the pins it has not given back
  pend,   \* is an exception pending?
  sent    \* has the engine been called?

vars == <<m, pc, count, done, cell, held, pend, sent>>

Need(c, t, p, l) == [copies |-> c, tables |-> t, pins |-> p, lanes |-> l]
OneArgument    == Need(1, 0, 0, 0)
TwoArguments   == Need(2, 0, 0, 0)
ThreeArguments == Need(3, 0, 0, 0)
FieldAndVector == Need(1, 0, 1, 0)   \* an empty vector is not pinned
Names          == Need(0, 2, 0, 1)   \* byte arrays, lengths
Pairs          == Need(0, 1, 1, 1)   \* items; the value handles
Definitions    == Need(0, 1, 3, 1)   \* definitions; types, required, unique
Values         == Need(0, 1, 0, 1)   \* values, encoded instead of copied
Renames        == Need(1, 4, 0, 2)   \* the path; old and new names, lengths

Needs ==
  [nCreateTextIndex |-> OneArgument, nNeighbors |-> TwoArguments, nLink |-> ThreeArguments,
   nQueryVector |-> FieldAndVector, nDeleteBatch |-> Names, nQuerySelect |-> Names,
   nPutMany |-> Pairs, nSetSchema |-> Definitions, nPredIn |-> Values,
   nLoadWithRenames |-> Renames]
Method == DOMAIN Needs

(* An uninitialised word of a table, a copy, or the address of the static  *)
(* byte that stands for an array that is null.                             *)
Pointer == {"unset", "copy", "static"}
Cells == (1..2) \X (1..MaxCount)
Lanes == 1..Needs[m].lanes
Elements == IF Needs[m].lanes = 0 THEN 0 ELSE count
Unset == [c \in Cells |-> "unset"]

Kinds == {"copy", "table", "pin"}
Of(kind, n) == {<<kind, i>> : i \in 1..n}
Copies == Of("copy", Needs[m].copies)
Tables == Of("table", Needs[m].tables)
Pins == Of("pin", IF m = "nQueryVector" /\ count = 0 THEN 0 ELSE Needs[m].pins)

(* The lists of strings are made by the wrappers and have no null in them. *)
(* A list of keys is the client's.                                         *)
MayBeNull == m \in {"nDeleteBatch", "nPutMany"}

Fail == Throws /\ pend' = TRUE
GiveBack(rs) == held' = held \ rs

----------------------------------------------------------------------------
Call(x, n) ==
  /\ pc \in {"idle", "returned"}
  /\ m' = x /\ count' = n
  /\ pc' = "copy"
  /\ done' = 0 /\ cell' = Unset
  /\ pend' = FALSE /\ sent' = FALSE
  /\ UNCHANGED held

(* Keys and documents of different number. *)
Mismatch ==
  /\ pc = "copy" /\ m = "nPutMany"
  /\ pend' = TRUE /\ pc' = "returned"
  /\ UNCHANGED <<m, count, done, cell, held, sent>>

(* The next of the single arguments. *)
Copy ==
  /\ pc = "copy"
  /\ \E r \in Copies :
       /\ r \notin held /\ \A i \in 1..(r[2] - 1) : <<"copy", i>> \in held
       /\ held' = held \cup {r}
  /\ UNCHANGED <<m, pc, count, done, cell, pend, sent>>

CopyFails ==
  /\ pc = "copy" /\ ~(Copies \subseteq held)
  /\ Fail
  /\ GiveBack(Copies)
  /\ pc' = "returned"
  /\ UNCHANGED <<m, count, done, cell, sent>>

(* All tables are asked for; with one of them missing, the others are      *)
(* freed.                                                                  *)
Allocate ==
  /\ pc = "copy" /\ Copies \subseteq held
  /\ \/ held' = held \cup Tables /\ pc' = "pin" /\ UNCHANGED pend
     \/ \E got \in SUBSET Tables :
          /\ got # Tables
          /\ Fail
          /\ held' = (held \cup got) \ (Tables \cup Copies)
          /\ pc' = "returned"
  /\ UNCHANGED <<m, count, done, cell, sent>>

(* Mutant: setSchema forgets its table when an array cannot be pinned. *)
PinLeavesTable ==
  /\ pc = "pin"
  /\ \/ held' = held \cup Pins /\ pc' = "loop" /\ UNCHANGED pend
     \/ \E got \in SUBSET Pins :
          /\ got # Pins
          /\ Fail
          /\ held' = (held \cup got) \ (Pins \cup Copies)
          /\ pc' = "returned"
  /\ UNCHANGED <<m, count, done, cell, sent>>

(* All arrays of numbers are pinned; with one of them missing, the others  *)
(* are released, and the tables and copies freed.                          *)
Pin ==
  /\ pc = "pin"
  /\ \/ held' = held \cup Pins /\ pc' = "loop" /\ UNCHANGED pend
     \/ \E got \in SUBSET Pins :
          /\ got # Pins
          /\ Fail
          /\ held' = (held \cup got) \ (Pins \cup Tables \cup Copies)
          /\ pc' = "returned"
  /\ UNCHANGED <<m, count, done, cell, sent>>

(* Mutant: the loop runs one element too far. *)
ElementPastEnd ==
  /\ pc = "loop" /\ done <= Elements
  /\ cell' = [c \in Cells |->
                IF c[1] \in Lanes /\ c[2] = done + 1 THEN "copy" ELSE cell[c]]
  /\ done' = done + 1
  /\ UNCHANGED <<m, pc, count, held, pend, sent>>

(* One element is copied, in every lane. *)
Element ==
  /\ pc = "loop" /\ done < Elements
  /\ \E p \in {"copy"} \cup (IF MayBeNull THEN {"static"} ELSE {}) :
       cell' = [c \in Cells |->
                  IF c[1] \in Lanes /\ c[2] = done + 1 THEN p ELSE cell[c]]
  /\ done' = done + 1
  /\ UNCHANGED <<m, pc, count, held, pend, sent>>

(* Mutant: the element that failed is counted. *)
ElementFailsCounted(l) ==
  /\ pc = "loop" /\ done < Elements /\ l \in Lanes
  /\ Fail
  /\ cell' = [c \in Cells |->
                IF c[1] < l /\ c[2] = done + 1 THEN "copy" ELSE cell[c]]
  /\ done' = done + 1
  /\ pc' = "path"
  /\ UNCHANGED <<m, count, held, sent>>

(* An element cannot be copied: the loop is left and the elements counted  *)
(* before it are freed.  Where the new name of a pair fails, its old name  *)
(* is there already, and the pair is counted.                              *)
ElementFails(l) ==
  /\ pc = "loop" /\ done < Elements /\ l \in Lanes
  /\ Fail
  /\ cell' = [c \in Cells |->
                IF c[1] < l /\ c[2] = done + 1 THEN "copy" ELSE cell[c]]
  /\ done' = IF l = 1 THEN done ELSE done + 1
  /\ pc' = "path"
  /\ UNCHANGED <<m, count, held, sent>>

LoopEnds ==
  /\ pc = "loop" /\ done = Elements
  /\ pc' = "path"
  /\ UNCHANGED <<m, count, done, cell, held, pend, sent>>

(* nPredIn copies its path behind the loop, an exception pending or not. *)
Path ==
  /\ pc = "path"
  /\ \/ held' = (IF m = "nPredIn" THEN held \cup {<<"copy", 1>>} ELSE held)
        /\ UNCHANGED pend
     \/ m = "nPredIn" /\ Fail /\ UNCHANGED held
  /\ pc' = "engine"
  /\ UNCHANGED <<m, count, done, cell, sent>>

(* Mutant: an array that could not be copied is passed on as far as it is. *)
EngineCallAnyway ==
  /\ pc = "engine"
  /\ sent' = (m = "nPredIn" => <<"copy", 1>> \in held)
  /\ pc' = "release"
  /\ UNCHANGED <<m, count, done, cell, held, pend>>

(* The engine is called if all elements, and the path, are there. *)
EngineCall ==
  /\ pc = "engine"
  /\ sent' = (done = Elements /\ (m = "nPredIn" => <<"copy", 1>> \in held))
  /\ pc' = "release"
  /\ UNCHANGED <<m, count, done, cell, held, pend>>

(* The last exit: the elements counted, the tables, the pins, the single   *)
(* arguments, or what there is of them.                                    *)
Release ==
  /\ pc = "release"
  /\ cell' = [c \in Cells |->
                IF c[1] \in Lanes /\ c[2] <= done THEN "unset" ELSE cell[c]]
  /\ GiveBack(Tables \cup Pins \cup Copies \cup
              (IF m = "nPredIn" THEN {<<"copy", 1>>} ELSE {}))
  /\ pc' = "returned"
  /\ UNCHANGED <<m, count, done, pend, sent>>

----------------------------------------------------------------------------
Init ==
  /\ m \in Method /\ count = 0 /\ done = 0
  /\ pc = "idle" /\ cell = Unset /\ held = {}
  /\ pend = FALSE /\ sent = FALSE

Next ==
  \/ \E x \in Method, n \in 0..MaxCount : Call(x, n)
  \/ Mismatch \/ Copy \/ CopyFails \/ Allocate \/ Pin
  \/ Element \/ (\E l \in 1..2 : ElementFails(l)) \/ LoopEnds
  \/ Path \/ EngineCall \/ Release

Spec == Init /\ [][Next]_vars

----------------------------------------------------------------------------
TypeOK ==
  /\ m \in Method
  /\ pc \in {"idle", "copy", "pin", "loop", "path", "engine", "release", "returned"}
  /\ count \in 0..MaxCount /\ done \in 0..Elements
  /\ cell \in [Cells -> Pointer]
  /\ held \subseteq Kinds \X (1..4)
  /\ pend \in BOOLEAN /\ sent \in BOOLEAN

(* The one failure whose cleanup is wrong: a new name that cannot be       *)
(* copied leaves its word of the table uninitialised behind the old name   *)
(* that is there, and the pair, i, is counted.                             *)
HalfPair(i) ==
  /\ m = "nLoadWithRenames" /\ pend /\ i = done
  /\ cell[<<1, i>>] = "copy" /\ cell[<<2, i>>] = "unset"

(* With the last pair all are counted, and the engine is called.           *)
LastPairFailed == m = "nLoadWithRenames" /\ pend /\ done = Elements /\ done > 0

(* "free() it": each pointer the last exit passes to free() is a copy that *)
(* this call made, not an uninitialised word, and not the static byte      *)
(* unless the client's list of keys had a null in it; but for the word of  *)
(* the one new name that could not be copied.                              *)
FreesOwnCopies ==
  pc = "release" =>
    \A l \in Lanes, i \in 1..done :
      \/ cell[<<l, i>>] = "copy"
      \/ cell[<<l, i>>] = "static" /\ MayBeNull
      \/ l = 2 /\ HalfPair(i)

(* Whatever fails, and wherever, nothing that was copied, allocated or     *)
(* pinned is left when the method returns.                                 *)
NothingLeft ==
  pc = "returned" => held = {} /\ \A c \in Cells : cell[c] # "copy"

(* The engine is called with all arguments or not at all, and a call that  *)
(* did not reach it returns with an exception pending: the wrapper never   *)
(* takes the status of the shim itself for a failure of the engine, to     *)
(* report the engine's last error, which is then an older one.  Only when  *)
(* the last new name cannot be copied is the engine called all the same.   *)
EngineOrException ==
  pc = "returned" /\ ~LastPairFailed => (sent <=> ~pend)

----------------------------------------------------------------------------
(* The inductive invariant behind them. *)

(* What may be held where the method is, and nothing before and after it. *)
HeldOK ==
  /\ pc \in {"idle", "returned"} => held = {}
  /\ pc = "copy" => held \subseteq Copies
  /\ pc = "pin" => held \subseteq Copies \cup Tables
  /\ pc \in {"loop", "path"} => held \subseteq Copies \cup Tables \cup Pins
  /\ pc \in {"engine", "release"} =>
       held \subseteq Copies \cup Tables \cup Pins
                      \cup (IF m = "nPredIn" THEN {<<"copy", 1>>} ELSE {})

(* The tables hold the elements that are counted, and no others. *)
CellsOK ==
  /\ pc \in {"copy", "pin"} => done = 0
  /\ IF pc \in {"loop", "path", "engine", "release"}
       THEN \A c \in Cells :
              IF c[1] \in Lanes /\ c[2] <= done
                THEN \/ cell[c] = "copy"
                     \/ cell[c] = "static" /\ MayBeNull
                     \/ c[1] = 2 /\ HalfPair(c[2])
                ELSE cell[c] = "unset"
       ELSE \A c \in Cells : cell[c] = "unset"

(* An exception is pending if and only if something is missing. *)
PendOK ==
  /\ pc \in {"copy", "pin", "loop"} => ~pend
  /\ pc \in {"copy", "pin", "loop", "path", "engine"} => ~sent
  /\ ~LastPairFailed =>
       /\ pc = "path" => (pend <=> done # Elements)
       /\ pc = "engine" =>
            (pend <=> ~(done = Elements /\ (m = "nPredIn" => <<"copy", 1>> \in held)))
       /\ pc \in {"release", "returned"} => (sent <=> ~pend)

IInv == TypeOK /\ HeldOK /\ CellsOK /\ PendOK
=============================================================================

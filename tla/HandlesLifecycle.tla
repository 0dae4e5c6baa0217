-------------------------- MODULE HandlesLifecycle --------------------------
(***************************************************************************)
(* Handles implements Lifecycle.  An object is open as long as its flag is *)
(* not set and its allocation stands, spent once the flag is set and the   *)
(* allocation still stands, released once the engine freed it.             *)
(***************************************************************************)
EXTENDS Handles

Stands(o) == obj[o].h # None /\ heap[obj[o].h].by = o

Phase(o) ==
  IF obj[o].kind = "unborn" THEN "unborn"
  ELSE IF o \notin gone THEN IF Stands(o) THEN "open" ELSE "dangling"
  ELSE IF Stands(o) THEN "spent" ELSE "released"

phase == [o \in Object |-> Phase(o)]
home == [o \in Object |-> IF Stands(o) THEN heap[obj[o].h].eng ELSE None]

L == INSTANCE Lifecycle WITH
       phase <- phase, home <- home, Object <- Object, None <- None

(* The detailed specification implements the abstract one: every flag,     *)
(* native call and free, on reused addresses, is a forward move of one     *)
(* object, and nothing is derived from an object already closed.           *)
ImplementsLifecycle == L!Spec

(* Whatever is closed or consumed is released, if clients never pass a     *)
(* predicate or a query that is gone.                                      *)
SpentIsReleased == L!SpentIsReleased

(* The safety half of it, in two parts.  A spent object whose allocation   *)
(* still stands is in the hands of a native call that will free it, ...    *)
SpentAreInHands ==
  \A o \in Object : phase[o] = "spent" =>
    \E t \in Thread : InNative(t) /\ o \in call[t].takes

(* ... and no call lets go of what it took without releasing it, whether   *)
(* it succeeds or fails and whichever spent objects clients pass.          *)
HandsLetGoReleased ==
  [][\A t \in Thread : \A o \in call[t].takes :
       o \in call'[t].takes \/ phase'[o] = "released"]_vars

(* An engine that no allocation keeps open is closed for good.             *)
EnginesCloseOnce == L!EnginesCloseOnce
=============================================================================

----------------------------- MODULE Lifecycle -----------------------------
(***************************************************************************)
(* What the lifetime table of the binding promises of a handle, without    *)
(* addresses, threads and calls: an object opens once, is given up once    *)
(* (closed or consumed) and is released once, and an engine is open as     *)
(* long as an object belongs to it and never again after that.             *)
(***************************************************************************)
CONSTANTS Object, None

VARIABLES
  phase,  \* [Object -> "unborn", "open", "spent", "released"]
  home    \* [Object -> the Db that opened the engine it belongs to, or None]

vars == <<phase, home>>

Init ==
  /\ phase = [o \in Object |-> "unborn"]
  /\ home = [o \in Object |-> None]

(* An object moves forward only.  A query terminal spends and releases its *)
(* query in one go; the close of an owner and the consumption of a         *)
(* predicate take two moves, so that others can be seen in between.        *)
Forward ==
  {<<"unborn", "open">>, <<"open", "spent">>, <<"open", "released">>,
   <<"spent", "released">>}

Move(o) == phase'[o] = phase[o] \/ <<phase[o], phase'[o]>> \in Forward

(* A new object is a Db with an engine of its own, belongs to the engine   *)
(* of an object that is still open, or is a predicate, which has none; it  *)
(* belongs to that engine until it is released.                            *)
Belong(o) ==
  \/ phase'[o] = phase[o] /\ home'[o] = home[o]
  \/ phase[o] = "unborn" /\ phase'[o] = "open" /\ home'[o] \in {o, None} \cup
       {home[p] : p \in {q \in Object : phase[q] = "open"}}
  \/ phase'[o] = "spent" /\ home'[o] = home[o]
  \/ phase'[o] = "released" /\ home'[o] = None

Next ==
  /\ phase' = [o \in Object |-> phase'[o]]
  /\ home' = [o \in Object |-> home'[o]]
  /\ \A o \in Object : Move(o) /\ Belong(o)

Spec == Init /\ [][Next]_vars

(* Only what is open or spent belongs to an engine, and only to that of an *)
(* object that was born.                                                   *)
HomesAreBorn ==
  /\ phase \in [Object -> {"unborn", "open", "spent", "released"}]
  /\ \A o \in Object :
       /\ phase[o] \in {"unborn", "released"} => home[o] = None
       /\ home[o] # None => home[o] \in Object /\ phase[home[o]] # "unborn"

(* An engine that no object belongs to any more is closed, and stays so:   *)
(* no object that is still around brings it back.                          *)
EnginesCloseOnce ==
  [][\A d \in Object :
       phase[d] # "unborn" /\ (\A o \in Object : home[o] # d)
         => \A o \in Object : home'[o] # d]_vars

(* Nobody forgets an object half way: what was given up is released.       *)
SpentIsReleased == \A o \in Object : phase[o] = "spent" ~> phase[o] = "released"
=============================================================================

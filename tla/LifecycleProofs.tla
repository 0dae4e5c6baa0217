-------------------------- MODULE LifecycleProofs --------------------------
(***************************************************************************)
(* What the lifetime table promises, from its moves alone, for every set   *)
(* of objects.                                                             *)
(***************************************************************************)
EXTENDS Lifecycle, TLAPS

LEMMA InitHomes == Init => HomesAreBorn
BY DEF Init, HomesAreBorn

LEMMA NextHomes ==
  ASSUME None \notin Object
  PROVE  HomesAreBorn /\ [Next]_vars => HomesAreBorn'
<1> SUFFICES ASSUME HomesAreBorn, [Next]_vars PROVE HomesAreBorn'
  OBVIOUS
<1>1. CASE UNCHANGED vars
  BY <1>1 DEF HomesAreBorn, vars
<1>2. CASE Next
  <2>1. \A o \in Object : Move(o) /\ Belong(o)
    BY <1>2 DEF Next
  <2>2. \A o \in Object :
          /\ phase'[o] \in {"unborn", "open", "spent", "released"}
          /\ phase[o] # "unborn" => phase'[o] # "unborn"
          /\ phase'[o] \in {"unborn", "released"} => home'[o] = None
    BY <2>1 DEF Move, Belong, Forward, HomesAreBorn
  <2>3. phase' \in [Object -> {"unborn", "open", "spent", "released"}]
    <3>1. phase' = [o \in Object |-> phase'[o]]
      BY <1>2 DEF Next
    <3> QED
      BY <2>2, <3>1
  <2>4. ASSUME NEW o \in Object, home'[o] # None
        PROVE  home'[o] \in Object /\ phase'[home'[o]] # "unborn"
    <3>1. CASE home'[o] = home[o]
      BY <2>2, <2>4, <3>1 DEF HomesAreBorn
    <3>2. CASE phase'[o] = "open" /\ home'[o] = o
      BY <3>2
    <3>3. ASSUME NEW p \in Object, home'[o] = home[p]
          PROVE  home'[o] \in Object /\ phase'[home'[o]] # "unborn"
      BY <2>2, <2>4, <3>3 DEF HomesAreBorn
    <3> QED
      BY <2>1, <2>4, <3>1, <3>2, <3>3 DEF Belong
  <2> QED
    BY <2>2, <2>3, <2>4 DEF HomesAreBorn
<1> QED
  BY <1>1, <1>2

(* In every behaviour of the table, homes are engines of born objects.     *)
THEOREM HomesStayBorn == None \notin Object => (Spec => []HomesAreBorn)
<1> SUFFICES ASSUME None \notin Object PROVE Spec => []HomesAreBorn
  OBVIOUS
<1>1. HomesAreBorn /\ [Next]_vars => HomesAreBorn'
  BY NextHomes
<1> QED
  BY InitHomes, <1>1, PTL DEF Spec

(* An engine closes with the last object that belongs to it, and for good: *)
(* the file lock is not taken again behind the client's back.              *)
THEOREM EnginesStayClosed == None \notin Object => (Spec => EnginesCloseOnce)
<1> SUFFICES ASSUME None \notin Object PROVE Spec => EnginesCloseOnce
  OBVIOUS
<1> DEFINE Closed ==
      \A d \in Object :
        phase[d] # "unborn" /\ (\A o \in Object : home[o] # d)
          => \A o \in Object : home'[o] # d
<1>1. [Next]_vars => Closed \/ UNCHANGED vars
  <2> SUFFICES ASSUME Next, NEW d \in Object, phase[d] # "unborn",
                      \A o \in Object : home[o] # d,
                      NEW o \in Object, home'[o] = d
               PROVE  FALSE
    OBVIOUS
  <2> QED
    BY DEF Next, Belong
<1> QED
  BY <1>1, PTL DEF Spec, EnginesCloseOnce
=============================================================================

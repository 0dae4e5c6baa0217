-------------------------- MODULE MCNativeLoading --------------------------
(* NativeLoading for a few processes and two versions of the jar, whose    *)
(* libraries differ in length but not in their FFI version.                *)
EXTENDS NativeLoading, TLC

CONSTANTS v1, v2
Lengths == (v1 :> 1) @@ (v2 :> 2)
SameAbi == [v \in Version |-> 1]
AllLink == Version \X Version
OneLength == [v \in Version |-> 2]

World(o, f, a, l) == [overlap |-> o, faults |-> f, atomic |-> a, locks |-> l]
Upgrades == {World(FALSE, f, a, l) : f \in BOOLEAN, a \in BOOLEAN, l \in BOOLEAN}
Races == {World(TRUE, FALSE, TRUE, l) : l \in BOOLEAN}
AllWorlds == Upgrades \cup Races
Plain == {World(TRUE, FALSE, TRUE, FALSE)}
Symmetry == Permutations(Jvm)
=============================================================================

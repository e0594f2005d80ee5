----------------------------- MODULE MCGcSweep -----------------------------
(***************************************************************************)
(* Small instances of GcSweep.                                             *)
(***************************************************************************)
EXTENDS GcSweep, TLC

CONSTANTS b1, b2, b3, t1, t2

TwoBlocks == {b1, b2}
ThreeBlocks == {b1, b2, b3}
OneThread == {t1}
TwoThreads == {t1, t2}
Symmetry == Permutations(Blocks) \union Permutations(Threads)

NoFinalizers == \A t \in Threads : fin[t] = NoFin
NoWeak == \A b \in Blocks : weak[b] = Nil

(* One weak reference, and not while there are finalizers.                 *)
WeakOrFinalizers ==
    NoWeak \/ /\ NoFinalizers /\ finalizer = {}
              /\ \A b \in Blocks : place[b] \notin {"pending", "called"}
              /\ Cardinality({b \in Blocks : weak[b] # Nil}) = 1
=============================================================================

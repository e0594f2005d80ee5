------------------------------ MODULE MCGcStw ------------------------------
(***************************************************************************)
(* Small instances of GcStw: the registered main thread and two threads    *)
(* that come and go.                                                       *)
(***************************************************************************)
EXTENDS GcStw, TLC

CONSTANTS main, a, b

MCThreads == {main, a, b}
MCTwoThreads == {main, a}
MCSymmetry == Permutations({a, b})
=============================================================================

------------------------------ MODULE MCGcMark ------------------------------
(***************************************************************************)
(* Small instances of GcMark: two threads, two or three blocks with one    *)
(* field, one static slot.                                                 *)
(***************************************************************************)
EXTENDS GcMark, TLC

CONSTANTS o1, o2, o3, t1, t2, f1, f2, s1

MCThree == {o1, o2, o3}
MCTwo == {o1, o2}
MCThreads == {t1, t2}
SymBlocks == Permutations(MCThree)
SymTwo == Permutations(MCTwo) \cup Permutations(MCThreads)

(* Bounds on the search.                                                    *)
SmallStacks == \A t \in Threads : Cardinality(stack[t]) <= 2

NoRoots == roots = {}

\* Three cycles, minor, major, minor: t2 only collects, t1 only mutates.  All
\* blocks are there before the first cycle and outlive the first two, during
\* which t1 makes no store.
Alternating ==
  /\ cycles > 0 => (major <=> cycles = 2)
  /\ self \in {t2, Nobody}
  /\ stack[t2] = {} /\ gap[t2] = NoGap /\ ~parked[t2]
  /\ gap[t1] # NoGap => gap[t1].val # Null
  /\ self # Nobody /\ cycles < 3 =>
       gap[t1] = NoGap /\ (parked[t1] \/ cpc \in {"setup", "rootWait"})
  /\ cycles \in {1, 2} => heap = MCThree
  /\ cycles = 1 /\ self = Nobody => Cardinality(old) = 2
  /\ cycles = 2 /\ self = Nobody => remset = {}
=============================================================================

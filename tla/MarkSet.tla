------------------------------ MODULE MarkSet ------------------------------
(***************************************************************************)
(* What the rest of stdlib/runtime_gc.c takes the mark of a block to be:   *)
(* membership in a set that is empty when a cycle begins and when one is   *)
(* given up, that grows while marking, and that decides what the sweep     *)
(* keeps.  GcMark is written in these terms; GcEpoch implements them.      *)
(***************************************************************************)
CONSTANT Blocks

VARIABLES
    heap,       \* blocks in the heap
    old,        \* the ones of generation GC_GEN_OLD
    marked,     \* the ones the current cycle has marked
    phase,      \* gc_phase
    major       \* gc_mark_major

vars == <<heap, old, marked, phase, major>>

Init ==
    /\ heap = {} /\ old = {} /\ marked = {}
    /\ phase = "IDLE" /\ major = TRUE

(* A cycle begins, with nothing marked.                                    *)
Begin ==
    /\ phase = "IDLE" /\ phase' = "MARK"
    /\ marked' = {}
    /\ major' \in BOOLEAN
    /\ UNCHANGED <<heap, old>>

Mark(b) ==
    /\ phase = "MARK" /\ b \in heap
    /\ marked' = marked \union {b}
    /\ UNCHANGED <<heap, old, phase, major>>

(* A new block is marked exactly while a cycle is on.                      *)
Allocate(b) ==
    /\ b \notin heap
    /\ heap' = heap \union {b}
    /\ marked' = IF phase = "MARK" THEN marked \union {b} ELSE marked
    /\ UNCHANGED <<old, phase, major>>

(* A cycle given up leaves nothing marked.                                 *)
GiveUp ==
    /\ phase = "MARK" /\ phase' = "IDLE"
    /\ marked' = {}
    /\ major' = TRUE
    /\ UNCHANGED <<heap, old>>

(* The sweep keeps what is marked, and a minor one also what is old; young *)
(* survivors may become old.                                               *)
Keep == IF major THEN heap \intersect marked ELSE heap \intersect (marked \union old)

Sweep ==
    /\ phase = "MARK" /\ phase' = "IDLE"
    /\ heap' = Keep
    /\ old' \subseteq Keep /\ old \intersect Keep \subseteq old'
    /\ marked' = marked \intersect Keep
    /\ major' = TRUE

Next ==
    \/ Begin \/ GiveUp \/ Sweep
    \/ \E b \in Blocks : Mark(b) \/ Allocate(b)

Spec == Init /\ [][Next]_vars
=============================================================================

------------------------------ MODULE GcEpoch ------------------------------
(***************************************************************************)
(* The mark of a block in stdlib/runtime_gc.c is a colour of 8 bits that   *)
(* equals the current epoch or does not.  A cycle takes a new epoch        *)
(* instead of clearing marks, and a cycle that is given up takes another.  *)
(* The epoch counts from 1 to Last and starts again: 0 is the colour of a  *)
(* block never marked.  Nothing bounds how often a cycle is given up.      *)
(***************************************************************************)
EXTENDS Naturals

CONSTANTS
    Blocks,
    Last,       \* the largest epoch, 255 for uint8_t
    MaxMinors,  \* GC_MINORS_BEFORE_MAJOR
    MaxAborts   \* bound: cycles given up between two completed major ones

ASSUME BoundsAssumption == MaxMinors \in Nat /\ MaxAborts \in Nat /\ Last \in Nat \ {0}

VARIABLES
    heap,           \* blocks in the heap
    old,            \* the ones of generation GC_GEN_OLD
    colour,         \* their marked byte
    gc_mark_epoch,
    phase,          \* gc_phase
    major,          \* gc_mark_major
    minors,         \* gc_minors_since_major
    aborts          \* cycles given up since a major one completed (history)

vars == <<heap, old, colour, gc_mark_epoch, phase, major, minors, aborts>>

TypeOK ==
    /\ heap \subseteq Blocks /\ old \subseteq heap
    /\ colour \in [Blocks -> 0 .. Last]
    /\ gc_mark_epoch \in 1 .. Last
    /\ phase \in {"IDLE", "MARK"}
    /\ major \in BOOLEAN
    /\ minors \in 0 .. MaxMinors
    /\ aborts \in 0 .. MaxAborts

Init ==
    /\ heap = {} /\ old = {}
    /\ colour = [b \in Blocks |-> 0]
    /\ gc_mark_epoch = 1
    /\ phase = "IDLE" /\ major = TRUE
    /\ minors = 0 /\ aborts = 0

gc_block_is_marked(b) == colour[b] = gc_mark_epoch

gc_bump_mark_epoch == gc_mark_epoch' = IF gc_mark_epoch = Last THEN 1 ELSE gc_mark_epoch + 1

(* gc_alloc_ex: black while a cycle is on, white otherwise.                *)
Alloc(b) ==
    /\ b \notin heap
    /\ heap' = heap \union {b}
    /\ colour' = [colour EXCEPT ![b] = IF phase = "MARK" THEN gc_mark_epoch ELSE 0]
    /\ UNCHANGED <<old, gc_mark_epoch, phase, major, minors, aborts>>

(* Mutant: a major cycle does not take a new epoch.                        *)
MarkSetupSameEpoch(m) ==
    /\ phase = "IDLE" /\ phase' = "MARK"
    /\ m \/ minors < MaxMinors
    /\ major' = m
    /\ IF m THEN UNCHANGED gc_mark_epoch ELSE gc_bump_mark_epoch
    /\ UNCHANGED <<heap, old, colour, minors, aborts>>

(* The mark setup.  gc_alloc_ex asks for a minor cycle only while fewer    *)
(* than GC_MINORS_BEFORE_MAJOR have completed since the last major one.    *)
MarkSetup(m) ==
    /\ phase = "IDLE" /\ phase' = "MARK"
    /\ m \/ minors < MaxMinors
    /\ major' = m
    /\ gc_bump_mark_epoch
    /\ UNCHANGED <<heap, old, colour, minors, aborts>>

gc_enqueue(b) ==
    /\ phase = "MARK"
    /\ b \in heap
    /\ colour' = [colour EXCEPT ![b] = gc_mark_epoch]
    /\ UNCHANGED <<heap, old, gc_mark_epoch, phase, major, minors, aborts>>

(* Mutant: the epoch of the cycle that is given up stays.                  *)
AbortKeepsEpoch ==
    /\ phase = "MARK" /\ phase' = "IDLE"
    /\ aborts < MaxAborts /\ aborts' = aborts + 1
    /\ major' = TRUE
    /\ UNCHANGED <<heap, old, colour, gc_mark_epoch, minors>>

gc_abort_mark_cycle ==
    /\ phase = "MARK" /\ phase' = "IDLE"
    /\ aborts < MaxAborts /\ aborts' = aborts + 1
    /\ major' = TRUE
    /\ gc_bump_mark_epoch
    /\ UNCHANGED <<heap, old, colour, minors>>

(* The unlink loop keeps marked blocks and, in a minor cycle, old ones;    *)
(* young survivors of enough minor cycles become old.                      *)
Survivors == {b \in heap : gc_block_is_marked(b) \/ (~major /\ b \in old)}

Sweep ==
    /\ phase = "MARK" /\ phase' = "IDLE"
    /\ heap' = Survivors
    /\ \E P \in SUBSET Survivors :
          /\ major => P = {}
          /\ old' = (old \intersect Survivors) \union P
    /\ major' = TRUE
    /\ minors' = IF major THEN 0 ELSE minors + 1
    /\ aborts' = IF major THEN 0 ELSE aborts
    /\ UNCHANGED <<colour, gc_mark_epoch>>

Next ==
    \/ \E m \in BOOLEAN : MarkSetup(m)
    \/ \E b \in Blocks : Alloc(b) \/ gc_enqueue(b)
    \/ gc_abort_mark_cycle \/ Sweep

Spec == Init /\ [][Next]_vars

-----------------------------------------------------------------------------
(* Properties.                                                             *)

(* When a cycle begins nothing is marked: no colour of an earlier cycle,   *)
(* completed or given up, is taken for one of this cycle.                  *)
WhiteAtSetup ==
    [][phase = "IDLE" /\ phase' = "MARK" => \A b \in heap : colour[b] # gc_mark_epoch']_vars

(* With colours compared to the epoch, the collector has the set of marked *)
(* blocks that GcMark works with.                                          *)
Marks == INSTANCE MarkSet WITH marked <- {b \in heap : gc_block_is_marked(b)}

ImplementsMarkSet == Marks!Spec

(* How many epochs ago a colour was current, if that is less than Last.    *)
Age(c) == IF c <= gc_mark_epoch THEN gc_mark_epoch - c ELSE gc_mark_epoch + Last - c

(* The epochs taken between two completed major cycles do not go round.    *)
EnoughEpochs == 2 * MaxAborts + MaxMinors + 1 < Last

(* A block whose colour is not 0 got it no longer ago than the cycles      *)
(* since the last completed major one: two epochs for each cycle given up, *)
(* one for each minor cycle and one for the cycle under way.               *)
AgeBound ==
    \A b \in heap :
        colour[b] = 0 \/ Age(colour[b]) <= 2 * aborts + minors + (IF phase = "MARK" THEN 1 ELSE 0)
=============================================================================

------------------------------ MODULE GcSweep ------------------------------
(***************************************************************************)
(* The second half of a collection in stdlib/runtime_gc.c: the weak        *)
(* references, the unlinking of white blocks from the gc_heap list, the    *)
(* doomed list, finalizers and resurrection.                               *)
(*                                                                         *)
(* Marking is one step here (GcMark is about it): it leaves every block    *)
(* the program can reach marked, and possibly more.  The sweep walks the   *)
(* list with a pointer into it and, unless it is told to stop the world    *)
(* for all of it, gives the GC mutex up between blocks when its time slice *)
(* is over; threads allocate, move pointers, set finalizers and finish     *)
(* older finalizers meanwhile.  Generations are left out: the cycle is a   *)
(* major one.                                                              *)
(***************************************************************************)
EXTENDS Naturals, FiniteSets, Sequences, SequencesExt

CONSTANTS
    Blocks,         \* addresses of blocks; a freed one is used again
    Threads,        \* mutator threads
    Concurrent,     \* FALSE: HAO_GC_STW_SWEEP=1
    Nil,
    GC              \* the collecting thread, as owner of the GC mutex

ASSUME NilAssumption == Nil \notin Blocks \union Threads \union {GC}
ASSUME GCAssumption == GC \notin Threads
ASSUME ConcurrentAssumption == Concurrent \in BOOLEAN

VARIABLES
    gc_heap,    \* the list of blocks, first one first
    place,      \* where a block is
    field,      \* the one pointer field of a block
    held,       \* held[t]: what the roots of thread t refer to
    slot,       \* a registered root slot (as g_fin_rescue)
    marked,     \* blocks with the current mark
    white,      \* blocks in gc_heap the marking left unmarked (history)
    finalizer,  \* blocks whose finalizer is set
    weak,       \* the weak table: referent of a weak object, Nil if none
    pc,         \* where the collecting thread is
    prev,       \* the sweep's pointer: Nil is &gc_heap, b is &b->next
    lock,       \* owner of the GC mutex between steps, Nil if free
    gc_in_collect,
    fin         \* fin[t]: hao_gc_set_finalizer in progress

vars == <<gc_heap, place, field, held, slot, marked, white, finalizer, weak,
          pc, prev, lock, gc_in_collect, fin>>

listVars == <<gc_heap, place>>
progVars == <<field, held, slot>>
collVars == <<marked, white, pc, prev, gc_in_collect>>

Places == {"free", "heap", "doomed", "pending", "called"}

NoFin == [at |-> "none", b |-> Nil]

TypeOK ==
    /\ gc_heap \in Seq(Blocks) /\ IsInjective(gc_heap)
    /\ place \in [Blocks -> Places]
    /\ ToSet(gc_heap) = {b \in Blocks : place[b] = "heap"}
    /\ field \in [Blocks -> Blocks \union {Nil}]
    /\ held \in [Threads -> SUBSET Blocks]
    /\ slot \in Blocks \union {Nil}
    /\ marked \subseteq Blocks /\ white \subseteq Blocks /\ finalizer \subseteq Blocks
    /\ weak \in [Blocks -> Blocks \union {Nil}]
    /\ pc \in {"idle", "begin", "sweep", "drain"}
    /\ prev \in Blocks \union {Nil}
    /\ lock \in Threads \union {GC, Nil}
    /\ gc_in_collect \in BOOLEAN
    /\ fin \in [Threads -> [at : {"none", "lock", "set", "unlock"}, b : Blocks \union {Nil}]]

Init ==
    /\ gc_heap = <<>>
    /\ place = [b \in Blocks |-> "free"]
    /\ field = [b \in Blocks |-> Nil]
    /\ held = [t \in Threads |-> {}]
    /\ slot = Nil
    /\ marked = {} /\ white = {} /\ finalizer = {}
    /\ weak = [b \in Blocks |-> Nil]
    /\ pc = "idle" /\ prev = Nil
    /\ lock = Nil
    /\ gc_in_collect = FALSE
    /\ fin = [t \in Threads |-> NoFin]

-----------------------------------------------------------------------------
(* Reachability.  The collector follows the fields of blocks it can find,  *)
(* that is, of blocks in gc_heap; the program follows any field.           *)

ClosedUnder(S, through) == \A b \in S \intersect through : field[b] # Nil => field[b] \in S

(* What every closed set with S in it contains.                            *)
ReachFrom(S, through) ==
    {b \in Blocks : \A C \in SUBSET Blocks : S \subseteq C /\ ClosedUnder(C, through) => b \in C}

Rooted == (UNION {held[t] : t \in Threads}) \union ({slot} \ {Nil})

InHeap == {b \in Blocks : place[b] = "heap"}

Live == ReachFrom(Rooted, Blocks)
Found == ReachFrom(Rooted \intersect InHeap, InHeap) \intersect InHeap

-----------------------------------------------------------------------------
(* The program.  While the world is stopped for the sweep nobody runs.     *)

Running == Concurrent \/ pc \notin {"begin", "sweep"}

(* Mutant: the new block is linked behind the first one.                   *)
AllocBehindHead(t) ==
    /\ Running /\ lock = Nil
    /\ fin[t] = NoFin
    /\ \E b \in Blocks :
          /\ place[b] = "free"
          /\ place' = [place EXCEPT ![b] = "heap"]
          /\ gc_heap' = IF gc_heap = <<>> THEN <<b>> ELSE <<Head(gc_heap), b>> \o Tail(gc_heap)
          /\ marked' = marked \ {b}
          /\ field' = [field EXCEPT ![b] = Nil]
          /\ held' = [held EXCEPT ![t] = @ \union {b}]
    /\ UNCHANGED <<slot, white, finalizer, weak, pc, prev, lock, gc_in_collect, fin>>

(* gc_alloc_ex past its collection: the block takes the head of gc_heap,   *)
(* unmarked, for no marking is under way.                                  *)
Alloc(t) ==
    /\ Running /\ lock = Nil
    /\ fin[t] = NoFin
    /\ \E b \in Blocks :
          /\ place[b] = "free"
          /\ place' = [place EXCEPT ![b] = "heap"]
          /\ gc_heap' = <<b>> \o gc_heap
          /\ marked' = marked \ {b}
          /\ field' = [field EXCEPT ![b] = Nil]
          /\ held' = [held EXCEPT ![t] = @ \union {b}]
    /\ UNCHANGED <<slot, white, finalizer, weak, pc, prev, lock, gc_in_collect, fin>>

Store(t) ==
    /\ Running
    /\ \E a \in held[t], v \in held[t] \union {Nil} : field' = [field EXCEPT ![a] = v]
    /\ UNCHANGED <<listVars, held, slot, collVars, finalizer, weak, lock, fin>>

Load(t) ==
    /\ Running
    /\ \E a \in held[t] :
          /\ field[a] # Nil
          /\ held' = [held EXCEPT ![t] = @ \union {field[a]}]
    /\ UNCHANGED <<listVars, field, slot, collVars, finalizer, weak, lock, fin>>

LoadSlot(t) ==
    /\ Running
    /\ slot # Nil
    /\ held' = [held EXCEPT ![t] = @ \union {slot}]
    /\ UNCHANGED <<listVars, field, slot, collVars, finalizer, weak, lock, fin>>

ClearSlot(t) ==
    /\ Running
    /\ slot' = Nil
    /\ UNCHANGED <<listVars, field, held, collVars, finalizer, weak, lock, fin>>

Forget(t) ==
    /\ Running
    /\ \E b \in held[t] : b # fin[t].b /\ held' = [held EXCEPT ![t] = @ \ {b}]
    /\ UNCHANGED <<listVars, field, slot, collVars, finalizer, weak, lock, fin>>

hao_weak_register(t) ==
    /\ Running /\ lock = Nil
    /\ \E w, r \in held[t] :
          /\ w # r
          /\ weak' = [weak EXCEPT ![w] = r]
    /\ UNCHANGED <<listVars, progVars, collVars, finalizer, lock, fin>>

hao_weak_get(t) ==
    /\ Running /\ lock = Nil
    /\ \E w \in held[t] :
          /\ weak[w] # Nil
          /\ held' = [held EXCEPT ![t] = @ \union {weak[w]}]
    /\ UNCHANGED <<listVars, field, slot, collVars, finalizer, weak, lock, fin>>

-----------------------------------------------------------------------------
(* hao_gc_set_finalizer reads gc_in_collect to decide whether to take the  *)
(* mutex and reads it again to decide whether to give it back.             *)

SetFinalizerEnter(t) ==
    /\ Running
    /\ fin[t] = NoFin
    /\ \E b \in held[t] :
          fin' = [fin EXCEPT ![t] = [at |-> IF gc_in_collect THEN "set" ELSE "lock", b |-> b]]
    /\ UNCHANGED <<listVars, progVars, collVars, finalizer, weak, lock>>

SetFinalizerLock(t) ==
    /\ fin[t].at = "lock"
    /\ lock = Nil
    /\ lock' = t
    /\ fin' = [fin EXCEPT ![t].at = "set"]
    /\ UNCHANGED <<listVars, progVars, collVars, finalizer, weak>>

SetFinalizer(t) ==
    /\ fin[t].at = "set"
    /\ finalizer' = IF place[fin[t].b] = "heap" THEN finalizer \union {fin[t].b} ELSE finalizer
    /\ fin' = [fin EXCEPT ![t].at = "unlock"]
    /\ UNCHANGED <<listVars, progVars, collVars, weak, lock>>

SetFinalizerUnlock(t) ==
    /\ fin[t].at = "unlock"
    /\ lock' = IF gc_in_collect THEN lock ELSE Nil
    /\ fin' = [fin EXCEPT ![t] = NoFin]
    /\ UNCHANGED <<listVars, progVars, collVars, finalizer, weak>>

-----------------------------------------------------------------------------
(* The collecting thread.  Marking has terminated and the world is         *)
(* stopped: nobody holds the mutex or is on its way to it.  The marked     *)
(* blocks are those reachable from blocks that are, or were when the       *)
(* marking began, the roots.  A weak object that is not marked leaves the  *)
(* table, a referent that is not marked is forgotten.                      *)

(* Mutant: looks at the weak object only.                                  *)
KeepReferents(m) == [w \in Blocks |-> IF w \in m THEN weak[w] ELSE Nil]

KeepMarkedReferents(m) ==
    [w \in Blocks |-> IF w \in m /\ weak[w] \in m THEN weak[w] ELSE Nil]

MarkEnds ==
    /\ pc = "idle" /\ lock = Nil
    /\ \A t \in Threads : fin[t] = NoFin
    /\ \E old \in SUBSET (InHeap \ Found) :
          LET m == ReachFrom(Found \union old, InHeap) \intersect InHeap IN
          /\ marked' = m
          /\ white' = InHeap \ m
          /\ weak' = KeepMarkedReferents(m)
    /\ pc' = "begin"
    /\ prev' = Nil
    /\ lock' = GC
    /\ UNCHANGED <<listVars, progVars, gc_in_collect, finalizer, fin>>

(* The world runs again, unless the sweep is to be done in the stop; the   *)
(* collecting thread still has the mutex.                                  *)
SweepBegins ==
    /\ pc = "begin"
    /\ pc' = "sweep"
    /\ gc_in_collect' = TRUE
    /\ UNCHANGED <<listVars, progVars, marked, white, prev, finalizer, weak, lock, fin>>

(* Where in the list *prev points: at its first block, or past prev's.     *)
Cursor == IF prev = Nil THEN 1 ELSE 1 + CHOOSE i \in DOMAIN gc_heap : gc_heap[i] = prev

Sweeping == pc = "sweep" /\ lock = GC
AtEnd == Cursor > Len(gc_heap)

SweepKeep ==
    /\ Sweeping /\ ~AtEnd
    /\ gc_heap[Cursor] \in marked
    /\ prev' = gc_heap[Cursor]
    /\ UNCHANGED <<listVars, progVars, marked, white, finalizer, weak, pc, lock, gc_in_collect, fin>>

(* Mutant: prev moves on after an unlink too.                              *)
SweepUnlinkAndSkip ==
    /\ Sweeping /\ ~AtEnd
    /\ gc_heap[Cursor] \notin marked
    /\ gc_heap' = RemoveAt(gc_heap, Cursor)
    /\ place' = [place EXCEPT ![gc_heap[Cursor]] = "doomed"]
    /\ prev' = IF Cursor < Len(gc_heap) THEN gc_heap[Cursor + 1] ELSE prev
    /\ UNCHANGED <<progVars, marked, white, pc, gc_in_collect, finalizer, weak, lock, fin>>

SweepUnlink ==
    /\ Sweeping /\ ~AtEnd
    /\ gc_heap[Cursor] \notin marked
    /\ gc_heap' = RemoveAt(gc_heap, Cursor)
    /\ place' = [place EXCEPT ![gc_heap[Cursor]] = "doomed"]
    /\ UNCHANGED <<progVars, collVars, finalizer, weak, lock, fin>>

(* gc_collect gives the mutex up between the trampoline and the drain.     *)
(* Marks mean nothing from here on: the next cycle takes a new epoch.      *)
SweepEnds ==
    /\ Sweeping /\ AtEnd
    /\ pc' = "drain"
    /\ prev' = Nil
    /\ marked' = {} /\ white' = {}
    /\ gc_in_collect' = FALSE
    /\ lock' = Nil
    /\ UNCHANGED <<listVars, progVars, finalizer, weak, fin>>

(* gc_span_drain_doomed_locked: a block with a finalizer is queued, any    *)
(* other is free.                                                          *)
Drain ==
    /\ pc = "drain" /\ lock = GC
    /\ \E b \in Blocks :
          /\ place[b] = "doomed"
          /\ place' = [place EXCEPT ![b] = IF b \in finalizer THEN "pending" ELSE "free"]
          /\ finalizer' = finalizer \ {b}
    /\ UNCHANGED <<gc_heap, progVars, collVars, weak, lock, fin>>

DrainEnds ==
    /\ pc = "drain" /\ lock = GC
    /\ \A b \in Blocks : place[b] # "doomed"
    /\ pc' = "idle"
    /\ lock' = Nil
    /\ UNCHANGED <<listVars, progVars, marked, white, prev, gc_in_collect, finalizer, weak, fin>>

(* gc_sweep_yield_locked, called when the time slice is over after a block *)
(* was dealt with, and the relock of every pause.                          *)
Yield ==
    /\ Concurrent
    /\ pc \in {"sweep", "drain"} /\ lock = GC
    /\ pc = "sweep" => prev # Nil \/ \E b \in Blocks : place[b] = "doomed"
    /\ lock' = Nil
    /\ UNCHANGED <<listVars, progVars, collVars, finalizer, weak, fin>>

Relock ==
    /\ pc \in {"sweep", "drain"} /\ lock = Nil
    /\ lock' = GC
    /\ UNCHANGED <<listVars, progVars, collVars, finalizer, weak, fin>>

-----------------------------------------------------------------------------
(* gc_drain_finalizers, run by whoever collected or allocated.  The        *)
(* callback runs without the mutex and may put the object in a root slot.  *)

RunFinalizer(b) ==
    /\ Running
    /\ place[b] = "pending"
    /\ place' = [place EXCEPT ![b] = "called"]
    /\ slot' \in {slot, b}
    /\ UNCHANGED <<gc_heap, field, held, collVars, finalizer, weak, lock, fin>>

gc_user_still_reachable_locked(b) ==
    b \in Rooted \/ \E a \in InHeap : field[a] = b

(* Afterwards the block goes back to the head of gc_heap or is free.       *)
AfterFinalizer(b) ==
    /\ Running /\ lock = Nil
    /\ place[b] = "called"
    /\ IF gc_user_still_reachable_locked(b)
       THEN /\ place' = [place EXCEPT ![b] = "heap"]
            /\ gc_heap' = <<b>> \o gc_heap
            /\ marked' = marked \ {b}
       ELSE /\ place' = [place EXCEPT ![b] = "free"]
            /\ UNCHANGED <<gc_heap, marked>>
    /\ UNCHANGED <<progVars, white, pc, prev, gc_in_collect, finalizer, weak, lock, fin>>

-----------------------------------------------------------------------------
Collector == MarkEnds \/ SweepBegins \/ SweepKeep \/ SweepUnlink \/ SweepEnds \/ Drain \/ DrainEnds
                \/ Yield \/ Relock

Program(t) ==
    \/ Alloc(t) \/ Store(t) \/ Load(t) \/ LoadSlot(t) \/ ClearSlot(t) \/ Forget(t)
    \/ hao_weak_register(t) \/ hao_weak_get(t)
    \/ SetFinalizerEnter(t) \/ SetFinalizerLock(t) \/ SetFinalizer(t) \/ SetFinalizerUnlock(t)

Next ==
    \/ Collector
    \/ \E t \in Threads : Program(t)
    \/ \E b \in Blocks : RunFinalizer(b) \/ AfterFinalizer(b)

Spec == Init /\ [][Next]_vars

-----------------------------------------------------------------------------
(* Properties.                                                             *)

(* What the program can reach is in the heap, or is an object whose        *)
(* finalizer has just put it back within reach: no block is freed, queued  *)
(* for freeing or handed out again while something refers to it.           *)
NoUseAfterFree == \A b \in Live : place[b] \in {"heap", "called"}

(* When a sweep ends, every block that marking left white is out of the    *)
(* list: none was skipped because the list changed under the sweep.        *)
SweepComplete ==
    [][pc = "sweep" /\ pc' = "drain" => white \intersect ToSet(gc_heap) = {}]_vars

(* A thread that is not inside a call of the collector does not own the    *)
(* GC mutex.                                                               *)
NoLockOutside == \A t \in Threads : lock = t => fin[t].at \in {"set", "unlock"}

(* Both: whoever comes back from the collector finds what it refers to     *)
(* alive, and is not left with the mutex.                                  *)
CallersSafe == NoUseAfterFree /\ NoLockOutside

(* What the program must keep to, beyond its own code, for the collector   *)
(* to be safe.  Finalizers belong to native handles, which hold no         *)
(* reference.                                                              *)
HandlesAreLeaves ==
    \A b \in Blocks : b \in finalizer \/ place[b] \in {"pending", "called"} => field[b] = Nil

(* No weak reference is from or to an object being finalized.              *)
NoWeakInFinalizer ==
    \A b \in Blocks : weak[b] # Nil => place[b] # "called" /\ place[weak[b]] # "called"

(* No set_finalizer straddles the begin or the end of a sweep.             *)
NoTornFinalizer ==
    \A t \in Threads :
        /\ fin[t].at \in {"set", "unlock"} => (lock = t) = ~gc_in_collect
        /\ fin[t].at = "lock" => ~gc_in_collect

(* The sweep is never interrupted before its first survivor.               *)
NoPauseAtHead == ~(pc = "sweep" /\ prev = Nil /\ lock # GC)

Disciplined == HandlesAreLeaves /\ NoWeakInFinalizer /\ NoTornFinalizer /\ NoPauseAtHead

(* What hao_weak_get would hand out for a weak object the program can      *)
(* reach is alive.                                                         *)
WeakIsLive ==
    \A w \in Live : weak[w] # Nil => place[weak[w]] \in {"heap", "called"}
=============================================================================

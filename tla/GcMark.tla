------------------------------- MODULE GcMark -------------------------------
(***************************************************************************)
(* One heap, its mutators and the concurrent mark of stdlib/runtime_gc.c:  *)
(* mark epoch, black allocation, the hybrid write barrier that runs before *)
(* the store and not together with it, the root and the termination        *)
(* handshake, abort, and the major and minor sweep.                        *)
(*                                                                         *)
(* The handshake is reduced to what marking needs of it (module GcStw has  *)
(* its protocol): threads park one by one, a parked thread may run away    *)
(* before it is scanned, the collector holds the GC mutex except while it  *)
(* waits and while it drains.  The sweep is the one that never gives the   *)
(* mutex up (fewer than 64 unlinks, or HAO_GC_STW_SWEEP=1); module GcSweep *)
(* has the one that does.                                                  *)
(***************************************************************************)
EXTENDS Naturals, FiniteSets

CONSTANTS
  Objects,   \* heap blocks (addresses: a freed one can be allocated again)
  Fields,    \* pointer slots of a block
  Slots,     \* static slots registered by hao_gc_add_root_slot
  Threads,   \* registered mutators
  Nobody,    \* no thread collects
  Null,
  Minor,     \* TRUE: nursery collections happen as well
  RootSlip,  \* TRUE: the root handshake may find its budget spent before its
             \*   first round and pass without having stopped anyone
  MaxCycles  \* bound: collections started in a behaviour

ASSUME MarkAssumption ==
  /\ Null \notin Objects
  /\ Nobody \notin Threads
  /\ Slots \cap (Objects \X Fields) = {}
  /\ Minor \in BOOLEAN /\ RootSlip \in BOOLEAN
  /\ MaxCycles \in Nat

VARIABLES
  heap,      \* blocks linked in gc_heap
  mem,       \* contents of every pointer cell
  stack,     \* what a thread holds: shadow slots, pins, spilled registers
  roots,     \* gc_roots
  old,       \* blocks of generation GC_GEN_OLD
  remset,    \* gc_remset
  gap,       \* the store a thread is about to make, its barrier being done
  parked,    \* g_parked
  phase,     \* gc_phase
  marked,    \* blocks whose mark is the current epoch
  grey,      \* gc_worklist
  major,     \* gc_mark_major
  self,      \* the collecting thread
  cpc,       \* where the collector is
  request,   \* gc_stw_request
  complete,  \* the last handshake missed nobody
  scanned,   \* gc_scanned_tids
  cycles,    \* collections started
  lost       \* history: blocks no thread could reach when the cycle began

mutVars  == <<heap, mem, stack, roots, old, remset, gap, parked>>
markVars == <<phase, marked, grey, major>>
ctlVars  == <<self, cpc, request, complete, scanned, cycles, lost>>
vars == <<mutVars, markVars, ctlVars>>

Cells == (Objects \X Fields) \cup Slots
Refs  == Objects \cup {Null}
NoGap  == [dst |-> Null, val |-> Null]
CPCs == {"idle", "setup", "rootWait", "rootScan", "drain",
         "termWait", "termScan", "judge"}

TypeOK ==
  /\ heap \subseteq Objects
  /\ mem \in [Cells -> Refs]
  /\ stack \in [Threads -> SUBSET Objects]
  /\ roots \subseteq Objects /\ old \subseteq Objects /\ remset \subseteq Objects
  /\ gap \in [Threads -> [dst : Cells, val : Refs] \cup {NoGap}]
  /\ parked \in [Threads -> BOOLEAN]
  /\ phase \in {"IDLE", "MARK"}
  /\ marked \subseteq Objects /\ grey \subseteq Objects
  /\ major \in BOOLEAN
  /\ self \in Threads \cup {Nobody}
  /\ cpc \in CPCs
  /\ request \in BOOLEAN /\ complete \in BOOLEAN
  /\ scanned \subseteq Threads
  /\ cycles \in 0 .. MaxCycles
  /\ lost \subseteq Objects

Init ==
  /\ heap = {}
  /\ mem = [c \in Cells |-> Null]
  /\ stack = [t \in Threads |-> {}]
  /\ roots = {} /\ old = {} /\ remset = {}
  /\ gap = [t \in Threads |-> NoGap]
  /\ parked = [t \in Threads |-> FALSE]
  /\ phase = "IDLE" /\ marked = {} /\ grey = {} /\ major = TRUE
  /\ self = Nobody /\ cpc = "idle"
  /\ request = FALSE /\ complete = FALSE /\ scanned = {} /\ cycles = 0
  /\ lost = {}

-----------------------------------------------------------------------------
(* Marking.                                                                *)

Children(o) == {mem[<<o, f>>] : f \in Fields} \ {Null}

\* Mutant: a minor mark returns at once on an old block.
EnqueuedYoungOnly(S) == {o \in (S \cap heap) \ marked : major \/ o \notin old}

\* gc_enqueue on every member of S.  A minor mark does not queue an old block:
\* it marks it and scans it on the spot, and so on through unmarked old ones.
Enqueued(S) ==
  IF major THEN (S \cap heap) \ marked
  ELSE LET Closed(X) == /\ (S \cap heap) \ marked \subseteq X
                        /\ \A o \in X \cap old : (Children(o) \cap heap) \ marked \subseteq X
       IN  {o \in heap : \A X \in SUBSET heap : Closed(X) => o \in X}

Mark(S) ==
  /\ marked' = marked \cup Enqueued(S)
  /\ grey' = grey \cup {o \in Enqueued(S) : major \/ o \notin old}

\* gc_scan_block_precise on every member of S
Offspring(S) == UNION {Children(o) : o \in S}

\* gc_seed_roots_and_remset: roots, root slots, the collector's own stack, and
\* for a minor mark the blocks of the remembered set.
Seeds ==
  roots \cup {mem[s] : s \in Slots} \cup stack[self]
    \cup (IF major THEN {} ELSE Offspring(remset \cap heap))

-----------------------------------------------------------------------------
(* Mutators.                                                               *)

Running(t) == ~parked[t] /\ t # self
Free(t)    == Running(t) /\ gap[t] = NoGap      \* not between barrier and store
LockFree   == cpc \in {"idle", "rootWait", "drain", "termWait"}

\* gc_alloc_ex: black while marking.
Alloc(t, o) ==
  /\ Free(t) /\ LockFree /\ ~request
  /\ o \notin heap
  /\ heap' = heap \cup {o}
  /\ mem' = [c \in Cells |-> IF c \in {o} \X Fields THEN Null ELSE mem[c]]
  /\ stack' = [stack EXCEPT ![t] = @ \cup {o}]
  /\ old' = old \ {o}
  /\ marked' = IF phase = "MARK" THEN marked \cup {o} ELSE marked \ {o}
  /\ UNCHANGED <<roots, remset, gap, parked, phase, grey, major, ctlVars>>

\* Mutant: a null field is taken for a reference.
LoadNull(t, c) ==
  /\ Free(t)
  /\ c \in Slots \/ \E o \in stack[t], f \in Fields : c = <<o, f>>
  /\ stack' = [stack EXCEPT ![t] = @ \cup {mem[c]}]
  /\ UNCHANGED <<heap, mem, roots, old, remset, gap, parked, markVars, ctlVars>>

\* A load: no read barrier.
Load(t, c) ==
  /\ Free(t)
  /\ c \in Slots \/ \E o \in stack[t], f \in Fields : c = <<o, f>>
  /\ mem[c] # Null
  /\ stack' = [stack EXCEPT ![t] = @ \cup {mem[c]}]
  /\ UNCHANGED <<heap, mem, roots, old, remset, gap, parked, markVars, ctlVars>>

\* A local goes out of scope.
Drop(t, o) ==
  /\ Free(t) /\ o \in stack[t]
  /\ stack' = [stack EXCEPT ![t] = @ \ {o}]
  /\ UNCHANGED <<heap, mem, roots, old, remset, gap, parked, markVars, ctlVars>>

Target(t, c) == c \in Slots \/ \E o \in stack[t], f \in Fields : c = <<o, f>>
Owner(c) == {o \in heap : \E f \in Fields : c = <<o, f>>}

\* remset_add: an old container is about to hold a young value.
Remember(c, v) ==
  remset' = IF v \in heap \ old THEN remset \cup (Owner(c) \cap old) ELSE remset

\* hao_gc_barrier(c, v), idle: only the remembered set; a null store takes no lock.
BarrierIdle(t, c, v) ==
  /\ Free(t) /\ Target(t, c) /\ v \in stack[t] \cup {Null}
  /\ phase = "IDLE" /\ ~request
  /\ v # Null => LockFree
  /\ IF v = Null THEN UNCHANGED remset ELSE Remember(c, v)
  /\ gap' = [gap EXCEPT ![t] = [dst |-> c, val |-> v]]
  /\ UNCHANGED <<heap, mem, stack, roots, old, parked, markVars, ctlVars>>

\* Mutant: the barrier shades only what the store overwrites.
BarrierMarkOldOnly(t, c, v) ==
  /\ Free(t) /\ Target(t, c) /\ v \in stack[t] \cup {Null}
  /\ phase = "MARK" /\ ~request /\ LockFree
  /\ Remember(c, v)
  /\ Mark({mem[c]})
  /\ gap' = [gap EXCEPT ![t] = [dst |-> c, val |-> v]]
  /\ UNCHANGED <<heap, mem, stack, roots, old, parked, phase, major, ctlVars>>

\* hao_gc_barrier(c, v), marking: shade what the cell holds and what it will hold.
BarrierMark(t, c, v) ==
  /\ Free(t) /\ Target(t, c) /\ v \in stack[t] \cup {Null}
  /\ phase = "MARK" /\ ~request /\ LockFree
  /\ Remember(c, v)
  /\ Mark({mem[c], v})
  /\ gap' = [gap EXCEPT ![t] = [dst |-> c, val |-> v]]
  /\ UNCHANGED <<heap, mem, stack, roots, old, parked, phase, major, ctlVars>>

\* The store itself, some time after its barrier.
Store(t) ==
  /\ Running(t) /\ gap[t] # NoGap
  /\ mem' = [mem EXCEPT ![gap[t].dst] = gap[t].val]
  /\ gap' = [gap EXCEPT ![t] = NoGap]
  /\ UNCHANGED <<heap, stack, roots, old, remset, parked, markVars, ctlVars>>

\* hao_gc_add_root (cooperative), hao_gc_remove_root (takes the mutex only).
AddRoot(t, o) ==
  /\ Free(t) /\ o \in stack[t] /\ LockFree /\ ~request
  /\ roots' = roots \cup {o}
  /\ UNCHANGED <<heap, mem, stack, old, remset, gap, parked, markVars, ctlVars>>

\* The table may hold a block several times: taking one copy out of it is then
\* no change of the set.
RemoveRoot(t, o) ==
  /\ Free(t) /\ o \in roots /\ LockFree
  /\ roots' = roots \ {o}
  /\ UNCHANGED <<heap, mem, stack, old, remset, gap, parked, markVars, ctlVars>>

\* C code hands out what it keeps alive by a root (a channel's queue).
TakeRooted(t, o) ==
  /\ Free(t) /\ o \in roots
  /\ stack' = [stack EXCEPT ![t] = @ \cup {o}]
  /\ UNCHANGED <<heap, mem, roots, old, remset, gap, parked, markVars, ctlVars>>

\* A safepoint under a request, or a blocking call at any time.
Park(t) ==
  /\ Free(t)
  /\ parked' = [parked EXCEPT ![t] = TRUE]
  /\ UNCHANGED <<heap, mem, stack, roots, old, remset, gap, markVars, ctlVars>>

\* Also while a stop is requested: a thread that read the request before it was
\* raised clears its flag after it was counted.
Unpark(t) ==
  /\ parked[t]
  /\ parked' = [parked EXCEPT ![t] = FALSE]
  /\ UNCHANGED <<heap, mem, stack, roots, old, remset, gap, markVars, ctlVars>>

-----------------------------------------------------------------------------
(* The collector.                                                          *)

Others == Threads \ {self}
Collector(where) == cpc = where
Step(where) == cpc' = where

\* What some thread, root or slot reaches.
Held == roots \cup {mem[s] : s \in Slots} \cup UNION {stack[t] : t \in Threads}
Reachable ==
  {o \in heap : \A X \in SUBSET heap :
     (/\ Held \cap heap \subseteq X
      /\ \A x \in X : Children(x) \cap heap \subseteq X) => o \in X}

\* Mutant: the epoch is not bumped, so the colours of the last cycle survive.
MarkSetupSameEpoch(t, m) ==
  /\ Collector("idle") /\ Free(t) /\ cycles < MaxCycles
  /\ m \/ Minor
  /\ self' = t /\ cycles' = cycles + 1
  /\ major' = m
  /\ phase' = "MARK" /\ grey' = {} /\ scanned' = {}
  /\ lost' = heap \ Reachable
  /\ Step("setup")
  /\ UNCHANGED <<mutVars, marked, request, complete>>

\* gc_run_collect_locked and the mark setup: new epoch, everything is white,
\* the barrier is opened.
MarkSetup(t, m) ==
  /\ Collector("idle") /\ Free(t) /\ cycles < MaxCycles
  /\ m \/ Minor
  /\ self' = t /\ cycles' = cycles + 1
  /\ major' = m
  /\ phase' = "MARK" /\ marked' = {} /\ grey' = {} /\ scanned' = {}
  /\ lost' = heap \ Reachable
  /\ Step("setup")
  /\ UNCHANGED <<mutVars, request, complete>>

\* Alone, the collector stops nobody.
SeedRoots ==
  /\ Collector("setup")
  /\ Mark(Seeds)
  /\ IF Others = {} THEN Step("rootScan") /\ complete' = TRUE /\ UNCHANGED request
                    ELSE Step("rootWait") /\ complete' = FALSE /\ request' = TRUE
  /\ UNCHANGED <<mutVars, phase, major, self, scanned, cycles, lost>>

\* The wait ends and the mutex is back: the recount says who is missing.  With
\* RootSlip the root handshake may skip wait and recount and miss nobody.
Recount(where, next) ==
  /\ Collector(where)
  /\ Step(next)
  /\ \/ complete' = \A t \in Others : parked[t]
     \/ RootSlip /\ where = "rootWait" /\ complete' = TRUE
  /\ UNCHANGED <<mutVars, markVars, self, request, scanned, cycles, lost>>

RootRecount == Recount("rootWait", "rootScan")
TermRecount == Recount("termWait", "termScan")

\* gc_scan_parked_thread; a thread whose flag is down again is passed over.
ScanThread(t) ==
  /\ Collector("rootScan") \/ Collector("termScan")
  /\ t \in Others \ scanned /\ parked[t]
  /\ Mark(stack[t])
  /\ scanned' = scanned \cup {t}
  /\ UNCHANGED <<mutVars, phase, major, self, cpc, request, complete, cycles, lost>>

\* The root handshake is complete: leave, mark concurrently.
RootDone ==
  /\ Collector("rootScan") /\ complete
  /\ \A t \in Others \ scanned : ~parked[t]
  /\ request' = FALSE
  /\ Step("drain")
  /\ UNCHANGED <<mutVars, markVars, self, complete, scanned, cycles, lost>>

\* One grey block is scanned: by the drain, a mark worker or an allocation.
DrainOne(o) ==
  /\ Collector("drain") /\ o \in grey
  /\ marked' = marked \cup Enqueued(Children(o))
  /\ grey' = (grey \ {o}) \cup {x \in Enqueued(Children(o)) : major \/ x \notin old}
  /\ UNCHANGED <<mutVars, phase, major, ctlVars>>

\* The termination handshake starts with scanned cleared.
TermRequest ==
  /\ Collector("drain")
  /\ scanned' = {}
  /\ IF Others = {} THEN Step("termScan") /\ complete' = TRUE /\ UNCHANGED request
                    ELSE Step("termWait") /\ complete' = FALSE /\ request' = TRUE
  /\ UNCHANGED <<mutVars, markVars, self, cycles, lost>>

\* After the scans the roots are seeded again.
TermSeed ==
  /\ Collector("termScan")
  /\ \A t \in Others \ scanned : ~parked[t]
  /\ Mark(Seeds)
  /\ Step("judge")
  /\ UNCHANGED <<mutVars, phase, major, self, request, complete, scanned, cycles, lost>>

\* Mutant: an empty worklist is enough.
TerminatedEmpty == grey = {}

Terminated == complete /\ Others \subseteq scanned /\ grey = {}

\* Not terminated: leave and drain once more.
TermRetry ==
  /\ Collector("judge") /\ ~Terminated
  /\ request' = FALSE
  /\ Step("drain")
  /\ UNCHANGED <<mutVars, markVars, self, complete, scanned, cycles, lost>>

\* gc_abort_mark_cycle: root handshake incomplete, termination attempts spent,
\* or a watchdog trip.  The epoch moves on, so every colour is void.
Abort ==
  /\ \/ cpc = "rootScan"
     \/ cpc = "drain"
     \/ cpc = "termScan"
     \/ cpc = "judge" /\ ~Terminated
  /\ phase' = "IDLE" /\ request' = FALSE /\ major' = TRUE
  /\ marked' = {} /\ grey' = {} /\ scanned' = {}
  /\ self' = Nobody /\ lost' = {} /\ Step("idle")
  /\ UNCHANGED <<mutVars, complete, cycles>>

\* The unlink loop's decision.
Doomed == {o \in heap : o \notin marked /\ (major \/ o \notin old)}

\* Marked young blocks age; the ones in promoted reach GC_PROMOTE_AGE.
Promoted == IF major THEN {{}} ELSE SUBSET ((marked \cap heap) \ old)

HasYoung(o, survivors, nowOld) == \E x \in Children(o) : x \in survivors \ nowOld

\* Sweep: unlink the doomed, promote, rebuild the remembered set.
Sweep(promoted) ==
  /\ Collector("judge") /\ Terminated
  /\ promoted \in Promoted
  /\ heap' = heap \ Doomed
  /\ old' = (old \cup promoted) \cap heap'
  /\ remset' = IF major THEN {}
               ELSE {o \in (remset \cup promoted) \cap old' : HasYoung(o, heap', old')}
  /\ phase' = "IDLE" /\ request' = FALSE
  /\ grey' = {} /\ scanned' = {}
  /\ self' = Nobody /\ lost' = {} /\ Step("idle")
  /\ UNCHANGED <<mem, stack, roots, gap, parked, marked, major, complete, cycles>>

-----------------------------------------------------------------------------

MutatorStep(t) ==
  \/ \E o \in Objects : Alloc(t, o) \/ Drop(t, o)
  \/ \E o \in Objects : AddRoot(t, o) \/ RemoveRoot(t, o) \/ TakeRooted(t, o)
  \/ \E c \in Cells : Load(t, c)
  \/ \E c \in Cells, v \in Refs : BarrierIdle(t, c, v) \/ BarrierMark(t, c, v)
  \/ Store(t) \/ Park(t) \/ Unpark(t)

CollectorStep ==
  \/ \E t \in Threads, m \in BOOLEAN : MarkSetup(t, m)
  \/ SeedRoots \/ RootRecount \/ TermRecount
  \/ \E t \in Threads : ScanThread(t)
  \/ RootDone
  \/ \E o \in Objects : DrainOne(o)
  \/ TermRequest \/ TermSeed \/ TermRetry \/ Abort
  \/ \E p \in SUBSET Objects : Sweep(p)

Next == CollectorStep \/ \E t \in Threads : MutatorStep(t)

Spec == Init /\ [][Next]_vars

-----------------------------------------------------------------------------
(* Properties.                                                             *)

\* No use after free: whatever a mutator holds or can fetch from a static slot
\* or a root is an allocated block.  A block freed too early shows here as soon
\* as a thread loads it.
NoDangling ==
  /\ \A t \in Threads : stack[t] \subseteq heap
  /\ roots \subseteq heap
  /\ \A s \in Slots : mem[s] \in heap \cup {Null}

\* Strong tricolour invariant: a scanned block points at no white block, although
\* mutators store into it while it is being marked around it.  (Nursery
\* collections leave old blocks behind that nobody reaches, and these may point
\* at blocks that are gone.)
TriColour ==
  phase = "MARK" =>
    \A o \in marked \ grey, f \in Fields :
      \/ mem[<<o, f>>] \in marked \cup {Null}
      \/ Minor /\ mem[<<o, f>>] \notin heap

\* No garbage outlives a major cycle that completes: what nobody could reach when
\* the cycle began is unlinked by its sweep, whatever was remembered, marked in
\* an earlier cycle or shaded by the barriers meanwhile.
MajorFreesGarbage ==
  [][cpc = "judge" /\ cpc' = "idle" /\ Terminated /\ major => heap' \cap lost = {}]_vars

\* What the program must keep to for minor marks to be safe: no store straddles
\* the setup of one, since old blocks are scanned there before any thread stops.
NoStoreAtSetup == cpc = "setup" /\ ~major => \A t \in Threads : gap[t] = NoGap
=============================================================================

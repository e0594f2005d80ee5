------------------------------ MODULE SpanHeap ------------------------------
(***************************************************************************)
(* The memory under the blocks of stdlib/runtime_gc.c: spans of equal      *)
(* slots got from the system, their allocation bits, the page index that   *)
(* turns an address into a block, the statistics, and the path that runs   *)
(* out of memory.  A span is got with the GC mutex given up; a collection  *)
(* drains its doomed blocks slot by slot and gives the mutex up between.   *)
(* What is doomed is anybody's choice here (GcMark and GcSweep are about   *)
(* that).  A large object has a span of its own, of class 0.               *)
(***************************************************************************)
EXTENDS Naturals, FiniteSets, Sequences, SequencesExt, FiniteSetsExt

CONSTANTS
    Threads, Nobody,
    Spans,          \* places for spans: an address freed is used again
    Classes,        \* size classes, from 1; 0 is for large objects
    Slots,          \* Slots[c]: slots in a span of class c
    User,           \* User[c]: usable bytes of a slot
    Recursive       \* the mutex can be taken again by its owner (Windows)

VARIABLES
    class,      \* the class of a span, or None
    bits,       \* allocBits: its slots that are taken
    lists,      \* g_mspan_class: the spans of a class, first one first
    index,      \* the page index: slots <<span, i>> it finds
    heap, doomed, pending,      \* blocks in gc_heap, unlinked, waiting for a finalizer
    freelist,   \* g_freelist_bytes
    owner, leaked,              \* the GC mutex; threads that hold it once more
    collecting, \* gc_collecting
    th          \* threads: [at, class, try]
vars == <<class, bits, lists, index, heap, doomed, pending, freelist, owner, leaked, collecting, th>>
memory == <<class, bits, lists, freelist>>

None == 9
Idle == [at |-> "idle", class |-> 0, try |-> 0]

Free(t) == owner \in {Nobody, t}
Released(t) == IF t \in leaked THEN t ELSE Nobody
Lowered(x) == IF freelist >= x THEN freelist - x ELSE 0
LowSlot(s) == Min((0 .. Slots[class[s]] - 1) \ bits[s])
Usable(c) == {s \in Spans : class[s] = c /\ Cardinality(bits[s]) < Slots[c]}

---------------------------------------------------------------------------
(* gc_alloc_ex.  It may collect first; then it tries four times to get a   *)
(* slot, with a collection before the third and the fourth.                *)

Begin(t, c) ==
    /\ th[t] = Idle /\ Free(t)
    /\ owner' = t
    /\ \E first \in {"pop", "collect"} : th' = [th EXCEPT ![t] = [at |-> first, class |-> c, try |-> 0]]
    /\ UNCHANGED <<memory, index, heap, doomed, pending, leaked, collecting>>

(* The block is linked and indexed, and the mutex given back.              *)
Link(t, slot) ==
    /\ heap' = heap \cup {slot} /\ index' = index \cup {slot}
    /\ owner' = Released(t) /\ th' = [th EXCEPT ![t] = Idle]

(* gc_span_pop_locked: the first span of the class with a free slot; if    *)
(* there is none, the mutex is given up to ask the system.                 *)
Pop(t) ==
    LET c == th[t].class
        s == SelectInSeq(lists[c], LAMBDA x : x \in Usable(c))
    IN /\ th[t].at = "pop"
       /\ IF c # 0 /\ s # 0
          THEN LET sp == lists[c][s] IN
               /\ bits' = [bits EXCEPT ![sp] = @ \cup {LowSlot(sp)}]
               /\ freelist' = Lowered(User[c])
               /\ Link(t, <<sp, LowSlot(sp)>>)
               /\ UNCHANGED <<class, lists>>
          ELSE /\ owner' = Released(t) /\ th' = [th EXCEPT ![t].at = "valloc"]
               /\ UNCHANGED <<memory, heap, index>>
       /\ UNCHANGED <<doomed, pending, leaked, collecting>>

(* gc_mspan_create_locked with the mutex again: the new span heads its     *)
(* list and its first slot is taken.                                       *)
Create(t) ==
    LET c == th[t].class
    IN /\ th[t].at = "valloc" /\ Free(t)
       /\ \E s \in Spans :
            /\ class[s] = None
            /\ class' = [class EXCEPT ![s] = c] /\ bits' = [bits EXCEPT ![s] = {0}]
            /\ lists' = [lists EXCEPT ![c] = <<s>> \o @]
            /\ freelist' = LET all == freelist + Slots[c] * User[c]
                           IN IF all >= User[c] THEN all - User[c] ELSE 0
            /\ Link(t, <<s, 0>>)
       /\ UNCHANGED <<doomed, pending, leaked, collecting>>

(* The system gives nothing: the next try, after a collection if it is the *)
(* third, or one for soft references if it is the fourth; then it is over. *)
NoMemory(t) ==
    LET n == th[t].try + 1
    IN /\ th[t].at = "valloc" /\ Free(t)
       /\ owner' = t
       /\ \E next \in CASE n = 1 -> {"pop"} [] n = 2 -> {"collect"}
                        [] n = 3 -> {"pop", "collect"} [] OTHER -> {"oom"} :
            th' = [th EXCEPT ![t].at = next, ![t].try = n]
       /\ UNCHANGED <<memory, index, heap, doomed, pending, leaked, collecting>>

(* gc_oom_fail takes the mutex its caller holds, for the message, gives it *)
(* back once and throws.                                                   *)
OutOfMemory(t) ==
    /\ th[t].at = "oom" /\ (Recursive \/ owner # t)
    /\ th' = [th EXCEPT ![t] = Idle] /\ leaked' = leaked \cup {t}
    /\ UNCHANGED <<memory, index, heap, doomed, pending, owner, collecting>>

---------------------------------------------------------------------------
(* gc_run_collect_locked: nothing if a collection is under way.  Unlinked  *)
(* blocks leave the index.                                                 *)
Collect(t) ==
    /\ th[t].at = "collect"
    /\ IF collecting THEN th' = [th EXCEPT ![t].at = "pop"] /\ UNCHANGED <<index, heap, doomed, owner, collecting>>
       ELSE \E dead \in SUBSET heap :
            /\ heap' = heap \ dead /\ index' = index \ dead /\ doomed' = dead
            /\ collecting' = TRUE /\ owner' = Released(t)
            /\ th' = [th EXCEPT ![t].at = "drain"]
    /\ UNCHANGED <<memory, pending, leaked>>

(* gc_span_push_locked, with the release of a span that becomes empty.     *)
Push(b) ==
    LET s == b[1]
        c == class[s]
        more == freelist + User[c]
    IN IF bits[s] = {b[2]}
       THEN /\ freelist' = IF more >= Slots[c] * User[c] THEN more - Slots[c] * User[c] ELSE 0
            /\ class' = [class EXCEPT ![s] = None] /\ bits' = [bits EXCEPT ![s] = {}]
            /\ lists' = [lists EXCEPT ![c] = SelectSeq(@, LAMBDA x : x # s)]
       ELSE /\ freelist' = more
            /\ bits' = [bits EXCEPT ![s] = @ \ {b[2]}] /\ UNCHANGED <<class, lists>>

(* One doomed block: its slot is free, or its finalizer is to run.         *)
Drain(t) ==
    /\ th[t].at = "drain" /\ Free(t)
    /\ \E b \in doomed :
         /\ doomed' = doomed \ {b}
         /\ \/ Push(b) /\ UNCHANGED pending
            \/ pending' = pending \cup {b} /\ UNCHANGED memory
    /\ UNCHANGED <<index, heap, owner, leaked, collecting, th>>
DrainEnds(t) ==
    /\ th[t].at = "drain" /\ Free(t) /\ doomed = {}
    /\ collecting' = FALSE /\ owner' = t
    /\ th' = [th EXCEPT ![t].at = "pop"]
    /\ UNCHANGED <<memory, index, heap, doomed, pending, leaked>>

(* Mutant: the slot of a resurrected block is freed like any other.        *)
FinalizedAlways(t) ==
    /\ th[t] = Idle /\ Free(t)
    /\ \E b \in pending :
         /\ pending' = pending \ {b}
         /\ Push(b)
         /\ \/ UNCHANGED <<heap, index>>
            \/ heap' = heap \cup {b} /\ index' = index \cup {b}
    /\ UNCHANGED <<doomed, owner, leaked, collecting, th>>

(* gc_drain_finalizers, after the finalizer: the block is linked again or  *)
(* its slot freed.                                                         *)
Finalized(t) ==
    /\ th[t] = Idle /\ Free(t)
    /\ \E b \in pending :
         /\ pending' = pending \ {b}
         /\ \/ Push(b) /\ UNCHANGED <<heap, index>>
            \/ heap' = heap \cup {b} /\ index' = index \cup {b} /\ UNCHANGED memory
    /\ UNCHANGED <<doomed, owner, leaked, collecting, th>>

Init ==
    /\ class = [s \in Spans |-> None] /\ bits = [s \in Spans |-> {}]
    /\ lists = [c \in Classes \cup {0} |-> <<>>]
    /\ index = {} /\ heap = {} /\ doomed = {} /\ pending = {} /\ freelist = 0
    /\ owner = Nobody /\ leaked = {} /\ collecting = FALSE /\ th = [t \in Threads |-> Idle]

Next ==
    \E t \in Threads :
        \/ \E c \in Classes \cup {0} : Begin(t, c)
        \/ Pop(t) \/ Create(t) \/ NoMemory(t) \/ OutOfMemory(t)
        \/ Collect(t) \/ Drain(t) \/ DrainEnds(t) \/ Finalized(t)

Spec == Init /\ [][Next]_vars

---------------------------------------------------------------------------
(* Properties.                                                             *)

(* The index finds the blocks of the heap and nothing else, each block in  *)
(* a slot that is taken of a span that is mapped; no slot is two blocks.   *)
IndexSound ==
    /\ index = heap
    /\ \A b \in heap \cup doomed \cup pending : class[b[1]] # None /\ b[2] \in bits[b[1]]
    /\ heap \cap (doomed \cup pending) = {} /\ doomed \cap pending = {}

(* The bytes counted as free are those of the free slots of all spans:     *)
(* the clamps at zero never act.                                           *)
FreelistExact ==
    freelist = MapThenSumSet(LAMBDA s : User[class[s]] * (Slots[class[s]] - Cardinality(bits[s])),
                             {s \in Spans : class[s] # None})

(* No span without a block is kept, so that the scavenger has nothing to   *)
(* do.                                                                     *)
NoEmptySpan == \A s \in Spans : class[s] # None => bits[s] # {}

(* Together: blocks and free memory are where the allocator says they are. *)
HeapSound == IndexSound /\ FreelistExact /\ NoEmptySpan

(* A thread that is done with the allocator does not hold its mutex.       *)
MutexGivenBack == \A t \in Threads : th[t] = Idle => owner # t
=============================================================================

---------------------------- MODULE GcMark_proof ----------------------------
(***************************************************************************)
(* Proofs about GcMark, for every value of the constants: its types; and,  *)
(* for collections whose root handshake stops somebody (RootSlip = FALSE), *)
(* major and minor, that no mutator ever holds a freed block, that the     *)
(* tricolour invariant holds and that a major cycle frees what was garbage *)
(* when it began.                                                          *)
(***************************************************************************)
EXTENDS GcMark, TLAPS

-----------------------------------------------------------------------------
(* Types.                                                                  *)

\* gc_enqueue takes linked blocks only, so marking keeps colours on blocks.
LEMMA MarkType ==
  ASSUME TypeOK, NEW S
  PROVE  /\ Enqueued(S) \subseteq heap
         /\ Mark(S) => marked' \subseteq Objects /\ grey' \subseteq Objects
<1>1. Enqueued(S) \subseteq heap
  BY DEF Enqueued
<1>2. QED
  BY <1>1 DEF TypeOK, Mark

\* Every action of a mutator keeps the types.
LEMMA MutatorType ==
  ASSUME TypeOK, NEW t \in Threads, MutatorStep(t)
  PROVE  TypeOK'
<1> USE DEF TypeOK, markVars, ctlVars
<1>1. ASSUME NEW o \in Objects, Alloc(t, o) PROVE TypeOK'
  <2>1. mem' \in [Cells -> Refs]
    BY <1>1 DEF Alloc, Refs
  <2>2. QED
    BY <1>1, <2>1 DEF Alloc
<1>2. ASSUME NEW o \in Objects, Drop(t, o) PROVE TypeOK'
  BY <1>2 DEF Drop
<1>3. ASSUME NEW o \in Objects, AddRoot(t, o) PROVE TypeOK'
  BY <1>3 DEF AddRoot
<1>4. ASSUME NEW o \in Objects, RemoveRoot(t, o) PROVE TypeOK'
  BY <1>4 DEF RemoveRoot
<1>5. ASSUME NEW o \in Objects, TakeRooted(t, o) PROVE TypeOK'
  BY <1>5 DEF TakeRooted
<1>6. ASSUME NEW c \in Cells, Load(t, c) PROVE TypeOK'
  <2>1. mem[c] \in Objects
    BY <1>6 DEF Load, Refs
  <2>2. QED
    BY <1>6, <2>1 DEF Load
<1>7. ASSUME NEW c \in Cells, NEW v \in Refs, BarrierIdle(t, c, v) PROVE TypeOK'
  <2>1. remset' \subseteq Objects
    BY <1>7 DEF BarrierIdle, Remember, Owner
  <2>2. gap' \in [Threads -> [dst : Cells, val : Refs] \cup {NoGap}]
    BY <1>7 DEF BarrierIdle
  <2>3. QED
    BY <1>7, <2>1, <2>2 DEF BarrierIdle
<1>8. ASSUME NEW c \in Cells, NEW v \in Refs, BarrierMark(t, c, v) PROVE TypeOK'
  <2>1. remset' \subseteq Objects
    BY <1>8 DEF BarrierMark, Remember, Owner
  <2>2. gap' \in [Threads -> [dst : Cells, val : Refs] \cup {NoGap}]
    BY <1>8 DEF BarrierMark
  <2>3. marked' \subseteq Objects /\ grey' \subseteq Objects
    BY <1>8, MarkType DEF BarrierMark
  <2>4. QED
    BY <1>8, <2>1, <2>2, <2>3 DEF BarrierMark
<1>9. ASSUME Store(t) PROVE TypeOK'
  <2>1. gap[t] \in [dst : Cells, val : Refs]
    BY <1>9 DEF Store
  <2>2. mem' \in [Cells -> Refs]
    BY <1>9, <2>1 DEF Store
  <2>3. QED
    BY <1>9, <2>2 DEF Store
<1>10. ASSUME Park(t) PROVE TypeOK'
  BY <1>10 DEF Park
<1>11. ASSUME Unpark(t) PROVE TypeOK'
  BY <1>11 DEF Unpark
<1>12. QED
  BY MutatorStep(t), <1>1, <1>2, <1>3, <1>4, <1>5, <1>6, <1>7, <1>8, <1>9, <1>10, <1>11
     DEF MutatorStep

\* Every action of the collector keeps the types.
LEMMA CollectorType ==
  ASSUME TypeOK, CollectorStep
  PROVE  TypeOK'
<1> USE MarkAssumption DEF MarkAssumption, TypeOK, mutVars, markVars, Collector, Step, CPCs
<1>1. ASSUME NEW t \in Threads, NEW m \in BOOLEAN, MarkSetup(t, m) PROVE TypeOK'
  BY <1>1 DEF MarkSetup
<1>2. CASE SeedRoots
  <2>1. marked' \subseteq Objects /\ grey' \subseteq Objects
    BY <1>2, MarkType DEF SeedRoots
  <2>2. QED
    BY <1>2, <2>1 DEF SeedRoots
<1>3. CASE RootRecount \/ TermRecount
  BY <1>3 DEF RootRecount, TermRecount, Recount
<1>4. ASSUME NEW t \in Threads, ScanThread(t) PROVE TypeOK'
  <2>1. marked' \subseteq Objects /\ grey' \subseteq Objects
    BY <1>4, MarkType DEF ScanThread
  <2>2. QED
    BY <1>4, <2>1 DEF ScanThread
<1>5. CASE RootDone
  BY <1>5 DEF RootDone
<1>6. ASSUME NEW o \in Objects, DrainOne(o) PROVE TypeOK'
  <2>1. marked' \subseteq Objects /\ grey' \subseteq Objects
    BY <1>6, MarkType DEF DrainOne
  <2>2. QED
    BY <1>6, <2>1 DEF DrainOne, ctlVars
<1>7. CASE TermRequest
  BY <1>7 DEF TermRequest
<1>8. CASE TermSeed
  <2>1. marked' \subseteq Objects /\ grey' \subseteq Objects
    BY <1>8, MarkType DEF TermSeed
  <2>2. QED
    BY <1>8, <2>1 DEF TermSeed
<1>9. CASE TermRetry
  BY <1>9 DEF TermRetry
<1>10. CASE Abort
  BY <1>10 DEF Abort
<1>11. ASSUME NEW p \in SUBSET Objects, Sweep(p) PROVE TypeOK'
  BY <1>11 DEF Sweep
<1>12. QED
  BY CollectorStep, <1>1, <1>2, <1>3, <1>4, <1>5, <1>6, <1>7, <1>8, <1>9, <1>10, <1>11
     DEF CollectorStep

\* Every cell, stack, root, colour and flag keeps its type, whatever the number
\* of blocks and threads, with minor collections and slipped handshakes too.
THEOREM TypeCorrect == Spec => []TypeOK
<1>1. Init => TypeOK
  <2> SUFFICES ASSUME Init PROVE TypeOK
    OBVIOUS
  <2>1. /\ mem \in [Cells -> Refs]
        /\ stack \in [Threads -> SUBSET Objects]
        /\ gap \in [Threads -> [dst : Cells, val : Refs] \cup {NoGap}]
    BY DEF Init, Refs
  <2>2. parked \in [Threads -> BOOLEAN]
    BY DEF Init
  <2>3. cycles \in 0 .. MaxCycles
    BY MarkAssumption DEF MarkAssumption, Init
  <2>4. QED
    BY <2>1, <2>2, <2>3 DEF Init, TypeOK, CPCs
<1>2. TypeOK /\ [Next]_vars => TypeOK'
  <2> SUFFICES ASSUME TypeOK, [Next]_vars PROVE TypeOK'
    OBVIOUS
  <2>1. CASE Next
    BY <2>1, MutatorType, CollectorType DEF Next
  <2>2. CASE UNCHANGED vars
    BY <2>2 DEF vars, mutVars, markVars, ctlVars, TypeOK
  <2>3. QED
    BY <2>1, <2>2
<1>3. QED
  BY <1>1, <1>2, PTL DEF Spec

-----------------------------------------------------------------------------
(* The inductive invariant, in parts.                                      *)

Early == {"setup", "rootWait", "rootScan"}
Late  == {"drain", "termWait", "termScan", "judge"}

\* Who collects, and that a handshake that waits has raised the request.
CtlInv ==
  /\ Minor \/ major
  /\ phase = "MARK" <=> cpc # "idle"
  /\ cpc # "idle" => self \in Threads
  /\ cpc = "idle" => self = Nobody
  /\ cpc \in {"rootWait", "termWait"} => request
  /\ cpc = "termWait" => scanned = {}

\* The blocks of K are linked, and roots, stacks, slots and fields of blocks of
\* K lead to blocks of K.
Alive(K) ==
  /\ K \subseteq heap
  /\ \A t \in Threads : stack[t] \subseteq K
  /\ roots \subseteq K
  /\ \A s \in Slots : mem[s] \in K \cup {Null}
  /\ \A o \in K, f \in Fields : mem[<<o, f>>] \in K \cup {Null}

\* There is such a set; major collections alone leave nothing else linked.  (A
\* minor one keeps old blocks that nobody reaches and frees their young ones.)
HeapInv == \E K \in SUBSET heap : Alive(K) /\ (Minor \/ K = heap)

\* A thread between barrier and store runs, and still holds what it stores
\* and where.
GapInv ==
  \A t \in Threads : gap[t] # NoGap =>
    /\ ~parked[t] /\ t # self
    /\ gap[t].val \in stack[t] \cup {Null}
    /\ gap[t].dst \in Slots \cup (stack[t] \X Fields)

\* The colours while a cycle is on; in a major one nothing is black before the
\* root handshake is over.
ColourInv ==
  cpc # "idle" =>
    /\ grey \subseteq marked
    /\ marked \subseteq heap
    /\ \A o \in marked \ grey, f \in Fields : mem[<<o, f>>] \in heap => mem[<<o, f>>] \in marked
    /\ major /\ cpc \in Early => marked = grey

\* A root handshake that missed nobody leaves no store behind whose barrier ran
\* before marking began; from then on both ends of a pending store are shaded.
\* A minor mark, which scans old blocks before that handshake, has no such store.
ShadeInv ==
  /\ cpc = "rootScan" /\ complete => \A t \in Threads : gap[t] = NoGap
  /\ ~major /\ cpc \in {"rootWait", "rootScan"} => \A t \in Threads : gap[t] = NoGap
  /\ cpc \in Late => \A t \in Threads : gap[t] # NoGap =>
       /\ gap[t].val \in marked \cup {Null}
       /\ mem[gap[t].dst] \in marked \cup {Null}

SeedsMarked ==
  /\ roots \subseteq marked
  /\ \A s \in Slots : mem[s] \in marked \cup {Null}

\* What is marked or may be found from roots and slots is in X.
Findable(X) ==
  /\ marked \subseteq X
  /\ roots \subseteq X
  /\ \A s \in Slots : mem[s] \in X \cup {Null}
  /\ \A o \in X, f \in Fields : mem[<<o, f>>] \in heap => mem[<<o, f>>] \in X

\* When the worklist is empty, a thread scanned by the termination handshake
\* holds nothing white but what roots and slots still have to give.
TermInv ==
  /\ cpc = "termScan" /\ grey = {} =>
       \A t \in scanned : \A X \in SUBSET heap : Findable(X) => stack[t] \subseteq X
  /\ cpc = "judge" /\ grey = {} =>
       SeedsMarked /\ \A t \in scanned \cup {self} : stack[t] \subseteq marked

IInv == CtlInv /\ HeapInv /\ GapInv /\ ColourInv /\ ShadeInv /\ TermInv

\* What nobody could reach when the cycle began stays out of reach, and a major
\* mark does not find it.
LostInv ==
  cpc # "idle" =>
    /\ lost \subseteq heap
    /\ roots \cap lost = {}
    /\ \A t \in Threads : stack[t] \cap lost = {}
    /\ \A s \in Slots : mem[s] \notin lost
    /\ \A o \in heap \ lost, f \in Fields : mem[<<o, f>>] \notin lost
    /\ major => marked \cap lost = {}

-----------------------------------------------------------------------------
(* Preservation.                                                           *)

\* gc_enqueue marks blocks, the white ones it is given among them; what it does
\* not leave grey is old, and the blocks that leads to are marked with it.
LEMMA EnqueuedIs ==
  ASSUME NEW S
  PROVE  /\ Enqueued(S) \subseteq heap \ marked
         /\ (S \cap heap) \ marked \subseteq Enqueued(S)
         /\ major => Enqueued(S) = (S \cap heap) \ marked
         /\ ~major => \A o \in Enqueued(S) \cap old : (Children(o) \cap heap) \ marked \subseteq Enqueued(S)
<1>1. CASE major
  BY <1>1 DEF Enqueued
<1>2. CASE ~major
  <2> DEFINE Closed(X) == /\ (S \cap heap) \ marked \subseteq X
                          /\ \A o \in X \cap old : (Children(o) \cap heap) \ marked \subseteq X
  <2>1. Enqueued(S) = {o \in heap : \A X \in SUBSET heap : Closed(X) => o \in X}
    BY <1>2 DEF Enqueued
  <2>2. Closed(heap \ marked) /\ heap \ marked \in SUBSET heap
    OBVIOUS
  <2>3. Enqueued(S) \subseteq heap \ marked
    BY <2>1, <2>2
  <2>4. (S \cap heap) \ marked \subseteq Enqueued(S)
    BY <2>1
  <2>5. ASSUME NEW o \in Enqueued(S) \cap old, NEW x \in (Children(o) \cap heap) \ marked
        PROVE  x \in Enqueued(S)
    <3> SUFFICES ASSUME NEW X \in SUBSET heap, Closed(X) PROVE x \in X
      BY <2>1, <2>5
    <3>1. o \in X
      BY <2>1
    <3>2. QED
      BY <3>1
  <2>6. QED
    BY <1>2, <2>3, <2>4, <2>5
<1>3. QED
  BY <1>1, <1>2

\* Marking leaves no block black that leads to a white one.
LEMMA MarkColours ==
  ASSUME TypeOK, ColourInv, cpc # "idle", NEW S,
         marked' = marked \cup Enqueued(S),
         {o \in Enqueued(S) : major \/ o \notin old} \subseteq grey', grey' \subseteq grey \cup Enqueued(S),
         \A o \in grey \ grey' : Children(o) \cap heap \subseteq marked'
  PROVE  /\ grey' \subseteq marked' /\ marked' \subseteq heap
         /\ \A o \in marked' \ grey', f \in Fields : mem[<<o, f>>] \in heap => mem[<<o, f>>] \in marked'
         /\ S \cap heap \subseteq marked'
         /\ major => marked' = marked \cup (S \cap heap)
<1>1. grey \subseteq marked /\ marked \subseteq heap
  BY DEF ColourInv
<1>2. grey' \subseteq marked' /\ marked' \subseteq heap
  BY <1>1, EnqueuedIs
<1>3. ASSUME NEW o \in marked' \ grey', NEW f \in Fields, mem[<<o, f>>] \in heap
      PROVE  mem[<<o, f>>] \in marked'
  <2>1. mem[<<o, f>>] \in Children(o) \cap heap
    BY <1>2, <1>3, MarkAssumption DEF Children, MarkAssumption, TypeOK
  <2>2. CASE o \in marked \ grey
    BY <2>2, <1>3 DEF ColourInv
  <2>3. CASE o \in grey \ grey'
    BY <2>1, <2>3
  <2>4. CASE o \in Enqueued(S) /\ ~major /\ o \in old
    BY <2>1, <2>4, EnqueuedIs
  <2>5. QED
    BY <1>3, <2>2, <2>3, <2>4
<1>4. S \cap heap \subseteq marked'
  BY EnqueuedIs
<1>5. major => marked' = marked \cup (S \cap heap)
  BY EnqueuedIs
<1>6. QED
  BY <1>2, <1>3, <1>4, <1>5

\* The same of a step that only marks.
LEMMA MarkAll ==
  ASSUME TypeOK, ColourInv, cpc # "idle", NEW S, Mark(S), UNCHANGED <<heap, mem>>
  PROVE  /\ grey \subseteq grey' /\ grey' \subseteq marked' /\ marked \subseteq marked' /\ marked' \subseteq heap
         /\ \A o \in marked' \ grey', f \in Fields : mem[<<o, f>>] \in heap => mem[<<o, f>>] \in marked'
         /\ S \cap heap \subseteq marked'
         /\ major => /\ marked' = marked \cup (S \cap heap)
                     /\ grey' = grey \cup ((S \cap heap) \ marked)
<1>1. grey' = grey \cup {o \in Enqueued(S) : major \/ o \notin old} /\ marked' = marked \cup Enqueued(S)
  BY DEF Mark
<1>2. /\ grey' \subseteq marked' /\ marked' \subseteq heap
      /\ \A o \in marked' \ grey', f \in Fields : mem[<<o, f>>] \in heap => mem[<<o, f>>] \in marked'
      /\ S \cap heap \subseteq marked'
      /\ major => marked' = marked \cup (S \cap heap)
  BY <1>1, MarkColours
<1>3. major => grey' = grey \cup ((S \cap heap) \ marked)
  BY <1>1, EnqueuedIs
<1>4. QED
  BY <1>1, <1>2, <1>3

\* What a thread holds is linked, and so is what it can point its store at, or
\* load, if it is not null.
LEMMA HeldHeap ==
  ASSUME HeapInv
  PROVE  /\ \A t \in Threads : stack[t] \subseteq heap
         /\ roots \subseteq heap
         /\ \A s \in Slots : mem[s] \in heap \cup {Null}
         /\ \A t \in Threads : \A o \in stack[t], f \in Fields : mem[<<o, f>>] \in heap \cup {Null}
BY DEF HeapInv, Alive

LEMMA TargetHeap ==
  ASSUME HeapInv, NEW t \in Threads, NEW c, Target(t, c)
  PROVE  /\ c \in Slots \cup (stack[t] \X Fields)
         /\ mem[c] \in heap \cup {Null}
BY HeldHeap DEF Target

\* A step that changes none of these keeps the heap alive.
LEMMA HeapInert ==
  ASSUME HeapInv, UNCHANGED <<heap, mem, stack, roots>>
  PROVE  HeapInv'
BY DEF HeapInv, Alive

\* The same set stays alive if threads take up what is in it.
LEMMA HeapTaken ==
  ASSUME TypeOK, HeapInv, NEW t \in Threads, NEW o, UNCHANGED <<heap, mem>>,
         stack' = [stack EXCEPT ![t] = @ \cup {o}], roots' = roots,
         \A K \in SUBSET heap : Alive(K) => o \in K
  PROVE  HeapInv'
<1>1. PICK K \in SUBSET heap : Alive(K) /\ (Minor \/ K = heap)
  BY DEF HeapInv
<1>2. Alive(K)'
  BY <1>1 DEF Alive, TypeOK
<1>3. QED
  BY <1>1, <1>2 DEF HeapInv

LEMMA InitInv == Init => IInv
<1> SUFFICES ASSUME Init PROVE IInv
  OBVIOUS
<1>1. CtlInv
  BY DEF Init, CtlInv
<1>2. HeapInv
  BY DEF Init, HeapInv, Alive, Cells
<1>3. GapInv /\ ColourInv /\ ShadeInv /\ TermInv
  BY DEF Init, GapInv, ColourInv, ShadeInv, TermInv, Late
<1>4. QED
  BY <1>1, <1>2, <1>3 DEF IInv

LEMMA AllocInv ==
  ASSUME TypeOK, IInv, NEW t \in Threads, NEW o \in Objects, Alloc(t, o)
  PROVE  IInv'
<1> USE DEF markVars, ctlVars, IInv
<1>1. CtlInv'
  BY DEF Alloc, CtlInv
<1>2. \A c \in Cells : c \notin {o} \X Fields => mem'[c] = mem[c]
  BY DEF Alloc
<1>3. \A s \in Slots : mem'[s] = mem[s]
  BY <1>2, MarkAssumption DEF MarkAssumption, Cells
<1>4. \A x \in heap, f \in Fields : mem'[<<x, f>>] = mem[<<x, f>>]
  BY <1>2 DEF Alloc, TypeOK, Cells
<1>5. \A f \in Fields : mem'[<<o, f>>] = Null
  BY DEF Alloc, Cells
<1>6. HeapInv'
  <2>1. PICK K \in SUBSET heap : Alive(K) /\ (Minor \/ K = heap)
    BY DEF HeapInv
  <2>2. \A x \in K \cup {o}, f \in Fields : mem'[<<x, f>>] \in K \cup {Null}
    BY <2>1, <1>4, <1>5 DEF Alive
  <2>3. Alive(K \cup {o})'
    BY <2>1, <2>2, <1>3 DEF Alloc, Alive, TypeOK
  <2>4. QED
    BY <2>1, <2>3 DEF Alloc, HeapInv
<1>7. GapInv'
  BY DEF Alloc, GapInv, Free, Running, TypeOK
<1>8. ColourInv'
  <2>1. CASE cpc = "idle"
    BY <2>1 DEF Alloc, ColourInv
  <2>2. CASE cpc # "idle"
    <3>1. phase = "MARK" /\ cpc = "drain" /\ cpc' = cpc /\ heap' = heap \cup {o}
      BY <2>2 DEF Alloc, CtlInv, LockFree
    <3>2. marked' = marked \cup {o} /\ grey' = grey
      BY <3>1 DEF Alloc
    <3>3. Null \notin heap'
      BY <3>1, MarkAssumption DEF MarkAssumption, TypeOK
    <3>4. \A x \in marked' \ grey', f \in Fields : mem'[<<x, f>>] \in heap' => mem'[<<x, f>>] \in marked'
      BY <2>2, <3>1, <3>2, <3>3, <1>4, <1>5 DEF ColourInv
    <3>5. QED
      BY <2>2, <3>1, <3>2, <3>4 DEF ColourInv, Early
  <2>3. QED
    BY <2>1, <2>2
<1>9. ShadeInv'
  <2>1. CASE cpc \in Late
    <3>1. marked' = marked \cup {o} /\ cpc' = cpc /\ gap' = gap
      BY <2>1 DEF Alloc, CtlInv, Late
    <3>2. \A u \in Threads : gap[u] # NoGap => mem'[gap[u].dst] = mem[gap[u].dst]
      BY <1>3, <1>4, HeldHeap DEF GapInv
    <3>3. QED
      BY <2>1, <3>1, <3>2 DEF ShadeInv, Late
  <2>2. CASE cpc \notin Late
    BY <2>2 DEF Alloc, ShadeInv, Late
  <2>3. QED
    BY <2>1, <2>2
<1>10. TermInv'
  BY DEF Alloc, TermInv, LockFree
<1>11. QED
  BY <1>1, <1>6, <1>7, <1>8, <1>9, <1>10

LEMMA LoadInv ==
  ASSUME TypeOK, IInv, NEW t \in Threads, NEW c \in Cells, Load(t, c)
  PROVE  IInv'
<1> USE DEF markVars, ctlVars, IInv
<1>1. mem[c] \in heap /\ c \in Slots \cup (stack[t] \X Fields)
  BY HeldHeap DEF Load
<1>2. /\ stack' = [stack EXCEPT ![t] = @ \cup {mem[c]}]
      /\ \A u \in Threads : stack[u] \subseteq stack'[u]
  BY DEF Load, TypeOK
<1>3. CtlInv' /\ ColourInv' /\ ShadeInv'
  BY DEF Load, CtlInv, ColourInv, ShadeInv
<1>4. HeapInv'
  <2>1. ASSUME NEW K \in SUBSET heap, Alive(K) PROVE mem[c] \in K
    BY <1>1, <2>1 DEF Alive, Load
  <2>2. QED
    BY <1>2, <2>1, HeapTaken DEF Load
<1>5. GapInv'
  BY <1>2 DEF Load, GapInv
<1>6. TermInv'
  <2>1. t # self /\ UNCHANGED <<cpc, grey, marked, mem, heap, roots, scanned, self>>
    BY DEF Load, Free, Running
  <2>2. ASSUME NEW X \in SUBSET heap, Findable(X), stack[t] \subseteq X PROVE mem[c] \in X
    <3>1. CASE c \in Slots
      BY <2>2, <3>1 DEF Findable, Load
    <3>2. CASE c \in stack[t] \X Fields
      BY <2>2, <3>2, <1>1 DEF Findable
    <3>3. QED
      BY <1>1, <3>1, <3>2
  <2>3. ASSUME cpc = "judge", grey = {}, stack[t] \subseteq marked PROVE mem[c] \in marked
    <3>1. CASE c \in Slots
      BY <2>3, <3>1 DEF TermInv, SeedsMarked, Load
    <3>2. CASE c \in stack[t] \X Fields
      BY <2>3, <3>2, <1>1 DEF ColourInv
    <3>3. QED
      BY <1>1, <3>1, <3>2
  <2>4. \A u \in Threads : stack'[u] = IF u = t THEN stack[u] \cup {mem[c]} ELSE stack[u]
    BY <1>2 DEF TypeOK
  <2>5. cpc = "termScan" /\ grey = {} => \A u \in scanned : \A X \in SUBSET heap : Findable(X) => stack'[u] \subseteq X
    BY <2>2, <2>4 DEF TermInv, TypeOK
  <2>6. cpc = "judge" /\ grey = {} => SeedsMarked /\ \A u \in scanned \cup {self} : stack'[u] \subseteq marked
    BY <2>1, <2>3, <2>4 DEF TermInv, TypeOK, CtlInv
  <2>7. \A X : Findable(X)' <=> Findable(X)
    BY <2>1 DEF Findable
  <2>8. QED
    BY <2>1, <2>5, <2>6, <2>7 DEF TermInv, SeedsMarked
<1>7. QED
  BY <1>3, <1>4, <1>5, <1>6

LEMMA DropInv ==
  ASSUME TypeOK, IInv, NEW t \in Threads, NEW o \in Objects, Drop(t, o)
  PROVE  IInv'
<1> USE DEF markVars, ctlVars, IInv
<1>1. \A u \in Threads : stack'[u] \subseteq stack[u] /\ (u # t => stack'[u] = stack[u])
  BY DEF Drop, TypeOK
<1>2. CtlInv' /\ ColourInv' /\ ShadeInv'
  BY DEF Drop, CtlInv, ColourInv, ShadeInv
<1>3. HeapInv'
  BY <1>1 DEF Drop, HeapInv, Alive
<1>4. GapInv'
  BY <1>1 DEF Drop, GapInv, Free
<1>5. TermInv'
  <2>1. (SeedsMarked' <=> SeedsMarked) /\ \A X : Findable(X)' <=> Findable(X)
    BY DEF Drop, SeedsMarked, Findable
  <2>2. cpc = "judge" => self \in Threads
    BY DEF CtlInv
  <2>3. QED
    BY <1>1, <2>1, <2>2 DEF Drop, TermInv, TypeOK
<1>6. QED
  BY <1>2, <1>3, <1>4, <1>5

LEMMA BarrierInv ==
  ASSUME TypeOK, IInv, NEW t \in Threads, NEW c \in Cells, NEW v \in Refs,
         BarrierIdle(t, c, v) \/ BarrierMark(t, c, v)
  PROVE  IInv'
<1> USE DEF markVars, ctlVars, IInv
<1>1. /\ c \in Slots \cup (stack[t] \X Fields)
      /\ mem[c] \in heap \cup {Null}
      /\ v \in stack[t] \cup {Null} /\ v \in heap \cup {Null}
      /\ ~parked[t] /\ t # self /\ gap[t] = NoGap
  BY TargetHeap, HeldHeap DEF BarrierIdle, BarrierMark, Free, Running
<1>2. /\ UNCHANGED <<heap, mem, stack, roots, old, parked, phase, major, ctlVars>>
      /\ gap' = [gap EXCEPT ![t] = [dst |-> c, val |-> v]]
  BY DEF BarrierIdle, BarrierMark
<1>3. CtlInv' /\ HeapInv'
  BY <1>2, HeapInert DEF CtlInv
<1>4. GapInv'
  BY <1>1, <1>2 DEF GapInv, TypeOK
<1>5. CASE phase = "IDLE"
  <2>1. cpc = "idle"
    BY <1>5 DEF CtlInv
  <2>2. QED
    BY <2>1, <1>2, <1>3, <1>4 DEF ColourInv, ShadeInv, TermInv, Late
<1>6. CASE phase = "MARK"
  <2>1. cpc = "drain"
    BY <1>6 DEF BarrierIdle, BarrierMark, CtlInv, LockFree
  <2>2. Mark({mem[c], v})
    BY <1>6 DEF BarrierIdle, BarrierMark
  <2>3. /\ grey' \subseteq marked' /\ marked \subseteq marked' /\ marked' \subseteq heap
        /\ \A o \in marked' \ grey', f \in Fields : mem[<<o, f>>] \in heap => mem[<<o, f>>] \in marked'
        /\ {mem[c], v} \cap heap \subseteq marked'
    BY <1>2, <2>1, <2>2, MarkAll
  <2>4. ColourInv'
    BY <2>1, <2>3, <1>2 DEF ColourInv, Early
  <2>5. ShadeInv'
    <3>1. v \in marked' \cup {Null} /\ mem[c] \in marked' \cup {Null}
      BY <1>1, <2>3
    <3>2. gap'[t] = [dst |-> c, val |-> v] /\ \A u \in Threads \ {t} : gap'[u] = gap[u]
      BY <1>2 DEF TypeOK
    <3>3. QED
      BY <2>1, <2>3, <3>1, <3>2, <1>2 DEF ShadeInv, Late
  <2>6. TermInv'
    BY <2>1, <1>2 DEF TermInv
  <2>7. QED
    BY <1>3, <1>4, <2>4, <2>5, <2>6
<1>7. QED
  BY <1>5, <1>6 DEF TypeOK

LEMMA StoreInv ==
  ASSUME TypeOK, IInv, NoStoreAtSetup, NEW t \in Threads, Store(t)
  PROVE  IInv'
<1> USE DEF markVars, ctlVars, IInv
<1> DEFINE c == gap[t].dst
           v == gap[t].val
<1>1. /\ c \in Slots \cup (stack[t] \X Fields) /\ c \in Cells
      /\ v \in stack[t] \cup {Null} /\ v \in heap \cup {Null}
  BY HeldHeap DEF Store, GapInv, TypeOK
<1>2. /\ mem' = [mem EXCEPT ![c] = v]
      /\ gap' = [gap EXCEPT ![t] = NoGap]
      /\ UNCHANGED <<heap, stack, roots, parked, phase, marked, grey, ctlVars, major>>
  BY DEF Store
<1>3. cpc \in Late => v \in marked \cup {Null} /\ mem[c] \in marked \cup {Null}
  BY DEF ShadeInv, Store
<1>4. cpc \in Early => major
  BY DEF ShadeInv, Store, NoStoreAtSetup, Early
<1> HIDE DEF c, v
<1>5. \A x \in Cells : mem'[x] = IF x = c THEN v ELSE mem[x]
  BY <1>1, <1>2 DEF TypeOK
<1>6. \A s \in Slots : mem'[s] \in {mem[s], v}
  BY <1>5 DEF Cells
<1>7. \A o \in heap, f \in Fields : mem'[<<o, f>>] \in {mem[<<o, f>>], v}
  BY <1>5 DEF Cells, TypeOK
<1>8. CtlInv'
  BY <1>2 DEF CtlInv
<1>9. HeapInv'
  <2>1. PICK K \in SUBSET heap : Alive(K) /\ (Minor \/ K = heap)
    BY DEF HeapInv
  <2>2. v \in K \cup {Null}
    BY <1>1, <2>1 DEF Alive
  <2>3. Alive(K)'
    BY <1>2, <1>6, <1>7, <2>1, <2>2 DEF Alive
  <2>4. QED
    BY <1>2, <2>1, <2>3 DEF HeapInv
<1>10. GapInv'
  BY <1>2 DEF GapInv, TypeOK
<1>11. Null \notin heap
  BY MarkAssumption DEF MarkAssumption, TypeOK
<1>12. ColourInv'
  <2>1. CASE cpc \in Late
    <3>1. v \in heap => v \in marked
      BY <2>1, <1>3, <1>11
    <3>2. QED
      BY <2>1, <3>1, <1>2, <1>7 DEF ColourInv, Early, Late
  <2>2. CASE cpc \in Early
    BY <2>2, <1>2, <1>4 DEF ColourInv, Early
  <2>3. CASE cpc = "idle"
    BY <2>3, <1>2 DEF ColourInv
  <2>4. QED
    BY <2>1, <2>2, <2>3 DEF TypeOK, CPCs, Early, Late
<1>13. ShadeInv'
  <2>1. \A u \in Threads : gap'[u] # NoGap => gap'[u] = gap[u] /\ gap[u].dst \in Cells
    BY <1>2 DEF TypeOK
  <2>2. QED
    BY <2>1, <1>2, <1>3, <1>5 DEF ShadeInv, TypeOK
<1>14. TermInv'
  <2>1. CASE cpc \in {"termScan", "judge"}
    <3>1. v \in marked \cup {Null} /\ mem[c] \in marked \cup {Null}
      BY <1>3, <2>1 DEF Late
    <3>2. SeedsMarked <=> SeedsMarked'
      BY <3>1, <1>2, <1>5 DEF SeedsMarked, Cells
    <3>3. ASSUME NEW X \in SUBSET heap, Findable(X)' PROVE Findable(X)
      <4>1. v \in X \cup {Null} /\ mem[c] \in X \cup {Null} /\ marked \subseteq X /\ roots \subseteq X
        BY <3>1, <3>3, <1>2 DEF Findable
      <4>2. \A s \in Slots : mem[s] \in X \cup {Null}
        BY <4>1, <3>3, <1>5 DEF Findable, Cells
      <4>3. \A o \in X, f \in Fields : mem[<<o, f>>] \in heap => mem[<<o, f>>] \in X
        <5> TAKE o \in X, f \in Fields
        <5>1. <<o, f>> \in Cells
          BY DEF Cells, TypeOK
        <5>2. CASE <<o, f>> = c
          BY <4>1, <5>2, <1>11
        <5>3. CASE <<o, f>> # c
          <6>1. mem'[<<o, f>>] = mem[<<o, f>>]
            BY <5>1, <5>3, <1>5
          <6>2. QED
            BY <6>1, <3>3, <1>2 DEF Findable
        <5>4. QED
          BY <5>2, <5>3
      <4>4. QED
        BY <4>1, <4>2, <4>3 DEF Findable
    <3>4. QED
      BY <3>2, <3>3, <1>2 DEF TermInv
  <2>2. CASE cpc \notin {"termScan", "judge"}
    BY <2>2, <1>2 DEF TermInv
  <2>3. QED
    BY <2>1, <2>2
<1>15. QED
  BY <1>8, <1>9, <1>10, <1>12, <1>13, <1>14

LEMMA RootsInv ==
  ASSUME TypeOK, IInv, NEW t \in Threads, NEW o \in Objects,
         AddRoot(t, o) \/ RemoveRoot(t, o)
  PROVE  IInv'
<1> USE DEF markVars, ctlVars, IInv
<1>1. /\ roots' \subseteq roots \cup stack[t] /\ cpc \notin {"termScan", "judge"}
      /\ UNCHANGED <<heap, mem, stack, gap, parked, markVars, ctlVars>>
  BY DEF AddRoot, RemoveRoot, LockFree
<1>2. CtlInv' /\ GapInv' /\ ColourInv' /\ ShadeInv' /\ TermInv'
  BY <1>1 DEF CtlInv, GapInv, ColourInv, ShadeInv, TermInv
<1>3. HeapInv'
  BY <1>1 DEF HeapInv, Alive
<1>4. QED
  BY <1>2, <1>3

LEMMA TakeRootedInv ==
  ASSUME TypeOK, IInv, NEW t \in Threads, NEW o \in Objects, TakeRooted(t, o)
  PROVE  IInv'
<1> USE DEF markVars, ctlVars, IInv
<1>1. /\ stack' = [stack EXCEPT ![t] = @ \cup {o}] /\ o \in roots /\ t # self
      /\ \A u \in Threads : stack[u] \subseteq stack'[u]
      /\ UNCHANGED <<heap, mem, roots, gap, parked, markVars, ctlVars>>
  BY DEF TakeRooted, Free, Running, TypeOK
<1>2. CtlInv' /\ ColourInv' /\ ShadeInv'
  BY <1>1 DEF CtlInv, ColourInv, ShadeInv
<1>3. HeapInv'
  <2>1. \A K \in SUBSET heap : Alive(K) => o \in K
    BY <1>1 DEF Alive
  <2>2. QED
    BY <1>1, <2>1, HeapTaken
<1>4. GapInv'
  BY <1>1 DEF GapInv
<1>5. TermInv'
  <2>1. \A u \in Threads : stack'[u] = IF u = t THEN stack[u] \cup {o} ELSE stack[u]
    BY <1>1 DEF TypeOK
  <2>2. \A X : (Findable(X)' <=> Findable(X)) /\ (Findable(X) => o \in X)
    BY <1>1 DEF Findable
  <2>3. (SeedsMarked' <=> SeedsMarked) /\ (SeedsMarked => o \in marked)
    BY <1>1 DEF SeedsMarked
  <2>4. QED
    BY <1>1, <2>1, <2>2, <2>3 DEF TermInv, CtlInv, TypeOK
<1>6. QED
  BY <1>2, <1>3, <1>4, <1>5

LEMMA ParkInv ==
  ASSUME TypeOK, IInv, NEW t \in Threads, Park(t) \/ Unpark(t)
  PROVE  IInv'
<1> USE DEF markVars, ctlVars, IInv
<1>1. UNCHANGED <<heap, mem, stack, roots, old, remset, gap, markVars, ctlVars>>
  BY DEF Park, Unpark
<1>2. CtlInv' /\ HeapInv' /\ ColourInv' /\ ShadeInv' /\ TermInv'
  BY <1>1, HeapInert DEF CtlInv, ColourInv, ShadeInv, TermInv, SeedsMarked, Findable
<1>3. GapInv'
  BY <1>1 DEF GapInv, Park, Unpark, Free, TypeOK
<1>4. QED
  BY <1>2, <1>3

\* The collector: what is seeded at least.
LEMMA SeedsHeap ==
  ASSUME TypeOK, IInv, cpc # "idle"
  PROVE  /\ roots \cup stack[self] \subseteq Seeds \cap heap
         /\ \A s \in Slots : mem[s] \in (Seeds \cap heap) \cup {Null}
<1>1. self \in Threads
  BY DEF IInv, CtlInv
<1>2. QED
  BY <1>1, HeldHeap DEF IInv, Seeds

LEMMA MarkSetupInv ==
  ASSUME TypeOK, IInv, NEW t \in Threads, NEW m \in BOOLEAN, MarkSetup(t, m)
  PROVE  IInv'
<1> USE DEF mutVars, IInv, Collector, Step
<1>1. CtlInv'
  BY DEF MarkSetup, CtlInv
<1>2. HeapInv'
  BY HeapInert DEF MarkSetup
<1>3. GapInv'
  BY DEF MarkSetup, GapInv, Free, Running
<1>4. ColourInv' /\ ShadeInv' /\ TermInv'
  BY DEF MarkSetup, ColourInv, ShadeInv, TermInv, Late
<1>5. QED
  BY <1>1, <1>2, <1>3, <1>4

LEMMA SeedRootsInv ==
  ASSUME TypeOK, IInv, NoStoreAtSetup, SeedRoots
  PROVE  IInv'
<1> USE DEF mutVars, IInv, Collector, Step
<1>1. /\ cpc = "setup" /\ (major => marked = grey) /\ self \in Threads
      /\ UNCHANGED <<heap, mem, stack, roots, gap, parked, phase, major, self, scanned>>
  BY DEF SeedRoots, ColourInv, CtlInv, Early
<1>2. /\ grey' \subseteq marked' /\ marked' \subseteq heap
      /\ \A o \in marked' \ grey', f \in Fields : mem[<<o, f>>] \in heap => mem[<<o, f>>] \in marked'
      /\ major => marked' = marked \cup (Seeds \cap heap) /\ grey' = grey \cup ((Seeds \cap heap) \ marked)
  BY <1>1, MarkAll DEF SeedRoots
<1>3. CtlInv'
  BY <1>1 DEF SeedRoots, CtlInv
<1>4. HeapInv' /\ GapInv'
  BY <1>1, HeapInert DEF GapInv
<1>5. ColourInv'
  BY <1>1, <1>2 DEF ColourInv
<1>6. ShadeInv'
  <2>1. ~major => \A u \in Threads : gap[u] = NoGap
    BY <1>1 DEF NoStoreAtSetup
  <2>2. cpc' = "rootScan" => \A u \in Threads : gap[u] = NoGap
    BY <1>1 DEF SeedRoots, GapInv, Others
  <2>3. cpc' \notin Late
    BY DEF SeedRoots, Late
  <2>4. QED
    BY <1>1, <2>1, <2>2, <2>3 DEF ShadeInv
<1>7. TermInv'
  BY <1>1 DEF SeedRoots, TermInv
<1>8. QED
  BY <1>3, <1>4, <1>5, <1>6, <1>7

LEMMA RecountInv ==
  ASSUME TypeOK, IInv, ~RootSlip, RootRecount \/ TermRecount
  PROVE  IInv'
<1> USE DEF mutVars, markVars, IInv, Collector, Step, RootRecount, TermRecount, Recount
<1>1. CtlInv'
  BY DEF CtlInv
<1>2. HeapInv' /\ GapInv'
  BY HeapInert DEF GapInv
<1>3. ColourInv'
  BY DEF ColourInv, Early
<1>4. ShadeInv'
  <2>1. CASE RootRecount
    <3>1. complete' => \A u \in Threads : gap[u] = NoGap
      BY <2>1 DEF GapInv, Others
    <3>2. QED
      BY <2>1, <3>1 DEF ShadeInv, Late
  <2>2. CASE TermRecount
    BY <2>2 DEF ShadeInv, Late
  <2>3. QED
    BY <2>1, <2>2
<1>5. TermInv'
  BY DEF CtlInv, TermInv
<1>6. QED
  BY <1>1, <1>2, <1>3, <1>4, <1>5

LEMMA ScanThreadInv ==
  ASSUME TypeOK, IInv, NEW t \in Threads, ScanThread(t)
  PROVE  IInv'
<1> USE DEF mutVars, IInv, Collector
<1>1. /\ cpc \in {"rootScan", "termScan"}
      /\ scanned' = scanned \cup {t}
      /\ UNCHANGED <<heap, mem, stack, roots, gap, parked, phase, major, self, cpc,
                     request, complete>>
  BY DEF ScanThread
<1>2. /\ grey \subseteq grey' /\ grey' \subseteq marked' /\ marked \subseteq marked' /\ marked' \subseteq heap
      /\ \A o \in marked' \ grey', f \in Fields : mem[<<o, f>>] \in heap => mem[<<o, f>>] \in marked'
      /\ stack[t] \cap heap \subseteq marked'
      /\ major => marked' = marked \cup (stack[t] \cap heap) /\ grey' = grey \cup ((stack[t] \cap heap) \ marked)
  BY <1>1, MarkAll DEF ScanThread
<1>3. CtlInv'
  BY <1>1 DEF CtlInv
<1>4. HeapInv' /\ GapInv'
  BY <1>1, HeapInert DEF GapInv
<1>5. ColourInv'
  BY <1>1, <1>2 DEF ColourInv
<1>6. ShadeInv'
  BY <1>1, <1>2 DEF ShadeInv
<1>7. TermInv'
  <2>1. stack[t] \subseteq marked'
    BY <1>2, HeldHeap
  <2>2. \A X : Findable(X)' => Findable(X) /\ marked' \subseteq X
    BY <1>1, <1>2 DEF Findable
  <2>3. ASSUME grey' = {}, cpc = "termScan", NEW u \in scanned', NEW X \in SUBSET heap, Findable(X)'
        PROVE  stack[u] \subseteq X
    <3>1. grey = {}
      BY <1>2, <2>3
    <3>2. CASE u = t
      BY <2>1, <2>2, <2>3, <3>2
    <3>3. CASE u \in scanned
      BY <2>2, <2>3, <3>1, <3>3 DEF TermInv
    <3>4. QED
      BY <1>1, <2>3, <3>2, <3>3
  <2>4. QED
    BY <1>1, <2>3 DEF TermInv
<1>8. QED
  BY <1>3, <1>4, <1>5, <1>6, <1>7

LEMMA RootDoneInv ==
  ASSUME TypeOK, IInv, RootDone
  PROVE  IInv'
<1> USE DEF mutVars, markVars, IInv, Collector, Step, RootDone
<1>1. CtlInv'
  BY DEF CtlInv
<1>2. HeapInv' /\ GapInv'
  BY HeapInert DEF GapInv
<1>3. ColourInv'
  BY DEF ColourInv, Early
<1>4. ShadeInv' /\ TermInv'
  BY DEF ShadeInv, TermInv
<1>5. QED
  BY <1>1, <1>2, <1>3, <1>4

LEMMA DrainOneInv ==
  ASSUME TypeOK, IInv, NEW o \in Objects, DrainOne(o)
  PROVE  IInv'
<1> USE DEF mutVars, ctlVars, IInv, Collector
<1>1. /\ cpc = "drain" /\ o \in grey
      /\ UNCHANGED <<heap, mem, stack, roots, gap, parked, phase, major, ctlVars>>
  BY DEF DrainOne
<1>2. CtlInv' /\ HeapInv' /\ GapInv'
  BY <1>1, HeapInert DEF CtlInv, GapInv
<1>3. Children(o) \cap heap \subseteq marked'
  BY EnqueuedIs DEF DrainOne
<1>4. /\ marked' = marked \cup Enqueued(Children(o))
      /\ grey' = (grey \ {o}) \cup {x \in Enqueued(Children(o)) : major \/ x \notin old}
  BY DEF DrainOne
<1>5. /\ grey' \subseteq grey \cup Enqueued(Children(o)) /\ \A x \in grey \ grey' : x = o
      /\ {x \in Enqueued(Children(o)) : major \/ x \notin old} \subseteq grey'
  BY <1>4
<1>6. /\ grey' \subseteq marked' /\ marked' \subseteq heap
      /\ \A x \in marked' \ grey', f \in Fields : mem[<<x, f>>] \in heap => mem[<<x, f>>] \in marked'
  BY <1>1, <1>3, <1>4, <1>5, MarkColours
<1>7. ColourInv'
  BY <1>1, <1>6 DEF ColourInv, Early
<1>8. ShadeInv'
  BY <1>1, <1>4 DEF ShadeInv
<1>9. TermInv'
  BY <1>1 DEF TermInv
<1>10. QED
  BY <1>2, <1>7, <1>8, <1>9

LEMMA TermRequestInv ==
  ASSUME TypeOK, IInv, TermRequest
  PROVE  IInv'
<1> USE DEF mutVars, markVars, IInv, Collector, Step, TermRequest
<1>1. CtlInv'
  BY DEF CtlInv
<1>2. HeapInv' /\ GapInv'
  BY HeapInert DEF GapInv
<1>3. ColourInv' /\ ShadeInv'
  BY DEF ColourInv, ShadeInv, Early, Late
<1>4. TermInv'
  BY DEF TermInv
<1>5. QED
  BY <1>1, <1>2, <1>3, <1>4

LEMMA TermSeedInv ==
  ASSUME TypeOK, IInv, TermSeed
  PROVE  IInv'
<1> USE DEF mutVars, IInv, Collector, Step
<1>1. /\ cpc = "termScan" /\ cpc' = "judge" /\ self \in Threads
      /\ UNCHANGED <<heap, mem, stack, roots, gap, parked, phase, major, self, scanned>>
  BY DEF TermSeed, CtlInv
<1>2. /\ grey \subseteq grey' /\ grey' \subseteq marked' /\ marked \subseteq marked' /\ marked' \subseteq heap
      /\ \A o \in marked' \ grey', f \in Fields : mem[<<o, f>>] \in heap => mem[<<o, f>>] \in marked'
      /\ Seeds \cap heap \subseteq marked'
  BY <1>1, MarkAll DEF TermSeed
<1>3. CtlInv'
  BY <1>1 DEF CtlInv
<1>4. HeapInv' /\ GapInv'
  BY <1>1, HeapInert DEF GapInv
<1>5. ColourInv'
  BY <1>1, <1>2 DEF ColourInv, Early
<1>6. ShadeInv'
  BY <1>1, <1>2 DEF ShadeInv, Late
<1>7. TermInv'
  <2>1. SUFFICES ASSUME grey' = {}
                 PROVE  SeedsMarked' /\ \A t \in scanned \cup {self} : stack[t] \subseteq marked'
    BY <1>1 DEF TermInv
  <2>2. grey = {}
    BY <1>2, <2>1
  <2>3. /\ roots \subseteq marked' /\ stack[self] \subseteq marked'
        /\ \A s \in Slots : mem[s] \in marked' \cup {Null}
    BY <1>1, <1>2, SeedsHeap
  <2>4. Findable(marked')
    BY <1>2, <2>1, <2>3 DEF Findable
  <2>5. \A t \in scanned : stack[t] \subseteq marked'
    BY <1>1, <1>2, <2>2, <2>4 DEF TermInv
  <2>6. QED
    BY <1>1, <2>3, <2>5 DEF SeedsMarked
<1>8. QED
  BY <1>3, <1>4, <1>5, <1>6, <1>7

LEMMA TermRetryInv ==
  ASSUME TypeOK, IInv, TermRetry
  PROVE  IInv'
<1> USE DEF mutVars, markVars, IInv, Collector, Step, TermRetry
<1>1. CtlInv'
  BY DEF CtlInv
<1>2. HeapInv' /\ GapInv'
  BY HeapInert DEF GapInv
<1>3. ColourInv' /\ ShadeInv' /\ TermInv'
  BY DEF ColourInv, ShadeInv, TermInv, Early, Late
<1>4. QED
  BY <1>1, <1>2, <1>3

LEMMA AbortInv ==
  ASSUME TypeOK, IInv, Abort
  PROVE  IInv'
<1> USE DEF mutVars, IInv, Step, Abort
<1>1. CtlInv'
  BY DEF CtlInv
<1>2. HeapInv'
  BY HeapInert
<1>3. GapInv'
  BY MarkAssumption DEF MarkAssumption, GapInv
<1>4. ColourInv' /\ ShadeInv' /\ TermInv'
  BY DEF ColourInv, ShadeInv, TermInv, Late
<1>5. QED
  BY <1>1, <1>2, <1>3, <1>4

\* The sweep: terminated means that whatever is held is marked, and that what
\* is marked leads to no white block.
LEMMA SweepInv ==
  ASSUME TypeOK, IInv, NEW p, Sweep(p)
  PROVE  IInv'
<1> USE DEF IInv, Collector, Step
<1>1. /\ cpc = "judge" /\ grey = {} /\ Threads \ {self} \subseteq scanned
      /\ heap' = heap \ Doomed /\ cpc' = "idle" /\ self' = Nobody
      /\ UNCHANGED <<mem, stack, roots, gap, parked, major>>
  BY DEF Sweep, Terminated, Others
<1>2. marked \subseteq heap' /\ (major => heap' = marked)
  BY <1>1 DEF Doomed, ColourInv
<1>3. SeedsMarked /\ \A t \in Threads : stack[t] \subseteq marked
  BY <1>1 DEF TermInv
<1>4. CtlInv'
  BY <1>1 DEF Sweep, CtlInv
<1>5. HeapInv'
  <2>1. PICK K \in SUBSET heap : Alive(K) /\ (Minor \/ K = heap)
    BY DEF HeapInv
  <2>2. PICK M \in SUBSET heap : M = K \cap marked
    OBVIOUS
  <2>3. \A o \in M, f \in Fields : mem[<<o, f>>] \in M \cup {Null}
    BY <2>1, <2>2, <1>1 DEF Alive, ColourInv
  <2>4. /\ \A t \in Threads : stack[t] \subseteq M
        /\ roots \subseteq M /\ \A s \in Slots : mem[s] \in M \cup {Null}
    BY <2>1, <2>2, <1>3 DEF Alive, SeedsMarked
  <2>5. M \subseteq heap' /\ (Minor \/ M = heap')
    BY <2>1, <2>2, <1>1, <1>2 DEF CtlInv, ColourInv
  <2>6. Alive(M)'
    BY <1>1, <2>3, <2>4, <2>5 DEF Alive
  <2>7. QED
    BY <2>5, <2>6 DEF HeapInv
<1>6. GapInv'
  BY <1>1, MarkAssumption DEF MarkAssumption, GapInv
<1>7. ColourInv' /\ ShadeInv' /\ TermInv'
  BY <1>1 DEF ColourInv, ShadeInv, TermInv, Late
<1>8. QED
  BY <1>4, <1>5, <1>6, <1>7

LEMMA StutterInv ==
  ASSUME IInv, UNCHANGED vars
  PROVE  IInv'
BY DEF vars, mutVars, markVars, ctlVars, IInv, CtlInv, HeapInv, Alive, GapInv, ColourInv,
       ShadeInv, TermInv, SeedsMarked, Findable

LEMMA StepInv ==
  ASSUME ~RootSlip, TypeOK, IInv, NoStoreAtSetup, [Next]_vars
  PROVE  IInv'
<1>1. ASSUME NEW t \in Threads, MutatorStep(t) PROVE IInv'
  BY <1>1, AllocInv, LoadInv, DropInv, BarrierInv, StoreInv, RootsInv, TakeRootedInv, ParkInv
     DEF MutatorStep
<1>2. CASE CollectorStep
  BY <1>2, MarkSetupInv, SeedRootsInv, RecountInv, ScanThreadInv, RootDoneInv, DrainOneInv,
     TermRequestInv, TermSeedInv, TermRetryInv, AbortInv, SweepInv DEF CollectorStep
<1>3. CASE UNCHANGED vars
  BY <1>3, StutterInv
<1>4. QED
  BY [Next]_vars, <1>1, <1>2, <1>3 DEF Next

-----------------------------------------------------------------------------

\* What the theorems below rest on: it holds for major and for minor collections.
LEMMA MarkInvariant ==
  ASSUME ~RootSlip
  PROVE  Spec /\ []NoStoreAtSetup => []IInv
<1>1. Init => IInv
  BY InitInv
<1>2. TypeOK /\ IInv /\ NoStoreAtSetup /\ [Next]_vars => IInv'
  BY StepInv
<1>3. QED
  BY <1>1, <1>2, TypeCorrect, PTL DEF Spec

\* No use after free: in a heap of any size, with any number of threads, and with
\* nursery collections, nothing a mutator holds, or can take from a root or a
\* slot, was swept, however its stores fall between the steps of the handshakes
\* and of the drain, as long as none straddles the setup of a minor mark.
THEOREM NoUseAfterFree ==
  ASSUME ~RootSlip
  PROVE  Spec /\ []NoStoreAtSetup => []NoDangling
<1>1. IInv => NoDangling
  BY HeldHeap DEF IInv, NoDangling
<1>2. QED
  BY <1>1, MarkInvariant, PTL

\* The strong tricolour invariant: no scanned block ever points at a white one.
THEOREM Tricolour ==
  ASSUME ~RootSlip
  PROVE  Spec /\ []NoStoreAtSetup => []TriColour
<1>1. ASSUME IInv PROVE TriColour
  <2>1. PICK K \in SUBSET heap : Alive(K) /\ (Minor \/ K = heap)
    BY <1>1 DEF IInv, HeapInv
  <2>2. SUFFICES ASSUME phase = "MARK", NEW o \in marked \ grey, NEW f \in Fields
                 PROVE  mem[<<o, f>>] \in marked \cup {Null} \/ (Minor /\ mem[<<o, f>>] \notin heap)
    BY DEF TriColour
  <2>3. o \in heap /\ (mem[<<o, f>>] \in heap => mem[<<o, f>>] \in marked)
    BY <1>1, <2>2 DEF IInv, CtlInv, ColourInv
  <2>4. QED
    BY <2>1, <2>3 DEF Alive
<1>2. QED
  BY <1>1, MarkInvariant, PTL

\* Where only major collections are made, no minor mark is ever set up.
LEMMA MajorOnly ==
  ASSUME ~Minor
  PROVE  Spec => []NoStoreAtSetup
<1>1. Init => major
  BY DEF Init
<1>2. major /\ [Next]_vars => major'
  <2> SUFFICES ASSUME major, [Next]_vars PROVE major'
    OBVIOUS
  <2>1. ASSUME NEW t \in Threads, MutatorStep(t) PROVE major'
    BY <2>1 DEF MutatorStep, Alloc, Drop, AddRoot, RemoveRoot, TakeRooted, Load, BarrierIdle, BarrierMark,
                Store, Park, Unpark, markVars
  <2>2. CASE CollectorStep
    <3>1. ASSUME NEW t \in Threads, NEW m \in BOOLEAN, MarkSetup(t, m) PROVE major'
      BY <3>1 DEF MarkSetup
    <3>2. SeedRoots \/ RootRecount \/ TermRecount \/ RootDone => major'
      BY DEF SeedRoots, RootRecount, TermRecount, Recount, RootDone, markVars
    <3>3. ASSUME NEW t \in Threads, ScanThread(t) PROVE major'
      BY <3>3 DEF ScanThread
    <3>4. ASSUME NEW o \in Objects, DrainOne(o) PROVE major'
      BY <3>4 DEF DrainOne
    <3>5. TermRequest \/ TermSeed \/ TermRetry \/ Abort => major'
      BY DEF TermRequest, TermSeed, TermRetry, Abort, markVars
    <3>6. ASSUME NEW q \in SUBSET Objects, Sweep(q) PROVE major'
      BY <3>6 DEF Sweep
    <3>7. QED
      BY <2>2, <3>1, <3>2, <3>3, <3>4, <3>5, <3>6 DEF CollectorStep
  <2>3. QED
    BY <2>1, <2>2 DEF Next, vars, markVars
<1>3. major => NoStoreAtSetup
  BY DEF NoStoreAtSetup
<1>4. QED
  BY <1>1, <1>2, <1>3, PTL DEF Spec

\* Major collections alone need no rule.
THEOREM MajorSafe ==
  ASSUME ~Minor, ~RootSlip
  PROVE  Spec => [](NoDangling /\ TriColour)
BY MajorOnly, NoUseAfterFree, Tricolour, PTL

-----------------------------------------------------------------------------
(* Garbage.                                                                *)

\* Nothing null, and nothing that is not linked, is lost.
LEMMA LostBlocks ==
  ASSUME TypeOK, LostInv, cpc # "idle"
  PROVE  Null \notin lost /\ lost \subseteq heap
BY MarkAssumption DEF MarkAssumption, TypeOK, LostInv

\* A step that moves no reference and marks nothing lost keeps what is lost out of reach.
LEMMA LostInert ==
  ASSUME LostInv, UNCHANGED <<heap, mem, stack, roots, major, lost>>, cpc # "idle",
         major => marked' \cap lost = {}
  PROVE  LostInv'
BY DEF LostInv

\* So does a step that marks what it finds where nothing is lost.
LEMMA LostMark ==
  ASSUME TypeOK, IInv, LostInv, cpc # "idle", NEW S, Mark(S), major => S \cap lost = {},
         UNCHANGED <<heap, mem, stack, roots, major, lost>>
  PROVE  LostInv'
<1>1. major => marked' = marked \cup (S \cap heap)
  BY EnqueuedIs DEF Mark
<1>2. major => marked' \cap lost = {}
  BY <1>1 DEF LostInv
<1>3. QED
  BY <1>2, LostInert

\* What a thread can point its store at, or load, is not lost.
LEMMA TargetKept ==
  ASSUME TypeOK, IInv, LostInv, cpc # "idle", NEW t \in Threads, NEW c, Target(t, c)
  PROVE  mem[c] \notin lost
<1>1. CASE c \in Slots
  BY <1>1 DEF LostInv
<1>2. ASSUME NEW o \in stack[t], NEW f \in Fields, c = <<o, f>> PROVE mem[c] \notin lost
  <2>1. o \in heap \ lost
    BY HeldHeap DEF IInv, LostInv
  <2>2. QED
    BY <1>2, <2>1 DEF LostInv
<1>3. QED
  BY <1>1, <1>2 DEF Target

\* The steps of a thread.
LEMMA LostMutator ==
  ASSUME TypeOK, IInv, LostInv, cpc # "idle", NEW t \in Threads, MutatorStep(t)
  PROVE  LostInv'
<1> USE DEF markVars, ctlVars
<1>1. ASSUME NEW o \in Objects, Alloc(t, o) PROVE LostInv'
  <2>1. o \notin heap /\ heap' = heap \cup {o} /\ cpc' = cpc /\ roots' = roots /\ lost' = lost /\ major' = major
    BY <1>1 DEF Alloc
  <2>2. \A c \in Cells : mem'[c] \in {mem[c], Null}
    BY <1>1 DEF Alloc
  <2>3. \A f \in Fields : mem'[<<o, f>>] = Null
    BY <1>1 DEF Alloc, Cells
  <2>4. \A s \in Slots : mem'[s] \in {mem[s], Null}
    BY <2>2 DEF Cells
  <2>5. \A x \in heap, f \in Fields : mem'[<<x, f>>] \in {mem[<<x, f>>], Null}
    BY <2>2 DEF Cells, TypeOK
  <2>6. \A u \in Threads : stack'[u] \subseteq stack[u] \cup {o}
    BY <1>1 DEF Alloc, TypeOK
  <2>7. marked' \subseteq marked \cup {o}
    BY <1>1 DEF Alloc
  <2>8. o \notin lost /\ Null \notin lost
    BY <2>1, LostBlocks
  <2>9. QED
    BY <2>1, <2>3, <2>4, <2>5, <2>6, <2>7, <2>8 DEF LostInv
<1>2. ASSUME NEW o \in Objects, Drop(t, o) PROVE LostInv'
  <2>1. \A u \in Threads : stack'[u] \subseteq stack[u]
    BY <1>2 DEF Drop, TypeOK
  <2>2. QED
    BY <1>2, <2>1 DEF Drop, LostInv
<1>3. ASSUME NEW o \in Objects, AddRoot(t, o) \/ RemoveRoot(t, o) PROVE LostInv'
  <2>1. roots' \subseteq roots \cup stack[t] /\ UNCHANGED <<heap, mem, stack, markVars, ctlVars>>
    BY <1>3 DEF AddRoot, RemoveRoot
  <2>2. QED
    BY <2>1 DEF LostInv
<1>4. ASSUME NEW o \in Objects, o \notin lost, stack' = [stack EXCEPT ![t] = @ \cup {o}],
             UNCHANGED <<heap, mem, roots, markVars, ctlVars>>
      PROVE  LostInv'
  <2>1. \A u \in Threads : stack'[u] \subseteq stack[u] \cup {o}
    BY <1>4 DEF TypeOK
  <2>2. QED
    BY <1>4, <2>1 DEF LostInv
<1>5. ASSUME NEW o \in Objects, TakeRooted(t, o) PROVE LostInv'
  <2>1. o \notin lost
    BY <1>5 DEF TakeRooted, LostInv
  <2>2. QED
    BY <1>4, <1>5, <2>1 DEF TakeRooted
<1>6. ASSUME NEW c \in Cells, Load(t, c) PROVE LostInv'
  <2>1. mem[c] \notin lost
    BY <1>6, TargetKept DEF Load, Target
  <2>2. mem[c] \in Objects
    BY <1>6 DEF Load, TypeOK, Refs
  <2>3. QED
    BY <1>4, <1>6, <2>1, <2>2 DEF Load
<1>7. ASSUME NEW c \in Cells, NEW v \in Refs, BarrierIdle(t, c, v) PROVE LostInv'
  BY <1>7 DEF BarrierIdle, LostInv
<1>8. ASSUME NEW c \in Cells, NEW v \in Refs, BarrierMark(t, c, v) PROVE LostInv'
  <2>1. mem[c] \notin lost
    BY <1>8, TargetKept DEF BarrierMark
  <2>2. v \notin lost
    BY <1>8, LostBlocks DEF BarrierMark, LostInv
  <2>3. Mark({mem[c], v}) /\ UNCHANGED <<heap, mem, stack, roots, major, lost>>
    BY <1>8 DEF BarrierMark
  <2>4. QED
    BY <2>1, <2>2, <2>3, LostMark
<1>9. ASSUME Store(t) PROVE LostInv'
  <2>1. gap[t].val \notin lost
    BY <1>9, LostBlocks DEF Store, IInv, GapInv, LostInv
  <2>2. \A c \in Cells : mem'[c] \in {mem[c], gap[t].val}
    BY <1>9 DEF Store, TypeOK
  <2>3. \A s \in Slots : mem'[s] \in {mem[s], gap[t].val}
    BY <2>2 DEF Cells
  <2>4. \A x \in heap, f \in Fields : mem'[<<x, f>>] \in {mem[<<x, f>>], gap[t].val}
    BY <2>2 DEF Cells, TypeOK
  <2>5. UNCHANGED <<heap, stack, roots, markVars, ctlVars>>
    BY <1>9 DEF Store
  <2>6. QED
    BY <2>1, <2>3, <2>4, <2>5 DEF LostInv
<1>10. ASSUME Park(t) \/ Unpark(t) PROVE LostInv'
  BY <1>10 DEF Park, Unpark, LostInv
<1>11. QED
  BY <1>1, <1>2, <1>3, <1>5, <1>6, <1>7, <1>8, <1>9, <1>10 DEF MutatorStep

\* When a cycle begins: what is reachable then leads to nothing else.
LEMMA LostBegins ==
  ASSUME TypeOK, NEW t \in Threads, NEW m \in BOOLEAN, MarkSetup(t, m)
  PROVE  LostInv'
<1> DEFINE Closed(X) == /\ Held \cap heap \subseteq X
                        /\ \A x \in X : Children(x) \cap heap \subseteq X
<1>1. Reachable = {o \in heap : \A X \in SUBSET heap : Closed(X) => o \in X}
  BY DEF Reachable
<1>2. Held \cap heap \subseteq Reachable
  BY <1>1
<1>3. ASSUME NEW o \in Reachable, NEW x \in Children(o) \cap heap PROVE x \in Reachable
  <2> SUFFICES ASSUME NEW X \in SUBSET heap, Closed(X) PROVE x \in X
    BY <1>1
  <2>1. o \in X
    BY <1>1
  <2>2. QED
    BY <2>1, <1>3
<1> HIDE DEF Closed
<1>4. /\ lost' = heap \ Reachable /\ marked' = {}
      /\ UNCHANGED <<heap, mem, stack, roots>>
  BY DEF MarkSetup, mutVars
<1>5. /\ roots \cap lost' = {} /\ \A u \in Threads : stack[u] \cap lost' = {}
      /\ \A s \in Slots : mem[s] \notin lost'
  BY <1>2, <1>4 DEF Held
<1>6. ASSUME NEW o \in heap \ lost', NEW f \in Fields PROVE mem[<<o, f>>] \notin lost'
  <2>1. o \in Reachable /\ Null \notin heap
    BY <1>4, MarkAssumption DEF MarkAssumption, TypeOK
  <2>2. mem[<<o, f>>] \in heap => mem[<<o, f>>] \in Children(o)
    BY <2>1 DEF Children
  <2>3. QED
    BY <2>1, <2>2, <1>3, <1>4
<1>7. QED
  BY <1>4, <1>5, <1>6 DEF LostInv

\* The steps of the collector.
LEMMA LostCollector ==
  ASSUME TypeOK, IInv, LostInv, cpc # "idle", CollectorStep
  PROVE  LostInv'
<1> USE DEF mutVars, markVars, ctlVars, Collector, Step
<1>1. Null \notin lost /\ self \in Threads
  BY LostBlocks DEF IInv, CtlInv
<1>2. major => Seeds \cap lost = {}
  BY <1>1 DEF Seeds, LostInv
<1>3. ASSUME NEW t \in Threads, NEW m \in BOOLEAN, MarkSetup(t, m) PROVE LostInv'
  BY <1>3 DEF MarkSetup
<1>4. CASE SeedRoots
  <2>1. Mark(Seeds) /\ UNCHANGED <<heap, mem, stack, roots, major, lost>>
    BY <1>4 DEF SeedRoots
  <2>2. QED
    BY <1>2, <2>1, LostMark
<1>5. CASE RootRecount \/ TermRecount \/ RootDone \/ TermRequest \/ TermRetry
  <2>1. UNCHANGED <<heap, mem, stack, roots, major, marked, lost>>
    BY <1>5 DEF RootRecount, TermRecount, Recount, RootDone, TermRequest, TermRetry
  <2>2. QED
    BY <2>1, LostInert DEF LostInv
<1>6. ASSUME NEW t \in Threads, ScanThread(t) PROVE LostInv'
  <2>1. Mark(stack[t]) /\ UNCHANGED <<heap, mem, stack, roots, major, lost>>
    BY <1>6 DEF ScanThread
  <2>2. stack[t] \cap lost = {}
    BY DEF LostInv
  <2>3. QED
    BY <2>1, <2>2, LostMark
<1>7. ASSUME NEW o \in Objects, DrainOne(o) PROVE LostInv'
  <2>1. marked' = marked \cup Enqueued(Children(o)) /\ UNCHANGED <<heap, mem, stack, roots, major, lost>>
    BY <1>7 DEF DrainOne
  <2>2. o \in marked /\ o \in heap
    BY <1>7 DEF DrainOne, IInv, ColourInv
  <2>3. major => Children(o) \cap lost = {}
    <3>1. major => o \in heap \ lost
      BY <2>2 DEF LostInv
    <3>2. major => \A f \in Fields : mem[<<o, f>>] \notin lost
      BY <3>1 DEF LostInv
    <3>3. QED
      BY <3>2 DEF Children
  <2>4. major => marked' \cap lost = {}
    BY <2>1, <2>3, EnqueuedIs DEF LostInv
  <2>5. QED
    BY <2>1, <2>4, LostInert
<1>8. CASE TermSeed
  <2>1. Mark(Seeds) /\ UNCHANGED <<heap, mem, stack, roots, major, lost>>
    BY <1>8 DEF TermSeed
  <2>2. QED
    BY <1>2, <2>1, LostMark
<1>9. ASSUME cpc' = "idle" PROVE LostInv'
  BY <1>9 DEF LostInv
<1>10. Abort => cpc' = "idle"
  BY DEF Abort
<1>11. \A q : Sweep(q) => cpc' = "idle"
  BY DEF Sweep
<1>12. QED
  BY <1>3, <1>4, <1>5, <1>6, <1>7, <1>8, <1>9, <1>10, <1>11 DEF CollectorStep

\* No garbage outlives a major cycle that completes: what nobody could reach when
\* it began is unlinked by its sweep, whatever threads, barriers, allocations and
\* earlier cycles, minor ones too, did.
THEOREM GarbageFreed ==
  ASSUME ~RootSlip
  PROVE  Spec /\ []NoStoreAtSetup => MajorFreesGarbage
<1>1. Init => LostInv
  BY DEF Init, LostInv
<1>2. TypeOK /\ IInv /\ LostInv /\ [Next]_vars => LostInv'
  <2> SUFFICES ASSUME TypeOK, IInv, LostInv, [Next]_vars PROVE LostInv'
    OBVIOUS
  <2>1. CASE cpc = "idle" /\ cpc' = "idle"
    BY <2>1 DEF LostInv
  <2>2. CASE cpc = "idle" /\ cpc' # "idle"
    <3>1. \A t \in Threads : MutatorStep(t) => cpc' = cpc
      <4> SUFFICES ASSUME NEW t \in Threads, MutatorStep(t) PROVE cpc' = cpc
        OBVIOUS
      <4>1. QED
        BY DEF MutatorStep, Alloc, Drop, AddRoot, RemoveRoot, TakeRooted, Load, BarrierIdle, BarrierMark,
               Store, Park, Unpark, ctlVars
    <3>2. CollectorStep => \E t \in Threads, m \in BOOLEAN : MarkSetup(t, m)
      BY <2>2 DEF CollectorStep, SeedRoots, RootRecount, TermRecount, Recount, ScanThread, RootDone, DrainOne,
                  TermRequest, TermSeed, TermRetry, Abort, Sweep, Collector
    <3>3. QED
      BY <2>2, <3>1, <3>2, LostBegins DEF Next, vars, ctlVars
  <2>3. CASE cpc # "idle"
    <3>1. ASSUME NEW t \in Threads, MutatorStep(t) PROVE LostInv'
      BY <2>3, <3>1, LostMutator
    <3>2. CASE CollectorStep
      BY <2>3, <3>2, LostCollector
    <3>3. CASE UNCHANGED vars
      BY <3>3 DEF LostInv, vars, mutVars, markVars, ctlVars
    <3>4. QED
      BY <3>1, <3>2, <3>3 DEF Next
  <2>4. QED
    BY <2>1, <2>2, <2>3
<1>3. TypeOK /\ IInv /\ LostInv /\ [Next]_vars
        => [cpc = "judge" /\ cpc' = "idle" /\ Terminated /\ major => heap' \cap lost = {}]_vars
  <2> SUFFICES ASSUME IInv, LostInv, Next, cpc = "judge", cpc' = "idle", Terminated, major
               PROVE  heap' \cap lost = {}
    OBVIOUS
  <2>1. \A t \in Threads : ~MutatorStep(t)
    <3> SUFFICES ASSUME NEW t \in Threads, MutatorStep(t) PROVE cpc' = cpc
      OBVIOUS
    <3>1. QED
      BY DEF MutatorStep, Alloc, Drop, AddRoot, RemoveRoot, TakeRooted, Load, BarrierIdle, BarrierMark,
             Store, Park, Unpark, ctlVars
  <2>2. \E q : Sweep(q)
    BY <2>1 DEF Next, CollectorStep, MarkSetup, SeedRoots, RootRecount, TermRecount, Recount, ScanThread, RootDone,
                DrainOne, TermRequest, TermSeed, TermRetry, Abort, Collector
  <2>3. heap' \subseteq marked
    BY <2>2 DEF Sweep, Doomed
  <2>4. QED
    BY <2>3 DEF LostInv
<1>4. QED
  BY <1>1, <1>2, <1>3, TypeCorrect, MarkInvariant, PTL DEF Spec, MajorFreesGarbage
=============================================================================

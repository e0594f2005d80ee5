------------------------- MODULE RuntimeParts_proof -------------------------
(***************************************************************************)
(* Proofs about parts of the runtime, the module tool and the compiler.    *)
(*                                                                         *)
(* GcEpoch: colours of a bounded byte implement the set of marks.  The     *)
(* inductive invariant bounds the age of every colour in the heap by the   *)
(* epochs taken since the last completed major cycle; while that is less   *)
(* than the number of epochs no old colour comes back.  EnoughEpochs is    *)
(* the one assumption the code does not enforce.                           *)
(*                                                                         *)
(* ModTidy: the lock a tidy writes meets every version constraint, for any *)
(* set of modules, versions and manifests without a chain of replacements. *)
(*                                                                         *)
(* HttpServer: a connection is in one place and is closed once, and the    *)
(* threads of the server do what their mode says, for any number of        *)
(* clients and workers.                                                    *)
(*                                                                         *)
(* SpanHeap: the page index finds the blocks there are, each in a slot     *)
(* that is taken, and the bytes counted as free are those of the free      *)
(* slots, for any number of threads and spans and any sizes.               *)
(*                                                                         *)
(* SpillPool, of the compiler: operands are kept in slots of their own and *)
(* no null store meets them, however loops nest and however many there are *)
(***************************************************************************)
EXTENDS GcEpoch, Integers, FiniteSetTheorems, SequenceTheorems, WellFoundedInduction, TLAPS


(* A minor cycle is under way only if one more may complete.               *)
MinorRoom == phase = "MARK" /\ ~major => minors < MaxMinors

IInv == TypeOK /\ MinorRoom /\ AgeBound

(* Taking a new epoch makes every colour but 0 one epoch older, and leaves *)
(* no colour that was young enough current (gc_bump_mark_epoch).           *)
LEMMA BumpAges ==
    ASSUME TypeOK, gc_bump_mark_epoch,
           NEW c \in 1 .. Last, Age(c) + 1 < Last
    PROVE  /\ c # gc_mark_epoch'
           /\ Age(c)' = Age(c) + 1
  BY BoundsAssumption DEF TypeOK, gc_bump_mark_epoch, Age

(* A colour of this epoch has age 0.                                       *)
LEMMA CurrentAge == TypeOK => Age(gc_mark_epoch) = 0
  BY DEF TypeOK, Age

(* Initially the heap is empty.                                            *)
LEMMA InitIInv == Init => IInv
  BY BoundsAssumption DEF Init, IInv, TypeOK, MinorRoom, AgeBound

(* Type correctness is preserved by every action.                          *)
LEMMA NextTypeOK == ASSUME TypeOK, MinorRoom, [Next]_vars PROVE TypeOK' /\ MinorRoom'
<1>. USE BoundsAssumption DEF TypeOK, MinorRoom
<1>1. ASSUME NEW m \in BOOLEAN, MarkSetup(m) PROVE TypeOK' /\ MinorRoom'
  BY <1>1 DEF MarkSetup, gc_bump_mark_epoch
<1>2. ASSUME NEW b \in Blocks, Alloc(b) PROVE TypeOK' /\ MinorRoom'
  BY <1>2 DEF Alloc
<1>3. ASSUME NEW b \in Blocks, gc_enqueue(b) PROVE TypeOK' /\ MinorRoom'
  BY <1>3 DEF gc_enqueue
<1>4. CASE gc_abort_mark_cycle
  BY <1>4 DEF gc_abort_mark_cycle, gc_bump_mark_epoch
<1>5. CASE Sweep
  <2>1. minors' \in 0 .. MaxMinors
    BY <1>5 DEF Sweep
  <2>. QED BY <1>5, <2>1 DEF Sweep, Survivors
<1>6. CASE UNCHANGED vars
  BY <1>6 DEF vars
<1>. QED BY <1>1, <1>2, <1>3, <1>4, <1>5, <1>6 DEF Next

(* The age a colour in the heap may have.                                  *)
Budget == 2 * aborts + minors + (IF phase = "MARK" THEN 1 ELSE 0)

(* A new epoch makes no block of the heap marked and costs one of the      *)
(* budget.                                                                 *)
LEMMA BumpWhitens ==
    ASSUME TypeOK, AgeBound, gc_bump_mark_epoch, UNCHANGED colour,
           Budget + 1 < Last, NEW b \in heap
    PROVE  /\ colour[b] # gc_mark_epoch'
           /\ colour[b] = 0 \/ Age(colour[b])' <= Budget + 1
<1>. DEFINE c == colour[b]
<1>1. c \in 0 .. Last
  BY DEF TypeOK
<1>2. CASE c = 0
  BY <1>2, BoundsAssumption DEF gc_bump_mark_epoch, TypeOK
<1>3. CASE c # 0
  <2>1. Age(c) <= Budget /\ Age(c) \in Nat /\ Budget \in Nat
    BY <1>1, <1>3, BoundsAssumption DEF AgeBound, Budget, Age, TypeOK
  <2>2. c # gc_mark_epoch'
    BY <1>1, <1>3, <2>1, BoundsAssumption DEF Age, TypeOK, gc_bump_mark_epoch
  <2>3. Age(colour[b])' = Age(c) + 1
    BY <1>1, <1>3, <2>1, BoundsAssumption DEF Age, TypeOK, gc_bump_mark_epoch
  <2>. QED BY <2>1, <2>2, <2>3
<1>. QED BY <1>2, <1>3

(* No action lets a colour grow older than the cycles account for, and a   *)
(* cycle that begins, or is given up, finds no block marked.               *)
LEMMA NextAgeBound ==
    ASSUME EnoughEpochs, IInv, [Next]_vars PROVE AgeBound'
<1>. USE BoundsAssumption DEF IInv
<1>0. TypeOK'
  BY NextTypeOK
<1>1. ASSUME NEW m \in BOOLEAN, MarkSetup(m) PROVE AgeBound'
  <2>1. Budget + 1 < Last /\ Budget' = Budget + 1
    BY <1>1 DEF MarkSetup, Budget, EnoughEpochs, TypeOK
  <2>2. \A b \in heap : colour[b] = 0 \/ Age(colour[b])' <= Budget + 1
    BY <1>1, <2>1, BumpWhitens DEF MarkSetup
  <2>. QED BY <1>1, <2>1, <2>2 DEF MarkSetup, AgeBound, Budget
<1>2. ASSUME NEW b \in Blocks, Alloc(b) PROVE AgeBound'
  <2>1. Budget' = Budget /\ gc_mark_epoch' = gc_mark_epoch /\ Budget \in Nat
    BY <1>2 DEF Alloc, Budget, TypeOK
  <2>2. ASSUME NEW x \in heap' PROVE colour'[x] = 0 \/ Age(colour[x])' <= Budget'
    <3>1. CASE x = b
      BY <1>2, <2>1, <3>1, CurrentAge DEF Alloc, Age, TypeOK
    <3>2. CASE x # b
      BY <1>2, <2>1, <3>2 DEF Alloc, AgeBound, Budget, Age, TypeOK
    <3>. QED BY <3>1, <3>2
  <2>. QED BY <2>2 DEF AgeBound, Budget
<1>3. ASSUME NEW b \in Blocks, gc_enqueue(b) PROVE AgeBound'
  <2>1. Budget' = Budget /\ gc_mark_epoch' = gc_mark_epoch /\ Budget \in Nat
    BY <1>3 DEF gc_enqueue, Budget, TypeOK
  <2>2. ASSUME NEW x \in heap' PROVE colour'[x] = 0 \/ Age(colour[x])' <= Budget'
    <3>1. CASE x = b
      BY <1>3, <2>1, <3>1, CurrentAge DEF gc_enqueue, Age, TypeOK
    <3>2. CASE x # b
      BY <1>3, <2>1, <3>2 DEF gc_enqueue, AgeBound, Budget, Age, TypeOK
    <3>. QED BY <3>1, <3>2
  <2>. QED BY <2>2 DEF AgeBound, Budget
<1>4. CASE gc_abort_mark_cycle
  <2>1. Budget + 1 < Last /\ Budget' = Budget + 1
    BY <1>4 DEF gc_abort_mark_cycle, Budget, EnoughEpochs, TypeOK
  <2>2. \A b \in heap : colour[b] = 0 \/ Age(colour[b])' <= Budget + 1
    BY <1>4, <2>1, BumpWhitens DEF gc_abort_mark_cycle
  <2>. QED BY <1>4, <2>1, <2>2 DEF gc_abort_mark_cycle, AgeBound, Budget
<1>5. CASE Sweep
  <2>1. ASSUME NEW x \in heap' PROVE colour'[x] = 0 \/ Age(colour[x])' <= Budget'
    <3>1. x \in heap /\ (gc_block_is_marked(x) \/ ~major)
      BY <1>5, <2>1 DEF Sweep, Survivors
    <3>2. CASE major
      BY <1>5, <3>1, <3>2, CurrentAge DEF Sweep, gc_block_is_marked, Age, Budget, TypeOK
    <3>3. CASE ~major
      BY <1>5, <3>1, <3>3 DEF Sweep, AgeBound, Age, Budget, TypeOK
    <3>. QED BY <3>2, <3>3
  <2>. QED BY <2>1 DEF AgeBound, Budget
<1>6. CASE UNCHANGED vars
  BY <1>6 DEF vars, AgeBound, Age
<1>. QED BY <1>1, <1>2, <1>3, <1>4, <1>5, <1>6 DEF Next

LEMMA Invariance == ASSUME EnoughEpochs PROVE Spec => []IInv
<1>1. IInv /\ [Next]_vars => IInv'
  BY NextTypeOK, NextAgeBound DEF IInv
<1>. QED BY <1>1, InitIInv, PTL DEF Spec

(* No colour of an earlier cycle, completed or given up, is current when a *)
(* cycle begins, whatever the number of epochs: mark setup needs to clear  *)
(* no mark.                                                                *)
THEOREM FreshEpoch == ASSUME EnoughEpochs PROVE Spec => WhiteAtSetup
<1>1. IInv /\ [Next]_vars => (phase = "IDLE" /\ phase' = "MARK" => \A b \in heap : colour[b] # gc_mark_epoch')
  <2>. SUFFICES ASSUME IInv, [Next]_vars, phase = "IDLE", phase' = "MARK", NEW b \in heap
                PROVE  colour[b] # gc_mark_epoch'
    OBVIOUS
  <2>1. PICK m \in BOOLEAN : MarkSetup(m)
    BY DEF Next, Alloc, gc_enqueue, gc_abort_mark_cycle, Sweep, vars
  <2>2. Budget + 1 < Last
    BY BoundsAssumption DEF Budget, EnoughEpochs, IInv, TypeOK
  <2>. QED BY <2>1, <2>2, BumpWhitens DEF IInv, MarkSetup
<1>. QED BY <1>1, Invariance, PTL DEF Spec, WhiteAtSetup

(* Colours compared with the epoch implement a set of marks that is        *)
(* emptied when a cycle begins and when one is given up (gc_bump_mark_epoch*)
(* in the mark setup and in gc_abort_mark_cycle).                          *)
THEOREM Refinement == ASSUME EnoughEpochs PROVE Spec => ImplementsMarkSet
<1>. DEFINE marked == {b \in heap : gc_block_is_marked(b)}
<1>1. Init => Marks!Init
  BY DEF Init, Marks!Init, gc_block_is_marked
<1>2. IInv /\ IInv' /\ [Next]_vars => [Marks!Next]_Marks!vars
  <2>. SUFFICES ASSUME IInv, IInv', [Next]_vars PROVE [Marks!Next]_Marks!vars
    OBVIOUS
  <2>. USE BoundsAssumption DEF IInv, gc_block_is_marked
  <2>1. ASSUME NEW m \in BOOLEAN, MarkSetup(m) PROVE Marks!Begin
    <3>1. Budget + 1 < Last
      BY <2>1 DEF MarkSetup, Budget, EnoughEpochs, TypeOK
    <3>. QED BY <2>1, <3>1, BumpWhitens DEF MarkSetup, Marks!Begin
  <2>2. ASSUME NEW b \in Blocks, Alloc(b) PROVE Marks!Allocate(b)
    BY <2>2 DEF Alloc, Marks!Allocate, TypeOK
  <2>3. ASSUME NEW b \in Blocks, gc_enqueue(b) PROVE Marks!Mark(b)
    BY <2>3 DEF gc_enqueue, Marks!Mark, TypeOK
  <2>4. ASSUME gc_abort_mark_cycle PROVE Marks!GiveUp
    <3>1. Budget + 1 < Last
      BY <2>4 DEF gc_abort_mark_cycle, Budget, EnoughEpochs, TypeOK
    <3>2. \A b \in heap : colour'[b] # gc_mark_epoch'
      BY <2>4, <3>1, BumpWhitens DEF gc_abort_mark_cycle
    <3>3. phase = "MARK" /\ phase' = "IDLE" /\ major' = TRUE /\ UNCHANGED <<heap, old>>
      BY <2>4 DEF gc_abort_mark_cycle
    <3>4. marked' = {}
      BY <3>2, <3>3
    <3>. QED BY <3>3, <3>4 DEF Marks!GiveUp
  <2>5. ASSUME Sweep PROVE Marks!Sweep
    <3>1. Survivors = Marks!Keep
      BY DEF Survivors, Marks!Keep
    <3>2. heap' = Marks!Keep /\ old' \subseteq Marks!Keep /\ old \cap Marks!Keep \subseteq old'
      BY <2>5, <3>1 DEF Sweep
    <3>3. marked' = marked \cap Marks!Keep
      BY <2>5, <3>1 DEF Sweep, Survivors
    <3>4. phase = "MARK" /\ phase' = "IDLE" /\ major' = TRUE
      BY <2>5 DEF Sweep
    <3>. QED BY <3>2, <3>3, <3>4 DEF Marks!Sweep
  <2>6. CASE UNCHANGED vars
    BY <2>6 DEF vars, Marks!vars
  <2>. QED BY <2>1, <2>2, <2>3, <2>4, <2>5, <2>6 DEF Next, Marks!Next
<1>. QED BY <1>1, <1>2, Invariance, PTL DEF Spec, ImplementsMarkSet, Marks!Spec

-----------------------------------------------------------------------------
(* The module tool.                                                        *)

CONSTANTS Modules, Versions, Projects, Deps, LocalDeps, Sources, Published, Publishable
VARIABLES proj, pub, repo, lock, cmd, tidyPc, q, cons, resolved, copying
Tidy == INSTANCE ModTidy WITH pc <- tidyPc

Triples == Nat \X Nat \X Nat
Constraints == [kind : {"exact", "least", "tilde", "caret"}, base : Triples]
Dependencies == [to : Modules, con : Constraints]

(* What manifests, packages and sources are: a finite number of versions,  *)
(* dependencies of modules, a version kept for every one published.        *)
WellFormed ==
  /\ Versions \subseteq Triples /\ IsFiniteSet(Versions)
  /\ Deps \in [Modules -> [Versions -> Seq(Dependencies)]]
  /\ LocalDeps \in [Modules -> Seq(Dependencies)]
  /\ Len(Sources) \in Nat
  /\ Published \in [1 .. Len(Sources) -> [Modules -> SUBSET Versions]]
  /\ Publishable \subseteq (1 .. Len(Sources)) \X Modules \X Versions
  /\ \A p \in Projects :
       /\ p.deps \in Seq(Dependencies)
       /\ \A m \in DOMAIN p.replace : p.replace[m].to = "path" \/ p.replace[m] \in Dependencies

(* No manifest replaces a module by a module it replaces by a directory.   *)
NoChain ==
  \A p \in Projects : \A m \in DOMAIN p.replace :
    LET n == p.replace[m].to IN n # "path" => ~(n \in DOMAIN p.replace /\ p.replace[n].to = "path")

---------------------------------------------------------------------------
(* Versions.                                                               *)

LEMMA LeastNatural ==
  ASSUME NEW T, T \subseteq Nat, T # {}
  PROVE  \E x \in T : \A y \in T : x <= y
<1> DEFINE R == OpToRel(<, Nat)
<1>1. \A x, y \in Nat : <<y, x>> \in R <=> y < x
  BY DEF OpToRel
<1>2. IsWellFoundedOn(R, Nat)
  BY NatLessThanWellFounded
<1> HIDE DEF R
<1>3. PICK x \in T : \A y \in T : ~ (<<y, x>> \in R)
  BY <1>2, WFMin
<1>4. ASSUME NEW y \in T PROVE x <= y
  <2>1. x \in Nat /\ y \in Nat /\ <<y, x>> \notin R
    BY <1>3
  <2>2. ~(y < x)
    BY <1>1, <2>1
  <2>3. QED
    BY <2>1, <2>2
<1>5. QED
  BY <1>4

LEMMA LessIsStrict ==
  /\ \A a \in Triples : ~Tidy!Less(a, a)
  /\ \A a, b \in Triples : ~Tidy!Less(a, b) \/ ~Tidy!Less(b, a)
  /\ \A a, b, c \in Triples : ~Tidy!Less(a, b) /\ ~Tidy!Less(b, c) => ~Tidy!Less(a, c)
  BY DEF Tidy!Less, Triples

(* A finite set of versions has a highest one.                             *)
LEMMA HighestExists ==
  \A S \in SUBSET Triples : IsFiniteSet(S) /\ S # {} => \E v \in S : \A w \in S : ~Tidy!Less(v, w)
<1> DEFINE HasTop(S) == \E v \in S : \A w \in S : ~Tidy!Less(v, w)
           Bad == {n \in Nat : \E S \in SUBSET Triples :
                     IsFiniteSet(S) /\ S # {} /\ Cardinality(S) = n /\ ~HasTop(S)}
<1>1. SUFFICES ASSUME Bad # {} PROVE FALSE
  <2>1. ASSUME NEW S \in SUBSET Triples, IsFiniteSet(S), S # {} PROVE HasTop(S)
    <3>1. Cardinality(S) \in Nat /\ Cardinality(S) \notin Bad
      BY <1>1, <2>1, FS_CardinalityType
    <3>2. QED
      BY <2>1, <3>1
  <2>2. QED
    BY <2>1
<1>2. PICK n \in Bad : \A k \in Bad : n <= k
  <2>1. Bad \subseteq Nat
    OBVIOUS
  <2> HIDE DEF Bad
  <2>2. QED
    BY <1>1, <2>1, LeastNatural
<1>3. PICK S \in SUBSET Triples : IsFiniteSet(S) /\ S # {} /\ Cardinality(S) = n /\ ~HasTop(S)
  BY <1>2
<1>4. PICK x \in S : TRUE
  BY <1>3
<1>5. IsFiniteSet(S \ {x}) /\ Cardinality(S \ {x}) = n - 1 /\ n \in Nat
  BY <1>2, <1>3, <1>4, FS_RemoveElement
<1>6. S \ {x} # {}
  BY <1>3, <1>4, LessIsStrict
<1>7. HasTop(S \ {x})
  <2>1. n - 1 \in Nat
    BY <1>5, FS_CardinalityType
  <2>2. n - 1 \notin Bad
    BY <1>2, <1>5
  <2>3. QED
    BY <1>5, <1>6, <2>1, <2>2
<1>8. PICK y \in S \ {x} : \A w \in S \ {x} : ~Tidy!Less(y, w)
  BY <1>7
<1>9. x \in Triples /\ y \in Triples /\ \A w \in S : w \in Triples
  OBVIOUS
<1>10. CASE Tidy!Less(y, x)
  <2>1. \A w \in S : ~Tidy!Less(x, w)
    BY <1>8, <1>9, <1>10, LessIsStrict
  <2>2. QED
    BY <1>3, <2>1
<1>11. CASE ~Tidy!Less(y, x)
  <2>1. \A w \in S : ~Tidy!Less(y, w)
    BY <1>8, <1>11
  <2>2. QED
    BY <1>3, <2>1
<1>12. QED
  BY <1>10, <1>11

LEMMA HighestIn ==
  ASSUME NEW S, S \subseteq Triples, IsFiniteSet(S), S # {}
  PROVE  Tidy!Highest(S) \in S
<1>1. \E v \in S : \A w \in S : ~Tidy!Less(v, w)
  BY HighestExists
<1>2. QED
  BY <1>1 DEF Tidy!Highest

---------------------------------------------------------------------------
(* What is selected meets the constraints.                                 *)

(* The versions the sources and the repository can have.                   *)
Shelves ==
  /\ pub \in [1 .. Len(Sources) -> [Modules -> SUBSET Versions]]
  /\ proj \in Projects

(* All that the sources offer is in T and meets the constraints.           *)
OffersIn(T, m, cs, online) ==
  \A i \in 1 .. Len(Sources) :
    /\ Tidy!Offer(i, m, cs, online) \subseteq T
    /\ \A v \in Tidy!Offer(i, m, cs, online), c \in cs : Tidy!Satisfies(v, c)

LEMMA OffersAreVersions ==
  ASSUME WellFormed, Shelves, NEW m \in Modules, NEW cs \in SUBSET Constraints,
         NEW online \in BOOLEAN
  PROVE  \E T \in SUBSET Triples : IsFiniteSet(T) /\ OffersIn(T, m, cs, online)
<1> DEFINE T == Versions \cup {c.base : c \in cs}
<1>1. CASE cs # {} /\ \A c, d \in cs : c.base = d.base
  <2>1. PICK c \in cs : TRUE
    BY <1>1
  <2> DEFINE U == Versions \cup {c.base}
  <2>2. U \subseteq Triples /\ IsFiniteSet(U)
    <3>1. Versions \subseteq Triples /\ IsFiniteSet(Versions)
      BY DEF WellFormed
    <3>2. c.base \in Triples
      BY <2>1 DEF Constraints
    <3>3. IsFiniteSet(Versions \cup {c.base})
      BY <3>1, FS_AddElement
    <3>4. QED
      BY <3>1, <3>2, <3>3
  <2>3. ASSUME NEW i \in 1 .. Len(Sources)
        PROVE  Tidy!Offer(i, m, cs, online) \subseteq U /\ \A v \in Tidy!Offer(i, m, cs, online), d \in cs : Tidy!Satisfies(v, d)
    <3>1. pub[i][m] \subseteq Versions
      BY DEF Shelves
    <3>2. {d.base : d \in cs} \subseteq {c.base}
      BY <1>1, <2>1
    <3>3. QED
      BY <3>1, <3>2 DEF Tidy!Offer, Tidy!Meeting, Tidy!Listed
  <2> HIDE DEF U
  <2>4. QED
    BY <2>2, <2>3 DEF OffersIn
<1>2. CASE ~(cs # {} /\ \A c, d \in cs : c.base = d.base)
  <2>1. ASSUME NEW i \in 1 .. Len(Sources)
        PROVE  Tidy!Offer(i, m, cs, online) \subseteq Versions /\ \A v \in Tidy!Offer(i, m, cs, online), d \in cs : Tidy!Satisfies(v, d)
    <3>1. pub[i][m] \subseteq Versions
      BY DEF Shelves
    <3>2. Tidy!Listed(i, m, cs, online) \subseteq Versions
      BY <1>2, <3>1 DEF Tidy!Listed
    <3>3. QED
      BY <3>1, <3>2 DEF Tidy!Offer, Tidy!Meeting
  <2>2. QED
    BY <2>1 DEF WellFormed, OffersIn
<1>3. QED
  BY <1>1, <1>2

LEMMA BestMeets ==
  ASSUME WellFormed, Shelves, NEW m \in Modules, NEW cs \in SUBSET Constraints,
         NEW online \in BOOLEAN, NEW kind \in BOOLEAN,
         Tidy!Best(kind, m, cs, online) # Tidy!Nothing
  PROVE  /\ Tidy!Best(kind, m, cs, online).src \in 1 .. Len(Sources)
         /\ \A c \in cs : Tidy!Satisfies(Tidy!Best(kind, m, cs, online).v, c)
<1>1. PICK T \in SUBSET Triples : IsFiniteSet(T) /\ OffersIn(T, m, cs, online)
  BY OffersAreVersions
<1> DEFINE from == {i \in 1 .. Len(Sources) : Sources[i].http = kind /\ Tidy!Offer(i, m, cs, online) # {}}
           all == UNION {Tidy!Offer(i, m, cs, online) : i \in from}
           top == Tidy!Highest(all)
           have == {i \in from : top \in Tidy!Offer(i, m, cs, online)}
           src == CHOOSE i \in from : top \in Tidy!Offer(i, m, cs, online)
                                      /\ \A j \in from : top \in Tidy!Offer(j, m, cs, online) => i <= j
<1>2. from # {} /\ Tidy!Best(kind, m, cs, online) = [v |-> top, src |-> src]
  BY DEF Tidy!Best
<1>3. all \subseteq T /\ all # {}
  BY <1>1, <1>2 DEF OffersIn
<1>4. top \in all
  <2>1. IsFiniteSet(all) /\ all \subseteq Triples
    BY <1>1, <1>3, FS_Subset
  <2> HIDE DEF all
  <2>2. QED
    BY <1>3, <2>1, HighestIn
<1>5. have # {} /\ have \subseteq Nat
  <2>1. from \subseteq Nat
    BY DEF WellFormed
  <2>2. PICK i \in from : top \in Tidy!Offer(i, m, cs, online)
    BY <1>4
  <2> HIDE DEF top, from
  <2>3. QED
    BY <2>1, <2>2
<1>6. \E i \in have : \A j \in have : i <= j
  <2> HIDE DEF have
  <2>1. QED
    BY <1>5, LeastNatural
<1>7. src \in from
  <2> HIDE DEF top
  <2>1. QED
    BY <1>6
<1>8. \A c \in cs : Tidy!Satisfies(top, c)
  <2>1. PICK i \in from : top \in Tidy!Offer(i, m, cs, online)
    BY <1>4
  <2> HIDE DEF top
  <2>2. QED
    BY <1>1, <2>1 DEF OffersIn
<1>9. Tidy!Best(kind, m, cs, online).src = src /\ Tidy!Best(kind, m, cs, online).v = top
  <2> HIDE DEF src, top
  <2>1. QED
    BY <1>2
<1>10. QED
  BY <1>7, <1>8, <1>9

(* resolveFromFileRegistriesAll: a version that meets every constraint, or *)
(* nothing.                                                                *)
LEMMA SelectedMeets ==
  ASSUME WellFormed, Shelves, NEW m \in Modules, NEW cs \in SUBSET Constraints,
         NEW online \in BOOLEAN, Tidy!Selected(m, cs, online) # Tidy!Nothing
  PROVE  /\ \A c \in cs : Tidy!Satisfies(Tidy!Selected(m, cs, online).v, c)
         /\ Tidy!Selected(m, cs, online).src = 0 => Tidy!Selected(m, cs, online).v \in Versions
         /\ Tidy!Selected(m, cs, online).src # 0 => Tidy!Selected(m, cs, online).src \in 1 .. Len(Sources)
<1>1. CASE Tidy!Meeting(Tidy!Local(m), cs) # {}
  <2>1. Tidy!Meeting(Tidy!Local(m), cs) \subseteq Versions
    BY DEF Tidy!Meeting, Tidy!Local
  <2>2. Tidy!Highest(Tidy!Meeting(Tidy!Local(m), cs)) \in Tidy!Meeting(Tidy!Local(m), cs)
    <3>1. IsFiniteSet(Tidy!Meeting(Tidy!Local(m), cs)) /\ Tidy!Meeting(Tidy!Local(m), cs) \subseteq Triples
      BY <2>1, FS_Subset DEF WellFormed
    <3>2. QED
      BY <1>1, <3>1, HighestIn
  <2>3. Tidy!Selected(m, cs, online).v = Tidy!Highest(Tidy!Meeting(Tidy!Local(m), cs)) /\ Tidy!Selected(m, cs, online).src = 0
    BY <1>1 DEF Tidy!Selected
  <2>4. QED
    BY <2>1, <2>2, <2>3 DEF Tidy!Meeting
<1>2. CASE Tidy!Meeting(Tidy!Local(m), cs) = {}
  <2>1. PICK kind \in BOOLEAN : Tidy!Selected(m, cs, online) = Tidy!Best(kind, m, cs, online)
    BY <1>2 DEF Tidy!Selected
  <2>2. /\ Tidy!Best(kind, m, cs, online).src \in 1 .. Len(Sources)
        /\ \A c \in cs : Tidy!Satisfies(Tidy!Best(kind, m, cs, online).v, c)
    BY <2>1, BestMeets
  <2>3. 0 \notin 1 .. Len(Sources)
    BY DEF WellFormed
  <2>4. QED
    BY <2>1, <2>2, <2>3
<1>3. QED
  BY <1>1, <1>2

---------------------------------------------------------------------------
(* The inductive invariant of a walk.                                      *)

Walking == tidyPc \in {"walk", "copy", "copied"}
Fetching == tidyPc \in {"copy", "copied"}

Whole(r) == {m \in DOMAIN r : r[m].hash # Tidy!Partial}
(* What the project and the packages of S ask for.                         *)
Asked(r, S) == Tidy!Elements(proj.deps) \cup UNION {Tidy!PackageEdges(r, m) : m \in S}

TidyTyped ==
  /\ q \in Seq(Dependencies)
  /\ \A m \in DOMAIN cons : cons[m] \subseteq Constraints
  /\ DOMAIN resolved \subseteq Modules

Kinds == \A m \in DOMAIN resolved : resolved[m].local <=> Tidy!ByPath(m)

Fits(m, v) == \A c \in Tidy!Known(m) : Tidy!Satisfies(v, c)
Fitting == \A m \in DOMAIN resolved : ~resolved[m].local => Fits(m, resolved[m].ver)

(* The edge has been followed.                                             *)
Met(d) ==
  LET e == Tidy!Redirected(d)
  IN /\ e.to \in DOMAIN resolved \/ (Fetching /\ copying.m = e.to)
     /\ e.con \in Tidy!Known(e.to)
Covering ==
  \A d \in Asked(resolved, Whole(resolved)) :
    d.to \notin proj.exclude => d \in Tidy!Elements(q) \/ Met(d)

Wants(m) == \E d \in Asked(resolved, DOMAIN resolved) : d.to \notin proj.exclude /\ Tidy!Redirected(d).to = m
Wanted ==
  /\ Tidy!Elements(q) \subseteq Asked(resolved, DOMAIN resolved)
  /\ \A m \in DOMAIN resolved : Wants(m)

Copying ==
  /\ copying.m \in Modules /\ copying.m \notin DOMAIN resolved /\ ~Tidy!ByPath(copying.m)
  /\ tidyPc = "copied" \/ copying.src = 0 => copying.v \in Versions
  /\ copying.src # 0 => copying.src \in 1 .. Len(Sources)
  /\ Fits(copying.m, copying.v)
  /\ Wants(copying.m)

TidyInv ==
  /\ Shelves
  /\ Walking => TidyTyped /\ Kinds /\ Fitting /\ Covering /\ Wanted
  /\ Fetching => Copying

---------------------------------------------------------------------------
(* Sequences and functions that grow.                                      *)

LEMMA ElementsTail ==
  ASSUME NEW D, NEW s \in Seq(D), s # <<>>
  PROVE  /\ Head(s) \in D /\ Head(s) \in Tidy!Elements(s) /\ Tail(s) \in Seq(D)
         /\ Tidy!Elements(s) = {Head(s)} \cup Tidy!Elements(Tail(s))
<1>1. Head(s) = s[1] /\ Head(s) \in D /\ Len(s) \in Nat \ {0} /\ Tail(s) \in Seq(D)
  OBVIOUS
<1>2. Len(Tail(s)) = Len(s) - 1 /\ \A i \in 1 .. Len(s) - 1 : Tail(s)[i] = s[i + 1]
  OBVIOUS
<1>3. ASSUME NEW i \in 1 .. Len(s) PROVE s[i] \in {Head(s)} \cup Tidy!Elements(Tail(s))
  <2>1. CASE i = 1
    BY <1>1, <2>1
  <2>2. CASE i # 1
    <3>1. i - 1 \in 1 .. Len(s) - 1 /\ (i - 1) + 1 = i
      BY <1>1, <2>2
    <3>2. Tail(s)[i - 1] = s[i]
      BY <1>2, <3>1
    <3>3. QED
      BY <1>2, <3>1, <3>2 DEF Tidy!Elements
  <2>3. QED
    BY <2>1, <2>2
<1>4. ASSUME NEW i \in 1 .. Len(s) - 1 PROVE Tail(s)[i] \in Tidy!Elements(s)
  <2>1. i + 1 \in 1 .. Len(s) /\ Tail(s)[i] = s[i + 1]
    BY <1>1, <1>2
  <2>2. QED
    BY <2>1 DEF Tidy!Elements
<1>5. Head(s) \in Tidy!Elements(s)
  BY <1>1 DEF Tidy!Elements
<1>6. Tidy!Elements(Tail(s)) \subseteq Tidy!Elements(s)
  BY <1>2, <1>4 DEF Tidy!Elements
<1>7. Tidy!Elements(s) \subseteq {Head(s)} \cup Tidy!Elements(Tail(s))
  BY <1>3 DEF Tidy!Elements
<1>8. QED
  BY <1>1, <1>5, <1>6, <1>7

LEMMA ElementsJoin ==
  ASSUME NEW D, NEW s \in Seq(D), NEW t \in Seq(D)
  PROVE  s \o t \in Seq(D) /\ Tidy!Elements(s \o t) = Tidy!Elements(s) \cup Tidy!Elements(t)
<1>1. s \o t \in Seq(D) /\ Len(s \o t) = Len(s) + Len(t) /\ Len(s) \in Nat /\ Len(t) \in Nat
  OBVIOUS
<1>2. /\ \A i \in 1 .. Len(s) : (s \o t)[i] = s[i]
      /\ \A i \in Len(s) + 1 .. Len(s) + Len(t) : (s \o t)[i] = t[i - Len(s)]
  OBVIOUS
<1>3. ASSUME NEW i \in 1 .. Len(s) + Len(t) PROVE (s \o t)[i] \in Tidy!Elements(s) \cup Tidy!Elements(t)
  <2>1. CASE i <= Len(s)
    BY <1>1, <1>2, <2>1 DEF Tidy!Elements
  <2>2. CASE i > Len(s)
    <3>1. i - Len(s) \in 1 .. Len(t) /\ (s \o t)[i] = t[i - Len(s)]
      BY <1>1, <1>2, <2>2
    <3>2. QED
      BY <3>1 DEF Tidy!Elements
  <2>3. QED
    BY <1>1, <2>1, <2>2
<1>4. ASSUME NEW i \in 1 .. Len(s) PROVE s[i] \in Tidy!Elements(s \o t)
  <2>1. i \in 1 .. Len(s \o t) /\ (s \o t)[i] = s[i]
    BY <1>1, <1>2
  <2>2. QED
    BY <2>1 DEF Tidy!Elements
<1>5. ASSUME NEW i \in 1 .. Len(t) PROVE t[i] \in Tidy!Elements(s \o t)
  <2>1. i + Len(s) \in Len(s) + 1 .. Len(s) + Len(t) /\ (i + Len(s)) - Len(s) = i
    BY <1>1
  <2>2. (s \o t)[i + Len(s)] = t[i]
    BY <1>2, <2>1
  <2>3. i + Len(s) \in 1 .. Len(s \o t)
    BY <1>1, <2>1
  <2>4. QED
    BY <2>2, <2>3 DEF Tidy!Elements
<1>6. Tidy!Elements(s \o t) \subseteq Tidy!Elements(s) \cup Tidy!Elements(t)
  BY <1>1, <1>3 DEF Tidy!Elements
<1>7. Tidy!Elements(s) \cup Tidy!Elements(t) \subseteq Tidy!Elements(s \o t)
  BY <1>4, <1>5 DEF Tidy!Elements
<1>8. QED
  BY <1>1, <1>6, <1>7

LEMMA WithIs ==
  ASSUME NEW r, NEW m, NEW x
  PROVE  /\ DOMAIN Tidy!With(r, m, x) = DOMAIN r \cup {m} /\ Tidy!With(r, m, x)[m] = x
         /\ \A k \in DOMAIN r : k # m => Tidy!With(r, m, x)[k] = r[k]
  BY DEF Tidy!With

(* One more entry: what it asks for is asked too.                          *)
LEMMA AskedGrows ==
  ASSUME NEW r, NEW m, NEW x, m \notin DOMAIN r
  PROVE  /\ Asked(Tidy!With(r, m, x), Whole(Tidy!With(r, m, x)))
              \subseteq Asked(r, Whole(r)) \cup (IF x.hash = Tidy!Partial THEN {} ELSE Tidy!PackageEdges(Tidy!With(r, m, x), m))
         /\ Asked(Tidy!With(r, m, x), DOMAIN Tidy!With(r, m, x))
              = Asked(r, DOMAIN r) \cup Tidy!PackageEdges(Tidy!With(r, m, x), m)
<1>1. /\ DOMAIN Tidy!With(r, m, x) = DOMAIN r \cup {m} /\ Tidy!With(r, m, x)[m] = x
      /\ \A k \in DOMAIN r : Tidy!With(r, m, x)[k] = r[k]
  BY DEF Tidy!With
<1>2. \A k \in DOMAIN r : Tidy!PackageEdges(Tidy!With(r, m, x), k) = Tidy!PackageEdges(r, k)
  BY <1>1 DEF Tidy!PackageEdges
<1>3. /\ Whole(Tidy!With(r, m, x)) \subseteq Whole(r) \cup (IF x.hash = Tidy!Partial THEN {} ELSE {m})
      /\ Whole(r) \subseteq DOMAIN r
  BY <1>1 DEF Whole
<1>4. QED
  BY <1>1, <1>2, <1>3 DEF Asked

---------------------------------------------------------------------------
(* The invariant in the next state, its parts spelled out.                 *)

KnownIn(c, m) == IF m \in DOMAIN c THEN c[m] ELSE {}
MetIn(d, r, c, fetched) ==
  LET e == Tidy!Redirected(d)
  IN /\ e.to \in DOMAIN r \cup fetched
     /\ e.con \in KnownIn(c, e.to)
Fetched == IF Fetching THEN {copying.m} ELSE {}

LEMMA CoveringNext ==
  ASSUME UNCHANGED proj,
         NEW f, f = Fetched',
         \A d \in Asked(resolved', Whole(resolved')) : d.to \notin proj.exclude =>
           d \in Tidy!Elements(q') \/ MetIn(d, resolved', cons', f)
  PROVE  Covering'
<1>1. SUFFICES ASSUME NEW d \in Asked(resolved, Whole(resolved))', d.to \notin proj'.exclude
               PROVE  d \in Tidy!Elements(q') \/ Met(d)'
  BY DEF Covering, Tidy!Elements
<1>2. d \in Asked(resolved', Whole(resolved')) /\ d.to \notin proj.exclude
  BY <1>1 DEF Asked, Tidy!Elements, Tidy!PackageEdges, Whole, Tidy!Partial
<1>3. d \in Tidy!Elements(q') \/ MetIn(d, resolved', cons', f)
  BY <1>2
<1>4. CASE MetIn(d, resolved', cons', f)
  BY <1>4 DEF MetIn, Met, KnownIn, Tidy!Known, Tidy!Redirected, Fetched
<1>5. QED
  BY <1>3, <1>4

LEMMA CoveringNow ==
  ASSUME Covering, NEW d \in Asked(resolved, Whole(resolved)), d.to \notin proj.exclude
  PROVE  d \in Tidy!Elements(q) \/ MetIn(d, resolved, cons, Fetched)
  BY DEF Covering, Met, MetIn, KnownIn, Tidy!Known, Fetched

WantsIn(r, m) == \E d \in Asked(r, DOMAIN r) : d.to \notin proj.exclude /\ Tidy!Redirected(d).to = m

LEMMA WantedNext ==
  ASSUME UNCHANGED proj
  PROVE  /\ \A m : Wants(m)' <=> WantsIn(resolved', m)
         /\ \A m : Wants(m) <=> WantsIn(resolved, m)
         /\ Asked(resolved, DOMAIN resolved)' = Asked(resolved', DOMAIN resolved')
         /\ Tidy!Elements(q)' = Tidy!Elements(q')
         /\ \A m : Tidy!ByPath(m)' <=> Tidy!ByPath(m)
  BY DEF Wants, WantsIn, Asked, Tidy!Elements, Tidy!PackageEdges, Tidy!Redirected, Tidy!ByPath

(* A redirected dependency is one, and leads to no directory.              *)
LEMMA RedirectedIs ==
  ASSUME WellFormed, NoChain, Shelves, NEW d \in Dependencies, ~Tidy!ByPath(d.to)
  PROVE  Tidy!Redirected(d) \in Dependencies /\ ~Tidy!ByPath(Tidy!Redirected(d).to)
<1>1. CASE d.to \in DOMAIN proj.replace /\ proj.replace[d.to].to # "path"
  <2>1. Tidy!Redirected(d) = proj.replace[d.to]
    BY <1>1 DEF Tidy!Redirected
  <2>2. proj \in Projects
    BY DEF Shelves
  <2>3. proj.replace[d.to] \in Dependencies
    BY <1>1, <2>2 DEF WellFormed
  <2>4. ~Tidy!ByPath(proj.replace[d.to].to)
    BY <1>1, <2>2 DEF NoChain, Tidy!ByPath
  <2>5. QED
    BY <2>1, <2>3, <2>4
<1>2. CASE ~(d.to \in DOMAIN proj.replace /\ proj.replace[d.to].to # "path")
  BY <1>2 DEF Tidy!Redirected
<1>3. QED
  BY <1>1, <1>2

LEMMA KnownTyped ==
  ASSUME TidyTyped
  PROVE  \A m : Tidy!Known(m) \subseteq Constraints
  BY DEF TidyTyped, Tidy!Known

---------------------------------------------------------------------------
(* The steps of a walk.                                                    *)

LEMMA SkipKeeps ==
  ASSUME WellFormed, TidyInv, Tidy!SkipExcluded
  PROVE  TidyInv'
<1>1. /\ tidyPc = "walk" /\ q # <<>> /\ Head(q).to \in proj.exclude /\ q' = Tail(q)
      /\ UNCHANGED <<proj, pub, tidyPc, cons, resolved, copying>>
  BY DEF Tidy!SkipExcluded
<1>2. Shelves /\ TidyTyped /\ Kinds /\ Fitting /\ Covering /\ Wanted /\ ~Fetching
  BY <1>1 DEF TidyInv, Walking, Fetching
<1>3. Head(q) \in Tidy!Elements(q) /\ q' \in Seq(Dependencies) /\ Tidy!Elements(q) = {Head(q)} \cup Tidy!Elements(q')
  BY <1>1, <1>2, ElementsTail DEF TidyTyped
<1>4. Covering'
  <2>1. ASSUME NEW d \in Asked(resolved', Whole(resolved')), d.to \notin proj.exclude
        PROVE  d \in Tidy!Elements(q') \/ MetIn(d, resolved', cons', Fetched)
    <3>1. d \in Tidy!Elements(q) \/ MetIn(d, resolved, cons, Fetched)
      BY <1>1, <1>2, <2>1, CoveringNow
    <3>2. QED
      BY <1>1, <1>3, <2>1, <3>1
  <2>2. Fetched' = Fetched
    BY <1>1 DEF Fetched, Fetching
  <2>3. QED
    BY <1>1, <2>1, <2>2, CoveringNext
<1>5. Wanted'
  <2>1. Tidy!Elements(q') \subseteq Asked(resolved, DOMAIN resolved)
    BY <1>2, <1>3 DEF Wanted
  <2>2. \A m \in DOMAIN resolved : WantsIn(resolved, m)
    BY <1>1, <1>2, WantedNext DEF Wanted
  <2>3. QED
    BY <1>1, <2>1, <2>2, WantedNext DEF Wanted
<1>6. TidyTyped' /\ Kinds' /\ Fitting' /\ Shelves' /\ ~Fetching'
  BY <1>1, <1>2, <1>3 DEF TidyTyped, Kinds, Fitting, Fits, Tidy!Known, Shelves, Fetching, Tidy!ByPath
<1>7. QED
  BY <1>4, <1>5, <1>6 DEF TidyInv

LEMMA PathKeeps ==
  ASSUME WellFormed, TidyInv, Tidy!TakePath
  PROVE  TidyInv'
<1> DEFINE e == Head(q)
           x == [ver |-> e.con.base, hash |-> Tidy!Absent, local |-> TRUE]
<1>1. /\ tidyPc = "walk" /\ q # <<>> /\ e.to \notin proj.exclude /\ Tidy!ByPath(e.to)
      /\ UNCHANGED <<proj, pub, tidyPc, copying>>
      /\ cons' = Tidy!With(cons, e.to, Tidy!Known(e.to) \cup {e.con})
      /\ IF e.to \in DOMAIN resolved THEN q' = Tail(q) /\ UNCHANGED resolved
         ELSE resolved' = Tidy!With(resolved, e.to, x) /\ q' = Tail(q) \o LocalDeps[e.to]
  BY DEF Tidy!TakePath
<1>2. Shelves /\ TidyTyped /\ Kinds /\ Fitting /\ Covering /\ Wanted /\ ~Fetching
  BY <1>1 DEF TidyInv, Walking, Fetching
<1>3. /\ e \in Dependencies /\ e \in Tidy!Elements(q) /\ Tail(q) \in Seq(Dependencies)
      /\ Tidy!Elements(q) = {e} \cup Tidy!Elements(Tail(q))
  BY <1>1, <1>2, ElementsTail DEF TidyTyped
<1>4. e.to \in Modules /\ e.con \in Constraints
  BY <1>3 DEF Dependencies
<1>5. Tidy!Redirected(e) = e
  BY <1>1 DEF Tidy!Redirected, Tidy!ByPath
<1> HIDE DEF e, x
<1>6. /\ DOMAIN cons' = DOMAIN cons \cup {e.to} /\ cons'[e.to] = Tidy!Known(e.to) \cup {e.con}
      /\ \A k \in DOMAIN cons : k # e.to => cons'[k] = cons[k]
  BY <1>1 DEF Tidy!With
<1>7. \A k : Tidy!Known(k) \subseteq KnownIn(cons', k) /\ (k # e.to => KnownIn(cons', k) = Tidy!Known(k))
  BY <1>6 DEF Tidy!Known, KnownIn
<1>8. \A m \in DOMAIN cons' : cons'[m] \subseteq Constraints
  BY <1>2, <1>4, <1>6, KnownTyped DEF TidyTyped
<1>9. Fetched' = Fetched /\ Fetched = {} /\ ~Fetching'
  BY <1>1, <1>2 DEF Fetched, Fetching
<1>10. e.con \in KnownIn(cons', e.to)
  BY <1>6 DEF KnownIn
<1>11. CASE e.to \in DOMAIN resolved
  <2>1. resolved' = resolved /\ q' = Tail(q)
    BY <1>1, <1>11
  <2>2. Covering'
    <3>1. ASSUME NEW d \in Asked(resolved', Whole(resolved')), d.to \notin proj.exclude
          PROVE  d \in Tidy!Elements(q') \/ MetIn(d, resolved', cons', {})
      <4>1. d \in Tidy!Elements(q) \/ MetIn(d, resolved, cons, {})
        BY <1>2, <1>9, <2>1, <3>1, CoveringNow
      <4>2. CASE MetIn(d, resolved, cons, {})
        BY <1>7, <2>1, <4>2 DEF MetIn, KnownIn, Tidy!Known
      <4>3. CASE d = e
        BY <1>5, <1>10, <1>11, <2>1, <4>3 DEF MetIn
      <4>4. QED
        BY <1>3, <2>1, <4>1, <4>2, <4>3
    <3>2. QED
      BY <1>1, <1>9, <3>1, CoveringNext
  <2>3. Wanted'
    <3>1. Tidy!Elements(q') \subseteq Asked(resolved, DOMAIN resolved)
      BY <1>2, <1>3, <2>1 DEF Wanted
    <3>2. \A m \in DOMAIN resolved : WantsIn(resolved, m)
      BY <1>1, <1>2, WantedNext DEF Wanted
    <3>3. QED
      BY <1>1, <2>1, <3>1, <3>2, WantedNext DEF Wanted
  <2>4. Kinds'
    BY <1>1, <1>2, <2>1, WantedNext DEF Kinds
  <2>5. Fitting'
    <3>1. resolved[e.to].local
      BY <1>1, <1>2, <1>11 DEF Kinds
    <3>2. ASSUME NEW m \in DOMAIN resolved, ~resolved[m].local
          PROVE  \A c \in KnownIn(cons', m) : Tidy!Satisfies(resolved[m].ver, c)
      BY <1>2, <1>7, <3>1, <3>2 DEF Fitting, Fits
    <3>3. QED
      BY <2>1, <3>2 DEF Fitting, Fits, Tidy!Known, KnownIn
  <2>6. TidyTyped' /\ Shelves'
    BY <1>1, <1>2, <1>3, <1>8, <2>1 DEF TidyTyped, Shelves
  <2>7. QED
    BY <1>9, <2>2, <2>3, <2>4, <2>5, <2>6 DEF TidyInv
<1>12. CASE e.to \notin DOMAIN resolved
  <2>1. resolved' = Tidy!With(resolved, e.to, x) /\ q' = Tail(q) \o LocalDeps[e.to]
    BY <1>1, <1>12
  <2>2. /\ DOMAIN resolved' = DOMAIN resolved \cup {e.to} /\ resolved'[e.to] = x
        /\ \A k \in DOMAIN resolved : resolved'[k] = resolved[k]
    BY <1>12, <2>1 DEF Tidy!With
  <2>3. x.local = TRUE
    BY DEF x
  <2>4. Tidy!PackageEdges(resolved', e.to) = Tidy!Elements(LocalDeps[e.to])
    BY <2>2, <2>3 DEF Tidy!PackageEdges
  <2>5. q' \in Seq(Dependencies) /\ Tidy!Elements(q') = Tidy!Elements(Tail(q)) \cup Tidy!Elements(LocalDeps[e.to])
    <3>1. LocalDeps[e.to] \in Seq(Dependencies)
      BY <1>4 DEF WellFormed
    <3>2. \A s, t \in Seq(Dependencies) :
             s \o t \in Seq(Dependencies) /\ Tidy!Elements(s \o t) = Tidy!Elements(s) \cup Tidy!Elements(t)
      BY ElementsJoin
    <3>3. QED
      BY <1>3, <2>1, <3>1, <3>2
  <2>6. Asked(resolved', Whole(resolved')) \subseteq Asked(resolved, Whole(resolved)) \cup Tidy!Elements(LocalDeps[e.to])
    BY <1>12, <2>1, <2>4, AskedGrows
  <2>7. Asked(resolved', DOMAIN resolved') = Asked(resolved, DOMAIN resolved) \cup Tidy!Elements(LocalDeps[e.to])
    BY <1>12, <2>1, <2>4, AskedGrows
  <2>8. Covering'
    <3>1. ASSUME NEW d \in Asked(resolved', Whole(resolved')), d.to \notin proj.exclude
          PROVE  d \in Tidy!Elements(q') \/ MetIn(d, resolved', cons', {})
      <4>1. CASE d \in Asked(resolved, Whole(resolved))
        <5>1. d \in Tidy!Elements(q) \/ MetIn(d, resolved, cons, {})
          BY <1>2, <1>9, <3>1, <4>1, CoveringNow
        <5>2. CASE MetIn(d, resolved, cons, {})
          BY <1>7, <2>2, <5>2 DEF MetIn, KnownIn, Tidy!Known
        <5>3. CASE d = e
          BY <1>5, <1>10, <2>2, <5>3 DEF MetIn
        <5>4. QED
          BY <1>3, <2>5, <5>1, <5>2, <5>3
      <4>2. QED
        BY <2>5, <2>6, <4>1
    <3>2. QED
      BY <1>1, <1>9, <3>1, CoveringNext
  <2>9. Wanted'
    <3>1. Tidy!Elements(q) \subseteq Asked(resolved, DOMAIN resolved)
      BY <1>2 DEF Wanted
    <3>2. Tidy!Elements(q') \subseteq Asked(resolved', DOMAIN resolved')
      BY <1>3, <2>5, <2>7, <3>1
    <3>3. \A m \in DOMAIN resolved : WantsIn(resolved, m)
      BY <1>1, <1>2, WantedNext DEF Wanted
    <3>4. \A m \in DOMAIN resolved : WantsIn(resolved', m)
      BY <2>7, <3>3 DEF WantsIn
    <3>5. WantsIn(resolved', e.to)
      <4>1. e \in Asked(resolved', DOMAIN resolved')
        BY <1>3, <2>7, <3>1
      <4>2. e.to \notin proj.exclude
        BY <1>1 DEF e
      <4>3. QED
        BY <1>5, <4>1, <4>2 DEF WantsIn
    <3>6. QED
      BY <1>1, <2>2, <3>2, <3>4, <3>5, WantedNext DEF Wanted
  <2>10. Kinds'
    <3>1. Tidy!ByPath(e.to)
      BY <1>1
    <3>2. \A m \in DOMAIN resolved' : resolved'[m].local <=> Tidy!ByPath(m)
      BY <1>2, <2>2, <2>3, <3>1 DEF Kinds
    <3>3. QED
      BY <1>1, <3>2, WantedNext DEF Kinds
  <2>11. Fitting'
    <3>1. ASSUME NEW m \in DOMAIN resolved', ~resolved'[m].local
          PROVE  \A c \in KnownIn(cons', m) : Tidy!Satisfies(resolved'[m].ver, c)
      BY <1>2, <1>7, <1>12, <2>2, <2>3, <3>1 DEF Fitting, Fits
    <3>2. QED
      BY <3>1 DEF Fitting, Fits, Tidy!Known, KnownIn
  <2>12. TidyTyped' /\ Shelves'
    BY <1>1, <1>2, <1>4, <1>8, <2>2, <2>5 DEF TidyTyped, Shelves
  <2>13. QED
    BY <1>9, <2>8, <2>9, <2>10, <2>11, <2>12 DEF TidyInv
<1>13. QED
  BY <1>11, <1>12

(* Any other edge: it is found again as it was, or is to be copied.        *)
LEMMA TakeKeeps ==
  ASSUME WellFormed, NoChain, TidyInv, NEW online \in BOOLEAN, Tidy!Take(online)
  PROVE  TidyInv'
<1> DEFINE h == Head(q)
           e == Tidy!Redirected(h)
           cs == Tidy!Known(e.to) \cup {e.con}
           s == Tidy!Selected(e.to, cs, online)
<1>1. /\ tidyPc = "walk" /\ q # <<>> /\ h.to \notin proj.exclude /\ ~Tidy!ByPath(h.to)
      /\ UNCHANGED <<proj, pub, repo>>
      /\ IF s = Tidy!Nothing \/ Tidy!Conflict(e.to, s.v) THEN tidyPc' = "idle"
         ELSE /\ cons' = Tidy!With(cons, e.to, cs) /\ q' = Tail(q) /\ UNCHANGED resolved
              /\ IF e.to \in DOMAIN resolved THEN UNCHANGED <<tidyPc, copying>>
                 ELSE copying' = [m |-> e.to, v |-> s.v, src |-> s.src] /\ tidyPc' = "copy"
  BY DEF Tidy!Take, Tidy!Done
<1>2. Shelves /\ TidyTyped /\ Kinds /\ Fitting /\ Covering /\ Wanted /\ ~Fetching
  BY <1>1 DEF TidyInv, Walking, Fetching
<1>3. /\ h \in Dependencies /\ h \in Tidy!Elements(q) /\ Tail(q) \in Seq(Dependencies)
      /\ Tidy!Elements(q) = {h} \cup Tidy!Elements(Tail(q))
  BY <1>1, <1>2, ElementsTail DEF TidyTyped
<1>4. e \in Dependencies /\ ~Tidy!ByPath(e.to)
  BY <1>1, <1>2, <1>3, RedirectedIs
<1>5. Shelves'
  BY <1>1, <1>2 DEF Shelves
<1> HIDE DEF h
<1>6. CASE s = Tidy!Nothing \/ Tidy!Conflict(e.to, s.v)
  <2>1. tidyPc' = "idle"
    BY <1>1, <1>6
  <2>2. QED
    BY <1>5, <2>1 DEF TidyInv, Walking, Fetching
<1>7. CASE ~(s = Tidy!Nothing \/ Tidy!Conflict(e.to, s.v))
  <2>1. e.to \in Modules /\ e.con \in Constraints /\ cs \in SUBSET Constraints
    BY <1>2, <1>4, KnownTyped DEF Dependencies
  <2>2. /\ \A c \in cs : Tidy!Satisfies(s.v, c)
        /\ s.src = 0 => s.v \in Versions
        /\ s.src # 0 => s.src \in 1 .. Len(Sources)
    <3>1. s # Tidy!Nothing
      BY <1>7
    <3>2. QED
      BY <1>2, <2>1, <3>1, SelectedMeets
  <2>3. WantsIn(resolved, e.to)
    <3>1. h \in Asked(resolved, DOMAIN resolved)
      BY <1>2, <1>3 DEF Wanted
    <3>2. QED
      BY <1>1, <3>1 DEF WantsIn
  <2>4. ~Tidy!Conflict(e.to, s.v)
    BY <1>7
  <2>5. /\ cons' = Tidy!With(cons, e.to, cs) /\ q' = Tail(q) /\ UNCHANGED resolved
        /\ IF e.to \in DOMAIN resolved THEN UNCHANGED <<tidyPc, copying>>
           ELSE copying' = [m |-> e.to, v |-> s.v, src |-> s.src] /\ tidyPc' = "copy"
    BY <1>1, <1>7
  <2>6. cs = Tidy!Known(e.to) \cup {e.con}
    OBVIOUS
  <2>7. e = Tidy!Redirected(h)
    OBVIOUS
  <2> HIDE DEF e, cs, s
  <2>8. /\ DOMAIN cons' = DOMAIN cons \cup {e.to} /\ cons'[e.to] = cs
        /\ \A k \in DOMAIN cons : k # e.to => cons'[k] = cons[k]
    BY <2>5 DEF Tidy!With
  <2>9. \A k : Tidy!Known(k) \subseteq KnownIn(cons', k) /\ (k # e.to => KnownIn(cons', k) = Tidy!Known(k))
    BY <2>6, <2>8 DEF Tidy!Known, KnownIn
  <2>10. KnownIn(cons', e.to) = cs /\ e.con \in cs
    BY <2>6, <2>8 DEF KnownIn
  <2>11. TidyTyped'
    <3>1. \A m \in DOMAIN cons' : cons'[m] \subseteq Constraints
      BY <1>2, <2>1, <2>8, KnownTyped DEF TidyTyped
    <3>2. QED
      BY <1>2, <1>3, <2>5, <3>1 DEF TidyTyped
  <2>12. Kinds'
    BY <1>1, <1>2, <2>5, WantedNext DEF Kinds
  <2>13. Fitting'
    <3>1. ASSUME NEW m \in DOMAIN resolved, ~resolved[m].local
          PROVE  \A c \in KnownIn(cons', m) : Tidy!Satisfies(resolved[m].ver, c)
      <4>1. CASE m = e.to
        <5>1. resolved[m].ver = s.v
          BY <2>4, <3>1, <4>1 DEF Tidy!Conflict
        <5>2. QED
          BY <2>2, <2>10, <4>1, <5>1
      <4>2. CASE m # e.to
        BY <1>2, <2>9, <3>1, <4>2 DEF Fitting, Fits
      <4>3. QED
        BY <4>1, <4>2
    <3>2. QED
      BY <2>5, <3>1 DEF Fitting, Fits, Tidy!Known, KnownIn
  <2>14. e.to \in DOMAIN resolved' \cup Fetched'
    <3>1. CASE e.to \in DOMAIN resolved
      BY <2>5, <3>1
    <3>2. CASE e.to \notin DOMAIN resolved
      <4>1. copying'.m = e.to /\ tidyPc' = "copy"
        BY <2>5, <3>2
      <4>2. QED
        BY <4>1 DEF Fetched, Fetching
    <3>3. QED
      BY <3>1, <3>2
  <2>15. Covering'
    <3> DEFINE f == Fetched'
    <3>1. ASSUME NEW d \in Asked(resolved', Whole(resolved')), d.to \notin proj.exclude
          PROVE  d \in Tidy!Elements(q') \/ MetIn(d, resolved', cons', f)
      <4>1. d \in Tidy!Elements(q) \/ MetIn(d, resolved, cons, {})
        <5>1. Fetched = {}
          BY <1>2 DEF Fetched
        <5>2. QED
          BY <1>2, <2>5, <3>1, <5>1, CoveringNow
      <4>2. CASE MetIn(d, resolved, cons, {})
        <5>1. Tidy!Redirected(d).to \in DOMAIN resolved /\ Tidy!Redirected(d).con \in KnownIn(cons, Tidy!Redirected(d).to)
          BY <4>2 DEF MetIn
        <5>2. Tidy!Redirected(d).con \in KnownIn(cons', Tidy!Redirected(d).to)
          BY <2>9, <5>1 DEF KnownIn, Tidy!Known
        <5>3. QED
          BY <2>5, <5>1, <5>2 DEF MetIn
      <4>3. CASE d = h
        BY <2>7, <2>10, <2>14, <4>3 DEF MetIn
      <4>4. QED
        BY <1>3, <2>5, <4>1, <4>2, <4>3
    <3>2. QED
      BY <1>1, <3>1, CoveringNext
  <2>16. Wanted'
    <3>1. Tidy!Elements(q') \subseteq Asked(resolved, DOMAIN resolved)
      BY <1>2, <1>3, <2>5 DEF Wanted
    <3>2. \A m \in DOMAIN resolved : WantsIn(resolved, m)
      BY <1>1, <1>2, WantedNext DEF Wanted
    <3>3. QED
      BY <1>1, <2>5, <3>1, <3>2, WantedNext DEF Wanted
  <2>17. Fetching' => Copying'
    <3>1. ASSUME Fetching' PROVE Copying'
      <4>1. e.to \notin DOMAIN resolved
        BY <1>1, <2>5, <3>1 DEF Fetching
      <4>2. copying' = [m |-> e.to, v |-> s.v, src |-> s.src] /\ tidyPc' = "copy"
        BY <2>5, <4>1
      <4>3. copying'.m = e.to /\ copying'.v = s.v /\ copying'.src = s.src
        BY <4>2
      <4>4. Fits(copying.m, copying.v)'
        BY <2>2, <2>10, <4>3 DEF Fits, Tidy!Known, KnownIn
      <4>5. Wants(copying.m)'
        <5>1. WantsIn(resolved', copying'.m)
          BY <2>3, <2>5, <4>3
        <5>2. QED
          BY <1>1, <5>1, WantedNext DEF WantsIn, Wants, Asked, Tidy!Elements, Tidy!PackageEdges, Tidy!Redirected
      <4>6. ~Tidy!ByPath(copying.m)'
        BY <1>1, <1>4, <4>3 DEF Tidy!ByPath
      <4>7. QED
        BY <2>1, <2>2, <2>5, <4>1, <4>2, <4>3, <4>4, <4>5, <4>6 DEF Copying
    <3>2. QED
      BY <3>1
  <2>18. QED
    BY <1>5, <2>11, <2>12, <2>13, <2>15, <2>16, <2>17 DEF TidyInv
<1>8. QED
  BY <1>6, <1>7

LEMMA BeginCopyKeeps ==
  ASSUME WellFormed, TidyInv, Tidy!BeginCopy
  PROVE  TidyInv'
<1>1. /\ tidyPc = "copy" /\ copying.src # 0 /\ copying.v \in pub[copying.src][copying.m] /\ tidyPc' = "copied"
      /\ UNCHANGED <<proj, pub, q, cons, resolved, copying>>
  BY DEF Tidy!BeginCopy
<1>2. Shelves /\ TidyTyped /\ Kinds /\ Fitting /\ Covering /\ Wanted /\ Fetching /\ Copying
  BY <1>1 DEF TidyInv, Walking, Fetching
<1>3. copying.v \in Versions
  <2>1. copying.src \in 1 .. Len(Sources) /\ copying.m \in Modules
    BY <1>1, <1>2 DEF Copying
  <2>2. pub[copying.src][copying.m] \subseteq Versions
    BY <1>2, <2>1 DEF Shelves
  <2>3. QED
    BY <1>1, <2>2
<1>4. Fetched' = Fetched
  BY <1>1, <1>2 DEF Fetched, Fetching
<1>5. Covering'
  <2>1. ASSUME NEW d \in Asked(resolved', Whole(resolved')), d.to \notin proj.exclude
        PROVE  d \in Tidy!Elements(q') \/ MetIn(d, resolved', cons', Fetched)
    BY <1>1, <1>2, <2>1, CoveringNow
  <2>2. QED
    BY <1>1, <1>4, <2>1, CoveringNext
<1>6. Wanted'
  <2>1. \A m \in DOMAIN resolved : WantsIn(resolved, m)
    BY <1>1, <1>2, WantedNext DEF Wanted
  <2>2. QED
    BY <1>1, <1>2, <2>1, WantedNext DEF Wanted
<1>7. Kinds'
  BY <1>1, <1>2, WantedNext DEF Kinds
<1>8. Copying'
  <2>1. WantsIn(resolved, copying.m)
    BY <1>1, <1>2, WantedNext DEF Copying
  <2>2. Wants(copying.m)'
    BY <1>1, <2>1 DEF WantsIn, Wants, Asked, Tidy!Elements, Tidy!PackageEdges, Tidy!Redirected
  <2>3. QED
    BY <1>1, <1>2, <1>3, <2>2 DEF Copying, Fits, Tidy!Known, Tidy!ByPath
<1>9. TidyTyped' /\ Fitting' /\ Shelves'
  BY <1>1, <1>2 DEF TidyTyped, Fitting, Fits, Tidy!Known, Shelves
<1>10. QED
  BY <1>5, <1>6, <1>7, <1>8, <1>9 DEF TidyInv

(* The package is here: its entry is made, its dependencies are queued.    *)
LEMMA ResolveKeeps ==
  ASSUME WellFormed, TidyInv, Tidy!Resolve
  PROVE  TidyInv'
<1> DEFINE contents == IF copying.src = 0 THEN repo[copying.m][copying.v] ELSE copying.src
<1>1. PICK kids : /\ tidyPc \in {"copy", "copied"}
                  /\ resolved' = Tidy!With(resolved, copying.m, [ver |-> copying.v, hash |-> contents, local |-> FALSE])
                  /\ kids \in {Deps[copying.m][copying.v]} \cup (IF contents = Tidy!Partial THEN {<<>>} ELSE {})
                  /\ q' = q \o kids /\ tidyPc' = "walk"
                  /\ tidyPc = "copied" \/ copying.src = 0
                  /\ UNCHANGED <<proj, pub, cons>>
  BY DEF Tidy!Resolve
<1> HIDE DEF contents
<1> DEFINE m == copying.m
           v == copying.v
           x == [ver |-> copying.v, hash |-> contents, local |-> FALSE]
<1>2. Shelves /\ TidyTyped /\ Kinds /\ Fitting /\ Covering /\ Wanted /\ Fetching /\ Copying
  BY <1>1 DEF TidyInv, Walking, Fetching
<1>3. m \in Modules /\ m \notin DOMAIN resolved /\ ~Tidy!ByPath(m) /\ v \in Versions
  BY <1>1, <1>2 DEF Copying
<1>4. Deps[m][v] \in Seq(Dependencies) /\ <<>> \in Seq(Dependencies)
  BY <1>3 DEF WellFormed
<1>5. kids \in Seq(Dependencies)
  BY <1>1, <1>4
<1>6. q' \in Seq(Dependencies) /\ Tidy!Elements(q') = Tidy!Elements(q) \cup Tidy!Elements(kids)
  <2>1. \A s, t \in Seq(Dependencies) :
           s \o t \in Seq(Dependencies) /\ Tidy!Elements(s \o t) = Tidy!Elements(s) \cup Tidy!Elements(t)
    BY ElementsJoin
  <2>2. QED
    BY <1>1, <1>2, <1>5, <2>1 DEF TidyTyped
<1>7. Tidy!Elements(<<>>) = {}
  BY DEF Tidy!Elements
<1>8. /\ Tidy!Elements(kids) \subseteq Tidy!Elements(Deps[m][v])
      /\ contents # Tidy!Partial => kids = Deps[m][v]
  BY <1>1, <1>7
<1>9. resolved' = Tidy!With(resolved, m, x) /\ x.ver = v /\ x.hash = contents /\ x.local = FALSE
  BY <1>1
<1>10. Fetched = {m} /\ Fetched' = {} /\ ~Fetching'
  BY <1>1, <1>2 DEF Fetched, Fetching
<1>11. Wants(m) /\ Fits(m, v)
  BY <1>2 DEF Copying
<1>12. WantsIn(resolved, m)
  BY <1>1, <1>11, WantedNext
<1>13. Shelves'
  BY <1>1, <1>2 DEF Shelves
<1> HIDE DEF m, v, x
<1>14. /\ DOMAIN resolved' = DOMAIN resolved \cup {m} /\ resolved'[m] = x
       /\ \A k \in DOMAIN resolved : resolved'[k] = resolved[k]
  BY <1>3, <1>9 DEF Tidy!With
<1>15. Tidy!PackageEdges(resolved', m) = Tidy!Elements(Deps[m][v])
  BY <1>9, <1>14 DEF Tidy!PackageEdges
<1>16. Asked(resolved', Whole(resolved')) \subseteq Asked(resolved, Whole(resolved)) \cup Tidy!Elements(kids)
  <2>1. Asked(resolved', Whole(resolved'))
           \subseteq Asked(resolved, Whole(resolved)) \cup (IF x.hash = Tidy!Partial THEN {} ELSE Tidy!PackageEdges(resolved', m))
    BY <1>3, <1>9, AskedGrows
  <2>2. QED
    BY <1>8, <1>9, <1>15, <2>1
<1>17. Asked(resolved', DOMAIN resolved') = Asked(resolved, DOMAIN resolved) \cup Tidy!Elements(Deps[m][v])
  BY <1>3, <1>9, <1>15, AskedGrows
<1>18. Covering'
  <2>1. ASSUME NEW d \in Asked(resolved', Whole(resolved')), d.to \notin proj.exclude
        PROVE  d \in Tidy!Elements(q') \/ MetIn(d, resolved', cons', {})
    <3>1. CASE d \in Asked(resolved, Whole(resolved))
      <4>1. d \in Tidy!Elements(q) \/ MetIn(d, resolved, cons, {m})
        BY <1>2, <1>10, <2>1, <3>1, CoveringNow
      <4>2. CASE MetIn(d, resolved, cons, {m})
        BY <1>1, <1>14, <4>2 DEF MetIn
      <4>3. QED
        BY <1>6, <4>1, <4>2
    <3>2. QED
      BY <1>6, <1>16, <2>1, <3>1
  <2>2. QED
    BY <1>1, <1>10, <2>1, CoveringNext
<1>19. Wanted'
  <2>1. Tidy!Elements(q') \subseteq Asked(resolved', DOMAIN resolved')
    BY <1>2, <1>6, <1>8, <1>17 DEF Wanted
  <2>2. \A k \in DOMAIN resolved : WantsIn(resolved, k)
    BY <1>1, <1>2, WantedNext DEF Wanted
  <2>3. \A k \in DOMAIN resolved' : WantsIn(resolved', k)
    BY <1>12, <1>14, <1>17, <2>2 DEF WantsIn
  <2>4. QED
    BY <1>1, <2>1, <2>3, WantedNext DEF Wanted
<1>20. Kinds'
  <2>1. \A k \in DOMAIN resolved' : resolved'[k].local <=> Tidy!ByPath(k)
    BY <1>2, <1>3, <1>9, <1>14 DEF Kinds
  <2>2. QED
    BY <1>1, <2>1, WantedNext DEF Kinds
<1>21. Fitting'
  <2>1. ASSUME NEW k \in DOMAIN resolved', ~resolved'[k].local
        PROVE  \A c \in Tidy!Known(k) : Tidy!Satisfies(resolved'[k].ver, c)
    BY <1>2, <1>9, <1>11, <1>14, <2>1 DEF Fitting, Fits
  <2>2. QED
    BY <1>1, <2>1 DEF Fitting, Fits, Tidy!Known
<1>22. TidyTyped'
  BY <1>1, <1>2, <1>3, <1>6, <1>14 DEF TidyTyped
<1>23. QED
  BY <1>10, <1>13, <1>18, <1>19, <1>20, <1>21, <1>22 DEF TidyInv

---------------------------------------------------------------------------
(* Commands, and the other steps.                                          *)

LEMMA StartKeeps ==
  ASSUME WellFormed, TidyInv, Tidy!StartTidy, UNCHANGED <<proj, pub>>
  PROVE  TidyInv'
<1>1. /\ tidyPc' = "walk" /\ q' = proj.deps /\ cons' = Tidy!Empty /\ resolved' = Tidy!Empty
      /\ UNCHANGED <<proj, pub>> /\ Shelves
  BY DEF Tidy!StartTidy, TidyInv
<1>2. DOMAIN Tidy!Empty = {}
  BY DEF Tidy!Empty
<1>3. proj.deps \in Seq(Dependencies)
  BY <1>1 DEF Shelves, WellFormed
<1>4. ~Fetching'
  BY <1>1 DEF Fetching
<1>5. Covering'
  <2> DEFINE f == Fetched'
  <2>1. ASSUME NEW d \in Asked(resolved', Whole(resolved')) PROVE d \in Tidy!Elements(q')
    BY <1>1, <1>2, <2>1 DEF Asked, Whole
  <2>2. \A d \in Asked(resolved', Whole(resolved')) : d.to \notin proj.exclude =>
           d \in Tidy!Elements(q') \/ MetIn(d, resolved', cons', f)
    BY <2>1
  <2>3. QED
    BY <1>1, <2>2, CoveringNext
<1>6. Wanted'
  <2>1. Tidy!Elements(q') \subseteq Asked(resolved', DOMAIN resolved')
    BY <1>1 DEF Asked
  <2>2. QED
    BY <1>1, <1>2, <2>1, WantedNext DEF Wanted
<1>7. TidyTyped' /\ Kinds' /\ Fitting' /\ Shelves'
  BY <1>1, <1>2, <1>3 DEF TidyTyped, Kinds, Fitting, Shelves
<1>8. QED
  BY <1>4, <1>5, <1>6, <1>7 DEF TidyInv

LEMMA RestKeeps ==
  ASSUME WellFormed, TidyInv,
         tidyPc' \in {"idle", "roots"}, proj' \in Projects,
         pub' \in [1 .. Len(Sources) -> [Modules -> SUBSET Versions]]
  PROVE  TidyInv'
  BY DEF TidyInv, Shelves, Walking, Fetching

LEMMA PublishTyped ==
  ASSUME WellFormed, Shelves, Tidy!Publish
  PROVE  pub' \in [1 .. Len(Sources) -> [Modules -> SUBSET Versions]]
<1>1. PICK w \in Publishable : pub' = [pub EXCEPT ![w[1]][w[2]] = @ \cup {w[3]}]
  BY DEF Tidy!Publish
<1>2. w[1] \in 1 .. Len(Sources) /\ w[2] \in Modules /\ w[3] \in Versions
  BY DEF WellFormed
<1>3. QED
  BY <1>1, <1>2 DEF Shelves

LEMMA TidyInit == WellFormed /\ Tidy!Init => TidyInv
  BY DEF Tidy!Init, WellFormed, TidyInv, Shelves, Walking, Fetching

LEMMA TidyStep ==
  ASSUME WellFormed, NoChain, TidyInv, [Tidy!Next]_(Tidy!vars)
  PROVE  TidyInv'
<1>1. Shelves
  BY DEF TidyInv
<1>2. CASE Tidy!RunTidy
  BY <1>2, StartKeeps DEF Tidy!RunTidy
<1>3. CASE Tidy!RunBuild
  <2>1. CASE Tidy!StartTidy
    BY <1>3, <2>1, StartKeeps DEF Tidy!RunBuild
  <2>2. CASE ~Tidy!StartTidy
    BY <1>1, <1>3, <2>2, RestKeeps DEF Tidy!RunBuild, Shelves
  <2>3. QED
    BY <2>1, <2>2
<1>4. CASE Tidy!FetchFails \/ Tidy!CopyFails \/ Tidy!Roots
  BY <1>1, <1>4, RestKeeps DEF Tidy!FetchFails, Tidy!CopyFails, Tidy!Roots, Tidy!Done, Shelves
<1>5. CASE Tidy!WriteLock
  BY <1>1, <1>5, RestKeeps DEF Tidy!WriteLock, Tidy!Done, Shelves
<1>6. CASE Tidy!Publish
  <2>1. tidyPc' = "idle" /\ proj' = proj
    BY <1>6 DEF Tidy!Publish, Tidy!Idle
  <2>2. QED
    BY <1>1, <1>6, <2>1, PublishTyped, RestKeeps DEF Shelves
<1>7. CASE Tidy!Edit
  <2>1. tidyPc' = "idle" /\ proj' \in Projects /\ pub' = pub
    BY <1>7 DEF Tidy!Edit, Tidy!Idle
  <2>2. QED
    BY <1>1, <2>1, RestKeeps DEF Shelves
<1>8. CASE Tidy!Wipe
  BY <1>1, <1>8, RestKeeps DEF Tidy!Wipe, Tidy!Idle, Shelves
<1>9. CASE UNCHANGED Tidy!vars
  <2>1. UNCHANGED <<proj, pub, tidyPc, q, cons, resolved, copying>>
    BY <1>9 DEF Tidy!vars
  <2>2. Shelves' = Shelves /\ Walking' = Walking /\ Fetching' = Fetching
    BY <2>1 DEF Shelves, Walking, Fetching
  <2>3. TidyTyped' = TidyTyped /\ Kinds' = Kinds /\ Fitting' = Fitting
    BY <2>1 DEF TidyTyped, Kinds, Tidy!ByPath, Fitting, Fits, Tidy!Known
  <2>4. Covering' = Covering
    BY <2>1, <2>2 DEF Covering, Asked, Whole, Tidy!Elements, Tidy!PackageEdges, Met, Tidy!Redirected, Tidy!Known, Tidy!Partial
  <2>5. (\A m : Wants(m)' <=> Wants(m)) /\ Wanted' = Wanted
    BY <2>1 DEF Wanted, Wants, Asked, Tidy!Elements, Tidy!PackageEdges, Tidy!Redirected
  <2>6. Copying' = Copying
    BY <2>1, <2>5 DEF Copying, Tidy!ByPath, Fits, Tidy!Known, Wants, Asked, Tidy!Elements, Tidy!PackageEdges, Tidy!Redirected
  <2>7. QED
    BY <2>2, <2>3, <2>4, <2>5, <2>6 DEF TidyInv
<1>10. QED
  BY <1>2, <1>3, <1>4, <1>5, <1>6, <1>7, <1>8, <1>9, SkipKeeps, PathKeeps, TakeKeeps, BeginCopyKeeps,
     ResolveKeeps DEF Tidy!Next

---------------------------------------------------------------------------
(* The lock.                                                               *)

LEMMA LockWritten ==
  ASSUME WellFormed, NoChain, TidyInv, [Tidy!Next]_(Tidy!vars), lock' # lock
  PROVE  /\ \A e \in Tidy!Edges(lock', {m \in DOMAIN lock' : lock'[m].hash # Tidy!Partial}) :
              /\ e.to \in DOMAIN lock'
              /\ ~lock'[e.to].local => Tidy!Satisfies(lock'[e.to].ver, e.con)
         /\ \A m \in DOMAIN lock' : \E e \in Tidy!Edges(lock', DOMAIN lock') : e.to = m
<1>1. Tidy!WriteLock
  BY DEF Tidy!Next, Tidy!vars, Tidy!RunTidy, Tidy!RunBuild, Tidy!SkipExcluded, Tidy!TakePath, Tidy!Take, Tidy!FetchFails, Tidy!BeginCopy, Tidy!CopyFails,
         Tidy!Resolve, Tidy!Roots, Tidy!Publish, Tidy!Edit, Tidy!Wipe
<1>2. tidyPc = "walk" /\ q = <<>> /\ lock' = resolved
  BY <1>1 DEF Tidy!WriteLock
<1>3. Fitting /\ Covering /\ Wanted /\ ~Fetching
  BY <1>2 DEF TidyInv, Walking, Fetching
<1>4. ASSUME NEW e \in Tidy!Edges(resolved, Whole(resolved))
      PROVE  e.to \in DOMAIN resolved /\ (~resolved[e.to].local => Tidy!Satisfies(resolved[e.to].ver, e.con))
  <2>1. PICK d \in Asked(resolved, Whole(resolved)) : d.to \notin proj.exclude /\ e = Tidy!Redirected(d)
    BY <1>4 DEF Tidy!Edges, Asked
  <2>2. d \notin Tidy!Elements(q)
    BY <1>2 DEF Tidy!Elements
  <2>3. e.to \in DOMAIN resolved /\ e.con \in Tidy!Known(e.to)
    BY <1>3, <2>1, <2>2 DEF Covering, Met
  <2>4. QED
    BY <1>3, <2>3 DEF Fitting, Fits
<1>5. ASSUME NEW m \in DOMAIN resolved PROVE \E e \in Tidy!Edges(resolved, DOMAIN resolved) : e.to = m
  <2>1. PICK d \in Asked(resolved, DOMAIN resolved) : d.to \notin proj.exclude /\ Tidy!Redirected(d).to = m
    BY <1>3 DEF Wanted, Wants
  <2>2. Tidy!Redirected(d) \in Tidy!Edges(resolved, DOMAIN resolved)
    BY <2>1 DEF Tidy!Edges, Asked
  <2>3. QED
    BY <2>1, <2>2
<1>6. QED
  BY <1>2, <1>4, <1>5 DEF Whole

(* Every lock that modTidy (ModResolve.cpp) writes holds each module the   *)
(* project or a whole package in it requires, at a version that meets the  *)
(* constraint or replaced by a directory, and no module that nothing       *)
(* requires: whatever the manifests, the sources and what is published     *)
(* between two commands.                                                   *)
THEOREM LockIsSound ==
  ASSUME WellFormed, NoChain
  PROVE  Tidy!Spec => Tidy!LockSound
<1>1. Tidy!Init => TidyInv
  BY TidyInit
<1>2. TidyInv /\ [Tidy!Next]_(Tidy!vars) => TidyInv'
  BY TidyStep
<1>3. TidyInv /\ [Tidy!Next]_(Tidy!vars) =>
        [lock' # lock =>
          /\ \A e \in Tidy!Edges(lock', {m \in DOMAIN lock' : lock'[m].hash # Tidy!Partial}) :
               /\ e.to \in DOMAIN lock'
               /\ ~lock'[e.to].local => Tidy!Satisfies(lock'[e.to].ver, e.con)
          /\ \A m \in DOMAIN lock' : \E e \in Tidy!Edges(lock', DOMAIN lock') : e.to = m]_(Tidy!vars)
  BY LockWritten
<1>4. QED
  BY <1>1, <1>2, <1>3, PTL DEF Tidy!Spec, Tidy!LockSound

-----------------------------------------------------------------------------
(* The HTTP server.                                                        *)

CONSTANTS Clients, Workers, Modes, MAX_REQUESTS, MAX_FAILURES, Known
VARIABLES mode, wakes, free, running, listener, closer, backlog, client, serverPc, at, tasks, pool, failures, dead
Server == INSTANCE HttpServer WITH pc <- serverPc

(* The cardinality HttpServer counts with is the one of the theorems.      *)
LEMMA SameCardinality == \A S : Server!Cardinality(S) = Cardinality(S)
  BY DEF Server!Cardinality, Cardinality

(* What the constants are: a pool has a thread, the known gaps are left    *)
(* out.                                                                    *)
Setting ==
  /\ Modes \subseteq {"serve", "parallel"} \cup Server!Bosses
  /\ Workers # {} /\ "main" \notin Workers
  /\ "none" \notin Clients
  /\ MAX_FAILURES \in Nat
  /\ Server!Gaps \subseteq Known

Holding == {"read", "handle", "close", "submit"}
Steps == {"idle", "test", "enter", "accept", "shutting", "join", "wait", "returned"} \cup Holding
Client == [state : {"new", "connected", "closed", "reset"}, sent : Nat, unread : Nat, last : BOOLEAN]

ServerTyped ==
  /\ Server!TypeOK
  /\ backlog \in Seq(Clients) /\ tasks \in Seq(Clients)
  /\ client \in [Clients -> Client]
  /\ serverPc \in [Server!Threads -> Steps]

(* Where a connection is.                                                  *)
In(s, c) == \E k \in DOMAIN s : s[k] = c
Distinct(s) == \A k, l \in DOMAIN s : s[k] = s[l] => k = l
Served(c) == \E t \in Server!Threads : at[t] = c

(* ... in one place, and only while it is connected.                       *)
Placed ==
  /\ Distinct(backlog) /\ Distinct(tasks)
  /\ \A t, u \in Server!Threads : at[t] # "none" /\ at[t] = at[u] => t = u
  /\ \A t \in Server!Threads : at[t] # "none" <=> serverPc[t] \in Holding
  /\ \A c \in Clients :
       /\ ~(In(backlog, c) /\ In(tasks, c))
       /\ ~(In(backlog, c) /\ Served(c))
       /\ ~(In(tasks, c) /\ Served(c))
       /\ client[c].state = "connected" <=> In(backlog, c) \/ In(tasks, c) \/ Served(c)

(* What is left unread of a connection to be closed is nothing only in the *)
(* hands of the thread that closes it.                                     *)
Closing ==
  \A c \in Clients :
    /\ client[c].state = "new" => ~client[c].last
    /\ client[c].state = "connected" /\ client[c].last /\ client[c].unread = 0 =>
         \E t \in Server!Threads : at[t] = c /\ serverPc[t] \in {"handle", "close"}

(* What the threads do.                                                    *)
Roles ==
  /\ serverPc["main"] # "wait"
  /\ serverPc["main"] \in {"submit", "shutting", "join"} => mode \in Server!Bosses
  /\ \A w \in Workers :
       /\ serverPc[w] \notin {"submit", "shutting", "join"}
       /\ mode # "parallel" => serverPc[w] \in {"idle", "wait", "read", "handle", "close", "returned"}
  /\ serverPc["main"] = "idle" => pool = "none" /\ \A w \in Workers : serverPc[w] = "idle"
  /\ mode = "parallel" /\ serverPc["main"] # "idle" => \A w \in Workers : serverPc[w] \notin {"wait", "idle"}
  /\ pool # "none" => mode \in Server!Bosses
  /\ mode \in Server!Bosses /\ serverPc["main"] # "idle" => pool # "none"

(* A pool that is not there has no threads and no tasks; one that is ends  *)
(* with its tasks.                                                         *)
Pooled ==
  /\ pool \in {"none", "empty"} => tasks = <<>> /\ (mode # "parallel" => \A w \in Workers : serverPc[w] = "idle")
  /\ pool = "up" => \A w \in Workers : serverPc[w] \in {"wait", "read", "handle", "close"}
  /\ pool = "up" => serverPc["main"] \notin {"idle", "join", "returned"}
  /\ pool = "down" => \A w \in Workers : serverPc[w] # "idle"
  /\ pool = "down" => serverPc["main"] \in {"join", "returned"}
  /\ pool = "down" => \A w \in Workers : serverPc[w] = "returned" => tasks = <<>>
  /\ mode \in Server!Bosses /\ serverPc["main"] = "returned" => Server!Joined

(* close() comes after the call to serve.                                  *)
Closed ==
  /\ wakes /\ free = 3 /\ listener # "lost" /\ ~dead
  /\ closer # "not_called" => serverPc["main"] # "idle" /\ (mode = "plain" \/ ~running)

ServerInv == ServerTyped /\ Placed /\ Closing /\ Roles /\ Pooled /\ Closed

---------------------------------------------------------------------------
(* Queues.                                                                 *)

LEMMA Joins ==
  ASSUME NEW D, NEW s \in Seq(D), NEW c \in D
  PROVE  /\ Append(s, c) \in Seq(D)
         /\ \A d : In(Append(s, c), d) <=> In(s, d) \/ d = c
         /\ Distinct(s) /\ ~In(s, c) => Distinct(Append(s, c))
<1>1. /\ Append(s, c) \in Seq(D) /\ Len(Append(s, c)) = Len(s) + 1 /\ Len(s) \in Nat
      /\ Append(s, c)[Len(s) + 1] = c /\ \A k \in 1 .. Len(s) : Append(s, c)[k] = s[k]
      /\ DOMAIN s = 1 .. Len(s) /\ DOMAIN Append(s, c) = 1 .. Len(s) + 1
  OBVIOUS
<1>2. \A k \in 1 .. Len(s) + 1 : k \in 1 .. Len(s) \/ k = Len(s) + 1
  BY <1>1
<1>3. \A k \in 1 .. Len(s) : k \in 1 .. Len(s) + 1
  BY <1>1
<1>4. Len(s) + 1 \in 1 .. Len(s) + 1
  BY <1>1
<1>5. \A d : In(Append(s, c), d) <=> In(s, d) \/ d = c
  BY <1>1, <1>2, <1>3, <1>4 DEF In
<1>6. ASSUME Distinct(s), ~In(s, c) PROVE Distinct(Append(s, c))
  BY <1>1, <1>2, <1>6 DEF In, Distinct
<1>7. QED
  BY <1>1, <1>5, <1>6

LEMMA Leaves ==
  ASSUME NEW D, NEW s \in Seq(D), s # <<>>, Distinct(s)
  PROVE  /\ Tail(s) \in Seq(D) /\ Head(s) \in D /\ In(s, Head(s)) /\ Distinct(Tail(s))
         /\ \A d : In(Tail(s), d) <=> In(s, d) /\ d # Head(s)
         /\ \A d : In(Tail(s), d) <=> \E k \in 2 .. Len(s) : s[k] = d
<1>1. /\ Tail(s) \in Seq(D) /\ Head(s) = s[1] /\ Head(s) \in D /\ Len(s) \in Nat /\ Len(s) > 0
      /\ Len(Tail(s)) = Len(s) - 1 /\ \A k \in 1 .. Len(s) - 1 : Tail(s)[k] = s[k + 1]
      /\ DOMAIN s = 1 .. Len(s) /\ DOMAIN Tail(s) = 1 .. Len(s) - 1
  OBVIOUS
<1>2. /\ \A k \in 1 .. Len(s) - 1 : k + 1 \in 2 .. Len(s) /\ k + 1 \in 1 .. Len(s)
      /\ \A k \in 2 .. Len(s) : k \in 1 .. Len(s) /\ k # 1 /\ k - 1 \in 1 .. Len(s) - 1 /\ (k - 1) + 1 = k
      /\ \A k \in 1 .. Len(s) : k = 1 \/ k \in 2 .. Len(s)
      /\ \A k, l \in 1 .. Len(s) - 1 : k + 1 = l + 1 => k = l
      /\ 1 \in 1 .. Len(s)
  BY <1>1
<1>3. \A d : In(Tail(s), d) <=> \E k \in 2 .. Len(s) : s[k] = d
  <2>1. ASSUME NEW d, In(Tail(s), d) PROVE \E k \in 2 .. Len(s) : s[k] = d
    BY <1>1, <1>2, <2>1 DEF In
  <2>2. ASSUME NEW d, NEW k \in 2 .. Len(s), s[k] = d PROVE In(Tail(s), d)
    <3>1. k - 1 \in DOMAIN Tail(s) /\ Tail(s)[k - 1] = d
      BY <1>1, <1>2, <2>2
    <3>2. QED
      BY <3>1 DEF In
  <2>3. QED
    BY <2>1, <2>2
<1>4. \A d : In(s, d) <=> s[1] = d \/ \E k \in 2 .. Len(s) : s[k] = d
  BY <1>1, <1>2 DEF In
<1>5. ~\E k \in 2 .. Len(s) : s[k] = s[1]
  BY <1>1, <1>2 DEF Distinct
<1>6. Distinct(Tail(s))
  BY <1>1, <1>2 DEF Distinct
<1>7. QED
  BY <1>1, <1>3, <1>4, <1>5, <1>6

LEMMA Empties == \A c : ~In(<<>>, c) /\ Distinct(<<>>)
  BY DEF In, Distinct

---------------------------------------------------------------------------
(* Steps of the state machine.                                             *)

LEMMA ServerInit == Setting /\ Server!Init => ServerInv
<1> SUFFICES ASSUME Setting, Server!Init PROVE ServerInv
  OBVIOUS
<1>1. \A t \in Server!Threads : serverPc[t] = "idle" /\ at[t] = "none"
  BY DEF Server!Init
<1>2. wakes /\ free = 3
  BY DEF Server!Init, Server!Open, Setting, Server!Gaps
<1>3. ServerTyped
  <2>1. Server!New \in Client
    BY DEF Server!New, Client
  <2>2. client \in [Clients -> Client] /\ serverPc \in [Server!Threads -> Steps] /\ at \in [Server!Threads -> Clients \cup {"none"}]
    BY <2>1 DEF Server!Init, Steps
  <2>3. backlog \in Seq(Clients) /\ tasks \in Seq(Clients) /\ failures \in 0 .. MAX_FAILURES
    BY DEF Server!Init, Setting
  <2>4. QED
    BY <2>2, <2>3 DEF Server!Init, ServerTyped, Server!TypeOK
<1>4. Placed
  <2>1. \A c \in Clients : ~Served(c) /\ client[c].state = "new"
    BY <1>1 DEF Served, Setting, Server!Init, Server!New
  <2>2. \A c : ~In(backlog, c) /\ ~In(tasks, c)
    BY Empties DEF Server!Init
  <2>3. Distinct(backlog) /\ Distinct(tasks)
    BY Empties DEF Server!Init
  <2>4. QED
    BY <1>1, <2>1, <2>2, <2>3 DEF Placed, Holding
<1>5. Closing
  BY DEF Server!Init, Closing, Server!New
<1>6. Roles /\ Pooled /\ Closed
  BY <1>1, <1>2 DEF Server!Init, Roles, Pooled, Closed, Server!Threads, Server!Bosses, Server!Joined
<1>7. QED
  BY <1>3, <1>4, <1>5, <1>6 DEF ServerInv

(* A blocked accept has a listening socket or fails.                       *)
LEMMA NoGap ==
  ASSUME Setting
  PROVE  \A g \in Server!Gaps : ~Server!Open(g)
  BY DEF Setting, Server!Open

LEMMA TypedStep ==
  ASSUME Setting, ServerInv, Server!Next
  PROVE  ServerTyped'
<1>1. /\ ServerTyped /\ Server!TypeOK /\ Placed
      /\ backlog \in Seq(Clients) /\ tasks \in Seq(Clients)
      /\ client \in [Clients -> Client] /\ serverPc \in [Server!Threads -> Steps]
      /\ at \in [Server!Threads -> Clients \cup {"none"}]
      /\ "main" \in Server!Threads /\ \A t \in Server!Threads : serverPc[t] \in Holding => at[t] \in Clients
  BY DEF ServerInv, ServerTyped, Server!TypeOK, Placed, Server!Threads
<1> USE DEF Steps, Holding
<1>2. ASSUME NEW c \in Clients, Server!Connect(c) PROVE ServerTyped'
  <2>1. client' = [client EXCEPT ![c].state = "connected"] /\ backlog' = Append(backlog, c)
        /\ UNCHANGED <<Server!world, running, listener, closer, serverPc, at, tasks, pool, failures, dead>>
    BY <1>2 DEF Server!Connect
  <2>2. client' \in [Clients -> Client]
    BY <1>1, <2>1 DEF Client
  <2>3. backlog' \in Seq(Clients)
    BY <1>1, <2>1
  <2>4. QED
    BY <1>1, <2>1, <2>2, <2>3 DEF ServerTyped, Server!TypeOK, Server!world
<1>3. ASSUME NEW c \in Clients, NEW last \in BOOLEAN, Server!Send(c, last) PROVE ServerTyped'
  <2>1. client' = [client EXCEPT ![c].sent = @ + 1, ![c].unread = @ + 1, ![c].last = last]
        /\ UNCHANGED <<Server!world, running, listener, closer, backlog, serverPc, at, tasks, pool, failures, dead>>
    BY <1>3 DEF Server!Send
  <2>2. client' \in [Clients -> Client]
    <3> DEFINE r == [client[c] EXCEPT !.sent = @ + 1, !.unread = @ + 1, !.last = last]
    <3>1. client[c] \in Client
      BY <1>1
    <3>2. client[c].sent + 1 \in Nat /\ client[c].unread + 1 \in Nat
      BY <3>1 DEF Client
    <3>5. r \in Client
      BY <3>1, <3>2, Zenon DEF Client
    <3>3. client' = [client EXCEPT ![c] = r]
      BY <1>1, <2>1 DEF Client
    <3> HIDE DEF r
    <3>4. QED
      BY <1>1, <3>3, <3>5
  <2>3. QED
    BY <1>1, <2>1, <2>2 DEF ServerTyped, Server!TypeOK, Server!world
<1>4. CASE Server!Listen \/ Server!CloseFlag
  BY <1>1, <1>4 DEF Server!Listen, Server!CloseFlag, ServerTyped, Server!TypeOK, Server!world
<1>15. CASE Server!ShutDown \/ Server!Join
  <2>1. serverPc' \in [Server!Threads -> Steps]
    BY <1>1, <1>15 DEF Server!ShutDown, Server!Join
  <2>2. pool' \in {"none", "up", "empty", "down"}
    BY <1>1, <1>15 DEF Server!ShutDown, Server!Join, Server!TypeOK
  <2>3. QED
    BY <1>1, <1>15, <2>1, <2>2 DEF Server!ShutDown, Server!Join, ServerTyped, Server!TypeOK, Server!world
<1>16. CASE Server!Start
  <2>1. serverPc' \in [Server!Threads -> Steps] /\ pool' \in {"none", "up", "empty", "down"}
    BY <1>1, <1>16 DEF Server!Start
  <2>2. QED
    BY <1>1, <1>16, <2>1 DEF Server!Start, ServerTyped, Server!TypeOK, Server!world
<1>5. CASE Server!CloseSocket
  <2>1. \/ UNCHANGED <<backlog, client>>
        \/ /\ backlog' = <<>>
           /\ client' = [c \in Clients |-> IF \E k \in DOMAIN backlog : backlog[k] = c
                                           THEN [client[c] EXCEPT !.state = "reset"] ELSE client[c]]
    BY <1>5 DEF Server!CloseSocket, Server!Reset
  <2>2. client' \in [Clients -> Client] /\ backlog' \in Seq(Clients)
    <3>1. \A c \in Clients : client[c] \in Client /\ [client[c] EXCEPT !.state = "reset"] \in Client
      BY <1>1 DEF Client
    <3>2. <<>> \in Seq(Clients)
      OBVIOUS
    <3>3. client' \in [Clients -> Client]
      BY <1>1, <2>1, <3>1
    <3>4. QED
      BY <1>1, <2>1, <3>2, <3>3
  <2>3. QED
    BY <1>1, <1>5, <2>2 DEF Server!CloseSocket, ServerTyped, Server!TypeOK, Server!world
<1>6. CASE Server!Submit
  <2>1. tasks' \in Seq(Clients) /\ failures' \in 0 .. MAX_FAILURES
    <3>1. serverPc["main"] = "submit" /\ at["main"] \in Clients
      BY <1>1, <1>6 DEF Server!Submit
    <3>2. tasks' = Append(tasks, at["main"]) \/ tasks' = tasks
      BY <1>6 DEF Server!Submit
    <3>3. Append(tasks, at["main"]) \in Seq(Clients)
      BY <1>1, <3>1, Joins
    <3>4. failures' = failures \/ (failures < MAX_FAILURES /\ failures' = failures + 1)
      BY <1>6 DEF Server!Submit
    <3>5. failures' \in 0 .. MAX_FAILURES
      BY <1>1, <3>4 DEF Server!TypeOK, Setting
    <3>6. QED
      BY <1>1, <3>2, <3>3, <3>5
  <2>2. serverPc' \in [Server!Threads -> Steps] /\ at' \in [Server!Threads -> Clients \cup {"none"}]
    BY <1>1, <1>6 DEF Server!Submit
  <2>3. QED
    BY <1>1, <1>6, <2>1, <2>2 DEF Server!Submit, ServerTyped, Server!TypeOK, Server!world
<1>7. ASSUME NEW t \in Server!Threads, Server!Test(t) \/ Server!Enter(t) \/ Server!WorkerEnds(t) \/ Server!Handle(t) PROVE ServerTyped'
  <2>1. serverPc' \in [Server!Threads -> Steps]
    BY <1>1, <1>7 DEF Server!Test, Server!Enter, Server!AcceptFailed, Server!WorkerEnds, Server!Handle
  <2>2. running' \in BOOLEAN
    BY <1>1, <1>7 DEF Server!Test, Server!Enter, Server!AcceptFailed, Server!WorkerEnds, Server!Handle, Server!TypeOK
  <2>3. QED
    BY <1>1, <1>7, <2>1, <2>2 DEF Server!Test, Server!Enter, Server!WorkerEnds, Server!Handle, ServerTyped, Server!TypeOK, Server!world
<1>8. ASSUME NEW t \in Server!Threads, Server!Fail(t) PROVE ServerTyped'
  <2>1. failures' \in 0 .. MAX_FAILURES
    <3>1. failures' = failures \/ (failures < MAX_FAILURES /\ failures' = failures + 1)
      BY <1>8 DEF Server!Fail
    <3>2. QED
      BY <1>1, <3>1 DEF Server!TypeOK, Setting
  <2>2. serverPc' \in [Server!Threads -> Steps] /\ running' \in BOOLEAN
    BY <1>1, <1>8 DEF Server!Fail, Server!AcceptFailed, Server!TypeOK
  <2>3. QED
    BY <1>1, <1>8, <2>1, <2>2 DEF Server!Fail, ServerTyped, Server!TypeOK, Server!world
<1>9. ASSUME NEW t \in Server!Threads, Server!Accept(t) PROVE ServerTyped'
  <2>1. Head(backlog) \in Clients /\ Tail(backlog) \in Seq(Clients)
    <3>1. backlog # <<>>
      BY <1>9 DEF Server!Accept
    <3>2. QED
      BY <1>1, <3>1
  <2>2. serverPc' \in [Server!Threads -> Steps] /\ at' \in [Server!Threads -> Clients \cup {"none"}]
    BY <1>1, <1>9, <2>1 DEF Server!Accept
  <2>3. backlog' \in Seq(Clients) /\ client' \in [Clients -> Client]
    <3>1. \A c \in Clients : client[c] \in Client /\ [client[c] EXCEPT !.state = "reset"] \in Client
      BY <1>1 DEF Client
    <3>2. <<>> \in Seq(Clients)
      OBVIOUS
    <3>3. QED
      BY <1>1, <1>9, <2>1, <3>1, <3>2 DEF Server!Accept
  <2>4. QED
    BY <1>1, <1>9, <2>2, <2>3 DEF Server!Accept, ServerTyped, Server!TypeOK, Server!world
<1>10. ASSUME NEW t \in Server!Threads, Server!TakeTask(t) PROVE ServerTyped'
  <2>1. Head(tasks) \in Clients /\ Tail(tasks) \in Seq(Clients)
    <3>1. tasks # <<>>
      BY <1>10 DEF Server!TakeTask
    <3>2. QED
      BY <1>1, <3>1
  <2>2. QED
    BY <1>1, <1>10, <2>1 DEF Server!TakeTask, ServerTyped, Server!TypeOK, Server!world
<1>11. ASSUME NEW t \in Server!Threads, Server!Read(t) PROVE ServerTyped'
  <2>1. at[t] \in Clients
    BY <1>1, <1>11 DEF Server!Read
  <2>2. client' \in [Clients -> Client]
    <3>1. CASE client[at[t]].unread > 0
      <4>1. client[at[t]].unread - 1 \in Nat
        <5>1. client[at[t]].unread \in Nat
          BY <1>1, <2>1 DEF Client
        <5>2. QED
          BY <3>1, <5>1
      <4>2. client' = [client EXCEPT ![at[t]].unread = @ - 1]
        BY <1>11, <3>1 DEF Server!Read
      <4>3. QED
        BY <1>1, <2>1, <4>1, <4>2 DEF Client
    <3>2. CASE ~(client[at[t]].unread > 0)
      BY <1>1, <1>11, <3>2 DEF Server!Read
    <3>3. QED
      BY <3>1, <3>2
  <2>3. serverPc' \in [Server!Threads -> Steps]
    BY <1>1, <1>11 DEF Server!Read
  <2>4. QED
    BY <1>1, <1>11, <2>2, <2>3 DEF Server!Read, ServerTyped, Server!TypeOK, Server!world
<1>12. ASSUME NEW t \in Server!Threads, Server!Close(t) PROVE ServerTyped'
  <2>1. at[t] \in Clients
    BY <1>1, <1>12 DEF Server!Close
  <2>2. client' \in [Clients -> Client]
    BY <1>1, <1>12, <2>1 DEF Server!Close, Client
  <2>3. QED
    BY <1>1, <1>12, <2>2 DEF Server!Close, Server!AfterServing, ServerTyped, Server!TypeOK, Server!world
<1>13. ASSUME NEW t \in Server!Threads PROVE ~Server!Throw(t)
  BY NoGap DEF Server!Throw, Server!Gaps
<1>14. QED
  BY <1>2, <1>3, <1>4, <1>5, <1>6, <1>7, <1>8, <1>9, <1>10, <1>11, <1>12, <1>13, <1>15, <1>16 DEF Server!Next, Server!Work

(* Nothing changes hands.                                                  *)
LEMMA PlacedSame ==
  ASSUME ServerInv, UNCHANGED <<backlog, tasks, at>>,
         \A c \in Clients : client'[c].state = client[c].state,
         \A t \in Server!Threads : serverPc'[t] \in Holding <=> serverPc[t] \in Holding
  PROVE  Placed'
  BY DEF ServerInv, Placed, Served, In, Distinct

LEMMA PlacedStep ==
  ASSUME Setting, ServerInv, Server!Next
  PROVE  Placed'
<1>1. /\ ServerTyped /\ Server!TypeOK /\ Placed
      /\ backlog \in Seq(Clients) /\ tasks \in Seq(Clients)
      /\ client \in [Clients -> Client] /\ serverPc \in [Server!Threads -> Steps]
      /\ at \in [Server!Threads -> Clients \cup {"none"}]
      /\ "main" \in Server!Threads /\ \A t \in Server!Threads : serverPc[t] \in Holding => at[t] \in Clients
  BY DEF ServerInv, ServerTyped, Server!TypeOK, Placed, Server!Threads
<1>15. ASSUME NEW c \in Clients PROVE client[c] \in Client
  BY <1>1
<1>2. ASSUME NEW c \in Clients, Server!Connect(c) PROVE Placed'
  <2>1. client' = [client EXCEPT ![c].state = "connected"] /\ backlog' = Append(backlog, c)
        /\ client[c].state = "new" /\ UNCHANGED <<serverPc, at, tasks>>
    BY <1>2 DEF Server!Connect
  <2>2. ~In(backlog, c) /\ ~In(tasks, c) /\ ~Served(c) /\ Distinct(backlog)
    BY <1>1, <2>1 DEF Placed
  <2>3. /\ \A d : In(backlog', d) <=> In(backlog, d) \/ d = c
        /\ Distinct(backlog')
    BY <1>1, <2>1, <2>2, Joins
  <2>4. /\ \A d \in Clients : d # c => client'[d] = client[d]
        /\ client'[c].state = "connected"
    BY <1>1, <2>1 DEF Client
  <2>5. \A d : Served(d)' <=> Served(d)
    BY <2>1 DEF Served
  <2>6. \A d \in Clients :
          /\ ~(In(backlog', d) /\ In(tasks', d))
          /\ ~(In(backlog', d) /\ Served(d)')
          /\ ~(In(tasks', d) /\ Served(d)')
          /\ client'[d].state = "connected" <=> In(backlog', d) \/ In(tasks', d) \/ Served(d)'
    BY <1>1, <2>1, <2>2, <2>3, <2>4, <2>5 DEF Placed
  <2>7. QED
    BY <1>1, <2>1, <2>3, <2>6 DEF Placed, In, Distinct
<1>3. ASSUME NEW c \in Clients, NEW last \in BOOLEAN, Server!Send(c, last) PROVE Placed'
  <2>1. client' = [client EXCEPT ![c].sent = @ + 1, ![c].unread = @ + 1, ![c].last = last]
        /\ UNCHANGED <<backlog, serverPc, at, tasks>>
    BY <1>3 DEF Server!Send
  <2>2. \A d \in Clients : client'[d].state = client[d].state
    BY <1>1, <2>1 DEF Client
  <2>3. QED
    BY <2>1, <2>2, PlacedSame
<1>4. CASE Server!Listen \/ Server!CloseFlag
  BY <1>4, PlacedSame DEF Server!Listen, Server!CloseFlag
<1>5. CASE Server!CloseSocket
  <2>1. /\ backlog' = <<>> /\ UNCHANGED <<serverPc, at, tasks>>
        /\ client' = [c \in Clients |-> IF \E k \in DOMAIN backlog : backlog[k] = c
                                        THEN [client[c] EXCEPT !.state = "reset"] ELSE client[c]]
    BY <1>5 DEF Server!CloseSocket, Server!Reset, ServerInv, Closed
  <2>2. \A c : ~In(backlog', c) /\ Distinct(backlog')
    BY <2>1, Empties
  <2>3. \A c : Served(c)' <=> Served(c)
    BY <2>1 DEF Served
  <2>4. \A c \in Clients : /\ In(backlog, c) => client'[c].state # "connected"
                           /\ ~In(backlog, c) => client'[c] = client[c]
    BY <1>1, <2>1 DEF In, Client
  <2>5. \A d \in Clients :
          /\ ~(In(tasks', d) /\ Served(d)')
          /\ client'[d].state = "connected" <=> In(backlog', d) \/ In(tasks', d) \/ Served(d)'
    BY <1>1, <2>1, <2>2, <2>3, <2>4 DEF Placed
  <2>6. QED
    BY <1>1, <2>1, <2>2, <2>5 DEF Placed, In, Distinct
<1>6. CASE Server!Submit
  <2>1. serverPc["main"] = "submit" /\ at["main"] \in Clients /\ UNCHANGED <<backlog, client>>
    BY <1>1, <1>6 DEF Server!Submit, Holding
  <2>2. CASE tasks' = Append(tasks, at["main"]) /\ serverPc' = [serverPc EXCEPT !["main"] = "test"] /\ at' = [at EXCEPT !["main"] = "none"]
    <3>0. PICK c \in Clients : c = at["main"]
      BY <2>1
    <3>1. ~In(tasks, c) /\ Distinct(tasks) /\ Served(c) /\ c \in Clients /\ c # "none"
      BY <1>1, <2>1, <3>0 DEF Placed, Served, Setting
    <3>2. \A t \in Server!Threads : t # "main" => at[t] # c
      BY <1>1, <3>0, <3>1 DEF Placed
    <3>3. /\ \A d : In(tasks', d) <=> In(tasks, d) \/ d = c
          /\ Distinct(tasks')
      BY <1>1, <2>2, <3>0, <3>1, Joins
    <3>4. at'["main"] = "none" /\ \A t \in Server!Threads : t # "main" => at'[t] = at[t] /\ serverPc'[t] = serverPc[t]
      BY <1>1, <2>2
    <3>5. serverPc'["main"] = "test"
      BY <1>1, <2>2
    <3>6. ~Served(c)'
      BY <1>1, <3>1, <3>2, <3>4 DEF Served
    <3>7. \A d \in Clients : d # c => (Served(d)' <=> Served(d))
      <4>1. \A d \in Clients : d # "none"
        BY DEF Setting
      <4>2. QED
        BY <1>1, <3>0, <3>4, <4>1 DEF Served
    <3>8. \A d \in Clients :
            /\ ~(In(backlog', d) /\ In(tasks', d))
            /\ ~(In(backlog', d) /\ Served(d)')
            /\ ~(In(tasks', d) /\ Served(d)')
            /\ client'[d].state = "connected" <=> In(backlog', d) \/ In(tasks', d) \/ Served(d)'
      BY <1>1, <2>1, <3>1, <3>3, <3>6, <3>7 DEF Placed
    <3>9. /\ \A t, u \in Server!Threads : at'[t] # "none" /\ at'[t] = at'[u] => t = u
          /\ \A t \in Server!Threads : at'[t] # "none" <=> serverPc'[t] \in Holding
      BY <1>1, <3>4, <3>5 DEF Placed, Holding
    <3>10. QED
      BY <1>1, <2>1, <3>3, <3>8, <3>9 DEF Placed, In, Distinct
  <2>3. CASE UNCHANGED <<tasks, at>> /\ serverPc' = [serverPc EXCEPT !["main"] = "read"]
    <3>1. \A t \in Server!Threads : serverPc'[t] \in Holding <=> serverPc[t] \in Holding
      BY <1>1, <2>1, <2>3 DEF Holding
    <3>2. QED
      BY <2>1, <2>3, <3>1, PlacedSame
  <2>4. QED
    BY <1>6, <2>2, <2>3 DEF Server!Submit
<1>7. ASSUME NEW t \in Server!Threads, Server!Test(t) \/ Server!Enter(t) \/ Server!Fail(t) \/ Server!WorkerEnds(t) \/ Server!Handle(t) PROVE Placed'
  <2>1. UNCHANGED <<backlog, client, at, tasks>>
    BY <1>7 DEF Server!Test, Server!Enter, Server!Fail, Server!WorkerEnds, Server!Handle
  <2>2. PICK x \in Steps : serverPc' = [serverPc EXCEPT ![t] = x] /\ (x \in Holding <=> serverPc[t] \in Holding)
    BY <1>7 DEF Server!Test, Server!Enter, Server!Fail, Server!AcceptFailed, Server!WorkerEnds, Server!Handle, Holding, Steps
  <2>3. \A u \in Server!Threads : serverPc'[u] \in Holding <=> serverPc[u] \in Holding
    BY <1>1, <2>2
  <2>4. QED
    BY <2>1, <2>3, PlacedSame
<1>8. CASE Server!ShutDown \/ Server!Join
  <2>1. UNCHANGED <<backlog, client, at, tasks>>
    BY <1>8 DEF Server!ShutDown, Server!Join
  <2>2. \A u \in Server!Threads : serverPc'[u] \in Holding <=> serverPc[u] \in Holding
    BY <1>1, <1>8 DEF Server!ShutDown, Server!Join, Holding
  <2>3. QED
    BY <2>1, <2>2, PlacedSame
<1>9. CASE Server!Start
  <2>1. UNCHANGED <<backlog, client, at, tasks>>
    BY <1>9 DEF Server!Start
  <2>2. \A u \in Server!Threads : serverPc[u] = "idle"
    BY <1>9 DEF Server!Start, ServerInv, Roles, Server!Threads
  <2>3. \A u \in Server!Threads : serverPc'[u] \in Holding <=> serverPc[u] \in Holding
    BY <1>1, <1>9, <2>2 DEF Server!Start, Holding
  <2>4. QED
    BY <2>1, <2>3, PlacedSame
<1>10. ASSUME NEW t \in Server!Threads, Server!Accept(t) PROVE Placed'
  <2> DEFINE c == Head(backlog)
  <2>1. /\ serverPc[t] = "accept" /\ backlog # <<>> /\ UNCHANGED tasks
        /\ serverPc' = [serverPc EXCEPT ![t] = IF mode \in Server!Bosses THEN "submit" ELSE "read"]
        /\ at' = [at EXCEPT ![t] = c]
        /\ \/ backlog' = Tail(backlog) /\ UNCHANGED client
           \/ /\ backlog' = <<>>
              /\ client' = [d \in Clients |-> IF \E k \in 2..Len(backlog) : backlog[k] = d
                                              THEN [client[d] EXCEPT !.state = "reset"] ELSE client[d]]
    BY <1>10 DEF Server!Accept
  <2>2. /\ c \in Clients /\ In(backlog, c) /\ Distinct(Tail(backlog))
        /\ \A d : In(Tail(backlog), d) <=> In(backlog, d) /\ d # c
        /\ \A d : In(Tail(backlog), d) <=> \E k \in 2 .. Len(backlog) : backlog[k] = d
    BY <1>1, <2>1, Leaves DEF Placed
  <2> HIDE DEF c
  <2>3. c # "none" /\ ~In(tasks, c) /\ ~Served(c) /\ client[c].state = "connected" /\ at[t] = "none"
    BY <1>1, <2>1, <2>2 DEF Placed, Setting, Holding
  <2>4. at'[t] = c /\ serverPc'[t] \in Holding /\ \A u \in Server!Threads : u # t => at'[u] = at[u] /\ serverPc'[u] = serverPc[u]
    BY <1>1, <2>1 DEF Holding
  <2>5. \A d \in Clients : Served(d)' <=> Served(d) \/ d = c
    <3>1. \A d \in Clients : d # "none"
      BY DEF Setting
    <3>2. QED
      BY <1>1, <2>3, <2>4, <3>1 DEF Served
  <2>6. /\ \A u, w \in Server!Threads : at'[u] # "none" /\ at'[u] = at'[w] => u = w
        /\ \A u \in Server!Threads : at'[u] # "none" <=> serverPc'[u] \in Holding
    <3>1. \A u \in Server!Threads : at[u] # c
      BY <2>3 DEF Served
    <3>2. QED
      BY <1>1, <2>3, <2>4, <3>1 DEF Placed
  <2>7. /\ Distinct(backlog')
        /\ \A d \in Clients : In(backlog', d) => In(backlog, d) /\ d # c
        /\ \A d \in Clients : client'[d].state = "connected" <=> client[d].state = "connected" /\ (d = c \/ In(backlog', d) \/ ~In(backlog, d))
    <3>1. CASE backlog' = Tail(backlog) /\ UNCHANGED client
      BY <1>1, <2>2, <3>1
    <3>2. CASE /\ backlog' = <<>>
               /\ client' = [d \in Clients |-> IF \E k \in 2..Len(backlog) : backlog[k] = d
                                               THEN [client[d] EXCEPT !.state = "reset"] ELSE client[d]]
      <4>1. \A d : ~In(backlog', d) /\ Distinct(backlog')
        BY <3>2, Empties
      <4>2. \A d \in Clients : client'[d] = IF In(backlog, d) /\ d # c THEN [client[d] EXCEPT !.state = "reset"] ELSE client[d]
        BY <2>2, <3>2
      <4>3. \A d \in Clients : [client[d] EXCEPT !.state = "reset"].state = "reset"
        BY <1>15 DEF Client
      <4>4. QED
        BY <4>1, <4>2, <4>3
    <3>3. QED
      BY <2>1, <3>1, <3>2
  <2>8. \A d \in Clients :
          /\ ~(In(backlog', d) /\ In(tasks', d))
          /\ ~(In(backlog', d) /\ Served(d)')
          /\ ~(In(tasks', d) /\ Served(d)')
          /\ client'[d].state = "connected" <=> In(backlog', d) \/ In(tasks', d) \/ Served(d)'
    BY <1>1, <2>1, <2>2, <2>3, <2>5, <2>7 DEF Placed
  <2>9. QED
    BY <1>1, <2>1, <2>6, <2>7, <2>8 DEF Placed, In, Distinct
<1>11. ASSUME NEW t \in Server!Threads, Server!TakeTask(t) PROVE Placed'
  <2> DEFINE c == Head(tasks)
  <2>1. /\ serverPc[t] = "wait" /\ tasks # <<>> /\ UNCHANGED <<backlog, client>>
        /\ serverPc' = [serverPc EXCEPT ![t] = "read"] /\ at' = [at EXCEPT ![t] = c] /\ tasks' = Tail(tasks)
    BY <1>11 DEF Server!TakeTask
  <2>2. /\ c \in Clients /\ In(tasks, c) /\ Distinct(tasks')
        /\ \A d : In(tasks', d) <=> In(tasks, d) /\ d # c
    BY <1>1, <2>1, Leaves DEF Placed
  <2> HIDE DEF c
  <2>3. c # "none" /\ ~In(backlog, c) /\ ~Served(c) /\ at[t] = "none"
    BY <1>1, <2>1, <2>2 DEF Placed, Setting, Holding
  <2>4. at'[t] = c /\ serverPc'[t] \in Holding /\ \A u \in Server!Threads : u # t => at'[u] = at[u] /\ serverPc'[u] = serverPc[u]
    BY <1>1, <2>1 DEF Holding
  <2>5. \A d \in Clients : Served(d)' <=> Served(d) \/ d = c
    <3>1. \A d \in Clients : d # "none"
      BY DEF Setting
    <3>2. QED
      BY <1>1, <2>3, <2>4, <3>1 DEF Served
  <2>6. /\ \A u, w \in Server!Threads : at'[u] # "none" /\ at'[u] = at'[w] => u = w
        /\ \A u \in Server!Threads : at'[u] # "none" <=> serverPc'[u] \in Holding
    <3>1. \A u \in Server!Threads : at[u] # c
      BY <2>3 DEF Served
    <3>2. QED
      BY <1>1, <2>3, <2>4, <3>1 DEF Placed
  <2>7. \A d \in Clients :
          /\ ~(In(backlog', d) /\ In(tasks', d))
          /\ ~(In(backlog', d) /\ Served(d)')
          /\ ~(In(tasks', d) /\ Served(d)')
          /\ client'[d].state = "connected" <=> In(backlog', d) \/ In(tasks', d) \/ Served(d)'
    BY <1>1, <2>1, <2>2, <2>3, <2>5 DEF Placed
  <2>8. Distinct(backlog)' /\ Distinct(tasks)'
    BY <1>1, <2>1, <2>2 DEF Placed, Distinct
  <2>9. QED
    BY <2>6, <2>7, <2>8 DEF Placed, In
<1>12. ASSUME NEW t \in Server!Threads, Server!Read(t) PROVE Placed'
  <2>1. UNCHANGED <<backlog, at, tasks>> /\ serverPc[t] = "read"
    BY <1>12 DEF Server!Read
  <2>2. \A u \in Server!Threads : serverPc'[u] \in Holding <=> serverPc[u] \in Holding
    BY <1>1, <1>12 DEF Server!Read, Holding
  <2>3. client' = client \/ client' = [client EXCEPT ![at[t]].unread = @ - 1]
    BY <1>12 DEF Server!Read
  <2>6. \A c \in Clients : [client[c] EXCEPT !.unread = @ - 1].state = client[c].state
    BY <1>15 DEF Client
  <2>4. \A c \in Clients : client'[c].state = client[c].state
    <3>1. CASE client' = client
      BY <3>1
    <3>2. CASE client' = [client EXCEPT ![at[t]].unread = @ - 1]
      <4>1. \A c \in Clients : client'[c] = client[c] \/ client'[c] = [client[c] EXCEPT !.unread = @ - 1]
        BY <1>1, <3>2
      <4>2. QED
        BY <2>6, <4>1
    <3>3. QED
      BY <2>3, <3>1, <3>2
  <2>5. QED
    BY <2>1, <2>2, <2>4, PlacedSame
<1>13. ASSUME NEW t \in Server!Threads, Server!Close(t) PROVE Placed'
  <2>0. PICK c : c = at[t]
    OBVIOUS
  <2>1. /\ serverPc[t] = "close" /\ UNCHANGED <<backlog, tasks>> /\ at' = [at EXCEPT ![t] = "none"]
        /\ client' = [client EXCEPT ![c].state = "closed"] /\ serverPc' = [serverPc EXCEPT ![t] = Server!AfterServing(t)]
    BY <1>13, <2>0 DEF Server!Close
  <2>2. c \in Clients /\ c # "none" /\ Served(c) /\ ~In(backlog, c) /\ ~In(tasks, c)
    BY <1>1, <2>0, <2>1 DEF Placed, Served, Holding, Setting
  <2>3. \A u \in Server!Threads : u # t => at[u] # c
    BY <1>1, <2>0, <2>2 DEF Placed
  <2>4. at'[t] = "none" /\ serverPc'[t] \notin Holding /\ \A u \in Server!Threads : u # t => at'[u] = at[u] /\ serverPc'[u] = serverPc[u]
    BY <1>1, <2>1 DEF Holding, Server!AfterServing
  <2>5. client'[c].state = "closed" /\ \A d \in Clients : d # c => client'[d] = client[d]
    BY <1>1, <2>1, <2>2 DEF Client
  <2>6. ~Served(c)' /\ \A d \in Clients : d # c => (Served(d)' <=> Served(d))
    <3>1. \A d \in Clients : d # "none"
      BY DEF Setting
    <3>2. QED
      BY <1>1, <2>0, <2>2, <2>3, <2>4, <3>1 DEF Served
  <2>7. /\ \A u, w \in Server!Threads : at'[u] # "none" /\ at'[u] = at'[w] => u = w
        /\ \A u \in Server!Threads : at'[u] # "none" <=> serverPc'[u] \in Holding
    BY <1>1, <2>4 DEF Placed
  <2>8. \A d \in Clients :
          /\ ~(In(backlog', d) /\ In(tasks', d))
          /\ ~(In(backlog', d) /\ Served(d)')
          /\ ~(In(tasks', d) /\ Served(d)')
          /\ client'[d].state = "connected" <=> In(backlog', d) \/ In(tasks', d) \/ Served(d)'
    BY <1>1, <2>1, <2>2, <2>5, <2>6 DEF Placed
  <2>9. QED
    BY <1>1, <2>1, <2>7, <2>8 DEF Placed, In, Distinct
<1>14. ASSUME NEW t \in Server!Threads PROVE ~Server!Throw(t)
  BY NoGap DEF Server!Throw, Server!Gaps
<1>16. QED
  BY <1>2, <1>3, <1>4, <1>5, <1>6, <1>7, <1>8, <1>9, <1>10, <1>11, <1>12, <1>13, <1>14 DEF Server!Next, Server!Work

LEMMA RolesStep ==
  ASSUME Setting, ServerInv, Server!Next
  PROVE  Roles'
<1>1. /\ ServerTyped /\ Roles /\ Pooled
      /\ serverPc \in [Server!Threads -> Steps] /\ "main" \in Server!Threads /\ "main" \notin Workers
      /\ \A w \in Workers : w \in Server!Threads /\ w # "main"
      /\ \A t \in Server!Threads : t = "main" \/ t \in Workers
      /\ mode \in {"serve", "parallel"} \cup Server!Bosses
  BY DEF ServerInv, ServerTyped, Server!TypeOK, Server!Threads, Setting
<1> USE DEF Roles, Server!Bosses
<1>2. ASSUME NEW c \in Clients, Server!Connect(c) \/ \E last \in BOOLEAN : Server!Send(c, last) PROVE Roles'
  BY <1>1, <1>2 DEF Server!Connect, Server!Send, Server!world
<1>3. CASE Server!Listen \/ Server!CloseFlag \/ Server!CloseSocket
  BY <1>1, <1>3 DEF Server!Listen, Server!CloseFlag, Server!CloseSocket, Server!world
<1>4. CASE Server!Start
  BY <1>1, <1>4 DEF Server!Start, Server!world
<1>5. CASE Server!Submit
  BY <1>1, <1>5 DEF Server!Submit, Server!world
<1>6. CASE Server!ShutDown
  BY <1>1, <1>6 DEF Server!ShutDown, Server!world
<1>7. CASE Server!Join
  BY <1>1, <1>7 DEF Server!Join, Server!world
<1>8. ASSUME NEW t \in Server!Threads, Server!Test(t) PROVE Roles'
  BY <1>1, <1>8 DEF Server!Test, Server!world
<1>9. ASSUME NEW t \in Server!Threads, Server!Enter(t) PROVE Roles'
  BY <1>1, <1>9 DEF Server!Enter, Server!AcceptFailed, Server!world
<1>10. ASSUME NEW t \in Server!Threads, Server!Fail(t) PROVE Roles'
  BY <1>1, <1>10 DEF Server!Fail, Server!AcceptFailed, Server!world
<1>11. ASSUME NEW t \in Server!Threads, Server!Accept(t) PROVE Roles'
  BY <1>1, <1>11 DEF Server!Accept, Server!world
<1>12. ASSUME NEW t \in Server!Threads, Server!TakeTask(t) PROVE Roles'
  BY <1>1, <1>12 DEF Server!TakeTask, Server!world
<1>13. ASSUME NEW t \in Server!Threads, Server!WorkerEnds(t) PROVE Roles'
  BY <1>1, <1>13 DEF Server!WorkerEnds, Server!world
<1>14. ASSUME NEW t \in Server!Threads, Server!Read(t) PROVE Roles'
  BY <1>1, <1>14 DEF Server!Read, Server!world
<1>15. ASSUME NEW t \in Server!Threads, Server!Handle(t) PROVE Roles'
  BY <1>1, <1>15 DEF Server!Handle, Server!world
<1>16. ASSUME NEW t \in Server!Threads, Server!Close(t) PROVE Roles'
  BY <1>1, <1>16 DEF Server!Close, Server!AfterServing, Server!Accepting, Server!world
<1>17. ASSUME NEW t \in Server!Threads PROVE ~Server!Throw(t)
  BY NoGap DEF Server!Throw, Server!Gaps
<1>18. QED
  BY <1>2, <1>3, <1>4, <1>5, <1>6, <1>7, <1>8, <1>9, <1>10, <1>11, <1>12, <1>13, <1>14, <1>15, <1>16, <1>17 DEF Server!Next, Server!Work

LEMMA PooledStep ==
  ASSUME Setting, ServerInv, Server!Next
  PROVE  Pooled'
<1>1. /\ ServerTyped /\ Roles /\ Pooled
      /\ serverPc \in [Server!Threads -> Steps] /\ "main" \in Server!Threads /\ "main" \notin Workers
      /\ \A w \in Workers : w \in Server!Threads /\ w # "main"
      /\ \A t \in Server!Threads : t = "main" \/ t \in Workers
      /\ mode \in {"serve", "parallel"} \cup Server!Bosses
  BY DEF ServerInv, ServerTyped, Server!TypeOK, Server!Threads, Setting
<1> USE DEF Pooled, Server!Bosses, Server!Joined, Roles
<1>2. ASSUME NEW c \in Clients, Server!Connect(c) \/ \E last \in BOOLEAN : Server!Send(c, last) PROVE Pooled'
  BY <1>1, <1>2 DEF Server!Connect, Server!Send, Server!world
<1>3. CASE Server!Listen \/ Server!CloseFlag \/ Server!CloseSocket
  BY <1>1, <1>3 DEF Server!Listen, Server!CloseFlag, Server!CloseSocket, Server!world
<1>4. CASE Server!Start
  BY <1>1, <1>4 DEF Server!Start, Server!world
<1>5. CASE Server!Submit
  BY <1>1, <1>5 DEF Server!Submit, Server!world
<1>6. CASE Server!ShutDown
  BY <1>1, <1>6 DEF Server!ShutDown, Server!world
<1>7. CASE Server!Join
  BY <1>1, <1>7 DEF Server!Join, Server!world
<1>8. ASSUME NEW t \in Server!Threads, Server!Test(t) PROVE Pooled'
  BY <1>1, <1>8 DEF Server!Test, Server!world
<1>9. ASSUME NEW t \in Server!Threads, Server!Enter(t) PROVE Pooled'
  <2>1. PICK x \in {"accept", "test", "shutting"} : serverPc' = [serverPc EXCEPT ![t] = x]
    BY <1>9 DEF Server!Enter, Server!AcceptFailed
  <2>2. UNCHANGED <<mode, pool, tasks>> /\ serverPc[t] = "enter"
    BY <1>9 DEF Server!Enter, Server!world
  <2>3. serverPc'[t] = x /\ \A u \in Server!Threads : u # t => serverPc'[u] = serverPc[u]
    BY <1>1, <2>1
  <2>4. CASE t = "main"
    BY <1>1, <2>2, <2>3, <2>4
  <2>5. CASE t \in Workers
    <3>1. mode = "parallel" /\ pool = "none"
      BY <1>1, <2>2, <2>5
    <3>2. QED
      BY <1>1, <2>2, <3>1
  <2>6. QED
    BY <1>1, <2>4, <2>5
<1>10. ASSUME NEW t \in Server!Threads, Server!Fail(t) PROVE Pooled'
  BY <1>1, <1>10 DEF Server!Fail, Server!AcceptFailed, Server!world
<1>11. ASSUME NEW t \in Server!Threads, Server!Accept(t) PROVE Pooled'
  BY <1>1, <1>11 DEF Server!Accept, Server!world
<1>12. ASSUME NEW t \in Server!Threads, Server!TakeTask(t) PROVE Pooled'
  BY <1>1, <1>12 DEF Server!TakeTask, Server!world
<1>13. ASSUME NEW t \in Server!Threads, Server!WorkerEnds(t) PROVE Pooled'
  BY <1>1, <1>13 DEF Server!WorkerEnds, Server!world
<1>14. ASSUME NEW t \in Server!Threads, Server!Read(t) PROVE Pooled'
  BY <1>1, <1>14 DEF Server!Read, Server!world
<1>15. ASSUME NEW t \in Server!Threads, Server!Handle(t) PROVE Pooled'
  BY <1>1, <1>15 DEF Server!Handle, Server!world
<1>16. ASSUME NEW t \in Server!Threads, Server!Close(t) PROVE Pooled'
  BY <1>1, <1>16 DEF Server!Close, Server!AfterServing, Server!Accepting, Server!world
<1>17. ASSUME NEW t \in Server!Threads PROVE ~Server!Throw(t)
  BY NoGap DEF Server!Throw, Server!Gaps
<1>18. QED
  BY <1>2, <1>3, <1>4, <1>5, <1>6, <1>7, <1>8, <1>9, <1>10, <1>11, <1>12, <1>13, <1>14, <1>15, <1>16, <1>17 DEF Server!Next, Server!Work

LEMMA ClosedStep ==
  ASSUME Setting, ServerInv, Server!Next
  PROVE  Closed'
<1>1. Closed /\ \A g \in Server!Gaps : ~Server!Open(g)
  BY NoGap DEF ServerInv
<1>2. ASSUME NEW t \in Server!Threads PROVE ~Server!Throw(t)
  BY <1>1 DEF Server!Throw, Server!Gaps
<1>3. UNCHANGED <<wakes, free>>
  BY <1>2 DEF Server!Next, Server!Work, Server!Connect, Server!Send, Server!Listen, Server!CloseFlag, Server!CloseSocket, Server!Start, Server!Submit, Server!ShutDown, Server!Join,
        Server!Test, Server!Enter, Server!Fail, Server!Accept, Server!TakeTask, Server!WorkerEnds, Server!Read, Server!Handle, Server!Close, Server!world
<1>4. UNCHANGED dead
  BY <1>2 DEF Server!Next, Server!Work, Server!Connect, Server!Send, Server!Listen, Server!CloseFlag, Server!CloseSocket, Server!Start, Server!Submit, Server!ShutDown, Server!Join,
        Server!Test, Server!Enter, Server!Fail, Server!Accept, Server!TakeTask, Server!WorkerEnds, Server!Read, Server!Handle, Server!Close
<1>5. listener' # "lost"
  <2>1. CASE Server!Listen
    BY <1>1, <2>1 DEF Closed, Server!Listen
  <2>2. CASE Server!CloseSocket
    BY <2>2 DEF Server!CloseSocket
  <2>3. CASE ~Server!Listen /\ ~Server!CloseSocket
    <3>1. UNCHANGED listener
      BY <1>2, <2>3 DEF Server!Next, Server!Work, Server!Connect, Server!Send, Server!CloseFlag, Server!Start, Server!Submit, Server!ShutDown, Server!Join,
            Server!Test, Server!Enter, Server!Fail, Server!Accept, Server!TakeTask, Server!WorkerEnds, Server!Read, Server!Handle, Server!Close
    <3>2. QED
      BY <1>1, <3>1 DEF Closed
  <2>4. QED
    BY <2>1, <2>2, <2>3
<1>6. closer' # "not_called" => serverPc'["main"] # "idle"
  <2>1. serverPc["main"] # "idle" => serverPc'["main"] # "idle"
    <3> HAVE serverPc["main"] # "idle"
    <3>1. "main" \in Server!Threads /\ serverPc \in [Server!Threads -> Steps] /\ "main" \notin Workers
      BY DEF ServerInv, ServerTyped, Server!Threads, Setting
    <3>2. CASE \E t \in Server!Threads : Server!Work(t)
      <4>1. PICK t \in Server!Threads, x \in Steps \ {"idle"} : serverPc' = [serverPc EXCEPT ![t] = x]
        BY <1>2, <3>2 DEF Server!Work, Server!Test, Server!Enter, Server!AcceptFailed, Server!Fail, Server!Accept, Server!TakeTask, Server!WorkerEnds, Server!Read, Server!Handle, Server!Close,
              Server!AfterServing, Steps, Holding
      <4>2. QED
        BY <3>1, <4>1
    <3>3. CASE Server!Submit \/ Server!ShutDown \/ Server!Join
      BY <3>1, <3>3 DEF Server!Submit, Server!ShutDown, Server!Join
    <3>4. CASE ~(\E t \in Server!Threads : Server!Work(t)) /\ ~(Server!Submit \/ Server!ShutDown \/ Server!Join)
      BY <3>4 DEF Server!Next, Server!Connect, Server!Send, Server!Listen, Server!CloseFlag, Server!CloseSocket, Server!Start
    <3>5. QED
      BY <3>2, <3>3, <3>4
  <2>2. closer' # closer => closer # "not_called" \/ serverPc["main"] # "idle"
    BY <1>1, <1>2 DEF Server!Gaps, Server!Next, Server!Work, Server!Connect, Server!Send, Server!Listen, Server!CloseFlag, Server!CloseSocket, Server!Start, Server!Submit, Server!ShutDown, Server!Join,
        Server!Test, Server!Enter, Server!Fail, Server!Accept, Server!TakeTask, Server!WorkerEnds, Server!Read, Server!Handle, Server!Close
  <2>3. QED
    BY <1>1, <2>1, <2>2 DEF Closed
<1>7. closer' # "not_called" => mode' = "plain" \/ ~running'
  <2>1. UNCHANGED mode
    BY <1>2 DEF Server!Next, Server!Work, Server!Connect, Server!Send, Server!Listen, Server!CloseFlag, Server!CloseSocket, Server!Start, Server!Submit, Server!ShutDown, Server!Join,
        Server!Test, Server!Enter, Server!Fail, Server!Accept, Server!TakeTask, Server!WorkerEnds, Server!Read, Server!Handle, Server!Close, Server!world
  <2>2. CASE Server!Start
    BY <1>1, <2>2 DEF Server!Start, Closed
  <2>3. CASE Server!CloseFlag
    BY <2>1, <2>3 DEF Server!CloseFlag
  <2>4. CASE ~Server!Start /\ ~Server!CloseFlag
    <3>1. running' = running \/ mode = "plain"
      BY <1>2, <2>4 DEF Server!Next, Server!Work, Server!Connect, Server!Send, Server!Listen, Server!CloseSocket, Server!Submit, Server!ShutDown, Server!Join,
        Server!Test, Server!Enter, Server!AcceptFailed, Server!Fail, Server!Accept, Server!TakeTask, Server!WorkerEnds, Server!Read, Server!Handle, Server!Close
    <3>2. closer' # "not_called" => closer # "not_called"
      BY <1>2, <2>4 DEF Server!Next, Server!Work, Server!Connect, Server!Send, Server!Listen, Server!CloseSocket, Server!Submit, Server!ShutDown, Server!Join,
        Server!Test, Server!Enter, Server!Fail, Server!Accept, Server!TakeTask, Server!WorkerEnds, Server!Read, Server!Handle, Server!Close
    <3>3. QED
      BY <1>1, <2>1, <3>1, <3>2 DEF Closed
  <2>5. QED
    BY <2>2, <2>3, <2>4
<1>8. QED
  BY <1>1, <1>3, <1>4, <1>5, <1>6, <1>7 DEF Closed

(* A connection that its last request has ended is at the same thread.     *)
LEMMA ClosingSame ==
  ASSUME Closing, UNCHANGED client,
         \A t \in Server!Threads : serverPc[t] \in {"handle", "close"} => serverPc'[t] \in {"handle", "close"} /\ at'[t] = at[t]
  PROVE  Closing'
  BY DEF Closing

LEMMA ClosingStep ==
  ASSUME Setting, ServerInv, Server!Next
  PROVE  Closing'
<1>1. /\ Closing /\ Placed /\ "main" \in Server!Threads
      /\ client \in [Clients -> Client] /\ serverPc \in [Server!Threads -> Steps]
      /\ at \in [Server!Threads -> Clients \cup {"none"}]
      /\ \A t \in Server!Threads : serverPc[t] \in Holding => at[t] \in Clients
  BY DEF ServerInv, ServerTyped, Server!TypeOK, Placed, Server!Threads
<1>2. ASSUME NEW c \in Clients PROVE client[c] \in Client
  BY <1>1
<1>3. ASSUME NEW c \in Clients, Server!Connect(c) PROVE Closing'
  <2>1. client' = [client EXCEPT ![c].state = "connected"] /\ client[c].state = "new" /\ UNCHANGED <<serverPc, at>>
    BY <1>3 DEF Server!Connect
  <2>2. /\ client'[c].last = client[c].last /\ client'[c].state = "connected"
        /\ \A d \in Clients : d # c => client'[d] = client[d]
    BY <1>1, <1>2, <2>1 DEF Client
  <2>3. ~client[c].last
    BY <1>1, <2>1 DEF Closing
  <2>4. QED
    BY <1>1, <2>1, <2>2, <2>3 DEF Closing
<1>4. ASSUME NEW c \in Clients, NEW last \in BOOLEAN, Server!Send(c, last) PROVE Closing'
  <2>1. /\ client' = [client EXCEPT ![c].sent = @ + 1, ![c].unread = @ + 1, ![c].last = last]
        /\ client[c].state = "connected" /\ UNCHANGED <<serverPc, at>>
    BY <1>4 DEF Server!Send
  <2>2. client[c].unread \in Nat
    BY <1>2 DEF Client
  <2>3. /\ client'[c].unread = client[c].unread + 1 /\ client'[c].state = "connected"
        /\ \A d \in Clients : d # c => client'[d] = client[d]
    BY <1>1, <1>2, <2>1 DEF Client
  <2>4. client'[c].unread # 0
    BY <2>2, <2>3
  <2>5. QED
    BY <1>1, <2>1, <2>3, <2>4 DEF Closing
<1>5. CASE Server!CloseSocket
  <2>1. \A u \in Server!Threads : serverPc'[u] = serverPc[u] /\ at'[u] = at[u]
    BY <1>5 DEF Server!CloseSocket
  <2>2. \A c \in Clients : [client[c] EXCEPT !.state = "reset"].state = "reset"
    BY <1>2 DEF Client
  <2>3. \A c \in Clients : client'[c] = client[c] \/ client'[c].state = "reset"
    BY <1>5, <2>2 DEF Server!CloseSocket, Server!Reset
  <2>4. QED
    BY <1>1, <2>1, <2>3 DEF Closing
<1>6. CASE Server!Listen \/ Server!CloseFlag
  BY <1>1, <1>6, ClosingSame DEF Server!Listen, Server!CloseFlag
<1>7. CASE Server!Start
  <2>1. \A t \in Server!Threads : serverPc[t] = "idle"
    BY <1>7 DEF Server!Start, ServerInv, Roles, Server!Threads
  <2>2. QED
    BY <1>1, <1>7, <2>1, ClosingSame DEF Server!Start
<1>8. CASE Server!Submit
  BY <1>1, <1>8, ClosingSame DEF Server!Submit
<1>9. CASE Server!ShutDown \/ Server!Join
  BY <1>1, <1>9, ClosingSame DEF Server!ShutDown, Server!Join
<1>10. ASSUME NEW t \in Server!Threads, Server!Test(t) \/ Server!Enter(t) \/ Server!Fail(t) \/ Server!WorkerEnds(t) PROVE Closing'
  <2>1. UNCHANGED <<client, at>> /\ serverPc[t] \notin {"handle", "close"} /\ \E x : serverPc' = [serverPc EXCEPT ![t] = x]
    BY <1>10 DEF Server!Test, Server!Enter, Server!Fail, Server!AcceptFailed, Server!WorkerEnds
  <2>2. \A u \in Server!Threads : u # t => serverPc'[u] = serverPc[u]
    BY <1>1, <2>1
  <2>3. QED
    BY <1>1, <2>1, <2>2, ClosingSame
<1>11. ASSUME NEW t \in Server!Threads, Server!TakeTask(t) PROVE Closing'
  <2>1. UNCHANGED client /\ serverPc[t] = "wait" /\ \A u \in Server!Threads : u # t => serverPc'[u] = serverPc[u] /\ at'[u] = at[u]
    BY <1>1, <1>11 DEF Server!TakeTask
  <2>2. QED
    BY <1>1, <2>1, ClosingSame
<1>12. ASSUME NEW t \in Server!Threads, Server!Accept(t) PROVE Closing'
  <2>1. serverPc[t] = "accept" /\ \A u \in Server!Threads : u # t => serverPc'[u] = serverPc[u] /\ at'[u] = at[u]
    BY <1>1, <1>12 DEF Server!Accept
  <2>2. \A c \in Clients : [client[c] EXCEPT !.state = "reset"].state = "reset"
    BY <1>2 DEF Client
  <2>3. \A c \in Clients : client'[c] = client[c] \/ client'[c].state = "reset"
    BY <1>12, <2>2 DEF Server!Accept
  <2>4. QED
    BY <1>1, <2>1, <2>3 DEF Closing
<1>13. ASSUME NEW t \in Server!Threads, Server!Read(t) PROVE Closing'
  <2>0. PICK c \in Clients : c = at[t]
    BY <1>1, <1>13 DEF Server!Read, Holding
  <2>1. serverPc[t] = "read" /\ UNCHANGED at /\ serverPc'[t] \in {"handle", "close"} /\ \A u \in Server!Threads : u # t => serverPc'[u] = serverPc[u]
    BY <1>1, <1>13 DEF Server!Read
  <2>2. client' = client \/ client' = [client EXCEPT ![c].unread = @ - 1]
    BY <1>13, <2>0 DEF Server!Read
  <2>3. \A d \in Clients : d # c => client'[d] = client[d]
    BY <1>1, <2>2
  <2>4. client[c].state # "new"
    BY <1>1, <2>0 DEF Placed, Served
  <2>5. client'[c].state = client[c].state
    <3>1. [client[c] EXCEPT !.unread = @ - 1].state = client[c].state
      BY <1>2 DEF Client
    <3>2. client'[c] = client[c] \/ client'[c] = [client[c] EXCEPT !.unread = @ - 1]
      BY <1>1, <2>2
    <3>3. QED
      BY <3>1, <3>2
  <2>6. QED
    BY <1>1, <2>0, <2>1, <2>3, <2>4, <2>5 DEF Closing
<1>14. ASSUME NEW t \in Server!Threads, Server!Handle(t) PROVE Closing'
  <2>1. UNCHANGED <<client, at>> /\ serverPc[t] = "handle" /\ \A u \in Server!Threads : u # t => serverPc'[u] = serverPc[u]
    BY <1>1, <1>14 DEF Server!Handle
  <2>2. client[at[t]].last /\ client[at[t]].unread = 0 => serverPc'[t] = "close"
    BY <1>1, <1>14 DEF Server!Handle, Server!AsksToClose
  <2>3. QED
    BY <1>1, <2>1, <2>2 DEF Closing
<1>15. ASSUME NEW t \in Server!Threads, Server!Close(t) PROVE Closing'
  <2>0. PICK c \in Clients : c = at[t]
    BY <1>1, <1>15 DEF Server!Close, Holding
  <2>1. client' = [client EXCEPT ![c].state = "closed"] /\ \A u \in Server!Threads : u # t => serverPc'[u] = serverPc[u] /\ at'[u] = at[u]
    BY <1>1, <1>15, <2>0 DEF Server!Close
  <2>2. client'[c].state = "closed" /\ \A d \in Clients : d # c => client'[d] = client[d]
    BY <1>1, <1>2, <2>1 DEF Client
  <2>3. QED
    BY <1>1, <2>0, <2>1, <2>2 DEF Closing
<1>16. ASSUME NEW t \in Server!Threads PROVE ~Server!Throw(t)
  BY NoGap DEF Server!Throw, Server!Gaps
<1>17. QED
  BY <1>3, <1>4, <1>5, <1>6, <1>7, <1>8, <1>9, <1>10, <1>11, <1>12, <1>13, <1>14, <1>15, <1>16 DEF Server!Next, Server!Work

LEMMA ServerStep == Setting /\ ServerInv /\ [Server!Next]_(Server!vars) => ServerInv'
<1> SUFFICES ASSUME Setting, ServerInv, [Server!Next]_(Server!vars) PROVE ServerInv'
  OBVIOUS
<1>1. CASE Server!Next
  BY <1>1, TypedStep, PlacedStep, ClosingStep, RolesStep, PooledStep, ClosedStep DEF ServerInv
<1>2. CASE UNCHANGED Server!vars
  <2>1. ServerTyped'
    BY <1>2 DEF ServerInv, ServerTyped, Server!TypeOK, Server!vars
  <2>2. Placed' /\ Closing'
    BY <1>2 DEF ServerInv, Placed, Closing, Served, In, Distinct, Server!vars
  <2>3. Roles' /\ Pooled' /\ Closed'
    BY <1>2 DEF ServerInv, Roles, Pooled, Server!Joined, Closed, Server!vars
  <2>4. QED
    BY <2>1, <2>2, <2>3 DEF ServerInv
<1>3. QED
  BY <1>1, <1>2

(* How many are one place.                                                 *)
LEMMA OneOrNone ==
  ASSUME NEW S, \A x, y \in S : x = y
  PROVE  Server!Cardinality(S) = IF S = {} THEN 0 ELSE 1
<1>1. CASE S = {}
  BY <1>1, FS_EmptySet, SameCardinality
<1>2. CASE S # {}
  <2>1. PICK x \in S : S = {x}
    BY <1>2
  <2>2. QED
    BY <2>1, FS_Singleton, SameCardinality
<1>3. QED
  BY <1>1, <1>2

LEMMA InvSound == Setting /\ ServerInv => Server!HttpServerSound
<1> SUFFICES ASSUME Setting, ServerInv PROVE Server!HttpServerSound
  OBVIOUS
<1>1. Server!OneHolder
  <2> SUFFICES ASSUME NEW c \in Clients PROVE Server!Holders(c) = IF client[c].state = "connected" THEN 1 ELSE 0
    BY DEF Server!OneHolder
  <2> DEFINE B == {k \in DOMAIN backlog : backlog[k] = c}
             Q == {k \in DOMAIN tasks : tasks[k] = c}
             A == {t \in Server!Threads : at[t] = c}
  <2>1. (B # {} <=> In(backlog, c)) /\ (Q # {} <=> In(tasks, c)) /\ (A # {} <=> Served(c))
    BY DEF In, Served
  <2>2. Server!Cardinality(B) = IF B = {} THEN 0 ELSE 1
    BY OneOrNone DEF ServerInv, Placed, Distinct
  <2>3. Server!Cardinality(Q) = IF Q = {} THEN 0 ELSE 1
    BY OneOrNone DEF ServerInv, Placed, Distinct
  <2>4. Server!Cardinality(A) = IF A = {} THEN 0 ELSE 1
    BY OneOrNone DEF ServerInv, Placed, Setting
  <2>5. Server!Holders(c) = Server!Cardinality(B) + Server!Cardinality(Q) + Server!Cardinality(A)
    BY DEF Server!Holders
  <2>6. /\ ~(B # {} /\ Q # {}) /\ ~(B # {} /\ A # {}) /\ ~(Q # {} /\ A # {})
        /\ client[c].state = "connected" <=> B # {} \/ Q # {} \/ A # {}
    BY <2>1 DEF ServerInv, Placed
  <2> HIDE DEF B, Q, A
  <2>7. QED
    BY <2>2, <2>3, <2>4, <2>5, <2>6
<1>2. Server!NothingLeft
  <2> SUFFICES ASSUME serverPc["main"] = "returned", mode # "parallel"
               PROVE  tasks = <<>> /\ \A t \in Workers : serverPc[t] \in {"idle", "returned"}
    BY NoGap DEF Server!NothingLeft, Server!Gaps
  <2>1. CASE mode \in Server!Bosses
    BY <2>1 DEF ServerInv, ServerTyped, Server!TypeOK, Pooled, Roles, Server!Joined, Setting
  <2>2. CASE mode \notin Server!Bosses
    BY <2>2 DEF ServerInv, Pooled, Roles, ServerTyped, Server!TypeOK
  <2>3. QED
    BY <2>1, <2>2
<1>3. Server!CloseEnds /\ Server!ThrowIsLocal /\ Server!ListensAsSaid
  BY DEF ServerInv, Closed, Server!CloseEnds, Server!ThrowIsLocal, Server!ListensAsSaid
<1>4. Server!LastIsLast
  <2> SUFFICES ASSUME NEW t \in Server!Threads, serverPc[t] = "read", client[at[t]].last, client[at[t]].unread = 0 PROVE FALSE
    BY DEF Server!LastIsLast
  <2>1. at[t] \in Clients /\ at[t] # "none"
    BY DEF ServerInv, ServerTyped, Server!TypeOK, Placed, Holding
  <2>2. client[at[t]].state = "connected"
    BY <2>1 DEF ServerInv, Placed, Served
  <2>3. PICK u \in Server!Threads : at[u] = at[t] /\ serverPc[u] \in {"handle", "close"}
    BY <2>1, <2>2 DEF ServerInv, Closing
  <2>4. u = t
    BY <2>1, <2>3 DEF ServerInv, Placed
  <2>5. QED
    BY <2>3, <2>4
<1>5. QED
  BY <1>1, <1>2, <1>3, <1>4 DEF Server!HttpServerSound, ServerInv, ServerTyped

(* An accepted connection is somebody's and only his until it is closed, a *)
(* server that returns has nothing left, close() ends it, and a request    *)
(* that asks for the close is the last one read: net.HttpApp's and         *)
(* net.HttpServer's loops, for every number of clients, threads, requests  *)
(* and failures, where the known gaps are left out.                        *)
THEOREM ServerIsSound == ASSUME Setting PROVE Server!Spec => []Server!HttpServerSound
<1>1. Server!Init => ServerInv
  BY ServerInit
<1>2. ServerInv /\ [Server!Next]_(Server!vars) => ServerInv'
  BY ServerStep
<1>3. ServerInv => Server!HttpServerSound
  BY InvSound
<1>4. QED
  BY <1>1, <1>2, <1>3, PTL DEF Server!Spec

-----------------------------------------------------------------------------
(* The memory under the blocks.                                            *)

CONSTANTS Threads, Nobody, Spans, Classes, Slots, User, Recursive
VARIABLES class, bits, lists, index, blocks, doomed, pending, freelist, owner, leaked, collecting, th
Memory == INSTANCE SpanHeap WITH heap <- blocks

(* The cardinality SpanHeap counts with is the one of the theorems.        *)
LEMMA SameCount == \A S : Memory!Cardinality(S) = Cardinality(S)
  BY DEF Memory!Cardinality, Cardinality

(* What the constants are: the memory is finite, the mark of a place       *)
(* without a span is no class, and a span has a slot.                      *)
Memories ==
  /\ IsFiniteSet(Spans)
  /\ Memory!None \notin Classes \cup {0}
  /\ Slots \in [Classes \cup {0} -> Nat \ {0}]
  /\ User \in [Classes \cup {0} -> Nat]

SpanKinds == Classes \cup {0}

(* A span's taken slots are slots it has; a place without a span has none. *)
MappedIn(cl, bi) ==
  /\ cl \in [Spans -> SpanKinds \cup {Memory!None}]
  /\ bi \in [Spans -> SUBSET Nat]
  /\ \A s \in Spans : cl[s] = Memory!None => bi[s] = {}
  /\ \A s \in Spans : cl[s] # Memory!None => bi[s] \subseteq 0 .. Slots[cl[s]] - 1
Mapped == MappedIn(class, bits)

(* Where blocks are, and what threads do.                                  *)
Ats == {"idle", "pop", "collect", "valloc", "oom", "drain"}
Request == [at : Ats, class : SpanKinds, try : Nat]
Located ==
  /\ blocks \cup doomed \cup pending \subseteq Spans \X Nat
  /\ th \in [Threads -> Request]

(* The free bytes of each place, and of a set of places: as many as there  *)
(* are pairs of a place and a number up to its bytes.                      *)
FreeBytesIn(cl, bi) == [s \in Spans |-> IF cl[s] = Memory!None THEN 0
                                   ELSE User[cl[s]] * (Slots[cl[s]] - Memory!Cardinality(bi[s]))]
FreeBytes == FreeBytesIn(class, bits)
Cells(w, S) == {p \in S \X Nat : p[2] \in 1 .. w[p[1]]}
Total(w, S) == Memory!Cardinality(Cells(w, S))

Counted == freelist \in Nat /\ freelist = Total(FreeBytes, Spans)

MemoryInv == Mapped /\ Located /\ Memory!IndexSound /\ Memory!NoEmptySpan /\ Counted

---------------------------------------------------------------------------
(* Counting.                                                               *)

LEMMA CountType == ASSUME NEW S, IsFiniteSet(S) PROVE Memory!Cardinality(S) \in Nat
  BY FS_CardinalityType, SameCount

LEMMA CountEmpty == IsFiniteSet({}) /\ Memory!Cardinality({}) = 0
  BY FS_EmptySet, SameCount

LEMMA CountOne == \A x : IsFiniteSet({x}) /\ Memory!Cardinality({x}) = 1
  BY FS_Singleton, SameCount

LEMMA CountMore ==
  ASSUME NEW S, NEW x, IsFiniteSet(S), x \notin S
  PROVE  IsFiniteSet(S \cup {x}) /\ Memory!Cardinality(S \cup {x}) = Memory!Cardinality(S) + 1
  BY FS_AddElement, SameCount

LEMMA CountLess ==
  ASSUME NEW S, NEW x, IsFiniteSet(S), x \in S
  PROVE  IsFiniteSet(S \ {x}) /\ Memory!Cardinality(S \ {x}) = Memory!Cardinality(S) - 1
  BY FS_RemoveElement, SameCount

LEMMA CountBoth ==
  ASSUME NEW S, NEW T, IsFiniteSet(S), IsFiniteSet(T), S \cap T = {}
  PROVE  IsFiniteSet(S \cup T) /\ Memory!Cardinality(S \cup T) = Memory!Cardinality(S) + Memory!Cardinality(T)
<1>1. IsFiniteSet(S \cup T) /\ Memory!Cardinality(S \cup T) = Memory!Cardinality(S) + Memory!Cardinality(T) - Memory!Cardinality(S \cap T)
  BY FS_Union, SameCount
<1>2. Memory!Cardinality(S \cap T) = 0 /\ Memory!Cardinality(S) \in Nat /\ Memory!Cardinality(T) \in Nat
  BY CountEmpty, CountType
<1>3. QED
  BY <1>1, <1>2

LEMMA CountPart ==
  ASSUME NEW S, NEW T, IsFiniteSet(S), T \subseteq S
  PROVE  /\ IsFiniteSet(T) /\ Memory!Cardinality(T) <= Memory!Cardinality(S)
         /\ Memory!Cardinality(T) = Memory!Cardinality(S) => T = S
  BY FS_Subset, SameCount

LEMMA CountSlots ==
  ASSUME NEW n \in Nat
  PROVE  /\ IsFiniteSet(0 .. n - 1) /\ Memory!Cardinality(0 .. n - 1) = n
         /\ IsFiniteSet(1 .. n) /\ Memory!Cardinality(1 .. n) = n
<1>1. IsFiniteSet(0 .. n - 1) /\ Memory!Cardinality(0 .. n - 1) = IF 0 > n - 1 THEN 0 ELSE n - 1 - 0 + 1
  BY FS_Interval, SameCount
<1>2. IsFiniteSet(1 .. n) /\ Memory!Cardinality(1 .. n) = IF 1 > n THEN 0 ELSE n - 1 + 1
  BY FS_Interval, SameCount
<1>3. QED
  BY <1>1, <1>2

---------------------------------------------------------------------------
(* Sums over places.                                                       *)

LEMMA CellsOfOne ==
  ASSUME NEW A, NEW w \in [A -> Nat], NEW x \in A
  PROVE  IsFiniteSet(Cells(w, {x})) /\ Memory!Cardinality(Cells(w, {x})) = w[x]
<1> DEFINE f == [i \in 1 .. w[x] |-> <<x, i>>]
<1>1. w[x] \in Nat
  OBVIOUS
<1>2. \A i \in 1 .. w[x] : f[i] \in Cells(w, {x})
  BY <1>1 DEF Cells
<1>3. \A p \in Cells(w, {x}) : p[2] \in 1 .. w[x] /\ f[p[2]] = p
  BY <1>1 DEF Cells
<1>4. \A i, j \in 1 .. w[x] : f[i] = f[j] => i = j
  OBVIOUS
<1>5. f \in [1 .. w[x] -> Cells(w, {x})]
  BY <1>2
<1>6. f \in Bijection(1 .. w[x], Cells(w, {x}))
  <2> HIDE DEF f
  <2>1. f \in Injection(1 .. w[x], Cells(w, {x}))
    BY <1>4, <1>5 DEF Injection, IsInjective
  <2>2. \A p \in Cells(w, {x}) : \E i \in 1 .. w[x] : f[i] = p
    BY <1>3
  <2>3. f \in Surjection(1 .. w[x], Cells(w, {x}))
    BY <1>5, <2>2 DEF Surjection
  <2>4. QED
    BY <2>1, <2>3 DEF Bijection
<1>7. ExistsBijection(1 .. w[x], Cells(w, {x}))
  BY <1>6 DEF ExistsBijection
<1>8. IsFiniteSet(1 .. w[x]) /\ Memory!Cardinality(1 .. w[x]) = w[x]
  BY <1>1, CountSlots
<1>9. QED
  BY <1>7, <1>8, FS_Bijection, SameCount

LEMMA CellsOfNone == \A w : Cells(w, {}) = {}
  BY DEF Cells

LEMMA CellsSplit ==
  ASSUME NEW w, NEW S, NEW x \in S
  PROVE  /\ Cells(w, S) = Cells(w, S \ {x}) \cup Cells(w, {x})
         /\ Cells(w, S \ {x}) \cap Cells(w, {x}) = {}
<1>1. \A p \in Cells(w, S) : p \in Cells(w, S \ {x}) \cup Cells(w, {x})
  BY DEF Cells
<1>2. \A p \in Cells(w, S \ {x}) \cup Cells(w, {x}) : p \in Cells(w, S)
  BY DEF Cells
<1>3. \A p \in Cells(w, S \ {x}) : p \notin Cells(w, {x})
  BY DEF Cells
<1>4. QED
  BY <1>1, <1>2, <1>3

(* The cells of a finite set of places are finitely many.                  *)
LEMMA CellsFinite ==
  ASSUME NEW A, IsFiniteSet(A), NEW w \in [A -> Nat]
  PROVE  \A S \in SUBSET A : IsFiniteSet(Cells(w, S))
<1> DEFINE Bad == {S \in SUBSET A : ~IsFiniteSet(Cells(w, S))}
<1> DEFINE N == {Memory!Cardinality(S) : S \in Bad}
<1>1. SUFFICES ASSUME Bad # {} PROVE FALSE
  OBVIOUS
<1>2. \A S \in SUBSET A : IsFiniteSet(S) /\ Memory!Cardinality(S) \in Nat
  BY CountPart, CountType
<1>3. N \subseteq Nat /\ N # {}
  BY <1>1, <1>2
<1>4. PICK n \in N : \A m \in N : n <= m
  <2> HIDE DEF N
  <2>1. QED
    BY <1>3, LeastNatural
<1>5. PICK S \in Bad : Memory!Cardinality(S) = n
  OBVIOUS
<1>6. S # {}
  BY <1>5, CellsOfNone, CountEmpty
<1>7. PICK x : x \in S
  BY <1>6
<1>8. x \in A /\ S \ {x} \in SUBSET A /\ IsFiniteSet(S) /\ Memory!Cardinality(S) \in Nat
  BY <1>2, <1>7
<1>9. Memory!Cardinality(S \ {x}) = Memory!Cardinality(S) - 1
  BY <1>7, <1>8, CountLess
<1>10. S \ {x} \notin Bad
  <2>1. ASSUME S \ {x} \in Bad PROVE FALSE
    <3>1. Memory!Cardinality(S \ {x}) \in N
      BY <2>1
    <3>2. n <= Memory!Cardinality(S \ {x})
      BY <1>4, <3>1
    <3>3. QED
      BY <1>5, <1>8, <1>9, <3>2
  <2>2. QED
    BY <2>1
<1>11. IsFiniteSet(Cells(w, S \ {x}))
  BY <1>8, <1>10
<1>12. IsFiniteSet(Cells(w, {x}))
  BY <1>8, CellsOfOne
<1>13. IsFiniteSet(Cells(w, S))
  <2>1. /\ Cells(w, S) = Cells(w, S \ {x}) \cup Cells(w, {x})
        /\ Cells(w, S \ {x}) \cap Cells(w, {x}) = {}
    BY <1>7, CellsSplit
  <2>2. IsFiniteSet(Cells(w, S \ {x}) \cup Cells(w, {x}))
    BY <1>11, <1>12, <2>1, CountBoth
  <2>3. QED
    BY <2>1, <2>2
<1>14. QED
  BY <1>5, <1>13

(* The total is that of all places but one, and that one.                  *)
LEMMA TotalSplit ==
  ASSUME NEW A, IsFiniteSet(A), NEW w \in [A -> Nat], NEW S \in SUBSET A, NEW x \in S
  PROVE  /\ Total(w, S \ {x}) \in Nat
         /\ w[x] \in Nat
         /\ Total(w, S) = w[x] + Total(w, S \ {x})
<1>1. x \in A /\ S \ {x} \in SUBSET A
  OBVIOUS
<1>2. IsFiniteSet(Cells(w, S \ {x}))
  BY <1>1, CellsFinite
<1>3. IsFiniteSet(Cells(w, {x})) /\ Memory!Cardinality(Cells(w, {x})) = w[x]
  BY <1>1, CellsOfOne
<1>4. Memory!Cardinality(Cells(w, S)) = Memory!Cardinality(Cells(w, S \ {x})) + Memory!Cardinality(Cells(w, {x}))
  <2>1. /\ Cells(w, S) = Cells(w, S \ {x}) \cup Cells(w, {x})
        /\ Cells(w, S \ {x}) \cap Cells(w, {x}) = {}
    BY CellsSplit
  <2>2. Memory!Cardinality(Cells(w, S \ {x}) \cup Cells(w, {x})) = Memory!Cardinality(Cells(w, S \ {x})) + Memory!Cardinality(Cells(w, {x}))
    BY <1>2, <1>3, <2>1, CountBoth
  <2>3. QED
    BY <2>1, <2>2
<1>5. Memory!Cardinality(Cells(w, S \ {x})) \in Nat
  BY <1>2, CountType
<1>6. w[x] \in Nat
  BY <1>1
<1>7. QED
  BY <1>3, <1>4, <1>5, <1>6 DEF Total

LEMMA TotalOfNone == \A w : Total(w, {}) = 0
  BY CellsOfNone, CountEmpty DEF Total

(* A change of one place changes the total by as much.                     *)
LEMMA TotalChange ==
  ASSUME NEW A, IsFiniteSet(A), NEW w \in [A -> Nat], NEW v \in [A -> Nat], NEW x \in A,
         \A y \in A \ {x} : v[y] = w[y]
  PROVE  \E rest \in Nat : /\ Total(w, A) = w[x] + rest
                           /\ Total(v, A) = v[x] + rest
<1>1. Cells(w, A \ {x}) = Cells(v, A \ {x})
  <2>1. \A p \in Cells(w, A \ {x}) : p \in Cells(v, A \ {x})
    BY DEF Cells
  <2>2. \A p \in Cells(v, A \ {x}) : p \in Cells(w, A \ {x})
    BY DEF Cells
  <2>3. QED
    BY <2>1, <2>2
<1>2. Total(w, A \ {x}) = Total(v, A \ {x})
  BY <1>1 DEF Total
<1>3. A \in SUBSET A
  OBVIOUS
<1>4. Total(w, A) = w[x] + Total(w, A \ {x}) /\ Total(w, A \ {x}) \in Nat
  BY <1>3, TotalSplit
<1>5. Total(v, A) = v[x] + Total(v, A \ {x})
  BY <1>3, TotalSplit
<1>6. QED
  BY <1>2, <1>4, <1>5

(* Places that count for nothing do not change the total.                  *)
LEMMA TotalOfSome ==
  ASSUME NEW A, NEW w \in [A -> Nat], NEW S \in SUBSET A, \A y \in A \ S : w[y] = 0
  PROVE  Total(w, A) = Total(w, S)
<1>1. \A p \in Cells(w, A) : p \in Cells(w, S)
  <2>1. ASSUME NEW p \in Cells(w, A) PROVE p \in Cells(w, S)
    <3>1. p \in A \X Nat /\ p[2] \in 1 .. w[p[1]] /\ p[1] \in A
      BY DEF Cells
    <3>2. w[p[1]] # 0
      BY <3>1
    <3>3. p[1] \in S
      BY <3>1, <3>2
    <3>4. QED
      BY <3>1, <3>3 DEF Cells
  <2>2. QED
    BY <2>1
<1>2. \A p \in Cells(w, S) : p \in Cells(w, A)
  BY DEF Cells
<1>3. Cells(w, A) = Cells(w, S)
  BY <1>1, <1>2
<1>4. QED
  BY <1>3 DEF Total

---------------------------------------------------------------------------
(* What FreelistExact adds up is the total.                                *)

UsedSpans == {s \in Spans : class[s] # Memory!None}
Summed(f) == [s \in SUBSET UsedSpans |->
               IF s = {} THEN 0
               ELSE LET x == CHOOSE x \in s : TRUE
                    IN User[class[x]] * (Slots[class[x]] - Memory!Cardinality(bits[x])) + f[s \ {x}]]
Sum == CHOOSE f : f = Summed(f)

LEMMA ExactIsSum == Memory!FreelistExact <=> freelist = Sum[UsedSpans]
  BY DEF Memory!FreelistExact, UsedSpans, Memory!MapThenSumSet, Memory!MapThenFoldSet, Sum, Summed

(* The free bytes of a place are a natural number.                         *)
LEMMA OpenTyped ==
  ASSUME Memories
  PROVE  \A cl, bi : MappedIn(cl, bi) =>
           /\ FreeBytesIn(cl, bi) \in [Spans -> Nat]
           /\ \A s \in Spans : IsFiniteSet(bi[s]) /\ Memory!Cardinality(bi[s]) \in Nat
<1>0. SUFFICES ASSUME NEW cl, NEW bi, MappedIn(cl, bi)
      PROVE  /\ FreeBytesIn(cl, bi) \in [Spans -> Nat]
             /\ \A s \in Spans : IsFiniteSet(bi[s]) /\ Memory!Cardinality(bi[s]) \in Nat
  OBVIOUS
<1>1. ASSUME NEW s \in Spans, cl[s] # Memory!None
      PROVE  /\ IsFiniteSet(bi[s]) /\ Memory!Cardinality(bi[s]) \in Nat
             /\ User[cl[s]] * (Slots[cl[s]] - Memory!Cardinality(bi[s])) \in Nat
  <2>1. cl[s] \in SpanKinds /\ bi[s] \subseteq 0 .. Slots[cl[s]] - 1
    BY <1>0, <1>1 DEF MappedIn
  <2>2. Slots[cl[s]] \in Nat /\ User[cl[s]] \in Nat
    BY <2>1 DEF Memories, SpanKinds
  <2>3. IsFiniteSet(0 .. Slots[cl[s]] - 1) /\ Memory!Cardinality(0 .. Slots[cl[s]] - 1) = Slots[cl[s]]
    BY <2>2, CountSlots
  <2>4. IsFiniteSet(bi[s]) /\ Memory!Cardinality(bi[s]) <= Slots[cl[s]]
    BY <2>1, <2>3, CountPart
  <2>5. Memory!Cardinality(bi[s]) \in Nat
    BY <2>4, CountType
  <2>6. Slots[cl[s]] - Memory!Cardinality(bi[s]) \in Nat
    BY <2>2, <2>4, <2>5
  <2>7. \A a, b \in Nat : a * b \in Nat
    OBVIOUS
  <2>8. User[cl[s]] * (Slots[cl[s]] - Memory!Cardinality(bi[s])) \in Nat
    BY <2>2, <2>6, <2>7
  <2>9. QED
    BY <2>4, <2>5, <2>8
<1>2. ASSUME NEW s \in Spans, cl[s] = Memory!None PROVE IsFiniteSet(bi[s]) /\ Memory!Cardinality(bi[s]) \in Nat
  <2>1. bi[s] = {}
    BY <1>0, <1>2 DEF MappedIn
  <2>2. QED
    BY <2>1, CountEmpty
<1>3. ASSUME NEW s \in Spans
      PROVE  (IF cl[s] = Memory!None THEN 0 ELSE User[cl[s]] * (Slots[cl[s]] - Memory!Cardinality(bi[s]))) \in Nat
  BY <1>1
<1>4. FreeBytesIn(cl, bi) \in [Spans -> Nat]
  BY <1>3 DEF FreeBytesIn
<1>5. QED
  BY <1>1, <1>2, <1>4

(* Free bytes, when one place changes.                                     *)
Apart(a, b, c, d) == \E rest \in Nat : a = c + rest /\ b = d + rest

LEMMA OpenChange ==
  ASSUME Memories
  PROVE  \A cl, bi, cm, bj : MappedIn(cl, bi) /\ MappedIn(cm, bj) =>
           \A x \in Spans : (\A y \in Spans \ {x} : cm[y] = cl[y] /\ bj[y] = bi[y]) =>
             Apart(Total(FreeBytesIn(cl, bi), Spans), Total(FreeBytesIn(cm, bj), Spans), FreeBytesIn(cl, bi)[x], FreeBytesIn(cm, bj)[x])
<1>0. SUFFICES ASSUME NEW cl, NEW bi, NEW cm, NEW bj, MappedIn(cl, bi), MappedIn(cm, bj),
                      NEW x \in Spans, \A y \in Spans \ {x} : cm[y] = cl[y] /\ bj[y] = bi[y]
      PROVE  Apart(Total(FreeBytesIn(cl, bi), Spans), Total(FreeBytesIn(cm, bj), Spans), FreeBytesIn(cl, bi)[x], FreeBytesIn(cm, bj)[x])
  OBVIOUS
<1>1. FreeBytesIn(cl, bi) \in [Spans -> Nat]
  BY <1>0, OpenTyped
<1>2. FreeBytesIn(cm, bj) \in [Spans -> Nat]
  BY <1>0, OpenTyped
<1>3. \A y \in Spans \ {x} : FreeBytesIn(cm, bj)[y] = FreeBytesIn(cl, bi)[y]
  BY <1>0 DEF FreeBytesIn
<1>4. IsFiniteSet(Spans)
  BY DEF Memories
<1>5. QED
  BY <1>1, <1>2, <1>3, <1>4, TotalChange DEF Apart

LEMMA SumIsTotal ==
  ASSUME Memories, Mapped
  PROVE  Sum[UsedSpans] = Total(FreeBytes, Spans)
<1> DEFINE g == [s \in SUBSET UsedSpans |-> Total(FreeBytes, s)]
<1>1. FreeBytes \in [Spans -> Nat] /\ IsFiniteSet(Spans) /\ UsedSpans \subseteq Spans
  BY OpenTyped DEF Memories, UsedSpans, Mapped, FreeBytes
<1>2. \A x \in UsedSpans : FreeBytes[x] = User[class[x]] * (Slots[class[x]] - Memory!Cardinality(bits[x]))
  BY DEF FreeBytes, FreeBytesIn, UsedSpans
<1>3. ASSUME NEW s \in SUBSET UsedSpans, s # {}, NEW x \in s
      PROVE  /\ Total(FreeBytes, s) = User[class[x]] * (Slots[class[x]] - Memory!Cardinality(bits[x])) + Total(FreeBytes, s \ {x})
             /\ s \ {x} \in SUBSET UsedSpans
  <2>1. s \in SUBSET Spans /\ x \in UsedSpans
    BY <1>1
  <2>2. Total(FreeBytes, s) = FreeBytes[x] + Total(FreeBytes, s \ {x})
    BY <1>1, <2>1, TotalSplit
  <2>3. QED
    BY <1>2, <2>1, <2>2
<1>4. g = Summed(g)
  <2>1. ASSUME NEW s \in SUBSET UsedSpans
        PROVE  g[s] = Summed(g)[s]
    <3>1. CASE s = {}
      BY <3>1, TotalOfNone DEF Summed
    <3>2. CASE s # {}
      <4> DEFINE x == CHOOSE x \in s : TRUE
      <4>1. x \in s
        BY <3>2
      <4>2. Summed(g)[s] = User[class[x]] * (Slots[class[x]] - Memory!Cardinality(bits[x])) + g[s \ {x}]
        BY <3>2 DEF Summed
      <4> HIDE DEF x
      <4>3. Total(FreeBytes, s) = User[class[x]] * (Slots[class[x]] - Memory!Cardinality(bits[x])) + Total(FreeBytes, s \ {x})
        BY <1>3, <3>2, <4>1
      <4>4. s \ {x} \in SUBSET UsedSpans
        OBVIOUS
      <4>5. g[s \ {x}] = Total(FreeBytes, s \ {x}) /\ g[s] = Total(FreeBytes, s)
        BY <4>4
      <4>6. QED
        BY <4>2, <4>3, <4>5
    <3>3. QED
      BY <3>1, <3>2
  <2>2. Summed(g) = [s \in SUBSET UsedSpans |-> Summed(g)[s]] /\ g = [s \in SUBSET UsedSpans |-> g[s]]
    BY DEF Summed
  <2>3. QED
    BY <2>1, <2>2
<1>5. Sum = Summed(Sum)
  <2> HIDE DEF g
  <2>1. QED
    BY <1>4 DEF Sum
<1> HIDE DEF g
<1>6. ASSUME NEW s \in SUBSET UsedSpans, s # {}
      PROVE  \E x \in s : Sum[s] = User[class[x]] * (Slots[class[x]] - Memory!Cardinality(bits[x])) + Sum[s \ {x}]
  <2> DEFINE x == CHOOSE x \in s : TRUE
  <2>1. x \in s
    BY <1>6
  <2>2. Summed(Sum)[s] = User[class[x]] * (Slots[class[x]] - Memory!Cardinality(bits[x])) + Sum[s \ {x}]
    BY <1>6 DEF Summed
  <2>3. Sum[s] = Summed(Sum)[s]
    BY <1>5
  <2> HIDE DEF x
  <2>4. QED
    BY <2>1, <2>2, <2>3
<1>7. Sum[{}] = 0
  <2>1. Summed(Sum)[{}] = 0
    BY DEF Summed
  <2>2. Sum[{}] = Summed(Sum)[{}]
    BY <1>5
  <2>3. QED
    BY <2>1, <2>2
<1>8. \A s \in SUBSET UsedSpans : IsFiniteSet(s) /\ Memory!Cardinality(s) \in Nat
  BY <1>1, CountPart, CountType
<1> DEFINE Off == {s \in SUBSET UsedSpans : Sum[s] # Total(FreeBytes, s)}
<1> DEFINE N == {Memory!Cardinality(s) : s \in Off}
<1>9. Off = {}
  <2>1. SUFFICES ASSUME Off # {} PROVE FALSE
    OBVIOUS
  <2>2. N \subseteq Nat /\ N # {}
    BY <1>8, <2>1
  <2>3. PICK n \in N : \A m \in N : n <= m
    <3> HIDE DEF N
    <3>1. QED
      BY <2>2, LeastNatural
  <2>4. PICK s \in Off : Memory!Cardinality(s) = n
    OBVIOUS
  <2>5. s \in SUBSET UsedSpans /\ s # {}
    BY <1>7, TotalOfNone
  <2>6. PICK x \in s : Sum[s] = User[class[x]] * (Slots[class[x]] - Memory!Cardinality(bits[x])) + Sum[s \ {x}]
    BY <1>6, <2>5
  <2>7. /\ Total(FreeBytes, s) = User[class[x]] * (Slots[class[x]] - Memory!Cardinality(bits[x])) + Total(FreeBytes, s \ {x})
        /\ s \ {x} \in SUBSET UsedSpans
    BY <1>3, <2>5
  <2>8. Sum[s \ {x}] # Total(FreeBytes, s \ {x})
    BY <2>4, <2>6, <2>7
  <2>9. s \ {x} \in Off
    BY <2>7, <2>8
  <2>10. n <= Memory!Cardinality(s \ {x})
    BY <2>3, <2>9
  <2>11. Memory!Cardinality(s \ {x}) = Memory!Cardinality(s) - 1 /\ Memory!Cardinality(s) \in Nat
    BY <1>8, <2>5, CountLess
  <2>12. QED
    BY <2>4, <2>10, <2>11
<1>10. Sum[UsedSpans] = Total(FreeBytes, UsedSpans)
  BY <1>9
<1>11. Total(FreeBytes, Spans) = Total(FreeBytes, UsedSpans)
  <2>1. \A y \in Spans \ UsedSpans : FreeBytes[y] = 0
    BY DEF FreeBytes, FreeBytesIn, UsedSpans
  <2>2. UsedSpans \in SUBSET Spans
    BY <1>1
  <2>3. QED
    BY <1>1, <2>1, <2>2, TotalOfSome
<1>12. QED
  BY <1>10, <1>11

---------------------------------------------------------------------------
(* The allocator's steps.                                                  *)

Taken(p) == class[p[1]] # Memory!None /\ p[2] \in bits[p[1]]

LEMMA LowSlotIsFree ==
  ASSUME Memories, Mapped, NEW c \in SpanKinds, NEW x \in Memory!Usable(c)
  PROVE  /\ x \in Spans /\ class[x] = c /\ class[x] # Memory!None
         /\ Memory!LowSlot(x) \in 0 .. Slots[c] - 1 /\ Memory!LowSlot(x) \notin bits[x]
         /\ Slots[c] \in Nat /\ User[c] \in Nat
         /\ IsFiniteSet(bits[x]) /\ Memory!Cardinality(bits[x]) \in Nat /\ Memory!Cardinality(bits[x]) < Slots[c]
<1>1. x \in Spans /\ class[x] = c /\ class[x] # Memory!None /\ Memory!Cardinality(bits[x]) < Slots[c]
  BY DEF Memory!Usable, Memories, SpanKinds
<1>2. Slots[c] \in Nat /\ User[c] \in Nat
  BY DEF Memories, SpanKinds
<1>3. IsFiniteSet(bits[x]) /\ Memory!Cardinality(bits[x]) \in Nat
  <2>1. MappedIn(class, bits)
    BY DEF Mapped
  <2>2. \A y \in Spans : IsFiniteSet(bits[y]) /\ Memory!Cardinality(bits[y]) \in Nat
    BY <2>1, OpenTyped
  <2>3. QED
    BY <1>1, <2>2
<1>4. Memory!Cardinality(0 .. Slots[c] - 1) = Slots[c]
  BY <1>2, CountSlots
<1>5. bits[x] \subseteq 0 .. Slots[c] - 1
  BY <1>1 DEF Mapped, MappedIn
<1>6. bits[x] # 0 .. Slots[c] - 1
  BY <1>1, <1>2, <1>3, <1>4
<1> DEFINE R == (0 .. Slots[c] - 1) \ bits[x]
<1>7. R # {} /\ R \subseteq Nat
  <2>1. R # {}
    BY <1>5, <1>6
  <2>2. R \subseteq Nat
    BY <1>2
  <2>3. QED
    BY <2>1, <2>2
<1>8. Memory!LowSlot(x) = Memory!Min(R)
  BY <1>1 DEF Memory!LowSlot
<1>9. Memory!Min(R) \in R
  <2> HIDE DEF R
  <2>1. \E y \in R : \A z \in R : y =< z
    BY <1>7, LeastNatural
  <2>2. QED
    BY <2>1 DEF Memory!Min
<1>10. QED
  BY <1>1, <1>2, <1>3, <1>8, <1>9

(* gc_span_pop_locked finds a span with a free slot.                       *)
LEMMA PopFinds ==
  ASSUME NEW c, Memory!SelectInSeq(lists[c], LAMBDA y : y \in Memory!Usable(c)) # 0
  PROVE  lists[c][Memory!SelectInSeq(lists[c], LAMBDA y : y \in Memory!Usable(c))] \in Memory!Usable(c)
<1> DEFINE I == {i \in 1 .. Len(lists[c]) : lists[c][i] \in Memory!Usable(c)}
<1>1. /\ I # {}
      /\ Memory!SelectInSeq(lists[c], LAMBDA y : y \in Memory!Usable(c)) = Memory!Min(I)
  BY DEF Memory!SelectInSeq
<1>2. I \subseteq Nat
  OBVIOUS
<1>3. Memory!Min(I) \in I
  <2> HIDE DEF I
  <2>1. \E y \in I : \A z \in I : y =< z
    BY <1>1, <1>2, LeastNatural
  <2>2. QED
    BY <2>1 DEF Memory!Min
<1>4. lists[c][Memory!Min(I)] \in Memory!Usable(c)
  BY <1>3
<1> HIDE DEF I
<1>5. QED
  BY <1>1, <1>4

LEMMA PopKeeps ==
  ASSUME Memories, Mapped, Memory!NoEmptySpan, Counted, NEW c \in SpanKinds, NEW x \in Memory!Usable(c),
         class' = class, bits' = [bits EXCEPT ![x] = @ \cup {Memory!LowSlot(x)}], freelist' = Memory!Lowered(User[c])
  PROVE  Mapped' /\ Memory!NoEmptySpan' /\ Counted'
<1>1. /\ x \in Spans /\ class[x] = c /\ class[x] # Memory!None
      /\ Memory!LowSlot(x) \in 0 .. Slots[c] - 1 /\ Memory!LowSlot(x) \notin bits[x]
      /\ Slots[c] \in Nat /\ User[c] \in Nat
      /\ IsFiniteSet(bits[x]) /\ Memory!Cardinality(bits[x]) \in Nat /\ Memory!Cardinality(bits[x]) < Slots[c]
  BY LowSlotIsFree
<1> DEFINE k == Memory!LowSlot(x)
<1> HIDE DEF k
<1>2. k \in Nat /\ k \in 0 .. Slots[c] - 1 /\ k \notin bits[x] /\ bits' = [bits EXCEPT ![x] = @ \cup {k}]
  BY <1>1 DEF k
<1>3. bits \in [Spans -> SUBSET Nat] /\ class \in [Spans -> SpanKinds \cup {Memory!None}]
  BY DEF Mapped, MappedIn
<1>4. /\ bits' \in [Spans -> SUBSET Nat] /\ bits'[x] = bits[x] \cup {k}
      /\ \A y \in Spans \ {x} : bits'[y] = bits[y]
  BY <1>1, <1>2, <1>3
<1>5. MappedIn(class', bits')
  <2>1. \A s \in Spans : class'[s] = Memory!None => bits'[s] = {}
    BY <1>1, <1>4 DEF Mapped, MappedIn
  <2>2. ASSUME NEW s \in Spans, class'[s] # Memory!None PROVE bits'[s] \subseteq 0 .. Slots[class'[s]] - 1
    <3>1. bits[s] \subseteq 0 .. Slots[class[s]] - 1
      BY <2>2 DEF Mapped, MappedIn
    <3>2. CASE s = x
      BY <1>1, <1>2, <1>4, <3>1, <3>2
    <3>3. CASE s # x
      BY <1>4, <3>1, <3>3
    <3>4. QED
      BY <3>2, <3>3
  <2>3. QED
    BY <1>3, <1>4, <2>1, <2>2 DEF MappedIn
<1>6. Memory!NoEmptySpan'
  BY <1>4 DEF Memory!NoEmptySpan
<1>7. Memory!Cardinality(bits'[x]) = Memory!Cardinality(bits[x]) + 1
  BY <1>1, <1>2, <1>4, CountMore
<1>8. PICK rest \in Nat : /\ Total(FreeBytesIn(class, bits), Spans) = FreeBytesIn(class, bits)[x] + rest
                          /\ Total(FreeBytesIn(class', bits'), Spans) = FreeBytesIn(class', bits')[x] + rest
  <2>1. MappedIn(class, bits)
    BY DEF Mapped
  <2>2. \A y \in Spans \ {x} : class'[y] = class[y] /\ bits'[y] = bits[y]
    BY <1>4
  <2>3. x \in Spans
    BY <1>1
  <2>4. Apart(Total(FreeBytesIn(class, bits), Spans), Total(FreeBytesIn(class', bits'), Spans), FreeBytesIn(class, bits)[x], FreeBytesIn(class', bits')[x])
    BY <1>5, <2>1, <2>2, <2>3, OpenChange
  <2>5. QED
    BY <2>4 DEF Apart
<1>9. /\ FreeBytesIn(class, bits)[x] = User[c] * (Slots[c] - Memory!Cardinality(bits[x]))
      /\ FreeBytesIn(class', bits')[x] = User[c] * (Slots[c] - Memory!Cardinality(bits'[x]))
  BY <1>1 DEF FreeBytesIn
<1>10. FreeBytesIn(class, bits)[x] = FreeBytesIn(class', bits')[x] + User[c] /\ FreeBytesIn(class', bits')[x] \in Nat
  <2>1. \A u, m \in Nat : u * (m + 1) = u * m + u /\ u * m \in Nat
    OBVIOUS
  <2>2. PICK m \in Nat : Slots[c] - Memory!Cardinality(bits'[x]) = m /\ Slots[c] - Memory!Cardinality(bits[x]) = m + 1
    BY <1>1, <1>7
  <2>3. User[c] * (m + 1) = User[c] * m + User[c] /\ User[c] * m \in Nat
    BY <1>1, <2>1
  <2>4. /\ FreeBytesIn(class, bits)[x] = User[c] * (m + 1)
        /\ FreeBytesIn(class', bits')[x] = User[c] * m
    BY <1>9, <2>2
  <2>5. QED
    BY <2>3, <2>4
<1>11. Counted'
  <2>1. freelist \in Nat /\ freelist = FreeBytesIn(class, bits)[x] + rest
    BY <1>8 DEF Counted, FreeBytes
  <2>2. freelist' = FreeBytesIn(class', bits')[x] + rest
    BY <1>1, <1>10, <2>1 DEF Memory!Lowered
  <2>3. freelist' = Total(FreeBytesIn(class', bits'), Spans) /\ freelist' \in Nat
    BY <1>8, <1>10, <2>2
  <2>4. QED
    BY <2>3 DEF Counted, FreeBytes
<1>12. QED
  BY <1>5, <1>6, <1>11 DEF Mapped

(* A new span, its first slot taken.                                       *)
LEMMA MapKeeps ==
  ASSUME Memories, Mapped, Memory!NoEmptySpan, Counted, NEW c \in SpanKinds, NEW x \in Spans, class[x] = Memory!None,
         class' = [class EXCEPT ![x] = c], bits' = [bits EXCEPT ![x] = {0}],
         freelist' = IF freelist + Slots[c] * User[c] >= User[c] THEN (freelist + Slots[c] * User[c]) - User[c] ELSE 0
  PROVE  /\ Mapped' /\ Memory!NoEmptySpan' /\ Counted'
         /\ class'[x] # Memory!None /\ bits'[x] = {0}
         /\ \A y \in Spans \ {x} : class'[y] = class[y] /\ bits'[y] = bits[y]
<1>1. Slots[c] \in Nat /\ Slots[c] # 0 /\ User[c] \in Nat /\ c # Memory!None
  BY DEF Memories, SpanKinds
<1>2. bits \in [Spans -> SUBSET Nat] /\ class \in [Spans -> SpanKinds \cup {Memory!None}]
  BY DEF Mapped, MappedIn
<1>3. /\ bits' \in [Spans -> SUBSET Nat] /\ class' \in [Spans -> SpanKinds \cup {Memory!None}]
      /\ bits'[x] = {0} /\ class'[x] = c
      /\ \A y \in Spans \ {x} : class'[y] = class[y] /\ bits'[y] = bits[y]
  <2>1. {0} \in SUBSET Nat
    OBVIOUS
  <2>2. QED
    BY <1>2, <2>1
<1>4. MappedIn(class', bits')
  <2>1. ASSUME NEW s \in Spans, class'[s] = Memory!None PROVE bits'[s] = {}
    <3>1. s # x
      BY <1>1, <1>3, <2>1
    <3>2. QED
      BY <1>3, <2>1, <3>1 DEF Mapped, MappedIn
  <2>2. ASSUME NEW s \in Spans, class'[s] # Memory!None PROVE bits'[s] \subseteq 0 .. Slots[class'[s]] - 1
    <3>1. CASE s = x
      <4>1. 0 \in 0 .. Slots[c] - 1
        BY <1>1
      <4>2. QED
        BY <1>3, <3>1, <4>1
    <3>2. CASE s # x
      BY <1>3, <2>2, <3>2 DEF Mapped, MappedIn
    <3>3. QED
      BY <3>1, <3>2
  <2>3. QED
    BY <1>3, <2>1, <2>2 DEF MappedIn
<1>5. Memory!NoEmptySpan'
  <2>1. ASSUME NEW s \in Spans, class'[s] # Memory!None PROVE bits'[s] # {}
    <3>1. CASE s = x
      BY <1>3, <3>1
    <3>2. CASE s # x
      BY <1>3, <2>1, <3>2 DEF Memory!NoEmptySpan
    <3>3. QED
      BY <3>1, <3>2
  <2>2. QED
    BY <2>1 DEF Memory!NoEmptySpan
<1>6. PICK rest \in Nat : /\ Total(FreeBytesIn(class, bits), Spans) = FreeBytesIn(class, bits)[x] + rest
                          /\ Total(FreeBytesIn(class', bits'), Spans) = FreeBytesIn(class', bits')[x] + rest
  <2>1. MappedIn(class, bits)
    BY DEF Mapped
  <2>2. \A y \in Spans \ {x} : class'[y] = class[y] /\ bits'[y] = bits[y]
    BY <1>3
  <2>3. Apart(Total(FreeBytesIn(class, bits), Spans), Total(FreeBytesIn(class', bits'), Spans), FreeBytesIn(class, bits)[x], FreeBytesIn(class', bits')[x])
    BY <1>4, <2>1, <2>2, OpenChange
  <2>4. QED
    BY <2>3 DEF Apart
<1>7. /\ FreeBytesIn(class, bits)[x] = 0
      /\ FreeBytesIn(class', bits')[x] = User[c] * (Slots[c] - 1)
  <2>1. Memory!Cardinality(bits'[x]) = 1
    BY <1>3, CountOne
  <2>2. QED
    BY <1>1, <1>3, <2>1 DEF FreeBytesIn
<1>8. /\ User[c] * (Slots[c] - 1) \in Nat
      /\ Slots[c] * User[c] = User[c] * (Slots[c] - 1) + User[c]
  <2>1. \A u, m \in Nat : (m + 1) * u = u * m + u /\ u * m \in Nat
    OBVIOUS
  <2>2. PICK m \in Nat : Slots[c] = m + 1 /\ Slots[c] - 1 = m
    BY <1>1
  <2>3. (m + 1) * User[c] = User[c] * m + User[c] /\ User[c] * m \in Nat
    BY <1>1, <2>1
  <2>4. QED
    BY <2>2, <2>3
<1>9. Counted'
  <2>1. freelist \in Nat /\ freelist = rest
    BY <1>6, <1>7 DEF Counted, FreeBytes
  <2>2. freelist' = User[c] * (Slots[c] - 1) + rest
    <3>1. freelist + Slots[c] * User[c] >= User[c]
      BY <1>1, <1>8, <2>1
    <3>2. freelist' = (freelist + Slots[c] * User[c]) - User[c]
      BY <3>1
    <3>3. QED
      BY <1>1, <1>8, <2>1, <3>2
  <2>3. freelist' = Total(FreeBytesIn(class', bits'), Spans) /\ freelist' \in Nat
    <3>1. PICK z \in Nat : z = User[c] * (Slots[c] - 1)
      BY <1>8
    <3>2. freelist' = z + rest /\ Total(FreeBytesIn(class', bits'), Spans) = z + rest
      BY <1>6, <1>7, <2>2, <3>1
    <3>3. QED
      BY <3>2
  <2>4. QED
    BY <2>3 DEF Counted, FreeBytes
<1>10. QED
  BY <1>1, <1>3, <1>4, <1>5, <1>9 DEF Mapped

(* gc_span_push_locked: the slot is given back, with its span if that was  *)
(* the last.                                                               *)
LEMMA PushKeeps ==
  ASSUME Memories, Mapped, Memory!NoEmptySpan, Counted, NEW b \in Spans \X Nat, Taken(b), Memory!Push(b)
  PROVE  /\ Mapped' /\ Memory!NoEmptySpan' /\ Counted'
         /\ \A p \in Spans \X Nat : p # b /\ Taken(p) => class'[p[1]] # Memory!None /\ p[2] \in bits'[p[1]]
<1> DEFINE x == b[1]
<1> DEFINE k == b[2]
<1> DEFINE c == class[x]
<1>1. x \in Spans /\ k \in Nat /\ class[x] = c /\ c # Memory!None /\ k \in bits[x]
  BY DEF Taken
<1>2. bits \in [Spans -> SUBSET Nat] /\ class \in [Spans -> SpanKinds \cup {Memory!None}]
  BY DEF Mapped, MappedIn
<1>3. c \in SpanKinds
  BY <1>1, <1>2
<1>4. Slots[c] \in Nat /\ User[c] \in Nat
  BY <1>3 DEF Memories, SpanKinds
<1>5. /\ bits[x] = {k} => /\ freelist' = IF freelist + User[c] >= Slots[c] * User[c]
                                          THEN (freelist + User[c]) - Slots[c] * User[c] ELSE 0
                          /\ class' = [class EXCEPT ![x] = Memory!None] /\ bits' = [bits EXCEPT ![x] = {}]
      /\ bits[x] # {k} => /\ freelist' = freelist + User[c]
                          /\ bits' = [bits EXCEPT ![x] = @ \ {k}] /\ class' = class
  <2>1. ASSUME bits[b[1]] = {b[2]}
        PROVE  /\ freelist' = IF freelist + User[class[b[1]]] >= Slots[class[b[1]]] * User[class[b[1]]]
                              THEN (freelist + User[class[b[1]]]) - Slots[class[b[1]]] * User[class[b[1]]] ELSE 0
               /\ class' = [class EXCEPT ![b[1]] = Memory!None] /\ bits' = [bits EXCEPT ![b[1]] = {}]
    BY <2>1, Zenon DEF Memory!Push
  <2>2. ASSUME bits[b[1]] # {b[2]}
        PROVE  /\ freelist' = freelist + User[class[b[1]]]
               /\ bits' = [bits EXCEPT ![b[1]] = @ \ {b[2]}] /\ class' = class
    BY <2>2, Zenon DEF Memory!Push
  <2>3. QED
    BY <2>1, <2>2, Zenon DEF x, k, c
<1>6. \A p \in Spans \X Nat : p # b /\ p[1] = x => p[2] # k
  BY DEF x, k
<1>7. bits[x] \subseteq 0 .. Slots[c] - 1
  BY <1>1 DEF Mapped, MappedIn
<1> HIDE DEF x, k, c
<1>8. IsFiniteSet(bits[x]) /\ Memory!Cardinality(bits[x]) \in Nat /\ Memory!Cardinality(bits[x]) <= Slots[c]
  <2>1. IsFiniteSet(0 .. Slots[c] - 1) /\ Memory!Cardinality(0 .. Slots[c] - 1) = Slots[c]
    BY <1>4, CountSlots
  <2>2. IsFiniteSet(bits[x]) /\ Memory!Cardinality(bits[x]) <= Slots[c]
    BY <1>7, <2>1, CountPart
  <2>3. QED
    BY <2>2, CountType
<1>9. /\ bits' \in [Spans -> SUBSET Nat] /\ class' \in [Spans -> SpanKinds \cup {Memory!None}]
      /\ \A y \in Spans \ {x} : class'[y] = class[y] /\ bits'[y] = bits[y]
      /\ bits'[x] = bits[x] \ {k}
      /\ bits[x] = {k} => class'[x] = Memory!None
      /\ bits[x] # {k} => class'[x] = c
  <2>1. CASE bits[x] = {k}
    BY <1>1, <1>2, <1>5, <2>1
  <2>2. CASE bits[x] # {k}
    BY <1>1, <1>2, <1>5, <2>2
  <2>3. QED
    BY <2>1, <2>2
<1>10. MappedIn(class', bits')
  <2>1. ASSUME NEW s \in Spans, class'[s] = Memory!None PROVE bits'[s] = {}
    <3>1. CASE s = x
      BY <1>1, <1>9, <2>1, <3>1
    <3>2. CASE s # x
      BY <1>9, <2>1, <3>2 DEF Mapped, MappedIn
    <3>3. QED
      BY <3>1, <3>2
  <2>2. ASSUME NEW s \in Spans, class'[s] # Memory!None PROVE bits'[s] \subseteq 0 .. Slots[class'[s]] - 1
    <3>1. CASE s = x
      <4>1. class'[s] = c
        BY <1>9, <2>2, <3>1
      <4>2. QED
        BY <1>7, <1>9, <3>1, <4>1
    <3>2. CASE s # x
      BY <1>9, <2>2, <3>2 DEF Mapped, MappedIn
    <3>3. QED
      BY <3>1, <3>2
  <2>3. QED
    BY <1>9, <2>1, <2>2 DEF MappedIn
<1>11. Memory!NoEmptySpan'
  <2>1. ASSUME NEW s \in Spans, class'[s] # Memory!None PROVE bits'[s] # {}
    <3>1. CASE s = x
      <4>1. bits[x] # {k}
        BY <1>9, <2>1, <3>1
      <4>2. QED
        BY <1>1, <1>9, <3>1, <4>1
    <3>2. CASE s # x
      BY <1>9, <2>1, <3>2 DEF Memory!NoEmptySpan
    <3>3. QED
      BY <3>1, <3>2
  <2>2. QED
    BY <2>1 DEF Memory!NoEmptySpan
<1>12. PICK rest \in Nat : /\ Total(FreeBytesIn(class, bits), Spans) = FreeBytesIn(class, bits)[x] + rest
                           /\ Total(FreeBytesIn(class', bits'), Spans) = FreeBytesIn(class', bits')[x] + rest
  <2>1. MappedIn(class, bits)
    BY DEF Mapped
  <2>2. \A y \in Spans \ {x} : class'[y] = class[y] /\ bits'[y] = bits[y]
    BY <1>9
  <2>3. Apart(Total(FreeBytesIn(class, bits), Spans), Total(FreeBytesIn(class', bits'), Spans), FreeBytesIn(class, bits)[x], FreeBytesIn(class', bits')[x])
    BY <1>1, <1>10, <2>1, <2>2, OpenChange
  <2>4. QED
    BY <2>3 DEF Apart
<1>13. FreeBytesIn(class, bits)[x] = User[c] * (Slots[c] - Memory!Cardinality(bits[x]))
  BY <1>1 DEF FreeBytesIn
<1>14. freelist \in Nat /\ freelist = FreeBytesIn(class, bits)[x] + rest
  BY <1>12 DEF Counted, FreeBytes
<1>15. \A u, m \in Nat : u * (m + 1) = u * m + u /\ (m + 1) * u = u * m + u /\ u * m \in Nat
  OBVIOUS
<1>16. Counted'
  <2>1. CASE bits[x] = {k}
    <3>1. Memory!Cardinality(bits[x]) = 1
      BY <2>1, CountOne
    <3>2. PICK m \in Nat : Slots[c] = m + 1 /\ Slots[c] - 1 = m
      BY <1>4, <1>8, <3>1
    <3>3. (m + 1) * User[c] = User[c] * m + User[c] /\ User[c] * m \in Nat
      BY <1>4, <1>15
    <3>4. FreeBytesIn(class, bits)[x] = User[c] * m /\ Slots[c] * User[c] = User[c] * m + User[c]
      BY <1>13, <3>1, <3>2, <3>3
    <3>5. freelist' = rest
      BY <1>4, <1>5, <1>14, <2>1, <3>3, <3>4
    <3>6. FreeBytesIn(class', bits')[x] = 0
      BY <1>1, <1>9, <2>1 DEF FreeBytesIn
    <3>7. freelist' = Total(FreeBytesIn(class', bits'), Spans) /\ freelist' \in Nat
      BY <1>12, <3>5, <3>6
    <3>8. QED
      BY <3>7 DEF Counted, FreeBytes
  <2>2. CASE bits[x] # {k}
    <3>1. Memory!Cardinality(bits'[x]) = Memory!Cardinality(bits[x]) - 1
      <4>1. bits'[x] = bits[x] \ {k}
        BY <1>1, <1>9
      <4>2. k \in bits[x] /\ IsFiniteSet(bits[x])
        BY <1>1, <1>8
      <4>3. QED
        BY <4>1, <4>2, CountLess
    <3>2. PICK m \in Nat : Slots[c] - Memory!Cardinality(bits[x]) = m /\ Slots[c] - Memory!Cardinality(bits'[x]) = m + 1
      BY <1>4, <1>8, <3>1
    <3>3. User[c] * (m + 1) = User[c] * m + User[c] /\ User[c] * m \in Nat
      BY <1>4, <1>15
    <3>4. FreeBytesIn(class', bits')[x] = User[c] * (Slots[c] - Memory!Cardinality(bits'[x]))
      BY <1>1, <1>9, <2>2 DEF FreeBytesIn
    <3>5. FreeBytesIn(class, bits)[x] = User[c] * m /\ FreeBytesIn(class', bits')[x] = User[c] * m + User[c]
      BY <1>13, <3>2, <3>3, <3>4
    <3>6. freelist' = User[c] * m + User[c] + rest
      BY <1>4, <1>5, <1>14, <2>2, <3>3, <3>5
    <3>7. freelist' = Total(FreeBytesIn(class', bits'), Spans) /\ freelist' \in Nat
      BY <1>4, <1>12, <3>3, <3>5, <3>6
    <3>8. QED
      BY <3>7 DEF Counted, FreeBytes
  <2>3. QED
    BY <2>1, <2>2
<1>17. ASSUME NEW p \in Spans \X Nat, p # b, Taken(p) PROVE class'[p[1]] # Memory!None /\ p[2] \in bits'[p[1]]
  <2>1. p[1] \in Spans /\ class[p[1]] # Memory!None /\ p[2] \in bits[p[1]]
    BY <1>17 DEF Taken
  <2>2. CASE p[1] = x
    <3>1. p[2] # k
      BY <1>6, <1>17, <2>2
    <3>2. bits[x] # {k}
      BY <2>1, <2>2, <3>1
    <3>3. QED
      BY <1>1, <1>9, <2>1, <2>2, <3>1, <3>2
  <2>3. CASE p[1] # x
    BY <1>9, <2>1, <2>3
  <2>4. QED
    BY <2>2, <2>3
<1>18. QED
  BY <1>10, <1>11, <1>16, <1>17 DEF Mapped

---------------------------------------------------------------------------
(* The invariant.                                                          *)

MemoryRoom == Mapped /\ Memory!NoEmptySpan /\ Counted
BlocksPlaced == blocks \cup doomed \cup pending \subseteq Spans \X Nat
Working == th \in [Threads -> Request]

LEMMA InvParts == MemoryInv <=> MemoryRoom /\ BlocksPlaced /\ Working /\ Memory!IndexSound
  BY DEF MemoryInv, Located, MemoryRoom, BlocksPlaced, Working

LEMMA JobTyped ==
  /\ Memory!Idle \in Request
  /\ \A s \in Ats, k \in SpanKinds : [at |-> s, class |-> k, try |-> 0] \in Request
  /\ \A r \in Request : \A s \in Ats : [r EXCEPT !.at = s] \in Request
<1>1. 0 \in SpanKinds /\ "idle" \in Ats
  BY DEF SpanKinds, Ats
<1>2. \A s \in Ats, k \in SpanKinds, n \in Nat : [at |-> s, class |-> k, try |-> n] \in Request
  BY DEF Request
<1>3. \A s \in Ats, k \in SpanKinds : [at |-> s, class |-> k, try |-> 0] \in Request
  BY <1>2
<1>4. ASSUME NEW r \in Request, NEW s \in Ats PROVE [r EXCEPT !.at = s] \in Request
  BY DEF Request
<1>5. Memory!Idle \in Request
  BY <1>1, <1>3 DEF Memory!Idle
<1>6. QED
  BY <1>3, <1>4, <1>5

LEMMA JobTries ==
  \A r \in Request, s \in Ats, n \in Nat : [r EXCEPT !.at = s, !.try = n] \in Request
<1>0. SUFFICES ASSUME NEW r \in Request, NEW s \in Ats, NEW n \in Nat
      PROVE  [r EXCEPT !.at = s, !.try = n] \in Request
  OBVIOUS
<1>1. [r EXCEPT !.at = s] \in Request
  BY JobTyped
<1>2. \A u \in Request : [u EXCEPT !.try = n] \in Request
  BY DEF Request
<1>3. [r EXCEPT !.at = s, !.try = n] = [[r EXCEPT !.at = s] EXCEPT !.try = n]
  OBVIOUS
<1>4. QED
  BY <1>1, <1>2, <1>3

LEMMA RoomStays == ASSUME MemoryRoom, UNCHANGED Memory!memory PROVE MemoryRoom'
<1>1. class' = class /\ bits' = bits /\ freelist' = freelist
  BY DEF Memory!memory
<1>2. Mapped'
  BY <1>1 DEF MemoryRoom, Mapped, MappedIn
<1>3. Memory!NoEmptySpan'
  BY <1>1 DEF MemoryRoom, Memory!NoEmptySpan
<1>4. FreeBytesIn(class', bits') = FreeBytesIn(class, bits)
  BY <1>1
<1>5. Counted'
  BY <1>1, <1>4 DEF MemoryRoom, Counted, FreeBytes
<1>6. QED
  BY <1>2, <1>3, <1>5 DEF MemoryRoom

LEMMA BlocksStay ==
  ASSUME Memory!IndexSound, BlocksPlaced, UNCHANGED <<Memory!memory, index, blocks, doomed, pending>>
  PROVE  Memory!IndexSound' /\ BlocksPlaced'
<1>1. /\ class' = class /\ bits' = bits /\ index' = index /\ blocks' = blocks
      /\ doomed' = doomed /\ pending' = pending
  BY DEF Memory!memory
<1>2. BlocksPlaced'
  BY <1>1 DEF BlocksPlaced
<1>3. Memory!IndexSound'
  BY <1>1 DEF Memory!IndexSound
<1>4. QED
  BY <1>2, <1>3

(* A new block in a slot that was free.                                    *)
LEMMA BlockAdded ==
  ASSUME Memory!IndexSound, BlocksPlaced, NEW x \in Spans, NEW k \in Nat,
         ~Taken(<<x, k>>),
         \A p \in Spans \X Nat : Taken(p) => class'[p[1]] # Memory!None /\ p[2] \in bits'[p[1]],
         class'[x] # Memory!None, k \in bits'[x],
         blocks' = blocks \cup {<<x, k>>}, index' = index \cup {<<x, k>>}, UNCHANGED <<doomed, pending>>
  PROVE  Memory!IndexSound' /\ BlocksPlaced'
<1> DEFINE n == <<x, k>>
<1>1. n \in Spans \X Nat /\ n[1] = x /\ n[2] = k
  OBVIOUS
<1> HIDE DEF n
<1>2. blocks' = blocks \cup {n} /\ index' = index \cup {n} /\ doomed' = doomed /\ pending' = pending /\ ~Taken(n)
  BY DEF n
<1>3. \A p \in blocks \cup doomed \cup pending : Taken(p) /\ p \in Spans \X Nat
  BY DEF Memory!IndexSound, BlocksPlaced, Taken
<1>4. BlocksPlaced'
  BY <1>1, <1>2 DEF BlocksPlaced
<1>5. \A p \in blocks' \cup doomed' \cup pending' : class'[p[1]] # Memory!None /\ p[2] \in bits'[p[1]]
  <2>1. ASSUME NEW p \in blocks' \cup doomed' \cup pending' PROVE class'[p[1]] # Memory!None /\ p[2] \in bits'[p[1]]
    <3>1. CASE p = n
      BY <1>1, <3>1
    <3>2. CASE p # n
      BY <1>2, <1>3, <2>1, <3>2
    <3>3. QED
      BY <3>1, <3>2
  <2>2. QED
    BY <2>1
<1>6. n \notin doomed \cup pending
  BY <1>2, <1>3
<1>7. index' = blocks' /\ blocks' \cap (doomed' \cup pending') = {} /\ doomed' \cap pending' = {}
  BY <1>2, <1>6 DEF Memory!IndexSound
<1>8. QED
  BY <1>4, <1>5, <1>7 DEF Memory!IndexSound

LEMMA PopStep == ASSUME Memories, MemoryInv, NEW t \in Threads, Memory!Pop(t) PROVE MemoryInv'
<1> DEFINE c == th[t].class
<1> DEFINE s == Memory!SelectInSeq(lists[c], LAMBDA y : y \in Memory!Usable(c))
<1>1. MemoryRoom /\ BlocksPlaced /\ Working /\ Memory!IndexSound
  BY InvParts
<1>2. c \in SpanKinds
  BY <1>1 DEF Working, Request
<1>3. CASE c # 0 /\ s # 0
  <2> DEFINE x == lists[c][s]
  <2>1. x \in Memory!Usable(c)
    BY <1>3, PopFinds
  <2>2. /\ bits' = [bits EXCEPT ![x] = @ \cup {Memory!LowSlot(x)}]
        /\ freelist' = Memory!Lowered(User[c])
        /\ class' = class
        /\ blocks' = blocks \cup {<<x, Memory!LowSlot(x)>>} /\ index' = index \cup {<<x, Memory!LowSlot(x)>>}
        /\ th' = [th EXCEPT ![t] = Memory!Idle]
        /\ doomed' = doomed /\ pending' = pending
    BY <1>3 DEF Memory!Pop, Memory!Link
  <2> HIDE DEF x, s, c
  <2>3. Mapped /\ Memory!NoEmptySpan /\ Counted
    BY <1>1 DEF MemoryRoom
  <2>4. Mapped' /\ Memory!NoEmptySpan' /\ Counted'
    BY <1>2, <2>1, <2>2, <2>3, PopKeeps
  <2>5. /\ x \in Spans /\ class[x] # Memory!None
        /\ Memory!LowSlot(x) \in 0 .. Slots[c] - 1 /\ Memory!LowSlot(x) \notin bits[x]
    BY <1>2, <2>1, <2>3, LowSlotIsFree
  <2> DEFINE k == Memory!LowSlot(x)
  <2> HIDE DEF k
  <2>6. k \in Nat /\ k \notin bits[x] /\ bits' = [bits EXCEPT ![x] = @ \cup {k}]
        /\ blocks' = blocks \cup {<<x, k>>} /\ index' = index \cup {<<x, k>>}
    BY <2>2, <2>5 DEF k
  <2>7. bits \in [Spans -> SUBSET Nat]
    BY <2>3 DEF Mapped, MappedIn
  <2>8. bits'[x] = bits[x] \cup {k} /\ \A y \in Spans : y # x => bits'[y] = bits[y]
    BY <2>5, <2>6, <2>7
  <2>9. ASSUME NEW p \in Spans \X Nat, Taken(p) PROVE class'[p[1]] # Memory!None /\ p[2] \in bits'[p[1]]
    <3>1. p[1] \in Spans /\ class'[p[1]] # Memory!None /\ p[2] \in bits[p[1]]
      BY <2>2, <2>9 DEF Taken
    <3>2. QED
      BY <2>8, <3>1
  <2>10. ~Taken(<<x, k>>)
    BY <2>6 DEF Taken
  <2>11. class'[x] # Memory!None /\ k \in bits'[x]
    BY <2>2, <2>5, <2>8
  <2>12. Memory!IndexSound' /\ BlocksPlaced'
    BY <1>1, <2>2, <2>5, <2>6, <2>9, <2>10, <2>11, BlockAdded
  <2>13. Working'
    BY <1>1, <2>2, JobTyped DEF Working
  <2>14. QED
    BY <2>4, <2>12, <2>13 DEF MemoryInv, Located, BlocksPlaced, Working
<1>4. CASE ~(c # 0 /\ s # 0)
  <2>1. /\ UNCHANGED Memory!memory /\ UNCHANGED <<index, blocks, doomed, pending>>
        /\ th' = [th EXCEPT ![t].at = "valloc"]
    BY <1>4 DEF Memory!Pop
  <2>2. MemoryRoom'
    BY <1>1, <2>1, RoomStays
  <2>3. Memory!IndexSound' /\ BlocksPlaced'
    BY <1>1, <2>1, BlocksStay
  <2>4. Working'
    <3>1. th[t] \in Request
      BY <1>1 DEF Working
    <3>2. [th[t] EXCEPT !.at = "valloc"] \in Request
      <4>1. "valloc" \in Ats
        BY DEF Ats
      <4>2. QED
        BY <3>1, <4>1, JobTyped
    <3>3. th' = [th EXCEPT ![t] = [th[t] EXCEPT !.at = "valloc"]]
      BY <2>1
    <3>4. QED
      BY <1>1, <3>2, <3>3 DEF Working
  <2>5. QED
    BY <2>2, <2>3, <2>4 DEF MemoryInv, Located, MemoryRoom, BlocksPlaced, Working
<1>5. QED
  BY <1>3, <1>4

LEMMA CreateStep == ASSUME Memories, MemoryInv, NEW t \in Threads, Memory!Create(t) PROVE MemoryInv'
<1> DEFINE c == th[t].class
<1>1. MemoryRoom /\ BlocksPlaced /\ Working /\ Memory!IndexSound
  BY InvParts
<1>2. c \in SpanKinds
  BY <1>1 DEF Working, Request
<1>3. PICK x \in Spans :
        /\ class[x] = Memory!None
        /\ class' = [class EXCEPT ![x] = c] /\ bits' = [bits EXCEPT ![x] = {0}]
        /\ freelist' = IF freelist + Slots[c] * User[c] >= User[c] THEN (freelist + Slots[c] * User[c]) - User[c] ELSE 0
        /\ blocks' = blocks \cup {<<x, 0>>} /\ index' = index \cup {<<x, 0>>}
        /\ th' = [th EXCEPT ![t] = Memory!Idle]
        /\ doomed' = doomed /\ pending' = pending
  BY Zenon DEF Memory!Create, Memory!Link
<1> HIDE DEF c
<1>4. Mapped /\ Memory!NoEmptySpan /\ Counted
  BY <1>1 DEF MemoryRoom
<1>5. /\ Mapped' /\ Memory!NoEmptySpan' /\ Counted'
      /\ class'[x] # Memory!None /\ bits'[x] = {0}
      /\ \A y \in Spans \ {x} : class'[y] = class[y] /\ bits'[y] = bits[y]
  BY <1>2, <1>3, <1>4, MapKeeps
<1>6. ASSUME NEW p \in Spans \X Nat, Taken(p) PROVE class'[p[1]] # Memory!None /\ p[2] \in bits'[p[1]]
  <2>1. p[1] \in Spans /\ class[p[1]] # Memory!None /\ p[2] \in bits[p[1]]
    BY <1>6 DEF Taken
  <2>2. p[1] # x
    BY <1>3, <2>1
  <2>3. QED
    BY <1>5, <2>1, <2>2
<1>7. ~Taken(<<x, 0>>)
  BY <1>3 DEF Taken
<1>8. 0 \in Nat /\ 0 \in bits'[x]
  BY <1>5
<1>9. Memory!IndexSound' /\ BlocksPlaced'
  BY <1>1, <1>3, <1>5, <1>6, <1>7, <1>8, BlockAdded
<1>10. Working'
  BY <1>1, <1>3, JobTyped DEF Working
<1>11. QED
  BY <1>5, <1>9, <1>10 DEF MemoryInv, Located, BlocksPlaced, Working

(* The steps that touch no memory and no block.                            *)
LEMMA ThreadStep ==
  ASSUME MemoryInv, NEW t \in Threads, UNCHANGED <<Memory!memory, index, blocks, doomed, pending>>,
         \/ th' = th
         \/ \E r \in Request : th' = [th EXCEPT ![t] = r]
  PROVE  MemoryInv'
<1>1. MemoryRoom /\ BlocksPlaced /\ Working /\ Memory!IndexSound
  BY InvParts
<1>2. UNCHANGED Memory!memory
  OBVIOUS
<1>3. MemoryRoom'
  BY <1>1, <1>2, RoomStays
<1>4. Memory!IndexSound' /\ BlocksPlaced'
  BY <1>1, BlocksStay
<1>5. Working'
  BY <1>1 DEF Working
<1>6. QED
  BY <1>3, <1>4, <1>5 DEF MemoryInv, Located, MemoryRoom, BlocksPlaced, Working

LEMMA CollectStep == ASSUME MemoryInv, NEW t \in Threads, Memory!Collect(t) PROVE MemoryInv'
<1>1. MemoryRoom /\ BlocksPlaced /\ Working /\ Memory!IndexSound
  BY InvParts
<1>2. UNCHANGED Memory!memory /\ pending' = pending /\ class' = class /\ bits' = bits
  BY DEF Memory!Collect, Memory!memory
<1>3. MemoryRoom'
  BY <1>1, <1>2, RoomStays
<1>4. Working'
  <2>1. th[t] \in Request
    BY <1>1 DEF Working
  <2>2. [th[t] EXCEPT !.at = "pop"] \in Request /\ [th[t] EXCEPT !.at = "drain"] \in Request
    <3>1. "pop" \in Ats /\ "drain" \in Ats
      BY DEF Ats
    <3>2. QED
      BY <2>1, <3>1, JobTyped
  <2>3. \/ th' = [th EXCEPT ![t] = [th[t] EXCEPT !.at = "pop"]]
        \/ th' = [th EXCEPT ![t] = [th[t] EXCEPT !.at = "drain"]]
    BY DEF Memory!Collect
  <2>4. QED
    BY <1>1, <2>2, <2>3 DEF Working
<1>5. CASE collecting
  <2>1. index' = index /\ blocks' = blocks /\ doomed' = doomed
    BY <1>5 DEF Memory!Collect
  <2>2. Memory!IndexSound' /\ BlocksPlaced'
    BY <1>1, <1>2, <2>1, BlocksStay
  <2>3. QED
    BY <1>3, <1>4, <2>2 DEF MemoryInv, Located, MemoryRoom, BlocksPlaced, Working
<1>6. CASE ~collecting
  <2>1. PICK gone \in SUBSET blocks : blocks' = blocks \ gone /\ index' = index \ gone /\ doomed' = gone
    BY <1>6 DEF Memory!Collect
  <2>2. BlocksPlaced'
    BY <1>1, <1>2, <2>1 DEF BlocksPlaced
  <2>3. blocks' \cup doomed' \cup pending' \subseteq blocks \cup doomed \cup pending
    BY <1>2, <2>1
  <2>4. index' = blocks' /\ blocks' \cap (doomed' \cup pending') = {} /\ doomed' \cap pending' = {}
    BY <1>1, <1>2, <2>1 DEF Memory!IndexSound
  <2>5. Memory!IndexSound'
    BY <1>1, <1>2, <2>3, <2>4 DEF Memory!IndexSound
  <2>6. QED
    BY <1>3, <1>4, <2>2, <2>5 DEF MemoryInv, Located, MemoryRoom, BlocksPlaced, Working
<1>7. QED
  BY <1>5, <1>6

(* A doomed or finalized block is freed.                                   *)
LEMMA FreeStep ==
  ASSUME Memories, MemoryInv, NEW b \in doomed \cup pending, Memory!Push(b),
         blocks' = blocks, index' = index, doomed' = doomed \ {b}, pending' = pending \ {b}, th' = th
  PROVE  MemoryInv'
<1>1. MemoryRoom /\ BlocksPlaced /\ Working /\ Memory!IndexSound
  BY InvParts
<1>2. Mapped /\ Memory!NoEmptySpan /\ Counted
  BY <1>1 DEF MemoryRoom
<1>3. b \in Spans \X Nat /\ Taken(b)
  BY <1>1 DEF BlocksPlaced, Memory!IndexSound, Taken
<1>4. /\ Mapped' /\ Memory!NoEmptySpan' /\ Counted'
      /\ \A p \in Spans \X Nat : p # b /\ Taken(p) => class'[p[1]] # Memory!None /\ p[2] \in bits'[p[1]]
  BY <1>2, <1>3, PushKeeps
<1>5. b \notin blocks
  BY <1>1 DEF Memory!IndexSound
<1>6. BlocksPlaced'
  BY <1>1 DEF BlocksPlaced
<1>7. ASSUME NEW p \in blocks' \cup doomed' \cup pending' PROVE class'[p[1]] # Memory!None /\ p[2] \in bits'[p[1]]
  <2>1. p # b /\ p \in blocks \cup doomed \cup pending
    BY <1>5, <1>7
  <2>2. Taken(p) /\ p \in Spans \X Nat
    BY <1>1, <2>1 DEF Memory!IndexSound, BlocksPlaced, Taken
  <2>3. QED
    BY <1>4, <2>1, <2>2
<1>8. index' = blocks' /\ blocks' \cap (doomed' \cup pending') = {} /\ doomed' \cap pending' = {}
  BY <1>1 DEF Memory!IndexSound
<1>9. Memory!IndexSound'
  BY <1>7, <1>8 DEF Memory!IndexSound
<1>10. Working'
  BY <1>1 DEF Working
<1>11. QED
  BY <1>4, <1>6, <1>9, <1>10 DEF MemoryInv, Located, BlocksPlaced, Working

(* A block goes from one list to another, and its slot stays taken.        *)
LEMMA MoveStep ==
  ASSUME MemoryInv, UNCHANGED Memory!memory, th' = th, index' = blocks', index = blocks,
         blocks' \cup doomed' \cup pending' \subseteq blocks \cup doomed \cup pending,
         blocks' \cap (doomed' \cup pending') = {}, doomed' \cap pending' = {}
  PROVE  MemoryInv'
<1>1. MemoryRoom /\ BlocksPlaced /\ Working /\ Memory!IndexSound
  BY InvParts
<1>2. MemoryRoom'
  BY <1>1, RoomStays
<1>3. class' = class /\ bits' = bits
  BY DEF Memory!memory
<1>4. Memory!IndexSound'
  BY <1>1, <1>3 DEF Memory!IndexSound
<1>5. BlocksPlaced' /\ Working'
  BY <1>1 DEF BlocksPlaced, Working
<1>6. QED
  BY <1>2, <1>4, <1>5 DEF MemoryInv, Located, MemoryRoom, BlocksPlaced, Working

LEMMA MemoryInit == ASSUME Memories, Memory!Init PROVE MemoryInv
<1>1. class = [s \in Spans |-> Memory!None] /\ bits = [s \in Spans |-> {}] /\ freelist = 0
  BY DEF Memory!Init
<1>2. Mapped
  BY <1>1 DEF Mapped, MappedIn
<1>3. Memory!NoEmptySpan
  BY <1>1 DEF Memory!NoEmptySpan
<1>4. FreeBytes \in [Spans -> Nat] /\ \A s \in Spans : FreeBytes[s] = 0
  BY <1>1 DEF FreeBytes, FreeBytesIn
<1>5. Total(FreeBytes, Spans) = Total(FreeBytes, {})
  BY <1>4, TotalOfSome
<1>6. Counted
  BY <1>1, <1>5, TotalOfNone DEF Counted
<1>7. Working
  BY JobTyped DEF Memory!Init, Working
<1>8. BlocksPlaced /\ Memory!IndexSound
  BY DEF Memory!Init, BlocksPlaced, Memory!IndexSound
<1>9. QED
  BY <1>2, <1>3, <1>6, <1>7, <1>8 DEF MemoryInv, Located, BlocksPlaced, Working

LEMMA MemoryStep == ASSUME Memories, MemoryInv, [Memory!Next]_(Memory!vars) PROVE MemoryInv'
<1> DEFINE still == UNCHANGED <<Memory!memory, index, blocks, doomed, pending>>
<1>0. BlocksPlaced /\ Working /\ Memory!IndexSound
  BY InvParts
<1>1. ASSUME NEW t \in Threads, NEW k \in SpanKinds, Memory!Begin(t, k) PROVE MemoryInv'
  <2>1. PICK s \in Ats : th' = [th EXCEPT ![t] = [at |-> s, class |-> k, try |-> 0]]
    BY <1>1 DEF Memory!Begin, Ats
  <2>2. still
    BY <1>1 DEF Memory!Begin
  <2>3. [at |-> s, class |-> k, try |-> 0] \in Request
    BY JobTyped
  <2>4. QED
    BY <2>1, <2>2, <2>3, ThreadStep
<1>2. ASSUME NEW t \in Threads, Memory!Pop(t) PROVE MemoryInv'
  BY <1>2, PopStep
<1>3. ASSUME NEW t \in Threads, Memory!Create(t) PROVE MemoryInv'
  BY <1>3, CreateStep
<1>4. ASSUME NEW t \in Threads, Memory!NoMemory(t) PROVE MemoryInv'
  <2>1. th[t] \in Request
    BY <1>0 DEF Working
  <2>2. PICK s \in Ats : th' = [th EXCEPT ![t].at = s, ![t].try = th[t].try + 1]
    <3>1. PICK s \in CASE th[t].try + 1 = 1 -> {"pop"} [] th[t].try + 1 = 2 -> {"collect"}
                        [] th[t].try + 1 = 3 -> {"pop", "collect"} [] OTHER -> {"oom"} :
                 th' = [th EXCEPT ![t].at = s, ![t].try = th[t].try + 1]
      BY <1>4 DEF Memory!NoMemory
    <3>2. s \in Ats
      BY <3>1 DEF Ats
    <3>3. QED
      BY <3>1, <3>2
  <2>3. PICK n \in Nat : n = th[t].try + 1
    BY <2>1 DEF Request
  <2>4. [th[t] EXCEPT !.at = s, !.try = n] \in Request
    <3>1. th[t] \in Request /\ s \in Ats /\ n \in Nat
      BY <2>1
    <3>2. QED
      BY <3>1, JobTries, Zenon
  <2>5. th' = [th EXCEPT ![t] = [th[t] EXCEPT !.at = s, !.try = n]]
    <3>1. th' = [th EXCEPT ![t].at = s, ![t].try = n]
      BY <2>2, <2>3
    <3>2. [th EXCEPT ![t].at = s, ![t].try = n] = [th EXCEPT ![t] = [th[t] EXCEPT !.at = s, !.try = n]]
      BY <1>0 DEF Working
    <3>3. QED
      BY <3>1, <3>2
  <2>6. still
    BY <1>4 DEF Memory!NoMemory
  <2>7. QED
    BY <2>4, <2>5, <2>6, ThreadStep
<1>5. ASSUME NEW t \in Threads, Memory!OutOfMemory(t) PROVE MemoryInv'
  <2>1. th' = [th EXCEPT ![t] = Memory!Idle] /\ still
    BY <1>5 DEF Memory!OutOfMemory
  <2>2. QED
    BY <2>1, JobTyped, ThreadStep
<1>6. ASSUME NEW t \in Threads, Memory!Collect(t) PROVE MemoryInv'
  BY <1>6, CollectStep
<1>7. ASSUME NEW t \in Threads, Memory!Drain(t) PROVE MemoryInv'
  <2>1. PICK b \in doomed : /\ doomed' = doomed \ {b}
                            /\ \/ Memory!Push(b) /\ UNCHANGED pending
                               \/ pending' = pending \cup {b} /\ UNCHANGED Memory!memory
    BY <1>7 DEF Memory!Drain
  <2>2. blocks' = blocks /\ index' = index /\ th' = th
    BY <1>7 DEF Memory!Drain
  <2>3. CASE Memory!Push(b) /\ UNCHANGED pending
    <3>1. pending' = pending \ {b}
      BY <1>0, <2>1, <2>3 DEF Memory!IndexSound
    <3>2. QED
      BY <2>1, <2>2, <2>3, <3>1, FreeStep
  <2>4. CASE pending' = pending \cup {b} /\ UNCHANGED Memory!memory
    <3>1. /\ blocks' \cup doomed' \cup pending' \subseteq blocks \cup doomed \cup pending
          /\ blocks' \cap (doomed' \cup pending') = {} /\ doomed' \cap pending' = {}
          /\ index' = blocks' /\ index = blocks
      BY <1>0, <2>1, <2>2, <2>4 DEF Memory!IndexSound
    <3>2. QED
      BY <2>2, <2>4, <3>1, MoveStep
  <2>5. QED
    BY <2>1, <2>3, <2>4
<1>8. ASSUME NEW t \in Threads, Memory!DrainEnds(t) PROVE MemoryInv'
  <2>1. th' = [th EXCEPT ![t].at = "pop"] /\ still
    BY <1>8 DEF Memory!DrainEnds
  <2>2. [th[t] EXCEPT !.at = "pop"] \in Request
    <3>1. "pop" \in Ats /\ th[t] \in Request
      BY <1>0 DEF Ats, Working
    <3>2. QED
      BY <3>1, JobTyped
  <2>3. th' = [th EXCEPT ![t] = [th[t] EXCEPT !.at = "pop"]]
    BY <2>1
  <2>4. QED
    BY <2>1, <2>2, <2>3, ThreadStep
<1>9. ASSUME NEW t \in Threads, Memory!Finalized(t) PROVE MemoryInv'
  <2>1. PICK b \in pending : /\ pending' = pending \ {b}
                             /\ \/ Memory!Push(b) /\ UNCHANGED <<blocks, index>>
                                \/ blocks' = blocks \cup {b} /\ index' = index \cup {b} /\ UNCHANGED Memory!memory
    BY <1>9 DEF Memory!Finalized
  <2>2. doomed' = doomed /\ th' = th
    BY <1>9 DEF Memory!Finalized
  <2>3. CASE Memory!Push(b) /\ UNCHANGED <<blocks, index>>
    <3>1. doomed' = doomed \ {b}
      BY <1>0, <2>1, <2>2 DEF Memory!IndexSound
    <3>2. QED
      BY <2>1, <2>2, <2>3, <3>1, FreeStep
  <2>4. CASE blocks' = blocks \cup {b} /\ index' = index \cup {b} /\ UNCHANGED Memory!memory
    <3>1. /\ blocks' \cup doomed' \cup pending' \subseteq blocks \cup doomed \cup pending
          /\ blocks' \cap (doomed' \cup pending') = {} /\ doomed' \cap pending' = {}
          /\ index' = blocks' /\ index = blocks
      BY <1>0, <2>1, <2>2, <2>4 DEF Memory!IndexSound
    <3>2. QED
      BY <2>2, <2>4, <3>1, MoveStep
  <2>5. QED
    BY <2>1, <2>3, <2>4
<1>10. CASE UNCHANGED Memory!vars
  <2>1. UNCHANGED Memory!memory /\ index' = index /\ blocks' = blocks /\ doomed' = doomed /\ pending' = pending /\ th' = th
    BY <1>10 DEF Memory!vars, Memory!memory
  <2>2. /\ blocks' \cup doomed' \cup pending' \subseteq blocks \cup doomed \cup pending
        /\ blocks' \cap (doomed' \cup pending') = {} /\ doomed' \cap pending' = {}
        /\ index' = blocks' /\ index = blocks
    BY <1>0, <2>1 DEF Memory!IndexSound
  <2>3. QED
    BY <2>1, <2>2, MoveStep
<1>11. QED
  BY <1>1, <1>2, <1>3, <1>4, <1>5, <1>6, <1>7, <1>8, <1>9, <1>10 DEF Memory!Next, SpanKinds

(* Blocks and free memory are where the allocator says they are, for any   *)
(* number of threads and spans and any sizes: gc_span_push_locked,         *)
(* gc_span_pop_locked and the page index of runtime_gc.c.                  *)
THEOREM HeapIsSound == ASSUME Memories PROVE Memory!Spec => []Memory!HeapSound
<1>1. Memory!Init => MemoryInv
  BY MemoryInit
<1>2. MemoryInv /\ [Memory!Next]_(Memory!vars) => MemoryInv'
  BY MemoryStep
<1>3. MemoryInv => Memory!HeapSound
  <2>1. SUFFICES ASSUME MemoryInv PROVE Memory!HeapSound
    OBVIOUS
  <2>2. Mapped /\ Memory!IndexSound /\ Memory!NoEmptySpan /\ freelist = Total(FreeBytes, Spans)
    BY <2>1 DEF MemoryInv, Counted
  <2>3. Sum[UsedSpans] = Total(FreeBytes, Spans)
    BY <2>2, SumIsTotal
  <2>4. Memory!FreelistExact
    BY <2>2, <2>3, ExactIsSum
  <2>5. QED
    BY <2>2, <2>4 DEF Memory!HeapSound
<1>4. QED
  BY <1>1, <1>2, <1>3, PTL DEF Memory!Spec

-----------------------------------------------------------------------------
(* The spill pool of nested loops.                                         *)

CONSTANTS Prealloc, Untried, MaxSlots, MaxNest
VARIABLES spills, nest, skipped, hit, left
Spill == INSTANCE SpillPool WITH pool <- spills, cons <- nest, dead <- skipped

(* The constants: the pool is made with some number of slots, and no       *)
(* continue stands outside every try where the body of its loop holds a    *)
(* slot.                                                                   *)
Planned == Prealloc \in Nat /\ ~Untried

KindNames == {"while", "for", "scope", "when", "try", "select"}
Places == {"cond", "body", "conds", "branch", "catch", "fin", "ops", "cases"}
Construct == [kind : KindNames, at : Places, slots : Seq(Nat), owe : Nat]
Pool == [next : Nat, high : Nat, size : Nat, scope : Seq(Nat), sticky : Seq(Nat),
         enter : Seq(Nat), floor : Seq(Nat)]

IsLoop(c) == c.kind \in {"while", "for"}

(* The slots of one construct ascend, those of an outer construct are      *)
(* below those of an inner one, and the cursor is above them all.          *)
Ascend(cs, n) ==
  /\ \A i \in 1 .. Len(cs) : \A k \in 1 .. Len(cs[i].slots) : cs[i].slots[k] < n
  /\ \A i \in 1 .. Len(cs) : \A k, l \in 1 .. Len(cs[i].slots) :
       k < l => cs[i].slots[k] < cs[i].slots[l]
  /\ \A i, j \in 1 .. Len(cs) : i < j =>
       \A k \in 1 .. Len(cs[i].slots), l \in 1 .. Len(cs[j].slots) : cs[i].slots[k] < cs[j].slots[l]

(* f numbers the open loops from the outermost in; the body of a while     *)
(* holds nothing itself, a for holds its sequence and perhaps its variable *)
Numbered(cs, f) ==
  /\ \A j \in 1 .. Len(f) : f[j] \in 1 .. Len(cs) /\ IsLoop(cs[f[j]])
  /\ \A j, k \in 1 .. Len(f) : j < k => f[j] < f[k]
  /\ \A i \in 1 .. Len(cs) : IsLoop(cs[i]) => \E j \in 1 .. Len(f) : f[j] = i
  /\ Len(cs) > 0 => IsLoop(cs[1])
  /\ \A i \in 1 .. Len(cs) : cs[i].kind = "while" /\ cs[i].at = "body" => Len(cs[i].slots) = 0
  /\ \A i \in 1 .. Len(cs) : cs[i].kind = "for" => cs[i].at = "body" /\ Len(cs[i].slots) \in {1, 2}

(* The pool has n scopes open, each above the last one, with a pin of its  *)
(* own at least; pins made in a scope are not below it.                    *)
Stacked(p, n) ==
  /\ Len(p.scope) = n /\ Len(p.enter) = n
  /\ \A j \in 1 .. n : p.scope[j] <= p.next /\ p.enter[j] < Len(p.sticky)
  /\ \A j, k \in 1 .. n : j < k => p.scope[j] <= p.scope[k] /\ p.enter[j] < p.enter[k]
  /\ \A j \in 1 .. n : \A m \in 1 .. Len(p.sticky) : m > p.enter[j] => p.scope[j] <= p.sticky[m]

Pins(c) == IF c.kind = "for" THEN Len(c.slots) ELSE IF c.at = "cond" THEN 1 ELSE 2

(* The scope of a loop starts above what is held outside it, its pins are  *)
(* between those of its neighbours, and the pins of a for are above what   *)
(* it holds.                                                               *)
PoolFits(p, cs, f) ==
  /\ \A j \in 1 .. Len(f) : \A i \in 1 .. Len(cs) : i < f[j] =>
       \A k \in 1 .. Len(cs[i].slots) : cs[i].slots[k] < p.scope[j]
  /\ \A j \in 1 .. Len(f) :
       p.enter[j] + Pins(cs[f[j]]) = IF j = Len(f) THEN Len(p.sticky) ELSE p.enter[j + 1]
  /\ \A j \in 1 .. Len(f) : cs[f[j]].kind = "for" =>
       \A k \in 1 .. Len(cs[f[j]].slots) : cs[f[j]].slots[k] < p.sticky[p.enter[j] + k]

Kept(p, cs) ==
  /\ p \in Pool /\ cs \in Seq(Construct) /\ Ascend(cs, p.next)
  /\ \E f \in Seq(Nat) : Numbered(cs, f) /\ Stacked(p, Len(f)) /\ PoolFits(p, cs, f)

SpillInv == Kept(spills, nest) /\ hit = FALSE

---------------------------------------------------------------------------
(* Sequences and numbers.                                                  *)

LEMMA Through ==
  \A x, y, z \in Nat : /\ x < y /\ y <= z => x < z
                       /\ x <= y /\ y < z => x < z
                       /\ x <= y /\ y <= z => x <= z
  OBVIOUS

LEMMA AppendIs ==
  ASSUME NEW S, NEW s \in Seq(S), NEW e \in S
  PROVE  /\ Append(s, e) \in Seq(S) /\ Len(Append(s, e)) = Len(s) + 1 /\ Len(s) \in Nat
         /\ \A i \in 1 .. Len(s) : Append(s, e)[i] = s[i]
         /\ Append(s, e)[Len(s) + 1] = e
  OBVIOUS

LEMMA PrefixIs ==
  ASSUME NEW S, NEW s \in Seq(S), NEW n \in 0 .. Len(s)
  PROVE  /\ SubSeq(s, 1, n) \in Seq(S) /\ Len(SubSeq(s, 1, n)) = n
         /\ \A i \in 1 .. n : SubSeq(s, 1, n)[i] = s[i]
  OBVIOUS

LEMMA FrontIs ==
  ASSUME NEW S, NEW s \in Seq(S), Len(s) # 0
  PROVE  /\ Len(s) \in Nat \ {0} /\ Spill!Front(s) \in Seq(S) /\ Len(Spill!Front(s)) = Len(s) - 1
         /\ \A i \in 1 .. Len(s) - 1 : Spill!Front(s)[i] = s[i]
         /\ Spill!Last(s) = s[Len(s)] /\ Spill!Last(s) \in S
<1>1. Len(s) \in Nat \ {0} /\ Len(s) \in 1 .. Len(s) /\ Len(s) - 1 \in 0 .. Len(s)
  OBVIOUS
<1>2. /\ SubSeq(s, 1, Len(s) - 1) \in Seq(S) /\ Len(SubSeq(s, 1, Len(s) - 1)) = Len(s) - 1
      /\ \A i \in 1 .. Len(s) - 1 : SubSeq(s, 1, Len(s) - 1)[i] = s[i]
  BY <1>1, PrefixIs
<1>3. s[Len(s)] \in S
  BY <1>1
<1>4. QED
  BY <1>1, <1>2, <1>3 DEF Spill!Front, Spill!Last

LEMMA FrontOfNats ==
  ASSUME NEW s \in Seq(Nat)
  PROVE  /\ Spill!Front(s) \in Seq(Nat)
         /\ Len(s) # 0 => /\ Len(Spill!Front(s)) = Len(s) - 1
                          /\ Spill!Last(s) = s[Len(s)] /\ s[Len(s)] \in Nat
         /\ Len(s) = 1 => Spill!Front(s) = <<>>
         /\ Len(s) \notin {0, 1} => Spill!Front(s) # <<>>
<1>1. CASE Len(s) = 0
  BY <1>1 DEF Spill!Front
<1>2. CASE Len(s) # 0
  <2>1. /\ Spill!Front(s) \in Seq(Nat) /\ Len(Spill!Front(s)) = Len(s) - 1 /\ Len(s) \in Nat
        /\ Spill!Last(s) = s[Len(s)] /\ Spill!Last(s) \in Nat
    BY <1>2, FrontIs
  <2>2. QED
    BY <1>2, <2>1
<1>3. QED
  BY <1>1, <1>2

LEMMA SetLastIs ==
  ASSUME NEW S, NEW s \in Seq(S), NEW e \in S, Len(s) # 0
  PROVE  /\ Append(Spill!Front(s), e) \in Seq(S) /\ Len(Append(Spill!Front(s), e)) = Len(s)
         /\ \A i \in 1 .. Len(s) - 1 : Append(Spill!Front(s), e)[i] = s[i]
         /\ Append(Spill!Front(s), e)[Len(s)] = e
  BY FrontIs, AppendIs

LEMMA MaxOfTwo ==
  ASSUME NEW a \in Nat, NEW b \in Nat
  PROVE  Spill!Max({a, b}) \in {a, b} /\ Spill!Max({a, b}) >= a /\ Spill!Max({a, b}) >= b
<1>1. \E x \in {a, b} : \A y \in {a, b} : x >= y
  <2>1. CASE a >= b
    BY <2>1
  <2>2. CASE ~(a >= b)
    BY <2>2
  <2>3. QED
    BY <2>1, <2>2
<1>2. QED
  BY <1>1 DEF Spill!Max

LEMMA MinOfTwo ==
  ASSUME NEW a \in Nat, NEW b \in Nat
  PROVE  Spill!Min({a, b}) \in {a, b}
<1>1. \E x \in {a, b} : \A y \in {a, b} : x =< y
  <2>1. CASE a <= b
    BY <2>1
  <2>2. CASE ~(a <= b)
    BY <2>2
  <2>3. QED
    BY <2>1, <2>2
<1>2. QED
  BY <1>1 DEF Spill!Min

(* The place of the innermost loop is 0 or a place of a loop.              *)
LEMMA HighestOf ==
  ASSUME NEW n \in Nat, NEW S, S \subseteq 1 .. n
  PROVE  Spill!Max({0} \cup S) \in {0} \cup S
<1> DEFINE T == {0} \cup S
           D == {m \in Nat : \E x \in T : m = n - x}
<1>1. T \subseteq 0 .. n /\ 0 \in T
  OBVIOUS
<1>2. D \subseteq Nat /\ n - 0 \in D
  BY <1>1
<1>3. PICK m \in D : \A y \in D : m <= y
  <2> HIDE DEF D
  <2>1. QED
    BY <1>2, LeastNatural
<1>4. PICK x \in T : m = n - x
  BY <1>3
<1>5. ASSUME NEW y \in T PROVE x >= y
  <2>1. n - y \in D
    BY <1>1
  <2>2. m <= n - y
    BY <1>3, <2>1
  <2>3. QED
    BY <1>1, <1>4, <2>2
<1>6. QED
  BY <1>5 DEF Spill!Max

---------------------------------------------------------------------------
(* What is live is held in ascending slots.                                *)

Flat(ss) == CHOOSE g : g = [i \in 1 .. Len(ss) |-> IF i = 1 THEN ss[i] ELSE g[i - 1] \o ss[i]]

(* The one function the definition of FlattenSeq describes exists.         *)
LEMMA FlatExists ==
  ASSUME NEW ss \in Seq(Seq(Nat))
  PROVE  \E g : g = [i \in 1 .. Len(ss) |-> IF i = 1 THEN ss[i] ELSE g[i - 1] \o ss[i]]
<1> DEFINE Is(g, n) == g = [i \in 1 .. n |-> IF i = 1 THEN ss[i] ELSE g[i - 1] \o ss[i]]
           Bad == {n \in Nat : ~ \E g : Is(g, n)}
<1>1. SUFFICES ASSUME Bad # {} PROVE FALSE
  BY Len(ss) \in Nat
<1>2. PICK n \in Bad : \A k \in Bad : n <= k
  <2>1. Bad \subseteq Nat
    OBVIOUS
  <2> HIDE DEF Bad
  <2>2. QED
    BY <1>1, <2>1, LeastNatural
<1>3. CASE n = 0
  <2>1. Is([i \in 1 .. 0 |-> 0], 0)
    OBVIOUS
  <2>2. QED
    BY <1>2, <1>3, <2>1
<1>4. CASE n # 0
  <2>1. n - 1 \in Nat /\ n - 1 \notin Bad /\ n \in Nat
    <3>1. n \in Nat
      OBVIOUS
    <3> HIDE DEF Bad
    <3>2. QED
      BY <1>2, <1>4, <3>1
  <2>2. PICK g : Is(g, n - 1)
    BY <2>1
  <2> DEFINE h == [i \in 1 .. n |-> IF i = 1 THEN ss[i] ELSE g[i - 1] \o ss[i]]
  <2>3. \A i \in 1 .. n - 1 : h[i] = g[i]
    <3>1. ASSUME NEW i \in 1 .. n - 1 PROVE h[i] = g[i]
      <4>1. i \in 1 .. n
        BY <2>1
      <4>2. g[i] = IF i = 1 THEN ss[i] ELSE g[i - 1] \o ss[i]
        BY <2>2
      <4>3. QED
        BY <4>1, <4>2
    <3>2. QED
      BY <3>1
  <2>4. \A i \in 1 .. n : h[i] = IF i = 1 THEN ss[i] ELSE h[i - 1] \o ss[i]
    <3>1. ASSUME NEW i \in 1 .. n, i # 1 PROVE h[i] = h[i - 1] \o ss[i]
      <4>1. i - 1 \in 1 .. n - 1
        BY <2>1, <3>1
      <4>2. h[i - 1] = g[i - 1]
        BY <2>3, <4>1
      <4>3. h[i] = g[i - 1] \o ss[i]
        BY <3>1
      <4> HIDE DEF h
      <4>4. QED
        BY <4>2, <4>3
    <3>2. 1 \in 1 .. n => h[1] = ss[1]
      OBVIOUS
    <3>3. QED
      BY <3>1, <3>2
  <2>5. h = [i \in 1 .. n |-> h[i]]
    OBVIOUS
  <2> HIDE DEF h
  <2>6. Is(h, n)
    BY <2>4, <2>5
  <2>7. QED
    BY <1>2, <2>6
<1>5. QED
  BY <1>3, <1>4

Ascends(s) == \A k, l \in 1 .. Len(s) : k < l => s[k] < s[l]

LEMMA JoinAscends ==
  ASSUME NEW s \in Seq(Nat), NEW t \in Seq(Nat), Ascends(s), Ascends(t),
         \A k \in 1 .. Len(s), l \in 1 .. Len(t) : s[k] < t[l]
  PROVE  /\ s \o t \in Seq(Nat) /\ Ascends(s \o t)
         /\ \A x \in 1 .. Len(s \o t) :
              \/ \E k \in 1 .. Len(s) : (s \o t)[x] = s[k]
              \/ \E k \in 1 .. Len(t) : (s \o t)[x] = t[k]
<1>1. /\ s \o t \in Seq(Nat) /\ Len(s \o t) = Len(s) + Len(t) /\ Len(s) \in Nat /\ Len(t) \in Nat
      /\ \A x \in 1 .. Len(s) : (s \o t)[x] = s[x]
      /\ \A x \in 1 .. Len(t) : (s \o t)[Len(s) + x] = t[x]
  OBVIOUS
<1> DEFINE r == s \o t
<1>2. \A x \in 1 .. Len(r) : x \in 1 .. Len(s) \/ (x - Len(s) \in 1 .. Len(t) /\ x = Len(s) + (x - Len(s)))
  BY <1>1
<1> HIDE DEF r
<1>3. \A x \in 1 .. Len(r) :
        \/ x \in 1 .. Len(s) /\ r[x] = s[x]
        \/ x - Len(s) \in 1 .. Len(t) /\ r[x] = t[x - Len(s)]
  <2>1. ASSUME NEW x \in 1 .. Len(r), x \notin 1 .. Len(s)
        PROVE  x - Len(s) \in 1 .. Len(t) /\ r[x] = t[x - Len(s)]
    <3>1. x - Len(s) \in 1 .. Len(t) /\ x = Len(s) + (x - Len(s))
      BY <1>2, <2>1
    <3>2. r[Len(s) + (x - Len(s))] = t[x - Len(s)]
      BY <1>1, <3>1 DEF r
    <3>3. QED
      BY <3>1, <3>2
  <2>2. \A x \in 1 .. Len(s) : r[x] = s[x]
    BY <1>1 DEF r
  <2>3. ASSUME NEW x \in 1 .. Len(r)
        PROVE  \/ x \in 1 .. Len(s) /\ r[x] = s[x]
               \/ x - Len(s) \in 1 .. Len(t) /\ r[x] = t[x - Len(s)]
    <3>1. CASE x \in 1 .. Len(s)
      BY <2>2, <3>1
    <3>2. CASE x \notin 1 .. Len(s)
      BY <2>1, <3>2, Zenon
    <3>3. QED
      BY <3>1, <3>2
  <2>4. QED
    BY <2>3
<1>4. ASSUME NEW k \in 1 .. Len(r), NEW l \in 1 .. Len(r), k < l PROVE r[k] < r[l]
  <2>1. CASE k \in 1 .. Len(s) /\ l \in 1 .. Len(s)
    <3>1. r[k] = s[k] /\ r[l] = s[l]
      BY <1>1, <2>1 DEF r
    <3>2. QED
      BY <1>4, <2>1, <3>1 DEF Ascends
  <2>2. CASE k \in 1 .. Len(s) /\ l \notin 1 .. Len(s)
    <3>1. r[k] = s[k] /\ l - Len(s) \in 1 .. Len(t) /\ r[l] = t[l - Len(s)]
      BY <1>1, <1>3, <2>2 DEF r
    <3>2. QED
      BY <2>2, <3>1
  <2>3. CASE k \notin 1 .. Len(s)
    <3>1. /\ k - Len(s) \in 1 .. Len(t) /\ r[k] = t[k - Len(s)]
          /\ l \notin 1 .. Len(s)
      BY <1>1, <1>3, <1>4, <2>3
    <3>2. l - Len(s) \in 1 .. Len(t) /\ r[l] = t[l - Len(s)]
      BY <1>3, <3>1
    <3>3. k - Len(s) < l - Len(s)
      BY <1>1, <1>4
    <3>4. QED
      BY <3>1, <3>2, <3>3 DEF Ascends
  <2>4. QED
    BY <2>1, <2>2, <2>3
<1>5. \A x \in 1 .. Len(r) : (\E k \in 1 .. Len(s) : r[x] = s[k]) \/ (\E k \in 1 .. Len(t) : r[x] = t[k])
  BY <1>3
<1>6. QED
  BY <1>1, <1>4, <1>5 DEF Ascends, r

(* Ascending pieces in ascending order make one ascending sequence of      *)
(* their elements.                                                         *)
LEMMA FlattenAscends ==
  ASSUME NEW ss \in Seq(Seq(Nat)),
         \A i \in 1 .. Len(ss) : Ascends(ss[i]),
         \A i, j \in 1 .. Len(ss) : i < j =>
           \A k \in 1 .. Len(ss[i]), l \in 1 .. Len(ss[j]) : ss[i][k] < ss[j][l]
  PROVE  /\ Spill!FlattenSeq(ss) \in Seq(Nat) /\ Ascends(Spill!FlattenSeq(ss))
         /\ \A x \in 1 .. Len(Spill!FlattenSeq(ss)) :
              \E i \in 1 .. Len(ss) : \E k \in 1 .. Len(ss[i]) : Spill!FlattenSeq(ss)[x] = ss[i][k]
<1>1. Len(ss) \in Nat
  OBVIOUS
<1>2. Spill!FlattenSeq(ss) = IF Len(ss) = 0 THEN ss ELSE Flat(ss)[Len(ss)]
  BY DEF Spill!FlattenSeq, Flat
<1>3. CASE Len(ss) = 0
  <2>1. Spill!FlattenSeq(ss) = <<>>
    BY <1>2, <1>3
  <2>2. QED
    BY <2>1 DEF Ascends
<1>4. CASE Len(ss) # 0
  <2> DEFINE g == Flat(ss)
  <2>1. g = [i \in 1 .. Len(ss) |-> IF i = 1 THEN ss[i] ELSE g[i - 1] \o ss[i]]
    BY FlatExists DEF Flat
  <2> HIDE DEF g
  <2> DEFINE From(y, n) == \E i \in 1 .. n : \E k \in 1 .. Len(ss[i]) : y = ss[i][k]
             Good(n) == /\ g[n] \in Seq(Nat) /\ Ascends(g[n])
                        /\ \A x \in 1 .. Len(g[n]) : From(g[n][x], n)
             Bad == {n \in 1 .. Len(ss) : ~Good(n)}
  <2>2. Bad = {}
    <3>1. SUFFICES ASSUME Bad # {} PROVE FALSE
      OBVIOUS
    <3>2. PICK n \in Bad : \A k \in Bad : n <= k
      <4>1. Bad \subseteq Nat
        BY <1>1
      <4> HIDE DEF Bad
      <4>2. QED
        BY <3>1, <4>1, LeastNatural
    <3>3. n \in 1 .. Len(ss) /\ ~Good(n)
      OBVIOUS
    <3>4. CASE n = 1
      <4>1. g[n] = ss[n] /\ ss[n] \in Seq(Nat)
        BY <1>1, <2>1, <3>3, <3>4
      <4>2. \A x \in 1 .. Len(g[n]) : From(g[n][x], n)
        BY <3>4, <4>1
      <4>3. QED
        BY <3>3, <4>1, <4>2
    <3>5. CASE n # 1
      <4>1. n - 1 \in 1 .. Len(ss) /\ n - 1 < n
        BY <1>1, <3>3, <3>5
      <4>2. Good(n - 1)
        <5>1. n - 1 \notin Bad
          <6> HIDE DEF Bad
          <6>1. QED
            BY <1>1, <3>2, <3>3, <4>1
        <5>2. QED
          BY <4>1, <5>1
      <4>3. g[n] = g[n - 1] \o ss[n] /\ ss[n] \in Seq(Nat)
        <5>1. ss[n] \in Seq(Nat) /\ n \in 1 .. Len(ss)
          BY <3>3
        <5>2. g[n] = IF n = 1 THEN ss[n] ELSE g[n - 1] \o ss[n]
          BY <2>1, <5>1, Zenon
        <5>3. QED
          BY <3>5, <5>1, <5>2
      <4>4. \A k \in 1 .. Len(g[n - 1]), l \in 1 .. Len(ss[n]) : g[n - 1][k] < ss[n][l]
        <5>1. ASSUME NEW k \in 1 .. Len(g[n - 1]), NEW l \in 1 .. Len(ss[n]) PROVE g[n - 1][k] < ss[n][l]
          <6>1. PICK i \in 1 .. n - 1 : \E m \in 1 .. Len(ss[i]) : g[n - 1][k] = ss[i][m]
            BY <4>2
          <6>2. i \in 1 .. Len(ss) /\ i < n
            BY <1>1, <3>3, <6>1
          <6>3. QED
            BY <3>3, <6>1, <6>2
        <5>2. QED
          BY <5>1
      <4>5. g[n] \in Seq(Nat) /\ Ascends(g[n])
        BY <3>3, <4>2, <4>3, <4>4, JoinAscends
      <4>6. ASSUME NEW x \in 1 .. Len(g[n]) PROVE From(g[n][x], n)
        <5>1. \/ \E k \in 1 .. Len(g[n - 1]) : g[n][x] = g[n - 1][k]
              \/ \E k \in 1 .. Len(ss[n]) : g[n][x] = ss[n][k]
          <6>1. \A y \in 1 .. Len(g[n - 1] \o ss[n]) :
                  \/ \E k \in 1 .. Len(g[n - 1]) : (g[n - 1] \o ss[n])[y] = g[n - 1][k]
                  \/ \E k \in 1 .. Len(ss[n]) : (g[n - 1] \o ss[n])[y] = ss[n][k]
            BY <3>3, <4>2, <4>3, <4>4, JoinAscends
          <6>2. QED
            BY <4>3, <4>6, <6>1
        <5>2. CASE \E k \in 1 .. Len(g[n - 1]) : g[n][x] = g[n - 1][k]
          <6>1. From(g[n][x], n - 1)
            <7>1. PICK k \in 1 .. Len(g[n - 1]) : g[n][x] = g[n - 1][k]
              BY <5>2
            <7>2. From(g[n - 1][k], n - 1)
              BY <4>2
            <7> HIDE DEF From
            <7>3. QED
              BY <7>1, <7>2
          <6>2. 1 .. n - 1 \subseteq 1 .. n
            BY <3>3
          <6>3. QED
            BY <6>1, <6>2
        <5>3. CASE \E k \in 1 .. Len(ss[n]) : g[n][x] = ss[n][k]
          <6>1. n \in 1 .. n
            BY <3>3
          <6>2. QED
            BY <5>3, <6>1
        <5>4. QED
          BY <5>1, <5>2, <5>3
      <4>7. QED
        BY <3>3, <4>5, <4>6
    <3>6. QED
      BY <3>4, <3>5
  <2>3. Len(ss) \in 1 .. Len(ss) /\ Spill!FlattenSeq(ss) = g[Len(ss)]
    BY <1>1, <1>2, <1>4 DEF g
  <2>4. Good(Len(ss))
    BY <2>2, <2>3
  <2>5. /\ g[Len(ss)] \in Seq(Nat) /\ Ascends(g[Len(ss)])
        /\ \A x \in 1 .. Len(g[Len(ss)]) :
             \E i \in 1 .. Len(ss) : \E k \in 1 .. Len(ss[i]) : g[Len(ss)][x] = ss[i][k]
    BY <2>4
  <2> HIDE DEF g
  <2>6. Spill!FlattenSeq(ss) \in Seq(Nat) /\ Ascends(Spill!FlattenSeq(ss))
    BY <2>3, <2>5
  <2>7. ASSUME NEW x \in 1 .. Len(Spill!FlattenSeq(ss))
        PROVE  \E i \in 1 .. Len(ss) : \E k \in 1 .. Len(ss[i]) : Spill!FlattenSeq(ss)[x] = ss[i][k]
    <3>1. x \in 1 .. Len(g[Len(ss)]) /\ Spill!FlattenSeq(ss)[x] = g[Len(ss)][x]
      BY <2>3
    <3>2. PICK i \in 1 .. Len(ss) : \E k \in 1 .. Len(ss[i]) : g[Len(ss)][x] = ss[i][k]
      BY <2>5, <3>1
    <3>3. QED
      BY <3>1, <3>2
  <2>8. QED
    BY <2>6, <2>7
<1>5. QED
  BY <1>3, <1>4

(* What the open constructs hold is in as many slots, each of one of them. *)
LEMMA LiveIs ==
  ASSUME NEW cs \in Seq(Construct), NEW n, Ascend(cs, n)
  PROVE  /\ Spill!IsInjective(Spill!Live(cs))
         /\ \A x \in Spill!Range(Spill!Live(cs)) :
              \E i \in 1 .. Len(cs) : \E k \in 1 .. Len(cs[i].slots) : x = cs[i].slots[k]
<1> DEFINE ss == [i \in DOMAIN cs |-> Spill!Held(cs[i])]
<1>1. /\ DOMAIN cs = 1 .. Len(cs) /\ Len(cs) \in Nat
      /\ \A i \in 1 .. Len(cs) : cs[i] \in Construct /\ cs[i].slots \in Seq(Nat)
  <2>1. DOMAIN cs = 1 .. Len(cs) /\ Len(cs) \in Nat /\ \A i \in 1 .. Len(cs) : cs[i] \in Construct
    OBVIOUS
  <2>2. QED
    BY <2>1 DEF Construct
<1>2. \A i \in 1 .. Len(cs) : Spill!Held(cs[i]) = cs[i].slots \/ Spill!Held(cs[i]) = <<>>
  BY DEF Spill!Held
<1>3. ss \in Seq(Seq(Nat)) /\ Len(ss) = Len(cs) /\ \A i \in 1 .. Len(cs) : ss[i] = Spill!Held(cs[i])
  <2>1. \A i \in 1 .. Len(cs) : Spill!Held(cs[i]) \in Seq(Nat)
    <3>1. <<>> \in Seq(Nat)
      OBVIOUS
    <3>2. QED
      BY <1>1, <1>2, <3>1, Zenon
  <2>2. QED
    BY <1>1, <2>1
<1> HIDE DEF ss
<1>12. \A i \in 1 .. Len(ss) : i \in 1 .. Len(cs) /\ (ss[i] = cs[i].slots \/ Len(ss[i]) = 0)
  <2>1. Len(<<>>) = 0
    OBVIOUS
  <2>2. \A i \in 1 .. Len(ss) : i \in 1 .. Len(cs) /\ ss[i] = Spill!Held(cs[i])
    BY <1>3
  <2>3. \A i \in 1 .. Len(ss) : ss[i] = cs[i].slots \/ ss[i] = <<>>
    BY <1>2, <2>2, Zenon
  <2>4. QED
    BY <2>1, <2>2, <2>3
<1>4. \A i \in 1 .. Len(ss) : Ascends(ss[i])
  <2>1. ASSUME NEW i \in 1 .. Len(ss) PROVE Ascends(ss[i])
    <3>1. ss[i] = cs[i].slots \/ ss[i] = <<>>
      BY <1>2, <1>3
    <3>2. Ascends(cs[i].slots)
      BY <1>3 DEF Ascend, Ascends
    <3>3. Ascends(<<>>)
      BY DEF Ascends
    <3>4. QED
      BY <3>1, <3>2, <3>3
  <2>2. QED
    BY <2>1
<1>5. ASSUME NEW i \in 1 .. Len(ss), NEW j \in 1 .. Len(ss), i < j,
             NEW k \in 1 .. Len(ss[i]), NEW l \in 1 .. Len(ss[j])
      PROVE  ss[i][k] < ss[j][l]
  <2>1. Len(ss[i]) # 0 /\ Len(ss[j]) # 0
    <3>1. \A m : m \in 1 .. 0 => FALSE
      OBVIOUS
    <3>2. k \in 1 .. Len(ss[i]) /\ l \in 1 .. Len(ss[j])
      OBVIOUS
    <3>3. QED
      BY <3>1, <3>2, Zenon
  <2>2. ss[i] = cs[i].slots /\ ss[j] = cs[j].slots
    BY <1>12, <2>1
  <2>3. i \in 1 .. Len(cs) /\ j \in 1 .. Len(cs)
    BY <1>12
  <2>4. \A x, y \in 1 .. Len(cs) : x < y =>
          \A v \in 1 .. Len(cs[x].slots), z \in 1 .. Len(cs[y].slots) : cs[x].slots[v] < cs[y].slots[z]
    BY DEF Ascend
  <2>5. QED
    BY <1>5, <2>2, <2>3, <2>4
<1>6. Spill!Live(cs) = Spill!FlattenSeq(ss)
  BY DEF Spill!Live, ss
<1>7. /\ Spill!Live(cs) \in Seq(Nat) /\ Ascends(Spill!Live(cs))
      /\ \A x \in 1 .. Len(Spill!Live(cs)) :
           \E i \in 1 .. Len(ss) : \E k \in 1 .. Len(ss[i]) : Spill!Live(cs)[x] = ss[i][k]
  <2>1. \A i, j \in 1 .. Len(ss) : i < j =>
          \A k \in 1 .. Len(ss[i]), l \in 1 .. Len(ss[j]) : ss[i][k] < ss[j][l]
    BY <1>5
  <2>2. Spill!FlattenSeq(ss) \in Seq(Nat) /\ Ascends(Spill!FlattenSeq(ss))
    BY <1>3, <1>4, <2>1, FlattenAscends
  <2>3. \A x \in 1 .. Len(Spill!FlattenSeq(ss)) :
          \E i \in 1 .. Len(ss) : \E k \in 1 .. Len(ss[i]) : Spill!FlattenSeq(ss)[x] = ss[i][k]
    BY <1>3, <1>4, <2>1, FlattenAscends
  <2>4. QED
    BY <1>6, <2>2, <2>3
<1>8. DOMAIN Spill!Live(cs) = 1 .. Len(Spill!Live(cs)) /\ Len(Spill!Live(cs)) \in Nat
  BY <1>7
<1>9. Spill!IsInjective(Spill!Live(cs))
  <2>1. ASSUME NEW k \in 1 .. Len(Spill!Live(cs)), NEW l \in 1 .. Len(Spill!Live(cs)), k # l
        PROVE  Spill!Live(cs)[k] # Spill!Live(cs)[l]
    <3>1. Spill!Live(cs)[k] \in Nat /\ Spill!Live(cs)[l] \in Nat
      BY <1>7
    <3>2. k < l \/ l < k
      BY <1>8, <2>1
    <3>3. QED
      BY <1>7, <3>1, <3>2 DEF Ascends
  <2>2. QED
    BY <1>8, <2>1 DEF Spill!IsInjective
<1>10. ASSUME NEW x \in Spill!Range(Spill!Live(cs))
       PROVE  \E i \in 1 .. Len(cs) : \E k \in 1 .. Len(cs[i].slots) : x = cs[i].slots[k]
  <2>1. PICK y \in 1 .. Len(Spill!Live(cs)) : x = Spill!Live(cs)[y]
    BY <1>8 DEF Spill!Range
  <2>2. PICK i \in 1 .. Len(ss) : \E k \in 1 .. Len(ss[i]) : x = ss[i][k]
    BY <1>7, <2>1
  <2>3. PICK k \in 1 .. Len(ss[i]) : x = ss[i][k]
    BY <2>2
  <2>4. ss[i] = cs[i].slots
    <3>1. Len(ss[i]) # 0
      BY <1>3, <2>3
    <3>2. QED
      BY <1>12, <3>1
  <2>5. i \in 1 .. Len(cs)
    BY <1>12
  <2>6. QED
    BY <2>3, <2>4, <2>5
<1>11. QED
  BY <1>9, <1>10

---------------------------------------------------------------------------
(* What the operations do.                                                 *)

AtLeast(t, S) == \A x \in S : x \in Nat /\ t <= x

(* q is the pool p with its cursor at t.                                   *)
Moved(p, new, t) ==
  /\ new \in Pool /\ new.next = t
  /\ new.scope = p.scope /\ new.sticky = p.sticky /\ new.enter = p.enter

LEMMA AboveIs == ASSUME NEW t \in Nat, NEW n \in Nat PROVE AtLeast(t, t .. n - 1)
  BY DEF AtLeast

LEMMA LimIs == ASSUME NEW p \in Pool PROVE Spill!Lim(p) \in Nat
<1>1. p.high \in Nat /\ p.next \in Nat /\ p.size \in Nat
  BY DEF Pool
<1>2. Spill!Max({p.high, p.next}) \in Nat
  BY <1>1, MaxOfTwo
<1>3. QED
  BY <1>1, <1>2, MinOfTwo DEF Spill!Lim

LEMMA OrElseIs ==
  ASSUME NEW s \in Seq(Nat), NEW d \in Nat
  PROVE  /\ Spill!OrElse(s, d) \in Nat
         /\ Len(s) # 0 => Spill!OrElse(s, d) = s[Len(s)]
         /\ Len(s) = 0 => Spill!OrElse(s, d) = d
<1>1. CASE Len(s) = 0
  BY <1>1 DEF Spill!OrElse
<1>2. CASE Len(s) # 0
  BY <1>2, FrontIs DEF Spill!OrElse
<1>3. QED
  BY <1>1, <1>2

LEMMA RewindIs ==
  ASSUME NEW p \in Pool, NEW t \in Nat
  PROVE  Moved(p, Spill!Rewind(p, t).pool, t) /\ AtLeast(t, Spill!Rewind(p, t).nulled)
<1>1. Spill!Min({p.high, t}) \in Nat
  BY MinOfTwo DEF Pool
<1>2. Spill!Rewind(p, t).pool = [p EXCEPT !.next = t, !.high = Spill!Min({p.high, t})]
  BY DEF Spill!Rewind, Spill!Op
<1>3. Spill!Rewind(p, t).nulled = t .. Spill!Lim(p) - 1
  BY DEF Spill!Rewind, Spill!Op
<1>4. Moved(p, Spill!Rewind(p, t).pool, t)
  BY <1>1, <1>2 DEF Moved, Pool
<1>5. AtLeast(t, Spill!Rewind(p, t).nulled)
  BY <1>3, LimIs, AboveIs
<1>6. QED
  BY <1>4, <1>5

(* Where clearLoopSpillSlots puts the cursor.                              *)
ClearsTo(p, t) ==
  /\ t \in Nat
  /\ Len(p.scope) # 0 => p.scope[Len(p.scope)] <= t
  /\ Len(p.sticky) # 0 => p.sticky[Len(p.sticky)] <= t
  /\ t \in {Spill!OrElse(p.scope, 0), Spill!OrElse(p.sticky, 0)}

LEMMA ClearIs ==
  ASSUME NEW p \in Pool
  PROVE  \E t : ClearsTo(p, t) /\ Moved(p, Spill!Clear(p).pool, t) /\ AtLeast(t, Spill!Clear(p).nulled)
<1> DEFINE t == Spill!Max({Spill!OrElse(p.scope, 0), Spill!OrElse(p.sticky, 0)})
<1>1. p.scope \in Seq(Nat) /\ p.sticky \in Seq(Nat) /\ 0 \in Nat
  BY DEF Pool
<1>2. /\ Spill!OrElse(p.scope, 0) \in Nat /\ Spill!OrElse(p.sticky, 0) \in Nat
      /\ Len(p.scope) # 0 => Spill!OrElse(p.scope, 0) = p.scope[Len(p.scope)]
      /\ Len(p.sticky) # 0 => Spill!OrElse(p.sticky, 0) = p.sticky[Len(p.sticky)]
  BY <1>1, OrElseIs
<1>3. /\ t \in {Spill!OrElse(p.scope, 0), Spill!OrElse(p.sticky, 0)}
      /\ t >= Spill!OrElse(p.scope, 0) /\ t >= Spill!OrElse(p.sticky, 0)
  BY <1>2, MaxOfTwo
<1>4. Spill!Clear(p) = Spill!Rewind(p, t)
  BY DEF Spill!Clear
<1> HIDE DEF t
<1>5. t \in Nat
  BY <1>2, <1>3
<1>6. ClearsTo(p, t)
  BY <1>2, <1>3, <1>5 DEF ClearsTo
<1>7. Moved(p, Spill!Clear(p).pool, t) /\ AtLeast(t, Spill!Clear(p).nulled)
  BY <1>4, <1>5, RewindIs
<1>8. QED
  BY <1>6, <1>7

LEMMA RecycleIs ==
  ASSUME NEW p \in Pool, Len(p.sticky) # 0
  PROVE  /\ p.sticky[Len(p.sticky)] \in Nat
         /\ Moved(p, Spill!Recycle(p).pool, p.sticky[Len(p.sticky)])
         /\ AtLeast(p.sticky[Len(p.sticky)], Spill!Recycle(p).nulled)
<1>1. p.scope \in Seq(Nat) /\ p.sticky \in Seq(Nat) /\ 0 \in Nat
  BY DEF Pool
<1>2. Spill!OrElse(p.scope, 0) \in Nat
  BY <1>1, OrElseIs
<1>3. Spill!OrElse(p.sticky, Spill!OrElse(p.scope, 0)) = p.sticky[Len(p.sticky)] /\ p.sticky[Len(p.sticky)] \in Nat
  BY <1>1, <1>2, OrElseIs
<1>4. Spill!Recycle(p) = Spill!Rewind(p, p.sticky[Len(p.sticky)])
  BY <1>3 DEF Spill!Recycle
<1>5. QED
  BY <1>3, <1>4, RewindIs

LEMMA UnpinIs ==
  ASSUME NEW p \in Pool, Len(p.sticky) # 0
  PROVE  /\ Spill!Unpin(p).pool \in Pool
         /\ Spill!Unpin(p).pool.scope = p.scope /\ Spill!Unpin(p).pool.enter = p.enter
         /\ Spill!Unpin(p).pool.sticky = Spill!Front(p.sticky)
         /\ AtLeast(p.sticky[Len(p.sticky)], Spill!Unpin(p).nulled)
<1>1. p.sticky \in Seq(Nat) /\ p.sticky # <<>> /\ p.next \in Nat /\ p.size \in Nat
  BY DEF Pool
<1> DEFINE s == p.sticky[Len(p.sticky)]
<1>2. Spill!Front(p.sticky) \in Seq(Nat) /\ Spill!Last(p.sticky) = s /\ s \in Nat
  BY <1>1, FrontOfNats
<1> HIDE DEF s
<1>3. Spill!Max({p.next, s}) \in Nat
  BY <1>1, <1>2, MaxOfTwo
<1>4. Spill!Min({Spill!Max({p.next, s}), p.size}) \in Nat
  BY <1>1, <1>3, MinOfTwo
<1>5. /\ Spill!Unpin(p).pool = [p EXCEPT !.next = s, !.sticky = Spill!Front(p.sticky)]
      /\ Spill!Unpin(p).nulled = s .. Spill!Min({Spill!Max({p.next, s}), p.size}) - 1
  BY <1>1, <1>2 DEF Spill!Unpin, Spill!Op
<1>6. AtLeast(s, Spill!Unpin(p).nulled)
  BY <1>2, <1>4, <1>5, AboveIs
<1>7. QED
  BY <1>2, <1>5, <1>6 DEF Pool, s

LEMMA LeaveIs ==
  ASSUME NEW p \in Pool, Len(p.scope) # 0, Len(p.enter) # 0, p.enter[Len(p.enter)] <= Len(p.sticky)
  PROVE  /\ Spill!LeaveScope(p).pool \in Pool
         /\ AtLeast(p.scope[Len(p.scope)], Spill!LeaveScope(p).nulled)
         /\ Len(p.scope) = 1 => Spill!LeaveScope(p).pool.scope = <<>> /\ Spill!LeaveScope(p).pool.enter = <<>>
         /\ Len(p.scope) # 1 =>
              /\ Spill!LeaveScope(p).pool.next = p.scope[Len(p.scope)]
              /\ Spill!LeaveScope(p).pool.scope = Spill!Front(p.scope)
              /\ Spill!LeaveScope(p).pool.enter = Spill!Front(p.enter)
              /\ Spill!LeaveScope(p).pool.sticky = SubSeq(p.sticky, 1, p.enter[Len(p.enter)])
<1> DEFINE base == p.scope[Len(p.scope)]
           bot == p.enter[Len(p.enter)]
           new == [p EXCEPT !.next = base, !.high = Spill!Min({p.high, base}), !.scope = Spill!Front(p.scope),
                          !.sticky = SubSeq(p.sticky, 1, bot),
                          !.enter = Spill!Front(p.enter), !.floor = Spill!Front(p.floor)]
<1>1. /\ p.scope \in Seq(Nat) /\ p.enter \in Seq(Nat) /\ p.sticky \in Seq(Nat)
      /\ p.high \in Nat /\ p.floor \in Seq(Nat)
  BY DEF Pool
<1>2. /\ Spill!Front(p.scope) \in Seq(Nat) /\ (Spill!Front(p.scope) = <<>> <=> Len(p.scope) = 1)
      /\ Spill!Last(p.scope) = base /\ base \in Nat
  <2>1. Spill!Front(p.scope) \in Seq(Nat) /\ Spill!Last(p.scope) = base /\ base \in Nat
    BY <1>1, FrontOfNats
  <2>2. Spill!Front(p.scope) = <<>> <=> Len(p.scope) = 1
    BY <1>1, FrontOfNats
  <2>3. QED
    BY <2>1, <2>2
<1>3. Spill!Front(p.enter) \in Seq(Nat) /\ Spill!Last(p.enter) = bot /\ bot \in Nat
  BY <1>1, FrontOfNats
<1>4. SubSeq(p.sticky, 1, bot) \in Seq(Nat)
  <2>1. bot \in 0 .. Len(p.sticky)
    BY <1>1, <1>3
  <2>2. QED
    BY <1>1, <2>1, PrefixIs
<1>5. Spill!Min({p.high, base}) \in Nat
  BY <1>1, <1>2, MinOfTwo
<1>6. Spill!Front(p.floor) \in Seq(Nat)
  BY <1>1, FrontOfNats
<1>7. /\ Spill!LeaveScope(p).pool = IF new.scope = <<>> THEN Spill!NoPool ELSE new
      /\ Spill!LeaveScope(p).nulled = base .. Spill!Lim(p) - 1
  BY <1>2, <1>3, Zenon DEF Spill!LeaveScope, Spill!Op
<1>8. /\ new \in Pool /\ new.scope = Spill!Front(p.scope) /\ new.enter = Spill!Front(p.enter) /\ new.next = base
      /\ new.sticky = SubSeq(p.sticky, 1, bot)
  BY <1>2, <1>3, <1>4, <1>5, <1>6 DEF Pool
<1> HIDE DEF new, base, bot
<1>9. Spill!NoPool \in Pool /\ Spill!NoPool.scope = <<>> /\ Spill!NoPool.enter = <<>>
  BY DEF Spill!NoPool, Pool
<1>10. new.scope = <<>> <=> Len(p.scope) = 1
  BY <1>2, <1>8
<1>11. AtLeast(base, Spill!LeaveScope(p).nulled)
  BY <1>2, <1>7, LimIs, AboveIs
<1>12. CASE Len(p.scope) = 1
  <2>1. Spill!LeaveScope(p).pool = Spill!NoPool
    BY <1>7, <1>10, <1>12
  <2>2. QED
    BY <1>9, <1>11, <1>12, <2>1 DEF base
<1>13. CASE Len(p.scope) # 1
  <2>1. Spill!LeaveScope(p).pool = new
    BY <1>7, <1>10, <1>13
  <2>2. QED
    BY <1>8, <1>11, <1>13, <2>1 DEF base, bot
<1>14. QED
  BY <1>12, <1>13

---------------------------------------------------------------------------
(* Opening and closing constructs.                                         *)

LEMMA ConstructIs ==
  ASSUME NEW cs \in Seq(Construct)
  PROVE  /\ Len(cs) \in Nat
         /\ \A i \in 1 .. Len(cs) : /\ cs[i] \in Construct /\ cs[i].slots \in Seq(Nat)
                                    /\ Len(cs[i].slots) \in Nat
                                    /\ \A k \in 1 .. Len(cs[i].slots) : cs[i].slots[k] \in Nat
<1>1. Len(cs) \in Nat /\ \A i \in 1 .. Len(cs) : cs[i] \in Construct
  OBVIOUS
<1>2. \A i \in 1 .. Len(cs) : cs[i].slots \in Seq(Nat)
  BY <1>1 DEF Construct
<1>3. \A s \in Seq(Nat) : Len(s) \in Nat /\ \A k \in 1 .. Len(s) : s[k] \in Nat
  OBVIOUS
<1>4. QED
  BY <1>1, <1>2, <1>3

LEMMA PoolIs ==
  ASSUME NEW p \in Pool
  PROVE  /\ p.next \in Nat /\ p.high \in Nat /\ p.size \in Nat
         /\ p.scope \in Seq(Nat) /\ p.enter \in Seq(Nat) /\ p.sticky \in Seq(Nat)
         /\ Len(p.scope) \in Nat /\ Len(p.enter) \in Nat /\ Len(p.sticky) \in Nat
         /\ \A j \in 1 .. Len(p.scope) : p.scope[j] \in Nat
         /\ \A j \in 1 .. Len(p.enter) : p.enter[j] \in Nat
         /\ \A j \in 1 .. Len(p.sticky) : p.sticky[j] \in Nat
<1>1. /\ p.next \in Nat /\ p.high \in Nat /\ p.size \in Nat
      /\ p.scope \in Seq(Nat) /\ p.enter \in Seq(Nat) /\ p.sticky \in Seq(Nat)
  BY DEF Pool
<1>2. \A s \in Seq(Nat) : Len(s) \in Nat /\ \A k \in 1 .. Len(s) : s[k] \in Nat
  OBVIOUS
<1>3. QED
  BY <1>1, <1>2

(* The slots a construct holds lie between two places of the cursor.       *)
Between(c, n, t) ==
  /\ \A k \in 1 .. Len(c.slots) : n <= c.slots[k] /\ c.slots[k] < t
  /\ \A k, l \in 1 .. Len(c.slots) : k < l => c.slots[k] < c.slots[l]

LEMMA AscendPush ==
  ASSUME NEW cs \in Seq(Construct), NEW c \in Construct, NEW n \in Nat, NEW t \in Nat,
         Ascend(cs, n), n <= t, Between(c, n, t)
  PROVE  Append(cs, c) \in Seq(Construct) /\ Ascend(Append(cs, c), t)
<1> DEFINE ds == Append(cs, c)
<1>1. /\ ds \in Seq(Construct) /\ Len(ds) = Len(cs) + 1 /\ Len(cs) \in Nat
      /\ \A i \in 1 .. Len(cs) : ds[i] = cs[i]
      /\ ds[Len(cs) + 1] = c
  BY AppendIs
<1> HIDE DEF ds
<1>2. \A i \in 1 .. Len(ds) : (i \in 1 .. Len(cs) /\ ds[i] = cs[i]) \/ (i = Len(cs) + 1 /\ ds[i] = c)
  BY <1>1
<1>3. \A i \in 1 .. Len(cs) : \A k \in 1 .. Len(cs[i].slots) : cs[i].slots[k] \in Nat
  BY ConstructIs
<1>4. \A k \in 1 .. Len(c.slots) : c.slots[k] \in Nat
  BY DEF Construct
<1>5. ASSUME NEW i \in 1 .. Len(ds) PROVE \A k \in 1 .. Len(ds[i].slots) : ds[i].slots[k] < t
  <2>1. CASE ds[i] = c
    BY <2>1 DEF Between
  <2>2. CASE i \in 1 .. Len(cs) /\ ds[i] = cs[i]
    <3>1. \A k \in 1 .. Len(cs[i].slots) : cs[i].slots[k] < n /\ cs[i].slots[k] \in Nat
      BY <1>3, <2>2 DEF Ascend
    <3>2. QED
      BY <2>2, <3>1
  <2>3. QED
    BY <1>2, <2>1, <2>2
<1>6. ASSUME NEW i \in 1 .. Len(ds), NEW k \in 1 .. Len(ds[i].slots), NEW l \in 1 .. Len(ds[i].slots), k < l
      PROVE  ds[i].slots[k] < ds[i].slots[l]
  <2>1. CASE ds[i] = c
    BY <1>6, <2>1 DEF Between
  <2>2. CASE i \in 1 .. Len(cs) /\ ds[i] = cs[i]
    BY <1>6, <2>2 DEF Ascend
  <2>3. QED
    BY <1>2, <2>1, <2>2
<1>7. ASSUME NEW i \in 1 .. Len(ds), NEW j \in 1 .. Len(ds), i < j,
             NEW k \in 1 .. Len(ds[i].slots), NEW l \in 1 .. Len(ds[j].slots)
      PROVE  ds[i].slots[k] < ds[j].slots[l]
  <2>1. i \in 1 .. Len(cs) /\ ds[i] = cs[i]
    BY <1>1, <1>2, <1>7
  <2>2. CASE j \in 1 .. Len(cs) /\ ds[j] = cs[j]
    BY <1>7, <2>1, <2>2 DEF Ascend
  <2>3. CASE ds[j] = c
    <3>1. cs[i].slots[k] < n /\ cs[i].slots[k] \in Nat
      BY <1>3, <1>7, <2>1 DEF Ascend
    <3>2. n <= c.slots[l] /\ c.slots[l] \in Nat
      BY <1>4, <1>7, <2>3 DEF Between
    <3>3. cs[i].slots[k] < c.slots[l]
      BY <3>1, <3>2, Through, Zenon
    <3>4. QED
      BY <2>1, <2>3, <3>3, Zenon
  <2>4. QED
    BY <1>2, <2>2, <2>3
<1>8. Ascend(ds, t)
  BY <1>5, <1>6, <1>7 DEF Ascend
<1>9. QED
  BY <1>1, <1>8 DEF ds

LEMMA AscendPop ==
  ASSUME NEW cs \in Seq(Construct), NEW n, Ascend(cs, n), Len(cs) # 0
  PROVE  Spill!Front(cs) \in Seq(Construct) /\ Ascend(Spill!Front(cs), n)
<1>1. /\ Len(cs) \in Nat \ {0} /\ Spill!Front(cs) \in Seq(Construct) /\ Len(Spill!Front(cs)) = Len(cs) - 1
      /\ \A i \in 1 .. Len(cs) - 1 : Spill!Front(cs)[i] = cs[i]
  BY FrontIs
<1>2. \A i \in 1 .. Len(cs) - 1 : i \in 1 .. Len(cs)
  BY <1>1
<1>3. QED
  BY <1>1, <1>2 DEF Ascend

LEMMA AscendTo ==
  ASSUME NEW cs, NEW n, NEW t, Ascend(cs, n),
         \A i \in 1 .. Len(cs) : \A k \in 1 .. Len(cs[i].slots) : cs[i].slots[k] < t
  PROVE  Ascend(cs, t)
  BY DEF Ascend

LEMMA NumberPush ==
  ASSUME NEW cs \in Seq(Construct), NEW c \in Construct, NEW f \in Seq(Nat),
         Numbered(cs, f), ~IsLoop(c), Len(cs) # 0
  PROVE  Numbered(Append(cs, c), f)
<1> DEFINE ds == Append(cs, c)
<1>1. /\ Len(ds) = Len(cs) + 1 /\ Len(cs) \in Nat
      /\ \A i \in 1 .. Len(cs) : ds[i] = cs[i]
      /\ ds[Len(cs) + 1] = c
  BY AppendIs
<1> HIDE DEF ds
<1>2. \A i \in 1 .. Len(ds) : (i \in 1 .. Len(cs) /\ ds[i] = cs[i]) \/ (i = Len(cs) + 1 /\ ds[i] = c)
  BY <1>1
<1>3. \A j \in 1 .. Len(f) : f[j] \in 1 .. Len(ds) /\ IsLoop(ds[f[j]])
  <2>1. \A j \in 1 .. Len(f) : f[j] \in 1 .. Len(cs) /\ IsLoop(cs[f[j]])
    BY DEF Numbered
  <2>2. \A i \in 1 .. Len(cs) : i \in 1 .. Len(ds) /\ ds[i] = cs[i]
    BY <1>1
  <2>3. QED
    BY <2>1, <2>2
<1>4. ASSUME NEW i \in 1 .. Len(ds), IsLoop(ds[i]) PROVE \E j \in 1 .. Len(f) : f[j] = i
  BY <1>2, <1>4 DEF Numbered
<1>5. Len(ds) > 0 => IsLoop(ds[1])
  <2>1. 1 \in 1 .. Len(cs) /\ Len(cs) > 0
    BY <1>1
  <2>2. QED
    BY <1>1, <2>1 DEF Numbered
<1>6. \A i \in 1 .. Len(ds) : ds[i].kind = "while" /\ ds[i].at = "body" => Len(ds[i].slots) = 0
  BY <1>2 DEF Numbered, IsLoop
<1>7. \A i \in 1 .. Len(ds) : ds[i].kind = "for" => ds[i].at = "body" /\ Len(ds[i].slots) \in {1, 2}
  BY <1>2 DEF Numbered, IsLoop
<1>8. \A j, k \in 1 .. Len(f) : j < k => f[j] < f[k]
  BY DEF Numbered
<1>9. QED
  BY <1>3, <1>4, <1>5, <1>6, <1>7, <1>8 DEF Numbered, ds

LEMMA NumberLoop ==
  ASSUME NEW cs \in Seq(Construct), NEW c \in Construct, NEW f \in Seq(Nat),
         Numbered(cs, f), IsLoop(c), c.kind = "while" => Len(c.slots) = 0,
         c.kind = "for" => c.at = "body" /\ Len(c.slots) \in {1, 2}
  PROVE  Numbered(Append(cs, c), Append(f, Len(cs) + 1))
<1> DEFINE ds == Append(cs, c)
           g == Append(f, Len(cs) + 1)
<1>1. /\ Len(ds) = Len(cs) + 1 /\ Len(cs) \in Nat
      /\ \A i \in 1 .. Len(cs) : ds[i] = cs[i]
      /\ ds[Len(cs) + 1] = c
  BY AppendIs
<1>2. /\ Len(g) = Len(f) + 1 /\ Len(f) \in Nat
      /\ \A i \in 1 .. Len(f) : g[i] = f[i]
      /\ g[Len(f) + 1] = Len(cs) + 1
  BY <1>1, AppendIs
<1> HIDE DEF ds, g
<1>3. \A i \in 1 .. Len(ds) : (i \in 1 .. Len(cs) /\ ds[i] = cs[i]) \/ (i = Len(cs) + 1 /\ ds[i] = c)
  BY <1>1
<1>4. \A j \in 1 .. Len(g) : (j \in 1 .. Len(f) /\ g[j] = f[j]) \/ (j = Len(f) + 1 /\ g[j] = Len(cs) + 1)
  BY <1>2
<1>5. \A j \in 1 .. Len(f) : f[j] \in 1 .. Len(cs) /\ IsLoop(cs[f[j]])
  BY DEF Numbered
<1>6. ASSUME NEW j \in 1 .. Len(g) PROVE g[j] \in 1 .. Len(ds) /\ IsLoop(ds[g[j]])
  <2>1. CASE j \in 1 .. Len(f) /\ g[j] = f[j]
    <3>1. f[j] \in 1 .. Len(cs) /\ IsLoop(cs[f[j]])
      BY <1>5, <2>1
    <3>2. ds[f[j]] = cs[f[j]] /\ f[j] \in 1 .. Len(ds)
      BY <1>1, <3>1
    <3>3. QED
      BY <2>1, <3>1, <3>2
  <2>2. CASE g[j] = Len(cs) + 1
    <3>1. Len(cs) + 1 \in 1 .. Len(ds)
      BY <1>1
    <3>2. QED
      BY <1>1, <2>2, <3>1
  <2>3. QED
    BY <1>4, <2>1, <2>2
<1>7. ASSUME NEW j \in 1 .. Len(g), NEW k \in 1 .. Len(g), j < k PROVE g[j] < g[k]
  <2>1. j \in 1 .. Len(f) /\ g[j] = f[j] /\ f[j] \in 1 .. Len(cs)
    BY <1>2, <1>4, <1>5, <1>7
  <2>2. CASE k \in 1 .. Len(f) /\ g[k] = f[k]
    BY <1>7, <2>1, <2>2 DEF Numbered
  <2>3. CASE g[k] = Len(cs) + 1
    BY <1>1, <2>1, <2>3
  <2>4. QED
    BY <1>4, <2>2, <2>3
<1>8. ASSUME NEW i \in 1 .. Len(ds), IsLoop(ds[i]) PROVE \E j \in 1 .. Len(g) : g[j] = i
  <2>1. CASE i \in 1 .. Len(cs) /\ ds[i] = cs[i]
    <3>1. PICK j \in 1 .. Len(f) : f[j] = i
      BY <1>8, <2>1 DEF Numbered
    <3>2. j \in 1 .. Len(g) /\ g[j] = i
      BY <1>2, <3>1
    <3>3. QED
      BY <3>2
  <2>2. CASE i = Len(cs) + 1
    <3>1. Len(f) + 1 \in 1 .. Len(g)
      BY <1>2
    <3>2. QED
      BY <1>2, <2>2, <3>1
  <2>3. QED
    BY <1>3, <2>1, <2>2
<1>9. Len(ds) > 0 => IsLoop(ds[1])
  <2>1. CASE Len(cs) = 0
    BY <1>1, <2>1
  <2>2. CASE Len(cs) # 0
    <3>1. 1 \in 1 .. Len(cs) /\ Len(cs) > 0
      BY <1>1, <2>2
    <3>2. QED
      BY <1>1, <3>1 DEF Numbered
  <2>3. QED
    BY <2>1, <2>2
<1>10. \A i \in 1 .. Len(ds) : ds[i].kind = "while" /\ ds[i].at = "body" => Len(ds[i].slots) = 0
  BY <1>3 DEF Numbered
<1>11. \A i \in 1 .. Len(ds) : ds[i].kind = "for" => ds[i].at = "body" /\ Len(ds[i].slots) \in {1, 2}
  BY <1>3 DEF Numbered
<1>12. QED
  BY <1>6, <1>7, <1>8, <1>9, <1>10, <1>11 DEF Numbered, ds, g

LEMMA NumberPop ==
  ASSUME NEW cs \in Seq(Construct), NEW f \in Seq(Nat), Numbered(cs, f), Len(cs) # 0
  PROVE  /\ ~IsLoop(cs[Len(cs)]) =>
              Numbered(Spill!Front(cs), f) /\ Len(cs) # 1 /\ \A j \in 1 .. Len(f) : f[j] < Len(cs)
         /\ IsLoop(cs[Len(cs)]) =>
              /\ Len(f) \in Nat \ {0} /\ f[Len(f)] = Len(cs) /\ Numbered(Spill!Front(cs), Spill!Front(f))
              /\ Len(f) = 1 => Len(cs) = 1
<1> DEFINE ds == Spill!Front(cs)
<1>1. /\ Len(cs) \in Nat \ {0} /\ Len(ds) = Len(cs) - 1
      /\ \A i \in 1 .. Len(cs) - 1 : ds[i] = cs[i]
  BY FrontIs
<1>2. Len(f) \in Nat /\ \A j \in 1 .. Len(f) : f[j] \in Nat
  OBVIOUS
<1> HIDE DEF ds
<1>3. \A i \in 1 .. Len(ds) : i \in 1 .. Len(cs) /\ ds[i] = cs[i] /\ i < Len(cs)
  BY <1>1
<1>4. \A j \in 1 .. Len(f) : f[j] \in 1 .. Len(cs) /\ IsLoop(cs[f[j]])
  BY DEF Numbered
<1>5. IsLoop(cs[1]) /\ Len(cs) \in 1 .. Len(cs) /\ 1 \in 1 .. Len(cs)
  BY <1>1 DEF Numbered
<1>6. Len(ds) > 0 => IsLoop(ds[1])
  <2>1. ASSUME Len(ds) > 0 PROVE ds[1] = cs[1]
    BY <1>1, <2>1
  <2>2. QED
    BY <1>5, <2>1
<1>7. /\ \A i \in 1 .. Len(ds) : ds[i].kind = "while" /\ ds[i].at = "body" => Len(ds[i].slots) = 0
      /\ \A i \in 1 .. Len(ds) : ds[i].kind = "for" => ds[i].at = "body" /\ Len(ds[i].slots) \in {1, 2}
  <2>1. /\ \A i \in 1 .. Len(cs) : cs[i].kind = "while" /\ cs[i].at = "body" => Len(cs[i].slots) = 0
        /\ \A i \in 1 .. Len(cs) : cs[i].kind = "for" => cs[i].at = "body" /\ Len(cs[i].slots) \in {1, 2}
    BY DEF Numbered
  <2>2. QED
    BY <1>3, <2>1
<1>8. ASSUME ~IsLoop(cs[Len(cs)])
      PROVE  Numbered(ds, f) /\ Len(cs) # 1 /\ \A j \in 1 .. Len(f) : f[j] < Len(cs)
  <2>1. \A j \in 1 .. Len(f) : f[j] \in 1 .. Len(ds) /\ IsLoop(ds[f[j]]) /\ f[j] < Len(cs)
    <3>1. ASSUME NEW j \in 1 .. Len(f) PROVE f[j] \in 1 .. Len(ds) /\ IsLoop(ds[f[j]]) /\ f[j] < Len(cs)
      <4>1. f[j] \in 1 .. Len(cs) /\ IsLoop(cs[f[j]]) /\ f[j] # Len(cs)
        BY <1>4, <1>8
      <4>2. f[j] \in 1 .. Len(cs) - 1
        BY <1>1, <4>1
      <4>3. Len(ds) = Len(cs) - 1 /\ ds[f[j]] = cs[f[j]]
        BY <1>1, <4>2
      <4>4. f[j] < Len(cs)
        BY <1>1, <4>2
      <4>5. QED
        BY <4>1, <4>2, <4>3, <4>4
    <3>2. QED
      BY <3>1
  <2>2. \A i \in 1 .. Len(ds) : IsLoop(ds[i]) => \E j \in 1 .. Len(f) : f[j] = i
    BY <1>3 DEF Numbered
  <2>3. \A j, k \in 1 .. Len(f) : j < k => f[j] < f[k]
    BY DEF Numbered
  <2>4. Len(cs) # 1
    BY <1>5, <1>8
  <2>5. QED
    BY <1>6, <1>7, <2>1, <2>2, <2>3, <2>4 DEF Numbered
<1>9. ASSUME IsLoop(cs[Len(cs)])
      PROVE  /\ Len(f) \in Nat \ {0} /\ f[Len(f)] = Len(cs) /\ Numbered(ds, Spill!Front(f))
             /\ Len(f) = 1 => Len(cs) = 1
  <2>1. PICK m \in 1 .. Len(f) : f[m] = Len(cs)
    BY <1>5, <1>9 DEF Numbered
  <2>2. Len(f) # 0 /\ Len(f) \in 1 .. Len(f)
    BY <1>2, <2>1
  <2>3. m = Len(f)
    <3>1. m < Len(f) => f[m] < f[Len(f)]
      BY <2>2 DEF Numbered
    <3>2. f[Len(f)] \in 1 .. Len(cs)
      BY <1>4, <2>2
    <3>3. QED
      BY <1>1, <1>2, <2>1, <3>1, <3>2
  <2> DEFINE g == Spill!Front(f)
  <2>4. Len(g) = Len(f) - 1 /\ \A i \in 1 .. Len(f) - 1 : g[i] = f[i]
    BY <2>2, FrontIs
  <2> HIDE DEF g
  <2>5. \A j \in 1 .. Len(g) : j \in 1 .. Len(f) /\ g[j] = f[j] /\ j < Len(f)
    BY <1>2, <2>4
  <2>6. \A j, k \in 1 .. Len(f) : j < k => f[j] < f[k]
    BY DEF Numbered
  <2>7. \A j \in 1 .. Len(g) : g[j] \in 1 .. Len(ds) /\ IsLoop(ds[g[j]])
    <3>1. ASSUME NEW j \in 1 .. Len(g) PROVE g[j] \in 1 .. Len(ds) /\ IsLoop(ds[g[j]])
      <4>1. f[j] < Len(cs)
        BY <2>1, <2>2, <2>3, <2>5, <2>6
      <4>2. f[j] \in 1 .. Len(cs) - 1 /\ IsLoop(cs[f[j]])
        BY <1>1, <1>4, <2>5, <4>1
      <4>3. QED
        BY <1>1, <2>5, <4>2
    <3>2. QED
      BY <3>1
  <2>8. ASSUME NEW i \in 1 .. Len(ds), IsLoop(ds[i]) PROVE \E j \in 1 .. Len(g) : g[j] = i
    <3>1. PICK j \in 1 .. Len(f) : f[j] = i
      BY <1>3, <2>8 DEF Numbered
    <3>2. j # Len(f)
      BY <1>1, <1>3, <2>1, <2>3, <3>1
    <3>3. j \in 1 .. Len(f) - 1
      BY <1>2, <3>2
    <3>4. QED
      BY <2>4, <3>1, <3>3
  <2>9. \A j, k \in 1 .. Len(g) : j < k => g[j] < g[k]
    BY <2>5, <2>6
  <2>10. Numbered(ds, g)
    BY <1>6, <1>7, <2>7, <2>8, <2>9 DEF Numbered
  <2>11. ASSUME Len(f) = 1 PROVE Len(cs) = 1
    <3>1. PICK j \in 1 .. Len(f) : f[j] = 1
      BY <1>5 DEF Numbered
    <3>2. QED
      BY <2>1, <2>3, <2>11, <3>1
  <2>12. QED
    BY <1>2, <2>1, <2>2, <2>3, <2>10, <2>11 DEF g
<1>10. QED
  BY <1>8, <1>9 DEF ds

LEMMA PinsIs ==
  ASSUME NEW cs \in Seq(Construct), NEW f \in Seq(Nat), Numbered(cs, f)
  PROVE  /\ Len(f) \in Nat
         /\ \A j \in 1 .. Len(f) : /\ f[j] \in 1 .. Len(cs) /\ IsLoop(cs[f[j]])
                                   /\ Pins(cs[f[j]]) \in {1, 2}
                                   /\ cs[f[j]].kind = "for" => Pins(cs[f[j]]) = Len(cs[f[j]].slots)
<1>1. ASSUME NEW j \in 1 .. Len(f)
      PROVE  /\ f[j] \in 1 .. Len(cs) /\ IsLoop(cs[f[j]])
             /\ Pins(cs[f[j]]) \in {1, 2}
             /\ cs[f[j]].kind = "for" => Pins(cs[f[j]]) = Len(cs[f[j]].slots)
  <2>1. f[j] \in 1 .. Len(cs) /\ IsLoop(cs[f[j]])
    BY DEF Numbered
  <2>2. cs[f[j]].kind = "for" => Len(cs[f[j]].slots) \in {1, 2}
    BY <2>1 DEF Numbered
  <2>3. QED
    BY <2>1, <2>2 DEF Pins
<1>2. QED
  BY <1>1

(* The pins of a loop are among those the pool has.                        *)
LEMMA PinsInside ==
  ASSUME NEW p \in Pool, NEW cs \in Seq(Construct), NEW f \in Seq(Nat),
         Numbered(cs, f), Stacked(p, Len(f)), PoolFits(p, cs, f)
  PROVE  \A j \in 1 .. Len(f) :
           /\ p.enter[j] \in Nat
           /\ p.enter[j] + Pins(cs[f[j]]) <= Len(p.sticky)
           /\ j # Len(f) => p.enter[j] + Pins(cs[f[j]]) <= p.enter[Len(f)]
<1>1. Len(f) \in Nat /\ \A j \in 1 .. Len(f) : Pins(cs[f[j]]) \in {1, 2}
  BY PinsIs
<1>2. Len(p.enter) = Len(f) /\ Len(p.sticky) \in Nat /\ \A j \in 1 .. Len(f) : p.enter[j] \in Nat
  BY PoolIs DEF Stacked
<1>3. ASSUME NEW j \in 1 .. Len(f)
      PROVE  /\ p.enter[j] + Pins(cs[f[j]]) <= Len(p.sticky)
             /\ j # Len(f) => p.enter[j] + Pins(cs[f[j]]) <= p.enter[Len(f)]
  <2>1. CASE j = Len(f)
    <3>1. p.enter[j] + Pins(cs[f[j]]) = Len(p.sticky)
      BY <2>1 DEF PoolFits
    <3>2. QED
      BY <1>2, <2>1, <3>1
  <2>2. CASE j # Len(f)
    <3>1. p.enter[j] + Pins(cs[f[j]]) = p.enter[j + 1]
      BY <2>2 DEF PoolFits
    <3>2. j + 1 \in 1 .. Len(f) /\ Len(f) \in 1 .. Len(f)
      BY <1>1, <2>2
    <3>3. p.enter[j + 1] < Len(p.sticky) /\ p.enter[Len(f)] \in Nat
      BY <1>2, <3>2 DEF Stacked
    <3>4. p.enter[j + 1] <= p.enter[Len(f)]
      <4>1. CASE j + 1 = Len(f)
        BY <3>3, <4>1
      <4>2. CASE j + 1 # Len(f)
        <5>1. j + 1 < Len(f)
          BY <1>1, <3>2, <4>2
        <5>2. p.enter[j + 1] < p.enter[Len(f)] /\ p.enter[j + 1] \in Nat
          BY <1>2, <3>2, <5>1 DEF Stacked
        <5>3. QED
          BY <3>3, <5>2
      <4>3. QED
        BY <4>1, <4>2
    <3>5. p.enter[j + 1] \in Nat
      BY <1>2, <3>2
    <3>6. p.enter[j + 1] <= Len(p.sticky)
      BY <1>2, <3>3, <3>5
    <3>7. QED
      BY <2>2, <3>1, <3>4, <3>6
  <2>3. QED
    BY <2>1, <2>2
<1>4. QED
  BY <1>2, <1>3

LEMMA StackMove ==
  ASSUME NEW p \in Pool, NEW new, NEW t \in Nat, NEW n \in Nat,
         Moved(p, new, t), Stacked(p, n), n # 0 => p.scope[n] <= t
  PROVE  Stacked(new, n)
<1>1. Len(p.scope) = n /\ \A j \in 1 .. n : p.scope[j] \in Nat
  BY PoolIs DEF Stacked
<1>2. ASSUME NEW j \in 1 .. n PROVE p.scope[j] <= t
  <2>1. n \in 1 .. n /\ n # 0
    OBVIOUS
  <2>2. p.scope[j] <= p.scope[n]
    <3>1. CASE j = n
      BY <1>1, <3>1
    <3>2. CASE j # n
      <4>1. j < n
        BY <3>2
      <4>2. QED
        BY <2>1, <4>1 DEF Stacked
    <3>3. QED
      BY <3>1, <3>2
  <2>3. QED
    BY <1>1, <2>1, <2>2
<1>3. \A j \in 1 .. n : p.scope[j] <= new.next
  BY <1>2 DEF Moved
<1>4. new.scope = p.scope /\ new.enter = p.enter /\ new.sticky = p.sticky
  BY DEF Moved
<1>5. QED
  BY <1>3, <1>4 DEF Stacked

LEMMA FitsAlike ==
  ASSUME NEW p, NEW new, NEW cs, NEW f, PoolFits(p, cs, f),
         new.scope = p.scope /\ new.enter = p.enter /\ new.sticky = p.sticky
  PROVE  PoolFits(new, cs, f)
  BY DEF PoolFits

(* Moving the cursor to a place above what is held and not below the       *)
(* innermost scope.                                                        *)
LEMMA KeptMove ==
  ASSUME NEW p, NEW cs, NEW new, NEW t \in Nat, Kept(p, cs), Moved(p, new, t),
         Len(p.scope) # 0 => p.scope[Len(p.scope)] <= t,
         \A i \in 1 .. Len(cs) : \A k \in 1 .. Len(cs[i].slots) : cs[i].slots[k] < t
  PROVE  Kept(new, cs)
<1>1. PICK f \in Seq(Nat) : Numbered(cs, f) /\ Stacked(p, Len(f)) /\ PoolFits(p, cs, f)
  BY DEF Kept
<1>2. p \in Pool /\ cs \in Seq(Construct) /\ Ascend(cs, p.next) /\ new \in Pool /\ new.next = t
  BY DEF Kept, Moved
<1>3. Len(f) \in Nat /\ Len(p.scope) = Len(f)
  BY <1>1 DEF Stacked
<1>4. Stacked(new, Len(f))
  BY <1>1, <1>2, <1>3, StackMove
<1>5. PoolFits(new, cs, f)
  BY <1>1, FitsAlike DEF Moved
<1>6. Ascend(cs, new.next)
  BY <1>2, AscendTo
<1>7. QED
  BY <1>1, <1>2, <1>4, <1>5, <1>6 DEF Kept

LEMMA KeptPush ==
  ASSUME NEW p, NEW cs, NEW c \in Construct, NEW new, NEW t \in Nat, Kept(p, cs), Moved(p, new, t),
         ~IsLoop(c), Len(cs) # 0, p.next <= t, Between(c, p.next, t)
  PROVE  Kept(new, Append(cs, c))
<1>1. PICK f \in Seq(Nat) : Numbered(cs, f) /\ Stacked(p, Len(f)) /\ PoolFits(p, cs, f)
  BY DEF Kept
<1>2. p \in Pool /\ cs \in Seq(Construct) /\ Ascend(cs, p.next) /\ new \in Pool /\ new.next = t /\ p.next \in Nat
  BY PoolIs DEF Kept, Moved
<1>3. Len(f) \in Nat /\ Len(p.scope) = Len(f) /\ \A j \in 1 .. Len(f) : p.scope[j] \in Nat /\ p.scope[j] <= p.next
  BY <1>1, <1>2, PoolIs DEF Stacked
<1>4. Stacked(new, Len(f))
  <2>1. Len(f) # 0 => Len(f) \in 1 .. Len(f)
    BY <1>3
  <2>2. Len(f) # 0 => p.scope[Len(f)] <= t
    BY <1>2, <1>3, <2>1
  <2>3. QED
    BY <1>1, <1>2, <1>3, <2>2, StackMove
<1>5. Append(cs, c) \in Seq(Construct) /\ Ascend(Append(cs, c), new.next)
  BY <1>2, AscendPush
<1>6. Numbered(Append(cs, c), f)
  BY <1>1, <1>2, NumberPush
<1>7. /\ Len(cs) \in Nat /\ Len(Append(cs, c)) = Len(cs) + 1
      /\ \A i \in 1 .. Len(cs) : Append(cs, c)[i] = cs[i]
  BY <1>2, AppendIs
<1>8. \A j \in 1 .. Len(f) : f[j] \in 1 .. Len(cs) /\ Append(cs, c)[f[j]] = cs[f[j]]
  BY <1>1, <1>2, <1>7, PinsIs
<1>9. PoolFits(p, Append(cs, c), f)
  <2> DEFINE ds == Append(cs, c)
  <2> HIDE DEF ds
  <2>1. \A j \in 1 .. Len(f) : \A i \in 1 .. Len(ds) : i < f[j] => i \in 1 .. Len(cs) /\ ds[i] = cs[i]
    BY <1>7, <1>8 DEF ds
  <2>2. \A j \in 1 .. Len(f) : \A i \in 1 .. Len(ds) : i < f[j] =>
          \A k \in 1 .. Len(ds[i].slots) : ds[i].slots[k] < p.scope[j]
    BY <1>1, <2>1 DEF PoolFits
  <2>3. \A j \in 1 .. Len(f) : ds[f[j]] = cs[f[j]]
    BY <1>8 DEF ds
  <2>4. QED
    BY <1>1, <2>2, <2>3 DEF PoolFits, ds
<1>10. PoolFits(new, Append(cs, c), f)
  BY <1>9, FitsAlike DEF Moved
<1>11. QED
  BY <1>2, <1>4, <1>5, <1>6, <1>10 DEF Kept

LEMMA KeptPop ==
  ASSUME NEW p, NEW cs, Kept(p, cs), Len(cs) # 0, ~IsLoop(cs[Len(cs)])
  PROVE  Kept(p, Spill!Front(cs)) /\ Len(cs) # 1
<1>1. PICK f \in Seq(Nat) : Numbered(cs, f) /\ Stacked(p, Len(f)) /\ PoolFits(p, cs, f)
  BY DEF Kept
<1>2. p \in Pool /\ cs \in Seq(Construct) /\ Ascend(cs, p.next)
  BY DEF Kept
<1>3. Spill!Front(cs) \in Seq(Construct) /\ Ascend(Spill!Front(cs), p.next)
  BY <1>2, AscendPop
<1>4. Numbered(Spill!Front(cs), f) /\ Len(cs) # 1 /\ \A j \in 1 .. Len(f) : f[j] < Len(cs)
  BY <1>1, <1>2, NumberPop
<1>5. /\ Len(cs) \in Nat \ {0} /\ Len(Spill!Front(cs)) = Len(cs) - 1
      /\ \A i \in 1 .. Len(cs) - 1 : Spill!Front(cs)[i] = cs[i]
  BY <1>2, FrontIs
<1>6. PoolFits(p, Spill!Front(cs), f)
  <2> DEFINE ds == Spill!Front(cs)
  <2> HIDE DEF ds
  <2>1. \A i \in 1 .. Len(ds) : i \in 1 .. Len(cs) /\ ds[i] = cs[i]
    BY <1>5 DEF ds
  <2>2. \A j \in 1 .. Len(f) : f[j] \in 1 .. Len(ds)
    BY <1>4 DEF Numbered, ds
  <2>3. \A j \in 1 .. Len(f) : ds[f[j]] = cs[f[j]]
    BY <2>1, <2>2
  <2>4. \A j \in 1 .. Len(f) : \A i \in 1 .. Len(ds) : i < f[j] =>
          \A k \in 1 .. Len(ds[i].slots) : ds[i].slots[k] < p.scope[j]
    BY <1>1, <2>1 DEF PoolFits
  <2>5. QED
    BY <1>1, <2>3, <2>4 DEF PoolFits, ds
<1>7. QED
  BY <1>1, <1>2, <1>3, <1>4, <1>6 DEF Kept

(* A construct changes its place, and what it owes.                        *)
LEMMA KeptShape ==
  ASSUME NEW p, NEW cs, NEW ds \in Seq(Construct), Kept(p, cs), Len(ds) = Len(cs),
         \A i \in 1 .. Len(cs) : /\ ds[i].kind = cs[i].kind /\ ds[i].slots = cs[i].slots
                                 /\ IsLoop(cs[i]) => ds[i].at = cs[i].at
  PROVE  Kept(p, ds)
<1>1. PICK f \in Seq(Nat) : Numbered(cs, f) /\ Stacked(p, Len(f)) /\ PoolFits(p, cs, f)
  BY DEF Kept
<1>2. p \in Pool /\ Ascend(cs, p.next) /\ cs \in Seq(Construct)
  BY DEF Kept
<1>3. Ascend(ds, p.next)
  BY <1>2 DEF Ascend
<1>4. \A i \in 1 .. Len(cs) : IsLoop(ds[i]) <=> IsLoop(cs[i])
  BY DEF IsLoop
<1>5. Len(cs) \in Nat /\ (Len(cs) > 0 => 1 \in 1 .. Len(cs))
  BY <1>2
<1>6. Numbered(ds, f)
  <2>1. \A j \in 1 .. Len(f) : f[j] \in 1 .. Len(ds) /\ IsLoop(ds[f[j]])
    BY <1>1, <1>4 DEF Numbered
  <2>2. \A i \in 1 .. Len(ds) : IsLoop(ds[i]) => \E j \in 1 .. Len(f) : f[j] = i
    BY <1>1, <1>4 DEF Numbered
  <2>3. Len(ds) > 0 => IsLoop(ds[1])
    BY <1>1, <1>4, <1>5 DEF Numbered
  <2>4. \A i \in 1 .. Len(ds) : ds[i].kind = "while" /\ ds[i].at = "body" => Len(ds[i].slots) = 0
    <3>1. \A i \in 1 .. Len(cs) : cs[i].kind = "while" /\ cs[i].at = "body" => Len(cs[i].slots) = 0
      BY <1>1 DEF Numbered
    <3>2. \A i \in 1 .. Len(cs) : cs[i].kind = "while" => ds[i].at = cs[i].at
      BY DEF IsLoop
    <3>3. QED
      BY <3>1, <3>2
  <2>5. \A i \in 1 .. Len(ds) : ds[i].kind = "for" => ds[i].at = "body" /\ Len(ds[i].slots) \in {1, 2}
    BY <1>1 DEF Numbered, IsLoop
  <2>6. \A j, k \in 1 .. Len(f) : j < k => f[j] < f[k]
    BY <1>1 DEF Numbered
  <2>7. QED
    BY <2>1, <2>2, <2>3, <2>4, <2>5, <2>6 DEF Numbered
<1>7. \A j \in 1 .. Len(f) : /\ Pins(ds[f[j]]) = Pins(cs[f[j]])
                             /\ ds[f[j]].slots = cs[f[j]].slots /\ ds[f[j]].kind = cs[f[j]].kind
  BY <1>1, <1>2, PinsIs DEF Pins
<1>8. PoolFits(p, ds, f)
  <2>1. \A j \in 1 .. Len(f) : \A i \in 1 .. Len(ds) : i < f[j] =>
          \A k \in 1 .. Len(ds[i].slots) : ds[i].slots[k] < p.scope[j]
    BY <1>1 DEF PoolFits
  <2>2. QED
    BY <1>1, <1>7, <2>1 DEF PoolFits
<1>9. QED
  BY <1>1, <1>2, <1>3, <1>6, <1>8 DEF Kept

(* A loop is entered: a scope opens at the cursor, and the loop pins what  *)
(* it keeps across its iterations.                                         *)
Enters(p, new, c) ==
  /\ new \in Pool /\ c \in Construct /\ IsLoop(c)
  /\ new.scope = Append(p.scope, p.next) /\ new.enter = Append(p.enter, Len(p.sticky))
  /\ p.next <= new.next /\ Between(c, p.next, new.next)
  /\ Len(new.sticky) = Len(p.sticky) + Pins(c) /\ Pins(c) \in {1, 2}
  /\ \A m \in 1 .. Len(p.sticky) : new.sticky[m] = p.sticky[m]
  /\ \A m \in 1 .. Len(new.sticky) : m > Len(p.sticky) => p.next <= new.sticky[m]
  /\ c.kind = "while" => Len(c.slots) = 0
  /\ c.kind = "for" => /\ c.at = "body" /\ Len(c.slots) \in {1, 2}
                       /\ \A k \in 1 .. Len(c.slots) : c.slots[k] < new.sticky[Len(p.sticky) + k]

LEMMA StackEnter ==
  ASSUME NEW p \in Pool, NEW new, NEW c, NEW n \in Nat, Stacked(p, n), Enters(p, new, c)
  PROVE  Stacked(new, n + 1)
<1>1. /\ Len(p.scope) = n /\ Len(p.enter) = n /\ p.next \in Nat /\ Len(p.sticky) \in Nat
      /\ \A j \in 1 .. n : p.scope[j] \in Nat /\ p.enter[j] \in Nat
      /\ \A j \in 1 .. n : p.scope[j] <= p.next /\ p.enter[j] < Len(p.sticky)
  BY PoolIs DEF Stacked
<1>2. /\ new.next \in Nat /\ p.next <= new.next
      /\ Len(new.sticky) \in Nat /\ Len(new.sticky) > Len(p.sticky)
  <2>1. new \in Pool /\ Pins(c) \in {1, 2} /\ Len(new.sticky) = Len(p.sticky) + Pins(c) /\ p.next <= new.next
    BY DEF Enters
  <2>2. new.next \in Nat
    BY <2>1, PoolIs
  <2>3. QED
    BY <1>1, <2>1, <2>2
<1>3. p.scope \in Seq(Nat) /\ p.enter \in Seq(Nat)
  BY PoolIs
<1>4. /\ Len(new.scope) = n + 1 /\ new.scope[n + 1] = p.next
      /\ \A j \in 1 .. n : new.scope[j] = p.scope[j]
  BY <1>1, <1>3, AppendIs DEF Enters
<1>5. /\ Len(new.enter) = n + 1 /\ new.enter[n + 1] = Len(p.sticky)
      /\ \A j \in 1 .. n : new.enter[j] = p.enter[j]
  BY <1>1, <1>3, AppendIs DEF Enters
<1>6. \A j \in 1 .. n + 1 : j \in 1 .. n \/ j = n + 1
  OBVIOUS
<1>7. ASSUME NEW j \in 1 .. n + 1 PROVE new.scope[j] <= new.next /\ new.enter[j] < Len(new.sticky)
  <2>1. CASE j \in 1 .. n
    <3>1. p.scope[j] \in Nat /\ p.enter[j] \in Nat /\ p.scope[j] <= p.next /\ p.enter[j] < Len(p.sticky)
      BY <1>1, <2>1
    <3>2. Len(p.sticky) <= Len(new.sticky)
      BY <1>1, <1>2
    <3>3. p.scope[j] <= new.next
      BY <1>1, <1>2, <3>1, Through, Zenon
    <3>4. p.enter[j] < Len(new.sticky)
      BY <1>1, <1>2, <3>1, <3>2, Through, Zenon
    <3>5. QED
      BY <1>4, <1>5, <2>1, <3>3, <3>4
  <2>2. CASE j = n + 1
    BY <1>2, <1>4, <1>5, <2>2
  <2>3. QED
    BY <1>6, <2>1, <2>2
<1>8. ASSUME NEW j \in 1 .. n + 1, NEW k \in 1 .. n + 1, j < k
      PROVE  new.scope[j] <= new.scope[k] /\ new.enter[j] < new.enter[k]
  <2>1. j \in 1 .. n /\ new.scope[j] = p.scope[j] /\ new.enter[j] = p.enter[j]
    BY <1>4, <1>5, <1>6, <1>8
  <2>2. CASE k \in 1 .. n
    <3>1. p.scope[j] <= p.scope[k] /\ p.enter[j] < p.enter[k]
      BY <1>8, <2>1, <2>2 DEF Stacked
    <3>2. QED
      BY <1>4, <1>5, <2>1, <2>2, <3>1
  <2>3. CASE k = n + 1
    BY <1>1, <1>4, <1>5, <2>1, <2>3
  <2>4. QED
    BY <1>6, <2>2, <2>3
<1>9. ASSUME NEW j \in 1 .. n + 1, NEW m \in 1 .. Len(new.sticky), m > new.enter[j]
      PROVE  new.scope[j] <= new.sticky[m]
  <2>1. new.sticky[m] \in Nat
    BY PoolIs DEF Enters
  <2>2. new.scope[j] \in Nat /\ new.scope[j] <= p.next
    <3>1. CASE j \in 1 .. n
      BY <1>1, <1>4, <3>1
    <3>2. CASE j = n + 1
      BY <1>1, <1>4, <3>2
    <3>3. QED
      BY <1>6, <3>1, <3>2
  <2>3. CASE m > Len(p.sticky)
    <3>1. p.next <= new.sticky[m]
      BY <2>3 DEF Enters
    <3>2. QED
      BY <1>1, <2>1, <2>2, <3>1
  <2>4. CASE ~(m > Len(p.sticky))
    <3>1. m \in 1 .. Len(p.sticky) /\ new.sticky[m] = p.sticky[m]
      BY <1>1, <2>4 DEF Enters
    <3>2. j \in 1 .. n
      BY <1>1, <1>5, <1>6, <1>9, <3>1
    <3>3. m > p.enter[j]
      BY <1>5, <1>9, <3>2
    <3>4. p.scope[j] <= p.sticky[m]
      BY <3>1, <3>2, <3>3 DEF Stacked
    <3>5. QED
      BY <1>4, <3>1, <3>2, <3>4
  <2>5. QED
    BY <2>3, <2>4
<1>10. QED
  BY <1>4, <1>5, <1>7, <1>8, <1>9 DEF Stacked

LEMMA KeptEnter ==
  ASSUME NEW p, NEW cs, NEW new, NEW c, Kept(p, cs), Enters(p, new, c)
  PROVE  Kept(new, Append(cs, c))
<1>1. PICK f \in Seq(Nat) : Numbered(cs, f) /\ Stacked(p, Len(f)) /\ PoolFits(p, cs, f)
  BY DEF Kept
<1>2. p \in Pool /\ cs \in Seq(Construct) /\ Ascend(cs, p.next) /\ new \in Pool /\ c \in Construct
  BY DEF Kept, Enters
<1>3. p.next \in Nat /\ new.next \in Nat /\ p.next <= new.next /\ Between(c, p.next, new.next) /\ Len(p.sticky) \in Nat
  BY <1>2, PoolIs DEF Enters
<1> DEFINE ds == Append(cs, c)
           n == Len(f)
           g == Append(f, Len(cs) + 1)
<1>4. ds \in Seq(Construct) /\ Ascend(ds, new.next)
  BY <1>2, <1>3, AscendPush
<1>5. /\ Len(cs) \in Nat /\ Len(ds) = Len(cs) + 1 /\ ds[Len(cs) + 1] = c
      /\ \A i \in 1 .. Len(cs) : ds[i] = cs[i]
  BY <1>2, AppendIs
<1>6. /\ n \in Nat /\ g \in Seq(Nat) /\ Len(g) = n + 1 /\ g[n + 1] = Len(cs) + 1
      /\ \A j \in 1 .. n : g[j] = f[j]
  BY <1>5, AppendIs
<1>7. Numbered(ds, g)
  <2>1. IsLoop(c) /\ c.kind = "while" => Len(c.slots) = 0
    BY DEF Enters
  <2>2. IsLoop(c) /\ (c.kind = "for" => c.at = "body" /\ Len(c.slots) \in {1, 2})
    BY DEF Enters
  <2>3. QED
    BY <1>1, <1>2, <2>1, <2>2, NumberLoop
<1>8. Stacked(new, Len(g))
  BY <1>1, <1>2, <1>6, StackEnter
<1>9. p.scope \in Seq(Nat) /\ p.enter \in Seq(Nat) /\ Len(p.scope) = n /\ Len(p.enter) = n
  BY <1>1, <1>2, PoolIs DEF Stacked
<1>10. new.scope[n + 1] = p.next /\ \A j \in 1 .. n : new.scope[j] = p.scope[j]
  <2>1. new.scope = Append(p.scope, p.next)
    BY DEF Enters
  <2>2. /\ Append(p.scope, p.next)[Len(p.scope) + 1] = p.next
        /\ \A j \in 1 .. Len(p.scope) : Append(p.scope, p.next)[j] = p.scope[j]
    BY <1>3, <1>9, AppendIs
  <2>3. QED
    BY <1>9, <2>1, <2>2
<1>11. new.enter[n + 1] = Len(p.sticky) /\ \A j \in 1 .. n : new.enter[j] = p.enter[j]
  <2>1. new.enter = Append(p.enter, Len(p.sticky))
    BY DEF Enters
  <2>2. /\ Append(p.enter, Len(p.sticky))[Len(p.enter) + 1] = Len(p.sticky)
        /\ \A j \in 1 .. Len(p.enter) : Append(p.enter, Len(p.sticky))[j] = p.enter[j]
    BY <1>3, <1>9, AppendIs
  <2>3. QED
    BY <1>9, <2>1, <2>2
<1>12. \A j \in 1 .. n : f[j] \in 1 .. Len(cs) /\ ds[f[j]] = cs[f[j]] /\ Pins(cs[f[j]]) \in {1, 2}
  BY <1>1, <1>2, <1>5, PinsIs
<1>13. \A j \in 1 .. n + 1 : j \in 1 .. n \/ j = n + 1
  BY <1>6
<1>14. \A j \in 1 .. n : p.enter[j] \in Nat /\ p.enter[j] + Pins(cs[f[j]]) <= Len(p.sticky)
  BY <1>1, <1>2, PinsInside
<1>15. \A j \in 1 .. n : cs[f[j]].kind = "for" => Pins(cs[f[j]]) = Len(cs[f[j]].slots)
  BY <1>1, <1>2, PinsIs
<1> HIDE DEF ds, g, n
<1>16. ASSUME NEW j \in 1 .. n + 1, NEW i \in 1 .. Len(ds), i < g[j], NEW k \in 1 .. Len(ds[i].slots)
       PROVE  ds[i].slots[k] < new.scope[j]
  <2>1. CASE j \in 1 .. n
    <3>1. i \in 1 .. Len(cs) /\ ds[i] = cs[i] /\ i < f[j]
      BY <1>5, <1>6, <1>12, <1>16, <2>1
    <3>2. cs[i].slots[k] < p.scope[j]
      BY <1>1, <1>16, <2>1, <3>1 DEF PoolFits, n
    <3>3. QED
      BY <1>10, <2>1, <3>1, <3>2
  <2>2. CASE j = n + 1
    <3>1. i \in 1 .. Len(cs) /\ ds[i] = cs[i]
      BY <1>5, <1>6, <1>16, <2>2
    <3>2. cs[i].slots[k] < p.next
      BY <1>2, <1>16, <3>1 DEF Ascend
    <3>3. QED
      BY <1>10, <2>2, <3>1, <3>2
  <2>3. QED
    BY <1>13, <2>1, <2>2
<1>17. ASSUME NEW j \in 1 .. n + 1
       PROVE  new.enter[j] + Pins(ds[g[j]]) = IF j = n + 1 THEN Len(new.sticky) ELSE new.enter[j + 1]
  <2>1. CASE j = n + 1
    BY <1>5, <1>6, <1>11, <2>1 DEF Enters
  <2>2. CASE j \in 1 .. n /\ j = n
    <3>1. p.enter[j] + Pins(cs[f[j]]) = Len(p.sticky)
      BY <1>1, <2>2 DEF PoolFits, n
    <3>2. new.enter[j] = p.enter[j] /\ ds[g[j]] = cs[f[j]] /\ new.enter[j + 1] = Len(p.sticky) /\ j # n + 1
      BY <1>6, <1>11, <1>12, <2>2
    <3>3. QED
      BY <3>1, <3>2
  <2>3. CASE j \in 1 .. n /\ j # n
    <3>1. p.enter[j] + Pins(cs[f[j]]) = p.enter[j + 1]
      BY <1>1, <2>3 DEF PoolFits, n
    <3>2. j + 1 \in 1 .. n /\ j # n + 1
      BY <1>6, <2>3
    <3>3. new.enter[j] = p.enter[j] /\ ds[g[j]] = cs[f[j]] /\ new.enter[j + 1] = p.enter[j + 1]
      BY <1>6, <1>11, <1>12, <2>3, <3>2
    <3>4. QED
      BY <3>1, <3>2, <3>3
  <2>4. QED
    BY <1>13, <2>1, <2>2, <2>3
<1>18. ASSUME NEW j \in 1 .. n + 1, ds[g[j]].kind = "for", NEW k \in 1 .. Len(ds[g[j]].slots)
       PROVE  ds[g[j]].slots[k] < new.sticky[new.enter[j] + k]
  <2>1. CASE j = n + 1
    <3>1. ds[g[j]] = c /\ new.enter[j] = Len(p.sticky)
      BY <1>5, <1>6, <1>11, <2>1
    <3>2. QED
      BY <1>18, <3>1 DEF Enters
  <2>2. CASE j \in 1 .. n
    <3>1. new.enter[j] = p.enter[j] /\ ds[g[j]] = cs[f[j]]
      BY <1>6, <1>11, <1>12, <2>2
    <3>2. cs[f[j]].slots[k] < p.sticky[p.enter[j] + k]
      BY <1>1, <1>18, <2>2, <3>1 DEF PoolFits, n
    <3>3. p.enter[j] \in Nat /\ p.enter[j] + Len(cs[f[j]].slots) <= Len(p.sticky) /\ Len(cs[f[j]].slots) \in Nat
      <4>1. Pins(cs[f[j]]) = Len(cs[f[j]].slots) /\ Pins(cs[f[j]]) \in {1, 2}
        BY <1>12, <1>15, <1>18, <2>2, <3>1
      <4>2. QED
        BY <1>14, <2>2, <4>1
    <3>4. p.enter[j] + k \in 1 .. Len(p.sticky)
      <4>1. k \in 1 .. Len(cs[f[j]].slots)
        BY <1>18, <3>1, Zenon
      <4>2. \A a, b, d, e \in Nat : e \in 1 .. b /\ a + b <= d => a + e \in 1 .. d
        OBVIOUS
      <4>3. k \in Nat
        BY <3>3, <4>1
      <4>4. QED
        BY <1>3, <3>3, <4>1, <4>2, <4>3
    <3>5. new.sticky[p.enter[j] + k] = p.sticky[p.enter[j] + k]
      BY <3>4 DEF Enters
    <3>6. QED
      BY <3>1, <3>2, <3>5
  <2>3. QED
    BY <1>13, <2>1, <2>2
<1>19. PoolFits(new, ds, g)
  BY <1>6, <1>16, <1>17, <1>18 DEF PoolFits
<1>20. QED
  BY <1>2, <1>4, <1>6, <1>7, <1>8, <1>19 DEF Kept, ds

(* A loop is left: its scope and its pins go.                              *)
LeftBy(p, new) ==
  /\ new \in Pool
  /\ Len(p.scope) = 1 => new.scope = <<>> /\ new.enter = <<>>
  /\ Len(p.scope) # 1 =>
       /\ new.next = p.scope[Len(p.scope)] /\ new.scope = Spill!Front(p.scope) /\ new.enter = Spill!Front(p.enter)
       /\ Len(new.sticky) = p.enter[Len(p.enter)]
       /\ \A m \in 1 .. Len(new.sticky) : new.sticky[m] = p.sticky[m]

(* What the innermost loop has, when no construct is open in it.           *)
LEMMA LoopOnTop ==
  ASSUME NEW p, NEW cs, Kept(p, cs), Len(cs) # 0, IsLoop(cs[Len(cs)])
  PROVE  /\ Len(p.scope) \in Nat \ {0} /\ Len(p.enter) = Len(p.scope)
         /\ Len(p.scope) = 1 => Len(cs) = 1
         /\ p.scope[Len(p.scope)] \in Nat /\ p.enter[Len(p.enter)] \in Nat
         /\ p.enter[Len(p.enter)] + Pins(cs[Len(cs)]) = Len(p.sticky) /\ Pins(cs[Len(cs)]) \in {1, 2}
         /\ \A m \in 1 .. Len(p.sticky) : m > p.enter[Len(p.enter)] => p.scope[Len(p.scope)] <= p.sticky[m]
         /\ \A i \in 1 .. Len(cs) - 1 : \A k \in 1 .. Len(cs[i].slots) : cs[i].slots[k] < p.scope[Len(p.scope)]
         /\ cs[Len(cs)].kind = "for" =>
              \A k \in 1 .. Len(cs[Len(cs)].slots) :
                cs[Len(cs)].slots[k] < p.sticky[p.enter[Len(p.enter)] + k]
<1>1. PICK f \in Seq(Nat) : Numbered(cs, f) /\ Stacked(p, Len(f)) /\ PoolFits(p, cs, f)
  BY DEF Kept
<1>2. p \in Pool /\ cs \in Seq(Construct)
  BY DEF Kept
<1> DEFINE n == Len(f)
<1>3. n \in Nat \ {0} /\ f[n] = Len(cs)
  BY <1>1, <1>2, NumberPop
<1>4. n = 1 => Len(cs) = 1
  BY <1>1, <1>2, NumberPop
<1>5. Len(p.scope) = n /\ Len(p.enter) = n
  BY <1>1 DEF Stacked
<1> HIDE DEF n
<1>6. n \in 1 .. n /\ p.scope[n] \in Nat /\ p.enter[n] \in Nat
  BY <1>2, <1>3, <1>5, PoolIs
<1>7. p.enter[n] + Pins(cs[Len(cs)]) = Len(p.sticky)
  BY <1>1, <1>3, <1>6 DEF PoolFits, n
<1>8. Pins(cs[Len(cs)]) \in {1, 2}
  BY <1>1, <1>2, <1>3, <1>6, PinsIs DEF n
<1>9. \A m \in 1 .. Len(p.sticky) : m > p.enter[n] => p.scope[n] <= p.sticky[m]
  BY <1>1, <1>6 DEF Stacked, n
<1>10. \A i \in 1 .. Len(cs) - 1 : \A k \in 1 .. Len(cs[i].slots) : cs[i].slots[k] < p.scope[n]
  <2>1. \A i \in 1 .. Len(cs) - 1 : i \in 1 .. Len(cs) /\ i < f[n]
    BY <1>2, <1>3
  <2>2. QED
    BY <1>1, <1>6, <2>1 DEF PoolFits, n
<1>11. cs[Len(cs)].kind = "for" =>
         \A k \in 1 .. Len(cs[Len(cs)].slots) : cs[Len(cs)].slots[k] < p.sticky[p.enter[n] + k]
  BY <1>1, <1>3, <1>6 DEF PoolFits, n
<1>12. QED
  BY <1>3, <1>4, <1>5, <1>6, <1>7, <1>8, <1>9, <1>10, <1>11

LEMMA KeptLeave ==
  ASSUME NEW p, NEW cs, NEW new, Kept(p, cs), Len(cs) # 0, IsLoop(cs[Len(cs)]), LeftBy(p, new)
  PROVE  Kept(new, Spill!Front(cs))
<1>1. PICK f \in Seq(Nat) : Numbered(cs, f) /\ Stacked(p, Len(f)) /\ PoolFits(p, cs, f)
  BY DEF Kept
<1>2. p \in Pool /\ cs \in Seq(Construct) /\ Ascend(cs, p.next) /\ new \in Pool
  BY DEF Kept, LeftBy
<1> DEFINE n == Len(f)
           ds == Spill!Front(cs)
           g == Spill!Front(f)
<1>3. n \in Nat \ {0} /\ f[n] = Len(cs) /\ Numbered(ds, g)
  BY <1>1, <1>2, NumberPop
<1>4. n = 1 => Len(cs) = 1
  BY <1>1, <1>2, NumberPop
<1>5. Len(p.scope) = n /\ Len(p.enter) = n
  BY <1>1 DEF Stacked
<1>6. /\ g \in Seq(Nat) /\ Len(g) = n - 1
      /\ \A j \in 1 .. n - 1 : g[j] = f[j]
  BY <1>3, FrontIs
<1>7. /\ ds \in Seq(Construct) /\ Len(cs) \in Nat /\ Len(ds) = Len(cs) - 1
      /\ \A i \in 1 .. Len(cs) - 1 : ds[i] = cs[i]
  BY <1>2, FrontIs
<1>8. \A i \in 1 .. Len(cs) - 1 : \A k \in 1 .. Len(cs[i].slots) : cs[i].slots[k] < p.scope[n]
  <2>1. \A i \in 1 .. Len(cs) - 1 : \A k \in 1 .. Len(cs[i].slots) : cs[i].slots[k] < p.scope[Len(p.scope)]
    BY LoopOnTop
  <2>2. QED
    BY <1>5, <2>1
<1>9. Ascend(ds, p.next)
  BY <1>2, AscendPop
<1> HIDE DEF n, ds, g
<1>10. CASE n = 1
  <2>1. Len(ds) = 0 /\ Len(g) = 0
    BY <1>4, <1>6, <1>7, <1>10
  <2>2. Len(new.scope) = 0 /\ Len(new.enter) = 0
    BY <1>5, <1>10 DEF LeftBy
  <2>3. Stacked(new, Len(g))
    BY <2>1, <2>2 DEF Stacked
  <2>4. PoolFits(new, ds, g)
    BY <2>1 DEF PoolFits
  <2>5. Ascend(ds, new.next)
    BY <2>1 DEF Ascend
  <2>6. QED
    BY <1>2, <1>3, <1>6, <1>7, <2>3, <2>4, <2>5 DEF Kept, ds
<1>11. CASE n # 1
  <2>1. /\ new.next = p.scope[n] /\ new.scope = Spill!Front(p.scope) /\ new.enter = Spill!Front(p.enter)
        /\ Len(new.sticky) = p.enter[n]
        /\ \A m \in 1 .. Len(new.sticky) : new.sticky[m] = p.sticky[m]
    BY <1>5, <1>11 DEF LeftBy
  <2>2. /\ p.scope \in Seq(Nat) /\ p.enter \in Seq(Nat) /\ Len(p.sticky) \in Nat
        /\ \A j \in 1 .. n : p.scope[j] \in Nat /\ p.enter[j] \in Nat
    BY <1>2, <1>5, PoolIs
  <2>3. Len(new.scope) = n - 1 /\ \A j \in 1 .. n - 1 : new.scope[j] = p.scope[j]
    <3>1. \A s \in Seq(Nat) : Len(s) # 0 =>
            Len(Spill!Front(s)) = Len(s) - 1 /\ \A j \in 1 .. Len(s) - 1 : Spill!Front(s)[j] = s[j]
      BY FrontIs
    <3>2. p.scope \in Seq(Nat) /\ Len(p.scope) = n /\ n # 0
      BY <1>3, <1>5, <2>2
    <3>3. QED
      BY <2>1, <3>1, <3>2
  <2>4. Len(new.enter) = n - 1 /\ \A j \in 1 .. n - 1 : new.enter[j] = p.enter[j]
    <3>1. \A s \in Seq(Nat) : Len(s) # 0 =>
            Len(Spill!Front(s)) = Len(s) - 1 /\ \A j \in 1 .. Len(s) - 1 : Spill!Front(s)[j] = s[j]
      BY FrontIs
    <3>2. p.enter \in Seq(Nat) /\ Len(p.enter) = n /\ n # 0
      BY <1>3, <1>5, <2>2
    <3>3. QED
      BY <2>1, <3>1, <3>2
  <2>5. \A j \in 1 .. n - 1 : j \in 1 .. n /\ j < n
    BY <1>3
  <2>6. n \in 1 .. n /\ n - 1 \in 1 .. n - 1
    BY <1>3, <1>11
  <2>7. p.enter[n] < Len(p.sticky)
    BY <1>1, <2>6 DEF Stacked, n
  <2>8. \A j \in 1 .. n - 1 : p.scope[j] <= p.scope[n] /\ p.enter[j] < p.enter[n]
    BY <1>1, <2>5, <2>6 DEF Stacked, n
  <2>9. \A m \in 1 .. Len(new.sticky) : m \in 1 .. Len(p.sticky)
    BY <2>1, <2>2, <2>6, <2>7
  <2>10. Stacked(new, n - 1)
    <3>1. \A j \in 1 .. n - 1 : new.scope[j] <= new.next /\ new.enter[j] < Len(new.sticky)
      BY <2>1, <2>3, <2>4, <2>8
    <3>2. \A j, k \in 1 .. n - 1 : j < k => new.scope[j] <= new.scope[k] /\ new.enter[j] < new.enter[k]
      <4>1. \A j, k \in 1 .. n - 1 : j < k => p.scope[j] <= p.scope[k] /\ p.enter[j] < p.enter[k]
        BY <1>1, <2>5 DEF Stacked, n
      <4>2. QED
        BY <2>3, <2>4, <4>1
    <3>3. ASSUME NEW j \in 1 .. n - 1, NEW m \in 1 .. Len(new.sticky), m > new.enter[j]
          PROVE  new.scope[j] <= new.sticky[m]
      <4>1. p.scope[j] <= p.sticky[m]
        BY <1>1, <2>4, <2>5, <2>9, <3>3 DEF Stacked, n
      <4>2. QED
        BY <2>1, <2>3, <4>1
    <3>4. QED
      BY <2>3, <2>4, <3>1, <3>2, <3>3 DEF Stacked
  <2>11. \A j \in 1 .. n - 1 : f[j] \in 1 .. Len(cs) - 1 /\ ds[f[j]] = cs[f[j]]
    <3>1. \A j \in 1 .. n - 1 : g[j] \in 1 .. Len(ds)
      BY <1>3, <1>6 DEF Numbered
    <3>2. QED
      BY <1>6, <1>7, <3>1
  <2>12. \A j \in 1 .. n - 1 : p.enter[j] + Pins(cs[f[j]]) = p.enter[j + 1]
    BY <1>1, <2>5 DEF PoolFits, n
  <2>13. ASSUME NEW j \in 1 .. n - 1, NEW i \in 1 .. Len(ds), i < g[j], NEW k \in 1 .. Len(ds[i].slots)
         PROVE  ds[i].slots[k] < new.scope[j]
    <3>1. i \in 1 .. Len(cs) /\ ds[i] = cs[i] /\ i < f[j] /\ j \in 1 .. n
      BY <1>6, <1>7, <2>5, <2>13
    <3>2. cs[i].slots[k] < p.scope[j]
      BY <1>1, <2>13, <3>1 DEF PoolFits, n
    <3>3. QED
      BY <2>3, <3>1, <3>2
  <2>14. ASSUME NEW j \in 1 .. n - 1
         PROVE  new.enter[j] + Pins(ds[g[j]]) = IF j = n - 1 THEN Len(new.sticky) ELSE new.enter[j + 1]
    <3>1. new.enter[j] + Pins(ds[g[j]]) = p.enter[j + 1]
      BY <1>6, <2>4, <2>11, <2>12
    <3>2. CASE j = n - 1
      BY <1>3, <2>1, <3>1, <3>2
    <3>3. CASE j # n - 1
      <4>1. j + 1 \in 1 .. n - 1
        BY <1>3, <3>3
      <4>2. QED
        BY <2>4, <3>1, <3>3, <4>1
    <3>4. QED
      BY <3>2, <3>3
  <2>15. ASSUME NEW j \in 1 .. n - 1, ds[g[j]].kind = "for", NEW k \in 1 .. Len(ds[g[j]].slots)
         PROVE  ds[g[j]].slots[k] < new.sticky[new.enter[j] + k]
    <3>1. ds[g[j]] = cs[f[j]] /\ new.enter[j] = p.enter[j] /\ j \in 1 .. n
      BY <1>6, <2>4, <2>5, <2>11
    <3>2. cs[f[j]].slots[k] < p.sticky[p.enter[j] + k]
      BY <1>1, <2>15, <3>1 DEF PoolFits, n
    <3>3. /\ p.enter[j] \in Nat /\ Len(cs[f[j]].slots) \in Nat
          /\ p.enter[j] + Len(cs[f[j]].slots) <= p.enter[n]
      <4>1. Pins(cs[f[j]]) = Len(cs[f[j]].slots) /\ Pins(cs[f[j]]) \in {1, 2}
        BY <1>1, <1>2, <2>15, <3>1, PinsIs DEF n
      <4>2. p.enter[j] \in Nat /\ p.enter[j] + Pins(cs[f[j]]) <= p.enter[n]
        BY <1>1, <1>2, <2>5, <3>1, PinsInside DEF n
      <4>3. QED
        BY <4>1, <4>2
    <3>4. p.enter[j] + k \in 1 .. Len(new.sticky)
      <4>1. k \in 1 .. Len(cs[f[j]].slots)
        BY <2>15, <3>1, Zenon
      <4>2. \A a, b, d, e \in Nat : e \in 1 .. b /\ a + b <= d => a + e \in 1 .. d
        OBVIOUS
      <4>3. k \in Nat /\ p.enter[n] \in Nat
        BY <2>2, <2>6, <3>3, <4>1
      <4>4. QED
        BY <2>1, <3>3, <4>1, <4>2, <4>3
    <3>5. new.sticky[p.enter[j] + k] = p.sticky[p.enter[j] + k]
      BY <2>1, <3>4
    <3>6. QED
      BY <3>1, <3>2, <3>5
  <2>16. PoolFits(new, ds, g)
    BY <1>6, <2>13, <2>14, <2>15 DEF PoolFits
  <2>17. Ascend(ds, new.next)
    <3>1. \A i \in 1 .. Len(ds) : \A k \in 1 .. Len(ds[i].slots) : ds[i].slots[k] < new.next
      BY <1>7, <1>8, <2>1
    <3>2. QED
      BY <1>9, <3>1, AscendTo
  <2>18. QED
    BY <1>2, <1>3, <1>6, <1>7, <2>10, <2>16, <2>17 DEF Kept, ds
<1>12. QED
  BY <1>10, <1>11

(* The innermost construct takes the slot at the cursor.                   *)
LEMMA KeptGrow ==
  ASSUME NEW p, NEW cs, NEW new, NEW c \in Construct, Kept(p, cs), Moved(p, new, p.next + 1), Len(cs) # 0,
         c.kind = cs[Len(cs)].kind, c.at = cs[Len(cs)].at, c.slots = Append(cs[Len(cs)].slots, p.next),
         c.kind # "for", ~(c.kind = "while" /\ c.at = "body")
  PROVE  Kept(new, Append(Spill!Front(cs), c))
<1>1. PICK f \in Seq(Nat) : Numbered(cs, f) /\ Stacked(p, Len(f)) /\ PoolFits(p, cs, f)
  BY DEF Kept
<1>2. p \in Pool /\ cs \in Seq(Construct) /\ Ascend(cs, p.next) /\ new \in Pool /\ new.next = p.next + 1
  BY DEF Kept, Moved
<1> DEFINE ds == Append(Spill!Front(cs), c)
           b == cs[Len(cs)]
<1>3. p.next \in Nat /\ Len(cs) \in Nat \ {0}
  BY <1>2, PoolIs
<1>4. /\ ds \in Seq(Construct) /\ Len(ds) = Len(cs) /\ ds[Len(cs)] = c
      /\ \A i \in 1 .. Len(cs) - 1 : ds[i] = cs[i]
  BY <1>2, SetLastIs
<1>5. /\ b \in Construct /\ b.slots \in Seq(Nat) /\ Len(b.slots) \in Nat
      /\ \A k \in 1 .. Len(b.slots) : b.slots[k] \in Nat /\ b.slots[k] < p.next
      /\ \A k, l \in 1 .. Len(b.slots) : k < l => b.slots[k] < b.slots[l]
  <2>1. Len(cs) \in 1 .. Len(cs)
    BY <1>3
  <2>2. b \in Construct /\ b.slots \in Seq(Nat) /\ Len(b.slots) \in Nat /\ \A k \in 1 .. Len(b.slots) : b.slots[k] \in Nat
    BY <1>2, <2>1, ConstructIs
  <2>3. /\ \A k \in 1 .. Len(b.slots) : b.slots[k] < p.next
        /\ \A k, l \in 1 .. Len(b.slots) : k < l => b.slots[k] < b.slots[l]
    BY <1>2, <2>1 DEF Ascend
  <2>4. QED
    BY <2>2, <2>3
<1>6. /\ Len(c.slots) = Len(b.slots) + 1 /\ c.slots[Len(b.slots) + 1] = p.next
      /\ \A k \in 1 .. Len(b.slots) : c.slots[k] = b.slots[k]
  BY <1>3, <1>5, AppendIs
<1>7. \A i \in 1 .. Len(cs) : (i \in 1 .. Len(cs) - 1 /\ ds[i] = cs[i]) \/ (i = Len(cs) /\ ds[i] = c)
  <2>1. \A i \in 1 .. Len(cs) : i \in 1 .. Len(cs) - 1 \/ i = Len(cs)
    BY <1>3
  <2> HIDE DEF ds
  <2>2. QED
    BY <1>4, <2>1
<1>8. Ascend(ds, new.next)
  <2> DEFINE m == IF Len(b.slots) = 0 THEN p.next ELSE b.slots[1]
  <2>1. m \in Nat /\ m <= p.next
    <3>1. Len(b.slots) # 0 => 1 \in 1 .. Len(b.slots)
      BY <1>5
    <3>2. QED
      BY <1>3, <1>5, <3>1
  <2>2. Spill!Front(cs) \in Seq(Construct) /\ Ascend(Spill!Front(cs), p.next)
    BY <1>2, AscendPop
  <2>3. Len(Spill!Front(cs)) = Len(cs) - 1 /\ \A i \in 1 .. Len(cs) - 1 : Spill!Front(cs)[i] = cs[i]
    BY <1>2, FrontIs
  <2>4. ASSUME NEW i \in 1 .. Len(Spill!Front(cs)), NEW k \in 1 .. Len(Spill!Front(cs)[i].slots)
        PROVE  Spill!Front(cs)[i].slots[k] < m
    <3>1. CASE Len(b.slots) = 0
      BY <2>2, <2>4, <3>1 DEF Ascend
    <3>2. CASE Len(b.slots) # 0
      <4>1. /\ i \in 1 .. Len(cs) /\ Len(cs) \in 1 .. Len(cs) /\ i < Len(cs)
            /\ 1 \in 1 .. Len(b.slots) /\ Spill!Front(cs)[i] = cs[i]
        <5>1. i \in 1 .. Len(cs) - 1 /\ Spill!Front(cs)[i] = cs[i]
          BY <2>3, <2>4
        <5>2. i \in 1 .. Len(cs) /\ Len(cs) \in 1 .. Len(cs) /\ i < Len(cs)
          BY <1>3, <5>1
        <5>3. 1 \in 1 .. Len(b.slots)
          BY <1>5, <3>2
        <5>4. QED
          BY <5>1, <5>2, <5>3
      <4>2. \A l \in 1 .. Len(b.slots) : cs[i].slots[k] < b.slots[l]
        BY <1>2, <2>4, <4>1 DEF Ascend
      <4>3. QED
        BY <3>2, <4>1, <4>2
    <3>3. QED
      BY <3>1, <3>2
  <2>5. Ascend(Spill!Front(cs), m)
    BY <2>2, <2>4, AscendTo
  <2>6. Between(c, m, p.next + 1)
    <3>1. \A k \in 1 .. Len(c.slots) : k \in 1 .. Len(b.slots) \/ k = Len(b.slots) + 1
      BY <1>5, <1>6
    <3>2. ASSUME NEW k \in 1 .. Len(c.slots) PROVE m <= c.slots[k] /\ c.slots[k] < p.next + 1
      <4>1. CASE k \in 1 .. Len(b.slots)
        <5>1. 1 \in 1 .. Len(b.slots) /\ m = b.slots[1]
          BY <1>5, <4>1
        <5>2. m <= b.slots[k]
          <6>1. CASE k = 1
            BY <1>5, <5>1, <6>1
          <6>2. CASE k # 1
            <7>1. 1 < k
              BY <4>1, <6>2
            <7>2. QED
              BY <1>5, <4>1, <5>1, <7>1
          <6>3. QED
            BY <6>1, <6>2
        <5>3. b.slots[k] < p.next + 1
          BY <1>3, <1>5, <4>1
        <5>4. QED
          BY <1>6, <4>1, <5>2, <5>3
      <4>2. CASE k = Len(b.slots) + 1
        BY <1>3, <1>6, <2>1, <4>2
      <4>3. QED
        BY <3>1, <4>1, <4>2
    <3>3. ASSUME NEW k \in 1 .. Len(c.slots), NEW l \in 1 .. Len(c.slots), k < l
          PROVE  c.slots[k] < c.slots[l]
      <4>1. k \in 1 .. Len(b.slots)
        BY <1>5, <1>6, <3>1, <3>3
      <4>2. CASE l \in 1 .. Len(b.slots)
        <5>1. b.slots[k] < b.slots[l]
          BY <1>5, <3>3, <4>1, <4>2
        <5>2. QED
          BY <1>6, <4>1, <4>2, <5>1
      <4>3. CASE l = Len(b.slots) + 1
        BY <1>5, <1>6, <4>1, <4>3
      <4>4. QED
        BY <3>1, <4>2, <4>3
    <3>4. QED
      BY <3>2, <3>3 DEF Between
  <2> HIDE DEF m
  <2>7. m <= p.next + 1 /\ p.next + 1 \in Nat
    BY <1>3, <2>1
  <2>8. QED
    BY <1>2, <2>1, <2>2, <2>5, <2>6, <2>7, AscendPush
<1> HIDE DEF ds, b
<1>9. \A i \in 1 .. Len(cs) : ds[i].kind = cs[i].kind /\ ds[i].at = cs[i].at /\ (IsLoop(ds[i]) <=> IsLoop(cs[i]))
  BY <1>7 DEF IsLoop
<1>10. Numbered(ds, f)
  <2>1. \A j \in 1 .. Len(f) : f[j] \in 1 .. Len(ds) /\ IsLoop(ds[f[j]])
    BY <1>1, <1>4, <1>9 DEF Numbered
  <2>2. \A i \in 1 .. Len(ds) : IsLoop(ds[i]) => \E j \in 1 .. Len(f) : f[j] = i
    BY <1>1, <1>4, <1>9 DEF Numbered
  <2>3. Len(ds) > 0 => IsLoop(ds[1])
    <3>1. 1 \in 1 .. Len(cs) /\ Len(cs) > 0
      BY <1>3
    <3>2. QED
      BY <1>1, <1>9, <3>1 DEF Numbered
  <2>4. \A i \in 1 .. Len(ds) : ds[i].kind = "while" /\ ds[i].at = "body" => Len(ds[i].slots) = 0
    <3>1. \A i \in 1 .. Len(cs) : cs[i].kind = "while" /\ cs[i].at = "body" => Len(cs[i].slots) = 0
      BY <1>1 DEF Numbered
    <3>2. \A i \in 1 .. Len(cs) : i \in 1 .. Len(cs) - 1 => i \in 1 .. Len(cs)
      OBVIOUS
    <3>3. QED
      BY <1>4, <1>7, <3>1, <3>2
  <2>5. \A i \in 1 .. Len(ds) : ds[i].kind = "for" => ds[i].at = "body" /\ Len(ds[i].slots) \in {1, 2}
    <3>1. \A i \in 1 .. Len(cs) : cs[i].kind = "for" => cs[i].at = "body" /\ Len(cs[i].slots) \in {1, 2}
      BY <1>1 DEF Numbered
    <3>2. QED
      BY <1>4, <1>7, <3>1
  <2>6. \A j, k \in 1 .. Len(f) : j < k => f[j] < f[k]
    BY <1>1 DEF Numbered
  <2>7. QED
    BY <2>1, <2>2, <2>3, <2>4, <2>5, <2>6 DEF Numbered
<1>11. \A j \in 1 .. Len(f) : f[j] \in 1 .. Len(cs)
  BY <1>1 DEF Numbered
<1>12. PoolFits(p, ds, f)
  <2>1. ASSUME NEW j \in 1 .. Len(f), NEW i \in 1 .. Len(ds), i < f[j], NEW k \in 1 .. Len(ds[i].slots)
        PROVE  ds[i].slots[k] < p.scope[j]
    <3>1. i \in 1 .. Len(cs) /\ ds[i] = cs[i]
      <4>1. f[j] \in 1 .. Len(cs) /\ i \in Nat
        BY <1>11, <2>1
      <4>2. i \in 1 .. Len(cs) - 1
        BY <1>3, <1>4, <2>1, <4>1
      <4>3. QED
        BY <1>3, <1>4, <4>2
    <3>2. QED
      BY <1>1, <2>1, <3>1 DEF PoolFits
  <2>2. \A j \in 1 .. Len(f) : ds[f[j]].kind # "for" => Pins(ds[f[j]]) = Pins(cs[f[j]])
    BY <1>9, <1>11 DEF Pins
  <2>3. \A j \in 1 .. Len(f) : ds[f[j]].kind = "for" => ds[f[j]] = cs[f[j]]
    BY <1>7, <1>11
  <2>4. \A j \in 1 .. Len(f) : Pins(ds[f[j]]) = Pins(cs[f[j]])
    BY <2>2, <2>3
  <2>5. \A j \in 1 .. Len(f) : ds[f[j]].kind = "for" =>
          \A k \in 1 .. Len(ds[f[j]].slots) : ds[f[j]].slots[k] < p.sticky[p.enter[j] + k]
    BY <1>1, <2>3 DEF PoolFits
  <2>6. QED
    BY <1>1, <2>1, <2>4, <2>5 DEF PoolFits
<1>13. PoolFits(new, ds, f)
  BY <1>12, FitsAlike DEF Moved
<1>14. Stacked(new, Len(f))
  <2>1. Len(f) \in Nat /\ Len(p.scope) = Len(f)
    BY <1>1 DEF Stacked
  <2>2. Len(f) # 0 => p.scope[Len(f)] \in Nat /\ p.scope[Len(f)] <= p.next
    BY <1>1, <1>2, <2>1, PoolIs DEF Stacked
  <2>3. p.next + 1 \in Nat /\ (Len(f) # 0 => p.scope[Len(f)] <= p.next + 1)
    BY <1>3, <2>2
  <2>4. QED
    BY <1>1, <1>2, <2>1, <2>3, StackMove
<1>15. QED
  BY <1>2, <1>4, <1>8, <1>10, <1>13, <1>14 DEF Kept, ds

(* q is the pool p with its cursor pinned.                                 *)
Pinned(p, new) ==
  /\ new \in Pool /\ new.next = p.next /\ new.scope = p.scope /\ new.enter = p.enter
  /\ Len(new.sticky) = Len(p.sticky) + 1 /\ new.sticky[Len(p.sticky) + 1] = p.next
  /\ \A m \in 1 .. Len(p.sticky) : new.sticky[m] = p.sticky[m]

LEMMA PinIs == ASSUME NEW p \in Pool PROVE Pinned(p, Spill!Pin(p))
<1>1. p.next \in Nat /\ p.sticky \in Seq(Nat)
  BY PoolIs
<1>2. /\ Append(p.sticky, p.next) \in Seq(Nat) /\ Len(Append(p.sticky, p.next)) = Len(p.sticky) + 1
      /\ \A i \in 1 .. Len(p.sticky) : Append(p.sticky, p.next)[i] = p.sticky[i]
      /\ Append(p.sticky, p.next)[Len(p.sticky) + 1] = p.next
  BY <1>1, AppendIs
<1>3. Spill!Pin(p) = [p EXCEPT !.sticky = Append(p.sticky, p.next)]
  BY DEF Spill!Pin
<1>4. Spill!Pin(p) \in Pool
  BY <1>2, <1>3 DEF Pool
<1>5. /\ Spill!Pin(p).next = p.next /\ Spill!Pin(p).scope = p.scope /\ Spill!Pin(p).enter = p.enter
      /\ Spill!Pin(p).sticky = Append(p.sticky, p.next)
  BY <1>3 DEF Pool
<1>6. QED
  BY <1>2, <1>4, <1>5 DEF Pinned

(* The body of a while begins: what its condition held is dropped.         *)
LEMMA KeptBody ==
  ASSUME NEW p, NEW cs, NEW new, NEW c \in Construct, Kept(p, cs), Pinned(p, new), Len(cs) # 0,
         cs[Len(cs)].kind = "while", cs[Len(cs)].at = "cond",
         c.kind = "while", c.at = "body", Len(c.slots) = 0
  PROVE  Kept(new, Append(Spill!Front(cs), c))
<1>1. PICK f \in Seq(Nat) : Numbered(cs, f) /\ Stacked(p, Len(f)) /\ PoolFits(p, cs, f)
  BY DEF Kept
<1>2. p \in Pool /\ cs \in Seq(Construct) /\ Ascend(cs, p.next) /\ new \in Pool /\ new.next = p.next
  BY DEF Kept, Pinned
<1> DEFINE ds == Append(Spill!Front(cs), c)
           n == Len(f)
<1>3. p.next \in Nat /\ Len(cs) \in Nat \ {0} /\ Len(p.sticky) \in Nat
  BY <1>2, PoolIs
<1>4. /\ ds \in Seq(Construct) /\ Len(ds) = Len(cs) /\ ds[Len(cs)] = c
      /\ \A i \in 1 .. Len(cs) - 1 : ds[i] = cs[i]
  <2>1. \A s \in Seq(Construct), e \in Construct : Len(s) # 0 =>
          /\ Append(Spill!Front(s), e) \in Seq(Construct) /\ Len(Append(Spill!Front(s), e)) = Len(s)
          /\ \A i \in 1 .. Len(s) - 1 : Append(Spill!Front(s), e)[i] = s[i]
          /\ Append(Spill!Front(s), e)[Len(s)] = e
    BY SetLastIs
  <2>2. QED
    BY <1>2, <2>1, Zenon
<1>5. Spill!Front(cs) \in Seq(Construct) /\ Ascend(Spill!Front(cs), p.next)
  BY <1>2, AscendPop
<1>6. Between(c, p.next, new.next)
  BY DEF Between
<1>7. Ascend(ds, new.next)
  <2>1. p.next <= new.next /\ new.next \in Nat
    BY <1>2, <1>3
  <2>2. QED
    BY <1>3, <1>5, <1>6, <2>1, AscendPush
<1>8. IsLoop(cs[Len(cs)]) /\ IsLoop(c)
  BY DEF IsLoop
<1>9. n \in Nat \ {0} /\ f[n] = Len(cs)
  BY <1>1, <1>2, <1>8, NumberPop
<1> HIDE DEF ds, n
<1>10. \A i \in 1 .. Len(cs) : (i \in 1 .. Len(cs) - 1 /\ ds[i] = cs[i]) \/ (i = Len(cs) /\ ds[i] = c)
  <2>1. \A i \in 1 .. Len(cs) : i \in 1 .. Len(cs) - 1 \/ i = Len(cs)
    BY <1>3
  <2>2. QED
    BY <1>4, <2>1
<1>11. \A i \in 1 .. Len(cs) : ds[i].kind = cs[i].kind /\ (IsLoop(ds[i]) <=> IsLoop(cs[i]))
  BY <1>8, <1>10
<1>12. Numbered(ds, f)
  <2>1. \A j \in 1 .. n : f[j] \in 1 .. Len(ds) /\ IsLoop(ds[f[j]])
    BY <1>1, <1>4, <1>11 DEF Numbered, n
  <2>2. \A i \in 1 .. Len(ds) : IsLoop(ds[i]) => \E j \in 1 .. n : f[j] = i
    BY <1>1, <1>4, <1>11 DEF Numbered, n
  <2>3. Len(ds) > 0 => IsLoop(ds[1])
    <3>1. 1 \in 1 .. Len(cs) /\ Len(cs) > 0
      BY <1>3
    <3>2. QED
      BY <1>1, <1>11, <3>1 DEF Numbered
  <2>4. \A i \in 1 .. Len(ds) : ds[i].kind = "while" /\ ds[i].at = "body" => Len(ds[i].slots) = 0
    <3>1. \A i \in 1 .. Len(cs) : cs[i].kind = "while" /\ cs[i].at = "body" => Len(cs[i].slots) = 0
      BY <1>1 DEF Numbered
    <3>2. ASSUME NEW i \in 1 .. Len(cs), ds[i].kind = "while", ds[i].at = "body" PROVE Len(ds[i].slots) = 0
      <4>1. CASE ds[i] = cs[i]
        BY <3>1, <3>2, <4>1
      <4>2. CASE ds[i] = c
        BY <4>2
      <4>3. QED
        BY <1>10, <4>1, <4>2
    <3>3. QED
      BY <1>4, <3>2
  <2>5. \A i \in 1 .. Len(ds) : ds[i].kind = "for" => ds[i].at = "body" /\ Len(ds[i].slots) \in {1, 2}
    <3>1. \A i \in 1 .. Len(cs) : cs[i].kind = "for" => cs[i].at = "body" /\ Len(cs[i].slots) \in {1, 2}
      BY <1>1 DEF Numbered
    <3>2. QED
      BY <1>4, <1>10, <3>1
  <2>6. \A j, k \in 1 .. n : j < k => f[j] < f[k]
    BY <1>1 DEF Numbered, n
  <2>7. QED
    BY <2>1, <2>2, <2>3, <2>4, <2>5, <2>6 DEF Numbered, n
<1>13. /\ Len(p.scope) = n /\ Len(p.enter) = n /\ Len(new.sticky) = Len(p.sticky) + 1
       /\ new.scope = p.scope /\ new.enter = p.enter /\ new.sticky[Len(p.sticky) + 1] = p.next
       /\ \A m \in 1 .. Len(p.sticky) : new.sticky[m] = p.sticky[m]
  BY <1>1 DEF Stacked, Pinned, n
<1>14. \A j \in 1 .. n : p.scope[j] \in Nat /\ p.enter[j] \in Nat
  BY <1>2, <1>13, PoolIs
<1>15. Stacked(new, n)
  <2>1. \A j \in 1 .. n : new.scope[j] <= new.next /\ new.enter[j] < Len(new.sticky)
    <3>1. \A j \in 1 .. n : p.scope[j] <= p.next /\ p.enter[j] < Len(p.sticky)
      BY <1>1 DEF Stacked, n
    <3>2. QED
      BY <1>2, <1>3, <1>13, <1>14, <3>1
  <2>2. \A j, k \in 1 .. n : j < k => new.scope[j] <= new.scope[k] /\ new.enter[j] < new.enter[k]
    BY <1>1, <1>13 DEF Stacked, n
  <2>3. ASSUME NEW j \in 1 .. n, NEW m \in 1 .. Len(new.sticky), m > new.enter[j] PROVE new.scope[j] <= new.sticky[m]
    <3>1. CASE m \in 1 .. Len(p.sticky)
      BY <1>1, <1>13, <2>3, <3>1 DEF Stacked, n
    <3>2. CASE m = Len(p.sticky) + 1
      <4>1. p.scope[j] <= p.next
        BY <1>1 DEF Stacked, n
      <4>2. QED
        BY <1>13, <3>2, <4>1
    <3>3. m \in 1 .. Len(p.sticky) \/ m = Len(p.sticky) + 1
      BY <1>3, <1>13
    <3>4. QED
      BY <3>1, <3>2, <3>3
  <2>4. QED
    BY <1>13, <2>1, <2>2, <2>3 DEF Stacked
<1>16. \A j \in 1 .. n : f[j] \in 1 .. Len(cs) /\ (j # n => ds[f[j]] = cs[f[j]]) /\ (j = n => ds[f[j]] = c)
  <2>1. \A j \in 1 .. n : f[j] \in 1 .. Len(cs)
    BY <1>1 DEF Numbered, n
  <2>2. ASSUME NEW j \in 1 .. n, j # n PROVE ds[f[j]] = cs[f[j]]
    <3>1. n \in 1 .. n /\ j < n
      BY <1>9, <2>2
    <3>2. f[j] < f[n]
      BY <1>1, <3>1 DEF Numbered, n
    <3>3. f[j] # Len(cs)
      BY <1>9, <2>1, <3>2
    <3>4. QED
      BY <1>10, <2>1, <3>3
  <2>3. QED
    BY <1>4, <1>9, <2>1, <2>2
<1>17. PoolFits(new, ds, f)
  <2>1. ASSUME NEW j \in 1 .. n, NEW i \in 1 .. Len(ds), i < f[j], NEW k \in 1 .. Len(ds[i].slots)
        PROVE  ds[i].slots[k] < new.scope[j]
    <3>1. i \in 1 .. Len(cs) /\ ds[i] = cs[i]
      <4>1. f[j] \in 1 .. Len(cs) /\ i \in Nat
        BY <1>16, <2>1
      <4>2. i \in 1 .. Len(cs) - 1
        BY <1>3, <1>4, <2>1, <4>1
      <4>3. QED
        BY <1>3, <1>4, <4>2
    <3>2. QED
      BY <1>1, <1>13, <2>1, <3>1 DEF PoolFits, n
  <2>2. ASSUME NEW j \in 1 .. n
        PROVE  new.enter[j] + Pins(ds[f[j]]) = IF j = n THEN Len(new.sticky) ELSE new.enter[j + 1]
    <3>1. CASE j = n
      <4>1. Pins(ds[f[j]]) = 2
        BY <1>16, <3>1 DEF Pins
      <4>2. Pins(cs[f[j]]) = 1
        BY <1>9, <3>1 DEF Pins
      <4>3. p.enter[j] + Pins(cs[f[j]]) = Len(p.sticky)
        BY <1>1, <3>1 DEF PoolFits, n
      <4>4. QED
        <5>1. new.enter[j] = p.enter[j] /\ p.enter[j] \in Nat /\ Len(new.sticky) = Len(p.sticky) + 1
          BY <1>3, <1>13, <1>14, <3>1
        <5>2. \A x \in Nat : x + 2 = (x + 1) + 1
          OBVIOUS
        <5>3. new.enter[j] + Pins(ds[f[j]]) = Len(new.sticky)
          BY <4>1, <4>2, <4>3, <5>1, <5>2
        <5>4. QED
          BY <3>1, <5>3
    <3>2. CASE j # n
      <4>1. p.enter[j] + Pins(cs[f[j]]) = p.enter[j + 1]
        BY <1>1, <3>2 DEF PoolFits, n
      <4>2. QED
        BY <1>13, <1>16, <3>2, <4>1
    <3>3. QED
      BY <3>1, <3>2
  <2>3. ASSUME NEW j \in 1 .. n, ds[f[j]].kind = "for", NEW k \in 1 .. Len(ds[f[j]].slots)
        PROVE  ds[f[j]].slots[k] < new.sticky[new.enter[j] + k]
    <3>1. j # n /\ ds[f[j]] = cs[f[j]]
      BY <1>16, <2>3
    <3>2. cs[f[j]].slots[k] < p.sticky[p.enter[j] + k]
      BY <1>1, <2>3, <3>1 DEF PoolFits, n
    <3>3. /\ p.enter[j] \in Nat /\ Len(cs[f[j]].slots) \in Nat
          /\ p.enter[j] + Len(cs[f[j]].slots) <= Len(p.sticky)
      <4>1. Pins(cs[f[j]]) = Len(cs[f[j]].slots) /\ Pins(cs[f[j]]) \in {1, 2}
        BY <1>1, <1>2, <2>3, <3>1, PinsIs DEF n
      <4>2. p.enter[j] \in Nat /\ p.enter[j] + Pins(cs[f[j]]) <= Len(p.sticky)
        BY <1>1, <1>2, PinsInside DEF n
      <4>3. QED
        BY <4>1, <4>2
    <3>4. p.enter[j] + k \in 1 .. Len(p.sticky)
      <4>1. k \in 1 .. Len(cs[f[j]].slots)
        BY <2>3, <3>1, Zenon
      <4>2. \A a, b, d, e \in Nat : e \in 1 .. b /\ a + b <= d => a + e \in 1 .. d
        OBVIOUS
      <4>3. k \in Nat
        BY <3>3, <4>1
      <4>4. QED
        BY <1>3, <3>3, <4>1, <4>2, <4>3
    <3>5. new.sticky[p.enter[j] + k] = p.sticky[p.enter[j] + k]
      BY <1>13, <3>4
    <3>6. QED
      BY <1>13, <3>1, <3>2, <3>5
  <2>4. QED
    BY <2>1, <2>2, <2>3 DEF PoolFits, n
<1>18. QED
  BY <1>2, <1>4, <1>7, <1>12, <1>15, <1>17 DEF Kept, ds, n

LEMMA EmptyKept ==
  ASSUME NEW p \in Pool, NEW cs \in Seq(Construct), Len(cs) = 0, Len(p.scope) = 0, Len(p.enter) = 0
  PROVE  Kept(p, cs)
<1> DEFINE f == <<>>
<1>1. f \in Seq(Nat) /\ Len(f) = 0
  OBVIOUS
<1> HIDE DEF f
<1>2. Numbered(cs, f)
  BY <1>1 DEF Numbered
<1>3. Stacked(p, Len(f))
  BY <1>1 DEF Stacked
<1>4. PoolFits(p, cs, f)
  BY <1>1 DEF PoolFits
<1>5. Ascend(cs, p.next)
  BY DEF Ascend
<1>6. QED
  BY <1>1, <1>2, <1>3, <1>4, <1>5 DEF Kept

(* Outside every loop nothing is open.                                     *)
LEMMA OutsideIs ==
  ASSUME NEW p, NEW cs, Kept(p, cs)
  PROVE  Len(p.scope) = 0 <=> Len(cs) = 0
<1>1. PICK f \in Seq(Nat) : Numbered(cs, f) /\ Stacked(p, Len(f)) /\ PoolFits(p, cs, f)
  BY DEF Kept
<1>2. p \in Pool /\ cs \in Seq(Construct) /\ Len(cs) \in Nat /\ Len(f) \in Nat /\ Len(p.scope) = Len(f)
  BY <1>1 DEF Kept, Stacked
<1>3. ASSUME Len(f) = 0 PROVE Len(cs) = 0
  <2>1. SUFFICES ASSUME Len(cs) # 0 PROVE FALSE
    OBVIOUS
  <2>2. 1 \in 1 .. Len(cs) /\ IsLoop(cs[1])
    BY <1>1, <1>2, <2>1 DEF Numbered
  <2>3. QED
    BY <1>1, <1>3, <2>2 DEF Numbered
<1>4. ASSUME Len(cs) = 0 PROVE Len(f) = 0
  <2>1. SUFFICES ASSUME Len(f) # 0 PROVE FALSE
    OBVIOUS
  <2>2. 1 \in 1 .. Len(f)
    BY <1>2, <2>1
  <2>3. QED
    BY <1>1, <1>4, <2>2 DEF Numbered
<1>5. QED
  BY <1>2, <1>3, <1>4

(* The pool a scope opens in: a new one outside every loop.                *)
Ready(p) == IF p.scope = <<>> THEN [Spill!NoPool EXCEPT !.size = Prealloc] ELSE p

LEMMA ReadyKept ==
  ASSUME NEW p, NEW cs, Kept(p, cs), Planned
  PROVE  Kept(Ready(p), cs)
<1>1. p \in Pool /\ cs \in Seq(Construct)
  BY DEF Kept
<1>2. CASE p.scope = <<>>
  <2>1. Ready(p) \in Pool /\ Len(Ready(p).scope) = 0 /\ Len(Ready(p).enter) = 0
    <3>1. Ready(p) = [next |-> 0, high |-> 0, size |-> Prealloc, scope |-> <<>>, sticky |-> <<>>,
                      enter |-> <<>>, floor |-> <<>>]
      BY <1>2 DEF Ready, Spill!NoPool
    <3>2. <<>> \in Seq(Nat) /\ Len(<<>>) = 0
      OBVIOUS
    <3>3. QED
      BY <3>1, <3>2 DEF Pool, Planned
  <2>2. Len(p.scope) = 0
    BY <1>2
  <2>3. Len(cs) = 0
    BY <2>2, OutsideIs
  <2>4. QED
    BY <1>1, <2>1, <2>3, EmptyKept
<1>3. CASE p.scope # <<>>
  BY <1>3 DEF Ready
<1>4. QED
  BY <1>2, <1>3

LEMMA EnterIs ==
  ASSUME NEW p \in Pool, Planned
  PROVE  /\ Spill!EnterScope(p) \in Pool /\ Spill!EnterScope(p).next = Ready(p).next
         /\ Spill!EnterScope(p).scope = Append(Ready(p).scope, Ready(p).next)
         /\ Spill!EnterScope(p).enter = Append(Ready(p).enter, Len(Ready(p).sticky))
         /\ Spill!EnterScope(p).sticky = Ready(p).sticky
<1> DEFINE b == Ready(p)
<1>1. b \in Pool
  BY DEF Ready, Spill!NoPool, Pool, Planned
<1>2. Spill!EnterScope(p) = [b EXCEPT !.scope = Append(b.scope, b.next), !.enter = Append(b.enter, Len(b.sticky)),
                                !.floor = Append(b.floor, Len(b.sticky))]
  BY DEF Spill!EnterScope, Ready
<1> HIDE DEF b
<1>3. b.next \in Nat /\ b.scope \in Seq(Nat) /\ b.enter \in Seq(Nat) /\ b.floor \in Seq(Nat) /\ b.sticky \in Seq(Nat)
  BY <1>1 DEF Pool
<1>4. Len(b.sticky) \in Nat
  BY <1>3
<1>5. /\ Append(b.scope, b.next) \in Seq(Nat) /\ Append(b.enter, Len(b.sticky)) \in Seq(Nat)
      /\ Append(b.floor, Len(b.sticky)) \in Seq(Nat)
  BY <1>3, <1>4, AppendIs
<1>6. Spill!EnterScope(p) \in Pool
  BY <1>1, <1>2, <1>5 DEF Pool
<1>7. /\ Spill!EnterScope(p).next = b.next /\ Spill!EnterScope(p).sticky = b.sticky
      /\ Spill!EnterScope(p).scope = Append(b.scope, b.next) /\ Spill!EnterScope(p).enter = Append(b.enter, Len(b.sticky))
  BY <1>1, <1>2 DEF Pool
<1>8. QED
  BY <1>6, <1>7 DEF b

LEMMA AcquiredIs == ASSUME NEW p \in Pool PROVE Moved(p, Spill!Acquired(p), p.next + 1) /\ p.next + 1 \in Nat
<1>1. p.next \in Nat /\ p.high \in Nat /\ p.size \in Nat /\ p.next + 1 \in Nat
  BY PoolIs
<1>2. Spill!Max({p.high, p.next + 1}) \in Nat /\ Spill!Max({p.size, p.next + 1}) \in Nat
  BY <1>1, MaxOfTwo
<1>3. Spill!Acquired(p) = [p EXCEPT !.next = p.next + 1, !.high = Spill!Max({p.high, p.next + 1}), !.size = Spill!Max({p.size, p.next + 1})]
  BY DEF Spill!Acquired
<1>4. QED
  BY <1>1, <1>2, <1>3 DEF Moved, Pool

(* A null store above what is held meets nothing live.                     *)
LEMMA Missed ==
  ASSUME NEW cs \in Seq(Construct), NEW n, NEW t \in Nat, NEW S, Ascend(cs, n), AtLeast(t, S),
         \A i \in 1 .. Len(cs) : \A k \in 1 .. Len(cs[i].slots) : cs[i].slots[k] < t
  PROVE  S \cap Spill!Range(Spill!Live(cs)) = {}
<1>1. ASSUME NEW x \in S, x \in Spill!Range(Spill!Live(cs)) PROVE FALSE
  <2>1. PICK i \in 1 .. Len(cs) : \E k \in 1 .. Len(cs[i].slots) : x = cs[i].slots[k]
    BY <1>1, LiveIs
  <2>2. PICK k \in 1 .. Len(cs[i].slots) : x = cs[i].slots[k]
    BY <2>1
  <2>3. x < t
    BY <2>2
  <2>4. x \in Nat /\ t <= x
    BY DEF AtLeast
  <2>5. QED
    BY <2>3, <2>4
<1>2. QED
  BY <1>1

LEMMA ConIs ==
  \A k \in KindNames, a \in Places, s \in Seq(Nat) :
    /\ Spill!Con(k, a, s) \in Construct /\ Spill!Con(k, a, s).kind = k /\ Spill!Con(k, a, s).at = a
    /\ Spill!Con(k, a, s).slots = s
  BY DEF Spill!Con, Construct

---------------------------------------------------------------------------
(* The walk keeps the invariant.                                           *)

LEMMA StateIs ==
  ASSUME SpillInv
  PROVE  /\ spills \in Pool /\ nest \in Seq(Construct) /\ Len(nest) \in Nat /\ spills.next \in Nat
         /\ Ascend(nest, spills.next) /\ Kept(spills, nest) /\ hit = FALSE
         /\ \A i \in 1 .. Len(nest) : \A k \in 1 .. Len(nest[i].slots) : nest[i].slots[k] < spills.next
         /\ nest # <<>> => /\ Len(nest) # 0 /\ Spill!top = nest[Len(nest)] /\ Spill!top \in Construct
                           /\ Spill!Below \in Seq(Construct) /\ Len(nest) \in 1 .. Len(nest)
<1>1. spills \in Pool /\ nest \in Seq(Construct) /\ Ascend(nest, spills.next) /\ Kept(spills, nest) /\ hit = FALSE
  BY DEF SpillInv, Kept
<1>2. Len(nest) \in Nat /\ spills.next \in Nat
  BY <1>1, PoolIs
<1>3. \A i \in 1 .. Len(nest) : \A k \in 1 .. Len(nest[i].slots) : nest[i].slots[k] < spills.next
  BY <1>1 DEF Ascend
<1>4. ASSUME nest # <<>>
      PROVE  /\ Len(nest) # 0 /\ Spill!top = nest[Len(nest)] /\ Spill!top \in Construct
             /\ Spill!Below \in Seq(Construct) /\ Len(nest) \in 1 .. Len(nest)
  <2>1. Len(nest) # 0 /\ Len(nest) \in 1 .. Len(nest)
    BY <1>1, <1>4
  <2>2. QED
    BY <1>1, <2>1, FrontIs DEF Spill!top, Spill!Below
<1>5. QED
  BY <1>1, <1>2, <1>3, <1>4

LEMMA EnterWhileKeeps == ASSUME Planned, SpillInv, Spill!EnterWhile PROVE SpillInv'
<1> DEFINE b == Ready(spills)
           e == Spill!EnterScope(spills)
           u == Spill!Pin(e)
           m == Spill!MarkFloor(u)
           c == Spill!Con("while", "cond", <<>>)
<1>1. spills \in Pool /\ nest \in Seq(Construct) /\ Kept(spills, nest) /\ hit = FALSE
  BY StateIs
<1>2. Kept(b, nest) /\ b \in Pool /\ Ascend(nest, b.next)
  BY <1>1, ReadyKept DEF Kept
<1>3. /\ e \in Pool /\ e.next = b.next /\ e.scope = Append(b.scope, b.next)
      /\ e.enter = Append(b.enter, Len(b.sticky)) /\ e.sticky = b.sticky
  BY <1>1, EnterIs
<1> HIDE DEF e, b
<1>4. Pinned(e, u)
  BY <1>3, PinIs
<1>5. m \in Pool /\ m.next = u.next /\ m.scope = u.scope /\ m.enter = u.enter /\ m.sticky = u.sticky
      /\ m.floor = Append(Spill!Front(u.floor), Len(u.sticky))
  <2>1. u \in Pool /\ u.floor \in Seq(Nat) /\ Len(u.sticky) \in Nat
    BY <1>4 DEF Pinned, Pool
  <2>2. Spill!Front(u.floor) \in Seq(Nat)
    BY <2>1, FrontOfNats
  <2>3. Append(Spill!Front(u.floor), Len(u.sticky)) \in Seq(Nat)
    BY <2>1, <2>2, AppendIs
  <2>4. QED
    BY <2>1, <2>3 DEF Spill!MarkFloor, Pool
<1>6. Spill!Peel(m, Spill!OrElse(m.floor, 1)) = Spill!Op(m, {})
  <2>1. u.floor \in Seq(Nat) /\ Len(u.sticky) \in Nat
    BY <1>4 DEF Pinned, Pool
  <2>2. Spill!Front(u.floor) \in Seq(Nat)
    BY <2>1, FrontOfNats
  <2>3. m.floor \in Seq(Nat) /\ Len(m.floor) # 0 /\ m.floor[Len(m.floor)] = Len(u.sticky)
    BY <1>5, <2>1, <2>2, AppendIs
  <2>4. Spill!OrElse(m.floor, 1) = Len(m.sticky)
    BY <1>5, <2>3, OrElseIs
  <2>5. QED
    BY <1>5, <2>1, <2>4 DEF Spill!Peel
<1> HIDE DEF u, m
<1>7. Spill!AtCond(m).pool = Spill!Clear(m).pool /\ Spill!AtCond(m).nulled = Spill!Clear(m).nulled
  BY <1>6 DEF Spill!AtCond, Spill!Then, Spill!Op
<1>8. PICK t : ClearsTo(m, t) /\ Moved(m, Spill!Clear(m).pool, t) /\ AtLeast(t, Spill!Clear(m).nulled)
  BY <1>5, ClearIs
<1>9. b.next \in Nat /\ b.scope \in Seq(Nat) /\ b.sticky \in Seq(Nat) /\ Len(b.sticky) \in Nat
  BY <1>2, PoolIs
<1>10. /\ m.next = b.next /\ m.scope = Append(b.scope, b.next) /\ m.enter = Append(b.enter, Len(b.sticky))
       /\ Len(m.sticky) = Len(b.sticky) + 1 /\ m.sticky[Len(b.sticky) + 1] = b.next
       /\ \A i \in 1 .. Len(b.sticky) : m.sticky[i] = b.sticky[i]
  BY <1>3, <1>4, <1>5 DEF Pinned
<1>11. t = b.next
  <2>1. Spill!OrElse(m.scope, 0) = b.next
    <3>1. m.scope \in Seq(Nat) /\ Len(m.scope) # 0 /\ m.scope[Len(m.scope)] = b.next
      BY <1>9, <1>10, AppendIs
    <3>2. QED
      BY <3>1, OrElseIs
  <2>2. Spill!OrElse(m.sticky, 0) = b.next
    <3>1. m.sticky \in Seq(Nat) /\ Len(m.sticky) # 0 /\ m.sticky[Len(m.sticky)] = b.next
      BY <1>5, <1>9, <1>10, PoolIs
    <3>2. QED
      BY <3>1, OrElseIs
  <2>3. QED
    BY <1>8, <2>1, <2>2 DEF ClearsTo
<1> DEFINE new == Spill!Clear(m).pool
<1>12. /\ new \in Pool /\ new.next = b.next /\ new.scope = m.scope /\ new.sticky = m.sticky /\ new.enter = m.enter
  BY <1>8, <1>11 DEF Moved
<1>13. c \in Construct /\ c.kind = "while" /\ c.at = "cond" /\ c.slots = <<>>
  <2>1. "while" \in KindNames /\ "cond" \in Places /\ <<>> \in Seq(Nat)
    BY DEF KindNames, Places
  <2>2. QED
    BY <2>1 DEF Spill!Con, Construct
<1> HIDE DEF new, c
<1>14. Enters(b, new, c)
  <2>1. IsLoop(c) /\ Pins(c) = 1 /\ Len(c.slots) = 0
    BY <1>13 DEF IsLoop, Pins
  <2>2. Between(c, b.next, new.next)
    BY <2>1 DEF Between
  <2>3. \A i \in 1 .. Len(new.sticky) : i > Len(b.sticky) => b.next <= new.sticky[i]
    <3>1. \A i \in 1 .. Len(new.sticky) : i > Len(b.sticky) => i = Len(b.sticky) + 1
      BY <1>9, <1>10, <1>12
    <3>2. QED
      BY <1>9, <1>10, <1>12, <3>1
  <2>4. b.next <= new.next /\ Len(new.sticky) = Len(b.sticky) + Pins(c)
    BY <1>9, <1>10, <1>12, <2>1
  <2>5. QED
    BY <1>10, <1>12, <1>13, <2>1, <2>2, <2>3, <2>4 DEF Enters
<1>15. Kept(new, Append(nest, c))
  BY <1>2, <1>14, KeptEnter
<1>16. /\ spills' = Spill!AtCond(m).pool /\ nest' = Append(nest, c)
       /\ hit' = (hit \/ Spill!AtCond(m).nulled \cap Spill!Range(Spill!Live(nest)) # {})
  BY DEF Spill!EnterWhile, Spill!Emit, m, u, e, c
<1>17. Spill!AtCond(m).nulled \cap Spill!Range(Spill!Live(nest)) = {}
  <2>1. \A i \in 1 .. Len(nest) : \A k \in 1 .. Len(nest[i].slots) : nest[i].slots[k] < b.next
    BY <1>2 DEF Ascend
  <2>2. QED
    BY <1>1, <1>2, <1>7, <1>8, <1>9, <1>11, <2>1, Missed
<1>18. hit' = FALSE
  BY <1>1, <1>16, <1>17
<1>19. QED
  BY <1>7, <1>15, <1>16, <1>18 DEF SpillInv, new

LEMMA WhileBodyKeeps == ASSUME SpillInv, Spill!WhileBody PROVE SpillInv'
<1> DEFINE c == [Spill!top EXCEPT !.at = "body", !.slots = <<>>]
<1>1. /\ nest # <<>> /\ Spill!top.kind = "while" /\ Spill!top.at = "cond"
      /\ spills' = Spill!Pin(spills) /\ nest' = Append(Spill!Front(nest), c) /\ hit' = hit
  BY DEF Spill!WhileBody, Spill!Set, Spill!Same
<1>2. spills \in Pool /\ nest \in Seq(Construct) /\ Kept(spills, nest) /\ hit = FALSE
  BY StateIs
<1>3. Len(nest) # 0 /\ Spill!top = nest[Len(nest)] /\ Spill!top \in Construct
  BY <1>1, StateIs
<1>4. c \in Construct /\ c.kind = "while" /\ c.at = "body" /\ Len(c.slots) = 0
  <2>1. "body" \in Places /\ <<>> \in Seq(Nat)
    BY DEF Places
  <2>2. QED
    BY <1>1, <1>3, <2>1 DEF Construct
<1> HIDE DEF c
<1>5. Pinned(spills, Spill!Pin(spills))
  BY <1>2, PinIs
<1>6. Kept(Spill!Pin(spills), Append(Spill!Front(nest), c))
  BY <1>1, <1>2, <1>3, <1>4, <1>5, KeptBody
<1>7. QED
  BY <1>1, <1>2, <1>6 DEF SpillInv

(* What leaveLoopSpillScope does to a pool that has at least the pins from *)
(* before the loop.                                                        *)
LEMMA LeftIs ==
  ASSUME NEW p, NEW r \in Pool,
         p.enter \in Seq(Nat), p.scope \in Seq(Nat), Len(p.scope) # 0, Len(p.enter) = Len(p.scope),
         r.scope = p.scope, r.enter = p.enter,
         p.enter[Len(p.enter)] <= Len(r.sticky),
         \A m \in 1 .. p.enter[Len(p.enter)] : r.sticky[m] = p.sticky[m]
  PROVE  LeftBy(p, Spill!LeaveScope(r).pool) /\ AtLeast(p.scope[Len(p.scope)], Spill!LeaveScope(r).nulled)
<1> DEFINE bot == p.enter[Len(p.enter)]
           new == Spill!LeaveScope(r).pool
<1>1. bot \in Nat /\ bot <= Len(r.sticky) /\ r.sticky \in Seq(Nat) /\ Len(r.sticky) \in Nat
  <2>1. Len(p.enter) \in 1 .. Len(p.enter)
    OBVIOUS
  <2>2. bot \in Nat
    BY <2>1
  <2>3. QED
    BY <2>2, PoolIs
<1>2. /\ new \in Pool /\ AtLeast(p.scope[Len(p.scope)], Spill!LeaveScope(r).nulled)
  BY LeaveIs
<1>3. Len(p.scope) = 1 => new.scope = <<>> /\ new.enter = <<>>
  BY LeaveIs
<1>4. Len(p.scope) # 1 => /\ new.next = p.scope[Len(p.scope)] /\ new.scope = Spill!Front(p.scope)
                          /\ new.enter = Spill!Front(p.enter) /\ new.sticky = SubSeq(r.sticky, 1, bot)
  BY LeaveIs
<1> HIDE DEF new, bot
<1>5. /\ Len(SubSeq(r.sticky, 1, bot)) = bot
      /\ \A m \in 1 .. bot : SubSeq(r.sticky, 1, bot)[m] = r.sticky[m]
  <2>1. bot \in 0 .. Len(r.sticky)
    BY <1>1
  <2>2. QED
    BY <1>1, <2>1, PrefixIs
<1>6. \A m \in 1 .. bot : r.sticky[m] = p.sticky[m]
  BY DEF bot
<1>7. LeftBy(p, new)
  <2>1. Len(p.scope) # 1 => Len(new.sticky) = bot /\ \A m \in 1 .. Len(new.sticky) : new.sticky[m] = p.sticky[m]
    BY <1>4, <1>5, <1>6
  <2>2. QED
    BY <1>2, <1>3, <1>4, <2>1 DEF LeftBy, bot
<1>8. QED
  BY <1>2, <1>7 DEF new

LEMMA OwnApart ==
  ASSUME NEW cs \in Seq(Construct), NEW n, Ascend(cs, n), Len(cs) # 0
  PROVE  Spill!Range(cs[Len(cs)].slots) \cap Spill!Range(Spill!Live(Spill!Front(cs))) = {}
<1>1. Len(cs) \in Nat \ {0} /\ Len(cs) \in 1 .. Len(cs)
  OBVIOUS
<1>2. cs[Len(cs)].slots \in Seq(Nat)
  BY <1>1, ConstructIs
<1>3. Spill!Front(cs) \in Seq(Construct) /\ Ascend(Spill!Front(cs), n)
  BY AscendPop
<1>4. Len(Spill!Front(cs)) = Len(cs) - 1 /\ \A i \in 1 .. Len(cs) - 1 : Spill!Front(cs)[i] = cs[i]
  BY FrontIs
<1>5. ASSUME NEW x \in Spill!Range(cs[Len(cs)].slots), x \in Spill!Range(Spill!Live(Spill!Front(cs))) PROVE FALSE
  <2>1. PICK i \in 1 .. Len(Spill!Front(cs)) : \E k \in 1 .. Len(Spill!Front(cs)[i].slots) : x = Spill!Front(cs)[i].slots[k]
    BY <1>3, <1>5, LiveIs
  <2>2. i \in 1 .. Len(cs) /\ i < Len(cs) /\ Spill!Front(cs)[i] = cs[i]
    BY <1>1, <1>4
  <2>3. PICK k \in 1 .. Len(cs[i].slots) : x = cs[i].slots[k]
    BY <2>1, <2>2
  <2>4. PICK l \in 1 .. Len(cs[Len(cs)].slots) : x = cs[Len(cs)].slots[l]
    BY <1>2, <1>5 DEF Spill!Range
  <2>5. cs[i].slots[k] < cs[Len(cs)].slots[l]
    BY <1>1, <2>2 DEF Ascend
  <2>6. x \in Nat
    BY <1>2, <2>4
  <2>7. QED
    BY <2>3, <2>4, <2>5, <2>6
<1>6. QED
  BY <1>5

(* Null stores in the scope of the innermost loop meet nothing outside it. *)
LEMMA OutsideMissed ==
  ASSUME NEW p, NEW cs, Kept(p, cs), Len(cs) # 0, IsLoop(cs[Len(cs)]),
         NEW S, AtLeast(p.scope[Len(p.scope)], S)
  PROVE  S \cap Spill!Range(Spill!Live(Spill!Front(cs))) = {}
<1>1. cs \in Seq(Construct) /\ Ascend(cs, p.next)
  BY DEF Kept
<1>2. Spill!Front(cs) \in Seq(Construct) /\ Ascend(Spill!Front(cs), p.next)
  BY <1>1, AscendPop
<1>3. Len(Spill!Front(cs)) = Len(cs) - 1 /\ \A i \in 1 .. Len(cs) - 1 : Spill!Front(cs)[i] = cs[i]
  BY <1>1, FrontIs
<1>4. p.scope[Len(p.scope)] \in Nat
  BY LoopOnTop
<1>5. \A i \in 1 .. Len(cs) - 1 : \A k \in 1 .. Len(cs[i].slots) : cs[i].slots[k] < p.scope[Len(p.scope)]
  BY LoopOnTop
<1>6. \A i \in 1 .. Len(Spill!Front(cs)) : \A k \in 1 .. Len(Spill!Front(cs)[i].slots) :
        Spill!Front(cs)[i].slots[k] < p.scope[Len(p.scope)]
  BY <1>3, <1>5
<1>7. QED
  BY <1>2, <1>4, <1>6, Missed

LEMMA EndWhileKeeps == ASSUME SpillInv, Spill!EndWhile PROVE SpillInv'
<1> DEFINE r == IF skipped THEN Spill!Op(spills, {}) ELSE Spill!Clear(spills)
           new == Spill!LeaveScope(r.pool)
           base == spills.scope[Len(spills.scope)]
<1>1. /\ nest # <<>> /\ Spill!top.kind = "while"
      /\ spills' = new.pool /\ nest' = Spill!Front(nest)
      /\ hit' = (hit \/ (r.nulled \cup new.nulled) \cap Spill!Range(Spill!Live(Spill!Front(nest))) # {})
  BY DEF Spill!EndWhile, Spill!Leave, Spill!Emit, Spill!Then, Spill!Op, Spill!Below
<1>2. spills \in Pool /\ nest \in Seq(Construct) /\ Kept(spills, nest) /\ hit = FALSE
  BY StateIs
<1>3. Len(nest) # 0 /\ Spill!top = nest[Len(nest)] /\ IsLoop(nest[Len(nest)])
  BY <1>1, StateIs DEF IsLoop
<1>4. /\ Len(spills.scope) \in Nat \ {0} /\ Len(spills.enter) = Len(spills.scope) /\ base \in Nat
      /\ spills.enter[Len(spills.enter)] \in Nat
      /\ spills.enter[Len(spills.enter)] + Pins(nest[Len(nest)]) = Len(spills.sticky)
      /\ Pins(nest[Len(nest)]) \in {1, 2}
  BY <1>2, <1>3, LoopOnTop
<1>5. spills.enter[Len(spills.enter)] <= Len(spills.sticky) /\ spills.enter \in Seq(Nat) /\ spills.scope \in Seq(Nat)
  BY <1>2, <1>4, PoolIs
<1>6. r.pool \in Pool /\ r.pool.scope = spills.scope /\ r.pool.enter = spills.enter /\ r.pool.sticky = spills.sticky
  <2>1. CASE skipped
    BY <1>2, <2>1 DEF Spill!Op
  <2>2. CASE ~skipped
    <3>1. PICK t : Moved(spills, Spill!Clear(spills).pool, t)
      BY <1>2, ClearIs
    <3>2. QED
      BY <2>2, <3>1 DEF Moved
  <2>3. QED
    BY <2>1, <2>2
<1>7. AtLeast(base, r.nulled)
  <2>1. CASE skipped
    BY <2>1 DEF Spill!Op, AtLeast
  <2>2. CASE ~skipped
    <3>1. PICK t : ClearsTo(spills, t) /\ AtLeast(t, Spill!Clear(spills).nulled)
      BY <1>2, ClearIs
    <3>2. t \in Nat /\ base <= t
      BY <1>4, <3>1 DEF ClearsTo
    <3>3. QED
      BY <1>4, <2>2, <3>1, <3>2 DEF AtLeast
  <2>3. QED
    BY <2>1, <2>2
<1> HIDE DEF r
<1>8. LeftBy(spills, new.pool) /\ AtLeast(base, new.nulled)
  BY <1>4, <1>5, <1>6, LeftIs
<1> HIDE DEF new
<1>9. Kept(new.pool, Spill!Front(nest))
  BY <1>2, <1>3, <1>8, KeptLeave
<1>10. (r.nulled \cup new.nulled) \cap Spill!Range(Spill!Live(Spill!Front(nest))) = {}
  <2>1. AtLeast(base, r.nulled \cup new.nulled)
    BY <1>7, <1>8 DEF AtLeast
  <2>2. QED
    BY <1>2, <1>3, <2>1, OutsideMissed
<1>11. QED
  BY <1>1, <1>2, <1>9, <1>10 DEF SpillInv

(* One slot taken and the cursor pinned above it.                          *)
LEMMA TakenIs ==
  ASSUME NEW p \in Pool
  PROVE  /\ Spill!Pin(Spill!Acquired(p)) \in Pool /\ Spill!Pin(Spill!Acquired(p)).next = p.next + 1
         /\ Spill!Pin(Spill!Acquired(p)).scope = p.scope /\ Spill!Pin(Spill!Acquired(p)).enter = p.enter
         /\ Len(Spill!Pin(Spill!Acquired(p)).sticky) = Len(p.sticky) + 1
         /\ Spill!Pin(Spill!Acquired(p)).sticky[Len(p.sticky) + 1] = p.next + 1
         /\ \A m \in 1 .. Len(p.sticky) : Spill!Pin(Spill!Acquired(p)).sticky[m] = p.sticky[m]
<1>1. Moved(p, Spill!Acquired(p), p.next + 1)
  BY AcquiredIs
<1>2. Pinned(Spill!Acquired(p), Spill!Pin(Spill!Acquired(p)))
  BY <1>1, PinIs DEF Moved
<1>3. QED
  BY <1>1, <1>2 DEF Moved, Pinned

LEMMA EnterForKeeps == ASSUME Planned, SpillInv, NEW ref \in BOOLEAN, Spill!EnterFor(ref) PROVE SpillInv'
<1> DEFINE b == Ready(spills)
           e == Spill!EnterScope(spills)
           new == Spill!Pin(Spill!Acquired(e))
           s == IF ref THEN Spill!Pin(Spill!Acquired(new)) ELSE new
           sl == IF ref THEN <<e.next, new.next>> ELSE <<e.next>>
           c == Spill!Con("for", "body", sl)
<1>1. spills' = s /\ nest' = Append(nest, c) /\ hit' = hit
  BY DEF Spill!EnterFor, Spill!Same
<1>2. spills \in Pool /\ nest \in Seq(Construct) /\ Kept(spills, nest) /\ hit = FALSE
  BY StateIs
<1>3. Kept(b, nest) /\ b \in Pool
  BY <1>2, ReadyKept DEF Kept
<1>4. /\ e \in Pool /\ e.next = b.next /\ e.scope = Append(b.scope, b.next)
      /\ e.enter = Append(b.enter, Len(b.sticky)) /\ e.sticky = b.sticky
  BY <1>2, EnterIs
<1> HIDE DEF e, b
<1>5. /\ new \in Pool /\ new.next = b.next + 1 /\ new.scope = e.scope /\ new.enter = e.enter
      /\ Len(new.sticky) = Len(b.sticky) + 1 /\ new.sticky[Len(b.sticky) + 1] = b.next + 1
      /\ \A m \in 1 .. Len(b.sticky) : new.sticky[m] = b.sticky[m]
  <2>1. /\ new \in Pool /\ new.next = e.next + 1 /\ new.scope = e.scope /\ new.enter = e.enter
        /\ Len(new.sticky) = Len(e.sticky) + 1 /\ new.sticky[Len(e.sticky) + 1] = e.next + 1
        /\ \A m \in 1 .. Len(e.sticky) : new.sticky[m] = e.sticky[m]
    BY <1>4, TakenIs
  <2> HIDE DEF new
  <2>2. QED
    BY <1>4, <2>1
<1> HIDE DEF new
<1>6. b.next \in Nat /\ Len(b.sticky) \in Nat
  BY <1>3, PoolIs
<1>7. sl \in Seq(Nat) /\ e.next \in Nat /\ new.next \in Nat
  BY <1>4, <1>5, <1>6
<1>8. /\ ref => Len(sl) = 2 /\ sl[1] = b.next /\ sl[2] = b.next + 1
      /\ ~ref => Len(sl) = 1 /\ sl[1] = b.next
  BY <1>4, <1>5
<1>9. c \in Construct /\ c.kind = "for" /\ c.at = "body" /\ c.slots = sl
  <2>1. "for" \in KindNames /\ "body" \in Places
    BY DEF KindNames, Places
  <2> HIDE DEF sl
  <2>2. QED
    BY <1>7, <2>1 DEF Spill!Con, Construct
<1> HIDE DEF c, sl
<1>10. IsLoop(c) /\ Pins(c) = Len(sl) /\ Len(sl) \in {1, 2}
  BY <1>8, <1>9 DEF IsLoop, Pins
<1>11. Enters(b, s, c)
  <2>1. CASE ref
    <3>1. /\ s \in Pool /\ s.next = b.next + 2 /\ s.scope = e.scope /\ s.enter = e.enter
          /\ Len(s.sticky) = Len(b.sticky) + 2 /\ s.sticky[Len(b.sticky) + 2] = b.next + 2
          /\ \A m \in 1 .. Len(b.sticky) + 1 : s.sticky[m] = new.sticky[m]
      <4>1. /\ s \in Pool /\ s.next = new.next + 1 /\ s.scope = new.scope /\ s.enter = new.enter
            /\ Len(s.sticky) = Len(new.sticky) + 1
            /\ s.sticky[Len(new.sticky) + 1] = new.next + 1
            /\ \A m \in 1 .. Len(new.sticky) : s.sticky[m] = new.sticky[m]
        BY <1>5, <2>1, TakenIs
      <4> HIDE DEF s
      <4>2. new.next + 1 = b.next + 2 /\ Len(new.sticky) + 1 = Len(b.sticky) + 2
        BY <1>5, <1>6
      <4>3. QED
        BY <1>5, <4>1, <4>2
    <3> HIDE DEF s
    <3>2. /\ \A m \in 1 .. Len(b.sticky) : s.sticky[m] = b.sticky[m]
          /\ s.sticky[Len(b.sticky) + 1] = b.next + 1
      BY <1>5, <1>6, <3>1
    <3>3. \A m \in 1 .. Len(s.sticky) : m > Len(b.sticky) => m = Len(b.sticky) + 1 \/ m = Len(b.sticky) + 2
      BY <1>6, <3>1
    <3>4. ASSUME NEW m \in 1 .. Len(s.sticky), m > Len(b.sticky) PROVE b.next <= s.sticky[m]
      <4>1. CASE m = Len(b.sticky) + 1
        BY <1>6, <3>2, <4>1
      <4>2. CASE m = Len(b.sticky) + 2
        BY <1>6, <3>1, <4>2
      <4>3. QED
        BY <3>3, <3>4, <4>1, <4>2
    <3>5. Len(c.slots) = 2 /\ c.slots[1] = b.next /\ c.slots[2] = b.next + 1
      BY <1>8, <1>9, <2>1
    <3>6. \A k \in 1 .. Len(c.slots) : k = 1 \/ k = 2
      BY <3>5
    <3>7. Between(c, b.next, s.next)
      BY <1>6, <3>1, <3>5, <3>6 DEF Between
    <3>8. \A k \in 1 .. Len(c.slots) : c.slots[k] < s.sticky[Len(b.sticky) + k]
      <4>1. b.next < b.next + 1 /\ b.next + 1 < b.next + 2
        BY <1>6
      <4>2. c.slots[1] < s.sticky[Len(b.sticky) + 1]
        BY <3>2, <3>5, <4>1
      <4>3. c.slots[2] < s.sticky[Len(b.sticky) + 2]
        BY <3>1, <3>5, <4>1
      <4>4. QED
        BY <3>6, <4>2, <4>3
    <3>9. b.next <= s.next /\ Len(s.sticky) = Len(b.sticky) + Pins(c)
      BY <1>6, <1>9, <1>10, <3>1, <3>5
    <3>10. s.scope = Append(b.scope, b.next) /\ s.enter = Append(b.enter, Len(b.sticky))
      BY <1>4, <3>1
    <3>11. QED
      BY <1>9, <1>10, <3>1, <3>2, <3>4, <3>5, <3>7, <3>8, <3>9, <3>10 DEF Enters
  <2>2. CASE ~ref
    <3>1. s = new
      BY <2>2
    <3> HIDE DEF s
    <3>2. \A m \in 1 .. Len(s.sticky) : m > Len(b.sticky) => m = Len(b.sticky) + 1
      BY <1>5, <1>6, <3>1
    <3>3. \A m \in 1 .. Len(s.sticky) : m > Len(b.sticky) => b.next <= s.sticky[m]
      BY <1>5, <1>6, <3>1, <3>2
    <3>4. Len(c.slots) = 1 /\ c.slots[1] = b.next
      BY <1>8, <1>9, <2>2
    <3>5. \A k \in 1 .. Len(c.slots) : k = 1
      BY <3>4
    <3>6. Between(c, b.next, s.next)
      BY <1>5, <1>6, <3>1, <3>4, <3>5 DEF Between
    <3>7. \A k \in 1 .. Len(c.slots) : c.slots[k] < s.sticky[Len(b.sticky) + k]
      BY <1>5, <1>6, <3>1, <3>4, <3>5
    <3>8. b.next <= s.next /\ Len(s.sticky) = Len(b.sticky) + Pins(c)
      BY <1>5, <1>6, <1>9, <1>10, <3>1, <3>4
    <3>9. s.scope = Append(b.scope, b.next) /\ s.enter = Append(b.enter, Len(b.sticky)) /\ s \in Pool
      BY <1>4, <1>5, <3>1
    <3>10. \A m \in 1 .. Len(b.sticky) : s.sticky[m] = b.sticky[m]
      BY <1>5, <3>1
    <3>11. QED
      BY <1>9, <1>10, <3>3, <3>4, <3>6, <3>7, <3>8, <3>9, <3>10 DEF Enters
  <2>3. QED
    BY <2>1, <2>2
<1> HIDE DEF s
<1>12. Kept(s, Append(nest, c))
  BY <1>3, <1>11, KeptEnter
<1>13. QED
  BY <1>1, <1>2, <1>12 DEF SpillInv

(* Everything held when a for steps is below its last pin.                 *)
LEMMA ForBelowPin ==
  ASSUME NEW p, NEW cs, Kept(p, cs), Len(cs) # 0, cs[Len(cs)].kind = "for"
  PROVE  /\ Len(p.sticky) \in Nat \ {0} /\ p.sticky[Len(p.sticky)] \in Nat
         /\ p.scope[Len(p.scope)] <= p.sticky[Len(p.sticky)]
         /\ \A i \in 1 .. Len(cs) : \A k \in 1 .. Len(cs[i].slots) : cs[i].slots[k] < p.sticky[Len(p.sticky)]
<1> DEFINE w == Len(p.sticky)
           n == Len(p.scope)
           b == cs[Len(cs)]
<1>1. p \in Pool /\ cs \in Seq(Construct) /\ Ascend(cs, p.next) /\ IsLoop(b)
  BY DEF Kept, IsLoop
<1>2. /\ n \in Nat \ {0} /\ Len(p.enter) = n /\ p.scope[n] \in Nat /\ p.enter[n] \in Nat
      /\ p.enter[n] + Pins(b) = w /\ Pins(b) \in {1, 2}
  <2>1. /\ Len(p.scope) \in Nat \ {0} /\ Len(p.enter) = Len(p.scope)
        /\ p.scope[Len(p.scope)] \in Nat /\ p.enter[Len(p.enter)] \in Nat
        /\ p.enter[Len(p.enter)] + Pins(cs[Len(cs)]) = Len(p.sticky) /\ Pins(cs[Len(cs)]) \in {1, 2}
    BY <1>1, LoopOnTop
  <2>2. QED
    BY <2>1
<1>3. \A m \in 1 .. Len(p.sticky) : m > p.enter[n] => p.scope[n] <= p.sticky[m]
  BY <1>1, <1>2, LoopOnTop
<1>4. \A i \in 1 .. Len(cs) - 1 : \A k \in 1 .. Len(cs[i].slots) : cs[i].slots[k] < p.scope[n]
  BY <1>1, LoopOnTop
<1>5. \A k \in 1 .. Len(b.slots) : b.slots[k] < p.sticky[p.enter[n] + k]
  BY <1>1, <1>2, LoopOnTop
<1>6. Len(cs) \in Nat \ {0} /\ Len(cs) \in 1 .. Len(cs)
  BY <1>1
<1>7. Pins(b) = Len(b.slots)
  BY DEF Pins
<1>8. \A i \in 1 .. Len(cs) : \A k \in 1 .. Len(cs[i].slots) : cs[i].slots[k] \in Nat
  BY <1>1, ConstructIs
<1>9. \A k, l \in 1 .. Len(b.slots) : k < l => b.slots[k] < b.slots[l]
  BY <1>1, <1>6 DEF Ascend
<1> HIDE DEF w, n, b
<1>10. w \in Nat \ {0} /\ w \in 1 .. Len(p.sticky) /\ w > p.enter[n]
  BY <1>2 DEF w
<1>11. p.sticky[w] \in Nat
  BY <1>1, <1>10, PoolIs
<1>12. p.scope[n] <= p.sticky[w]
  BY <1>3, <1>10
<1>13. ASSUME NEW i \in 1 .. Len(cs), NEW k \in 1 .. Len(cs[i].slots) PROVE cs[i].slots[k] < p.sticky[w]
  <2>1. CASE i # Len(cs)
    <3>1. i \in 1 .. Len(cs) - 1
      BY <1>6, <2>1
    <3>2. cs[i].slots[k] < p.scope[n] /\ cs[i].slots[k] \in Nat
      BY <1>4, <1>8, <3>1
    <3>3. QED
      BY <1>2, <1>11, <1>12, <3>2
  <2>2. CASE i = Len(cs)
    <3> DEFINE l == Len(b.slots)
    <3>1. cs[i] = b /\ k \in 1 .. l
      BY <2>2 DEF b
    <3>2. l \in {1, 2} /\ l \in 1 .. Len(b.slots) /\ p.enter[n] + l = w
      <4>1. l = Pins(b)
        BY <1>7
      <4>2. l \in {1, 2} /\ p.enter[n] + l = w
        BY <1>2, <4>1
      <4>3. \A x \in {1, 2} : x \in 1 .. x
        OBVIOUS
      <4>4. l \in 1 .. l
        BY <4>2, <4>3, Zenon
      <4>5. QED
        BY <4>2, <4>4
    <3>3. b.slots[l] < p.sticky[w] /\ b.slots[l] \in Nat /\ b.slots[k] \in Nat
      BY <1>5, <1>8, <2>2, <3>1, <3>2
    <3>4. CASE k = l
      BY <3>1, <3>3, <3>4
    <3>5. CASE k # l
      <4>1. k < l
        BY <3>1, <3>2, <3>5
      <4>2. b.slots[k] < b.slots[l]
        BY <1>9, <3>1, <3>2, <4>1
      <4>3. QED
        BY <1>11, <3>1, <3>3, <4>2
    <3>6. QED
      BY <3>4, <3>5
  <2>3. QED
    BY <2>1, <2>2
<1>14. QED
  BY <1>10, <1>11, <1>12, <1>13 DEF w, n

LEMMA PoppedIs ==
  ASSUME NEW s \in Seq(Nat), NEW n \in Nat, Len(s) = n + 1
  PROVE  /\ Len(Spill!Front(s)) = n /\ \A m \in 1 .. n : Spill!Front(s)[m] = s[m]
         /\ n + 1 \in 1 .. Len(s) /\ s[n + 1] \in Nat /\ s[Len(s)] = s[n + 1]
<1>1. Len(s) # 0 /\ Len(s) - 1 = n
  OBVIOUS
<1>2. Len(Spill!Front(s)) = n /\ \A m \in 1 .. n : Spill!Front(s)[m] = s[m]
  <2>1. Len(Spill!Front(s)) = Len(s) - 1 /\ \A i \in 1 .. Len(s) - 1 : Spill!Front(s)[i] = s[i]
    BY <1>1, FrontIs
  <2>2. QED
    BY <1>1, <2>1
<1>3. n + 1 \in 1 .. Len(s)
  OBVIOUS
<1>4. s[n + 1] \in Nat
  BY <1>3
<1>5. QED
  BY <1>2, <1>3, <1>4

LEMMA EndForKeeps == ASSUME SpillInv, Spill!EndFor PROVE SpillInv'
<1> DEFINE step == Spill!Recycle(spills)
           var == IF Len(Spill!top.slots) = 2 THEN Spill!Unpin(step.pool) ELSE Spill!Op(step.pool, {})
           seq == Spill!Unpin(var.pool)
           new == Spill!LeaveScope(seq.pool)
           base == spills.scope[Len(spills.scope)]
           bot == spills.enter[Len(spills.enter)]
           w == spills.sticky[Len(spills.sticky)]
<1>1. /\ nest # <<>> /\ Spill!top.kind = "for" /\ spills' = new.pool /\ nest' = Spill!Front(nest)
      /\ hit' = (hit \/ step.nulled \cap Spill!Range(Spill!Live(nest)) # {}
                     \/ (((Spill!Range(Spill!top.slots) \cup var.nulled) \cup seq.nulled) \cup new.nulled)
                          \cap Spill!Range(Spill!Live(Spill!Front(nest))) # {})
  BY DEF Spill!EndFor, Spill!Then, Spill!Op, Spill!Below
<1>2. spills \in Pool /\ nest \in Seq(Construct) /\ Kept(spills, nest) /\ Ascend(nest, spills.next) /\ hit = FALSE
  BY StateIs
<1>3. Len(nest) # 0 /\ Spill!top = nest[Len(nest)] /\ nest[Len(nest)].kind = "for" /\ IsLoop(nest[Len(nest)])
  BY <1>1, StateIs DEF IsLoop
<1>4. /\ Len(spills.scope) \in Nat \ {0} /\ Len(spills.enter) = Len(spills.scope) /\ base \in Nat /\ bot \in Nat
      /\ bot + Pins(nest[Len(nest)]) = Len(spills.sticky)
  BY <1>2, <1>3, LoopOnTop
<1>5. \A m \in 1 .. Len(spills.sticky) : m > bot => base <= spills.sticky[m]
  BY <1>2, <1>3, LoopOnTop
<1>6. Pins(nest[Len(nest)]) = Len(Spill!top.slots) /\ Pins(nest[Len(nest)]) \in {1, 2}
  <2>1. Pins(nest[Len(nest)]) = Len(Spill!top.slots)
    BY <1>3 DEF Pins
  <2>2. Pins(nest[Len(nest)]) \in {1, 2}
    BY <1>2, <1>3, LoopOnTop
  <2>3. QED
    BY <2>1, <2>2
<1>7. spills.enter \in Seq(Nat) /\ spills.scope \in Seq(Nat) /\ spills.sticky \in Seq(Nat) /\ Len(spills.sticky) \in Nat
  BY <1>2, PoolIs
<1>8. /\ Len(spills.sticky) # 0 /\ w \in Nat /\ base <= w
      /\ \A i \in 1 .. Len(nest) : \A k \in 1 .. Len(nest[i].slots) : nest[i].slots[k] < w
  BY <1>2, <1>3, ForBelowPin
<1>9. Moved(spills, step.pool, w) /\ AtLeast(w, step.nulled)
  BY <1>2, <1>8, RecycleIs
<1>10. step.pool \in Pool /\ step.pool.scope = spills.scope /\ step.pool.enter = spills.enter
       /\ step.pool.sticky = spills.sticky
  BY <1>9 DEF Moved
<1> HIDE DEF step
<1>11. \A r \in Pool : Len(r.sticky) # 0 =>
         /\ Spill!Unpin(r).pool \in Pool
         /\ Spill!Unpin(r).pool.scope = r.scope /\ Spill!Unpin(r).pool.enter = r.enter
         /\ Spill!Unpin(r).pool.sticky = Spill!Front(r.sticky)
         /\ AtLeast(r.sticky[Len(r.sticky)], Spill!Unpin(r).nulled)
  BY UnpinIs
<1>12. bot + 1 \in Nat /\ \A m \in 1 .. bot : m \in 1 .. bot + 1
  BY <1>4
<1>13. /\ var.pool \in Pool /\ var.pool.scope = spills.scope /\ var.pool.enter = spills.enter
       /\ Len(var.pool.sticky) = bot + 1
       /\ \A m \in 1 .. bot + 1 : var.pool.sticky[m] = spills.sticky[m]
       /\ AtLeast(base, var.nulled)
  <2>1. CASE Len(Spill!top.slots) = 2
    <3>1. var = Spill!Unpin(step.pool)
      BY <2>1
    <3> HIDE DEF var
    <3>2. /\ var.pool \in Pool /\ var.pool.scope = spills.scope /\ var.pool.enter = spills.enter
          /\ var.pool.sticky = Spill!Front(spills.sticky) /\ AtLeast(w, var.nulled)
      BY <1>8, <1>10, <1>11, <3>1
    <3>3. Len(spills.sticky) = bot + 2
      BY <1>4, <1>6, <2>1
    <3>4. Len(var.pool.sticky) = bot + 1 /\ \A m \in 1 .. bot + 1 : var.pool.sticky[m] = spills.sticky[m]
      <4>1. Len(spills.sticky) = (bot + 1) + 1
        BY <1>4, <3>3
      <4>2. /\ Len(Spill!Front(spills.sticky)) = bot + 1
            /\ \A m \in 1 .. bot + 1 : Spill!Front(spills.sticky)[m] = spills.sticky[m]
        BY <1>7, <1>12, <4>1, PoppedIs
      <4>3. QED
        BY <3>2, <4>2
    <3>5. AtLeast(base, var.nulled)
      BY <1>4, <1>8, <3>2 DEF AtLeast
    <3>6. QED
      BY <3>2, <3>4, <3>5
  <2>2. CASE Len(Spill!top.slots) # 2
    <3>1. var = Spill!Op(step.pool, {})
      BY <2>2
    <3> HIDE DEF var
    <3>2. var.pool = step.pool /\ var.nulled = {}
      BY <3>1 DEF Spill!Op
    <3>3. Len(spills.sticky) = bot + 1
      BY <1>4, <1>6, <2>2
    <3>4. AtLeast(base, var.nulled)
      BY <3>2 DEF AtLeast
    <3>5. QED
      BY <1>10, <3>2, <3>3, <3>4
  <2>3. QED
    BY <2>1, <2>2
<1> HIDE DEF var
<1>14. /\ seq.pool \in Pool /\ seq.pool.scope = spills.scope /\ seq.pool.enter = spills.enter
       /\ Len(seq.pool.sticky) = bot /\ \A m \in 1 .. bot : seq.pool.sticky[m] = spills.sticky[m]
       /\ AtLeast(base, seq.nulled)
  <2>1. Len(var.pool.sticky) # 0 /\ var.pool.sticky \in Seq(Nat)
    BY <1>4, <1>13, PoolIs
  <2>2. /\ seq.pool \in Pool /\ seq.pool.scope = spills.scope /\ seq.pool.enter = spills.enter
        /\ seq.pool.sticky = Spill!Front(var.pool.sticky)
        /\ AtLeast(var.pool.sticky[Len(var.pool.sticky)], seq.nulled)
    BY <1>11, <1>13, <2>1
  <2>3. Len(seq.pool.sticky) = bot /\ \A m \in 1 .. bot : seq.pool.sticky[m] = spills.sticky[m]
    <3>1. /\ Len(Spill!Front(var.pool.sticky)) = bot
          /\ \A m \in 1 .. bot : Spill!Front(var.pool.sticky)[m] = var.pool.sticky[m]
      BY <1>4, <1>13, <2>1, PoppedIs
    <3>2. QED
      BY <1>12, <1>13, <2>2, <3>1
  <2>4. base <= var.pool.sticky[Len(var.pool.sticky)] /\ var.pool.sticky[Len(var.pool.sticky)] \in Nat
    <3>1. \A a \in Nat, b \in {1, 2} : a + 1 \in 1 .. a + b /\ a + 1 > a /\ a + 1 \in 1 .. a + 1
      OBVIOUS
    <3>2. bot + 1 \in 1 .. Len(spills.sticky) /\ bot + 1 > bot /\ bot + 1 \in 1 .. bot + 1
      <4>1. /\ bot + 1 \in 1 .. bot + Pins(nest[Len(nest)]) /\ bot + 1 > bot
            /\ bot + 1 \in 1 .. bot + 1
        BY <1>4, <1>6, <3>1
      <4>2. QED
        BY <1>4, <4>1
    <3>3. \A m \in 1 .. Len(spills.sticky) : spills.sticky[m] \in Nat
      BY <1>7
    <3>4. base <= spills.sticky[bot + 1] /\ spills.sticky[bot + 1] \in Nat
      BY <1>5, <3>2, <3>3
    <3>5. var.pool.sticky[Len(var.pool.sticky)] = spills.sticky[bot + 1]
      BY <1>13, <3>2
    <3>6. QED
      BY <3>4, <3>5
  <2>5. AtLeast(base, seq.nulled)
    BY <1>4, <2>2, <2>4 DEF AtLeast
  <2>6. QED
    BY <2>2, <2>3, <2>5
<1> HIDE DEF seq
<1>15. LeftBy(spills, new.pool) /\ AtLeast(base, new.nulled)
  <2>1. bot <= Len(seq.pool.sticky)
    BY <1>4, <1>14
  <2>2. QED
    BY <1>4, <1>7, <1>14, <2>1, LeftIs
<1> HIDE DEF new
<1>16. Kept(new.pool, Spill!Front(nest))
  BY <1>2, <1>3, <1>15, KeptLeave
<1>17. step.nulled \cap Spill!Range(Spill!Live(nest)) = {}
  BY <1>2, <1>8, <1>9, Missed
<1>18. (((Spill!Range(Spill!top.slots) \cup var.nulled) \cup seq.nulled) \cup new.nulled) \cap Spill!Range(Spill!Live(Spill!Front(nest))) = {}
  <2>1. Spill!Range(Spill!top.slots) \cap Spill!Range(Spill!Live(Spill!Front(nest))) = {}
    BY <1>2, <1>3, OwnApart
  <2>2. AtLeast(base, (var.nulled \cup seq.nulled) \cup new.nulled)
    BY <1>13, <1>14, <1>15 DEF AtLeast
  <2>3. ((var.nulled \cup seq.nulled) \cup new.nulled) \cap Spill!Range(Spill!Live(Spill!Front(nest))) = {}
    BY <1>2, <1>3, <2>2, OutsideMissed
  <2>4. QED
    BY <2>1, <2>3
<1>19. hit' = FALSE
  BY <1>1, <1>2, <1>17, <1>18
<1>20. QED
  BY <1>1, <1>16, <1>19 DEF SpillInv

LEMMA AcquireKeeps == ASSUME SpillInv, Spill!Acquire PROVE SpillInv'
<1> DEFINE c == [Spill!top EXCEPT !.slots = Append(Spill!top.slots, spills.next)]
<1>1. /\ nest # <<>> /\ spills' = Spill!Acquired(spills) /\ nest' = Append(Spill!Front(nest), c) /\ hit' = hit
      /\ Spill!top.kind = "scope" \/ Spill!top.at \in {"cond", "ops"}
  BY DEF Spill!Acquire, Spill!Set, Spill!Same
<1>2. spills \in Pool /\ nest \in Seq(Construct) /\ Kept(spills, nest) /\ hit = FALSE /\ spills.next \in Nat
  BY StateIs
<1>3. Len(nest) # 0 /\ Spill!top = nest[Len(nest)] /\ Spill!top \in Construct /\ Len(nest) \in 1 .. Len(nest)
  BY <1>1, StateIs
<1>4. Append(Spill!top.slots, spills.next) \in Seq(Nat)
  BY <1>2, <1>3, AppendIs DEF Construct
<1>5. c \in Construct /\ c.kind = Spill!top.kind /\ c.at = Spill!top.at /\ c.slots = Append(Spill!top.slots, spills.next)
  BY <1>3, <1>4 DEF Construct
<1>6. Spill!top.kind # "for"
  <2>1. PICK f \in Seq(Nat) : Numbered(nest, f)
    BY <1>2 DEF Kept
  <2>2. Spill!top.kind = "for" => Spill!top.at = "body"
    BY <1>3, <2>1 DEF Numbered
  <2>3. QED
    BY <1>1, <2>2
<1>7. ~(Spill!top.kind = "while" /\ Spill!top.at = "body")
  BY <1>1
<1> HIDE DEF c
<1>8. Moved(spills, Spill!Acquired(spills), spills.next + 1)
  BY <1>2, AcquiredIs
<1>9. Kept(Spill!Acquired(spills), Append(Spill!Front(nest), c))
  <2>1. /\ c.kind = nest[Len(nest)].kind /\ c.at = nest[Len(nest)].at
        /\ c.slots = Append(nest[Len(nest)].slots, spills.next)
        /\ c.kind # "for" /\ ~(c.kind = "while" /\ c.at = "body")
    BY <1>3, <1>5, <1>6, <1>7
  <2>2. QED
    BY <1>2, <1>3, <1>5, <1>8, <2>1, KeptGrow
<1>10. QED
  BY <1>1, <1>2, <1>9 DEF SpillInv

(* A construct that holds nothing, one that holds the slot at the cursor,  *)
(* and other ways for what is open to change, keep the pool.               *)
LEMMA EmptyConIs ==
  ASSUME NEW k \in {"scope", "select"}, NEW a \in Places
  PROVE  /\ Spill!Con(k, a, <<>>) \in Construct /\ Spill!Con(k, a, <<>>).kind = k
         /\ Len(Spill!Con(k, a, <<>>).slots) = 0
<1>1. k \in KindNames /\ 0 \in Nat
  BY DEF KindNames
<1>2. <<>> \in Seq(Nat) /\ Len(<<>>) = 0
  OBVIOUS
<1>3. QED
  BY <1>1, <1>2 DEF Spill!Con, Construct

LEMMA PushEmpty ==
  ASSUME NEW p, NEW cs, Kept(p, cs), Len(cs) # 0, NEW k \in {"scope", "select"}, NEW a \in Places
  PROVE  Kept(p, Append(cs, Spill!Con(k, a, <<>>)))
<1> DEFINE c == Spill!Con(k, a, <<>>)
<1>1. c \in Construct /\ c.kind = k /\ Len(c.slots) = 0
  BY EmptyConIs
<1> HIDE DEF c
<1>2. ~IsLoop(c)
  BY <1>1 DEF IsLoop
<1>3. p \in Pool /\ p.next \in Nat
  BY PoolIs DEF Kept
<1>4. Moved(p, p, p.next) /\ p.next <= p.next
  BY <1>3 DEF Moved
<1>5. Between(c, p.next, p.next)
  BY <1>1 DEF Between
<1>6. Kept(p, Append(cs, c))
  BY <1>1, <1>2, <1>3, <1>4, <1>5, KeptPush
<1>7. QED
  BY <1>6 DEF c

LEMMA PushHolding ==
  ASSUME NEW p, NEW cs, Kept(p, cs), Len(cs) # 0, NEW k \in {"when", "try"}, NEW a \in Places
  PROVE  Kept(Spill!Acquired(p), Append(cs, Spill!Con(k, a, <<p.next>>)))
<1> DEFINE s == <<p.next>>
           c == Spill!Con(k, a, s)
<1>1. p \in Pool /\ p.next \in Nat
  BY PoolIs DEF Kept
<1>2. s \in Seq(Nat) /\ Len(s) = 1 /\ s[1] = p.next
  BY <1>1
<1> HIDE DEF s
<1>3. k \in KindNames
  BY DEF KindNames
<1>4. c \in Construct /\ c.kind = k /\ c.slots = s
  BY <1>2, <1>3, ConIs
<1> HIDE DEF c
<1>5. ~IsLoop(c)
  BY <1>4 DEF IsLoop
<1>6. Moved(p, Spill!Acquired(p), p.next + 1) /\ p.next + 1 \in Nat
  BY <1>1, AcquiredIs
<1>7. Between(c, p.next, p.next + 1)
  <2>1. \A i \in 1 .. Len(c.slots) : i = 1 /\ c.slots[i] = p.next
    <3>1. \A i \in 1 .. Len(s) : i = 1
      BY <1>2
    <3>2. QED
      BY <1>2, <1>4, <3>1
  <2>2. p.next <= p.next /\ p.next < p.next + 1
    BY <1>1
  <2>3. QED
    BY <2>1, <2>2 DEF Between
<1>8. p.next <= p.next + 1
  BY <1>1
<1>9. Kept(Spill!Acquired(p), Append(cs, c))
  BY <1>4, <1>5, <1>6, <1>7, <1>8, KeptPush
<1>10. QED
  BY <1>9 DEF c, s

(* The construct on top stands elsewhere.                                  *)
LEMMA KeptStand ==
  ASSUME NEW p, NEW cs, NEW c \in Construct, Kept(p, cs), Len(cs) # 0,
         c.kind = cs[Len(cs)].kind, c.slots = cs[Len(cs)].slots, ~IsLoop(cs[Len(cs)])
  PROVE  Kept(p, Append(Spill!Front(cs), c)) /\ Len(Append(Spill!Front(cs), c)) = Len(cs)
<1> DEFINE ds == Append(Spill!Front(cs), c)
<1>1. cs \in Seq(Construct) /\ Len(cs) \in Nat
  BY ConstructIs DEF Kept
<1>2. /\ ds \in Seq(Construct) /\ Len(ds) = Len(cs)
      /\ \A i \in 1 .. Len(cs) - 1 : ds[i] = cs[i]
      /\ ds[Len(cs)] = c
  BY <1>1, SetLastIs
<1> HIDE DEF ds
<1>3. \A i \in 1 .. Len(cs) : i \in 1 .. Len(cs) - 1 \/ i = Len(cs)
  BY <1>1
<1>4. ASSUME NEW i \in 1 .. Len(cs)
      PROVE  /\ ds[i].kind = cs[i].kind /\ ds[i].slots = cs[i].slots
             /\ IsLoop(cs[i]) => ds[i].at = cs[i].at
  BY <1>2, <1>3
<1>5. Kept(p, ds)
  BY <1>2, <1>4, KeptShape
<1>6. QED
  BY <1>2, <1>5 DEF ds

(* One construct of the sequence changes in what the pool does not read.   *)
LEMMA ExceptIs ==
  ASSUME NEW S, NEW s \in Seq(S), NEW i \in 1 .. Len(s), NEW e \in S
  PROVE  /\ [s EXCEPT ![i] = e] \in Seq(S) /\ Len([s EXCEPT ![i] = e]) = Len(s)
         /\ [s EXCEPT ![i] = e][i] = e
         /\ \A j \in 1 .. Len(s) : j # i => [s EXCEPT ![i] = e][j] = s[j]
  OBVIOUS

LEMMA KeptExcept ==
  ASSUME NEW p, NEW cs, NEW i \in 1 .. Len(cs), NEW c \in Construct, Kept(p, cs),
         c.kind = cs[i].kind, c.slots = cs[i].slots, IsLoop(cs[i]) => c.at = cs[i].at
  PROVE  Kept(p, [cs EXCEPT ![i] = c])
<1> DEFINE ds == [cs EXCEPT ![i] = c]
<1>1. cs \in Seq(Construct)
  BY DEF Kept
<1>2. /\ ds \in Seq(Construct) /\ Len(ds) = Len(cs) /\ ds[i] = c
      /\ \A j \in 1 .. Len(cs) : j # i => ds[j] = cs[j]
  BY <1>1, ExceptIs
<1> HIDE DEF ds
<1>3. ASSUME NEW j \in 1 .. Len(cs)
      PROVE  /\ ds[j].kind = cs[j].kind /\ ds[j].slots = cs[j].slots
             /\ IsLoop(cs[j]) => ds[j].at = cs[j].at
  BY <1>2
<1>4. Kept(p, ds)
  BY <1>2, <1>3, KeptShape
<1>5. QED
  BY <1>4 DEF ds

(* Inside a loop something is open.                                        *)
LEMMA OpenInLoop == ASSUME SpillInv, Spill!InLoop PROVE Len(nest) # 0 /\ nest # <<>>
<1>1. spills \in Pool /\ Kept(spills, nest) /\ spills.scope \in Seq(Nat)
  BY StateIs, PoolIs
<1>2. Len(spills.scope) # 0
  BY <1>1 DEF Spill!InLoop
<1>3. QED
  BY <1>1, <1>2, OutsideIs

LEMMA OpenScopeKeeps == ASSUME SpillInv, Spill!OpenScope PROVE SpillInv'
<1>1. Spill!InLoop /\ spills' = spills /\ nest' = Append(nest, Spill!Con("scope", "body", <<>>)) /\ hit' = hit
  BY DEF Spill!OpenScope, Spill!Same
<1>2. Kept(spills, nest) /\ hit = FALSE /\ Len(nest) # 0
  BY <1>1, StateIs, OpenInLoop
<1>3. "body" \in Places
  BY DEF Places
<1>4. Kept(spills, Append(nest, Spill!Con("scope", "body", <<>>)))
  BY <1>2, <1>3, PushEmpty
<1>5. QED
  BY <1>1, <1>2, <1>4 DEF SpillInv

LEMMA CloseScopeKeeps == ASSUME SpillInv, Spill!CloseScope PROVE SpillInv'
<1> DEFINE bs == Spill!Front(nest)
           n == Len(nest) - 1
<1>1. /\ nest # <<>> /\ Spill!top.kind = "scope" /\ spills' = spills /\ hit' = hit
      /\ nest' = IF Len(nest) > 1 /\ nest[n].kind = "when"
                 THEN [bs EXCEPT ![n].at = "conds"] ELSE bs
  BY DEF Spill!CloseScope, Spill!Same, Spill!Below
<1>2. /\ Kept(spills, nest) /\ hit = FALSE /\ nest \in Seq(Construct) /\ Len(nest) # 0
      /\ Spill!top = nest[Len(nest)] /\ Len(nest) \in Nat
  BY <1>1, StateIs
<1>3. ~IsLoop(nest[Len(nest)])
  BY <1>1, <1>2 DEF IsLoop
<1>4. Kept(spills, bs)
  BY <1>2, <1>3, KeptPop
<1>5. bs \in Seq(Construct) /\ Len(bs) = n /\ \A i \in 1 .. n : bs[i] = nest[i]
  BY <1>2, FrontIs
<1> HIDE DEF bs
<1>6. CASE Len(nest) > 1 /\ nest[n].kind = "when"
  <2> DEFINE c == [bs[n] EXCEPT !.at = "conds"]
  <2>1. n \in 1 .. Len(bs)
    BY <1>2, <1>5, <1>6
  <2>2. bs[n] \in Construct /\ bs[n].kind = "when"
    BY <1>5, <1>6, <2>1, ConstructIs
  <2>3. "conds" \in Places
    BY DEF Places
  <2>4. c \in Construct /\ c.kind = bs[n].kind /\ c.slots = bs[n].slots
    BY <2>2, <2>3 DEF Construct
  <2>5. ~IsLoop(bs[n])
    BY <2>2 DEF IsLoop
  <2>6. nest' = [bs EXCEPT ![n] = c]
    BY <1>1, <1>6
  <2> HIDE DEF c, n
  <2>7. Kept(spills, [bs EXCEPT ![n] = c])
    BY <1>4, <2>1, <2>4, <2>5, KeptExcept
  <2>8. QED
    BY <1>1, <1>2, <2>6, <2>7 DEF SpillInv
<1>7. CASE ~(Len(nest) > 1 /\ nest[n].kind = "when")
  BY <1>1, <1>2, <1>4, <1>7 DEF SpillInv
<1>8. QED
  BY <1>6, <1>7

LEMMA OpenWhenKeeps == ASSUME SpillInv, Spill!OpenWhen PROVE SpillInv'
<1>1. /\ Spill!InLoop /\ spills' = Spill!Acquired(spills) /\ hit' = hit
      /\ nest' = Append(nest, Spill!Con("when", "conds", <<spills.next>>))
  BY DEF Spill!OpenWhen, Spill!Same
<1>2. Kept(spills, nest) /\ hit = FALSE /\ Len(nest) # 0
  BY <1>1, StateIs, OpenInLoop
<1>3. "conds" \in Places
  BY DEF Places
<1>4. Kept(Spill!Acquired(spills), Append(nest, Spill!Con("when", "conds", <<spills.next>>)))
  BY <1>2, <1>3, PushHolding
<1>5. QED
  BY <1>1, <1>2, <1>4 DEF SpillInv

LEMMA WhenCondKeeps == ASSUME SpillInv, Spill!WhenCond PROVE SpillInv'
<1>1. nest # <<>> /\ spills' = spills /\ nest' = Append(nest, Spill!Con("scope", "body", <<>>)) /\ hit' = hit
  BY DEF Spill!WhenCond, Spill!Same
<1>2. Kept(spills, nest) /\ hit = FALSE /\ Len(nest) # 0
  BY <1>1, StateIs
<1>3. "body" \in Places
  BY DEF Places
<1>4. Kept(spills, Append(nest, Spill!Con("scope", "body", <<>>)))
  BY <1>2, <1>3, PushEmpty
<1>5. QED
  BY <1>1, <1>2, <1>4 DEF SpillInv

(* The construct on top, not a loop, stands at a.                          *)
LEMMA StandIs ==
  ASSUME SpillInv, nest # <<>>, ~IsLoop(Spill!top), NEW a \in Places
  PROVE  Kept(spills, Spill!Set([Spill!top EXCEPT !.at = a])) /\ Len(Spill!Set([Spill!top EXCEPT !.at = a])) # 0
<1> DEFINE c == [Spill!top EXCEPT !.at = a]
<1>1. Kept(spills, nest) /\ Len(nest) # 0 /\ Spill!top = nest[Len(nest)] /\ Spill!top \in Construct
  BY StateIs
<1>2. c \in Construct /\ c.kind = Spill!top.kind /\ c.slots = Spill!top.slots
  BY <1>1 DEF Construct
<1> HIDE DEF c
<1>3. ~IsLoop(nest[Len(nest)])
  BY <1>1
<1>4. Kept(spills, Append(Spill!Front(nest), c)) /\ Len(Append(Spill!Front(nest), c)) # 0
  BY <1>1, <1>2, <1>3, KeptStand
<1>5. QED
  BY <1>4 DEF Spill!Set, c

LEMMA WhenBranchKeeps == ASSUME SpillInv, Spill!WhenBranch PROVE SpillInv'
<1> DEFINE ds == Spill!Set([Spill!top EXCEPT !.at = "branch"])
<1>1. /\ nest # <<>> /\ Spill!top.kind = "when" /\ spills' = spills /\ hit' = hit
      /\ nest' = Append(ds, Spill!Con("scope", "body", <<>>))
  BY DEF Spill!WhenBranch, Spill!Same
<1>2. "branch" \in Places /\ "body" \in Places /\ hit = FALSE
  BY StateIs DEF Places
<1>3. ~IsLoop(Spill!top)
  BY <1>1 DEF IsLoop
<1>4. Kept(spills, ds) /\ Len(ds) # 0
  BY <1>1, <1>2, <1>3, StandIs
<1> HIDE DEF ds
<1>5. Kept(spills, Append(ds, Spill!Con("scope", "body", <<>>)))
  BY <1>2, <1>4, PushEmpty
<1>6. QED
  BY <1>1, <1>2, <1>5 DEF SpillInv

LEMMA OpenTryKeeps == ASSUME SpillInv, Spill!OpenTry PROVE SpillInv'
<1>1. /\ Spill!InLoop /\ spills' = Spill!Acquired(spills)
      /\ hit' = (hit \/ {spills.next} \cap Spill!Range(Spill!Live(nest)) # {})
      /\ nest' = Append(nest, Spill!Con("try", "body", <<spills.next>>))
  BY DEF Spill!OpenTry, Spill!Emit, Spill!Op
<1>2. /\ Kept(spills, nest) /\ hit = FALSE /\ Len(nest) # 0 /\ nest \in Seq(Construct)
      /\ spills.next \in Nat /\ Ascend(nest, spills.next)
  BY <1>1, StateIs, OpenInLoop
<1>3. "body" \in Places
  BY DEF Places
<1>4. Kept(Spill!Acquired(spills), Append(nest, Spill!Con("try", "body", <<spills.next>>)))
  BY <1>2, <1>3, PushHolding
<1>5. AtLeast(spills.next, {spills.next})
  BY <1>2 DEF AtLeast
<1>6. \A i \in 1 .. Len(nest) : \A k \in 1 .. Len(nest[i].slots) : nest[i].slots[k] < spills.next
  BY <1>2 DEF Ascend
<1>7. {spills.next} \cap Spill!Range(Spill!Live(nest)) = {}
  BY <1>2, <1>5, <1>6, Missed
<1>8. QED
  BY <1>1, <1>2, <1>4, <1>7 DEF SpillInv

LEMMA TryNextKeeps == ASSUME SpillInv, Spill!TryNext PROVE SpillInv'
<1> DEFINE a == IF Spill!top.at = "body" THEN "catch" ELSE "fin"
<1>1. nest # <<>> /\ Spill!top.kind = "try" /\ spills' = spills /\ hit' = hit /\ nest' = Spill!Set([Spill!top EXCEPT !.at = a])
  BY DEF Spill!TryNext, Spill!Same
<1>2. a \in Places /\ hit = FALSE
  BY StateIs DEF Places
<1> HIDE DEF a
<1>3. ~IsLoop(Spill!top)
  BY <1>1 DEF IsLoop
<1>4. Kept(spills, Spill!Set([Spill!top EXCEPT !.at = a]))
  BY <1>1, <1>2, <1>3, StandIs
<1>5. QED
  BY <1>1, <1>2, <1>4 DEF SpillInv

LEMMA OpenSelectKeeps == ASSUME SpillInv, Spill!OpenSelect PROVE SpillInv'
<1>1. Spill!InLoop /\ spills' = spills /\ nest' = Append(nest, Spill!Con("select", "ops", <<>>)) /\ hit' = hit
  BY DEF Spill!OpenSelect, Spill!Same
<1>2. Kept(spills, nest) /\ hit = FALSE /\ Len(nest) # 0
  BY <1>1, StateIs, OpenInLoop
<1>3. "ops" \in Places
  BY DEF Places
<1>4. Kept(spills, Append(nest, Spill!Con("select", "ops", <<>>)))
  BY <1>2, <1>3, PushEmpty
<1>5. QED
  BY <1>1, <1>2, <1>4 DEF SpillInv

LEMMA CasesKeeps == ASSUME SpillInv, Spill!Cases PROVE SpillInv'
<1>1. /\ nest # <<>> /\ Spill!top.kind = "select" /\ spills' = spills /\ hit' = hit
      /\ nest' = Spill!Set([Spill!top EXCEPT !.at = "cases"])
  BY DEF Spill!Cases, Spill!Same
<1>2. "cases" \in Places /\ hit = FALSE
  BY StateIs DEF Places
<1>3. ~IsLoop(Spill!top)
  BY <1>1 DEF IsLoop
<1>4. Kept(spills, Spill!Set([Spill!top EXCEPT !.at = "cases"]))
  BY <1>1, <1>2, <1>3, StandIs
<1>5. QED
  BY <1>1, <1>2, <1>4 DEF SpillInv

LEMMA CloseKeeps == ASSUME SpillInv, Spill!Close PROVE SpillInv'
<1>1. /\ nest # <<>> /\ Spill!top.kind \in {"when", "try", "select"} /\ spills' = spills /\ nest' = Spill!Front(nest)
      /\ hit' = (hit \/ Spill!Range(Spill!top.slots) \cap Spill!Range(Spill!Live(Spill!Front(nest))) # {})
  BY DEF Spill!Close, Spill!Emit, Spill!Op, Spill!Below
<1>2. /\ Kept(spills, nest) /\ hit = FALSE /\ Len(nest) # 0 /\ nest \in Seq(Construct)
      /\ Ascend(nest, spills.next) /\ Spill!top = nest[Len(nest)]
  BY <1>1, StateIs
<1>3. ~IsLoop(nest[Len(nest)])
  BY <1>1, <1>2 DEF IsLoop
<1>4. Kept(spills, Spill!Front(nest))
  BY <1>2, <1>3, KeptPop
<1>5. Spill!Range(Spill!top.slots) \cap Spill!Range(Spill!Live(Spill!Front(nest))) = {}
  BY <1>2, OwnApart
<1>6. QED
  BY <1>1, <1>2, <1>4, <1>5 DEF SpillInv

(* What the innermost of the open loops is: without what is open in it the *)
(* pool is kept as well.                                                   *)
LEMMA Innermost ==
  ASSUME NEW p, NEW cs, Kept(p, cs), Len(cs) # 0
  PROVE  \E i \in 1 .. Len(cs) : /\ IsLoop(cs[i]) /\ Kept(p, SubSeq(cs, 1, i))
                                 /\ \A j \in 1 .. Len(cs) : IsLoop(cs[j]) => j <= i
<1>1. PICK f \in Seq(Nat) : Numbered(cs, f) /\ Stacked(p, Len(f)) /\ PoolFits(p, cs, f)
  BY DEF Kept
<1>2. /\ p \in Pool /\ cs \in Seq(Construct) /\ Ascend(cs, p.next) /\ Len(cs) \in Nat /\ Len(f) \in Nat
      /\ \A j \in 1 .. Len(f) : f[j] \in Nat
  BY DEF Kept
<1>3. Len(f) # 0
  <2>1. 1 \in 1 .. Len(cs) /\ IsLoop(cs[1])
    BY <1>1, <1>2 DEF Numbered
  <2>2. QED
    BY <1>1, <2>1 DEF Numbered
<1> DEFINE i == f[Len(f)]
           ds == SubSeq(cs, 1, i)
<1>4. Len(f) \in 1 .. Len(f) /\ \A j \in 1 .. Len(f) : j = Len(f) \/ j < Len(f)
  BY <1>2, <1>3
<1>5. i \in 1 .. Len(cs) /\ i \in Nat /\ IsLoop(cs[i])
  BY <1>1, <1>2, <1>4 DEF Numbered
<1>6. \A j \in 1 .. Len(f) : f[j] <= i
  <2>1. \A j \in 1 .. Len(f) : j < Len(f) => f[j] < f[Len(f)]
    BY <1>1, <1>4 DEF Numbered
  <2>2. QED
    BY <1>2, <1>4, <1>5, <2>1
<1>7. \A j \in 1 .. Len(cs) : IsLoop(cs[j]) => j <= i
  BY <1>1, <1>6 DEF Numbered
<1>8. ds \in Seq(Construct) /\ Len(ds) = i /\ \A j \in 1 .. i : ds[j] = cs[j]
  <2>1. i \in 0 .. Len(cs)
    BY <1>2, <1>5
  <2>2. QED
    BY <1>2, <2>1, PrefixIs
<1> HIDE DEF ds
<1>9. \A j \in 1 .. Len(ds) : j \in 1 .. Len(cs) /\ ds[j] = cs[j]
  BY <1>2, <1>5, <1>8
<1>10. \A j \in 1 .. Len(f) : f[j] \in 1 .. Len(ds) /\ ds[f[j]] = cs[f[j]]
  <2>1. \A j \in 1 .. Len(f) : f[j] \in 1 .. Len(cs)
    BY <1>1 DEF Numbered
  <2>2. \A j \in 1 .. Len(f) : f[j] \in 1 .. i
    BY <1>2, <1>5, <1>6, <2>1
  <2>3. QED
    BY <1>8, <2>2
<1> HIDE DEF i
<1>11. Ascend(ds, p.next)
  BY <1>2, <1>9 DEF Ascend
<1>12. Numbered(ds, f)
  <2>1. \A j \in 1 .. Len(f) : f[j] \in 1 .. Len(ds) /\ IsLoop(ds[f[j]])
    BY <1>1, <1>10 DEF Numbered
  <2>2. \A j, k \in 1 .. Len(f) : j < k => f[j] < f[k]
    BY <1>1 DEF Numbered
  <2>3. \A j \in 1 .. Len(ds) : IsLoop(ds[j]) => \E k \in 1 .. Len(f) : f[k] = j
    BY <1>1, <1>9 DEF Numbered
  <2>4. IsLoop(ds[1])
    <3>1. 1 \in 1 .. Len(ds) /\ Len(cs) > 0
      BY <1>2, <1>5, <1>8
    <3>2. QED
      BY <1>1, <1>9, <3>1 DEF Numbered
  <2>5. \A j \in 1 .. Len(ds) : ds[j].kind = "while" /\ ds[j].at = "body" => Len(ds[j].slots) = 0
    BY <1>1, <1>9 DEF Numbered
  <2>6. \A j \in 1 .. Len(ds) : ds[j].kind = "for" => ds[j].at = "body" /\ Len(ds[j].slots) \in {1, 2}
    BY <1>1, <1>9 DEF Numbered
  <2>7. QED
    BY <2>1, <2>2, <2>3, <2>4, <2>5, <2>6 DEF Numbered
<1>13. PoolFits(p, ds, f)
  <2>1. \A j \in 1 .. Len(f) : \A m \in 1 .. Len(ds) : m < f[j] =>
          \A k \in 1 .. Len(ds[m].slots) : ds[m].slots[k] < p.scope[j]
    BY <1>1, <1>9 DEF PoolFits
  <2>2. \A j \in 1 .. Len(f) :
          p.enter[j] + Pins(ds[f[j]]) = IF j = Len(f) THEN Len(p.sticky) ELSE p.enter[j + 1]
    BY <1>1, <1>10 DEF PoolFits
  <2>3. \A j \in 1 .. Len(f) : ds[f[j]].kind = "for" =>
          \A k \in 1 .. Len(ds[f[j]].slots) : ds[f[j]].slots[k] < p.sticky[p.enter[j] + k]
    BY <1>1, <1>10 DEF PoolFits
  <2>4. QED
    BY <2>1, <2>2, <2>3 DEF PoolFits
<1>14. Kept(p, ds)
  BY <1>1, <1>2, <1>8, <1>11, <1>12, <1>13 DEF Kept
<1>15. QED
  BY <1>5, <1>7, <1>14 DEF ds

(* A loop jumped to is one of those open, in its body.                     *)
LEMMA LoopIs ==
  ASSUME SpillInv, Spill!loop > 0
  PROVE  /\ Spill!loop \in 1 .. Len(nest) /\ IsLoop(nest[Spill!loop]) /\ nest[Spill!loop].at = "body"
         /\ nest[Spill!loop] \in Construct /\ Len(nest) # 0
<1> DEFINE S == {i \in DOMAIN nest : nest[i].kind \in {"while", "for"} /\ nest[i].at = "body"}
           m == Spill!Max({0} \cup S)
<1>1. nest \in Seq(Construct) /\ Len(nest) \in Nat /\ DOMAIN nest = 1 .. Len(nest)
  BY StateIs
<1>2. \A i \in S : i \in 1 .. Len(nest) /\ IsLoop(nest[i]) /\ nest[i].at = "body"
  BY <1>1 DEF IsLoop
<1>3. S \subseteq 1 .. Len(nest)
  BY <1>2
<1>4. Spill!loop = m
  BY DEF Spill!loop
<1> HIDE DEF S
<1>5. m \in {0} \cup S
  BY <1>1, <1>3, HighestOf
<1> HIDE DEF m
<1>6. m \in S
  BY <1>4, <1>5
<1>7. Spill!loop \in 1 .. Len(nest) /\ IsLoop(nest[Spill!loop]) /\ nest[Spill!loop].at = "body"
  BY <1>2, <1>4, <1>6
<1>8. QED
  BY <1>1, <1>7

(* What a jump leaves to null is noted at its loop.                        *)
LEMMA OwesKept ==
  ASSUME SpillInv, Spill!loop > 0, NEW n \in Nat
  PROVE  Kept(spills, Spill!Owes(n))
<1> DEFINE c == [nest[Spill!loop] EXCEPT !.owe = Spill!Max({nest[Spill!loop].owe, n})]
<1>1. Spill!loop \in 1 .. Len(nest) /\ nest[Spill!loop] \in Construct /\ Kept(spills, nest)
  BY LoopIs, StateIs
<1>2. Spill!Max({nest[Spill!loop].owe, n}) \in Nat
  <2>1. nest[Spill!loop].owe \in Nat
    BY <1>1 DEF Construct
  <2>2. QED
    BY <2>1, MaxOfTwo
<1>3. c \in Construct /\ c.kind = nest[Spill!loop].kind /\ c.slots = nest[Spill!loop].slots /\ c.at = nest[Spill!loop].at
  BY <1>1, <1>2 DEF Construct
<1>4. Spill!Owes(n) = [nest EXCEPT ![Spill!loop] = c]
  BY DEF Spill!Owes
<1> HIDE DEF c
<1>5. Kept(spills, [nest EXCEPT ![Spill!loop] = c])
  <2> DEFINE l == Spill!loop
  <2>1. l \in 1 .. Len(nest) /\ c \in Construct /\ Kept(spills, nest)
    BY <1>1, <1>3
  <2>2. c.kind = nest[l].kind /\ c.slots = nest[l].slots /\ c.at = nest[l].at
    BY <1>3
  <2> HIDE DEF l
  <2>3. Kept(spills, [nest EXCEPT ![l] = c])
    BY <2>1, <2>2, KeptExcept
  <2>4. QED
    BY <2>3 DEF l
<1>6. QED
  BY <1>4, <1>5

LEMMA BreakKeeps == ASSUME SpillInv, Spill!Break PROVE SpillInv'
<1>1. Spill!loop > 0 /\ nest' = Spill!Owes(spills.next) /\ spills' = spills /\ hit' = hit
  BY DEF Spill!Break, Spill!Same
<1>2. spills.next \in Nat /\ hit = FALSE
  BY StateIs
<1>3. Kept(spills, Spill!Owes(spills.next))
  BY <1>1, <1>2, OwesKept
<1>4. QED
  BY <1>1, <1>2, <1>3 DEF SpillInv

LEMMA TriedContinueKeeps == ASSUME SpillInv, Spill!TriedContinue PROVE SpillInv'
<1>1. Spill!loop > 0 /\ nest' \in {Spill!Owes(spills.next), nest} /\ spills' = spills /\ hit' = hit
  BY DEF Spill!TriedContinue, Spill!Same
<1>2. spills.next \in Nat /\ hit = FALSE /\ Kept(spills, nest)
  BY StateIs
<1>3. Kept(spills, Spill!Owes(spills.next))
  BY <1>1, <1>2, OwesKept
<1>4. QED
  BY <1>1, <1>2, <1>3 DEF SpillInv

(* The cursor a continue outside every try goes back to is above           *)
(* everything held, as what is open in the loop holds nothing.             *)
LEMMA BackTo ==
  ASSUME NEW p, NEW cs, Kept(p, cs), NEW l \in 1 .. Len(cs), IsLoop(cs[l]), cs[l].at = "body",
         \A i \in l + 1 .. Len(cs) : cs[i].slots = <<>>
  PROVE  /\ Len(p.scope) # 0 /\ p.scope[Len(p.scope)] \in Nat
         /\ cs[l].kind = "while" =>
              \A t \in Nat : p.scope[Len(p.scope)] <= t =>
                \A i \in 1 .. Len(cs) : \A k \in 1 .. Len(cs[i].slots) : cs[i].slots[k] < t
         /\ cs[l].kind = "for" =>
              /\ Len(p.sticky) # 0 /\ p.scope[Len(p.scope)] <= p.sticky[Len(p.sticky)]
              /\ \A i \in 1 .. Len(cs) : \A k \in 1 .. Len(cs[i].slots) :
                   cs[i].slots[k] < p.sticky[Len(p.sticky)]
<1>1. /\ p \in Pool /\ cs \in Seq(Construct) /\ Len(cs) \in Nat /\ Len(cs) # 0
      /\ \A i \in 1 .. Len(cs) : \A k \in 1 .. Len(cs[i].slots) : cs[i].slots[k] \in Nat
  BY ConstructIs DEF Kept
<1>2. PICK g \in 1 .. Len(cs) : /\ IsLoop(cs[g]) /\ Kept(p, SubSeq(cs, 1, g))
                                /\ \A j \in 1 .. Len(cs) : IsLoop(cs[j]) => j <= g
  BY <1>1, Innermost
<1>3. g \in Nat \ {0} /\ l <= g /\ l \in Nat
  BY <1>1, <1>2
<1> DEFINE ds == SubSeq(cs, 1, g)
<1>4. ds \in Seq(Construct) /\ Len(ds) = g /\ \A j \in 1 .. g : ds[j] = cs[j]
  <2>1. g \in 0 .. Len(cs)
    BY <1>1, <1>2
  <2>2. QED
    BY <1>1, <2>1, PrefixIs
<1>5. Kept(p, ds)
  BY <1>2
<1> HIDE DEF ds
<1>6. Len(ds) # 0 /\ ds[Len(ds)] = cs[g] /\ IsLoop(ds[Len(ds)])
  BY <1>2, <1>3, <1>4
<1>7. /\ Len(p.scope) \in Nat \ {0} /\ p.scope[Len(p.scope)] \in Nat /\ p.enter[Len(p.enter)] \in Nat
      /\ p.enter[Len(p.enter)] + Pins(ds[Len(ds)]) = Len(p.sticky) /\ Pins(ds[Len(ds)]) \in {1, 2}
  BY <1>5, <1>6, LoopOnTop
<1>8. \A m \in 1 .. Len(p.sticky) : m > p.enter[Len(p.enter)] => p.scope[Len(p.scope)] <= p.sticky[m]
  BY <1>5, <1>6, LoopOnTop
<1>9. \A i \in 1 .. Len(ds) - 1 : \A k \in 1 .. Len(ds[i].slots) : ds[i].slots[k] < p.scope[Len(p.scope)]
  BY <1>5, <1>6, LoopOnTop
<1>10. Len(p.sticky) # 0 /\ p.sticky[Len(p.sticky)] \in Nat /\ p.scope[Len(p.scope)] <= p.sticky[Len(p.sticky)]
  <2>1. \A a \in Nat, b \in {1, 2} : a + b # 0 /\ a + b \in 1 .. a + b /\ a + b > a
    OBVIOUS
  <2>2. /\ Len(p.sticky) # 0 /\ Len(p.sticky) \in 1 .. Len(p.sticky)
        /\ Len(p.sticky) > p.enter[Len(p.enter)]
    BY <1>7, <2>1
  <2>3. \A m \in 1 .. Len(p.sticky) : p.sticky[m] \in Nat
    BY <1>1, PoolIs
  <2>4. QED
    BY <1>8, <2>2, <2>3
<1>11. ASSUME NEW i \in 1 .. Len(cs), i < g, NEW k \in 1 .. Len(cs[i].slots)
       PROVE  cs[i].slots[k] < p.scope[Len(p.scope)]
  <2>1. i \in 1 .. Len(ds) - 1 /\ ds[i] = cs[i]
    BY <1>3, <1>4, <1>11
  <2>2. QED
    BY <1>9, <2>1
<1>12. \A i \in 1 .. Len(cs) : i > l => Len(cs[i].slots) = 0
  <2>1. \A i \in 1 .. Len(cs) : i > l => i \in l + 1 .. Len(cs)
    BY <1>1, <1>3
  <2>2. Len(<<>>) = 0
    OBVIOUS
  <2>3. QED
    BY <2>1, <2>2
<1>13. /\ cs[l].kind = "while" => Len(cs[l].slots) = 0
       /\ \A i \in 1 .. Len(cs) : cs[i].kind = "for" => Len(cs[i].slots) \in {1, 2}
  <2>1. PICK f \in Seq(Nat) : Numbered(cs, f)
    BY DEF Kept
  <2>2. QED
    BY <2>1 DEF Numbered
<1>0. \A x, y, z \in Nat : x < y /\ y <= z => x < z
  OBVIOUS
<1>14. ASSUME cs[l].kind = "while", NEW t \in Nat, p.scope[Len(p.scope)] <= t,
              NEW i \in 1 .. Len(cs), NEW k \in 1 .. Len(cs[i].slots)
       PROVE  cs[i].slots[k] < t
  <2>1. Len(cs[i].slots) # 0
    BY <1>1, ConstructIs
  <2>2. i < g
    <3>1. i # l /\ ~(i > l)
      BY <1>12, <1>13, <1>14, <2>1
    <3>2. i \in Nat
      OBVIOUS
    <3>3. QED
      BY <1>3, <3>1, <3>2
  <2>3. cs[i].slots[k] < p.scope[Len(p.scope)] /\ cs[i].slots[k] \in Nat
    BY <1>1, <1>11, <2>2
  <2>4. QED
    BY <1>0, <1>7, <1>14, <2>3, Zenon
<1>15. ASSUME cs[l].kind = "for", NEW i \in 1 .. Len(cs), NEW k \in 1 .. Len(cs[i].slots)
       PROVE  cs[i].slots[k] < p.sticky[Len(p.sticky)]
  <2>1. CASE i < g
    <3>1. cs[i].slots[k] < p.scope[Len(p.scope)] /\ cs[i].slots[k] \in Nat
      BY <1>1, <1>11, <2>1
    <3>2. QED
      BY <1>0, <1>7, <1>10, <3>1, Zenon
  <2>2. CASE ~(i < g)
    <3>1. Len(cs[i].slots) # 0 /\ i \in Nat
      BY <1>1, ConstructIs
    <3>2. ~(i > l)
      BY <1>12, <3>1
    <3>3. i = g /\ i = l
      BY <1>3, <2>2, <3>1, <3>2
    <3>4. ds[Len(ds)].kind = "for"
      BY <1>6, <1>15, <3>3
    <3>5. \A j \in 1 .. Len(ds) : \A m \in 1 .. Len(ds[j].slots) :
            ds[j].slots[m] < p.sticky[Len(p.sticky)]
      BY <1>5, <1>6, <3>4, ForBelowPin
    <3>6. i \in 1 .. Len(ds) /\ ds[i] = cs[i]
      BY <1>3, <1>4, <3>3
    <3>7. QED
      BY <3>5, <3>6
  <2>3. QED
    BY <2>1, <2>2
<1>16. QED
  BY <1>7, <1>10, <1>14, <1>15

LEMMA ContinueKeeps == ASSUME Planned, SpillInv, Spill!Continue PROVE SpillInv'
<1> DEFINE r == IF nest[Spill!loop].kind = "while" THEN Spill!Clear(spills) ELSE Spill!Recycle(spills)
           ds == SubSeq(nest, 1, Spill!loop)
<1>1. /\ Spill!loop > 0 /\ spills' = r.pool /\ nest' = nest
      /\ \A i \in Spill!loop + 1 .. Len(nest) : nest[i].slots = <<>>
      /\ hit' = (hit \/ r.nulled \cap Spill!Range(Spill!Live(ds)) # {})
  BY DEF Spill!Continue, Spill!Emit, Planned
<1>2. /\ Spill!loop \in 1 .. Len(nest) /\ IsLoop(nest[Spill!loop]) /\ nest[Spill!loop].at = "body"
      /\ Kept(spills, nest) /\ spills \in Pool /\ nest \in Seq(Construct) /\ Len(nest) \in Nat
      /\ Ascend(nest, spills.next) /\ hit = FALSE
  BY <1>1, LoopIs, StateIs
<1>3. PICK l : l = Spill!loop
  OBVIOUS
<1>4. /\ l \in 1 .. Len(nest) /\ IsLoop(nest[l]) /\ nest[l].at = "body"
      /\ \A i \in l + 1 .. Len(nest) : nest[i].slots = <<>>
  BY <1>1, <1>2, <1>3
<1>5. /\ Len(spills.scope) # 0 /\ spills.scope[Len(spills.scope)] \in Nat
      /\ nest[l].kind = "while" =>
           \A t \in Nat : spills.scope[Len(spills.scope)] <= t =>
             \A i \in 1 .. Len(nest) : \A k \in 1 .. Len(nest[i].slots) : nest[i].slots[k] < t
      /\ nest[l].kind = "for" =>
           /\ Len(spills.sticky) # 0 /\ spills.scope[Len(spills.scope)] <= spills.sticky[Len(spills.sticky)]
           /\ \A i \in 1 .. Len(nest) : \A k \in 1 .. Len(nest[i].slots) :
                nest[i].slots[k] < spills.sticky[Len(spills.sticky)]
  BY <1>2, <1>4, BackTo
<1>6. r = IF nest[l].kind = "while" THEN Spill!Clear(spills) ELSE Spill!Recycle(spills)
  BY <1>3
<1>7. ds \in Seq(Construct) /\ Len(ds) = l /\ \A i \in 1 .. l : ds[i] = nest[i]
  <2>1. l \in 0 .. Len(nest) /\ ds = SubSeq(nest, 1, l)
    BY <1>2, <1>3, <1>4
  <2>2. QED
    BY <1>2, <2>1, PrefixIs
<1> HIDE DEF r, ds
<1>8. \E t \in Nat : /\ Moved(spills, r.pool, t) /\ AtLeast(t, r.nulled) /\ spills.scope[Len(spills.scope)] <= t
                     /\ \A i \in 1 .. Len(nest) : \A k \in 1 .. Len(nest[i].slots) : nest[i].slots[k] < t
  <2>1. CASE nest[l].kind = "while"
    <3>1. PICK t : ClearsTo(spills, t) /\ Moved(spills, Spill!Clear(spills).pool, t) /\ AtLeast(t, Spill!Clear(spills).nulled)
      BY <1>2, ClearIs
    <3>2. t \in Nat /\ spills.scope[Len(spills.scope)] <= t
      BY <1>5, <3>1 DEF ClearsTo
    <3>3. QED
      BY <1>5, <1>6, <2>1, <3>1, <3>2
  <2>2. CASE nest[l].kind # "while"
    <3> DEFINE t == spills.sticky[Len(spills.sticky)]
    <3>1. nest[l].kind = "for"
      BY <1>4, <2>2 DEF IsLoop
    <3>2. t \in Nat /\ Moved(spills, Spill!Recycle(spills).pool, t) /\ AtLeast(t, Spill!Recycle(spills).nulled)
      BY <1>2, <1>5, <3>1, RecycleIs
    <3>3. QED
      BY <1>5, <1>6, <2>2, <3>1, <3>2
  <2>3. QED
    BY <2>1, <2>2
<1>9. PICK t \in Nat : /\ Moved(spills, r.pool, t) /\ AtLeast(t, r.nulled) /\ spills.scope[Len(spills.scope)] <= t
                       /\ \A i \in 1 .. Len(nest) : \A k \in 1 .. Len(nest[i].slots) : nest[i].slots[k] < t
  BY <1>8
<1>10. Kept(r.pool, nest)
  BY <1>2, <1>9, KeptMove
<1>11. \A i \in 1 .. Len(ds) : i \in 1 .. Len(nest) /\ ds[i] = nest[i]
  BY <1>2, <1>4, <1>7
<1>12. Ascend(ds, spills.next)
  BY <1>2, <1>11 DEF Ascend
<1>13. \A i \in 1 .. Len(ds) : \A k \in 1 .. Len(ds[i].slots) : ds[i].slots[k] < t
  BY <1>9, <1>11
<1>14. r.nulled \cap Spill!Range(Spill!Live(ds)) = {}
  BY <1>7, <1>9, <1>12, <1>13, Missed
<1>15. QED
  BY <1>1, <1>2, <1>10, <1>14 DEF SpillInv

LEMMA SpillStart == ASSUME Spill!Init PROVE SpillInv
<1>1. <<>> \in Seq(Nat) /\ <<>> \in Seq(Construct) /\ 0 \in Nat
  OBVIOUS
<1>2. Spill!NoPool \in Pool /\ Spill!NoPool.scope = <<>> /\ Spill!NoPool.enter = <<>>
  BY <1>1 DEF Spill!NoPool, Pool
<1>3. spills = Spill!NoPool /\ nest = <<>> /\ hit = FALSE
  BY DEF Spill!Init
<1>4. /\ spills \in Pool /\ nest \in Seq(Construct)
      /\ Len(nest) = 0 /\ Len(spills.scope) = 0 /\ Len(spills.enter) = 0
  BY <1>1, <1>2, <1>3
<1>5. Kept(spills, nest)
  BY <1>4, EmptyKept
<1>6. QED
  BY <1>3, <1>5 DEF SpillInv

LEMMA SpillKeeps == ASSUME Planned, SpillInv, [Spill!Next]_(Spill!vars) PROVE SpillInv'
<1>1. CASE Spill!EnterWhile
  BY <1>1, EnterWhileKeeps
<1>2. CASE Spill!WhileBody
  BY <1>2, WhileBodyKeeps
<1>3. CASE Spill!EndWhile
  BY <1>3, EndWhileKeeps
<1>4. CASE \E ref \in BOOLEAN : Spill!EnterFor(ref)
  BY <1>4, EnterForKeeps
<1>5. CASE Spill!EndFor
  BY <1>5, EndForKeeps
<1>6. CASE Spill!Acquire
  BY <1>6, AcquireKeeps
<1>7. CASE Spill!OpenScope
  BY <1>7, OpenScopeKeeps
<1>8. CASE Spill!CloseScope
  BY <1>8, CloseScopeKeeps
<1>9. CASE Spill!OpenWhen
  BY <1>9, OpenWhenKeeps
<1>10. CASE Spill!WhenCond
  BY <1>10, WhenCondKeeps
<1>11. CASE Spill!WhenBranch
  BY <1>11, WhenBranchKeeps
<1>12. CASE Spill!OpenTry
  BY <1>12, OpenTryKeeps
<1>13. CASE Spill!TryNext
  BY <1>13, TryNextKeeps
<1>14. CASE Spill!OpenSelect
  BY <1>14, OpenSelectKeeps
<1>15. CASE Spill!Cases
  BY <1>15, CasesKeeps
<1>16. CASE Spill!Close
  BY <1>16, CloseKeeps
<1>17. CASE Spill!Break
  BY <1>17, BreakKeeps
<1>18. CASE Spill!TriedContinue
  BY <1>18, TriedContinueKeeps
<1>19. CASE Spill!Continue
  BY <1>19, ContinueKeeps
<1>20. CASE UNCHANGED Spill!vars
  BY <1>20 DEF Spill!vars, SpillInv
<1>21. QED
  BY <1>1, <1>2, <1>3, <1>4, <1>5, <1>6, <1>7, <1>8, <1>9, <1>10, <1>11, <1>12, <1>13, <1>14,
     <1>15, <1>16, <1>17, <1>18, <1>19, <1>20 DEF Spill!Next

(* However loops nest, what the code holds at one time is in slots of its  *)
(* own and no null store meets it (rootGcOperand, clearLoopSpillSlots,     *)
(* recycleLoopSpillSlots, leaveLoopSpillScope), if no continue outside a   *)
(* try leaves a body that holds something.                                 *)
THEOREM OperandsAreKept == ASSUME Planned PROVE Spill!Spec => []Spill!OperandsKept
<1>1. Spill!Init => SpillInv
  BY SpillStart
<1>2. SpillInv /\ [Spill!Next]_(Spill!vars) => SpillInv'
  BY SpillKeeps
<1>3. SpillInv => Spill!OperandsKept
  <2>1. SUFFICES ASSUME SpillInv PROVE Spill!OperandsKept
    OBVIOUS
  <2>2. nest \in Seq(Construct) /\ Ascend(nest, spills.next) /\ hit = FALSE
    BY <2>1, StateIs
  <2>3. Spill!IsInjective(Spill!Live(nest))
    BY <2>2, LiveIs
  <2>4. QED
    BY <2>2, <2>3 DEF Spill!OperandsKept, Spill!NoSharedSlot, Spill!NoLiveNulled
<1>4. QED
  BY <1>1, <1>2, <1>3, PTL DEF Spill!Spec

=============================================================================

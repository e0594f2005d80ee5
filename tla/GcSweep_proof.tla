--------------------------- MODULE GcSweep_proof ---------------------------
(***************************************************************************)
(* Proofs about GcSweep, for any number of blocks and threads.             *)
(***************************************************************************)
EXTENDS GcSweep, SequenceTheorems, TLAPS

-----------------------------------------------------------------------------
(* The list of blocks.                                                     *)

\* A block linked at the head.
LEMMA Prepended ==
  ASSUME NEW S, NEW s \in Seq(S), IsInjective(s), NEW x \in S, x \notin ToSet(s), NEW r, r = <<x>> \o s
  PROVE  /\ r \in Seq(S) /\ IsInjective(r) /\ Len(r) = Len(s) + 1 /\ Len(s) \in Nat
         /\ DOMAIN s = 1 .. Len(s) /\ DOMAIN r = 1 .. Len(s) + 1
         /\ r[1] = x /\ \A i \in 1 .. Len(s) : r[i + 1] = s[i]
<1>1. /\ r \in Seq(S) /\ Len(r) = Len(s) + 1 /\ Len(s) \in Nat
      /\ DOMAIN s = 1 .. Len(s) /\ DOMAIN r = 1 .. Len(s) + 1
      /\ r[1] = x /\ \A i \in 2 .. Len(s) + 1 : r[i] = s[i - 1]
  <2>1. <<x>> \in Seq(S) /\ Len(<<x>>) = 1 /\ <<x>>[1] = x
    OBVIOUS
  <2>2. r \in Seq(S) /\ Len(r) = Len(s) + 1 /\ Len(s) \in Nat
    BY <2>1, ConcatProperties
  <2>3. \A i \in 1 .. Len(r) : r[i] = IF i <= 1 THEN <<x>>[i] ELSE s[i - 1]
    BY <2>1, ConcatProperties
  <2>4. QED
    BY <2>1, <2>2, <2>3
<1>2. \A i \in 1 .. Len(s) : r[i + 1] = s[i]
  <2> TAKE i \in 1 .. Len(s)
  <2>1. i + 1 \in 2 .. Len(s) + 1 /\ (i + 1) - 1 = i
    BY <1>1
  <2>2. QED
    BY <1>1, <2>1
<1>3. \A i \in 1 .. Len(s) : s[i] # x
  BY <1>1 DEF ToSet
<1>4. IsInjective(r)
  <2> SUFFICES ASSUME NEW i \in 1 .. Len(s) + 1, NEW j \in 1 .. Len(s) + 1, r[i] = r[j] PROVE i = j
    BY <1>1 DEF IsInjective
  <2> \A l \in 1 .. Len(s) + 1 : l # 1 => r[l] # x
    <3> TAKE l \in 1 .. Len(s) + 1
    <3> HAVE l # 1
    <3>1. l - 1 \in 1 .. Len(s) /\ r[l] = s[l - 1]
      BY <1>1
    <3>2. QED
      BY <1>3, <3>1
  <2>1. CASE i = 1 \/ j = 1
    BY <1>1, <2>1
  <2>2. CASE i # 1 /\ j # 1
    <3>1. i - 1 \in 1 .. Len(s) /\ j - 1 \in 1 .. Len(s) /\ s[i - 1] = s[j - 1]
      BY <1>1, <2>2
    <3>2. i - 1 = j - 1
      BY <1>1, <3>1 DEF IsInjective
    <3>3. QED
      BY <1>1, <3>2
  <2>3. QED
    BY <2>1, <2>2
<1>5. QED
  BY <1>1, <1>2, <1>4

\* A block unlinked from its place.
LEMMA Removed ==
  ASSUME NEW S, NEW s \in Seq(S), IsInjective(s), NEW k \in 1 .. Len(s), NEW r, r = RemoveAt(s, k)
  PROVE  /\ r \in Seq(S) /\ IsInjective(r) /\ Len(r) = Len(s) - 1 /\ Len(s) \in Nat \ {0}
         /\ DOMAIN s = 1 .. Len(s) /\ DOMAIN r = 1 .. Len(s) - 1
         /\ \A i \in 1 .. Len(s) - 1 : r[i] = IF i < k THEN s[i] ELSE s[i + 1]
         /\ \A y : y \in ToSet(r) <=> y \in ToSet(s) /\ y # s[k]
<1> DEFINE a == SubSeq(s, 1, k - 1)
           b == SubSeq(s, k + 1, Len(s))
<1>1. Len(s) \in Nat /\ k \in Nat /\ 1 <= k /\ k <= Len(s)
  OBVIOUS
<1>2. a \in Seq(S) /\ Len(a) = k - 1 /\ \A i \in 1 .. k - 1 : a[i] = s[i]
  <2>1. 1 \in 1 .. Len(s) + 1 /\ k - 1 \in 1 - 1 .. Len(s)
    BY <1>1
  <2>2. a \in Seq(S)
    BY <1>1, <2>1, SubSeqProperties
  <2>3. Len(a) = k - 1 /\ \A i \in 1 .. k - 1 : a[i] = s[i]
    BY <1>1, <2>1, SubSeqProperties
  <2>4. QED
    BY <2>2, <2>3
<1>3. b \in Seq(S) /\ Len(b) = Len(s) - k /\ \A i \in 1 .. Len(s) - k : b[i] = s[k + i]
  <2>1. k + 1 \in 1 .. Len(s) + 1 /\ Len(s) \in (k + 1) - 1 .. Len(s)
    BY <1>1
  <2>2. b \in Seq(S)
    BY <1>1, <2>1, SubSeqProperties
  <2>3. Len(b) = (Len(s) - (k + 1)) + 1 /\ \A i \in 1 .. (Len(s) - (k + 1)) + 1 : b[i] = s[((k + 1) + i) - 1]
    BY <1>1, <2>1, SubSeqProperties
  <2>4. (Len(s) - (k + 1)) + 1 = Len(s) - k
    BY <1>1
  <2>5. \A i \in 1 .. Len(s) - k : ((k + 1) + i) - 1 = k + i
    BY <1>1
  <2>6. QED
    BY <2>2, <2>3, <2>4, <2>5
<1>4. r = a \o b
  BY DEF RemoveAt
<1> HIDE DEF a, b
<1>5. /\ r \in Seq(S) /\ Len(r) = Len(s) - 1
      /\ DOMAIN s = 1 .. Len(s) /\ DOMAIN r = 1 .. Len(s) - 1
  <2>1. a \in Seq(S) /\ b \in Seq(S) /\ Len(a) = k - 1 /\ Len(b) = Len(s) - k
    BY <1>2, <1>3
  <2>2. a \o b \in Seq(S) /\ Len(a \o b) = Len(a) + Len(b)
    BY <2>1, ConcatProperties
  <2>3. QED
    BY <1>1, <1>4, <2>1, <2>2
<1>6. \A i \in 1 .. Len(s) - 1 : r[i] = IF i < k THEN s[i] ELSE s[i + 1]
  <2> TAKE i \in 1 .. Len(s) - 1
  <2>1. r[i] = IF i <= Len(a) THEN a[i] ELSE b[i - Len(a)]
    BY <1>1, <1>2, <1>3, <1>4, <1>5, ConcatProperties
  <2>2. CASE i < k
    BY <1>1, <1>2, <2>1, <2>2
  <2>3. CASE ~(i < k)
    <3>1. r[i] = b[i - (k - 1)] /\ i - (k - 1) \in 1 .. Len(s) - k /\ k + (i - (k - 1)) = i + 1
      BY <1>1, <1>2, <2>1, <2>3
    <3>2. QED
      BY <1>3, <2>3, <3>1
  <2>4. QED
    BY <2>2, <2>3
<1>7. IsInjective(r)
  <2> SUFFICES ASSUME NEW i \in 1 .. Len(s) - 1, NEW j \in 1 .. Len(s) - 1, r[i] = r[j] PROVE i = j
    BY <1>5 DEF IsInjective
  <2>1. \A x, y \in 1 .. Len(s) : s[x] = s[y] => x = y
    BY <1>5 DEF IsInjective
  <2>2. QED
    BY <1>1, <1>6, <2>1
<1>8. ASSUME NEW y \in ToSet(r) PROVE y \in ToSet(s) \ {s[k]}
  <2>1. PICK i \in 1 .. Len(s) - 1 : y = r[i]
    BY <1>5, <1>8 DEF ToSet
  <2>2. PICK j \in 1 .. Len(s) : y = s[j] /\ j # k
    <3>1. CASE i < k
      BY <1>1, <1>6, <2>1, <3>1
    <3>2. CASE ~(i < k)
      <4>1. i + 1 \in 1 .. Len(s) /\ i + 1 # k /\ y = s[i + 1]
        BY <1>1, <1>6, <2>1, <3>2
      <4>2. QED
        BY <4>1
    <3>3. QED
      BY <3>1, <3>2
  <2>3. s[j] # s[k]
    BY <1>5, <2>2 DEF IsInjective
  <2>4. QED
    BY <1>5, <2>2, <2>3 DEF ToSet
<1>9. ASSUME NEW y \in ToSet(s) \ {s[k]} PROVE y \in ToSet(r)
  <2>1. PICK j \in 1 .. Len(s) : y = s[j] /\ j # k
    BY <1>5, <1>9 DEF ToSet
  <2>2. PICK i \in 1 .. Len(s) - 1 : y = r[i]
    <3>1. CASE j < k
      <4>1. j \in 1 .. Len(s) - 1 /\ r[j] = s[j]
        BY <1>1, <1>6, <3>1
      <4>2. QED
        BY <2>1, <4>1
    <3>2. CASE ~(j < k)
      <4>1. j - 1 \in 1 .. Len(s) - 1 /\ ~(j - 1 < k) /\ (j - 1) + 1 = j
        BY <1>1, <2>1, <3>2
      <4>2. r[j - 1] = s[j]
        BY <1>6, <4>1
      <4>3. QED
        BY <2>1, <4>1, <4>2
    <3>3. QED
      BY <3>1, <3>2
  <2>3. QED
    BY <1>5, <2>2 DEF ToSet
<1>10. Len(s) \in Nat \ {0}
  BY <1>1
<1>11. QED
  BY <1>5, <1>6, <1>7, <1>8, <1>9, <1>10

\* The blocks of both, one by one.
LEMMA PrependedAt ==
  ASSUME NEW S, NEW s \in Seq(S), IsInjective(s), NEW x \in S, x \notin ToSet(s), NEW i \in 1 .. Len(s)
  PROVE  (<<x>> \o s)[i + 1] = s[i]
  BY Prepended

\* Its first block is the one linked.
LEMMA PrependedFirst ==
  ASSUME NEW S, NEW s \in Seq(S), IsInjective(s), NEW x \in S, x \notin ToSet(s)
  PROVE  (<<x>> \o s)[1] = x
  BY Prepended

\* Its blocks are the old ones and the one linked.
LEMMA PrependedSet ==
  ASSUME NEW S, NEW s \in Seq(S), IsInjective(s), NEW x \in S, x \notin ToSet(s), NEW y
  PROVE  y \in ToSet(<<x>> \o s) <=> y \in ToSet(s) \/ y = x
<1> DEFINE r == <<x>> \o s
<1>1. /\ r \in Seq(S) /\ Len(s) \in Nat
      /\ DOMAIN s = 1 .. Len(s) /\ DOMAIN r = 1 .. Len(s) + 1
      /\ r[1] = x /\ \A i \in 1 .. Len(s) : r[i + 1] = s[i]
  BY Prepended
<1> HIDE DEF r
<1>2. ASSUME y \in ToSet(r) PROVE y \in ToSet(s) \/ y = x
  <2>1. PICK i \in 1 .. Len(s) + 1 : y = r[i]
    BY <1>1, <1>2 DEF ToSet
  <2>2. CASE i = 1
    BY <1>1, <2>1, <2>2
  <2>3. CASE i # 1
    <3>1. i - 1 \in 1 .. Len(s) /\ y = s[i - 1]
      BY <1>1, <2>1, <2>3
    <3>2. QED
      BY <1>1, <3>1 DEF ToSet
  <2>4. QED
    BY <2>2, <2>3
<1>3. ASSUME y \in ToSet(s) \/ y = x PROVE y \in ToSet(r)
  <2>1. CASE y = x
    <3>1. 1 \in 1 .. Len(s) + 1
      BY <1>1
    <3>2. QED
      BY <1>1, <2>1, <3>1 DEF ToSet
  <2>2. CASE y \in ToSet(s)
    <3>1. PICK i \in 1 .. Len(s) : y = s[i]
      BY <1>1, <2>2 DEF ToSet
    <3>2. i + 1 \in 1 .. Len(s) + 1 /\ y = r[i + 1]
      BY <1>1, <3>1
    <3>3. QED
      BY <1>1, <3>2 DEF ToSet
  <2>3. QED
    BY <1>3, <2>1, <2>2
<1>4. QED
  BY <1>2, <1>3 DEF r

\* What is where after an unlink.
LEMMA RemovedAt ==
  ASSUME NEW S, NEW s \in Seq(S), IsInjective(s), NEW k \in 1 .. Len(s), NEW i \in 1 .. Len(s) - 1
  PROVE  RemoveAt(s, k)[i] = IF i < k THEN s[i] ELSE s[i + 1]
  BY Removed

\* Where a pointer past p points in the list s.
Past(s, p) == IF p = Nil THEN 1 ELSE 1 + CHOOSE i \in DOMAIN s : s[i] = p

\* The pointer past the block at k points at the next one.
LEMMA PastAt ==
  ASSUME NEW S, NEW s \in Seq(S), IsInjective(s), Nil \notin S, NEW k \in DOMAIN s
  PROVE  s[k] \in S /\ Past(s, s[k]) = k + 1
<1>1. s[k] \in S
  OBVIOUS
<1>2. \A i \in DOMAIN s : s[i] = s[k] => i = k
  BY DEF IsInjective
<1>3. (CHOOSE i \in DOMAIN s : s[i] = s[k]) = k
  BY <1>2
<1>4. k \in Nat
  OBVIOUS
<1>5. QED
  <2> DEFINE c == CHOOSE i \in DOMAIN s : s[i] = s[k]
  <2>1. c = k
    BY <1>3
  <2>2. Past(s, s[k]) = 1 + c
    BY <1>1 DEF Past
  <2> HIDE DEF c
  <2>3. QED
    BY <1>1, <1>4, <2>1, <2>2

-----------------------------------------------------------------------------
(* The invariant of the list and of the sweep's pointer into it.           *)

\* The pointer is into the list, and only while it is swept.
Pointer == prev # Nil => pc = "sweep" /\ prev \in ToSet(gc_heap)

\* What marking left white stays in the list until it is unlinked.
Whites ==
  /\ white \intersect marked = {}
  /\ pc \in {"idle", "drain"} => white = {}
  /\ \A b \in white : place[b] \in {"heap", "doomed"}

\* The sweep leaves no white block behind it.
Passed == pc = "sweep" => \A i \in DOMAIN gc_heap : i < Cursor => gc_heap[i] \notin white

\* The flag is up while the list is swept.
Flag == gc_in_collect <=> pc = "sweep"

\* A set_finalizer under way is about a block.
Setting == \A t \in Threads : fin[t].at # "none" => fin[t].b \in Blocks

\* The inductive invariant of the list.
ListInv == TypeOK /\ Pointer /\ Whites /\ Passed /\ Flag /\ Setting

\* Where the pointer is.
LEMMA CursorAt ==
  ASSUME ListInv
  PROVE  /\ prev = Nil => Cursor = 1
         /\ prev # Nil => \E k \in DOMAIN gc_heap : prev = gc_heap[k] /\ Cursor = k + 1
         /\ Cursor \in Nat \ {0}
         /\ DOMAIN gc_heap = 1 .. Len(gc_heap) /\ Len(gc_heap) \in Nat
<1>1. prev = Nil => Cursor = 1
  BY DEF Cursor
<1>2. ASSUME prev # Nil PROVE \E k \in DOMAIN gc_heap : prev = gc_heap[k] /\ Cursor = k + 1
  <2>1. PICK k \in DOMAIN gc_heap : prev = gc_heap[k]
    BY <1>2 DEF ListInv, Pointer, ToSet
  <2>2. Past(gc_heap, gc_heap[k]) = k + 1
    BY PastAt, NilAssumption DEF ListInv, TypeOK
  <2>3. QED
    BY <1>2, <2>1, <2>2 DEF Cursor, Past
<1>3. DOMAIN gc_heap = 1 .. Len(gc_heap) /\ Len(gc_heap) \in Nat
  BY DEF ListInv, TypeOK
<1>4. QED
  BY <1>1, <1>2, <1>3

\* A block linked at the head moves the others, and the pointer among them.
LEMMA Linked ==
  ASSUME ListInv, NEW b \in Blocks, place[b] # "heap",
         gc_heap' = <<b>> \o gc_heap, place' = [place EXCEPT ![b] = "heap"], prev' = prev
  PROVE  /\ gc_heap' \in Seq(Blocks) /\ IsInjective(gc_heap') /\ ToSet(gc_heap') = {a \in Blocks : place'[a] = "heap"}
         /\ DOMAIN gc_heap = 1 .. Len(gc_heap) /\ DOMAIN gc_heap' = 1 .. Len(gc_heap) + 1 /\ Len(gc_heap) \in Nat
         /\ gc_heap'[1] = b /\ \A i \in 1 .. Len(gc_heap) : gc_heap'[i + 1] = gc_heap[i]
         /\ prev = Nil => Cursor' = 1
         /\ prev # Nil => prev \in ToSet(gc_heap') /\ Cursor' = Cursor + 1
<1>1. gc_heap \in Seq(Blocks) /\ IsInjective(gc_heap) /\ b \notin ToSet(gc_heap)
  BY DEF ListInv, TypeOK
<1>2. /\ gc_heap' \in Seq(Blocks) /\ IsInjective(gc_heap')
      /\ DOMAIN gc_heap = 1 .. Len(gc_heap) /\ DOMAIN gc_heap' = 1 .. Len(gc_heap) + 1 /\ Len(gc_heap) \in Nat
      /\ gc_heap'[1] = b /\ \A i \in 1 .. Len(gc_heap) : gc_heap'[i + 1] = gc_heap[i]
      /\ ToSet(gc_heap') = ToSet(gc_heap) \cup {b}
  <2> DEFINE s == gc_heap
             r == gc_heap'
  <2>1. s \in Seq(Blocks) /\ IsInjective(s) /\ b \notin ToSet(s) /\ r = <<b>> \o s
    BY <1>1
  <2> HIDE DEF s, r
  <2>2. r \in Seq(Blocks)
    BY <2>1, Prepended
  <2>3. IsInjective(r)
    BY <2>1, Prepended
  <2>4. DOMAIN s = 1 .. Len(s) /\ DOMAIN r = 1 .. Len(s) + 1 /\ Len(s) \in Nat
    BY <2>1, Prepended
  <2>5. r[1] = b /\ \A i \in 1 .. Len(s) : r[i + 1] = s[i]
    <3>1. r[1] = b
      BY <2>1, PrependedFirst
    <3>2. \A i \in 1 .. Len(s) : r[i + 1] = s[i]
      BY <2>1, PrependedAt
    <3>3. QED
      BY <3>1, <3>2
  <2>6. \A y : y \in ToSet(r) <=> y \in ToSet(s) \/ y = b
    BY <2>1, PrependedSet
  <2>7. QED
    BY <2>2, <2>3, <2>4, <2>5, <2>6 DEF s, r
<1>3. ToSet(gc_heap') = {a \in Blocks : place'[a] = "heap"}
  BY <1>2 DEF ListInv, TypeOK
<1>4. prev = Nil => Cursor' = 1
  BY DEF Cursor
<1>5. ASSUME prev # Nil PROVE prev \in ToSet(gc_heap') /\ Cursor' = Cursor + 1
  <2>1. PICK k \in DOMAIN gc_heap : prev = gc_heap[k] /\ Cursor = k + 1
    BY <1>5, CursorAt
  <2>2. k + 1 \in DOMAIN gc_heap' /\ gc_heap'[k + 1] = prev
    BY <1>2, <2>1
  <2>3. Past(gc_heap', gc_heap'[k + 1]) = (k + 1) + 1
    <3>1. gc_heap' \in Seq(Blocks) /\ IsInjective(gc_heap') /\ Nil \notin Blocks /\ k + 1 \in DOMAIN gc_heap'
      BY <1>2, <2>2, NilAssumption
    <3>2. QED
      BY <3>1, PastAt
  <2>4. Cursor' = (k + 1) + 1
    BY <1>5, <2>2, <2>3 DEF Cursor, Past
  <2>5. prev \in ToSet(gc_heap')
    BY <2>2 DEF ToSet
  <2>6. k \in Nat
    BY <1>2, <2>1
  <2>7. QED
    BY <2>1, <2>4, <2>5, <2>6
<1>6. QED
  BY <1>2, <1>3, <1>4, <1>5

\* The block the pointer is at.
LEMMA AtCursor ==
  ASSUME ListInv, ~AtEnd
  PROVE  /\ Cursor \in 1 .. Len(gc_heap) /\ gc_heap[Cursor] \in Blocks /\ place[gc_heap[Cursor]] = "heap"
         /\ gc_heap[Cursor] \in ToSet(gc_heap) /\ gc_heap[Cursor] # Nil
<1>1. Cursor \in 1 .. Len(gc_heap) /\ DOMAIN gc_heap = 1 .. Len(gc_heap)
  BY CursorAt DEF AtEnd
<1>2. gc_heap[Cursor] \in ToSet(gc_heap)
  BY <1>1 DEF ToSet
<1>3. QED
  BY <1>1, <1>2, NilAssumption DEF ListInv, TypeOK

\* A block passed.
LEMMA KeptOne ==
  ASSUME ListInv, SweepKeep
  PROVE  Cursor' = Cursor + 1 /\ prev' \in ToSet(gc_heap) /\ prev' # Nil /\ gc_heap' = gc_heap
<1>1. Cursor \in DOMAIN gc_heap /\ gc_heap' = gc_heap /\ prev' = gc_heap[Cursor] /\ prev' \in ToSet(gc_heap) /\ prev' # Nil
  BY AtCursor, CursorAt DEF SweepKeep, listVars
<1>2. Past(gc_heap, gc_heap[Cursor]) = Cursor + 1
  BY <1>1, PastAt, NilAssumption DEF ListInv, TypeOK
<1>3. Cursor' = Past(gc_heap, gc_heap[Cursor])
  BY <1>1 DEF Cursor, Past
<1>4. QED
  BY <1>1, <1>2, <1>3

\* A block unlinked: the pointer stays, and the next block comes to it.
LEMMA Unlinked ==
  ASSUME ListInv, SweepUnlink
  PROVE  /\ gc_heap' \in Seq(Blocks) /\ IsInjective(gc_heap') /\ ToSet(gc_heap') = {a \in Blocks : place'[a] = "heap"}
         /\ DOMAIN gc_heap = 1 .. Len(gc_heap) /\ DOMAIN gc_heap' = 1 .. Len(gc_heap) - 1 /\ Len(gc_heap) \in Nat \ {0}
         /\ \A i \in 1 .. Len(gc_heap) - 1 : gc_heap'[i] = IF i < Cursor THEN gc_heap[i] ELSE gc_heap[i + 1]
         /\ Cursor' = Cursor /\ (prev # Nil => prev \in ToSet(gc_heap'))
<1>1. /\ Cursor \in 1 .. Len(gc_heap) /\ gc_heap[Cursor] \in Blocks /\ place[gc_heap[Cursor]] = "heap"
      /\ gc_heap' = RemoveAt(gc_heap, Cursor) /\ place' = [place EXCEPT ![gc_heap[Cursor]] = "doomed"] /\ prev' = prev
  BY AtCursor DEF SweepUnlink, collVars
<1>2. gc_heap \in Seq(Blocks) /\ IsInjective(gc_heap)
  BY DEF ListInv, TypeOK
<1>3. /\ gc_heap' \in Seq(Blocks) /\ IsInjective(gc_heap')
      /\ DOMAIN gc_heap = 1 .. Len(gc_heap) /\ DOMAIN gc_heap' = 1 .. Len(gc_heap) - 1 /\ Len(gc_heap) \in Nat \ {0}
      /\ \A i \in 1 .. Len(gc_heap) - 1 : gc_heap'[i] = IF i < Cursor THEN gc_heap[i] ELSE gc_heap[i + 1]
      /\ ToSet(gc_heap') = ToSet(gc_heap) \ {gc_heap[Cursor]}
  <2> DEFINE s == gc_heap
             r == gc_heap'
             k == Cursor
  <2>1. s \in Seq(Blocks) /\ IsInjective(s) /\ k \in 1 .. Len(s) /\ r = RemoveAt(s, k)
    BY <1>1, <1>2
  <2> HIDE DEF s, r, k
  <2>2. r \in Seq(Blocks)
    BY <2>1, Removed
  <2>3. IsInjective(r)
    BY <2>1, Removed
  <2>4. DOMAIN s = 1 .. Len(s) /\ DOMAIN r = 1 .. Len(s) - 1 /\ Len(s) \in Nat \ {0}
    BY <2>1, Removed
  <2>5. \A i \in 1 .. Len(s) - 1 : r[i] = IF i < k THEN s[i] ELSE s[i + 1]
    BY <2>1, RemovedAt
  <2>6. \A y : y \in ToSet(r) <=> y \in ToSet(s) /\ y # s[k]
    BY <2>1, Removed
  <2>7. QED
    BY <2>2, <2>3, <2>4, <2>5, <2>6 DEF s, r, k
<1>4. ToSet(gc_heap') = {a \in Blocks : place'[a] = "heap"}
  BY <1>1, <1>3 DEF ListInv, TypeOK
<1>5. Cursor' = Cursor /\ (prev # Nil => prev \in ToSet(gc_heap'))
  <2>1. CASE prev = Nil
    BY <1>1, <2>1, CursorAt DEF Cursor
  <2>2. CASE prev # Nil
    <3>1. PICK k \in DOMAIN gc_heap : prev = gc_heap[k] /\ Cursor = k + 1
      BY <2>2, CursorAt
    <3>2. k \in DOMAIN gc_heap' /\ gc_heap'[k] = prev
      BY <1>1, <1>3, <3>1
    <3>3. Past(gc_heap', gc_heap'[k]) = k + 1
      BY <1>3, <3>2, PastAt, NilAssumption
    <3>4. Cursor' = k + 1
      BY <1>1, <2>2, <3>2, <3>3 DEF Cursor, Past
    <3>5. QED
      BY <3>1, <3>2, <3>4 DEF ToSet
  <2>3. QED
    BY <2>1, <2>2
<1>6. QED
  BY <1>3, <1>4, <1>5

\* A step that touches neither the list nor what is known of it.
LEMMA ListInert ==
  ASSUME ListInv, UNCHANGED <<gc_heap, place, marked, white, pc, prev, gc_in_collect>>
  PROVE  Pointer' /\ Whites' /\ Passed' /\ Flag'
<1>1. Cursor' = Cursor
  BY DEF Cursor
<1>2. QED
  BY <1>1 DEF ListInv, Pointer, Whites, Passed, Flag

\* Every step keeps the types, and the list is the blocks placed in the heap.
LEMMA TypeStep ==
  ASSUME ListInv, [Next]_vars
  PROVE  TypeOK'
<1> USE NilAssumption, GCAssumption DEF ListInv, TypeOK, listVars, progVars, collVars, Places, NoFin
<1>1. ASSUME NEW t \in Threads, Alloc(t) PROVE TypeOK'
  <2>1. PICK b \in Blocks : /\ place[b] = "free" /\ place' = [place EXCEPT ![b] = "heap"] /\ gc_heap' = <<b>> \o gc_heap
                            /\ marked' = marked \ {b} /\ field' = [field EXCEPT ![b] = Nil] /\ held' = [held EXCEPT ![t] = @ \union {b}]
    BY <1>1 DEF Alloc
  <2>2. UNCHANGED <<slot, white, finalizer, weak, pc, prev, lock, gc_in_collect, fin>>
    BY <1>1 DEF Alloc
  <2>3. gc_heap' \in Seq(Blocks) /\ IsInjective(gc_heap') /\ ToSet(gc_heap') = {a \in Blocks : place'[a] = "heap"}
    BY <2>1, <2>2, Linked
  <2>4. QED
    BY <2>1, <2>2, <2>3
<1>2. ASSUME NEW t \in Threads, Store(t) PROVE TypeOK'
  BY <1>2 DEF Store
<1>3. ASSUME NEW t \in Threads, Load(t) PROVE TypeOK'
  BY <1>3 DEF Load
<1>4. ASSUME NEW t \in Threads, LoadSlot(t) PROVE TypeOK'
  BY <1>4 DEF LoadSlot
<1>5. ASSUME NEW t \in Threads, ClearSlot(t) PROVE TypeOK'
  BY <1>5 DEF ClearSlot
<1>6. ASSUME NEW t \in Threads, Forget(t) PROVE TypeOK'
  BY <1>6 DEF Forget
<1>7. ASSUME NEW t \in Threads, hao_weak_register(t) PROVE TypeOK'
  BY <1>7 DEF hao_weak_register
<1>8. ASSUME NEW t \in Threads, hao_weak_get(t) PROVE TypeOK'
  BY <1>8 DEF hao_weak_get
<1>9. ASSUME NEW t \in Threads, SetFinalizerEnter(t) PROVE TypeOK'
  BY <1>9 DEF SetFinalizerEnter
<1>10. ASSUME NEW t \in Threads, SetFinalizerLock(t) PROVE TypeOK'
  BY <1>10 DEF SetFinalizerLock
<1>11. ASSUME NEW t \in Threads, SetFinalizer(t) PROVE TypeOK'
  <2>1. fin[t].b \in Blocks
    BY <1>11 DEF SetFinalizer, Setting
  <2>2. QED
    BY <1>11, <2>1 DEF SetFinalizer
<1>12. ASSUME NEW t \in Threads, SetFinalizerUnlock(t) PROVE TypeOK'
  BY <1>12 DEF SetFinalizerUnlock
<1>13. ASSUME NEW b \in Blocks, RunFinalizer(b) PROVE TypeOK'
  BY <1>13 DEF RunFinalizer
<1>14. ASSUME NEW b \in Blocks, AfterFinalizer(b) PROVE TypeOK'
  <2>1. CASE gc_user_still_reachable_locked(b)
    <3>1. /\ place[b] = "called" /\ place' = [place EXCEPT ![b] = "heap"] /\ gc_heap' = <<b>> \o gc_heap /\ marked' = marked \ {b}
          /\ UNCHANGED <<field, held, slot, white, pc, prev, gc_in_collect, finalizer, weak, lock, fin>>
      BY <1>14, <2>1 DEF AfterFinalizer, progVars
    <3>2. gc_heap' \in Seq(Blocks) /\ IsInjective(gc_heap') /\ ToSet(gc_heap') = {a \in Blocks : place'[a] = "heap"}
      BY <3>1, Linked
    <3>3. QED
      BY <3>1, <3>2
  <2>2. CASE ~gc_user_still_reachable_locked(b)
    <3>1. /\ place[b] = "called" /\ place' = [place EXCEPT ![b] = "free"] /\ gc_heap' = gc_heap /\ marked' = marked
          /\ UNCHANGED <<field, held, slot, white, pc, prev, gc_in_collect, finalizer, weak, lock, fin>>
      BY <1>14, <2>2 DEF AfterFinalizer, progVars
    <3>2. QED
      BY <3>1
  <2>3. QED
    BY <2>1, <2>2
<1>15. CASE MarkEnds
  <2>1. PICK m \in SUBSET Blocks : marked' = m /\ white' = InHeap \ m /\ weak' = KeepMarkedReferents(m)
    BY <1>15 DEF MarkEnds, InHeap
  <2>2. weak' \in [Blocks -> Blocks \union {Nil}]
    BY <2>1 DEF KeepMarkedReferents
  <2>3. white' \subseteq Blocks
    BY <2>1 DEF InHeap
  <2>4. QED
    BY <1>15, <2>1, <2>2, <2>3 DEF MarkEnds
<1>16. CASE SweepBegins
  BY <1>16 DEF SweepBegins
<1>17. CASE SweepKeep
  <2>1. gc_heap[Cursor] \in Blocks
    BY <1>17, AtCursor DEF SweepKeep
  <2>2. QED
    BY <1>17, <2>1 DEF SweepKeep
<1>18. CASE SweepUnlink
  <2>1. gc_heap' \in Seq(Blocks) /\ IsInjective(gc_heap') /\ ToSet(gc_heap') = {a \in Blocks : place'[a] = "heap"}
    BY <1>18, Unlinked
  <2>2. gc_heap[Cursor] \in Blocks
    BY <1>18, AtCursor DEF SweepUnlink
  <2>3. QED
    BY <1>18, <2>1, <2>2 DEF SweepUnlink
<1>19. CASE SweepEnds
  BY <1>19 DEF SweepEnds, Sweeping
<1>20. CASE Drain
  BY <1>20 DEF Drain
<1>21. CASE DrainEnds
  BY <1>21 DEF DrainEnds
<1>22. CASE Yield
  BY <1>22 DEF Yield
<1>23. CASE Relock
  BY <1>23 DEF Relock
<1>24. CASE UNCHANGED vars
  BY <1>24 DEF vars
<1>25. QED
  BY <1>1, <1>2, <1>3, <1>4, <1>5, <1>6, <1>7, <1>8, <1>9, <1>10, <1>11, <1>12, <1>13, <1>14, <1>15, <1>16, <1>17, <1>18, <1>19, <1>20, <1>21, <1>22, <1>23, <1>24 DEF Next, Collector, Program

\* The sweep and whatever happens while it pauses leave no white block behind.
LEMMA ListStep ==
  ASSUME ListInv, [Next]_vars
  PROVE  Pointer' /\ Whites' /\ Passed' /\ Flag'
<1> USE NilAssumption, GCAssumption DEF ListInv, Pointer, Whites, Passed, Flag
<1>1. ASSUME NEW t \in Threads, Alloc(t) PROVE Pointer' /\ Whites' /\ Passed' /\ Flag'
  <2>1. PICK b \in Blocks : /\ place[b] = "free" /\ place' = [place EXCEPT ![b] = "heap"] /\ gc_heap' = <<b>> \o gc_heap
                            /\ marked' = marked \ {b} /\ field' = [field EXCEPT ![b] = Nil] /\ held' = [held EXCEPT ![t] = @ \union {b}]
    BY <1>1 DEF Alloc
  <2>2. UNCHANGED <<slot, white, finalizer, weak, pc, prev, lock, gc_in_collect, fin>>
    BY <1>1 DEF Alloc
  <2>3. /\ DOMAIN gc_heap = 1 .. Len(gc_heap) /\ DOMAIN gc_heap' = 1 .. Len(gc_heap) + 1 /\ Len(gc_heap) \in Nat
        /\ gc_heap'[1] = b /\ \A i \in 1 .. Len(gc_heap) : gc_heap'[i + 1] = gc_heap[i]
        /\ prev = Nil => Cursor' = 1
        /\ prev # Nil => prev \in ToSet(gc_heap') /\ Cursor' = Cursor + 1
    BY <2>1, <2>2, Linked
  <2>4. b \notin white /\ Cursor \in Nat \ {0}
    BY <2>1, <2>2, CursorAt
  <2>5. pc = "sweep" => \A i \in 1 .. Len(gc_heap) + 1 : i < Cursor' => gc_heap'[i] \notin white
    <3> SUFFICES ASSUME pc = "sweep", NEW i \in 1 .. Len(gc_heap) + 1, i < Cursor' PROVE gc_heap'[i] \notin white
      OBVIOUS
    <3>1. CASE i = 1
      BY <2>3, <2>4, <3>1
    <3>2. CASE i # 1
      <4>1. prev # Nil /\ i - 1 \in 1 .. Len(gc_heap) /\ i - 1 < Cursor
        BY <2>3, <2>4, <3>2
      <4>2. gc_heap'[(i - 1) + 1] = gc_heap[i - 1] /\ (i - 1) + 1 = i
        BY <2>3, <4>1
      <4>3. QED
        BY <2>3, <4>1, <4>2
    <3>3. QED
      BY <3>1, <3>2
  <2>6. QED
    BY <2>1, <2>2, <2>3, <2>4, <2>5
<1>2. ASSUME NEW t \in Threads, Store(t) PROVE Pointer' /\ Whites' /\ Passed' /\ Flag'
  <2>1. UNCHANGED <<gc_heap, place, marked, white, pc, prev, gc_in_collect>>
    BY <1>2 DEF Store, listVars, collVars, progVars
  <2>2. QED
    BY <2>1, ListInert
<1>3. ASSUME NEW t \in Threads, Load(t) PROVE Pointer' /\ Whites' /\ Passed' /\ Flag'
  <2>1. UNCHANGED <<gc_heap, place, marked, white, pc, prev, gc_in_collect>>
    BY <1>3 DEF Load, listVars, collVars, progVars
  <2>2. QED
    BY <2>1, ListInert
<1>4. ASSUME NEW t \in Threads, LoadSlot(t) PROVE Pointer' /\ Whites' /\ Passed' /\ Flag'
  <2>1. UNCHANGED <<gc_heap, place, marked, white, pc, prev, gc_in_collect>>
    BY <1>4 DEF LoadSlot, listVars, collVars, progVars
  <2>2. QED
    BY <2>1, ListInert
<1>5. ASSUME NEW t \in Threads, ClearSlot(t) PROVE Pointer' /\ Whites' /\ Passed' /\ Flag'
  <2>1. UNCHANGED <<gc_heap, place, marked, white, pc, prev, gc_in_collect>>
    BY <1>5 DEF ClearSlot, listVars, collVars, progVars
  <2>2. QED
    BY <2>1, ListInert
<1>6. ASSUME NEW t \in Threads, Forget(t) PROVE Pointer' /\ Whites' /\ Passed' /\ Flag'
  <2>1. UNCHANGED <<gc_heap, place, marked, white, pc, prev, gc_in_collect>>
    BY <1>6 DEF Forget, listVars, collVars, progVars
  <2>2. QED
    BY <2>1, ListInert
<1>7. ASSUME NEW t \in Threads, hao_weak_register(t) PROVE Pointer' /\ Whites' /\ Passed' /\ Flag'
  <2>1. UNCHANGED <<gc_heap, place, marked, white, pc, prev, gc_in_collect>>
    BY <1>7 DEF hao_weak_register, listVars, collVars, progVars
  <2>2. QED
    BY <2>1, ListInert
<1>8. ASSUME NEW t \in Threads, hao_weak_get(t) PROVE Pointer' /\ Whites' /\ Passed' /\ Flag'
  <2>1. UNCHANGED <<gc_heap, place, marked, white, pc, prev, gc_in_collect>>
    BY <1>8 DEF hao_weak_get, listVars, collVars, progVars
  <2>2. QED
    BY <2>1, ListInert
<1>9. ASSUME NEW t \in Threads, SetFinalizerEnter(t) PROVE Pointer' /\ Whites' /\ Passed' /\ Flag'
  <2>1. UNCHANGED <<gc_heap, place, marked, white, pc, prev, gc_in_collect>>
    BY <1>9 DEF SetFinalizerEnter, listVars, collVars, progVars
  <2>2. QED
    BY <2>1, ListInert
<1>10. ASSUME NEW t \in Threads, SetFinalizerLock(t) PROVE Pointer' /\ Whites' /\ Passed' /\ Flag'
  <2>1. UNCHANGED <<gc_heap, place, marked, white, pc, prev, gc_in_collect>>
    BY <1>10 DEF SetFinalizerLock, listVars, collVars, progVars
  <2>2. QED
    BY <2>1, ListInert
<1>11. ASSUME NEW t \in Threads, SetFinalizer(t) PROVE Pointer' /\ Whites' /\ Passed' /\ Flag'
  <2>1. UNCHANGED <<gc_heap, place, marked, white, pc, prev, gc_in_collect>>
    BY <1>11 DEF SetFinalizer, listVars, collVars, progVars
  <2>2. QED
    BY <2>1, ListInert
<1>12. ASSUME NEW t \in Threads, SetFinalizerUnlock(t) PROVE Pointer' /\ Whites' /\ Passed' /\ Flag'
  <2>1. UNCHANGED <<gc_heap, place, marked, white, pc, prev, gc_in_collect>>
    BY <1>12 DEF SetFinalizerUnlock, listVars, collVars, progVars
  <2>2. QED
    BY <2>1, ListInert
<1>13. ASSUME NEW b \in Blocks, RunFinalizer(b) PROVE Pointer' /\ Whites' /\ Passed' /\ Flag'
  <2>1. /\ place[b] = "pending" /\ place' = [place EXCEPT ![b] = "called"]
        /\ UNCHANGED <<gc_heap, marked, white, pc, prev, gc_in_collect>>
    BY <1>13 DEF RunFinalizer, collVars
  <2>2. Cursor' = Cursor
    BY <2>1 DEF Cursor
  <2>3. QED
    BY <2>1, <2>2 DEF TypeOK
<1>14. ASSUME NEW b \in Blocks, AfterFinalizer(b) PROVE Pointer' /\ Whites' /\ Passed' /\ Flag'
  <2>1. CASE gc_user_still_reachable_locked(b)
    <3>1. /\ place[b] = "called" /\ place' = [place EXCEPT ![b] = "heap"] /\ gc_heap' = <<b>> \o gc_heap /\ marked' = marked \ {b}
          /\ UNCHANGED <<field, held, slot, white, pc, prev, gc_in_collect, finalizer, weak, lock, fin>>
      BY <1>14, <2>1 DEF AfterFinalizer, progVars
    <3>3. /\ DOMAIN gc_heap = 1 .. Len(gc_heap) /\ DOMAIN gc_heap' = 1 .. Len(gc_heap) + 1 /\ Len(gc_heap) \in Nat
          /\ gc_heap'[1] = b /\ \A i \in 1 .. Len(gc_heap) : gc_heap'[i + 1] = gc_heap[i]
          /\ prev = Nil => Cursor' = 1
          /\ prev # Nil => prev \in ToSet(gc_heap') /\ Cursor' = Cursor + 1
      BY <3>1, Linked
    <3>4. b \notin white /\ Cursor \in Nat \ {0}
      BY <3>1, CursorAt
    <3>5. pc = "sweep" => \A i \in 1 .. Len(gc_heap) + 1 : i < Cursor' => gc_heap'[i] \notin white
      <4> SUFFICES ASSUME pc = "sweep", NEW i \in 1 .. Len(gc_heap) + 1, i < Cursor' PROVE gc_heap'[i] \notin white
        OBVIOUS
      <4>1. CASE i = 1
        BY <3>3, <3>4, <4>1
      <4>2. CASE i # 1
        <5>1. prev # Nil /\ i - 1 \in 1 .. Len(gc_heap) /\ i - 1 < Cursor
          BY <3>3, <3>4, <4>2
        <5>2. gc_heap'[(i - 1) + 1] = gc_heap[i - 1] /\ (i - 1) + 1 = i
          BY <3>3, <5>1
        <5>3. QED
          BY <3>3, <5>1, <5>2
      <4>3. QED
        BY <4>1, <4>2
    <3>6. QED
      BY <3>1, <3>3, <3>4, <3>5
  <2>2. CASE ~gc_user_still_reachable_locked(b)
    <3>1. /\ place[b] = "called" /\ place' = [place EXCEPT ![b] = "free"] /\ gc_heap' = gc_heap /\ marked' = marked
          /\ UNCHANGED <<field, held, slot, white, pc, prev, gc_in_collect, finalizer, weak, lock, fin>>
      BY <1>14, <2>2 DEF AfterFinalizer, progVars
    <3>2. Cursor' = Cursor
      BY <3>1 DEF Cursor
    <3>3. QED
      BY <3>1, <3>2
  <2>3. QED
    BY <2>1, <2>2
<1>15. CASE MarkEnds
  <2>1. PICK m \in SUBSET Blocks : marked' = m /\ white' = InHeap \ m
    BY <1>15 DEF MarkEnds, InHeap
  <2>2. QED
    BY <1>15, <2>1 DEF MarkEnds, InHeap, listVars
<1>16. CASE SweepBegins
  <2>1. prev = Nil /\ prev' = prev /\ Cursor' = 1 /\ pc' = "sweep" /\ gc_in_collect' /\ UNCHANGED <<gc_heap, place, marked, white>>
    BY <1>16 DEF SweepBegins, Cursor, listVars
  <2>2. \A i \in DOMAIN gc_heap : ~(i < 1)
    BY CursorAt
  <2>3. QED
    BY <1>16, <2>1, <2>2 DEF SweepBegins
<1>17. CASE SweepKeep
  <2>1. /\ Cursor' = Cursor + 1 /\ prev' \in ToSet(gc_heap) /\ prev' # Nil /\ gc_heap' = gc_heap
        /\ pc = "sweep" /\ gc_heap[Cursor] \in marked /\ UNCHANGED <<place, marked, white, pc, gc_in_collect>>
    BY <1>17, KeptOne DEF SweepKeep, Sweeping, listVars
  <2>2. \A i \in DOMAIN gc_heap : i < Cursor + 1 => i < Cursor \/ i = Cursor
    BY CursorAt
  <2>3. QED
    BY <2>1, <2>2
<1>18. CASE SweepUnlink
  <2>1. /\ DOMAIN gc_heap = 1 .. Len(gc_heap) /\ DOMAIN gc_heap' = 1 .. Len(gc_heap) - 1 /\ Len(gc_heap) \in Nat \ {0}
        /\ \A i \in 1 .. Len(gc_heap) - 1 : gc_heap'[i] = IF i < Cursor THEN gc_heap[i] ELSE gc_heap[i + 1]
        /\ Cursor' = Cursor /\ (prev # Nil => prev \in ToSet(gc_heap'))
    BY <1>18, Unlinked
  <2>2. /\ gc_heap[Cursor] \in Blocks /\ place' = [place EXCEPT ![gc_heap[Cursor]] = "doomed"] /\ pc = "sweep"
        /\ UNCHANGED <<marked, white, pc, prev, gc_in_collect>>
    BY <1>18, AtCursor DEF SweepUnlink, Sweeping, collVars
  <2>3. \A b \in white' : place'[b] \in {"heap", "doomed"}
    BY <2>2 DEF TypeOK
  <2>4. \A i \in DOMAIN gc_heap' : i < Cursor' => gc_heap'[i] \notin white'
    BY <2>1, <2>2
  <2>5. QED
    BY <2>1, <2>2, <2>3, <2>4
<1>19. CASE SweepEnds
  BY <1>19 DEF SweepEnds, Sweeping
<1>20. CASE Drain
  <2>1. Cursor' = Cursor /\ white' = {} /\ UNCHANGED <<gc_heap, marked, pc, prev, gc_in_collect>> /\ pc = "drain"
    BY <1>20 DEF Drain, Cursor, collVars
  <2>2. QED
    BY <2>1
<1>21. CASE DrainEnds
  BY <1>21 DEF DrainEnds
<1>22. CASE Yield
  <2>1. UNCHANGED <<gc_heap, place, marked, white, pc, prev, gc_in_collect>>
    BY <1>22 DEF Yield, listVars, collVars, progVars
  <2>2. QED
    BY <2>1, ListInert
<1>23. CASE Relock
  <2>1. UNCHANGED <<gc_heap, place, marked, white, pc, prev, gc_in_collect>>
    BY <1>23 DEF Relock, listVars, collVars, progVars
  <2>2. QED
    BY <2>1, ListInert
<1>24. CASE UNCHANGED vars
  BY <1>24, ListInert DEF vars, collVars, listVars
<1>25. QED
  BY <1>1, <1>2, <1>3, <1>4, <1>5, <1>6, <1>7, <1>8, <1>9, <1>10, <1>11, <1>12, <1>13, <1>14, <1>15, <1>16, <1>17, <1>18, <1>19, <1>20, <1>21, <1>22, <1>23, <1>24 DEF Next, Collector, Program

\* A set_finalizer keeps the block it is about.
LEMMA SettingStep ==
  ASSUME ListInv, [Next]_vars
  PROVE  Setting'
<1> USE NilAssumption DEF ListInv, TypeOK, Setting
<1>1. ASSUME NEW t \in Threads, Alloc(t) PROVE Setting'
  BY <1>1 DEF Alloc
<1>2. ASSUME NEW t \in Threads, Store(t) PROVE Setting'
  BY <1>2 DEF Store
<1>3. ASSUME NEW t \in Threads, Load(t) PROVE Setting'
  BY <1>3 DEF Load
<1>4. ASSUME NEW t \in Threads, LoadSlot(t) PROVE Setting'
  BY <1>4 DEF LoadSlot
<1>5. ASSUME NEW t \in Threads, ClearSlot(t) PROVE Setting'
  BY <1>5 DEF ClearSlot
<1>6. ASSUME NEW t \in Threads, Forget(t) PROVE Setting'
  BY <1>6 DEF Forget
<1>7. ASSUME NEW t \in Threads, hao_weak_register(t) PROVE Setting'
  BY <1>7 DEF hao_weak_register
<1>8. ASSUME NEW t \in Threads, hao_weak_get(t) PROVE Setting'
  BY <1>8 DEF hao_weak_get
<1>9. ASSUME NEW t \in Threads, SetFinalizerEnter(t) PROVE Setting'
  BY <1>9 DEF SetFinalizerEnter, NoFin
<1>10. ASSUME NEW t \in Threads, SetFinalizerLock(t) PROVE Setting'
  BY <1>10 DEF SetFinalizerLock, NoFin
<1>11. ASSUME NEW t \in Threads, SetFinalizer(t) PROVE Setting'
  BY <1>11 DEF SetFinalizer, NoFin
<1>12. ASSUME NEW t \in Threads, SetFinalizerUnlock(t) PROVE Setting'
  BY <1>12 DEF SetFinalizerUnlock, NoFin
<1>13. ASSUME NEW b \in Blocks, RunFinalizer(b) PROVE Setting'
  BY <1>13 DEF RunFinalizer
<1>14. ASSUME NEW b \in Blocks, AfterFinalizer(b) PROVE Setting'
  BY <1>14 DEF AfterFinalizer
<1>15. CASE MarkEnds
  BY <1>15 DEF MarkEnds
<1>16. CASE SweepBegins
  BY <1>16 DEF SweepBegins
<1>17. CASE SweepKeep
  BY <1>17 DEF SweepKeep, Sweeping
<1>18. CASE SweepUnlink
  BY <1>18 DEF SweepUnlink, Sweeping
<1>19. CASE SweepEnds
  BY <1>19 DEF SweepEnds, Sweeping
<1>20. CASE Drain
  BY <1>20 DEF Drain
<1>21. CASE DrainEnds
  BY <1>21 DEF DrainEnds
<1>22. CASE Yield
  BY <1>22 DEF Yield
<1>23. CASE Relock
  BY <1>23 DEF Relock
<1>24. CASE UNCHANGED vars
  BY <1>24 DEF vars
<1>25. QED
  BY <1>1, <1>2, <1>3, <1>4, <1>5, <1>6, <1>7, <1>8, <1>9, <1>10, <1>11, <1>12, <1>13, <1>14, <1>15, <1>16, <1>17, <1>18, <1>19, <1>20, <1>21, <1>22, <1>23, <1>24 DEF Next, Collector, Program

\* The invariant of the list holds throughout.
THEOREM ListInvariant == Spec => []ListInv
<1>1. Init => ListInv
  <2> SUFFICES ASSUME Init PROVE ListInv
    OBVIOUS
  <2>1. gc_heap \in Seq(Blocks) /\ IsInjective(gc_heap) /\ ToSet(gc_heap) = {} /\ DOMAIN gc_heap = {}
    BY DEF Init, IsInjective, ToSet
  <2>2. TypeOK
    BY <2>1 DEF Init, TypeOK, Places, NoFin
  <2>3. QED
    BY <2>1, <2>2 DEF Init, ListInv, Pointer, Whites, Passed, Flag, Setting, NoFin
<1>2. ListInv /\ [Next]_vars => ListInv'
  BY TypeStep, ListStep, SettingStep DEF ListInv
<1>3. QED
  BY <1>1, <1>2, PTL DEF Spec

\* Every variable keeps its type, and gc_heap lists each block placed in it
\* once, whatever is linked at its head or unlinked in the middle of it.
THEOREM TypeCorrect == Spec => []TypeOK
<1>1. ListInv => TypeOK
  BY DEF ListInv
<1>2. QED
  BY <1>1, ListInvariant, PTL

\* A sweep that ends has unlinked every block that marking left white:
\* whatever was allocated, put back or unlinked while it paused, *prev skipped
\* none of them (gc_sweep_block_list).
THEOREM NoneSkipped == Spec => SweepComplete
<1>1. ASSUME ListInv, [Next]_vars
      PROVE  [pc = "sweep" /\ pc' = "drain" => white \intersect ToSet(gc_heap) = {}]_vars
  <2> SUFFICES ASSUME Next, pc = "sweep", pc' = "drain" PROVE white \intersect ToSet(gc_heap) = {}
    BY <1>1
  <2>1. SweepEnds
    <3> USE DEF progVars, collVars
    <3>1. ASSUME NEW t \in Threads, Program(t) PROVE pc' = pc
      <4>1. Alloc(t) => pc' = pc
        BY DEF Alloc
      <4>2. (Store(t) \/ Load(t) \/ LoadSlot(t) \/ ClearSlot(t) \/ Forget(t)) => pc' = pc
        BY DEF Store, Load, LoadSlot, ClearSlot, Forget
      <4>3. (hao_weak_register(t) \/ hao_weak_get(t) \/ SetFinalizerEnter(t) \/ SetFinalizerLock(t)) => pc' = pc
        BY DEF hao_weak_register, hao_weak_get, SetFinalizerEnter, SetFinalizerLock
      <4>4. (SetFinalizer(t) \/ SetFinalizerUnlock(t)) => pc' = pc
        BY DEF SetFinalizer, SetFinalizerUnlock
      <4>5. QED
        BY <3>1, <4>1, <4>2, <4>3, <4>4 DEF Program
    <3>2. ASSUME NEW b \in Blocks, RunFinalizer(b) \/ AfterFinalizer(b) PROVE pc' = pc
      BY <3>2 DEF RunFinalizer, AfterFinalizer
    <3>3. (SweepKeep \/ SweepUnlink \/ Drain \/ Yield \/ Relock) => pc' = pc
      BY DEF SweepKeep, SweepUnlink, Drain, Yield, Relock
    <3>4. ~MarkEnds /\ ~SweepBegins /\ ~DrainEnds
      BY DEF MarkEnds, SweepBegins, DrainEnds
    <3>5. QED
      BY <3>1, <3>2, <3>3, <3>4 DEF Next, Collector
  <2>2. \A i \in DOMAIN gc_heap : i < Cursor
    BY <1>1, <2>1, CursorAt DEF SweepEnds, AtEnd
  <2>3. \A i \in DOMAIN gc_heap : gc_heap[i] \notin white
    BY <1>1, <2>2 DEF ListInv, Passed
  <2>4. QED
    BY <2>3 DEF ToSet
<1>2. QED
  BY <1>1, ListInvariant, PTL DEF Spec, SweepComplete
-----------------------------------------------------------------------------
(* What the program can reach, under the discipline.                       *)

\* K holds the roots and all they lead to, through fields and weak references,
\* and nothing in it is being freed or about to be.
Alive(K) ==
  /\ \A t \in Threads : held[t] \subseteq K
  /\ slot # Nil => slot \in K
  /\ \A a \in K : (field[a] # Nil => field[a] \in K) /\ (weak[a] # Nil => weak[a] \in K)
  /\ \A a \in K : place[a] \in {"heap", "called"} /\ a \notin white

\* There is such a set.
SomeAlive == \E K \in SUBSET Blocks : Alive(K)

\* A weak object in the table is in the list and stays in it.
WeakInHeap == \A b \in Blocks : weak[b] # Nil => place[b] = "heap" /\ b \notin white

\* Whatever is ahead of the sweep was there when marking ended.
Ahead ==
  /\ pc = "begin" => lock = GC /\ InHeap \subseteq marked \cup white
  /\ pc = "sweep" => \A i \in DOMAIN gc_heap : i >= Cursor => gc_heap[i] \in marked \cup white

\* The inductive invariant under the discipline.
SafeInv == SomeAlive /\ WeakInHeap /\ Ahead /\ NoLockOutside

\* The roots.
LEMMA Roots == \A b : b \in Rooted <=> (\E t \in Threads : b \in held[t]) \/ (b = slot /\ slot # Nil)
<1> TAKE b
<1> DEFINE U == UNION {held[t] : t \in Threads}
<1>1. b \in U <=> \E t \in Threads : b \in held[t]
  OBVIOUS
<1>2. Rooted = U \union ({slot} \ {Nil})
  BY DEF Rooted
<1> HIDE DEF U
<1>3. QED
  BY <1>1, <1>2

\* What marking marks: what it finds from the roots, and all they refer to in
\* the heap.
LEMMA Marked ==
  ASSUME ListInv, NEW old \in SUBSET InHeap, NEW m, m = ReachFrom(Found \union old, InHeap) \intersect InHeap
  PROVE  /\ m \subseteq InHeap
         /\ \A t \in Threads : held[t] \intersect InHeap \subseteq m
         /\ slot \in InHeap => slot \in m
         /\ \A a \in m : field[a] \in InHeap => field[a] \in m
<1>1. InHeap \subseteq Blocks /\ Nil \notin InHeap
  BY NilAssumption DEF InHeap
<1>2. Found \subseteq InHeap
  BY DEF Found
<1>3. Rooted \intersect InHeap \subseteq Found
  BY <1>1 DEF Found, ReachFrom
<1>4. Found \subseteq m
  BY <1>1, <1>2 DEF ReachFrom
<1>5. \A t \in Threads : held[t] \subseteq Rooted
  BY Roots
<1>6. slot \in InHeap => slot \in Rooted
  BY <1>1, Roots
<1>7. ASSUME NEW a \in m, field[a] \in InHeap PROVE field[a] \in m
  <2>1. a \in InHeap /\ a \in ReachFrom(Found \union old, InHeap) /\ field[a] # Nil
    BY <1>1, <1>7
  <2>2. \A C \in SUBSET Blocks : (Found \union old) \subseteq C /\ ClosedUnder(C, InHeap) => field[a] \in C
    BY <2>1 DEF ReachFrom, ClosedUnder
  <2>3. QED
    BY <1>1, <1>7, <2>2 DEF ReachFrom
<1>8. QED
  BY <1>3, <1>4, <1>5, <1>6, <1>7

\* A step that leaves all of it alone.
LEMMA AliveInert ==
  ASSUME SomeAlive, UNCHANGED <<field, held, slot, weak, place>>, white' \subseteq white
  PROVE  SomeAlive'
BY DEF SomeAlive, Alive

\* Nothing the program can reach is lost.
LEMMA AliveStep ==
  ASSUME ListInv, SafeInv, Disciplined, Disciplined', [Next]_vars
  PROVE  SomeAlive'
<1> USE NilAssumption DEF progVars, listVars, collVars
<1> PICK K \in SUBSET Blocks : Alive(K)
  BY DEF SafeInv, SomeAlive
<1> SomeAlive
  BY DEF SafeInv
<1>1. ASSUME NEW t \in Threads, Alloc(t) PROVE SomeAlive'
  <2>1. PICK b \in Blocks : /\ place[b] = "free" /\ place' = [place EXCEPT ![b] = "heap"]
                            /\ field' = [field EXCEPT ![b] = Nil] /\ held' = [held EXCEPT ![t] = @ \union {b}]
    BY <1>1 DEF Alloc
  <2>2. UNCHANGED <<slot, white, weak>>
    BY <1>1 DEF Alloc
  <2>3. b \notin K /\ weak[b] = Nil /\ b \notin white
    BY <2>1 DEF Alive, ListInv, Whites, SafeInv, WeakInHeap
  <2>4. Alive(K \cup {b})'
    BY <2>1, <2>2, <2>3 DEF Alive, ListInv, TypeOK
  <2>5. QED
    BY <2>4 DEF SomeAlive
<1>2. ASSUME NEW t \in Threads, Store(t) PROVE SomeAlive'
  <2>1. (\E a \in held[t], v \in held[t] \union {Nil} : field' = [field EXCEPT ![a] = v]) /\ UNCHANGED <<held, slot, weak, white, place>>
    BY <1>2 DEF Store
  <2>2. Alive(K)'
    BY <2>1 DEF Alive, ListInv, TypeOK
  <2>3. QED
    BY <2>2 DEF SomeAlive
<1>3. ASSUME NEW t \in Threads, Load(t) PROVE SomeAlive'
  <2>1. (\E a \in held[t] : field[a] # Nil /\ held' = [held EXCEPT ![t] = @ \union {field[a]}]) /\ UNCHANGED <<field, slot, weak, white, place>>
    BY <1>3 DEF Load
  <2>2. Alive(K)'
    BY <2>1 DEF Alive, ListInv, TypeOK
  <2>3. QED
    BY <2>2 DEF SomeAlive
<1>4. ASSUME NEW t \in Threads, LoadSlot(t) PROVE SomeAlive'
  <2>1. slot # Nil /\ held' = [held EXCEPT ![t] = @ \union {slot}] /\ UNCHANGED <<field, slot, weak, white, place>>
    BY <1>4 DEF LoadSlot
  <2>2. Alive(K)'
    BY <2>1 DEF Alive, ListInv, TypeOK
  <2>3. QED
    BY <2>2 DEF SomeAlive
<1>5. ASSUME NEW t \in Threads, ClearSlot(t) PROVE SomeAlive'
  <2>1. slot' = Nil /\ UNCHANGED <<field, held, weak, white, place>>
    BY <1>5 DEF ClearSlot
  <2>2. Alive(K)'
    BY <2>1 DEF Alive, ListInv, TypeOK
  <2>3. QED
    BY <2>2 DEF SomeAlive
<1>6. ASSUME NEW t \in Threads, Forget(t) PROVE SomeAlive'
  <2>1. (\E b \in held[t] : held' = [held EXCEPT ![t] = @ \ {b}]) /\ UNCHANGED <<field, slot, weak, white, place>>
    BY <1>6 DEF Forget
  <2>2. Alive(K)'
    BY <2>1 DEF Alive, ListInv, TypeOK
  <2>3. QED
    BY <2>2 DEF SomeAlive
<1>7. ASSUME NEW t \in Threads, hao_weak_register(t) PROVE SomeAlive'
  <2>1. (\E w, r \in held[t] : weak' = [weak EXCEPT ![w] = r]) /\ UNCHANGED <<field, held, slot, white, place>>
    BY <1>7 DEF hao_weak_register
  <2>2. Alive(K)'
    BY <2>1 DEF Alive, ListInv, TypeOK
  <2>3. QED
    BY <2>2 DEF SomeAlive
<1>8. ASSUME NEW t \in Threads, hao_weak_get(t) PROVE SomeAlive'
  <2>1. (\E w \in held[t] : weak[w] # Nil /\ held' = [held EXCEPT ![t] = @ \union {weak[w]}]) /\ UNCHANGED <<field, slot, weak, white, place>>
    BY <1>8 DEF hao_weak_get
  <2>2. Alive(K)'
    BY <2>1 DEF Alive, ListInv, TypeOK
  <2>3. QED
    BY <2>2 DEF SomeAlive
<1>9. ASSUME NEW t \in Threads, SetFinalizerEnter(t) PROVE SomeAlive'
  <2>1. UNCHANGED <<field, held, slot, weak, place>> /\ white' \subseteq white
    BY <1>9 DEF SetFinalizerEnter
  <2>2. QED
    BY <2>1, AliveInert
<1>10. ASSUME NEW t \in Threads, SetFinalizerLock(t) PROVE SomeAlive'
  <2>1. UNCHANGED <<field, held, slot, weak, place>> /\ white' \subseteq white
    BY <1>10 DEF SetFinalizerLock
  <2>2. QED
    BY <2>1, AliveInert
<1>11. ASSUME NEW t \in Threads, SetFinalizer(t) PROVE SomeAlive'
  <2>1. UNCHANGED <<field, held, slot, weak, place>> /\ white' \subseteq white
    BY <1>11 DEF SetFinalizer
  <2>2. QED
    BY <2>1, AliveInert
<1>12. ASSUME NEW t \in Threads, SetFinalizerUnlock(t) PROVE SomeAlive'
  <2>1. UNCHANGED <<field, held, slot, weak, place>> /\ white' \subseteq white
    BY <1>12 DEF SetFinalizerUnlock
  <2>2. QED
    BY <2>1, AliveInert
<1>13. ASSUME NEW b \in Blocks, RunFinalizer(b) PROVE SomeAlive'
  <2>1. /\ place[b] = "pending" /\ place' = [place EXCEPT ![b] = "called"] /\ slot' \in {slot, b}
        /\ UNCHANGED <<field, held, weak, white>>
    BY <1>13 DEF RunFinalizer
  <2>2. place'[b] = "called"
    BY <2>1 DEF ListInv, TypeOK
  <2>3. field[b] = Nil /\ weak[b] = Nil /\ b \notin white
    BY <2>1, <2>2 DEF Disciplined, HandlesAreLeaves, NoWeakInFinalizer, ListInv, Whites
  <2>4. Alive(K \cup {b})'
    BY <2>1, <2>2, <2>3 DEF Alive, ListInv, TypeOK
  <2>5. QED
    BY <2>4 DEF SomeAlive
<1>14. ASSUME NEW b \in Blocks, AfterFinalizer(b) PROVE SomeAlive'
  <2>1. /\ place[b] = "called" /\ UNCHANGED <<field, held, slot, white, weak>>
    BY <1>14 DEF AfterFinalizer
  <2>2. CASE gc_user_still_reachable_locked(b)
    <3>1. place' = [place EXCEPT ![b] = "heap"]
      BY <1>14, <2>2 DEF AfterFinalizer
    <3>2. Alive(K)'
      BY <2>1, <3>1 DEF Alive, ListInv, TypeOK
    <3>3. QED
      BY <3>2 DEF SomeAlive
  <2>3. CASE ~gc_user_still_reachable_locked(b)
    <3>1. place' = [place EXCEPT ![b] = "free"]
      BY <1>14, <2>3 DEF AfterFinalizer
    <3>2. (\A t \in Threads : b \notin held[t]) /\ slot # b /\ \A a \in Blocks : place[a] = "heap" => field[a] # b
      BY <2>3, Roots DEF gc_user_still_reachable_locked, InHeap
    <3>3. \A a \in K : place[a] = "called" => field[a] = Nil
      BY DEF Disciplined, HandlesAreLeaves
    <3>4. \A a \in K : weak[a] # b
      BY <2>1 DEF Disciplined, NoWeakInFinalizer
    <3>5. Alive(K \ {b})'
      BY <2>1, <3>1, <3>2, <3>3, <3>4 DEF Alive, ListInv, TypeOK
    <3>6. QED
      BY <3>5 DEF SomeAlive
  <2>4. QED
    BY <2>2, <2>3
<1>15. CASE MarkEnds
  <2>1. PICK old \in SUBSET (InHeap \ Found) :
          LET n == ReachFrom(Found \union old, InHeap) \intersect InHeap IN
          white' = InHeap \ n /\ weak' = KeepMarkedReferents(n)
    BY <1>15 DEF MarkEnds
  <2> DEFINE m == ReachFrom(Found \union old, InHeap) \intersect InHeap
  <2>2. /\ m \subseteq InHeap
        /\ \A t \in Threads : held[t] \intersect InHeap \subseteq m
        /\ slot \in InHeap => slot \in m
        /\ \A a \in m : field[a] \in InHeap => field[a] \in m
    BY Marked
  <2>3. white' = InHeap \ m /\ weak' = KeepMarkedReferents(m)
    BY <2>1
  <2>4. UNCHANGED <<field, held, slot, place>>
    BY <1>15 DEF MarkEnds
  <2> HIDE DEF m
  <2>5. weak' \in [Blocks -> Blocks \cup {Nil}] /\ \A a \in Blocks : weak'[a] # Nil => weak'[a] = weak[a] /\ weak'[a] \in m
    BY <2>3 DEF KeepMarkedReferents, ListInv, TypeOK
  <2> DEFINE M == {a \in K : a \in m \/ place[a] = "called"}
  <2>6. \A a \in K : a \in InHeap \/ place[a] = "called"
    BY DEF Alive, InHeap
  <2>7. \A a \in K : place[a] = "called" => field[a] = Nil /\ a \notin InHeap
    BY DEF Disciplined, HandlesAreLeaves, InHeap
  <2>8. \A t \in Threads : held'[t] \subseteq M
    BY <2>2, <2>4, <2>6 DEF Alive
  <2>9. slot' # Nil => slot' \in M
    BY <2>2, <2>4, <2>6 DEF Alive
  <2>10. \A a \in M : field'[a] # Nil => field'[a] \in M
    <3> SUFFICES ASSUME NEW a \in M, field[a] # Nil PROVE field[a] \in M
      BY <2>4
    <3>1. a \in m /\ field[a] \in K
      BY <2>7 DEF Alive
    <3>2. QED
      BY <2>2, <2>6, <3>1
  <2>11. \A a \in M : weak'[a] # Nil => weak'[a] \in M
    BY <2>5 DEF Alive
  <2>12. \A a \in M : place'[a] \in {"heap", "called"} /\ a \notin white'
    BY <2>3, <2>4, <2>7 DEF Alive
  <2>13. M \in SUBSET Blocks
    OBVIOUS
  <2> HIDE DEF M
  <2>14. PICK N \in SUBSET Blocks : N = M
    BY <2>13
  <2>15. Alive(N)'
    BY <2>8, <2>9, <2>10, <2>11, <2>12, <2>14 DEF Alive
  <2>16. QED
    BY <2>15 DEF SomeAlive
<1>16. CASE SweepBegins
  <2>1. UNCHANGED <<field, held, slot, weak, place>> /\ white' \subseteq white
    BY <1>16 DEF SweepBegins
  <2>2. QED
    BY <2>1, AliveInert
<1>17. CASE SweepKeep
  <2>1. UNCHANGED <<field, held, slot, weak, place>> /\ white' \subseteq white
    BY <1>17 DEF SweepKeep
  <2>2. QED
    BY <2>1, AliveInert
<1>18. CASE SweepUnlink
  <2>1. /\ Cursor \in DOMAIN gc_heap /\ gc_heap[Cursor] \in Blocks /\ gc_heap[Cursor] \notin marked /\ pc = "sweep"
        /\ place' = [place EXCEPT ![gc_heap[Cursor]] = "doomed"] /\ UNCHANGED <<field, held, slot, weak, white>>
    BY <1>18, AtCursor, CursorAt DEF SweepUnlink, Sweeping
  <2>2. gc_heap[Cursor] \in white
    BY <2>1, CursorAt DEF SafeInv, Ahead
  <2>3. gc_heap[Cursor] \notin K
    BY <2>2 DEF Alive
  <2>4. Alive(K)'
    BY <2>1, <2>3 DEF Alive, ListInv, TypeOK
  <2>5. QED
    BY <2>4 DEF SomeAlive
<1>19. CASE SweepEnds
  <2>1. UNCHANGED <<field, held, slot, weak, place>> /\ white' \subseteq white
    BY <1>19 DEF SweepEnds
  <2>2. QED
    BY <2>1, AliveInert
<1>20. CASE Drain
  <2>1. PICK b \in Blocks : place[b] = "doomed" /\ place' = [place EXCEPT ![b] = IF b \in finalizer THEN "pending" ELSE "free"]
    BY <1>20 DEF Drain
  <2>2. UNCHANGED <<field, held, slot, weak, white>>
    BY <1>20 DEF Drain
  <2>3. Alive(K)'
    BY <2>1, <2>2 DEF Alive, ListInv, TypeOK
  <2>4. QED
    BY <2>3 DEF SomeAlive
<1>21. CASE DrainEnds
  <2>1. UNCHANGED <<field, held, slot, weak, place>> /\ white' \subseteq white
    BY <1>21 DEF DrainEnds
  <2>2. QED
    BY <2>1, AliveInert
<1>22. CASE Yield
  <2>1. UNCHANGED <<field, held, slot, weak, place>> /\ white' \subseteq white
    BY <1>22 DEF Yield
  <2>2. QED
    BY <2>1, AliveInert
<1>23. CASE Relock
  <2>1. UNCHANGED <<field, held, slot, weak, place>> /\ white' \subseteq white
    BY <1>23 DEF Relock
  <2>2. QED
    BY <2>1, AliveInert
<1>24. CASE UNCHANGED vars
  <2>1. UNCHANGED <<field, held, slot, weak, place>> /\ white' \subseteq white
    BY <1>24 DEF vars
  <2>2. QED
    BY <2>1, AliveInert
<1>25. QED
  BY <1>1, <1>2, <1>3, <1>4, <1>5, <1>6, <1>7, <1>8, <1>9, <1>10, <1>11, <1>12, <1>13, <1>14, <1>15, <1>16, <1>17, <1>18, <1>19, <1>20, <1>21, <1>22, <1>23, <1>24 DEF Next, Collector, Program

\* A weak object in the table is not unlinked, freed or being finalized.
LEMMA WeakStep ==
  ASSUME ListInv, SafeInv, Disciplined, Disciplined', [Next]_vars
  PROVE  WeakInHeap'
<1> USE NilAssumption DEF progVars, listVars, collVars, WeakInHeap
<1> WeakInHeap
  BY DEF SafeInv
<1>1. ASSUME NEW t \in Threads, Alloc(t) PROVE WeakInHeap'
  <2>1. PICK b \in Blocks : place[b] = "free" /\ place' = [place EXCEPT ![b] = "heap"]
    BY <1>1 DEF Alloc
  <2>2. UNCHANGED <<weak, white>>
    BY <1>1 DEF Alloc
  <2>3. QED
    BY <2>1, <2>2 DEF ListInv, TypeOK
<1>2. ASSUME NEW t \in Threads, Store(t) PROVE WeakInHeap'
  <2>1. UNCHANGED <<weak, place>> /\ white' \subseteq white
    BY <1>2 DEF Store
  <2>2. QED
    BY <2>1
<1>3. ASSUME NEW t \in Threads, Load(t) PROVE WeakInHeap'
  <2>1. UNCHANGED <<weak, place>> /\ white' \subseteq white
    BY <1>3 DEF Load
  <2>2. QED
    BY <2>1
<1>4. ASSUME NEW t \in Threads, LoadSlot(t) PROVE WeakInHeap'
  <2>1. UNCHANGED <<weak, place>> /\ white' \subseteq white
    BY <1>4 DEF LoadSlot
  <2>2. QED
    BY <2>1
<1>5. ASSUME NEW t \in Threads, ClearSlot(t) PROVE WeakInHeap'
  <2>1. UNCHANGED <<weak, place>> /\ white' \subseteq white
    BY <1>5 DEF ClearSlot
  <2>2. QED
    BY <2>1
<1>6. ASSUME NEW t \in Threads, Forget(t) PROVE WeakInHeap'
  <2>1. UNCHANGED <<weak, place>> /\ white' \subseteq white
    BY <1>6 DEF Forget
  <2>2. QED
    BY <2>1
<1>7. ASSUME NEW t \in Threads, hao_weak_register(t) PROVE WeakInHeap'
  <2>1. PICK w, r \in held[t] : weak' = [weak EXCEPT ![w] = r]
    BY <1>7 DEF hao_weak_register
  <2>2. UNCHANGED <<place, white>>
    BY <1>7 DEF hao_weak_register
  <2>3. w \in Blocks /\ r \in Blocks /\ place[w] \in {"heap", "called"} /\ w \notin white
    BY <2>1 DEF SafeInv, SomeAlive, Alive
  <2>4. weak'[w] # Nil
    BY <2>1, <2>3 DEF ListInv, TypeOK
  <2>5. place[w] = "heap"
    BY <2>2, <2>3, <2>4 DEF Disciplined, NoWeakInFinalizer
  <2>6. QED
    BY <2>1, <2>2, <2>3, <2>5 DEF ListInv, TypeOK
<1>8. ASSUME NEW t \in Threads, hao_weak_get(t) PROVE WeakInHeap'
  <2>1. UNCHANGED <<weak, place>> /\ white' \subseteq white
    BY <1>8 DEF hao_weak_get
  <2>2. QED
    BY <2>1
<1>9. ASSUME NEW t \in Threads, SetFinalizerEnter(t) PROVE WeakInHeap'
  <2>1. UNCHANGED <<weak, place>> /\ white' \subseteq white
    BY <1>9 DEF SetFinalizerEnter
  <2>2. QED
    BY <2>1
<1>10. ASSUME NEW t \in Threads, SetFinalizerLock(t) PROVE WeakInHeap'
  <2>1. UNCHANGED <<weak, place>> /\ white' \subseteq white
    BY <1>10 DEF SetFinalizerLock
  <2>2. QED
    BY <2>1
<1>11. ASSUME NEW t \in Threads, SetFinalizer(t) PROVE WeakInHeap'
  <2>1. UNCHANGED <<weak, place>> /\ white' \subseteq white
    BY <1>11 DEF SetFinalizer
  <2>2. QED
    BY <2>1
<1>12. ASSUME NEW t \in Threads, SetFinalizerUnlock(t) PROVE WeakInHeap'
  <2>1. UNCHANGED <<weak, place>> /\ white' \subseteq white
    BY <1>12 DEF SetFinalizerUnlock
  <2>2. QED
    BY <2>1
<1>13. ASSUME NEW b \in Blocks, RunFinalizer(b) PROVE WeakInHeap'
  <2>1. place[b] = "pending" /\ place' = [place EXCEPT ![b] = "called"] /\ UNCHANGED <<weak, white>>
    BY <1>13 DEF RunFinalizer
  <2>2. QED
    BY <2>1 DEF ListInv, TypeOK
<1>14. ASSUME NEW b \in Blocks, AfterFinalizer(b) PROVE WeakInHeap'
  <2>1. place[b] = "called" /\ UNCHANGED <<weak, white>> /\ \E x : place' = [place EXCEPT ![b] = x]
    BY <1>14 DEF AfterFinalizer
  <2>2. QED
    BY <2>1 DEF ListInv, TypeOK
<1>15. CASE MarkEnds
  <2>1. PICK m : m \subseteq InHeap /\ white' = InHeap \ m /\ weak' = KeepMarkedReferents(m)
    BY <1>15 DEF MarkEnds
  <2>2. \A a \in Blocks : weak'[a] # Nil => a \in m
    BY <2>1 DEF KeepMarkedReferents
  <2>3. place' = place
    BY <1>15 DEF MarkEnds
  <2>4. QED
    BY <2>1, <2>2, <2>3 DEF InHeap
<1>16. CASE SweepBegins
  <2>1. UNCHANGED <<weak, place>> /\ white' \subseteq white
    BY <1>16 DEF SweepBegins
  <2>2. QED
    BY <2>1
<1>17. CASE SweepKeep
  <2>1. UNCHANGED <<weak, place>> /\ white' \subseteq white
    BY <1>17 DEF SweepKeep
  <2>2. QED
    BY <2>1
<1>18. CASE SweepUnlink
  <2>1. /\ Cursor \in DOMAIN gc_heap /\ gc_heap[Cursor] \in Blocks /\ gc_heap[Cursor] \notin marked /\ pc = "sweep"
        /\ place' = [place EXCEPT ![gc_heap[Cursor]] = "doomed"] /\ UNCHANGED <<weak, white>>
    BY <1>18, AtCursor, CursorAt DEF SweepUnlink, Sweeping
  <2>2. gc_heap[Cursor] \in white
    BY <2>1, CursorAt DEF SafeInv, Ahead
  <2>3. QED
    BY <2>1, <2>2 DEF ListInv, TypeOK
<1>19. CASE SweepEnds
  <2>1. UNCHANGED <<weak, place>> /\ white' \subseteq white
    BY <1>19 DEF SweepEnds
  <2>2. QED
    BY <2>1
<1>20. CASE Drain
  <2>1. PICK b \in Blocks : place[b] = "doomed" /\ place' = [place EXCEPT ![b] = IF b \in finalizer THEN "pending" ELSE "free"]
    BY <1>20 DEF Drain
  <2>2. UNCHANGED <<weak, white>>
    BY <1>20 DEF Drain
  <2>3. QED
    BY <2>1, <2>2 DEF ListInv, TypeOK
<1>21. CASE DrainEnds
  <2>1. UNCHANGED <<weak, place>> /\ white' \subseteq white
    BY <1>21 DEF DrainEnds
  <2>2. QED
    BY <2>1
<1>22. CASE Yield
  <2>1. UNCHANGED <<weak, place>> /\ white' \subseteq white
    BY <1>22 DEF Yield
  <2>2. QED
    BY <2>1
<1>23. CASE Relock
  <2>1. UNCHANGED <<weak, place>> /\ white' \subseteq white
    BY <1>23 DEF Relock
  <2>2. QED
    BY <2>1
<1>24. CASE UNCHANGED vars
  <2>1. UNCHANGED <<weak, place>> /\ white' \subseteq white
    BY <1>24 DEF vars
  <2>2. QED
    BY <2>1
<1>25. QED
  BY <1>1, <1>2, <1>3, <1>4, <1>5, <1>6, <1>7, <1>8, <1>9, <1>10, <1>11, <1>12, <1>13, <1>14, <1>15, <1>16, <1>17, <1>18, <1>19, <1>20, <1>21, <1>22, <1>23, <1>24 DEF Next, Collector, Program

\* A thread that has the mutex is inside set_finalizer.
LEMMA LockStep ==
  ASSUME ListInv, SafeInv, Disciplined, [Next]_vars
  PROVE  NoLockOutside'
<1> USE NilAssumption, GCAssumption DEF progVars, listVars, collVars, NoLockOutside
<1> NoLockOutside /\ fin \in [Threads -> [at : {"none", "lock", "set", "unlock"}, b : Blocks \union {Nil}]]
  BY DEF SafeInv, ListInv, TypeOK
<1>1. ASSUME NEW t \in Threads, Alloc(t) PROVE NoLockOutside'
  BY <1>1 DEF Alloc
<1>2. ASSUME NEW t \in Threads, Store(t) PROVE NoLockOutside'
  BY <1>2 DEF Store
<1>3. ASSUME NEW t \in Threads, Load(t) PROVE NoLockOutside'
  BY <1>3 DEF Load
<1>4. ASSUME NEW t \in Threads, LoadSlot(t) PROVE NoLockOutside'
  BY <1>4 DEF LoadSlot
<1>5. ASSUME NEW t \in Threads, ClearSlot(t) PROVE NoLockOutside'
  BY <1>5 DEF ClearSlot
<1>6. ASSUME NEW t \in Threads, Forget(t) PROVE NoLockOutside'
  BY <1>6 DEF Forget
<1>7. ASSUME NEW t \in Threads, hao_weak_register(t) PROVE NoLockOutside'
  BY <1>7 DEF hao_weak_register
<1>8. ASSUME NEW t \in Threads, hao_weak_get(t) PROVE NoLockOutside'
  BY <1>8 DEF hao_weak_get
<1>9. ASSUME NEW t \in Threads, SetFinalizerEnter(t) PROVE NoLockOutside'
  BY <1>9 DEF SetFinalizerEnter, NoFin
<1>10. ASSUME NEW t \in Threads, SetFinalizerLock(t) PROVE NoLockOutside'
  BY <1>10 DEF SetFinalizerLock
<1>11. ASSUME NEW t \in Threads, SetFinalizer(t) PROVE NoLockOutside'
  BY <1>11 DEF SetFinalizer
<1>12. ASSUME NEW t \in Threads, SetFinalizerUnlock(t) PROVE NoLockOutside'
  <2>1. fin[t].at = "unlock" /\ lock' = (IF gc_in_collect THEN lock ELSE Nil) /\ fin' = [fin EXCEPT ![t] = NoFin]
    BY <1>12 DEF SetFinalizerUnlock
  <2>2. gc_in_collect => lock # t
    BY <2>1 DEF Disciplined, NoTornFinalizer
  <2>3. QED
    BY <2>1, <2>2
<1>13. ASSUME NEW b \in Blocks, RunFinalizer(b) PROVE NoLockOutside'
  BY <1>13 DEF RunFinalizer
<1>14. ASSUME NEW b \in Blocks, AfterFinalizer(b) PROVE NoLockOutside'
  BY <1>14 DEF AfterFinalizer
<1>15. CASE MarkEnds
  BY <1>15 DEF MarkEnds
<1>16. CASE SweepBegins
  BY <1>16 DEF SweepBegins
<1>17. CASE SweepKeep
  BY <1>17 DEF SweepKeep
<1>18. CASE SweepUnlink
  BY <1>18 DEF SweepUnlink
<1>19. CASE SweepEnds
  BY <1>19 DEF SweepEnds
<1>20. CASE Drain
  BY <1>20 DEF Drain
<1>21. CASE DrainEnds
  BY <1>21 DEF DrainEnds
<1>22. CASE Yield
  BY <1>22 DEF Yield
<1>23. CASE Relock
  BY <1>23 DEF Relock
<1>24. CASE UNCHANGED vars
  BY <1>24 DEF vars
<1>25. QED
  BY <1>1, <1>2, <1>3, <1>4, <1>5, <1>6, <1>7, <1>8, <1>9, <1>10, <1>11, <1>12, <1>13, <1>14, <1>15, <1>16, <1>17, <1>18, <1>19, <1>20, <1>21, <1>22, <1>23, <1>24 DEF Next, Collector, Program

\* A step that touches neither the list nor its marks.
LEMMA AheadInert ==
  ASSUME Ahead, UNCHANGED <<gc_heap, prev, pc, marked, white>>, pc = "begin" => lock' = lock /\ InHeap' = InHeap
  PROVE  Ahead'
<1>1. Cursor' = Cursor
  BY DEF Cursor
<1>2. QED
  BY <1>1 DEF Ahead

\* A block linked at the head while the sweep pauses is behind it.
LEMMA AheadLinked ==
  ASSUME ListInv, SafeInv, Disciplined, NEW b \in Blocks, place[b] # "heap", lock = Nil,
         gc_heap' = <<b>> \o gc_heap, place' = [place EXCEPT ![b] = "heap"], prev' = prev, pc' = pc,
         marked' = marked \ {b}, white' = white
  PROVE  Ahead'
<1>1. pc # "begin"
  BY NilAssumption DEF SafeInv, Ahead
<1>2. ASSUME pc = "sweep", NEW i \in DOMAIN gc_heap', i >= Cursor' PROVE gc_heap'[i] \in marked' \cup white'
  <2>1. /\ DOMAIN gc_heap = 1 .. Len(gc_heap) /\ DOMAIN gc_heap' = 1 .. Len(gc_heap) + 1 /\ Len(gc_heap) \in Nat
        /\ \A j \in 1 .. Len(gc_heap) : gc_heap'[j + 1] = gc_heap[j]
        /\ prev # Nil => Cursor' = Cursor + 1
    BY Linked
  <2>2. prev # Nil
    BY <1>2, NilAssumption DEF Disciplined, NoPauseAtHead
  <2>3. Cursor \in Nat \ {0}
    BY CursorAt
  <2>4. i - 1 \in 1 .. Len(gc_heap) /\ i - 1 >= Cursor /\ (i - 1) + 1 = i
    BY <1>2, <2>1, <2>2, <2>3
  <2>5. gc_heap'[i] = gc_heap[i - 1]
    BY <2>1, <2>4
  <2>6. gc_heap[i - 1] \in marked \cup white
    BY <1>2, <2>1, <2>4 DEF SafeInv, Ahead
  <2>7. gc_heap[i - 1] \in ToSet(gc_heap)
    BY <2>1, <2>4 DEF ToSet
  <2>8. gc_heap[i - 1] # b
    BY <2>7 DEF ListInv, TypeOK
  <2>9. QED
    BY <2>5, <2>6, <2>8
<1>3. QED
  BY <1>1, <1>2 DEF Ahead

\* Whatever the sweep has yet to pass was there when marking ended.
LEMMA AheadStep ==
  ASSUME ListInv, SafeInv, Disciplined, [Next]_vars
  PROVE  Ahead'
<1> USE NilAssumption, GCAssumption DEF progVars, listVars, collVars
<1> Ahead
  BY DEF SafeInv
<1>1. ASSUME NEW t \in Threads, Alloc(t) PROVE Ahead'
  <2>1. PICK b \in Blocks : place[b] = "free" /\ place' = [place EXCEPT ![b] = "heap"] /\ gc_heap' = <<b>> \o gc_heap /\ marked' = marked \ {b}
    BY <1>1 DEF Alloc
  <2>2. lock = Nil /\ UNCHANGED <<prev, pc, white>>
    BY <1>1 DEF Alloc
  <2>3. QED
    BY <2>1, <2>2, AheadLinked
<1>2. ASSUME NEW t \in Threads, Store(t) PROVE Ahead'
  <2>1. UNCHANGED <<gc_heap, prev, pc, marked, white, lock, place>>
    BY <1>2 DEF Store
  <2>2. InHeap' = InHeap
    BY <2>1 DEF InHeap
  <2>3. QED
    BY <2>1, <2>2, AheadInert
<1>3. ASSUME NEW t \in Threads, Load(t) PROVE Ahead'
  <2>1. UNCHANGED <<gc_heap, prev, pc, marked, white, lock, place>>
    BY <1>3 DEF Load
  <2>2. InHeap' = InHeap
    BY <2>1 DEF InHeap
  <2>3. QED
    BY <2>1, <2>2, AheadInert
<1>4. ASSUME NEW t \in Threads, LoadSlot(t) PROVE Ahead'
  <2>1. UNCHANGED <<gc_heap, prev, pc, marked, white, lock, place>>
    BY <1>4 DEF LoadSlot
  <2>2. InHeap' = InHeap
    BY <2>1 DEF InHeap
  <2>3. QED
    BY <2>1, <2>2, AheadInert
<1>5. ASSUME NEW t \in Threads, ClearSlot(t) PROVE Ahead'
  <2>1. UNCHANGED <<gc_heap, prev, pc, marked, white, lock, place>>
    BY <1>5 DEF ClearSlot
  <2>2. InHeap' = InHeap
    BY <2>1 DEF InHeap
  <2>3. QED
    BY <2>1, <2>2, AheadInert
<1>6. ASSUME NEW t \in Threads, Forget(t) PROVE Ahead'
  <2>1. UNCHANGED <<gc_heap, prev, pc, marked, white, lock, place>>
    BY <1>6 DEF Forget
  <2>2. InHeap' = InHeap
    BY <2>1 DEF InHeap
  <2>3. QED
    BY <2>1, <2>2, AheadInert
<1>7. ASSUME NEW t \in Threads, hao_weak_register(t) PROVE Ahead'
  <2>1. UNCHANGED <<gc_heap, prev, pc, marked, white, lock, place>>
    BY <1>7 DEF hao_weak_register
  <2>2. InHeap' = InHeap
    BY <2>1 DEF InHeap
  <2>3. QED
    BY <2>1, <2>2, AheadInert
<1>8. ASSUME NEW t \in Threads, hao_weak_get(t) PROVE Ahead'
  <2>1. UNCHANGED <<gc_heap, prev, pc, marked, white, lock, place>>
    BY <1>8 DEF hao_weak_get
  <2>2. InHeap' = InHeap
    BY <2>1 DEF InHeap
  <2>3. QED
    BY <2>1, <2>2, AheadInert
<1>9. ASSUME NEW t \in Threads, SetFinalizerEnter(t) PROVE Ahead'
  <2>1. UNCHANGED <<gc_heap, prev, pc, marked, white, lock, place>>
    BY <1>9 DEF SetFinalizerEnter
  <2>2. InHeap' = InHeap
    BY <2>1 DEF InHeap
  <2>3. QED
    BY <2>1, <2>2, AheadInert
<1>10. ASSUME NEW t \in Threads, SetFinalizerLock(t) PROVE Ahead'
  <2>1. UNCHANGED <<gc_heap, prev, pc, marked, white, place>>
    BY <1>10 DEF SetFinalizerLock
  <2>2. pc # "begin"
    BY <1>10 DEF SetFinalizerLock, Ahead
  <2>3. QED
    BY <2>1, <2>2, AheadInert
<1>11. ASSUME NEW t \in Threads, SetFinalizer(t) PROVE Ahead'
  <2>1. UNCHANGED <<gc_heap, prev, pc, marked, white, lock, place>>
    BY <1>11 DEF SetFinalizer
  <2>2. InHeap' = InHeap
    BY <2>1 DEF InHeap
  <2>3. QED
    BY <2>1, <2>2, AheadInert
<1>12. ASSUME NEW t \in Threads, SetFinalizerUnlock(t) PROVE Ahead'
  <2>1. UNCHANGED <<gc_heap, prev, pc, marked, white, place>>
    BY <1>12 DEF SetFinalizerUnlock
  <2>2. fin[t].at = "unlock"
    BY <1>12 DEF SetFinalizerUnlock
  <2>3. pc # "begin"
    BY <2>2 DEF Ahead, Disciplined, NoTornFinalizer, ListInv, Flag
  <2>4. QED
    BY <2>1, <2>3, AheadInert
<1>13. ASSUME NEW b \in Blocks, RunFinalizer(b) PROVE Ahead'
  <2>1. UNCHANGED <<gc_heap, prev, pc, marked, white, lock>>
    BY <1>13 DEF RunFinalizer
  <2>2. InHeap' = InHeap
    BY <1>13 DEF RunFinalizer, InHeap, ListInv, TypeOK
  <2>3. QED
    BY <2>1, <2>2, AheadInert
<1>14. ASSUME NEW b \in Blocks, AfterFinalizer(b) PROVE Ahead'
  <2>1. lock = Nil /\ place[b] = "called" /\ UNCHANGED <<prev, pc, white, lock>>
    BY <1>14 DEF AfterFinalizer
  <2>2. CASE gc_user_still_reachable_locked(b)
    <3>1. gc_heap' = <<b>> \o gc_heap /\ place' = [place EXCEPT ![b] = "heap"] /\ marked' = marked \ {b}
      BY <1>14, <2>2 DEF AfterFinalizer
    <3>2. QED
      BY <2>1, <3>1, AheadLinked
  <2>3. CASE ~gc_user_still_reachable_locked(b)
    <3>1. gc_heap' = gc_heap /\ marked' = marked
      BY <1>14, <2>3 DEF AfterFinalizer
    <3>2. pc # "begin"
      BY <2>1 DEF Ahead
    <3>3. QED
      BY <2>1, <3>1, <3>2, AheadInert
  <2>4. QED
    BY <2>2, <2>3
<1>15. CASE MarkEnds
  <2>1. PICK m : marked' = m /\ white' = InHeap \ m
    BY <1>15 DEF MarkEnds
  <2>2. pc' = "begin" /\ lock' = GC /\ place' = place
    BY <1>15 DEF MarkEnds
  <2>3. QED
    BY <2>1, <2>2 DEF Ahead, InHeap
<1>16. CASE SweepBegins
  <2>1. pc = "begin" /\ pc' = "sweep" /\ UNCHANGED <<gc_heap, place, marked, white>>
    BY <1>16 DEF SweepBegins
  <2>2. \A i \in DOMAIN gc_heap : gc_heap[i] \in InHeap
    <3> TAKE i \in DOMAIN gc_heap
    <3>1. gc_heap[i] \in ToSet(gc_heap)
      BY DEF ToSet
    <3>2. QED
      BY <3>1 DEF ListInv, TypeOK, InHeap
  <2>3. QED
    BY <2>1, <2>2 DEF Ahead
<1>17. CASE SweepKeep
  <2>1. Cursor' = Cursor + 1 /\ gc_heap' = gc_heap
    BY <1>17, KeptOne
  <2>2. pc = "sweep" /\ UNCHANGED <<pc, marked, white>>
    BY <1>17 DEF SweepKeep, Sweeping
  <2>3. \A i \in DOMAIN gc_heap : i >= Cursor + 1 => i >= Cursor
    BY CursorAt
  <2>4. QED
    BY <2>1, <2>2, <2>3 DEF Ahead
<1>18. CASE SweepUnlink
  <2>1. /\ DOMAIN gc_heap = 1 .. Len(gc_heap) /\ DOMAIN gc_heap' = 1 .. Len(gc_heap) - 1 /\ Len(gc_heap) \in Nat \ {0}
        /\ \A i \in 1 .. Len(gc_heap) - 1 : gc_heap'[i] = IF i < Cursor THEN gc_heap[i] ELSE gc_heap[i + 1]
        /\ Cursor' = Cursor
    BY <1>18, Unlinked
  <2>2. pc = "sweep" /\ UNCHANGED <<pc, marked, white>>
    BY <1>18 DEF SweepUnlink, Sweeping
  <2>3. Cursor \in Nat
    BY CursorAt
  <2>4. ASSUME NEW i \in DOMAIN gc_heap', i >= Cursor' PROVE gc_heap'[i] \in marked' \cup white'
    <3>1. gc_heap'[i] = gc_heap[i + 1] /\ i + 1 \in DOMAIN gc_heap /\ i + 1 >= Cursor
      BY <2>1, <2>3, <2>4
    <3>2. QED
      BY <2>2, <3>1 DEF Ahead
  <2>5. QED
    BY <2>2, <2>4 DEF Ahead
<1>19. CASE SweepEnds
  BY <1>19 DEF SweepEnds, Ahead
<1>20. CASE Drain
  <2>1. UNCHANGED <<gc_heap, prev, pc, marked, white>> /\ pc # "begin"
    BY <1>20 DEF Drain
  <2>2. QED
    BY <2>1, AheadInert
<1>21. CASE DrainEnds
  BY <1>21 DEF DrainEnds, Ahead
<1>22. CASE Yield
  <2>1. UNCHANGED <<gc_heap, prev, pc, marked, white, place>>
    BY <1>22 DEF Yield
  <2>2. pc # "begin"
    BY <1>22 DEF Yield
  <2>3. QED
    BY <2>1, <2>2, AheadInert
<1>23. CASE Relock
  <2>1. UNCHANGED <<gc_heap, prev, pc, marked, white, place>>
    BY <1>23 DEF Relock
  <2>2. pc # "begin"
    BY <1>23 DEF Relock
  <2>3. QED
    BY <2>1, <2>2, AheadInert
<1>24. CASE UNCHANGED vars
  <2>1. UNCHANGED <<gc_heap, prev, pc, marked, white, lock, place>>
    BY <1>24 DEF vars
  <2>2. InHeap' = InHeap
    BY <2>1 DEF InHeap
  <2>3. QED
    BY <2>1, <2>2, AheadInert
<1>25. QED
  BY <1>1, <1>2, <1>3, <1>4, <1>5, <1>6, <1>7, <1>8, <1>9, <1>10, <1>11, <1>12, <1>13, <1>14, <1>15, <1>16, <1>17, <1>18, <1>19, <1>20, <1>21, <1>22, <1>23, <1>24 DEF Next, Collector, Program

\* While the program keeps to the discipline, all of it holds.
THEOREM SafeInvariant == Spec /\ []Disciplined => []SafeInv
<1>1. Init => SafeInv
  <2> SUFFICES ASSUME Init PROVE SafeInv
    OBVIOUS
  <2>1. Alive({})
    BY DEF Init, Alive
  <2>2. SomeAlive
    BY <2>1 DEF SomeAlive
  <2>3. QED
    BY <2>2, NilAssumption DEF Init, SafeInv, WeakInHeap, Ahead, NoLockOutside
<1>2. ListInv /\ SafeInv /\ Disciplined /\ Disciplined' /\ [Next]_vars => SafeInv'
  BY AliveStep, WeakStep, LockStep, AheadStep DEF SafeInv
<1>3. QED
  BY <1>1, <1>2, ListInvariant, PTL DEF Spec

\* What the program reaches is in any set that holds its roots and is closed.
LEMMA LiveKept ==
  ASSUME NEW K \in SUBSET Blocks, Alive(K)
  PROVE  Live \subseteq K
<1>1. Rooted \subseteq K
  BY Roots DEF Alive
<1>2. ClosedUnder(K, Blocks)
  BY DEF ClosedUnder, Alive
<1>3. QED
  BY <1>1, <1>2 DEF Live, ReachFrom

\* As long as the program keeps to the discipline, no block it can reach is
\* unlinked, queued or freed by a sweep that runs beside it, and whoever comes
\* back from set_finalizer has given the mutex back (gc_sweep_block_list,
\* gc_span_drain_doomed_locked, gc_drain_finalizers, hao_gc_set_finalizer).
THEOREM SweepIsSafe == Spec /\ []Disciplined => []CallersSafe
<1>1. SafeInv => CallersSafe
  <2> SUFFICES ASSUME SafeInv PROVE CallersSafe
    OBVIOUS
  <2>1. PICK K \in SUBSET Blocks : Alive(K)
    BY DEF SafeInv, SomeAlive
  <2>2. NoUseAfterFree
    BY <2>1, LiveKept DEF NoUseAfterFree, Alive
  <2>3. QED
    BY <2>2 DEF SafeInv, CallersSafe
<1>2. QED
  BY <1>1, SafeInvariant, PTL

\* Under the same discipline hao_weak_get never hands out a block that is being
\* freed.
THEOREM WeakIsAlive == Spec /\ []Disciplined => []WeakIsLive
<1>1. SafeInv => WeakIsLive
  <2> SUFFICES ASSUME SafeInv PROVE WeakIsLive
    OBVIOUS
  <2>1. PICK K \in SUBSET Blocks : Alive(K)
    BY DEF SafeInv, SomeAlive
  <2>2. QED
    BY <2>1, LiveKept DEF WeakIsLive, Alive
<1>2. QED
  BY <1>1, SafeInvariant, PTL
=============================================================================

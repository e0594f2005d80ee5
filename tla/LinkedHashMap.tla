--------------------------- MODULE LinkedHashMap ----------------------------
(***************************************************************************)
(* collections/LinkedHashMap.hao: a hash table with linear probing whose   *)
(* entries also hang in a list in the order they were put in.  remove      *)
(* leaves a tombstone, which the next insertion that comes by takes over.  *)
(* HashMap.hao is the same without the list.                               *)
(*                                                                         *)
(* An entry stays in its slot until the table is replaced, so the list is  *)
(* linked by slots.                                                        *)
(***************************************************************************)
EXTENDS Integers, Sequences, SequencesExt, FiniteSetsExt

CONSTANTS
    Keys, Vals, Absent,
    Hashings,       \* the functions hash.hashOf may be on Keys
    InitCap,        \* 16
    MaxCap          \* 1073741823: a table above this does not grow

VARIABLES
    hash,       \* hash.hashOf
    map         \* table, head, tail, count; the capacity is the length of the table
vars == <<hash, map>>

Nil == -1                               \* the end of the list
Free == [key |-> Absent]                \* a slot that never held an entry
IsFree(e) == e = Free
Live(e) == ~IsFree(e) /\ e.occupied
Slots(m) == DOMAIN m.table

Fresh(cap) == [table |-> [i \in 0 .. cap - 1 |-> Free], head |-> Nil, tail |-> Nil, count |-> 0]
Cap(m) == Cardinality(Slots(m))

(* The i-th slot the search for k looks at, and how many it looks at: up   *)
(* to the first free one.                                                  *)
At(m, k, i) == (hash[k] + i) % Cap(m)
Looked(m, k) ==
    LET stops(i) == i = Cap(m) \/ IsFree(m.table[At(m, k, i)])
    IN CHOOSE i \in 0 .. Cap(m) : stops(i) /\ \A j \in 0 .. i - 1 : ~stops(j)
Hits(m, k) == {i \in 0 .. Looked(m, k) - 1 :
                   LET e == m.table[At(m, k, i)] IN Live(e) /\ e.key = k}
Tombs(m, k) == {i \in 0 .. Looked(m, k) - 1 : ~Live(m.table[At(m, k, i)])}

get(m, k) == LET hits == Hits(m, k) IN IF hits = {} THEN Absent ELSE m.table[At(m, k, Min(hits))].val

SetAfter(table, i, s) == IF i = Nil THEN table ELSE [table EXCEPT ![i].after = s]
SetBefore(table, i, s) == IF i = Nil THEN table ELSE [table EXCEPT ![i].before = s]

LinkLast(m, s) ==
    [m EXCEPT !.table = SetAfter([@ EXCEPT ![s].before = m.tail, ![s].after = Nil], m.tail, s),
              !.tail = s, !.head = IF m.tail = Nil THEN s ELSE @]

Detached(m, s) ==
    LET e == m.table[s]
        table == SetBefore(SetAfter(m.table, e.before, e.after), e.after, e.before)
    IN [m EXCEPT !.table = [table EXCEPT ![s].before = Nil, ![s].after = Nil],
                 !.head = IF e.before = Nil THEN e.after ELSE @]

(* Mutant: the tail stays where it is.                                     *)
UnlinkKeepsTail(m, s) == Detached(m, s)

Unlink(m, s) ==
    LET e == m.table[s]
    IN [Detached(m, s) EXCEPT !.tail = IF e.after = Nil THEN e.before ELSE @]

(* insertUnchecked, while the search ends at a hit or a free slot.         *)
Ends(m, k) == Hits(m, k) # {} \/ Looked(m, k) < Cap(m)
Insert(m, k, v) ==
    IF Hits(m, k) # {}
    THEN [m EXCEPT !.table[At(m, k, Min(Hits(m, k)))].val = v]
    ELSE LET s == At(m, k, Min(Tombs(m, k) \cup {Looked(m, k)}))
             e == [key |-> k, val |-> v, occupied |-> TRUE, before |-> Nil, after |-> Nil]
         IN LinkLast([m EXCEPT !.table[s] = e, !.count = @ + 1], s)

(* The list from its head.                                                 *)
Listed(m) ==
    LET from[s \in Slots(m) \cup {Nil}, n \in 0 .. Cap(m)] ==
            IF s = Nil \/ n = 0 THEN <<>> ELSE <<s>> \o from[m.table[s].after, n - 1]
    IN from[m.head, Cap(m)]

(* resize: what is live is inserted again in the order of the list.        *)
Resize(m) ==
    LET live == SelectSeq(Listed(m), LAMBDA s : m.table[s].occupied)
    IN IF Cap(m) > MaxCap THEN m
       ELSE FoldLeft(LAMBDA to, s : Insert(to, m.table[s].key, m.table[s].val), Fresh(2 * Cap(m)), live)

(* put: first the load factor, then the insertion, which grows the table   *)
(* once more if the search met neither the key nor a free slot, and throws *)
(* if that is not possible.                                                *)
put(k, v) ==
    LET loaded(m) == IF m.count * 10 >= Cap(m) * 7 THEN Resize(m) ELSE m
        searched(m) == IF Ends(m, k) THEN m ELSE Resize(m)
        entered(m) == IF Ends(m, k) THEN Insert(m, k, v) ELSE m
    IN map' = entered(searched(loaded(map))) /\ hash' = hash

remove(k) ==
    /\ Hits(map, k) # {}
    /\ LET s == At(map, k, Min(Hits(map, k)))
           m == Unlink([map EXCEPT !.table[s].occupied = FALSE], s)
       IN map' = [m EXCEPT !.count = @ - 1]
    /\ hash' = hash

clear == map' = Fresh(InitCap) /\ hash' = hash

Init == hash \in Hashings /\ map = Fresh(InitCap)
Next == (\E k \in Keys : remove(k) \/ \E v \in Vals : put(k, v)) \/ clear
Spec == Init /\ [][Next]_vars

---------------------------------------------------------------------------
(* Properties.                                                             *)

(* The table answers and the list enumerates as OrderedMap says, whatever  *)
(* collides and wherever tombstones are left, and count is the length that *)
(* keys() makes its array of.                                              *)
Enumerated(m) == FoldLeft(LAMBDA ks, s : Append(ks, m.table[s].key), <<>>, Listed(m))
Ordered == INSTANCE OrderedMap WITH
    order <- Enumerated(map),
    view <- [k \in Keys |-> get(map, k)],
    size <- map.count
ImplementsOrderedMap == Ordered!Spec
=============================================================================

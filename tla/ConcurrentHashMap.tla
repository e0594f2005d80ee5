------------------------- MODULE ConcurrentHashMap --------------------------
(***************************************************************************)
(* collections/ConcurrentHashMap.hao over sync.hao: segments that each     *)
(* have a HashMap and a spin lock in an atomic cell.  An operation on a    *)
(* key locks its segment; one on the whole map locks all of them, in       *)
(* order, and visits them one after another.  unlock stores 0, whoever     *)
(* calls it.  A key's equals or hashCode may throw inside the try, also    *)
(* while put moves the entries to a larger table.  Tables and their load   *)
(* are left out: any insertion may find its table at the load.             *)
(***************************************************************************)
EXTENDS Naturals, FiniteSets

CONSTANTS
    Threads, Keys, Vals, Absent,
    Segs,           \* segments are 1 .. Segs (16 in the code, from 0)
    SegmentOf,      \* segmentOf: a function from Keys
    CallKinds,      \* the operations threads call
    RehashThrows    \* may a key throw while its table is rehashed?

VARIABLES
    cell,       \* the atomic cell of a segment
    maps,       \* the HashMap of a segment
    op          \* per thread: what was called, at: how far it is, seg: where, out: its result
vars == <<cell, maps, op>>

NoCall == [k |-> "none"]
Idle == [call |-> NoCall, at |-> "idle", seg |-> 1, out |-> {}]
Calls ==
    {[k |-> k, key |-> x, val |-> v] : k \in CallKinds \cap {"put", "putIfAbsent"}, x \in Keys, v \in Vals}
    \cup {[k |-> k, key |-> x] : k \in CallKinds \cap {"get", "remove"}, x \in Keys}
    \cup {[k |-> k] : k \in CallKinds \cap {"keys", "clear"}}

Whole(c) == c.k \in {"keys", "clear"}
First(c) == IF Whole(c) THEN 1 ELSE SegmentOf[c.key]
LastOf(c) == IF Whole(c) THEN Segs ELSE SegmentOf[c.key]

At(t, place) == op[t].at = place
Step(t, place, seg, out) ==
    op' = [op EXCEPT ![t] = [@ EXCEPT !.at = place, !.seg = seg, !.out = out]]

Begin(t, c) ==
    /\ At(t, "idle")
    /\ op' = [op EXCEPT ![t] = [call |-> c, at |-> "lock", seg |-> First(c), out |-> {}]]
    /\ UNCHANGED <<cell, maps>>

(* Mutant: only the first segment is locked for the whole map.             *)
LockFirst(t) ==
    LET c == op[t].call
        s == op[t].seg
    IN /\ At(t, "lock") /\ cell[s] = 0
       /\ cell' = [cell EXCEPT ![s] = 1]
       /\ Step(t, "run", First(c), {})
       /\ UNCHANGED maps

(* Mutant: clear goes through the segments from the last to the first.     *)
LockDown(t) ==
    LET c == op[t].call
        s == IF c.k = "clear" THEN Segs + 1 - op[t].seg ELSE op[t].seg
    IN /\ At(t, "lock") /\ cell[s] = 0
       /\ cell' = [cell EXCEPT ![s] = 1]
       /\ IF op[t].seg < LastOf(c) THEN Step(t, "lock", op[t].seg + 1, {}) ELSE Step(t, "run", First(c), {})
       /\ UNCHANGED maps

(* lock, lockAll: the compare-and-exchange that succeeds.                  *)
Lock(t) ==
    LET c == op[t].call
        s == op[t].seg
    IN /\ At(t, "lock") /\ cell[s] = 0
       /\ cell' = [cell EXCEPT ![s] = 1]
       /\ IF s < LastOf(c) THEN Step(t, "lock", s + 1, {}) ELSE Step(t, "run", First(c), {})
       /\ UNCHANGED maps

Updated(c, m) ==
    CASE c.k = "put" -> [m EXCEPT ![c.key] = c.val]
      [] c.k = "putIfAbsent" -> [m EXCEPT ![c.key] = IF @ = Absent THEN c.val ELSE @]
      [] c.k = "remove" -> [m EXCEPT ![c.key] = Absent]
      [] c.k = "clear" -> [x \in Keys |-> Absent]
      [] OTHER -> m
Found(c, m, out) ==
    CASE c.k \in {"get", "putIfAbsent"} -> {m[c.key]} \ {Absent}
      [] c.k = "remove" -> {c.key} \ {x \in Keys : m[x] = Absent}
      [] c.k = "keys" -> out \cup {x \in Keys : m[x] # Absent}
      [] OTHER -> {}

(* The body of the try, on one segment.                                    *)
Run(t) ==
    LET c == op[t].call
        s == op[t].seg
        out == Found(c, maps[s], op[t].out)
    IN /\ At(t, "run")
       /\ maps' = [maps EXCEPT ![s] = Updated(c, @)]
       /\ IF s < LastOf(c) THEN Step(t, "run", s + 1, out) ELSE Step(t, "unlock", s, out)
       /\ UNCHANGED cell

(* HashMap.resize has put an empty table in place of the old one when the  *)
(* first entry is re-inserted: a throw leaves those that were.             *)
Rehashed(m, kept) == [x \in Keys |-> IF x \in kept THEN m[x] ELSE Absent]
Inserting(c, m) == c.k = "put" \/ (c.k = "putIfAbsent" /\ m[c.key] = Absent)

Throw(t) ==
    LET c == op[t].call
        s == op[t].seg
    IN /\ At(t, "run") /\ ~Whole(c)
       /\ IF RehashThrows /\ Inserting(c, maps[s])
          THEN \E kept \in SUBSET Keys : maps' = [maps EXCEPT ![s] = Rehashed(@, kept)]
          ELSE maps' = maps
       /\ Step(t, "unlock", s, {"failed"})
       /\ UNCHANGED cell

(* finally: unlock, or unlockAll from the last segment down.               *)
Unlock(t) ==
    LET c == op[t].call
        s == op[t].seg
    IN /\ At(t, "unlock")
       /\ cell' = [cell EXCEPT ![s] = 0]
       /\ IF s > First(c) THEN Step(t, "unlock", s - 1, op[t].out)
          ELSE op' = [op EXCEPT ![t] = Idle]
       /\ UNCHANGED maps

Init ==
    /\ cell = [s \in 1 .. Segs |-> 0] /\ maps = [s \in 1 .. Segs |-> [x \in Keys |-> Absent]]
    /\ op = [t \in Threads |-> Idle]

Next ==
    \E t \in Threads :
        \/ \E c \in Calls : Begin(t, c)
        \/ Lock(t) \/ Run(t) \/ Throw(t) \/ Unlock(t)

Spec == Init /\ [][Next]_vars

---------------------------------------------------------------------------
(* Properties.                                                             *)

(* Every operation takes effect at one instant: the last step of its body, *)
(* for clear the first.  What keys enumerates was the map at one time.     *)
Clearing(t) == op[t].call.k = "clear" /\ At(t, "run") /\ op[t].seg > 1
Atomic == INSTANCE AtomicMap WITH
    map <- IF \E t \in Threads : Clearing(t) THEN [x \in Keys |-> Absent]
           ELSE [x \in Keys |-> maps[SegmentOf[x]][x]],
    call <- [t \in Threads |-> op[t].call],
    res <- [t \in Threads |->
              IF At(t, "lock") \/ (At(t, "run") /\ ~Clearing(t)) THEN {"pending"} ELSE op[t].out]
ImplementsAtomicMap == Atomic!Spec

(* Threads do not wait for each other in a circle.                         *)
SomeoneMoves ==
    (\E t \in Threads : ~At(t, "idle")) =>
        \E t \in Threads : ~At(t, "idle") /\ (At(t, "lock") => cell[op[t].seg] = 0)
=============================================================================

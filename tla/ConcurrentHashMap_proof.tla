---------------------- MODULE ConcurrentHashMap_proof -----------------------
(***************************************************************************)
(* Proofs about ConcurrentHashMap, for any threads, keys, values, number   *)
(* of segments and calls: it implements AtomicMap, and its threads never   *)
(* all wait for each other.                                                *)
(***************************************************************************)
EXTENDS ConcurrentHashMap, WellFoundedInduction, TLAPS

\* What the proofs ask of the constants: a key has a segment, and no value or
\* key is called "pending".
Parameters ==
  /\ Segs \in Nat \ {0}
  /\ SegmentOf \in [Keys -> 1 .. Segs]
  /\ "pending" \notin Vals \cup Keys

-----------------------------------------------------------------------------
(* The inductive invariant.                                                *)

Places == {"idle", "lock", "run", "unlock"}
Outs == Vals \cup Keys \cup {"failed"}

TypeOK ==
  /\ cell \in [1 .. Segs -> {0, 1}]
  /\ maps \in [1 .. Segs -> [Keys -> Vals \cup {Absent}]]
  /\ op \in [Threads -> [call : Calls \cup {NoCall}, at : Places, seg : 1 .. Segs, out : SUBSET Outs]]

\* A thread in a call is at one of its segments.
Placed ==
  \A t \in Threads :
    IF At(t, "idle") THEN op[t].call = NoCall /\ op[t].out = {}
    ELSE op[t].call \in Calls /\ op[t].seg \in First(op[t].call) .. LastOf(op[t].call)

\* The segments a thread has locked and not given back.
Holds(t, s) ==
  \/ At(t, "lock") /\ s \in First(op[t].call) .. op[t].seg - 1
  \/ At(t, "run") /\ s \in First(op[t].call) .. LastOf(op[t].call)
  \/ At(t, "unlock") /\ s \in First(op[t].call) .. op[t].seg

\* The cell of a segment is set exactly while one thread holds it.
Owned ==
  /\ \A t, u \in Threads, s \in 1 .. Segs : Holds(t, s) /\ Holds(u, s) => t = u
  /\ \A s \in 1 .. Segs : cell[s] # 0 <=> \E t \in Threads : Holds(t, s)

\* A key is in its segment or nowhere.
Homed == \A s \in 1 .. Segs, x \in Keys : maps[s][x] # Absent => SegmentOf[x] = s

\* What a clear has been through is empty.
Emptied ==
  \A t \in Threads : Clearing(t) => \A s \in 1 .. op[t].seg - 1, x \in Keys : maps[s][x] = Absent

\* keys has listed the segments it has been through, no other call has a
\* result before its body is done.
Listed ==
  \A t \in Threads : At(t, "run") =>
    op[t].out = {x \in Keys : op[t].call.k = "keys" /\ SegmentOf[x] < op[t].seg /\ maps[SegmentOf[x]][x] # Absent}

Inv == TypeOK /\ Placed /\ Owned /\ Homed /\ Emptied /\ Listed

-----------------------------------------------------------------------------
(* Calls and steps.                                                        *)

\* What a call is about, and the segments it goes through.
LEMMA CallShape ==
  ASSUME Parameters, NEW c \in Calls
  PROVE  /\ c.k \in {"put", "putIfAbsent", "get", "remove", "keys", "clear"} /\ c # NoCall
         /\ ~Whole(c) => c.key \in Keys /\ First(c) = SegmentOf[c.key] /\ LastOf(c) = SegmentOf[c.key]
         /\ Whole(c) => First(c) = 1 /\ LastOf(c) = Segs
         /\ c.k \in {"put", "putIfAbsent"} => c.val \in Vals
         /\ Whole(c) <=> c.k \in {"keys", "clear"}
         /\ First(c) \in 1 .. Segs /\ LastOf(c) \in 1 .. Segs /\ First(c) <= LastOf(c)
<1>1. /\ c.k \in {"put", "putIfAbsent", "get", "remove", "keys", "clear"}
      /\ c.k \in {"put", "putIfAbsent"} => c.val \in Vals /\ c.key \in Keys
      /\ c.k \in {"get", "remove"} => c.key \in Keys
  BY DEF Calls
<1>2. c # NoCall
  BY <1>1 DEF NoCall
<1>3. Whole(c) <=> c.k \in {"keys", "clear"}
  BY DEF Whole
<1>4. ~Whole(c) => c.key \in Keys /\ First(c) = SegmentOf[c.key] /\ LastOf(c) = SegmentOf[c.key]
  BY <1>1, <1>3 DEF First, LastOf
<1>5. Whole(c) => First(c) = 1 /\ LastOf(c) = Segs
  BY DEF First, LastOf
<1>6. c.key \in Keys => SegmentOf[c.key] \in 1 .. Segs
  BY DEF Parameters
<1>7. 1 \in 1 .. Segs /\ Segs \in 1 .. Segs /\ 1 <= Segs
  BY DEF Parameters
<1>8. First(c) \in 1 .. Segs /\ LastOf(c) \in 1 .. Segs /\ First(c) <= LastOf(c)
  BY <1>4, <1>5, <1>6, <1>7
<1>9. QED
  BY <1>1, <1>2, <1>3, <1>4, <1>5, <1>8

\* Where a thread is after a step, and that the others are where they were.
Moved(t, c, place, seg, out) ==
  /\ op'[t].call = c /\ op'[t].at = place /\ op'[t].seg = seg /\ op'[t].out = out
  /\ \A u \in Threads \ {t} : op'[u] = op[u]

LEMMA Moves ==
  ASSUME TypeOK, NEW t \in Threads, NEW place \in Places, NEW seg \in 1 .. Segs, NEW out \in SUBSET Outs
  PROVE  /\ Step(t, place, seg, out) =>
              /\ Moved(t, op[t].call, place, seg, out)
              /\ op' \in [Threads -> [call : Calls \cup {NoCall}, at : Places, seg : 1 .. Segs, out : SUBSET Outs]]
         /\ \A c \in Calls \cup {NoCall} : op' = [op EXCEPT ![t] = [call |-> c, at |-> place, seg |-> seg, out |-> out]] =>
              /\ Moved(t, c, place, seg, out)
              /\ op' \in [Threads -> [call : Calls \cup {NoCall}, at : Places, seg : 1 .. Segs, out : SUBSET Outs]]
<1>1. ASSUME Step(t, place, seg, out)
      PROVE  /\ Moved(t, op[t].call, place, seg, out)
             /\ op' \in [Threads -> [call : Calls \cup {NoCall}, at : Places, seg : 1 .. Segs, out : SUBSET Outs]]
  <2>1. op' = [op EXCEPT ![t] = [op[t] EXCEPT !.at = place, !.seg = seg, !.out = out]]
    BY <1>1 DEF Step, TypeOK
  <2>2. op[t] \in [call : Calls \cup {NoCall}, at : Places, seg : 1 .. Segs, out : SUBSET Outs]
    BY DEF TypeOK
  <2>3. QED
    BY <2>1, <2>2 DEF TypeOK, Moved
<1>2. ASSUME NEW c \in Calls \cup {NoCall}, op' = [op EXCEPT ![t] = [call |-> c, at |-> place, seg |-> seg, out |-> out]]
      PROVE  /\ Moved(t, c, place, seg, out)
             /\ op' \in [Threads -> [call : Calls \cup {NoCall}, at : Places, seg : 1 .. Segs, out : SUBSET Outs]]
  BY <1>2 DEF TypeOK, Moved
<1>3. QED
  BY <1>1, <1>2

\* A call begins.
LEMMA BeginIs ==
  ASSUME Parameters, Inv, NEW t \in Threads, NEW c \in Calls, Begin(t, c)
  PROVE  /\ At(t, "idle") /\ Moved(t, c, "lock", First(c), {}) /\ cell' = cell /\ maps' = maps
         /\ TypeOK'
<1>1. "lock" \in Places /\ First(c) \in 1 .. Segs /\ {} \in SUBSET Outs
  BY CallShape DEF Places
<1>2. op' = [op EXCEPT ![t] = [call |-> c, at |-> "lock", seg |-> First(c), out |-> {}]]
  BY DEF Begin
<1>3. TypeOK
  BY DEF Inv
<1>4. /\ Moved(t, c, "lock", First(c), {})
      /\ op' \in [Threads -> [call : Calls \cup {NoCall}, at : Places, seg : 1 .. Segs, out : SUBSET Outs]]
  BY <1>1, <1>2, <1>3, Moves
<1>5. QED
  BY <1>3, <1>4 DEF Begin, TypeOK

\* A segment is locked.
LEMMA LockIs ==
  ASSUME Parameters, Inv, NEW t \in Threads, Lock(t)
  PROVE  LET c == op[t].call
             s == op[t].seg
         IN /\ At(t, "lock") /\ cell[s] = 0 /\ cell' = [cell EXCEPT ![s] = 1] /\ maps' = maps
            /\ c \in Calls /\ s \in First(c) .. LastOf(c)
            /\ \/ s < LastOf(c) /\ Moved(t, c, "lock", s + 1, {})
               \/ s = LastOf(c) /\ Moved(t, c, "run", First(c), {})
            /\ TypeOK'
<1> DEFINE c == op[t].call
           s == op[t].seg
<1>1. At(t, "lock") /\ c \in Calls /\ s \in First(c) .. LastOf(c) /\ TypeOK
  BY DEF Lock, Inv, Placed, At
<1>2. First(c) \in 1 .. Segs /\ LastOf(c) \in 1 .. Segs /\ s \in 1 .. Segs /\ (s < LastOf(c) => s + 1 \in 1 .. Segs)
  <2>1. First(c) \in 1 .. Segs /\ LastOf(c) \in 1 .. Segs
    BY <1>1, CallShape
  <2> HIDE DEF c, s
  <2>2. QED
    BY <1>1, <2>1 DEF Parameters
<1>3. cell[s] = 0 /\ cell' = [cell EXCEPT ![s] = 1] /\ maps' = maps
  BY DEF Lock
<1>4. IF s < LastOf(c) THEN Step(t, "lock", s + 1, {}) ELSE Step(t, "run", First(c), {})
  BY DEF Lock
<1>5. "lock" \in Places /\ "run" \in Places /\ {} \in SUBSET Outs
  BY DEF Places
<1>6. /\ \/ s < LastOf(c) /\ Moved(t, c, "lock", s + 1, {})
         \/ s = LastOf(c) /\ Moved(t, c, "run", First(c), {})
      /\ op' \in [Threads -> [call : Calls \cup {NoCall}, at : Places, seg : 1 .. Segs, out : SUBSET Outs]]
  <2>1. CASE s < LastOf(c)
    BY <1>1, <1>2, <1>4, <1>5, <2>1, Moves
  <2>2. CASE ~(s < LastOf(c))
    <3>1. s = LastOf(c)
      BY <1>1, <1>2, <2>2 DEF Parameters
    <3>2. QED
      BY <1>1, <1>2, <1>4, <1>5, <2>2, <3>1, Moves
  <2>3. QED
    BY <2>1, <2>2
<1>7. cell' \in [1 .. Segs -> {0, 1}]
  BY <1>1, <1>3 DEF TypeOK
<1>8. QED
  BY <1>1, <1>3, <1>6, <1>7 DEF TypeOK

\* A segment is given back.
LEMMA UnlockIs ==
  ASSUME Parameters, Inv, NEW t \in Threads, Unlock(t)
  PROVE  LET c == op[t].call
             s == op[t].seg
         IN /\ At(t, "unlock") /\ cell' = [cell EXCEPT ![s] = 0] /\ maps' = maps
            /\ c \in Calls /\ s \in First(c) .. LastOf(c)
            /\ \/ s > First(c) /\ Moved(t, c, "unlock", s - 1, op[t].out)
               \/ s = First(c) /\ Moved(t, NoCall, "idle", 1, {})
            /\ TypeOK'
<1> DEFINE c == op[t].call
           s == op[t].seg
<1>1. At(t, "unlock") /\ c \in Calls /\ s \in First(c) .. LastOf(c) /\ TypeOK
  BY DEF Unlock, Inv, Placed, At
<1>2. First(c) \in 1 .. Segs /\ LastOf(c) \in 1 .. Segs /\ s \in 1 .. Segs /\ (s > First(c) => s - 1 \in 1 .. Segs) /\ 1 \in 1 .. Segs
  <2>1. First(c) \in 1 .. Segs /\ LastOf(c) \in 1 .. Segs
    BY <1>1, CallShape
  <2> HIDE DEF c, s
  <2>2. QED
    BY <1>1, <2>1 DEF Parameters
<1>3. cell' = [cell EXCEPT ![s] = 0] /\ maps' = maps
  BY DEF Unlock
<1>4. IF s > First(c) THEN Step(t, "unlock", s - 1, op[t].out)
      ELSE op' = [op EXCEPT ![t] = [call |-> NoCall, at |-> "idle", seg |-> 1, out |-> {}]]
  BY DEF Unlock, Idle
<1>5. "unlock" \in Places /\ "idle" \in Places /\ {} \in SUBSET Outs /\ op[t].out \in SUBSET Outs
  BY <1>1 DEF Places, TypeOK
<1>6. /\ \/ s > First(c) /\ Moved(t, c, "unlock", s - 1, op[t].out)
         \/ s = First(c) /\ Moved(t, NoCall, "idle", 1, {})
      /\ op' \in [Threads -> [call : Calls \cup {NoCall}, at : Places, seg : 1 .. Segs, out : SUBSET Outs]]
  <2>1. CASE s > First(c)
    BY <1>1, <1>2, <1>4, <1>5, <2>1, Moves
  <2>2. CASE ~(s > First(c))
    <3>1. s = First(c)
      BY <1>1, <1>2, <2>2 DEF Parameters
    <3>2. QED
      BY <1>1, <1>2, <1>4, <1>5, <2>2, <3>1, Moves
  <2>3. QED
    BY <2>1, <2>2
<1>7. cell' \in [1 .. Segs -> {0, 1}]
  BY <1>1, <1>3 DEF TypeOK
<1>8. QED
  BY <1>1, <1>3, <1>6, <1>7 DEF TypeOK

\* The map of a segment after the body of a call, and what it found.
LEMMA BodyIs ==
  ASSUME Parameters, NEW c \in Calls, NEW m \in [Keys -> Vals \cup {Absent}], NEW out \in SUBSET Outs
  PROVE  /\ Updated(c, m) \in [Keys -> Vals \cup {Absent}] /\ Found(c, m, out) \in SUBSET Outs
         /\ c.k = "put" => Updated(c, m) = [m EXCEPT ![c.key] = c.val] /\ Found(c, m, out) = {}
         /\ c.k = "putIfAbsent" => /\ Updated(c, m) = IF m[c.key] = Absent THEN [m EXCEPT ![c.key] = c.val] ELSE m
                                   /\ Found(c, m, out) = {m[c.key]} \ {Absent}
         /\ c.k = "get" => Updated(c, m) = m /\ Found(c, m, out) = {m[c.key]} \ {Absent}
         /\ c.k = "remove" => Updated(c, m) = [m EXCEPT ![c.key] = Absent] /\ Found(c, m, out) = {c.key} \ {x \in Keys : m[x] = Absent}
         /\ c.k = "keys" => Updated(c, m) = m /\ Found(c, m, out) = out \cup {x \in Keys : m[x] # Absent}
         /\ c.k = "clear" => Updated(c, m) = [x \in Keys |-> Absent] /\ Found(c, m, out) = {}
<1>1. CASE c.k = "put"
  <2>1. c.key \in Keys /\ c.val \in Vals
    BY <1>1, CallShape
  <2>2. Updated(c, m) = [m EXCEPT ![c.key] = c.val] /\ Found(c, m, out) = {}
    BY <1>1 DEF Updated, Found
  <2>3. QED
    BY <1>1, <2>1, <2>2
<1>2. CASE c.k = "putIfAbsent"
  <2>1. c.key \in Keys /\ c.val \in Vals
    BY <1>2, CallShape
  <2>2. Updated(c, m) = [m EXCEPT ![c.key] = IF @ = Absent THEN c.val ELSE @] /\ Found(c, m, out) = {m[c.key]} \ {Absent}
    BY <1>2 DEF Updated, Found
  <2>3. Updated(c, m) = IF m[c.key] = Absent THEN [m EXCEPT ![c.key] = c.val] ELSE m
    BY <2>1, <2>2
  <2>4. Found(c, m, out) \in SUBSET Outs
    BY <2>1, <2>2 DEF Outs
  <2>5. QED
    BY <1>2, <2>1, <2>2, <2>3, <2>4
<1>3. CASE c.k = "get"
  <2>1. c.key \in Keys
    BY <1>3, CallShape
  <2>2. Updated(c, m) = m /\ Found(c, m, out) = {m[c.key]} \ {Absent}
    BY <1>3 DEF Updated, Found
  <2>3. QED
    BY <1>3, <2>1, <2>2 DEF Outs
<1>4. CASE c.k = "remove"
  <2>1. c.key \in Keys
    BY <1>4, CallShape
  <2>2. Updated(c, m) = [m EXCEPT ![c.key] = Absent] /\ Found(c, m, out) = {c.key} \ {x \in Keys : m[x] = Absent}
    BY <1>4 DEF Updated, Found
  <2>3. QED
    BY <1>4, <2>1, <2>2 DEF Outs
<1>5. CASE c.k = "keys"
  <2>2. Updated(c, m) = m /\ Found(c, m, out) = out \cup {x \in Keys : m[x] # Absent}
    BY <1>5 DEF Updated, Found
  <2>3. QED
    BY <1>5, <2>2 DEF Outs
<1>6. CASE c.k = "clear"
  <2>2. Updated(c, m) = [x \in Keys |-> Absent] /\ Found(c, m, out) = {}
    BY <1>6 DEF Updated, Found
  <2>3. QED
    BY <1>6, <2>2
<1>7. QED
  BY <1>1, <1>2, <1>3, <1>4, <1>5, <1>6, CallShape

\* The body runs on one segment.
LEMMA RunIs ==
  ASSUME Parameters, Inv, NEW t \in Threads, Run(t)
  PROVE  LET c == op[t].call
             s == op[t].seg
             out == Found(c, maps[s], op[t].out)
         IN /\ At(t, "run") /\ cell' = cell /\ maps' = [maps EXCEPT ![s] = Updated(c, maps[s])]
            /\ c \in Calls /\ s \in First(c) .. LastOf(c) /\ s \in 1 .. Segs /\ maps[s] \in [Keys -> Vals \cup {Absent}]
            /\ op[t].out \in SUBSET Outs
            /\ \/ s < LastOf(c) /\ Moved(t, c, "run", s + 1, out)
               \/ s = LastOf(c) /\ Moved(t, c, "unlock", s, out)
            /\ TypeOK'
<1> DEFINE c == op[t].call
           s == op[t].seg
           out == Found(c, maps[s], op[t].out)
<1>1. At(t, "run") /\ c \in Calls /\ s \in First(c) .. LastOf(c) /\ TypeOK
  BY DEF Run, Inv, Placed, At
<1>2. First(c) \in 1 .. Segs /\ LastOf(c) \in 1 .. Segs /\ s \in 1 .. Segs /\ (s < LastOf(c) => s + 1 \in 1 .. Segs)
  <2>1. First(c) \in 1 .. Segs /\ LastOf(c) \in 1 .. Segs
    BY <1>1, CallShape
  <2> HIDE DEF c, s
  <2>2. QED
    BY <1>1, <2>1 DEF Parameters
<1>3. maps[s] \in [Keys -> Vals \cup {Absent}] /\ op[t].out \in SUBSET Outs
  BY <1>1, <1>2 DEF TypeOK
<1>4. Updated(c, maps[s]) \in [Keys -> Vals \cup {Absent}] /\ out \in SUBSET Outs
  BY <1>1, <1>3, BodyIs
<1>5. maps' = [maps EXCEPT ![s] = Updated(c, maps[s])] /\ cell' = cell
  BY DEF Run
<1>6. IF s < LastOf(c) THEN Step(t, "run", s + 1, out) ELSE Step(t, "unlock", s, out)
  BY DEF Run
<1>7. "run" \in Places /\ "unlock" \in Places
  BY DEF Places
<1>8. /\ \/ s < LastOf(c) /\ Moved(t, c, "run", s + 1, out)
         \/ s = LastOf(c) /\ Moved(t, c, "unlock", s, out)
      /\ op' \in [Threads -> [call : Calls \cup {NoCall}, at : Places, seg : 1 .. Segs, out : SUBSET Outs]]
  <2> HIDE DEF out
  <2>1. CASE s < LastOf(c)
    BY <1>1, <1>2, <1>4, <1>6, <1>7, <2>1, Moves
  <2>2. CASE ~(s < LastOf(c))
    <3>1. s = LastOf(c)
      BY <1>1, <1>2, <2>2 DEF Parameters
    <3>2. QED
      BY <1>1, <1>2, <1>4, <1>6, <1>7, <2>2, <3>1, Moves
  <2>3. QED
    BY <2>1, <2>2
<1>9. maps' \in [1 .. Segs -> [Keys -> Vals \cup {Absent}]]
  BY <1>1, <1>2, <1>4, <1>5 DEF TypeOK
<1>10. TypeOK'
  BY <1>1, <1>5, <1>8, <1>9 DEF TypeOK
<1>11. QED
  BY <1>1, <1>2, <1>3, <1>5, <1>8, <1>10

\* The body throws: entries of its segment may be lost if it was rehashed.
LEMMA ThrowIs ==
  ASSUME Parameters, Inv, NEW t \in Threads, Throw(t)
  PROVE  /\ At(t, "run") /\ op[t].call \in Calls /\ ~Whole(op[t].call) /\ cell' = cell
         /\ op[t].seg \in First(op[t].call) .. LastOf(op[t].call)
         /\ Moved(t, op[t].call, "unlock", op[t].seg, {"failed"})
         /\ TypeOK'
         /\ ~RehashThrows => maps' = maps
         /\ \A s \in 1 .. Segs, x \in Keys : maps'[s][x] = maps[s][x] \/ maps'[s][x] = Absent
<1>1. At(t, "run") /\ op[t].call \in Calls /\ op[t].seg \in First(op[t].call) .. LastOf(op[t].call) /\ TypeOK
  BY DEF Throw, Inv, Placed, At
<1>2. op[t].seg \in 1 .. Segs /\ {"failed"} \in SUBSET Outs /\ "unlock" \in Places
  BY <1>1 DEF TypeOK, Outs, Places
<1>3. /\ Moved(t, op[t].call, "unlock", op[t].seg, {"failed"})
      /\ op' \in [Threads -> [call : Calls \cup {NoCall}, at : Places, seg : 1 .. Segs, out : SUBSET Outs]]
  BY <1>1, <1>2, Moves DEF Throw
<1>4. CASE maps' = maps
  BY <1>1, <1>3, <1>4 DEF Throw, TypeOK
<1>5. CASE ~(maps' = maps)
  <2> DEFINE s == op[t].seg
  <2>1. RehashThrows
    BY <1>5 DEF Throw
  <2>2. PICK kept \in SUBSET Keys : maps' = [maps EXCEPT ![s] = Rehashed(maps[s], kept)]
    BY <1>5 DEF Throw
  <2>3. maps \in [1 .. Segs -> [Keys -> Vals \cup {Absent}]]
    BY <1>1 DEF TypeOK
  <2> HIDE DEF s
  <2>4. /\ Rehashed(maps[s], kept) \in [Keys -> Vals \cup {Absent}]
        /\ \A x \in Keys : Rehashed(maps[s], kept)[x] = maps[s][x] \/ Rehashed(maps[s], kept)[x] = Absent
    BY <1>2, <2>3 DEF Rehashed, s
  <2>5. /\ maps' \in [1 .. Segs -> [Keys -> Vals \cup {Absent}]]
        /\ \A r \in 1 .. Segs : maps'[r] = IF r = s THEN Rehashed(maps[s], kept) ELSE maps[r]
    BY <2>2, <2>3, <2>4
  <2>6. \A r \in 1 .. Segs, x \in Keys : maps'[r][x] = maps[r][x] \/ maps'[r][x] = Absent
    BY <2>4, <2>5
  <2>7. cell' = cell /\ ~Whole(op[t].call)
    BY DEF Throw
  <2>8. TypeOK'
    BY <1>1, <1>3, <2>5, <2>7 DEF TypeOK
  <2>9. QED
    BY <1>1, <1>3, <2>1, <2>6, <2>7, <2>8
<1>6. QED
  BY <1>4, <1>5

-----------------------------------------------------------------------------
(* The invariant holds.                                                    *)

\* What a thread holds depends on where it is alone.
LEMMA HoldsKept ==
  ASSUME NEW u \in Threads, op'[u] = op[u]
  PROVE  \A s : Holds(u, s)' <=> Holds(u, s)
BY DEF Holds, At

\* A segment is held by one thread, and locked while it is.
LEMMA OwnedStep ==
  ASSUME Parameters, Inv, NEW t \in Threads,
         (\E c \in Calls : Begin(t, c)) \/ Lock(t) \/ Run(t) \/ Throw(t) \/ Unlock(t)
  PROVE  Owned'
<1>1. \A u \in Threads \ {t} : \A s : Holds(u, s)' <=> Holds(u, s)
  <2>1. \A u \in Threads \ {t} : op'[u] = op[u]
    <3>1. CASE \E c \in Calls : Begin(t, c)
      BY <3>1, BeginIs DEF Moved
    <3>2. CASE Lock(t)
      BY <3>2, LockIs DEF Moved
    <3>3. CASE Run(t)
      BY <3>3, RunIs DEF Moved
    <3>4. CASE Throw(t)
      BY <3>4, ThrowIs DEF Moved
    <3>5. CASE Unlock(t)
      BY <3>5, UnlockIs DEF Moved
    <3>6. QED
      BY <3>1, <3>2, <3>3, <3>4, <3>5
  <2>2. QED
    BY <2>1, HoldsKept
<1>2. cell \in [1 .. Segs -> {0, 1}] /\ Owned
  BY DEF Inv, TypeOK
<1>3. CASE (\E c \in Calls : Begin(t, c)) \/ Run(t) \/ Throw(t)
  <2>1. cell' = cell /\ \A s \in 1 .. Segs : Holds(t, s)' <=> Holds(t, s)
    <3>1. CASE \E c \in Calls : Begin(t, c)
      <4>1. PICK c \in Calls : Begin(t, c)
        BY <3>1
      <4>2. First(c) \in 1 .. Segs
        BY CallShape
      <4>3. At(t, "idle") /\ Moved(t, c, "lock", First(c), {}) /\ cell' = cell
        BY <4>1, BeginIs
      <4>4. \A s : ~ (s \in First(c) .. First(c) - 1)
        BY <4>2 DEF Parameters
      <4>5. QED
        BY <4>3, <4>4 DEF Holds, At, Moved
    <3>2. CASE Run(t)
      <4> DEFINE c == op[t].call
                 s == op[t].seg
                 out == Found(c, maps[s], op[t].out)
      <4>1. /\ At(t, "run") /\ cell' = cell
            /\ \/ s < LastOf(c) /\ Moved(t, c, "run", s + 1, out)
               \/ s = LastOf(c) /\ Moved(t, c, "unlock", s, out)
        BY <3>2, RunIs
      <4> HIDE DEF out
      <4>2. QED
        BY <4>1 DEF Holds, At, Moved
    <3>3. CASE Throw(t)
      <4>1. /\ At(t, "run") /\ op[t].call \in Calls /\ ~Whole(op[t].call) /\ cell' = cell
            /\ op[t].seg \in First(op[t].call) .. LastOf(op[t].call)
            /\ Moved(t, op[t].call, "unlock", op[t].seg, {"failed"})
        BY <3>3, ThrowIs
      <4>2. First(op[t].call) = LastOf(op[t].call) /\ First(op[t].call) \in 1 .. Segs
        BY <4>1, CallShape
      <4>3. op[t].seg = LastOf(op[t].call)
        BY <4>1, <4>2 DEF Parameters
      <4>4. QED
        BY <4>1, <4>3 DEF Holds, At, Moved
    <3>4. QED
      BY <1>3, <3>1, <3>2, <3>3
  <2>2. \A u \in Threads, s \in 1 .. Segs : Holds(u, s)' <=> Holds(u, s)
    BY <1>1, <2>1
  <2>3. QED
    BY <1>2, <2>1, <2>2 DEF Owned
<1>4. CASE Lock(t)
  <2> DEFINE c == op[t].call
             s == op[t].seg
  <2>1. /\ At(t, "lock") /\ cell[s] = 0 /\ cell' = [cell EXCEPT ![s] = 1]
        /\ c \in Calls /\ s \in First(c) .. LastOf(c)
        /\ \/ s < LastOf(c) /\ Moved(t, c, "lock", s + 1, {})
           \/ s = LastOf(c) /\ Moved(t, c, "run", First(c), {})
    BY <1>4, LockIs
  <2>2. First(c) \in 1 .. Segs /\ LastOf(c) \in 1 .. Segs
    BY <2>1, CallShape
  <2>3. \A r : Holds(t, r) <=> r \in First(c) .. s - 1
    BY <2>1 DEF Holds, At
  <2>4. op'[t].call = c /\ \/ s < LastOf(c) /\ op'[t].at = "lock" /\ op'[t].seg = s + 1
                           \/ s = LastOf(c) /\ op'[t].at = "run"
    BY <2>1 DEF Moved
  <2>5. \A r : Holds(t, r)' <=> r \in First(c) .. s
    <3>1. CASE s < LastOf(c) /\ op'[t].at = "lock" /\ op'[t].seg = s + 1
      <4>1. \A r : Holds(t, r)' <=> r \in First(c) .. (s + 1) - 1
        BY <2>4, <3>1 DEF Holds, At
      <4> HIDE DEF s, c
      <4>2. s \in Nat /\ (s + 1) - 1 = s
        BY <2>1, <2>2 DEF Parameters
      <4>3. QED
        BY <4>1, <4>2
    <3>2. CASE s = LastOf(c) /\ op'[t].at = "run"
      BY <2>4, <3>2 DEF Holds, At
    <3>3. QED
      BY <2>4, <3>1, <3>2
  <2> HIDE DEF c, s
  <2>6. \A r \in 1 .. Segs : Holds(t, r)' <=> Holds(t, r) \/ r = s
    BY <2>1, <2>2, <2>3, <2>5 DEF Parameters
  <2>7. s \in 1 .. Segs
    BY <2>1, <2>2 DEF Parameters
  <2>8. \A u \in Threads : ~Holds(u, s)
    BY <1>2, <2>1, <2>7 DEF Owned
  <2>9. \A u, v \in Threads, r \in 1 .. Segs : Holds(u, r)' /\ Holds(v, r)' => u = v
    BY <1>1, <1>2, <2>6, <2>8 DEF Owned
  <2>10. \A r \in 1 .. Segs : cell'[r] # 0 <=> \E u \in Threads : Holds(u, r)'
    BY <1>1, <1>2, <2>1, <2>6, <2>7 DEF Owned
  <2>11. QED
    BY <2>9, <2>10 DEF Owned
<1>5. CASE Unlock(t)
  <2> DEFINE c == op[t].call
             s == op[t].seg
  <2>1. /\ At(t, "unlock") /\ cell' = [cell EXCEPT ![s] = 0]
        /\ c \in Calls /\ s \in First(c) .. LastOf(c)
        /\ \/ s > First(c) /\ Moved(t, c, "unlock", s - 1, op[t].out)
           \/ s = First(c) /\ Moved(t, NoCall, "idle", 1, {})
    BY <1>5, UnlockIs
  <2>2. First(c) \in 1 .. Segs /\ LastOf(c) \in 1 .. Segs
    BY <2>1, CallShape
  <2>3. \A r : Holds(t, r) <=> r \in First(c) .. s
    BY <2>1 DEF Holds, At
  <2>4. \/ s > First(c) /\ op'[t].call = c /\ op'[t].at = "unlock" /\ op'[t].seg = s - 1
        \/ s = First(c) /\ op'[t].at = "idle"
    BY <2>1 DEF Moved
  <2>5. \A r : Holds(t, r)' <=> r \in First(c) .. s - 1
    <3>1. CASE s > First(c) /\ op'[t].call = c /\ op'[t].at = "unlock" /\ op'[t].seg = s - 1
      BY <3>1 DEF Holds, At
    <3>2. CASE s = First(c) /\ op'[t].at = "idle"
      <4>1. \A r : ~Holds(t, r)'
        BY <3>2 DEF Holds, At
      <4> HIDE DEF s, c
      <4>2. \A r : ~(r \in First(c) .. s - 1)
        BY <2>2, <3>2 DEF Parameters
      <4>3. QED
        BY <4>1, <4>2
    <3>3. QED
      BY <2>4, <3>1, <3>2
  <2> HIDE DEF c, s
  <2>6. \A r \in 1 .. Segs : Holds(t, r)' <=> Holds(t, r) /\ r # s
    BY <2>1, <2>2, <2>3, <2>5 DEF Parameters
  <2>7. s \in 1 .. Segs /\ Holds(t, s)
    BY <2>1, <2>2, <2>3 DEF Parameters
  <2>8. \A u \in Threads \ {t} : ~Holds(u, s)
    BY <1>2, <2>7 DEF Owned
  <2>9. \A u, v \in Threads, r \in 1 .. Segs : Holds(u, r)' /\ Holds(v, r)' => u = v
    BY <1>1, <1>2, <2>6 DEF Owned
  <2>10. \A r \in 1 .. Segs : cell'[r] # 0 <=> \E u \in Threads : Holds(u, r)'
    <3> TAKE r \in 1 .. Segs
    <3>1. CASE r = s
      BY <1>1, <1>2, <2>1, <2>6, <2>7, <2>8, <3>1
    <3>2. CASE r # s
      <4>1. cell'[r] = cell[r]
        BY <1>2, <2>1, <3>2
      <4>2. \A u \in Threads : Holds(u, r)' <=> Holds(u, r)
        BY <1>1, <2>6, <3>2
      <4>3. QED
        BY <1>2, <4>1, <4>2 DEF Owned
    <3>3. QED
      BY <3>1, <3>2
  <2>11. QED
    BY <2>9, <2>10 DEF Owned
<1>6. QED
  BY <1>3, <1>4, <1>5

\* While a thread runs the body of a call on the whole map, no other thread
\* runs the body of any call.
LEMMA NobodyElse ==
  ASSUME Parameters, Inv, NEW t \in Threads, NEW u \in Threads, At(t, "run"), At(u, "run"), Whole(op[u].call)
  PROVE  t = u
<1>1. /\ op[t].call \in Calls /\ op[t].seg \in First(op[t].call) .. LastOf(op[t].call)
      /\ op[u].call \in Calls
  BY DEF Inv, Placed, At
<1>2. First(op[t].call) \in 1 .. Segs /\ LastOf(op[t].call) \in 1 .. Segs
  BY <1>1, CallShape
<1>3. First(op[u].call) = 1 /\ LastOf(op[u].call) = Segs
  BY <1>1, CallShape
<1>4. op[t].seg \in 1 .. Segs
  BY <1>1, <1>2 DEF Parameters
<1>5. Holds(t, op[t].seg) /\ Holds(u, op[t].seg)
  BY <1>1, <1>3, <1>4 DEF Holds
<1>6. QED
  BY <1>4, <1>5 DEF Inv, Owned

\* What the body changes: the key of the call, or it empties the segment.
LEMMA UpdatedAt ==
  ASSUME Parameters, NEW c \in Calls, NEW m \in [Keys -> Vals \cup {Absent}], NEW x \in Keys
  PROVE  /\ Updated(c, m)[x] # Absent => m[x] # Absent \/ (~Whole(c) /\ x = c.key)
         /\ c.k = "clear" => Updated(c, m)[x] = Absent
         /\ ~Whole(c) /\ x # c.key => Updated(c, m)[x] = m[x]
<1>1. c.k \in {"put", "putIfAbsent", "get", "remove", "keys", "clear"} /\ (Whole(c) <=> c.k \in {"keys", "clear"})
  BY CallShape
<1>2. {} \in SUBSET Outs
  OBVIOUS
<1>3. CASE c.k = "put"
  BY <1>1, <1>2, <1>3, BodyIs
<1>4. CASE c.k = "putIfAbsent"
  BY <1>1, <1>2, <1>4, BodyIs
<1>5. CASE c.k = "get"
  BY <1>1, <1>2, <1>5, BodyIs
<1>6. CASE c.k = "remove"
  BY <1>1, <1>2, <1>6, BodyIs
<1>7. CASE c.k = "keys"
  BY <1>1, <1>2, <1>7, BodyIs
<1>8. CASE c.k = "clear"
  BY <1>1, <1>2, <1>8, BodyIs
<1>9. QED
  BY <1>1, <1>3, <1>4, <1>5, <1>6, <1>7, <1>8

\* The steps of a thread.
Acts(t) == (\E c \in Calls : Begin(t, c)) \/ Lock(t) \/ Run(t) \/ Throw(t) \/ Unlock(t)

\* A step of a thread leaves the others where they were and keeps the types.
LEMMA OthersStay ==
  ASSUME Parameters, Inv, NEW t \in Threads, Acts(t)
  PROVE  (\A u \in Threads \ {t} : op'[u] = op[u]) /\ TypeOK'
<1>1. CASE \E c \in Calls : Begin(t, c)
  BY <1>1, BeginIs DEF Moved
<1>2. CASE Lock(t)
  BY <1>2, LockIs DEF Moved
<1>3. CASE Run(t)
  BY <1>3, RunIs DEF Moved
<1>4. CASE Throw(t)
  BY <1>4, ThrowIs DEF Moved
<1>5. CASE Unlock(t)
  BY <1>5, UnlockIs DEF Moved
<1>6. QED
  BY <1>1, <1>2, <1>3, <1>4, <1>5 DEF Acts

\* The maps change in the bodies of calls alone, and if a body throws they
\* lose entries at most.
LEMMA MapsStay ==
  ASSUME Parameters, Inv, NEW t \in Threads, Acts(t), ~Run(t)
  PROVE  /\ ~Throw(t) => maps' = maps
         /\ ~RehashThrows => maps' = maps
         /\ \A s \in 1 .. Segs, x \in Keys : maps'[s][x] = maps[s][x] \/ maps'[s][x] = Absent
<1>1. CASE Throw(t)
  BY <1>1, ThrowIs
<1>2. CASE ~Throw(t)
  BY <1>2, BeginIs, LockIs, UnlockIs DEF Acts
<1>3. QED
  BY <1>1, <1>2

LEMMA PlacedStep ==
  ASSUME Parameters, Inv, NEW t \in Threads, Acts(t)
  PROVE  Placed'
<1> DEFINE c == op[t].call
           s == op[t].seg
<1>1. \A u \in Threads \ {t} : op'[u] = op[u]
  BY OthersStay
<1>2. IF op'[t].at = "idle" THEN op'[t].call = NoCall /\ op'[t].out = {}
      ELSE op'[t].call \in Calls /\ op'[t].seg \in First(op'[t].call) .. LastOf(op'[t].call)
  <2>1. CASE \E d \in Calls : Begin(t, d)
    <3>1. PICK d \in Calls : Begin(t, d)
      BY <2>1
    <3>2. op'[t].call = d /\ op'[t].at = "lock" /\ op'[t].seg = First(d)
      BY <3>1, BeginIs DEF Moved
    <3>3. First(d) \in First(d) .. LastOf(d)
      BY CallShape DEF Parameters
    <3>4. QED
      BY <3>2, <3>3
  <2>2. CASE Lock(t)
    <3>1. /\ c \in Calls /\ s \in First(c) .. LastOf(c) /\ op'[t].call = c
          /\ \/ s < LastOf(c) /\ op'[t].at = "lock" /\ op'[t].seg = s + 1
             \/ op'[t].at = "run" /\ op'[t].seg = First(c)
      BY <2>2, LockIs DEF Moved
    <3>2. First(c) \in 1 .. Segs /\ LastOf(c) \in 1 .. Segs /\ First(c) <= LastOf(c)
      BY <3>1, CallShape
    <3> HIDE DEF c, s
    <3>3. op'[t].seg \in First(c) .. LastOf(c) /\ op'[t].at # "idle"
      BY <3>1, <3>2 DEF Parameters
    <3>4. QED
      BY <3>1, <3>3
  <2>3. CASE Run(t)
    <3>1. /\ c \in Calls /\ s \in First(c) .. LastOf(c) /\ op'[t].call = c
          /\ \/ s < LastOf(c) /\ op'[t].at = "run" /\ op'[t].seg = s + 1
             \/ op'[t].at = "unlock" /\ op'[t].seg = s
      BY <2>3, RunIs DEF Moved
    <3>2. First(c) \in 1 .. Segs /\ LastOf(c) \in 1 .. Segs
      BY <3>1, CallShape
    <3> HIDE DEF c, s
    <3>3. op'[t].seg \in First(c) .. LastOf(c) /\ op'[t].at # "idle"
      BY <3>1, <3>2 DEF Parameters
    <3>4. QED
      BY <3>1, <3>3
  <2>4. CASE Throw(t)
    BY <2>4, ThrowIs DEF Moved
  <2>5. CASE Unlock(t)
    <3>1. /\ c \in Calls /\ s \in First(c) .. LastOf(c)
          /\ \/ s > First(c) /\ op'[t].call = c /\ op'[t].at = "unlock" /\ op'[t].seg = s - 1
             \/ op'[t].at = "idle" /\ op'[t].call = NoCall /\ op'[t].out = {}
      BY <2>5, UnlockIs DEF Moved
    <3>2. First(c) \in 1 .. Segs /\ LastOf(c) \in 1 .. Segs
      BY <3>1, CallShape
    <3> HIDE DEF c, s
    <3>3. CASE s > First(c) /\ op'[t].call = c /\ op'[t].at = "unlock" /\ op'[t].seg = s - 1
      <4>1. op'[t].seg \in First(c) .. LastOf(c)
        BY <3>1, <3>2, <3>3 DEF Parameters
      <4>2. QED
        BY <3>1, <3>3, <4>1
    <3>4. QED
      BY <3>1, <3>3
  <2>6. QED
    BY <2>1, <2>2, <2>3, <2>4, <2>5 DEF Acts
<1>3. QED
  BY <1>1, <1>2 DEF Inv, Placed, At

LEMMA HomedStep ==
  ASSUME Parameters, Inv, NEW t \in Threads, Acts(t)
  PROVE  Homed'
<1>1. CASE ~Run(t)
  BY <1>1, MapsStay DEF Inv, Homed
<1>2. CASE Run(t)
  <2> DEFINE c == op[t].call
             s == op[t].seg
  <2>1. /\ c \in Calls /\ s \in First(c) .. LastOf(c) /\ s \in 1 .. Segs /\ maps[s] \in [Keys -> Vals \cup {Absent}]
        /\ maps' = [maps EXCEPT ![s] = Updated(c, maps[s])]
    BY <1>2, RunIs
  <2>2. maps \in [1 .. Segs -> [Keys -> Vals \cup {Absent}]] /\ Homed
    BY DEF Inv, TypeOK
  <2>3. \A x \in Keys : Updated(c, maps[s])[x] # Absent => maps[s][x] # Absent \/ (~Whole(c) /\ x = c.key)
    BY <2>1, UpdatedAt
  <2>4. ~Whole(c) => SegmentOf[c.key] = s
    <3>1. ~Whole(c) => First(c) = SegmentOf[c.key] /\ LastOf(c) = SegmentOf[c.key]
      BY <2>1, CallShape
    <3>2. First(c) \in 1 .. Segs
      BY <2>1, CallShape
    <3> HIDE DEF c, s
    <3>3. QED
      BY <2>1, <3>1, <3>2 DEF Parameters
  <2> HIDE DEF c, s
  <2>5. \A x \in Keys : maps'[s][x] # Absent => SegmentOf[x] = s
    BY <2>1, <2>2, <2>3, <2>4 DEF Homed
  <2>6. \A r \in 1 .. Segs : r # s => maps'[r] = maps[r]
    BY <2>1, <2>2
  <2>7. QED
    BY <2>2, <2>5, <2>6 DEF Homed
<1>3. QED
  BY <1>1, <1>2

LEMMA EmptiedStep ==
  ASSUME Parameters, Inv, NEW t \in Threads, Acts(t)
  PROVE  Emptied'
<1>1. \A u \in Threads \ {t} : op'[u] = op[u]
  BY OthersStay
<1>2. \A u \in Threads \ {t} : Clearing(u)' <=> Clearing(u)
  BY <1>1 DEF Clearing, At
<1>3. CASE ~Run(t)
  <2>1. ~Clearing(t)'
    <3>1. CASE \E c \in Calls : Begin(t, c)
      BY <3>1, BeginIs DEF Moved, Clearing, At
    <3>2. CASE Lock(t)
      <4>1. /\ op[t].call \in Calls /\ op'[t].call = op[t].call
            /\ op'[t].at = "lock" \/ op'[t].seg = First(op[t].call)
        BY <3>2, LockIs DEF Moved
      <4>2. op[t].call.k = "clear" => First(op[t].call) = 1
        BY <4>1 DEF First, Whole
      <4>3. QED
        BY <4>1, <4>2 DEF Clearing, At
    <3>3. CASE Throw(t)
      BY <3>3, ThrowIs DEF Moved, Clearing, At
    <3>4. CASE Unlock(t)
      BY <3>4, UnlockIs DEF Moved, Clearing, At
    <3>5. QED
      BY <1>3, <3>1, <3>2, <3>3, <3>4 DEF Acts
  <2>2. \A s \in 1 .. Segs, x \in Keys : maps'[s][x] = maps[s][x] \/ maps'[s][x] = Absent
    BY <1>3, MapsStay
  <2>3. ASSUME NEW u \in Threads, Clearing(u)'
        PROVE  \A s \in 1 .. op'[u].seg - 1, x \in Keys : maps'[s][x] = Absent
    <3>1. u # t /\ op'[u] = op[u] /\ Clearing(u)
      BY <1>1, <1>2, <2>1, <2>3
    <3>2. \A s \in 1 .. op[u].seg - 1, x \in Keys : maps[s][x] = Absent
      BY <3>1 DEF Inv, Emptied
    <3>3. op[u].seg \in 1 .. Segs
      BY DEF Inv, TypeOK
    <3>4. \A s \in 1 .. op[u].seg - 1 : s \in 1 .. Segs
      BY <3>3 DEF Parameters
    <3>5. QED
      BY <2>2, <3>1, <3>2, <3>4
  <2>4. QED
    BY <2>3 DEF Emptied
<1>4. CASE Run(t)
  <2> DEFINE c == op[t].call
             s == op[t].seg
  <2>1. /\ At(t, "run") /\ c \in Calls /\ s \in 1 .. Segs /\ maps[s] \in [Keys -> Vals \cup {Absent}]
        /\ maps' = [maps EXCEPT ![s] = Updated(c, maps[s])]
        /\ op'[t].call = c
        /\ \/ op'[t].at = "run" /\ op'[t].seg = s + 1
           \/ op'[t].at = "unlock"
    BY <1>4, RunIs DEF Moved
  <2>2. maps \in [1 .. Segs -> [Keys -> Vals \cup {Absent}]] /\ Emptied
    BY DEF Inv, TypeOK
  <2>3. \A u \in Threads \ {t} : ~Clearing(u)
    BY <2>1, NobodyElse DEF Clearing, Whole
  <2>4. ASSUME Clearing(t)' PROVE \A r \in 1 .. s, x \in Keys : maps'[r][x] = Absent
    <3>1. c.k = "clear"
      BY <2>1, <2>4 DEF Clearing
    <3>2. \A x \in Keys : Updated(c, maps[s])[x] = Absent
      BY <2>1, <3>1, UpdatedAt
    <3>3. \A x \in Keys : maps'[s][x] = Absent
      BY <2>1, <2>2, <3>2
    <3>4. s > 1 => \A r \in 1 .. s - 1, x \in Keys : maps[r][x] = Absent
      BY <2>1, <2>2, <3>1 DEF Emptied, Clearing
    <3> HIDE DEF c, s
    <3>5. \A r \in 1 .. s : r = s \/ (s > 1 /\ r \in 1 .. s - 1 /\ r \in 1 .. Segs /\ r # s)
      BY <2>1 DEF Parameters
    <3>6. \A r \in 1 .. Segs : r # s => maps'[r] = maps[r]
      BY <2>1, <2>2
    <3>7. QED
      BY <3>3, <3>4, <3>5, <3>6
  <2>5. ASSUME Clearing(t)' PROVE \A r \in 1 .. op'[t].seg - 1, x \in Keys : maps'[r][x] = Absent
    <3>1. op'[t].seg = s + 1
      BY <2>1, <2>5 DEF Clearing, At
    <3>2. op'[t].seg - 1 = s
      <4> HIDE DEF s
      <4>1. QED
        BY <2>1, <3>1 DEF Parameters
    <3>3. \A r \in 1 .. s, x \in Keys : maps'[r][x] = Absent
      BY <2>4, <2>5
    <3>4. QED
      BY <3>2, <3>3
  <2>6. QED
    BY <1>2, <2>3, <2>5 DEF Emptied
<1>5. QED
  BY <1>3, <1>4

LEMMA ListedStep ==
  ASSUME Parameters, Inv, NEW t \in Threads, Acts(t)
  PROVE  Listed'
<1>1. \A u \in Threads \ {t} : op'[u] = op[u]
  BY OthersStay
<1>2. Listed /\ Homed /\ maps \in [1 .. Segs -> [Keys -> Vals \cup {Absent}]]
  BY DEF Inv, TypeOK
<1>3. CASE Throw(t)
  <2>1. At(t, "run") /\ ~Whole(op[t].call) /\ ~At(t, "run")'
    BY <1>3, ThrowIs DEF Moved, At
  <2>2. \A u \in Threads \ {t} : At(u, "run") => op[u].call.k # "keys"
    BY <2>1, NobodyElse DEF Whole
  <2>3. \A u \in Threads \ {t} : At(u, "run") => op[u].out = {}
    BY <1>2, <2>2 DEF Listed
  <2>4. \A u \in Threads : At(u, "run")' => op'[u].call.k # "keys" /\ op'[u].out = {}
    BY <1>1, <2>1, <2>2, <2>3 DEF At
  <2>5. QED
    BY <2>4 DEF Listed
<1>6. CASE ~Run(t) /\ ~Throw(t)
  <2>1. maps' = maps
    BY <1>6, MapsStay
  <2>2. ASSUME At(t, "run")'
        PROVE  op'[t].out = {x \in Keys : op'[t].call.k = "keys" /\ SegmentOf[x] < op'[t].seg /\ maps'[SegmentOf[x]][x] # Absent}
    <3>1. Lock(t)
      <4>1. CASE \E c \in Calls : Begin(t, c)
        BY <2>2, <4>1, BeginIs DEF Moved, At
      <4>2. CASE Unlock(t)
        BY <2>2, <4>2, UnlockIs DEF Moved, At
      <4>3. QED
        BY <1>6, <4>1, <4>2 DEF Acts
    <3>2. op[t].call \in Calls /\ op'[t].call = op[t].call /\ op'[t].seg = First(op[t].call) /\ op'[t].out = {}
      BY <2>2, <3>1, LockIs DEF Moved, At
    <3>3. op[t].call.k = "keys" => First(op[t].call) = 1
      BY <3>2 DEF First, Whole
    <3>4. \A x \in Keys : ~(SegmentOf[x] < 1)
      BY DEF Parameters
    <3>5. QED
      BY <3>2, <3>3, <3>4
  <2>3. QED
    BY <1>1, <1>2, <2>1, <2>2 DEF Listed, At
<1>4. CASE Run(t)
  <2> DEFINE c == op[t].call
             s == op[t].seg
             out == Found(c, maps[s], op[t].out)
  <2>1. /\ At(t, "run") /\ c \in Calls /\ s \in First(c) .. LastOf(c) /\ s \in 1 .. Segs
        /\ maps[s] \in [Keys -> Vals \cup {Absent}] /\ op[t].out \in SUBSET Outs
        /\ maps' = [maps EXCEPT ![s] = Updated(c, maps[s])]
        /\ op'[t].call = c
        /\ \/ s < LastOf(c) /\ op'[t].at = "run" /\ op'[t].seg = s + 1 /\ op'[t].out = out
           \/ op'[t].at = "unlock"
    BY <1>4, RunIs DEF Moved
  <2>2. \A u \in Threads \ {t} : At(u, "run") => op[u].call.k # "keys"
    BY <2>1, NobodyElse DEF Whole
  <2>3. \A u \in Threads \ {t} : At(u, "run") => op[u].out = {}
    BY <1>2, <2>2 DEF Listed
  <2>4. ASSUME At(t, "run")'
        PROVE  op'[t].out = {x \in Keys : op'[t].call.k = "keys" /\ SegmentOf[x] < op'[t].seg /\ maps'[SegmentOf[x]][x] # Absent}
    <3>1. s < LastOf(c) /\ op'[t].seg = s + 1 /\ op'[t].out = out
      BY <2>1, <2>4 DEF At
    <3>2. c.k = "keys" \/ c.k = "clear"
      <4>1. Whole(c) <=> c.k \in {"keys", "clear"}
        BY <2>1, CallShape
      <4>2. ~Whole(c) => First(c) = LastOf(c) /\ First(c) \in 1 .. Segs
        BY <2>1, CallShape
      <4> HIDE DEF c, s
      <4>3. QED
        BY <2>1, <3>1, <4>1, <4>2 DEF Parameters
    <3>3. CASE c.k = "clear"
      <4>1. Found(c, maps[s], op[t].out) = {}
        <5> HIDE DEF c, s
        <5>1. QED
          BY <2>1, <3>3, BodyIs
      <4>2. QED
        BY <2>1, <3>1, <3>3, <4>1
    <3>4. CASE c.k = "keys"
      <4>1. /\ Found(c, maps[s], op[t].out) = op[t].out \cup {x \in Keys : maps[s][x] # Absent}
            /\ Updated(c, maps[s]) = maps[s]
        <5> HIDE DEF c, s
        <5>1. QED
          BY <2>1, <3>4, BodyIs
      <4>2. op[t].out = {x \in Keys : SegmentOf[x] < s /\ maps[SegmentOf[x]][x] # Absent}
        BY <1>2, <2>1, <3>4 DEF Listed
      <4>3. maps' = maps
        BY <1>2, <2>1, <4>1
      <4>4. \A x \in Keys : maps[s][x] # Absent => SegmentOf[x] = s
        BY <1>2, <2>1 DEF Homed
      <4>9. out = op[t].out \cup {x \in Keys : maps[s][x] # Absent}
        BY <4>1
      <4> HIDE DEF c, s, out
      <4>5. \A x \in Keys : SegmentOf[x] \in Nat /\ s \in Nat /\ (SegmentOf[x] < s + 1 <=> SegmentOf[x] < s \/ SegmentOf[x] = s)
        BY <2>1 DEF Parameters
      <4>6. \A x : x \in out <=> x \in Keys /\ SegmentOf[x] < s + 1 /\ maps[SegmentOf[x]][x] # Absent
        BY <4>2, <4>4, <4>5, <4>9
      <4>7. out = {x \in Keys : SegmentOf[x] < s + 1 /\ maps[SegmentOf[x]][x] # Absent}
        BY <4>6
      <4>8. QED
        BY <2>1, <3>1, <3>4, <4>3, <4>7
    <3>5. QED
      BY <3>2, <3>3, <3>4
  <2>5. \A u \in Threads \ {t} : At(u, "run")' => op'[u].call.k # "keys" /\ op'[u].out = {}
    BY <1>1, <2>2, <2>3 DEF At
  <2>6. QED
    BY <2>4, <2>5 DEF Listed
<1>5. QED
  BY <1>3, <1>4, <1>6

\* The invariant holds at the start and after every step.
LEMMA InvInit ==
  ASSUME Parameters, Init
  PROVE  Inv
<1>1. 1 \in 1 .. Segs /\ "idle" \in Places
  BY DEF Parameters, Places
<1>2. \A t \in Threads : op[t].call = NoCall /\ op[t].at = "idle" /\ op[t].out = {}
  BY DEF Init, Idle
<1>3. TypeOK
  BY <1>1 DEF Init, Idle, TypeOK
<1>4. \A t \in Threads, s \in 1 .. Segs : ~Holds(t, s)
  BY <1>2 DEF Holds, At
<1>5. Placed /\ Emptied /\ Listed
  BY <1>2 DEF Placed, Emptied, Listed, Clearing, At
<1>6. Owned
  BY <1>4 DEF Owned, Init
<1>7. Homed
  BY DEF Homed, Init
<1>8. QED
  BY <1>3, <1>5, <1>6, <1>7 DEF Inv

LEMMA InvStep ==
  ASSUME Parameters, Inv, [Next]_vars
  PROVE  Inv'
<1>1. CASE Next
  <2>1. PICK t \in Threads : Acts(t)
    BY <1>1 DEF Next, Acts
  <2>2. TypeOK'
    BY <2>1, OthersStay
  <2>3. Placed'
    BY <2>1, PlacedStep
  <2>4. Owned'
    BY <2>1, OwnedStep DEF Acts
  <2>5. Homed'
    BY <2>1, HomedStep
  <2>6. Emptied'
    BY <2>1, EmptiedStep
  <2>7. Listed'
    BY <2>1, ListedStep
  <2>8. QED
    BY <2>2, <2>3, <2>4, <2>5, <2>6, <2>7 DEF Inv
<1>2. CASE UNCHANGED vars
  BY <1>2 DEF vars, Inv, TypeOK, Placed, Owned, Holds, Homed, Emptied, Clearing, Listed, At
<1>3. QED
  BY <1>1, <1>2

\* The segments, their locks and the progress of every call stay consistent.
THEOREM Invariant ==
  ASSUME Parameters
  PROVE  Spec => []Inv
<1>1. Init => Inv
  BY InvInit
<1>2. Inv /\ [Next]_vars => Inv'
  BY InvStep
<1>3. QED
  BY <1>1, <1>2, PTL DEF Spec

-----------------------------------------------------------------------------
(* Threads do not wait for each other in a circle.                         *)

\* A non-empty set of natural numbers has a least element.
LEMMA Least ==
  ASSUME NEW T, T \subseteq Nat, T # {}
  PROVE  \E x \in T : \A y \in T : x <= y
<1> DEFINE R == OpToRel(<, Nat)
<1>1. \A x, y \in Nat : <<y, x>> \in R <=> y < x
  BY DEF OpToRel
<1>2. IsWellFoundedOn(R, Nat)
  BY NatLessThanWellFounded
<1> HIDE DEF R
<1>3. PICK x \in T : \A y \in T : ~ (<<y, x>> \in R)
  BY <1>2, WFMin
<1>4. ASSUME NEW y \in T PROVE x <= y
  <2>1. x \in Nat /\ y \in Nat /\ <<y, x>> \notin R
    BY <1>3
  <2>2. ~(y < x)
    BY <1>1, <2>1
  <2>3. QED
    BY <2>1, <2>2
<1>5. QED
  BY <1>4

\* Of the threads that wait, the one at the highest segment waits for nobody.
LEMMA HighestMoves ==
  ASSUME Parameters, Inv
  PROVE  SomeoneMoves
<1> DEFINE W == {t \in Threads : At(t, "lock")}
<1>1. CASE \E t \in Threads : At(t, "run") \/ At(t, "unlock")
  BY <1>1 DEF SomeoneMoves, At
<1>2. CASE (\A t \in Threads : ~At(t, "run") /\ ~At(t, "unlock")) /\ W # {}
  <2>1. \A t \in Threads : op[t].seg \in 1 .. Segs /\ Segs - op[t].seg \in Nat
    BY DEF Inv, TypeOK, Parameters
  <2> DEFINE T == {Segs - op[t].seg : t \in W}
  <2>2. T \subseteq Nat /\ T # {}
    BY <1>2, <2>1
  <2> HIDE DEF T
  <2>3. PICK d \in T : \A e \in T : d <= e
    BY <2>2, Least
  <2>4. PICK t \in W : d = Segs - op[t].seg
    BY <2>3 DEF T
  <2>5. \A u \in W : Segs - op[t].seg <= Segs - op[u].seg
    BY <2>3, <2>4 DEF T
  <2>6. \A u \in W : op[u].seg <= op[t].seg
    BY <2>1, <2>5 DEF Parameters
  <2>7. \A u \in Threads : ~Holds(u, op[t].seg)
    <3> SUFFICES ASSUME NEW u \in Threads, Holds(u, op[t].seg) PROVE FALSE
      OBVIOUS
    <3>1. u \in W /\ op[t].seg \in First(op[u].call) .. op[u].seg - 1
      BY <1>2 DEF Holds
    <3>2. op[u].call \in Calls
      BY <3>1 DEF Inv, Placed, At
    <3>3. First(op[u].call) \in 1 .. Segs
      BY <3>2, CallShape
    <3>4. op[u].seg <= op[t].seg /\ op[u].seg \in 1 .. Segs /\ op[t].seg \in 1 .. Segs
      BY <2>1, <2>6, <3>1
    <3>5. QED
      BY <3>1, <3>3, <3>4 DEF Parameters
  <2>8. cell[op[t].seg] = 0
    BY <2>1, <2>7 DEF Inv, Owned
  <2>9. QED
    BY <2>8 DEF SomeoneMoves, At
<1>3. CASE (\A t \in Threads : ~At(t, "run") /\ ~At(t, "unlock")) /\ W = {}
  <2>1. \A t \in Threads : op[t].at \in Places
    BY DEF Inv, TypeOK
  <2>2. QED
    BY <1>3, <2>1 DEF SomeoneMoves, At, Places
<1>4. QED
  BY <1>1, <1>2, <1>3

\* No deadlock on the locks of the segments: lockAll takes them in one order,
\* and an operation on a key holds at most one.
THEOREM SomeoneAlwaysMoves ==
  ASSUME Parameters
  PROVE  Spec => []SomeoneMoves
<1>1. Inv => SomeoneMoves
  BY HighestMoves
<1>2. QED
  BY <1>1, Invariant, PTL

-----------------------------------------------------------------------------
(* ConcurrentHashMap implements AtomicMap.                                 *)

\* The map, the calls and the results that an observer sees.
Pends(t) == At(t, "lock") \/ (At(t, "run") /\ ~Clearing(t))
Cl == \E t \in Threads : Clearing(t)
Mp == IF Cl THEN [x \in Keys |-> Absent] ELSE [x \in Keys |-> maps[SegmentOf[x]][x]]
Cs == [t \in Threads |-> op[t].call]
Rs == [t \in Threads |-> IF Pends(t) THEN {"pending"} ELSE op[t].out]

\* What an operation finds in a map, and what it makes of the map.
ResultIn(c, m) ==
  CASE c.k \in {"get", "putIfAbsent"} -> {m[c.key]} \ {Absent}
    [] c.k = "remove" -> {c.key} \cap {x \in Keys : m[x] # Absent}
    [] c.k = "keys" -> {x \in Keys : m[x] # Absent}
    [] OTHER -> {}
EffectOn(c, m) ==
  CASE c.k = "put" -> [m EXCEPT ![c.key] = c.val]
    [] c.k = "putIfAbsent" /\ m[c.key] = Absent -> [m EXCEPT ![c.key] = c.val]
    [] c.k = "remove" -> [m EXCEPT ![c.key] = Absent]
    [] c.k = "clear" -> [x \in Keys |-> Absent]
    [] OTHER -> m

\* The steps of AtomicMap, seen through the mapping.
LEMMA AbstractSteps ==
  ASSUME NEW t \in Threads
  PROVE  /\ \A c : Cs[t] = NoCall /\ Cs' = [Cs EXCEPT ![t] = c] /\ Rs' = [Rs EXCEPT ![t] = {"pending"}] /\ Mp' = Mp
                   => Atomic!Invoke(t, c)
         /\ Cs[t] # NoCall /\ Rs[t] = {"pending"} /\ Mp' = EffectOn(Cs[t], Mp) /\ Rs' = [Rs EXCEPT ![t] = ResultIn(Cs[t], Mp)] /\ Cs' = Cs
                   => Atomic!Happen(t)
         /\ Cs[t] # NoCall /\ Rs[t] = {"pending"} /\ Rs' = [Rs EXCEPT ![t] = {"failed"}] /\ Mp' = Mp /\ Cs' = Cs
                   => Atomic!Fail(t)
         /\ Cs[t] # NoCall /\ Rs[t] # {"pending"} /\ Cs' = [Cs EXCEPT ![t] = NoCall] /\ Rs' = [Rs EXCEPT ![t] = {}] /\ Mp' = Mp
                   => Atomic!Return(t)
         /\ Mp' = Mp /\ Rs' = Rs /\ Cs' = Cs => UNCHANGED Atomic!vars
<1>1. \A c : Cs[t] = NoCall /\ Cs' = [Cs EXCEPT ![t] = c] /\ Rs' = [Rs EXCEPT ![t] = {"pending"}] /\ Mp' = Mp
             => Atomic!Invoke(t, c)
  BY DEF Atomic!Invoke, Atomic!NoCall, Atomic!Pending, NoCall, Cs, Rs, Mp, Pends, Cl
<1>2. Cs[t] # NoCall /\ Rs[t] = {"pending"} /\ Mp' = EffectOn(Cs[t], Mp) /\ Rs' = [Rs EXCEPT ![t] = ResultIn(Cs[t], Mp)] /\ Cs' = Cs
             => Atomic!Happen(t)
  <2>1. Atomic!Effect(Cs[t]) = EffectOn(Cs[t], Mp)
    BY DEF Atomic!Effect, EffectOn, Mp, Cl
  <2>2. Atomic!Result(Cs[t]) = ResultIn(Cs[t], Mp)
    BY DEF Atomic!Result, Atomic!Present, ResultIn, Mp, Cl
  <2>3. QED
    BY <2>1, <2>2 DEF Atomic!Happen, Atomic!NoCall, Atomic!Pending, NoCall, Cs, Rs, Mp, Pends, Cl
<1>3. Cs[t] # NoCall /\ Rs[t] = {"pending"} /\ Rs' = [Rs EXCEPT ![t] = {"failed"}] /\ Mp' = Mp /\ Cs' = Cs
             => Atomic!Fail(t)
  BY DEF Atomic!Fail, Atomic!NoCall, Atomic!Pending, NoCall, Cs, Rs, Mp, Pends, Cl
<1>4. Cs[t] # NoCall /\ Rs[t] # {"pending"} /\ Cs' = [Cs EXCEPT ![t] = NoCall] /\ Rs' = [Rs EXCEPT ![t] = {}] /\ Mp' = Mp
             => Atomic!Return(t)
  BY DEF Atomic!Return, Atomic!NoCall, Atomic!Pending, NoCall, Cs, Rs, Mp, Pends, Cl
<1>5. Mp' = Mp /\ Rs' = Rs /\ Cs' = Cs => UNCHANGED Atomic!vars
  BY DEF Atomic!vars, Cs, Rs, Mp, Pends, Cl
<1>6. QED
  BY <1>1, <1>2, <1>3, <1>4, <1>5

\* What a step of one thread changes of the calls and the results.
LEMMA SeenMove ==
  ASSUME NEW t \in Threads, NEW c, NEW place, NEW seg, NEW out, Moved(t, c, place, seg, out)
  PROVE  /\ Cs' = [Cs EXCEPT ![t] = c]
         /\ Rs' = [Rs EXCEPT ![t] = IF place = "lock" \/ (place = "run" /\ ~(c.k = "clear" /\ seg > 1)) THEN {"pending"} ELSE out]
         /\ Clearing(t)' <=> c.k = "clear" /\ place = "run" /\ seg > 1
         /\ \A u \in Threads \ {t} : Clearing(u)' <=> Clearing(u)
<1>1. \A u \in Threads \ {t} : (Clearing(u)' <=> Clearing(u)) /\ (Pends(u)' <=> Pends(u)) /\ op'[u] = op[u]
  BY DEF Moved, Clearing, Pends, At
<1>2. Clearing(t)' <=> c.k = "clear" /\ place = "run" /\ seg > 1
  BY DEF Moved, Clearing, At
<1>3. Pends(t)' <=> place = "lock" \/ (place = "run" /\ ~(c.k = "clear" /\ seg > 1))
  BY <1>2 DEF Moved, Pends, At
<1>4. op'[t].call = c /\ op'[t].out = out
  BY DEF Moved
<1>5. Cs' = [u \in Threads |-> op'[u].call] /\ Rs' = [u \in Threads |-> IF Pends(u)' THEN {"pending"} ELSE op'[u].out]
  BY DEF Cs, Rs
<1>6. Cs' = [Cs EXCEPT ![t] = c]
  BY <1>1, <1>4, <1>5 DEF Cs
<1>7. Rs' = [Rs EXCEPT ![t] = IF place = "lock" \/ (place = "run" /\ ~(c.k = "clear" /\ seg > 1)) THEN {"pending"} ELSE out]
  BY <1>1, <1>3, <1>4, <1>5 DEF Rs
<1>8. QED
  BY <1>1, <1>2, <1>6, <1>7

\* A function is itself where it is given its own value.
LEMMA SameAt ==
  ASSUME NEW S, NEW t \in S, NEW f, f = [x \in S |-> f[x]]
  PROVE  [f EXCEPT ![t] = f[t]] = f
OBVIOUS

\* Outside the bodies of calls the map does not change.
LEMMA SeenMapStays ==
  ASSUME Parameters, Inv, NEW t \in Threads, Acts(t), ~Run(t), ~Clearing(t), ~Clearing(t)',
         \A u \in Threads \ {t} : Clearing(u)' <=> Clearing(u), ~Throw(t)
  PROVE  Mp' = Mp
<1>1. maps' = maps
  BY MapsStay
<1>2. Cl' <=> Cl
  BY DEF Cl
<1>3. QED
  BY <1>1, <1>2 DEF Mp

LEMMA BeginRefines ==
  ASSUME Parameters, Inv, NEW t \in Threads, NEW c \in Calls, Begin(t, c)
  PROVE  Atomic!Invoke(t, c)
<1>1. At(t, "idle") /\ Moved(t, c, "lock", First(c), {})
  BY BeginIs
<1>2. op[t].call = NoCall
  BY <1>1 DEF Inv, Placed
<1>3. Cs' = [Cs EXCEPT ![t] = c] /\ Rs' = [Rs EXCEPT ![t] = {"pending"}]
  BY <1>1, SeenMove
<1>4. ~Clearing(t)' /\ \A u \in Threads \ {t} : Clearing(u)' <=> Clearing(u)
  BY <1>1, SeenMove
<1>5. ~Clearing(t)
  BY <1>1 DEF Clearing, At
<1>6. Acts(t) /\ ~Run(t) /\ ~Throw(t)
  BY <1>1 DEF Acts, Run, Throw, At
<1>7. Mp' = Mp
  BY <1>4, <1>5, <1>6, SeenMapStays
<1>8. Cs[t] = NoCall
  BY <1>2 DEF Cs
<1>9. QED
  BY <1>3, <1>7, <1>8, AbstractSteps

LEMMA LockRefines ==
  ASSUME Parameters, Inv, NEW t \in Threads, Lock(t)
  PROVE  UNCHANGED Atomic!vars
<1> DEFINE c == op[t].call
           s == op[t].seg
<1>1. /\ At(t, "lock") /\ c \in Calls
      /\ \/ Moved(t, c, "lock", s + 1, {})
         \/ Moved(t, c, "run", First(c), {})
  BY LockIs
<1>2. c.k = "clear" => ~(First(c) > 1)
  BY <1>1 DEF First, Whole
<1>3. /\ Cs' = [Cs EXCEPT ![t] = c] /\ Rs' = [Rs EXCEPT ![t] = {"pending"}]
      /\ ~Clearing(t)' /\ \A u \in Threads \ {t} : Clearing(u)' <=> Clearing(u)
  <2>1. CASE Moved(t, c, "lock", s + 1, {})
    BY <2>1, SeenMove
  <2>2. CASE Moved(t, c, "run", First(c), {})
    BY <1>2, <2>2, SeenMove
  <2>3. QED
    BY <1>1, <2>1, <2>2
<1>4. ~Clearing(t) /\ Acts(t) /\ ~Run(t) /\ ~Throw(t)
  BY <1>1 DEF Clearing, At, Acts, Run, Throw
<1>5. Mp' = Mp
  BY <1>3, <1>4, SeenMapStays
<1>6. Cs[t] = c /\ Rs[t] = {"pending"} /\ Cs = [u \in Threads |-> Cs[u]] /\ Rs = [u \in Threads |-> Rs[u]]
  BY <1>1 DEF Cs, Rs, Pends
<1>7. Cs' = Cs /\ Rs' = Rs
  <2>1. [Cs EXCEPT ![t] = Cs[t]] = Cs
    BY <1>6, SameAt
  <2>2. [Rs EXCEPT ![t] = Rs[t]] = Rs
    BY <1>6, SameAt
  <2>3. QED
    BY <1>3, <1>6, <2>1, <2>2
<1>8. QED
  BY <1>5, <1>7, AbstractSteps

LEMMA ThrowRefines ==
  ASSUME Parameters, ~RehashThrows, Inv, NEW t \in Threads, Throw(t)
  PROVE  Atomic!Fail(t)
<1> DEFINE c == op[t].call
<1>1. At(t, "run") /\ c \in Calls /\ ~Whole(c) /\ Moved(t, c, "unlock", op[t].seg, {"failed"})
  BY ThrowIs
<1>2. c.k # "clear" /\ c # NoCall
  BY <1>1, CallShape
<1>3. Cs' = [Cs EXCEPT ![t] = c] /\ Rs' = [Rs EXCEPT ![t] = {"failed"}]
  BY <1>1, SeenMove
<1>4. ~Clearing(t)' /\ \A u \in Threads \ {t} : Clearing(u)' <=> Clearing(u)
  BY <1>1, SeenMove
<1>5. ~Clearing(t)
  BY <1>2 DEF Clearing
<1>6. Acts(t)
  BY DEF Acts
<1>7. maps' = maps
  BY ThrowIs
<1>8. Mp' = Mp
  BY <1>4, <1>5, <1>7 DEF Mp, Cl
<1>9. Cs[t] = c /\ Rs[t] = {"pending"} /\ Cs = [u \in Threads |-> Cs[u]]
  BY <1>1, <1>5 DEF Cs, Rs, Pends
<1>10. Cs' = Cs
  BY <1>3, <1>9, SameAt
<1>11. QED
  BY <1>2, <1>3, <1>8, <1>9, <1>10, AbstractSteps

LEMMA UnlockRefines ==
  ASSUME Parameters, Inv, NEW t \in Threads, Unlock(t)
  PROVE  Atomic!Return(t) \/ UNCHANGED Atomic!vars
<1> DEFINE c == op[t].call
           s == op[t].seg
<1>1. /\ At(t, "unlock") /\ c \in Calls
      /\ \/ Moved(t, c, "unlock", s - 1, op[t].out)
         \/ Moved(t, NoCall, "idle", 1, {})
  BY UnlockIs
<1>2. ~Clearing(t) /\ ~Pends(t) /\ Acts(t) /\ ~Run(t) /\ ~Throw(t)
  BY <1>1 DEF Clearing, Pends, At, Acts, Run, Throw
<1>3. Cs[t] = c /\ Rs[t] = op[t].out /\ Cs = [u \in Threads |-> Cs[u]] /\ Rs = [u \in Threads |-> Rs[u]]
  BY <1>2 DEF Cs, Rs
<1>4. CASE Moved(t, c, "unlock", s - 1, op[t].out)
  <2>1. Cs' = [Cs EXCEPT ![t] = c] /\ Rs' = [Rs EXCEPT ![t] = op[t].out]
    BY <1>4, SeenMove
  <2>2. ~Clearing(t)' /\ \A u \in Threads \ {t} : Clearing(u)' <=> Clearing(u)
    BY <1>4, SeenMove
  <2>3. Mp' = Mp
    BY <1>2, <2>2, SeenMapStays
  <2>4. Cs' = Cs /\ Rs' = Rs
    <3>1. [Cs EXCEPT ![t] = Cs[t]] = Cs
      BY <1>3, SameAt
    <3>2. [Rs EXCEPT ![t] = Rs[t]] = Rs
      BY <1>3, SameAt
    <3>3. QED
      BY <1>3, <2>1, <3>1, <3>2
  <2>5. QED
    BY <2>3, <2>4, AbstractSteps
<1>5. CASE Moved(t, NoCall, "idle", 1, {})
  <2>1. Cs' = [Cs EXCEPT ![t] = NoCall] /\ Rs' = [Rs EXCEPT ![t] = {}]
    BY <1>5, SeenMove
  <2>2. ~Clearing(t)' /\ \A u \in Threads \ {t} : Clearing(u)' <=> Clearing(u)
    BY <1>5, SeenMove
  <2>3. Mp' = Mp
    BY <1>2, <2>2, SeenMapStays
  <2>4. c # NoCall
    BY <1>1, CallShape
  <2>5. op[t].out # {"pending"}
    BY DEF Inv, TypeOK, Outs, Parameters
  <2>6. QED
    BY <1>3, <2>1, <2>3, <2>4, <2>5, AbstractSteps
<1>6. QED
  BY <1>1, <1>4, <1>5

\* The operations on one key take effect in their body.
LEMMA OneKeyHappens ==
  ASSUME Parameters, Inv, NEW t \in Threads, Run(t), ~Whole(op[t].call)
  PROVE  Atomic!Happen(t)
<1> DEFINE c == op[t].call
           s == op[t].seg
           m == maps[s]
           out == Found(c, m, op[t].out)
<1>1. /\ At(t, "run") /\ maps' = [maps EXCEPT ![s] = Updated(c, m)]
      /\ c \in Calls /\ s \in First(c) .. LastOf(c) /\ s \in 1 .. Segs /\ m \in [Keys -> Vals \cup {Absent}]
      /\ op[t].out \in SUBSET Outs
      /\ \/ s < LastOf(c) /\ Moved(t, c, "run", s + 1, out)
         \/ s = LastOf(c) /\ Moved(t, c, "unlock", s, out)
  BY RunIs
<1>2. /\ c.key \in Keys /\ First(c) = SegmentOf[c.key] /\ LastOf(c) = SegmentOf[c.key]
      /\ c.k \in {"put", "putIfAbsent", "get", "remove"} /\ c # NoCall /\ First(c) \in 1 .. Segs
  BY <1>1, CallShape
<1>3. s = SegmentOf[c.key] /\ Moved(t, c, "unlock", s, out)
  <2> HIDE DEF c, s, out
  <2>1. s = SegmentOf[c.key] /\ ~(s < LastOf(c))
    BY <1>1, <1>2 DEF Parameters
  <2>2. QED
    BY <1>1, <2>1
<1>4. Cs' = [Cs EXCEPT ![t] = c] /\ Rs' = [Rs EXCEPT ![t] = out]
  BY <1>3, SeenMove
<1>5. ~Clearing(t)' /\ \A u \in Threads \ {t} : Clearing(u)' <=> Clearing(u)
  BY <1>3, SeenMove
<1>6. \A u \in Threads : ~Clearing(u) /\ ~Clearing(u)'
  <2>1. ~Clearing(t)
    BY <1>2 DEF Clearing
  <2>2. \A u \in Threads \ {t} : ~Clearing(u)
    BY <1>1, NobodyElse DEF Clearing, Whole
  <2>3. QED
    BY <1>5, <2>1, <2>2
<1>7. Mp = [x \in Keys |-> maps[SegmentOf[x]][x]] /\ Mp' = [x \in Keys |-> maps'[SegmentOf[x]][x]]
  BY <1>6 DEF Mp, Cl
<1>8. Cs[t] = c /\ Rs[t] = {"pending"} /\ Cs = [u \in Threads |-> Cs[u]]
  BY <1>1, <1>6 DEF Cs, Rs, Pends
<1>9. Cs' = Cs
  BY <1>4, <1>8, SameAt
<1>10. maps \in [1 .. Segs -> [Keys -> Vals \cup {Absent}]] /\ Homed
  BY DEF Inv, TypeOK
<1>11. \A x \in Keys : SegmentOf[x] \in 1 .. Segs
  BY DEF Parameters
<1>12. Mp[c.key] = m[c.key]
  BY <1>2, <1>3, <1>7
<1>13. \A x \in Keys : x # c.key => Mp'[x] = Mp[x]
  <2>1. \A x \in Keys : x # c.key => Updated(c, m)[x] = m[x]
    BY <1>1, UpdatedAt
  <2> HIDE DEF c, s, m
  <2>2. \A x \in Keys : x # c.key => maps'[SegmentOf[x]][x] = maps[SegmentOf[x]][x]
    <3> TAKE x \in Keys
    <3>1. CASE SegmentOf[x] = s
      BY <1>1, <1>10, <2>1, <3>1 DEF m
    <3>2. CASE SegmentOf[x] # s
      BY <1>1, <1>10, <1>11, <3>2
    <3>3. QED
      BY <3>1, <3>2
  <2>3. QED
    BY <1>7, <2>2
<1>14. Mp'[c.key] = Updated(c, m)[c.key]
  <2> HIDE DEF c, s, m
  <2>1. QED
    BY <1>1, <1>2, <1>3, <1>7, <1>10
<1>15. Updated(c, m)[c.key] = EffectOn(c, Mp)[c.key] /\ out = ResultIn(c, Mp)
       /\ EffectOn(c, Mp) = [x \in Keys |-> EffectOn(c, Mp)[x]] /\ \A x \in Keys \ {c.key} : EffectOn(c, Mp)[x] = Mp[x]
  <2> DEFINE upd == Updated(c, m)
  <2>0. m \in [Keys -> Vals \cup {Absent}] /\ c \in Calls /\ op[t].out \in SUBSET Outs
    BY <1>1
  <2>1. m \in [Keys -> Vals \cup {Absent}] /\ Mp = [x \in Keys |-> Mp[x]] /\ c \in Calls /\ c.key \in Keys /\ Mp[c.key] = m[c.key] /\ op[t].out \in SUBSET Outs
    BY <1>1, <1>2, <1>7, <1>12
  <2> DEFINE old == Mp
             eff == EffectOn(c, Mp)
  <2>2. CASE c.k = "put"
    <3>1. upd = [m EXCEPT ![c.key] = c.val] /\ out = {}
      <4> DEFINE o == op[t].out
      <4>1. c \in Calls /\ m \in [Keys -> Vals \cup {Absent}] /\ o \in SUBSET Outs
        BY <2>0
      <4> HIDE DEF c, m, o
      <4>2. Updated(c, m) = [m EXCEPT ![c.key] = c.val] /\ Found(c, m, o) = {}
        BY <2>2, <4>1, BodyIs
      <4>3. QED
        BY <4>2 DEF o
    <3>2. EffectOn(c, Mp) = [Mp EXCEPT ![c.key] = c.val] /\ ResultIn(c, Mp) = {}
      BY <2>2 DEF EffectOn, ResultIn
    <3>3. eff = [old EXCEPT ![c.key] = c.val] /\ old = [x \in Keys |-> old[x]] /\ old[c.key] = m[c.key] /\ m \in [Keys -> Vals \cup {Absent}] /\ c.key \in Keys
      BY <2>1, <3>2
    <3> HIDE DEF c, m, out, upd, old, eff
    <3>4. upd[c.key] = eff[c.key] /\ eff = [x \in Keys |-> eff[x]] /\ \A x \in Keys \ {c.key} : eff[x] = old[x]
      BY <3>1, <3>3
    <3>5. QED
      BY <2>1, <3>1, <3>2, <3>4 DEF upd, eff, old
  <2>3. CASE c.k = "putIfAbsent"
    <3>1. upd = (IF m[c.key] = Absent THEN [m EXCEPT ![c.key] = c.val] ELSE m) /\ out = {m[c.key]} \ {Absent}
      <4> DEFINE o == op[t].out
      <4>1. c \in Calls /\ m \in [Keys -> Vals \cup {Absent}] /\ o \in SUBSET Outs
        BY <2>0
      <4> HIDE DEF c, m, o
      <4>2. Updated(c, m) = (IF m[c.key] = Absent THEN [m EXCEPT ![c.key] = c.val] ELSE m) /\ Found(c, m, o) = {m[c.key]} \ {Absent}
        BY <2>3, <4>1, BodyIs
      <4>3. QED
        BY <4>2 DEF o
    <3>2. EffectOn(c, Mp) = (IF Mp[c.key] = Absent THEN [Mp EXCEPT ![c.key] = c.val] ELSE Mp) /\ ResultIn(c, Mp) = {Mp[c.key]} \ {Absent}
      BY <2>3 DEF EffectOn, ResultIn
    <3>3. eff = (IF old[c.key] = Absent THEN [old EXCEPT ![c.key] = c.val] ELSE old) /\ old = [x \in Keys |-> old[x]] /\ old[c.key] = m[c.key] /\ m \in [Keys -> Vals \cup {Absent}] /\ c.key \in Keys
      BY <2>1, <3>2
    <3> HIDE DEF c, m, out, upd, old, eff
    <3>4. upd[c.key] = eff[c.key] /\ eff = [x \in Keys |-> eff[x]] /\ \A x \in Keys \ {c.key} : eff[x] = old[x]
      BY <3>1, <3>3
    <3>5. QED
      BY <2>1, <3>1, <3>2, <3>4 DEF upd, eff, old
  <2>4. CASE c.k = "get"
    <3>1. upd = m /\ out = {m[c.key]} \ {Absent}
      <4> DEFINE o == op[t].out
      <4>1. c \in Calls /\ m \in [Keys -> Vals \cup {Absent}] /\ o \in SUBSET Outs
        BY <2>0
      <4> HIDE DEF c, m, o
      <4>2. Updated(c, m) = m /\ Found(c, m, o) = {m[c.key]} \ {Absent}
        BY <2>4, <4>1, BodyIs
      <4>3. QED
        BY <4>2 DEF o
    <3>2. EffectOn(c, Mp) = Mp /\ ResultIn(c, Mp) = {Mp[c.key]} \ {Absent}
      BY <2>4 DEF EffectOn, ResultIn
    <3>3. eff = old /\ old = [x \in Keys |-> old[x]] /\ old[c.key] = m[c.key] /\ m \in [Keys -> Vals \cup {Absent}] /\ c.key \in Keys
      BY <2>1, <3>2
    <3> HIDE DEF c, m, out, upd, old, eff
    <3>4. upd[c.key] = eff[c.key] /\ eff = [x \in Keys |-> eff[x]] /\ \A x \in Keys \ {c.key} : eff[x] = old[x]
      BY <3>1, <3>3
    <3>5. QED
      BY <2>1, <3>1, <3>2, <3>4 DEF upd, eff, old
  <2>5. CASE c.k = "remove"
    <3>1. upd = [m EXCEPT ![c.key] = Absent] /\ out = {c.key} \ {x \in Keys : m[x] = Absent}
      <4> DEFINE o == op[t].out
      <4>1. c \in Calls /\ m \in [Keys -> Vals \cup {Absent}] /\ o \in SUBSET Outs
        BY <2>0
      <4> HIDE DEF c, m, o
      <4>2. Updated(c, m) = [m EXCEPT ![c.key] = Absent] /\ Found(c, m, o) = {c.key} \ {x \in Keys : m[x] = Absent}
        BY <2>5, <4>1, BodyIs
      <4>3. QED
        BY <4>2 DEF o
    <3>2. EffectOn(c, Mp) = [Mp EXCEPT ![c.key] = Absent] /\ ResultIn(c, Mp) = {c.key} \cap {x \in Keys : Mp[x] # Absent}
      BY <2>5 DEF EffectOn, ResultIn
    <3>3. eff = [old EXCEPT ![c.key] = Absent] /\ old = [x \in Keys |-> old[x]] /\ old[c.key] = m[c.key] /\ m \in [Keys -> Vals \cup {Absent}] /\ c.key \in Keys
      BY <2>1, <3>2
    <3> HIDE DEF c, m, out, upd, old, eff
    <3>4. upd[c.key] = eff[c.key] /\ eff = [x \in Keys |-> eff[x]] /\ \A x \in Keys \ {c.key} : eff[x] = old[x]
      BY <3>1, <3>3
    <3>5. QED
      BY <2>1, <3>1, <3>2, <3>4 DEF upd, eff, old
  <2>6. QED
    BY <1>2, <2>2, <2>3, <2>4, <2>5
<1>16. Mp' = EffectOn(c, Mp)
  <2>1. Mp' = [x \in Keys |-> Mp'[x]] /\ Mp = [x \in Keys |-> Mp[x]]
    BY <1>7
  <2> HIDE DEF c, s, m, out
  <2>2. QED
    BY <1>2, <1>13, <1>14, <1>15, <2>1
<1>17. QED
  BY <1>2, <1>4, <1>8, <1>9, <1>15, <1>16, AbstractSteps

\* keys takes effect at the last segment.
LEMMA KeysHappens ==
  ASSUME Parameters, Inv, NEW t \in Threads, Run(t), op[t].call.k = "keys"
  PROVE  Atomic!Happen(t) \/ UNCHANGED Atomic!vars
<1> DEFINE c == op[t].call
           s == op[t].seg
           m == maps[s]
           out == Found(c, m, op[t].out)
<1>1. /\ At(t, "run") /\ maps' = [maps EXCEPT ![s] = Updated(c, m)]
      /\ c \in Calls /\ s \in 1 .. Segs /\ m \in [Keys -> Vals \cup {Absent}]
      /\ op[t].out \in SUBSET Outs
      /\ \/ s < LastOf(c) /\ Moved(t, c, "run", s + 1, out)
         \/ s = LastOf(c) /\ Moved(t, c, "unlock", s, out)
  BY RunIs
<1>2. LastOf(c) = Segs /\ c # NoCall /\ c.k = "keys"
  BY <1>1, CallShape DEF Whole
<1>3. maps \in [1 .. Segs -> [Keys -> Vals \cup {Absent}]] /\ Homed /\ Listed
  BY DEF Inv, TypeOK
<1>4. Updated(c, m) = m /\ out = op[t].out \cup {x \in Keys : m[x] # Absent}
  <2> HIDE DEF c, s, m
  <2>1. QED
    BY <1>1, <1>2, BodyIs
<1>5. maps' = maps
  BY <1>1, <1>3, <1>4
<1>6. /\ Cs' = [Cs EXCEPT ![t] = c]
      /\ ~Clearing(t)' /\ \A u \in Threads \ {t} : Clearing(u)' <=> Clearing(u)
      /\ \/ s < Segs /\ Rs' = [Rs EXCEPT ![t] = {"pending"}]
         \/ s = Segs /\ Rs' = [Rs EXCEPT ![t] = out]
  <2>1. CASE s < LastOf(c) /\ Moved(t, c, "run", s + 1, out)
    <3>1. ~(c.k = "clear" /\ s + 1 > 1)
      BY <1>2
    <3> HIDE DEF c, s, m, out
    <3>2. QED
      BY <1>2, <2>1, <3>1, SeenMove
  <2>2. CASE s = LastOf(c) /\ Moved(t, c, "unlock", s, out)
    <3> HIDE DEF c, s, m, out
    <3>1. QED
      BY <1>2, <2>2, SeenMove
  <2>3. QED
    BY <1>1, <2>1, <2>2
<1>7. \A u \in Threads : ~Clearing(u) /\ ~Clearing(u)'
  <2>1. ~Clearing(t)
    BY DEF Clearing
  <2>2. \A u \in Threads \ {t} : ~Clearing(u)
    BY <1>1, NobodyElse DEF Clearing, Whole
  <2>3. QED
    BY <1>6, <2>1, <2>2
<1>8. Mp = [x \in Keys |-> maps[SegmentOf[x]][x]] /\ Mp' = Mp
  BY <1>5, <1>7 DEF Mp, Cl
<1>9. Cs[t] = c /\ Rs[t] = {"pending"} /\ Cs = [u \in Threads |-> Cs[u]] /\ Rs = [u \in Threads |-> Rs[u]]
  BY <1>1, <1>7 DEF Cs, Rs, Pends
<1>10. Cs' = Cs
  BY <1>6, <1>9, SameAt
<1>11. CASE s < Segs
  <2>1. Rs' = [Rs EXCEPT ![t] = {"pending"}]
    <3> HIDE DEF c, s, m, out
    <3>1. QED
      BY <1>1, <1>6, <1>11 DEF Parameters
  <2>2. Rs' = Rs
    BY <1>9, <2>1, SameAt
  <2>3. QED
    BY <1>8, <1>10, <2>2, AbstractSteps
<1>12. CASE s = Segs
  <2>1. Rs' = [Rs EXCEPT ![t] = out]
    <3> HIDE DEF c, s, m, out
    <3>1. QED
      BY <1>1, <1>6, <1>12 DEF Parameters
  <2>2. op[t].out = {x \in Keys : SegmentOf[x] < s /\ maps[SegmentOf[x]][x] # Absent}
    BY <1>1, <1>2, <1>3 DEF Listed
  <2>3. \A x \in Keys : m[x] # Absent => SegmentOf[x] = s
    BY <1>1, <1>3 DEF Homed
  <2>4. \A x \in Keys : SegmentOf[x] \in 1 .. Segs
    BY DEF Parameters
  <2>5. out = {x \in Keys : Mp[x] # Absent}
    <3> HIDE DEF c, s, out
    <3>1. \A x \in Keys : SegmentOf[x] < s \/ SegmentOf[x] = s
      BY <1>12, <2>4 DEF Parameters
    <3>2. \A x : x \in out <=> x \in Keys /\ Mp[x] # Absent
      BY <1>4, <1>8, <2>2, <2>3, <3>1
    <3>3. QED
      BY <3>2
  <2>6. ResultIn(c, Mp) = {x \in Keys : Mp[x] # Absent} /\ EffectOn(c, Mp) = Mp
    BY <1>2 DEF ResultIn, EffectOn
  <2>7. QED
    BY <1>2, <1>8, <1>9, <1>10, <2>1, <2>5, <2>6, AbstractSteps
<1>13. QED
  <2> HIDE DEF s
  <2>1. s < Segs \/ s = Segs
    BY <1>6
  <2>2. QED
    BY <1>11, <1>12, <2>1

\* clear takes effect at the first segment: what is left is hidden from then on.
LEMMA ClearHappens ==
  ASSUME Parameters, Inv, NEW t \in Threads, Run(t), op[t].call.k = "clear"
  PROVE  Atomic!Happen(t) \/ UNCHANGED Atomic!vars
<1> DEFINE c == op[t].call
           s == op[t].seg
           m == maps[s]
           out == Found(c, m, op[t].out)
           none == [x \in Keys |-> Absent]
<1>1. /\ At(t, "run") /\ maps' = [maps EXCEPT ![s] = Updated(c, m)]
      /\ c \in Calls /\ s \in 1 .. Segs /\ m \in [Keys -> Vals \cup {Absent}]
      /\ op[t].out \in SUBSET Outs
      /\ \/ s < LastOf(c) /\ Moved(t, c, "run", s + 1, out)
         \/ s = LastOf(c) /\ Moved(t, c, "unlock", s, out)
  BY RunIs
<1>2. LastOf(c) = Segs /\ c # NoCall /\ c.k = "clear"
  BY <1>1, CallShape DEF Whole
<1>3. maps \in [1 .. Segs -> [Keys -> Vals \cup {Absent}]] /\ Emptied /\ Listed
  BY DEF Inv, TypeOK
<1>4. Updated(c, m) = none /\ out = {}
  <2> HIDE DEF c, s, m
  <2>1. QED
    BY <1>1, <1>2, BodyIs
<1>5. op[t].out = {}
  BY <1>1, <1>2, <1>3 DEF Listed
<1>6. /\ Cs' = [Cs EXCEPT ![t] = c] /\ Rs' = [Rs EXCEPT ![t] = {}]
      /\ Clearing(t)' <=> s < Segs
      /\ \A u \in Threads \ {t} : Clearing(u)' <=> Clearing(u)
  <2>1. CASE s < LastOf(c) /\ Moved(t, c, "run", s + 1, {})
    <3> HIDE DEF c, s, m, out
    <3>1. c.k = "clear" /\ s + 1 > 1
      BY <1>1, <1>2 DEF Parameters
    <3>2. QED
      BY <1>2, <2>1, <3>1, SeenMove
  <2>2. CASE s = LastOf(c) /\ Moved(t, c, "unlock", s, {})
    <3> HIDE DEF c, s, m, out
    <3>1. ~(s < Segs)
      BY <1>1, <1>2, <2>2 DEF Parameters
    <3>2. QED
      BY <1>2, <2>2, <3>1, SeenMove
  <2>3. QED
    BY <1>1, <1>4, <2>1, <2>2
<1>7. \A u \in Threads \ {t} : ~Clearing(u)
  BY <1>1, NobodyElse DEF Clearing, Whole
<1>8. (Cl <=> s > 1) /\ (Cl' <=> s < Segs)
  <2>1. Clearing(t) <=> s > 1
    BY <1>1, <1>2 DEF Clearing
  <2> HIDE DEF s
  <2>2. QED
    BY <1>6, <1>7, <2>1 DEF Cl
<1>9. Cs[t] = c /\ Cs = [u \in Threads |-> Cs[u]] /\ Rs = [u \in Threads |-> Rs[u]]
  BY DEF Cs, Rs
<1>10. Cs' = Cs
  BY <1>6, <1>9, SameAt
<1>11. Mp' = none
  <2>1. CASE s < Segs
    <3> HIDE DEF s
    <3>1. QED
      BY <1>8, <2>1 DEF Mp
  <2>2. CASE ~(s < Segs)
    <3>1. Mp' = [x \in Keys |-> maps'[SegmentOf[x]][x]]
      <4> HIDE DEF s
      <4>1. QED
        BY <1>8, <2>2 DEF Mp
    <3>2. \A x \in Keys : maps'[s][x] = Absent
      <4> HIDE DEF s, c, m
      <4>1. QED
        BY <1>1, <1>3, <1>4
    <3>3. s > 1 => \A r \in 1 .. s - 1, x \in Keys : maps[r][x] = Absent
      BY <1>1, <1>2, <1>3 DEF Emptied, Clearing
    <3> HIDE DEF s, c, m
    <3>4. \A r \in 1 .. Segs : r = s \/ (s > 1 /\ r \in 1 .. s - 1 /\ r # s)
      BY <1>1, <2>2 DEF Parameters
    <3>5. \A r \in 1 .. Segs : r # s => maps'[r] = maps[r]
      BY <1>1, <1>3
    <3>6. \A r \in 1 .. Segs, x \in Keys : maps'[r][x] = Absent
      BY <3>2, <3>3, <3>4, <3>5
    <3>7. \A x \in Keys : maps'[SegmentOf[x]][x] = Absent
      BY <3>6 DEF Parameters
    <3>8. QED
      BY <3>1, <3>7
  <2>3. QED
    BY <2>1, <2>2
<1>12. CASE s > 1
  <2>1. Mp = none
    <3> HIDE DEF s
    <3>1. QED
      BY <1>8, <1>12 DEF Mp
  <2>2. Rs[t] = {}
    BY <1>1, <1>2, <1>5, <1>12 DEF Rs, Pends, Clearing, At
  <2>3. Rs' = Rs
    BY <1>6, <1>9, <2>2, SameAt
  <2>4. QED
    BY <1>10, <1>11, <2>1, <2>3, AbstractSteps
<1>13. CASE ~(s > 1)
  <2>1. Rs[t] = {"pending"}
    BY <1>1, <1>13 DEF Rs, Pends, Clearing
  <2>2. EffectOn(c, Mp) = none /\ ResultIn(c, Mp) = {}
    BY <1>2 DEF EffectOn, ResultIn
  <2>3. QED
    BY <1>2, <1>6, <1>9, <1>10, <1>11, <2>1, <2>2, AbstractSteps
<1>14. QED
  BY <1>12, <1>13

\* Every step is a step of AtomicMap or none.
LEMMA StepRefines ==
  ASSUME Parameters, ~RehashThrows, Inv, [Next]_vars
  PROVE  [Atomic!Next]_Atomic!vars
<1>1. ASSUME NEW t \in Threads, Acts(t) PROVE [Atomic!Next]_Atomic!vars
  <2>1. CASE \E c \in Calls : Begin(t, c)
    BY <2>1, BeginRefines DEF Atomic!Next
  <2>2. CASE Lock(t)
    BY <2>2, LockRefines
  <2>3. CASE Throw(t)
    BY <2>3, ThrowRefines DEF Atomic!Next
  <2>4. CASE Unlock(t)
    BY <2>4, UnlockRefines DEF Atomic!Next
  <2>5. CASE Run(t)
    <3>1. CASE ~Whole(op[t].call)
      BY <2>5, <3>1, OneKeyHappens DEF Atomic!Next
    <3>2. CASE Whole(op[t].call)
      <4>1. Atomic!Happen(t) \/ UNCHANGED Atomic!vars
        BY <2>5, <3>2, KeysHappens, ClearHappens DEF Whole
      <4>2. QED
        BY <4>1 DEF Atomic!Next
    <3>3. QED
      BY <3>1, <3>2
  <2>6. QED
    BY <1>1, <2>1, <2>2, <2>3, <2>4, <2>5 DEF Acts
<1>2. CASE Next
  <2>1. PICK t \in Threads : Acts(t)
    BY <1>2 DEF Next, Acts
  <2>2. QED
    BY <1>1, <2>1
<1>3. CASE UNCHANGED vars
  <2>1. Mp' = Mp /\ Rs' = Rs /\ Cs' = Cs
    BY <1>3 DEF vars, Mp, Rs, Cs, Pends, Cl, Clearing, At
  <2>2. UNCHANGED Atomic!vars
    BY <2>1 DEF Atomic!vars, Cs, Rs, Mp, Pends, Cl
  <2>3. QED
    BY <2>2
<1>4. QED
  BY <1>2, <1>3

\* The map starts empty, nothing is called.
LEMMA InitRefines ==
  ASSUME Parameters, Init
  PROVE  Atomic!Init
<1>1. \A t \in Threads : op[t].call = NoCall /\ op[t].at = "idle" /\ op[t].out = {}
  BY DEF Init, Idle
<1>2. \A t \in Threads : ~Clearing(t) /\ ~At(t, "lock") /\ ~At(t, "run")
  BY <1>1 DEF Clearing, At
<1>3. \A x \in Keys : maps[SegmentOf[x]][x] = Absent
  BY DEF Init, Parameters
<1>4. QED
  BY <1>1, <1>2, <1>3 DEF Atomic!Init, Atomic!NoCall, NoCall

\* The segmented map behaves as one map on which every operation happens at
\* one instant between its call and its return, or throws and changes nothing,
\* if no key throws while its table is rehashed (an insertion that throws there
\* loses entries).
THEOREM Refinement ==
  ASSUME Parameters, ~RehashThrows
  PROVE  Spec => ImplementsAtomicMap
<1>1. Init => Atomic!Init
  BY InitRefines
<1>2. Inv /\ [Next]_vars => [Atomic!Next]_Atomic!vars
  BY StepRefines
<1>3. QED
  BY <1>1, <1>2, Invariant, PTL DEF Spec, ImplementsAtomicMap, Atomic!Spec
=============================================================================

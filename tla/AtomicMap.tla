----------------------------- MODULE AtomicMap ------------------------------
(***************************************************************************)
(* A map that several threads use as if each operation happened at one     *)
(* instant between its call and its return.  ConcurrentHashMap implements  *)
(* this.                                                                   *)
(***************************************************************************)
CONSTANTS Threads, Keys, Vals, Absent, Calls
VARIABLES map,      \* the value of each key, or Absent
          call,     \* what a thread has called and has not taken effect
          res       \* the result a thread will return
vars == <<map, call, res>>

NoCall == [k |-> "none"]
Pending == {"pending"}
Present == {x \in Keys : map[x] # Absent}

(* Results are sets: the value found, the key removed, the keys listed.    *)
Result(c) == CASE c.k \in {"get", "putIfAbsent"} -> {map[c.key]} \ {Absent}
               [] c.k = "remove" -> {c.key} \cap Present
               [] c.k = "keys" -> Present
               [] OTHER -> {}
Effect(c) == CASE c.k = "put" -> [map EXCEPT ![c.key] = c.val]
               [] c.k = "putIfAbsent" /\ map[c.key] = Absent -> [map EXCEPT ![c.key] = c.val]
               [] c.k = "remove" -> [map EXCEPT ![c.key] = Absent]
               [] c.k = "clear" -> [x \in Keys |-> Absent]
               [] OTHER -> map

Invoke(t, c) == call[t] = NoCall /\ call' = [call EXCEPT ![t] = c]
                /\ res' = [res EXCEPT ![t] = Pending] /\ map' = map
Happen(t) == call[t] # NoCall /\ res[t] = Pending
             /\ map' = Effect(call[t]) /\ res' = [res EXCEPT ![t] = Result(call[t])] /\ call' = call
(* An exception: nothing happens.                                          *)
Fail(t) == call[t] # NoCall /\ res[t] = Pending
           /\ res' = [res EXCEPT ![t] = {"failed"}] /\ UNCHANGED <<map, call>>
Return(t) == call[t] # NoCall /\ res[t] # Pending
             /\ call' = [call EXCEPT ![t] = NoCall] /\ res' = [res EXCEPT ![t] = {}] /\ map' = map

Init == map = [x \in Keys |-> Absent] /\ call = [t \in Threads |-> NoCall]
        /\ res = [t \in Threads |-> {}]
Next == \E t \in Threads : Happen(t) \/ Fail(t) \/ Return(t) \/ \E c \in Calls : Invoke(t, c)
Spec == Init /\ [][Next]_vars
=============================================================================

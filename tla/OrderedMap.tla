----------------------------- MODULE OrderedMap -----------------------------
(***************************************************************************)
(* What a map with insertion order promises: a key has the value put last, *)
(* keys come in the order they were first put in, and putting a key that   *)
(* is there does not move it.  LinkedHashMap implements this.              *)
(***************************************************************************)
EXTENDS Naturals, Sequences, SequencesExt

CONSTANTS Keys, Vals, Absent
VARIABLES order, view, size
vars == <<order, view, size>>

put(k, v) ==
    /\ size' = size + (IF view[k] = Absent THEN 1 ELSE 0)
    /\ order' = IF view[k] = Absent THEN Append(order, k) ELSE order
    /\ view' = [view EXCEPT ![k] = v]
remove(k) ==
    /\ view[k] # Absent
    /\ size' = size - 1
    /\ order' = SelectSeq(order, LAMBDA x : x # k)
    /\ view' = [view EXCEPT ![k] = Absent]
clear == size' = 0 /\ order' = <<>> /\ view' = [k \in Keys |-> Absent]

Init == order = <<>> /\ view = [k \in Keys |-> Absent] /\ size = 0
Next == (\E k \in Keys : remove(k) \/ \E v \in Vals : put(k, v)) \/ clear
Spec == Init /\ [][Next]_vars
=============================================================================

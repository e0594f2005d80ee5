------------------------ MODULE CompilerParts_proof -------------------------
(***************************************************************************)
(* Proofs about three parts of what the compiler emits and its runtime.    *)
(*                                                                         *)
(* NativeHandle: when a program lets one thread at a time call on a handle *)
(* (Ordered), every resource given to it is released once, not used        *)
(* afterwards, and never forgotten, for any number of threads and of       *)
(* resources that pass through the handle.                                 *)
(*                                                                         *)
(* StaticInit: on one thread every class is initialised once and before it *)
(* is used, whatever the initialisers refer to and wherever what they      *)
(* throw is caught.                                                        *)
(*                                                                         *)
(* ExcFrames: the frames, slots and dispatch blocks of compiled code do    *)
(* what TryFinally says of try, catch and finally, for any number of       *)
(* activations, of constructs in them and of statements, if no exception   *)
(* passes by the first of several catch clauses.                           *)
(***************************************************************************)
EXTENDS NativeHandle, Integers, FiniteSetTheorems, SequenceTheorems, WellFoundedInduction, TLAPS


-----------------------------------------------------------------------------
(* The inductive invariant, in parts.                                      *)

(* One call at a time; the finalizer comes when calls are over.            *)
OneActive ==
    /\ \A t, u \in Threads : pc[t] # "idle" /\ pc[u] # "idle" => t = u
    /\ \A t \in Threads : pc[t] = "finalize" => lost /\ ~finalizer
    /\ lost => \A t \in Threads : pc[t] \in {"idle", "finalize"}

(* The fields agree with each other and with the promise made of raw.      *)
FieldsInv ==
    /\ closed <=> raw = Nil
    /\ closed => ~drop
    /\ raw # Nil => (drop <=> raw \in owed)

Closing == {"close", "clear", "drop", "reset", "attach"}

(* What a thread in a call knows of the handle.                            *)
CallInv ==
    \A t \in Threads :
        /\ pc[t] \in {"clear", "drop", "reset", "guard", "take", "use"} => ~closed
        /\ pc[t] \in {"attach", "join"} => closed /\ arg[t].raw # Nil
        /\ pc[t] \in Closing => (arg[t].raw # Nil => arg[t].raw # raw)
        /\ pc[t] = "take" => arg[t] = [raw |-> raw, drop |-> drop]
        /\ pc[t] = "use" => arg[t].raw = raw
        /\ pc[t] # "use" => (arg[t].drop <=> arg[t].raw \in owed)

(* A resource that the handle or a call still has was not released, but    *)
(* for the moment between the drop and the reset of close.                 *)
FreshInv ==
    /\ raw # Nil => released[raw] = 0 \/ \E t \in Threads : pc[t] = "reset"
    /\ \A t \in Threads :
          pc[t] \in Closing \union {"take", "join"} /\ arg[t].raw # Nil => released[arg[t].raw] = 0
    /\ \A t \in Threads : pc[t] = "reset" => released[raw] = IF drop THEN 1 ELSE 0

(* A resource that was to be released was, or the handle or a call has it. *)
LedgerInv ==
    \A r \in Raws :
        /\ released[r] <= 1
        /\ r \in owed /\ released[r] = 0 =>
              raw = r \/ \E t \in Threads : pc[t] # "use" /\ arg[t].raw = r

(* An open handle has its finalizer, or a call is just about to set or     *)
(* void it.                                                                *)
GuardInv ==
    ~closed => finalizer \/ \E t \in Threads : pc[t] \in {"drop", "reset", "guard", "finalize"}

IInv == OneActive /\ FieldsInv /\ CallInv /\ FreshInv /\ LedgerInv /\ GuardInv

-----------------------------------------------------------------------------
(* Types.  A drop function never goes without a resource, so a call that   *)
(* has nothing to attach leaves nothing behind.                            *)

TypeInv ==
    /\ TypeOK
    /\ raw = Nil => ~drop
    /\ \A t \in Threads : arg[t].raw = Nil => ~arg[t].drop

(* The variables keep their types however threads race on the handle.      *)
THEOREM TypeCorrect == Spec => []TypeOK
<1>1. Init => TypeInv
  <2> SUFFICES ASSUME Init PROVE TypeInv
    OBVIOUS
  <2>1. NoArg \in [raw : Raws \union {Nil}, drop : BOOLEAN]
    BY DEF NoArg
  <2>2. QED
    BY <2>1 DEF Init, TypeInv, TypeOK, PC, NoArg
<1>2. TypeInv /\ [Next]_vars => TypeInv'
  <2> SUFFICES ASSUME TypeInv, [Next]_vars PROVE TypeInv'
    OBVIOUS
  <2> USE NilAssumption DEF TypeInv, TypeOK, PC, NoArg, CanCall, At, Goto, Release, AfterClose, handle
  <2>1. ASSUME NEW t \in Threads, Close(t) PROVE TypeInv'
    BY <2>1 DEF Close
  <2>2. ASSUME NEW t \in Threads, Attach(t) PROVE TypeInv'
    <3>1. PICK r \in Raws, d \in BOOLEAN :
            /\ arg' = [arg EXCEPT ![t] = [raw |-> r, drop |-> d]]
            /\ owed' = IF d THEN owed \union {r} ELSE owed
      BY <2>2 DEF Attach
    <3>2. arg' \in [Threads -> [raw : Raws \union {Nil}, drop : BOOLEAN]] /\ arg'[t].raw # Nil
      BY <3>1
    <3>3. \A u \in Threads : u # t => arg'[u] = arg[u] /\ pc'[u] = pc[u]
      BY <2>2, <3>1 DEF Attach
    <3>4. QED
      BY <2>2, <3>1, <3>2, <3>3 DEF Attach
  <2>3. ASSUME NEW t \in Threads, CloseTests(t) PROVE TypeInv'
    BY <2>3 DEF CloseTests
  <2>4. ASSUME NEW t \in Threads, CloseClearsFinalizer(t) PROVE TypeInv'
    BY <2>4 DEF CloseClearsFinalizer
  <2>5. ASSUME NEW t \in Threads, CloseDrops(t) PROVE TypeInv'
    BY <2>5 DEF CloseDrops
  <2>6. ASSUME NEW t \in Threads, CloseResets(t) PROVE TypeInv'
    BY <2>6 DEF CloseResets
  <2>7. ASSUME NEW t \in Threads, AttachSets(t) PROVE TypeInv'
    BY <2>7 DEF AttachSets
  <2>8. ASSUME NEW t \in Threads, AttachGuards(t) PROVE TypeInv'
    BY <2>8 DEF AttachGuards
  <2>9. ASSUME NEW t \in Threads, hao_handle_raw(t) PROVE TypeInv'
    <3>1. /\ raw \in Raws /\ arg' = [arg EXCEPT ![t].raw = raw] /\ pc' = [pc EXCEPT ![t] = "use"]
          /\ UNCHANGED <<handle, finalizer, lost, owed, released>>
      BY <2>9 DEF hao_handle_raw
    <3>2. /\ arg' \in [Threads -> [raw : Raws \union {Nil}, drop : BOOLEAN]] /\ arg'[t].raw = raw
          /\ \A u \in Threads : u # t => arg'[u] = arg[u]
      BY <3>1
    <3>3. \A u \in Threads : arg'[u].raw = Nil => ~arg'[u].drop
      BY <3>1, <3>2
    <3>4. QED
      BY <3>1, <3>2, <3>3
  <2>10. ASSUME NEW t \in Threads, UseEnds(t) PROVE TypeInv'
    BY <2>10 DEF UseEnds
  <2>11. ASSUME NEW t \in Threads, Join(t) PROVE TypeInv'
    BY <2>11 DEF Join
  <2>12. ASSUME NEW t \in Threads, JoinTakes(t) PROVE TypeInv'
    BY <2>12 DEF JoinTakes
  <2>13. ASSUME NEW t \in Threads, JoinEnds(t) PROVE TypeInv'
    <3>1. released' \in [Raws -> Nat]
      BY <2>13 DEF JoinEnds
    <3>2. QED
      BY <2>13, <3>1 DEF JoinEnds
  <2>14. ASSUME NEW t \in Threads, Swept(t) PROVE TypeInv'
    BY <2>14 DEF Swept
  <2>15. ASSUME NEW t \in Threads, hao_handle_finalize(t) PROVE TypeInv'
    <3>1. released' \in [Raws -> Nat]
      BY <2>15 DEF hao_handle_finalize
    <3>2. QED
      BY <2>15, <3>1 DEF hao_handle_finalize
  <2>16. CASE Forget
    BY <2>16 DEF Forget
  <2>17. CASE UNCHANGED vars
    BY <2>17 DEF vars
  <2>18. QED
    BY <2>1, <2>2, <2>3, <2>4, <2>5, <2>6, <2>7, <2>8, <2>9, <2>10, <2>11, <2>12, <2>13, <2>14, <2>15, <2>16, <2>17 DEF Next
<1>3. TypeInv => TypeOK
  BY DEF TypeInv
<1>4. QED
  BY <1>1, <1>2, <1>3, PTL DEF Spec

-----------------------------------------------------------------------------
(* Preservation.                                                           *)

(* An empty handle.                                                        *)
LEMMA InitInv == Init => IInv
  BY NilAssumption DEF Init, IInv, OneActive, FieldsInv, CallInv, Closing, FreshInv, LedgerInv, GuardInv, NoArg

(* A call of close begins.                                                 *)
LEMMA CloseInv ==
    ASSUME TypeOK, TypeOK', IInv, Ordered, NEW t \in Threads, Close(t)
    PROVE  IInv'
<1> USE NilAssumption DEF TypeOK, PC, NoArg, CanCall, handle, At, Goto, Close
<1>1. OneActive'
  BY DEF IInv, OneActive
<1>2. FieldsInv'
  BY DEF IInv, FieldsInv
<1>3. CallInv'
  BY DEF IInv, CallInv
<1>4. FreshInv'
  BY DEF IInv, FreshInv
<1>5. LedgerInv'
  BY DEF IInv, LedgerInv
<1>6. GuardInv'
  BY DEF IInv, GuardInv
<1>7. QED
  BY <1>1, <1>2, <1>3, <1>4, <1>5, <1>6 DEF IInv

(* A call of attach begins: the new resource is fresh.                     *)
LEMMA AttachInv ==
    ASSUME TypeOK, TypeOK', IInv, Ordered, NEW t \in Threads, Attach(t)
    PROVE  IInv'
<1> USE NilAssumption DEF TypeOK, PC, NoArg, CanCall, handle, At, Goto, Attach
<1>1. OneActive'
  BY DEF IInv, OneActive
<1>2. FieldsInv'
  BY DEF IInv, FieldsInv
<1>3. CallInv'
  BY DEF IInv, CallInv
<1>4. FreshInv'
  BY DEF IInv, FreshInv
<1>5. LedgerInv'
  BY DEF IInv, LedgerInv
<1>6. GuardInv'
  BY DEF IInv, GuardInv
<1>7. QED
  BY <1>1, <1>2, <1>3, <1>4, <1>5, <1>6 DEF IInv

(* The test of closed.                                                     *)
LEMMA CloseTestsInv ==
    ASSUME TypeOK, TypeOK', IInv, Ordered, NEW t \in Threads, CloseTests(t)
    PROVE  IInv'
<1> USE NilAssumption DEF TypeOK, PC, NoArg, AfterClose, handle, At, Goto, CloseTests
<1>1. OneActive'
  BY DEF IInv, OneActive
<1>2. FieldsInv'
  BY DEF IInv, FieldsInv
<1>3. CallInv'
  BY DEF IInv, CallInv, Closing
<1>4. FreshInv'
  BY DEF IInv, FreshInv, Closing
<1>5. LedgerInv'
  BY DEF IInv, LedgerInv
<1>6. GuardInv'
  BY DEF IInv, GuardInv
<1>7. QED
  BY <1>1, <1>2, <1>3, <1>4, <1>5, <1>6 DEF IInv

(* The finalizer is taken off first.                                       *)
LEMMA CloseClearsFinalizerInv ==
    ASSUME TypeOK, TypeOK', IInv, Ordered, NEW t \in Threads, CloseClearsFinalizer(t)
    PROVE  IInv'
<1> USE NilAssumption DEF TypeOK, PC, NoArg, handle, At, Goto, CloseClearsFinalizer
<1>1. OneActive'
  BY DEF IInv, OneActive
<1>2. FieldsInv'
  BY DEF IInv, FieldsInv
<1>3. CallInv'
  BY DEF IInv, CallInv, Closing
<1>4. FreshInv'
  BY DEF IInv, FreshInv, Closing
<1>5. LedgerInv'
  BY DEF IInv, LedgerInv
<1>6. GuardInv'
  BY DEF IInv, GuardInv
<1>7. QED
  BY <1>1, <1>2, <1>3, <1>4, <1>5, <1>6 DEF IInv

(* The drop: the one release of raw.                                       *)
LEMMA CloseDropsInv ==
    ASSUME TypeOK, TypeOK', IInv, Ordered, NEW t \in Threads, CloseDrops(t)
    PROVE  IInv'
<1> USE NilAssumption DEF TypeOK, PC, NoArg, Release, handle, At, Goto, CloseDrops
<1>1. OneActive'
  BY DEF IInv, OneActive
<1>2. FieldsInv'
  BY DEF IInv, FieldsInv
<1>3. CallInv'
  BY DEF IInv, CallInv, Closing
<1>4. FreshInv'
  BY DEF IInv, OneActive, FieldsInv, CallInv, FreshInv, Closing
<1>5. LedgerInv'
  BY DEF IInv, OneActive, FreshInv, LedgerInv
<1>6. GuardInv'
  BY DEF IInv, GuardInv
<1>7. QED
  BY <1>1, <1>2, <1>3, <1>4, <1>5, <1>6 DEF IInv

(* The handle is empty; an attach goes on.                                 *)
LEMMA CloseResetsInv ==
    ASSUME TypeOK, TypeOK', IInv, Ordered, NEW t \in Threads, CloseResets(t)
    PROVE  IInv'
<1> USE NilAssumption DEF TypeOK, PC, NoArg, AfterClose, At, Goto, CloseResets
<1>1. OneActive'
  BY DEF IInv, OneActive
<1>2. FieldsInv'
  BY DEF IInv, FieldsInv
<1>3. CallInv'
  BY DEF IInv, OneActive, CallInv
<1>4. FreshInv'
  BY DEF IInv, OneActive, FreshInv, Closing
<1>5. LedgerInv'
  BY DEF IInv, FieldsInv, FreshInv, LedgerInv
<1>6. GuardInv'
  BY DEF IInv, GuardInv
<1>7. QED
  BY <1>1, <1>2, <1>3, <1>4, <1>5, <1>6 DEF IInv

(* The handle takes the resource over from the call.                       *)
LEMMA AttachSetsInv ==
    ASSUME TypeOK, TypeOK', IInv, Ordered, NEW t \in Threads, AttachSets(t)
    PROVE  IInv'
<1> USE NilAssumption DEF TypeOK, PC, NoArg, At, Goto, AttachSets
<1>1. OneActive'
  BY DEF IInv, OneActive
<1>2. FieldsInv'
  BY DEF IInv, FieldsInv, CallInv
<1>3. CallInv'
  BY DEF IInv, OneActive, CallInv
<1>4. FreshInv'
  BY DEF IInv, CallInv, FreshInv, Closing
<1>5. LedgerInv'
  BY DEF IInv, FieldsInv, CallInv, LedgerInv
<1>6. GuardInv'
  BY DEF IInv, GuardInv
<1>7. QED
  BY <1>1, <1>2, <1>3, <1>4, <1>5, <1>6 DEF IInv

(* The finalizer is set.                                                   *)
LEMMA AttachGuardsInv ==
    ASSUME TypeOK, TypeOK', IInv, Ordered, NEW t \in Threads, AttachGuards(t)
    PROVE  IInv'
<1> USE NilAssumption DEF TypeOK, PC, NoArg, handle, At, Goto, AttachGuards
<1>1. OneActive'
  BY DEF IInv, OneActive
<1>2. FieldsInv'
  BY DEF IInv, FieldsInv
<1>3. CallInv'
  BY DEF IInv, CallInv
<1>4. FreshInv'
  BY DEF IInv, FreshInv
<1>5. LedgerInv'
  BY DEF IInv, LedgerInv
<1>6. GuardInv'
  BY DEF IInv, GuardInv
<1>7. QED
  BY <1>1, <1>2, <1>3, <1>4, <1>5, <1>6 DEF IInv

(* A caller borrows raw.                                                   *)
LEMMA hao_handle_rawInv ==
    ASSUME TypeOK, TypeOK', IInv, Ordered, NEW t \in Threads, hao_handle_raw(t)
    PROVE  IInv'
<1> USE NilAssumption DEF TypeOK, PC, NoArg, CanCall, handle, At, Goto, hao_handle_raw
<1>1. OneActive'
  BY DEF IInv, OneActive
<1>2. FieldsInv'
  BY DEF IInv, FieldsInv
<1>3. CallInv'
  BY DEF IInv, CallInv, Closing
<1>4. FreshInv'
  BY DEF IInv, FreshInv
<1>5. LedgerInv'
  BY DEF IInv, LedgerInv
<1>6. GuardInv'
  BY DEF IInv, GuardInv
<1>7. QED
  BY <1>1, <1>2, <1>3, <1>4, <1>5, <1>6 DEF IInv

(* It is done with it.                                                     *)
LEMMA UseEndsInv ==
    ASSUME TypeOK, TypeOK', IInv, Ordered, NEW t \in Threads, UseEnds(t)
    PROVE  IInv'
<1> USE NilAssumption DEF TypeOK, PC, NoArg, handle, At, Goto, UseEnds
<1>1. OneActive'
  BY DEF IInv, OneActive
<1>2. FieldsInv'
  BY DEF IInv, FieldsInv
<1>3. CallInv'
  BY DEF IInv, CallInv
<1>4. FreshInv'
  BY DEF IInv, FreshInv
<1>5. LedgerInv'
  BY DEF IInv, LedgerInv
<1>6. GuardInv'
  BY DEF IInv, GuardInv
<1>7. QED
  BY <1>1, <1>2, <1>3, <1>4, <1>5, <1>6 DEF IInv

(* A join reads the handle.                                                *)
LEMMA JoinInv ==
    ASSUME TypeOK, TypeOK', IInv, Ordered, NEW t \in Threads, Join(t)
    PROVE  IInv'
<1> USE NilAssumption DEF TypeOK, PC, NoArg, CanCall, handle, At, Goto, Join
<1>1. OneActive'
  BY DEF IInv, OneActive
<1>2. FieldsInv'
  BY DEF IInv, FieldsInv
<1>3. CallInv'
  BY DEF IInv, FieldsInv, CallInv, Closing
<1>4. FreshInv'
  BY DEF IInv, FreshInv
<1>5. LedgerInv'
  BY DEF IInv, LedgerInv
<1>6. GuardInv'
  BY DEF IInv, GuardInv
<1>7. QED
  BY <1>1, <1>2, <1>3, <1>4, <1>5, <1>6 DEF IInv

(* It takes the resource out.                                              *)
LEMMA JoinTakesInv ==
    ASSUME TypeOK, TypeOK', IInv, Ordered, NEW t \in Threads, JoinTakes(t)
    PROVE  IInv'
<1> USE NilAssumption DEF TypeOK, PC, NoArg, At, Goto, JoinTakes
<1>1. OneActive'
  BY DEF IInv, OneActive
<1>2. FieldsInv'
  BY DEF IInv, FieldsInv
<1>3. CallInv'
  BY DEF IInv, OneActive, FieldsInv, CallInv
<1>4. FreshInv'
  BY DEF IInv, OneActive, FreshInv
<1>5. LedgerInv'
  BY DEF IInv, CallInv, LedgerInv
<1>6. GuardInv'
  BY DEF IInv, GuardInv
<1>7. QED
  BY <1>1, <1>2, <1>3, <1>4, <1>5, <1>6 DEF IInv

(* The join is the release.                                                *)
LEMMA JoinEndsInv ==
    ASSUME TypeOK, TypeOK', IInv, Ordered, NEW t \in Threads, JoinEnds(t)
    PROVE  IInv'
<1> USE NilAssumption DEF TypeOK, PC, NoArg, Release, handle, At, Goto, JoinEnds
<1>1. OneActive'
  BY DEF IInv, OneActive
<1>2. FieldsInv'
  BY DEF IInv, FieldsInv
<1>3. CallInv'
  BY DEF IInv, CallInv
<1>4. FreshInv'
  BY DEF IInv, OneActive, FieldsInv, CallInv, FreshInv
<1>5. LedgerInv'
  BY DEF IInv, CallInv, FreshInv, LedgerInv
<1>6. GuardInv'
  BY DEF IInv, GuardInv
<1>7. QED
  BY <1>1, <1>2, <1>3, <1>4, <1>5, <1>6 DEF IInv

(* The object is found unreachable.                                        *)
LEMMA SweptInv ==
    ASSUME TypeOK, TypeOK', IInv, Ordered, NEW t \in Threads, Swept(t)
    PROVE  IInv'
<1> USE NilAssumption DEF TypeOK, PC, NoArg, handle, At, Goto, Swept
<1>1. OneActive'
  BY DEF IInv, OneActive
<1>2. FieldsInv'
  BY DEF IInv, FieldsInv
<1>3. CallInv'
  BY DEF IInv, CallInv
<1>4. FreshInv'
  BY DEF IInv, FreshInv
<1>5. LedgerInv'
  BY DEF IInv, LedgerInv
<1>6. GuardInv'
  BY DEF IInv, GuardInv
<1>7. QED
  BY <1>1, <1>2, <1>3, <1>4, <1>5, <1>6 DEF IInv

(* The finalizer releases what is left.                                    *)
LEMMA hao_handle_finalizeInv ==
    ASSUME TypeOK, TypeOK', IInv, Ordered, NEW t \in Threads, hao_handle_finalize(t)
    PROVE  IInv'
<1> USE NilAssumption DEF TypeOK, PC, NoArg, Release, handle, At, Goto, hao_handle_finalize
<1>1. OneActive'
  BY DEF IInv, OneActive
<1>2. FieldsInv'
  BY DEF IInv, FieldsInv
<1>3. CallInv'
  BY DEF IInv, OneActive, CallInv
<1>4. FreshInv'
  BY DEF IInv, OneActive, FreshInv
<1>5. LedgerInv'
  BY DEF IInv, OneActive, FieldsInv, FreshInv, LedgerInv
<1>6. GuardInv'
  BY DEF IInv, GuardInv
<1>7. QED
  BY <1>1, <1>2, <1>3, <1>4, <1>5, <1>6 DEF IInv

(* The last reference goes when no call is under way.                      *)
LEMMA ForgetInv ==
    ASSUME TypeOK, IInv, Forget
    PROVE  IInv'
BY DEF TypeOK, Forget, handle, At, IInv, OneActive, FieldsInv, CallInv, FreshInv, LedgerInv, GuardInv

LEMMA StutterInv == ASSUME IInv, UNCHANGED vars PROVE IInv'
BY DEF vars, handle, IInv, OneActive, FieldsInv, CallInv, FreshInv, LedgerInv, GuardInv

LEMMA StepInv == ASSUME TypeOK, TypeOK', IInv, Ordered, [Next]_vars PROVE IInv'
<1>1. ASSUME NEW t \in Threads, Close(t) PROVE IInv'
  BY <1>1, CloseInv
<1>2. ASSUME NEW t \in Threads, Attach(t) PROVE IInv'
  BY <1>2, AttachInv
<1>3. ASSUME NEW t \in Threads, CloseTests(t) PROVE IInv'
  BY <1>3, CloseTestsInv
<1>4. ASSUME NEW t \in Threads, CloseClearsFinalizer(t) PROVE IInv'
  BY <1>4, CloseClearsFinalizerInv
<1>5. ASSUME NEW t \in Threads, CloseDrops(t) PROVE IInv'
  BY <1>5, CloseDropsInv
<1>6. ASSUME NEW t \in Threads, CloseResets(t) PROVE IInv'
  BY <1>6, CloseResetsInv
<1>7. ASSUME NEW t \in Threads, AttachSets(t) PROVE IInv'
  BY <1>7, AttachSetsInv
<1>8. ASSUME NEW t \in Threads, AttachGuards(t) PROVE IInv'
  BY <1>8, AttachGuardsInv
<1>9. ASSUME NEW t \in Threads, hao_handle_raw(t) PROVE IInv'
  BY <1>9, hao_handle_rawInv
<1>10. ASSUME NEW t \in Threads, UseEnds(t) PROVE IInv'
  BY <1>10, UseEndsInv
<1>11. ASSUME NEW t \in Threads, Join(t) PROVE IInv'
  BY <1>11, JoinInv
<1>12. ASSUME NEW t \in Threads, JoinTakes(t) PROVE IInv'
  BY <1>12, JoinTakesInv
<1>13. ASSUME NEW t \in Threads, JoinEnds(t) PROVE IInv'
  BY <1>13, JoinEndsInv
<1>14. ASSUME NEW t \in Threads, Swept(t) PROVE IInv'
  BY <1>14, SweptInv
<1>15. ASSUME NEW t \in Threads, hao_handle_finalize(t) PROVE IInv'
  BY <1>15, hao_handle_finalizeInv
<1>16. QED
  BY <1>1, <1>2, <1>3, <1>4, <1>5, <1>6, <1>7, <1>8, <1>9, <1>10, <1>11, <1>12, <1>13, <1>14, <1>15, ForgetInv, StutterInv DEF Next

LEMMA Invariance == ASSUME Ordered PROVE Spec => []IInv
<1>1. TypeOK /\ TypeOK' /\ IInv /\ [Next]_vars => IInv'
  BY StepInv
<1>2. QED
  BY <1>1, InitInv, TypeCorrect, PTL DEF Spec

-----------------------------------------------------------------------------

(* Whatever sequence of attach, wrap, close, join and loss a program makes *)
(* of a handle, one call at a time, no resource is released twice and no   *)
(* caller of hao_handle_raw is left with one that was released.            *)
THEOREM OneRelease == ASSUME Ordered PROVE Spec => []ReleasedOnce
<1>1. TypeOK /\ IInv => ReleasedOnce
  <2> SUFFICES ASSUME TypeOK, IInv PROVE ReleasedOnce
    OBVIOUS
  <2>1. DropOnce
    BY DEF IInv, LedgerInv, DropOnce
  <2>2. ASSUME NEW t \in Threads, At(t, "use") PROVE released[arg[t].raw] = 0
    <3>1. arg[t].raw = raw /\ raw # Nil
      BY <2>2 DEF IInv, CallInv, FieldsInv, At
    <3>2. \A u \in Threads : pc[u] # "reset"
      BY <2>2 DEF IInv, OneActive, At
    <3>3. QED
      BY <3>1, <3>2 DEF IInv, FreshInv
  <2>3. QED
    BY <2>1, <2>2 DEF ReleasedOnce
<1>2. QED
  BY <1>1, Invariance, TypeCorrect, PTL

(* No resource that was given to the handle to be released is forgotten:   *)
(* between calls it was released, or the handle has it and its finalizer.  *)
THEOREM NothingForgotten == ASSUME Ordered PROVE Spec => []NoLeak
<1>1. TypeOK /\ IInv => NoLeak
  <2> SUFFICES ASSUME TypeOK, IInv, \A t \in Threads : At(t, "idle"),
                      NEW r \in owed, released[r] = 0
               PROVE  raw = r /\ drop /\ ~closed /\ finalizer
    BY DEF NoLeak
  <2>1. r \in Raws /\ r # Nil
    BY NilAssumption DEF TypeOK
  <2>2. raw = r
    BY <2>1 DEF IInv, LedgerInv, TypeOK, At, NoArg
  <2>3. drop /\ ~closed
    BY <2>1, <2>2 DEF IInv, FieldsInv
  <2>4. QED
    BY <2>2, <2>3 DEF IInv, GuardInv, At
<1>2. QED
  BY <1>1, Invariance, TypeCorrect, PTL

-----------------------------------------------------------------------------
(* Static initialisation.                                                  *)

CONSTANTS Classes, Nobody, Pieces
VARIABLES uses, guard, set, stack, reg, failed, early, runs
Static == INSTANCE StaticInit

(* What the constants are, and one thread.                                 *)
OneThread ==
  /\ Pieces \in Nat
  /\ Nobody \notin Classes
  /\ \A t, u \in Threads : t = u

StaticFrame == [c : Classes, at : 1 .. Pieces + 1, used : BOOLEAN]

StaticTyped ==
  /\ guard \in [Classes -> 0 .. 2]
  /\ set \in [Classes -> 0 .. Pieces]
  /\ runs \in [Classes -> 0 .. 2]
  /\ stack \in [Threads -> Seq(StaticFrame)]
  /\ reg \in [Threads -> [c : Classes, g : 0 .. 2] \cup {Static!Idle}]

(* Nothing has happened to a class whose guard is 0.                       *)
Untouched ==
  \A c \in Classes : guard[c] = 0 =>
    runs[c] = 0 /\ set[c] = 0 /\ \A t \in Threads : ~Static!Initialises(t, c)

(* What was loaded is still so.                                            *)
Loaded == \A t \in Threads : reg[t].c \in Classes => reg[t].g = guard[reg[t].c]

(* The initialisers under way: of different classes, each with the pieces  *)
(* before its own done.                                                    *)
Nested ==
  \A t \in Threads : \A i \in 1 .. Len(stack[t]) :
    /\ set[stack[t][i].c] = stack[t][i].at - 1
    /\ \A j \in 1 .. Len(stack[t]) : stack[t][i].c = stack[t][j].c => i = j

(* A class that was begun is done, failed or under way.                    *)
Begun ==
  \A c \in Classes : guard[c] # 0 =>
    set[c] = Pieces \/ c \in failed \/ \E t \in Threads : Static!Initialises(t, c)

StaticInv == StaticTyped /\ Untouched /\ Loaded /\ Nested /\ Begun /\ Static!InitOnce /\ Static!InitBeforeUse

LEMMA Shortened ==
  ASSUME NEW D, NEW s \in Seq(D), s # <<>>
  PROVE  /\ Static!Front(s) \in Seq(D) /\ Len(Static!Front(s)) = Len(s) - 1
         /\ \A i \in 1 .. Len(s) - 1 : Static!Front(s)[i] = s[i]
         /\ Static!Last(s) = s[Len(s)] /\ Static!Last(s) \in D /\ Len(s) \in Nat /\ Len(s) > 0
<1>1. Len(s) \in Nat /\ Len(s) > 0 /\ s[Len(s)] \in D
  OBVIOUS
<1> DEFINE n == Len(s) - 1
<1>2. n \in Int /\ 1 \in Int /\ \A i \in 1 .. n : s[i] \in D
  BY <1>1
<1>3. /\ SubSeq(s, 1, n) \in Seq(D)
      /\ Len(SubSeq(s, 1, n)) = IF 1 <= n THEN n - 1 + 1 ELSE 0
      /\ \A i \in 1 .. n - 1 + 1 : SubSeq(s, 1, n)[i] = s[1 + i - 1]
  <2> HIDE DEF n
  <2>1. QED
    BY <1>2, SubSeqProperties
<1>4. n \in Nat /\ n - 1 + 1 = n /\ \A i \in 1 .. n : 1 + i - 1 = i
  BY <1>1
<1>5. QED
  BY <1>1, <1>3, <1>4 DEF Static!Front, Static!Last

LEMMA Replaced ==
  ASSUME NEW D, NEW s \in Seq(D), s # <<>>, NEW f \in D
  PROVE  /\ Append(Static!Front(s), f) \in Seq(D) /\ Len(Append(Static!Front(s), f)) = Len(s)
         /\ Append(Static!Front(s), f)[Len(s)] = f
         /\ \A i \in 1 .. Len(s) : i # Len(s) => Append(Static!Front(s), f)[i] = s[i]
<1>1. /\ Static!Front(s) \in Seq(D) /\ Len(Static!Front(s)) = Len(s) - 1
      /\ \A i \in 1 .. Len(s) - 1 : Static!Front(s)[i] = s[i]
      /\ Len(s) \in Nat /\ Len(s) > 0
  BY Shortened
<1>2. QED
  BY <1>1

(* The caller of an initialiser goes on: the same frames.                  *)
LEMMA StaticGoesOn ==
  ASSUME NEW s \in Seq(StaticFrame)
  PROVE  /\ Static!GoOn(s) \in Seq(StaticFrame) /\ Len(Static!GoOn(s)) = Len(s)
         /\ \A i \in 1 .. Len(s) : Static!GoOn(s)[i].c = s[i].c /\ Static!GoOn(s)[i].at = s[i].at
<1>1. CASE s = <<>>
  BY <1>1 DEF Static!GoOn
<1>2. CASE s # <<>>
  <2> DEFINE f == [Static!Last(s) EXCEPT !.used = TRUE]
  <2>1. Static!Last(s) = s[Len(s)] /\ Static!Last(s) \in StaticFrame /\ Len(s) \in Nat /\ Len(s) > 0
    BY <1>2, Shortened
  <2>2. f \in StaticFrame /\ f.c = Static!Last(s).c /\ f.at = Static!Last(s).at
    BY <2>1 DEF StaticFrame
  <2>3. Static!GoOn(s) = Append(Static!Front(s), f)
    BY <1>2 DEF Static!GoOn
  <2> HIDE DEF f
  <2>4. /\ Append(Static!Front(s), f) \in Seq(StaticFrame) /\ Len(Append(Static!Front(s), f)) = Len(s)
        /\ Append(Static!Front(s), f)[Len(s)] = f
        /\ \A i \in 1 .. Len(s) : i # Len(s) => Append(Static!Front(s), f)[i] = s[i]
    BY <1>2, <2>2, Replaced, SMTT(30)
  <2>5. QED
    BY <2>1, <2>2, <2>3, <2>4
<1>3. QED
  BY <1>1, <1>2

LEMMA IdleIs ==
  ASSUME OneThread, StaticTyped, NEW t \in Threads
  PROVE  /\ reg[t] = Static!Idle <=> reg[t].c = Nobody
         /\ reg[t].c \in Classes <=> reg[t].c # Nobody
         /\ reg[t].g \in 0 .. 2
         /\ stack[t] \in Seq(StaticFrame) /\ DOMAIN stack[t] = 1 .. Len(stack[t]) /\ Len(stack[t]) \in Nat
<1>1. Static!Idle.c = Nobody /\ Static!Idle.g = 0
  BY DEF Static!Idle
<1>2. reg[t] \in [c : Classes, g : 0 .. 2] \cup {Static!Idle}
  BY DEF StaticTyped
<1>3. stack[t] \in Seq(StaticFrame)
  BY DEF StaticTyped
<1>4. QED
  BY <1>1, <1>2, <1>3 DEF OneThread

LEMMA StaticInvInit == OneThread /\ Static!Init => StaticInv
  BY DEF OneThread, Static!Init, StaticInv, StaticTyped, Static!Idle, Untouched, Static!Initialises, Loaded, Nested, Begun, Static!InitOnce, Static!InitBeforeUse

LEMMA LoadKeeps ==
  ASSUME OneThread, StaticInv, NEW t \in Threads, NEW c \in Classes, Static!LoadGuard(t, c)
  PROVE  StaticInv'
<1>1. /\ reg' = [reg EXCEPT ![t] = [c |-> c, g |-> guard[c]]]
      /\ UNCHANGED <<uses, guard, set, stack, failed, early, runs>>
  BY DEF Static!LoadGuard
<1>2. StaticTyped'
  BY <1>1 DEF StaticInv, StaticTyped, Static!Idle
<1>3. Loaded'
  <2>1. reg'[t].g = guard[c] /\ reg'[t].c = c
    BY <1>1 DEF StaticInv, StaticTyped
  <2>2. QED
    BY <1>1, <2>1 DEF Loaded, OneThread, StaticInv
<1>4. QED
  BY <1>1, <1>2, <1>3 DEF StaticInv, Untouched, Static!Initialises, Nested, Begun, Static!InitOnce, Static!InitBeforeUse

LEMMA BeginKeeps ==
  ASSUME OneThread, StaticInv, NEW t \in Threads, Static!Begin(t)
  PROVE  StaticInv'
<1> DEFINE c == reg[t].c
           f == [c |-> reg[t].c, at |-> 1, used |-> FALSE]
<1>1. /\ c # Nobody /\ reg[t].g = 0
      /\ guard' = [guard EXCEPT ![c] = 1]
      /\ stack' = [stack EXCEPT ![t] = Append(@, f)]
      /\ reg' = [reg EXCEPT ![t] = Static!Idle]
      /\ runs' = [runs EXCEPT ![c] = IF @ < 2 THEN @ + 1 ELSE @]
      /\ UNCHANGED <<uses, set, failed, early>>
  BY DEF Static!Begin
<1>2. StaticTyped /\ Untouched /\ Loaded /\ Nested /\ Begun
  BY DEF StaticInv
<1>3. c \in Classes /\ guard[c] = 0 /\ runs[c] = 0 /\ set[c] = 0 /\ ~Static!Initialises(t, c)
  BY <1>1, <1>2, IdleIs DEF Loaded, Untouched
<1>4. f \in StaticFrame /\ f.c = c /\ f.at = 1
  BY <1>3 DEF StaticFrame, OneThread
<1>5. stack[t] \in Seq(StaticFrame) /\ DOMAIN stack[t] = 1 .. Len(stack[t]) /\ Len(stack[t]) \in Nat
  BY <1>2, IdleIs
<1> HIDE DEF c, f
<1> DEFINE s == Append(stack[t], f)
<1>6. /\ s \in Seq(StaticFrame) /\ Len(s) = Len(stack[t]) + 1 /\ s[Len(s)] = f
      /\ \A i \in 1 .. Len(stack[t]) : s[i] = stack[t][i]
  BY <1>4, <1>5
<1>7. stack' = [stack EXCEPT ![t] = s] /\ stack'[t] = s
  BY <1>1, <1>2 DEF StaticTyped
<1> HIDE DEF s
<1>8. StaticTyped'
  <2>1. guard' \in [Classes -> 0 .. 2] /\ runs' \in [Classes -> 0 .. 2]
    BY <1>1, <1>2, <1>3 DEF StaticTyped
  <2>2. stack' \in [Threads -> Seq(StaticFrame)]
    BY <1>2, <1>6, <1>7 DEF StaticTyped
  <2>3. reg' \in [Threads -> [c : Classes, g : 0 .. 2] \cup {Static!Idle}]
    BY <1>1, <1>2 DEF StaticTyped
  <2>4. QED
    BY <1>1, <1>2, <2>1, <2>2, <2>3 DEF StaticTyped
<1>9. \A u \in Threads : u = t
  BY DEF OneThread
<1>10. \A i \in 1 .. Len(stack[t]) : stack[t][i].c # c
  BY <1>3, <1>5 DEF Static!Initialises
<1>11. Untouched'
  <2>1. ASSUME NEW d \in Classes, guard'[d] = 0
        PROVE  runs'[d] = 0 /\ set'[d] = 0 /\ \A u \in Threads : ~Static!Initialises(u, d)'
    <3>1. d # c /\ guard[d] = 0 /\ runs'[d] = runs[d]
      BY <1>1, <1>2, <1>3, <2>1 DEF StaticTyped
    <3>2. runs[d] = 0 /\ set[d] = 0 /\ ~Static!Initialises(t, d)
      BY <1>2, <3>1 DEF Untouched
    <3>3. ASSUME NEW i \in 1 .. Len(s) PROVE s[i].c # d
      <4>1. CASE i = Len(s)
        BY <1>4, <1>6, <3>1, <4>1
      <4>2. CASE i # Len(s)
        <5>1. i \in 1 .. Len(stack[t])
          BY <1>5, <1>6, <4>2
        <5>2. stack[t][i].c # d
          BY <1>5, <3>2, <5>1 DEF Static!Initialises
        <5>3. QED
          BY <1>6, <5>1, <5>2
      <4>3. QED
        BY <4>1, <4>2
    <3>4. DOMAIN s = 1 .. Len(s)
      BY <1>6
    <3>5. QED
      BY <1>1, <1>7, <1>9, <3>1, <3>2, <3>3, <3>4 DEF Static!Initialises
  <2>2. QED
    BY <2>1 DEF Untouched
<1>12. Loaded'
  <2>1. reg'[t].c = Nobody
    BY <1>1, <1>2 DEF StaticTyped, Static!Idle
  <2>2. QED
    BY <1>9, <2>1 DEF Loaded, OneThread
<1>13. Nested'
  <2>1. ASSUME NEW i \in 1 .. Len(s)
        PROVE  /\ set[s[i].c] = s[i].at - 1
               /\ \A j \in 1 .. Len(s) : s[i].c = s[j].c => i = j
    <3>1. CASE i = Len(s)
      BY <1>3, <1>4, <1>5, <1>6, <1>10, <3>1
    <3>2. CASE i # Len(s)
      <4>1. i \in 1 .. Len(stack[t])
        BY <1>5, <1>6, <3>2
      <4>2. s[i] = stack[t][i] /\ s[i].c # c
        BY <1>6, <1>10, <4>1
      <4>3. /\ set[s[i].c] = s[i].at - 1
            /\ \A j \in 1 .. Len(stack[t]) : s[i].c = stack[t][j].c => i = j
        BY <1>2, <4>1, <4>2 DEF Nested
      <4>4. ASSUME NEW j \in 1 .. Len(s), s[i].c = s[j].c PROVE i = j
        <5>1. j # Len(s)
          BY <1>4, <1>6, <4>2, <4>4
        <5>2. j \in 1 .. Len(stack[t])
          BY <1>5, <1>6, <5>1
        <5>3. QED
          BY <1>6, <4>3, <4>4, <5>2
      <4>5. QED
        BY <4>3, <4>4
    <3>3. QED
      BY <3>1, <3>2
  <2>2. QED
    BY <1>1, <1>7, <1>9, <2>1 DEF Nested
<1>14. Begun'
  <2>1. ASSUME NEW d \in Classes, guard'[d] # 0
        PROVE  set'[d] = Pieces \/ d \in failed' \/ Static!Initialises(t, d)'
    <3>0. DOMAIN s = 1 .. Len(s)
      BY <1>6
    <3>1. CASE d = c
      <4>1. Len(s) \in DOMAIN s /\ s[Len(s)].c = c
        BY <1>4, <1>5, <1>6
      <4>2. QED
        BY <1>7, <3>1, <4>1 DEF Static!Initialises
    <3>2. CASE d # c
      <4>1. guard[d] # 0
        BY <1>1, <1>2, <2>1, <3>2 DEF StaticTyped
      <4>2. set[d] = Pieces \/ d \in failed \/ Static!Initialises(t, d)
        BY <1>2, <1>9, <4>1 DEF Begun
      <4>3. CASE Static!Initialises(t, d)
        <5>1. PICK i \in 1 .. Len(stack[t]) : stack[t][i].c = d
          BY <1>5, <4>3 DEF Static!Initialises
        <5>2. i \in DOMAIN s /\ s[i].c = d
          BY <1>5, <1>6, <5>1
        <5>3. QED
          BY <1>7, <5>2 DEF Static!Initialises
      <4>4. QED
        BY <1>1, <4>2, <4>3
    <3>3. QED
      BY <3>1, <3>2
  <2>2. QED
    BY <2>1 DEF Begun
<1>15. Static!InitOnce'
  BY <1>1, <1>2, <1>3 DEF Static!InitOnce, StaticTyped, StaticInv
<1>16. Static!InitBeforeUse'
  BY <1>1 DEF Static!InitBeforeUse, StaticInv
<1>17. QED
  BY <1>8, <1>11, <1>12, <1>13, <1>14, <1>15, <1>16 DEF StaticInv

(* The access: what is used is set, failed, or still being initialised by  *)
(* the code that uses it.                                                  *)
LEMMA UseIsLate ==
  ASSUME OneThread, StaticInv, NEW t \in Threads, NEW c \in Classes, guard[c] # 0,
         set' = set, Static!Used(t, c)
  PROVE  "unset" \notin early'
<1>1. set[c] = Pieces \/ c \in failed \/ Static!Initialises(t, c)
  BY DEF StaticInv, Begun, OneThread
<1>2. "unset" \notin early /\ set'[c] = set[c]
  BY DEF StaticInv, Static!InitBeforeUse
<1>3. QED
  BY <1>1, <1>2 DEF Static!Used

(* Frames that stay the same but for used.                                 *)
LEMMA SameFrames ==
  ASSUME OneThread, StaticInv, NEW t \in Threads, NEW s \in Seq(StaticFrame),
         Len(s) = Len(stack[t]),
         \A i \in 1 .. Len(stack[t]) : s[i].c = stack[t][i].c /\ s[i].at = stack[t][i].at,
         stack' = [stack EXCEPT ![t] = s], UNCHANGED set
  PROVE  /\ stack' \in [Threads -> Seq(StaticFrame)] /\ Nested'
         /\ \A u \in Threads, c \in Classes : Static!Initialises(u, c)' <=> Static!Initialises(u, c)
<1>1. stack'[t] = s /\ stack' \in [Threads -> Seq(StaticFrame)] /\ \A u \in Threads : u = t
  BY DEF StaticInv, StaticTyped, OneThread
<1>2. DOMAIN s = 1 .. Len(stack[t]) /\ DOMAIN stack[t] = 1 .. Len(stack[t])
  BY IdleIs DEF StaticInv
<1>3. Nested'
  BY <1>1 DEF StaticInv, Nested
<1>4. \A c \in Classes : Static!Initialises(t, c)' <=> Static!Initialises(t, c)
  BY <1>1, <1>2 DEF Static!Initialises
<1>5. QED
  BY <1>1, <1>3, <1>4

LEMMA PassKeeps ==
  ASSUME OneThread, StaticInv, NEW t \in Threads, Static!Pass(t)
  PROVE  StaticInv'
<1> DEFINE c == reg[t].c
<1>1. /\ c # Nobody /\ reg[t].g # 0 /\ reg' = [reg EXCEPT ![t] = Static!Idle]
      /\ set' = set /\ Static!Used(t, c) /\ stack' = [stack EXCEPT ![t] = Static!GoOn(stack[t])]
      /\ UNCHANGED <<uses, guard, failed, runs>>
  BY DEF Static!Pass, StaticInv, StaticTyped
<1>2. c \in Classes /\ guard[c] # 0
  BY <1>1, IdleIs DEF StaticInv, Loaded
<1>3. /\ stack[t] \in Seq(StaticFrame) /\ Static!GoOn(stack[t]) \in Seq(StaticFrame) /\ Len(Static!GoOn(stack[t])) = Len(stack[t])
      /\ \A i \in 1 .. Len(stack[t]) : Static!GoOn(stack[t])[i].c = stack[t][i].c /\ Static!GoOn(stack[t])[i].at = stack[t][i].at
  BY IdleIs, StaticGoesOn DEF StaticInv
<1>4. /\ stack' \in [Threads -> Seq(StaticFrame)] /\ Nested'
      /\ \A u \in Threads, d \in Classes : Static!Initialises(u, d)' <=> Static!Initialises(u, d)
  BY <1>1, <1>3, SameFrames
<1>5. Static!InitBeforeUse'
  BY <1>1, <1>2, UseIsLate DEF Static!InitBeforeUse
<1>6. StaticTyped'
  BY <1>1, <1>4 DEF StaticInv, StaticTyped
<1>7. Loaded'
  <2>1. reg'[t].c = Nobody /\ \A u \in Threads : u = t
    BY <1>1 DEF StaticInv, StaticTyped, Static!Idle, OneThread
  <2>2. QED
    BY <2>1 DEF Loaded, OneThread
<1>8. Untouched' /\ Begun'
  BY <1>1, <1>4 DEF StaticInv, Untouched, Begun
<1>9. Static!InitOnce'
  BY <1>1 DEF StaticInv, Static!InitOnce
<1>10. QED
  BY <1>4, <1>5, <1>6, <1>7, <1>8, <1>9 DEF StaticInv

LEMMA SetKeeps ==
  ASSUME OneThread, StaticInv, NEW t \in Threads, Static!EndPiece(t)
  PROVE  StaticInv'
<1> DEFINE f == Static!Last(stack[t])
           g == [f EXCEPT !.at = @ + 1, !.used = FALSE]
           s == Append(Static!Front(stack[t]), g)
           n == Len(stack[t])
<1>1. /\ reg[t] = Static!Idle /\ stack[t] # <<>> /\ f.at <= Pieces
      /\ set' = [set EXCEPT ![f.c] = IF @ < f.at THEN f.at ELSE @]
      /\ stack' = [stack EXCEPT ![t] = s]
      /\ UNCHANGED <<uses, guard, reg, failed, early, runs>>
  BY DEF Static!EndPiece, Static!Executes, Static!top, StaticInv, StaticTyped
<1>2. StaticTyped /\ Untouched /\ Loaded /\ Nested /\ Begun
  BY DEF StaticInv
<1>3. stack[t] \in Seq(StaticFrame) /\ DOMAIN stack[t] = 1 .. n
  BY <1>2, IdleIs
<1>4. f = stack[t][n] /\ f \in StaticFrame /\ n \in Nat /\ n > 0 /\ n \in 1 .. n
  <2>1. \A z \in Seq(StaticFrame) : z # <<>> =>
          Static!Last(z) = z[Len(z)] /\ Static!Last(z) \in StaticFrame /\ Len(z) \in Nat /\ Len(z) > 0
    BY Shortened
  <2>2. QED
    BY <1>1, <1>3, <2>1
<1>5. g \in StaticFrame /\ g.c = f.c /\ g.at = f.at + 1
  <2>1. f.at \in 1 .. Pieces + 1 /\ f.at <= Pieces /\ f.c \in Classes
    BY <1>1, <1>4 DEF StaticFrame
  <2> HIDE DEF f
  <2>2. f.at + 1 \in 1 .. Pieces + 1
    BY <2>1 DEF OneThread
  <2>3. QED
    BY <1>4, <2>1, <2>2 DEF StaticFrame
<1> HIDE DEF g
<1>6. /\ s \in Seq(StaticFrame) /\ Len(s) = n /\ s[n] = g
      /\ \A i \in 1 .. n : i # n => s[i] = stack[t][i]
  BY <1>1, <1>3, <1>5, Replaced, SMTT(30)
<1>7. stack'[t] = s
  BY <1>1, <1>2 DEF StaticTyped
<1>8. f.c \in Classes /\ f.at \in 1 .. Pieces + 1 /\ set[f.c] = f.at - 1
  BY <1>2, <1>4 DEF StaticFrame, Nested
<1> HIDE DEF f, s, n
<1>9. /\ set' \in [Classes -> 0 .. Pieces] /\ set'[f.c] = f.at
      /\ \A c \in Classes : c # f.c => set'[c] = set[c]
  BY <1>1, <1>2, <1>8 DEF StaticTyped, OneThread
<1>10. \A u \in Threads : u = t
  BY DEF OneThread
<1>11. DOMAIN s = 1 .. n
  BY <1>6
<1>12. \A i \in 1 .. n : s[i].c = stack[t][i].c
  BY <1>4, <1>5, <1>6
<1>13. \A c \in Classes : Static!Initialises(t, c)' <=> Static!Initialises(t, c)
  BY <1>3, <1>7, <1>11, <1>12 DEF Static!Initialises
<1>14. StaticTyped'
  BY <1>1, <1>2, <1>6, <1>9 DEF StaticTyped
<1>15. Nested'
  <2>1. ASSUME NEW i \in 1 .. n
        PROVE  /\ set'[s[i].c] = s[i].at - 1
               /\ \A j \in 1 .. n : s[i].c = s[j].c => i = j
    <3>1. \A j \in 1 .. n : s[i].c = s[j].c => i = j
      BY <1>2, <1>12 DEF Nested, n
    <3>2. CASE i = n
      BY <1>5, <1>6, <1>8, <1>9, <3>1, <3>2
    <3>3. CASE i # n
      <4>1. s[i] = stack[t][i] /\ s[i].c # f.c /\ s[i].c \in Classes
        <5>1. s[n].c = f.c
          BY <1>5, <1>6
        <5>2. s[i].c # s[n].c
          BY <1>4, <3>1, <3>3
        <5>3. s[i] \in StaticFrame
          BY <1>6
        <5>4. QED
          BY <1>6, <3>3, <5>1, <5>2, <5>3 DEF StaticFrame
      <4>2. set[s[i].c] = s[i].at - 1
        BY <1>2, <4>1 DEF Nested, n
      <4>3. QED
        BY <1>9, <3>1, <4>1, <4>2
    <3>4. QED
      BY <3>2, <3>3
  <2>2. QED
    BY <1>6, <1>7, <1>10, <2>1 DEF Nested
<1>16. Untouched'
  <2>1. guard[f.c] # 0
    <3>1. Static!Initialises(t, f.c)
      BY <1>3, <1>4 DEF Static!Initialises
    <3>2. QED
      BY <1>2, <1>8, <3>1 DEF Untouched
  <2>2. QED
    BY <1>1, <1>2, <1>9, <1>10, <1>13, <2>1 DEF Untouched
<1>17. Begun'
  <2>1. ASSUME NEW c \in Classes, guard[c] # 0
        PROVE  set'[c] = Pieces \/ c \in failed \/ Static!Initialises(t, c)'
    <3>1. set[c] = Pieces \/ c \in failed \/ Static!Initialises(t, c)
      BY <1>2, <1>10, <2>1 DEF Begun
    <3>2. CASE c = f.c
      <4>1. Static!Initialises(t, c)
        BY <1>3, <1>4, <3>2 DEF Static!Initialises
      <4>2. QED
        BY <1>13, <4>1
    <3>3. CASE c # f.c
      BY <1>9, <1>13, <3>1, <3>3
    <3>4. QED
      BY <3>2, <3>3
  <2>2. QED
    BY <1>1, <2>1 DEF Begun
<1>18. Loaded' /\ Static!InitOnce' /\ Static!InitBeforeUse'
  BY <1>1, <1>2 DEF Loaded, Static!InitOnce, Static!InitBeforeUse, StaticInv
<1>19. QED
  BY <1>14, <1>15, <1>16, <1>17, <1>18 DEF StaticInv

LEMMA FinishKeeps ==
  ASSUME OneThread, StaticInv, NEW t \in Threads, Static!Finish(t)
  PROVE  StaticInv'
<1> DEFINE c == Static!Last(stack[t]).c
           b == Static!Front(stack[t])
           s == Static!GoOn(Static!Front(stack[t]))
           n == Len(stack[t])
<1>1. /\ reg[t] = Static!Idle /\ stack[t] # <<>> /\ Static!Last(stack[t]).at > Pieces
      /\ guard' = [guard EXCEPT ![c] = 2]
      /\ early' = IF set[c] = Pieces THEN early ELSE early \cup {"unset"}
      /\ stack' = [stack EXCEPT ![t] = s]
      /\ UNCHANGED <<uses, set, reg, failed, runs>>
  BY DEF Static!Finish, Static!top, StaticInv, StaticTyped
<1>2. StaticTyped /\ Untouched /\ Loaded /\ Nested /\ Begun
  BY DEF StaticInv
<1>3. stack[t] \in Seq(StaticFrame) /\ DOMAIN stack[t] = 1 .. n
  BY <1>2, IdleIs
<1>4. /\ b \in Seq(StaticFrame) /\ Len(b) = n - 1 /\ \A i \in 1 .. n - 1 : b[i] = stack[t][i]
      /\ Static!Last(stack[t]) = stack[t][n] /\ Static!Last(stack[t]) \in StaticFrame /\ n \in Nat /\ n > 0
  <2>1. \A z \in Seq(StaticFrame) : z # <<>> =>
          /\ Static!Front(z) \in Seq(StaticFrame) /\ Len(Static!Front(z)) = Len(z) - 1
          /\ \A i \in 1 .. Len(z) - 1 : Static!Front(z)[i] = z[i]
          /\ Static!Last(z) = z[Len(z)] /\ Static!Last(z) \in StaticFrame /\ Len(z) \in Nat /\ Len(z) > 0
    BY Shortened
  <2>2. QED
    BY <1>1, <1>3, <2>1
<1>5. n \in 1 .. n /\ c \in Classes /\ Static!Last(stack[t]).at = Pieces + 1
  <2>1. Static!Last(stack[t]).c \in Classes /\ Static!Last(stack[t]).at \in 1 .. Pieces + 1
    BY <1>4 DEF StaticFrame
  <2>2. QED
    BY <1>1, <1>4, <2>1 DEF OneThread
<1>6. set[c] = Pieces
  BY <1>2, <1>4, <1>5 DEF Nested, OneThread
<1>7. /\ s \in Seq(StaticFrame) /\ Len(s) = n - 1
      /\ \A i \in 1 .. n - 1 : s[i].c = stack[t][i].c /\ s[i].at = stack[t][i].at
  BY <1>4, StaticGoesOn
<1>8. stack'[t] = s
  BY <1>1, <1>2 DEF StaticTyped
<1>9. c = stack[t][n].c
  BY <1>4
<1> HIDE DEF c, s, n, b
<1>10. \A u \in Threads : u = t
  BY DEF OneThread
<1>11. DOMAIN s = 1 .. n - 1
  BY <1>7
<1>12. \A d \in Classes : Static!Initialises(t, d)' => Static!Initialises(t, d)
  BY <1>3, <1>4, <1>7, <1>8, <1>11 DEF Static!Initialises
<1>13. \A d \in Classes : d # c /\ Static!Initialises(t, d) => Static!Initialises(t, d)'
  <2>1. ASSUME NEW d \in Classes, d # c, Static!Initialises(t, d) PROVE Static!Initialises(t, d)'
    <3>1. PICK i \in 1 .. n : stack[t][i].c = d
      BY <1>3, <2>1 DEF Static!Initialises
    <3>2. i \in 1 .. n - 1
      BY <1>4, <1>9, <2>1, <3>1
    <3>3. QED
      BY <1>7, <1>8, <1>11, <3>1, <3>2 DEF Static!Initialises
  <2>2. QED
    BY <2>1
<1>14. StaticTyped'
  BY <1>1, <1>2, <1>5, <1>7 DEF StaticTyped
<1>15. Nested'
  <2>1. ASSUME NEW i \in 1 .. n - 1
        PROVE  set[s[i].c] = s[i].at - 1 /\ \A j \in 1 .. n - 1 : s[i].c = s[j].c => i = j
    <3>1. i \in 1 .. n
      BY <1>4
    <3>2. \A j \in 1 .. n - 1 : j \in 1 .. n
      BY <1>4
    <3>3. QED
      BY <1>2, <1>7, <3>1, <3>2 DEF Nested, n
  <2>2. QED
    BY <1>1, <1>7, <1>8, <1>10, <2>1 DEF Nested
<1>16. Untouched'
  <2>1. guard'[c] = 2 /\ \A d \in Classes : d # c => guard'[d] = guard[d]
    BY <1>1, <1>2, <1>5 DEF StaticTyped
  <2>2. QED
    BY <1>1, <1>2, <1>10, <1>12, <2>1 DEF Untouched
<1>17. Begun'
  <2>1. ASSUME NEW d \in Classes, guard'[d] # 0
        PROVE  set[d] = Pieces \/ d \in failed \/ Static!Initialises(t, d)'
    <3>1. CASE d = c
      BY <1>6, <3>1
    <3>2. CASE d # c
      <4>1. guard[d] # 0
        BY <1>1, <1>2, <2>1, <3>2 DEF StaticTyped
      <4>2. QED
        BY <1>2, <1>10, <1>13, <3>2, <4>1 DEF Begun
    <3>3. QED
      BY <3>1, <3>2
  <2>2. QED
    BY <1>1, <2>1 DEF Begun
<1>18. Loaded'
  <2>1. reg'[t].c = Nobody
    BY <1>1 DEF Static!Idle
  <2>2. QED
    BY <1>10, <2>1 DEF Loaded, OneThread
<1>19. Static!InitOnce' /\ Static!InitBeforeUse'
  BY <1>1, <1>6 DEF Static!InitOnce, Static!InitBeforeUse, StaticInv
<1>20. QED
  BY <1>14, <1>15, <1>16, <1>17, <1>18, <1>19 DEF StaticInv

(* What was under way above the handler has failed.                        *)
LEMMA StaticThrowKeeps ==
  ASSUME OneThread, StaticInv, NEW t \in Threads, Static!Throw(t)
  PROVE  StaticInv'
<1> DEFINE m == Len(stack[t])
<1>1. PICK n \in 0 .. m - 1 :
        /\ failed' = failed \cup {stack[t][i].c : i \in n + 1 .. m}
        /\ stack' = [stack EXCEPT ![t] = Static!GoOn(SubSeq(stack[t], 1, n))]
  BY DEF Static!Throw, StaticInv, StaticTyped
<1>2. UNCHANGED <<uses, guard, set, reg, early, runs>>
  BY DEF Static!Throw
<1>3. stack[t] \in Seq(StaticFrame) /\ DOMAIN stack[t] = 1 .. m /\ m \in Nat
  BY IdleIs DEF StaticInv
<1> DEFINE b == SubSeq(stack[t], 1, n)
           s == Static!GoOn(SubSeq(stack[t], 1, n))
<1>4. n \in Nat /\ n <= m /\ \A i \in 1 .. n : i \in 1 .. m
  BY <1>3
<1>5. b \in Seq(StaticFrame) /\ Len(b) = n /\ \A i \in 1 .. n : b[i] = stack[t][i]
  <2>1. \A i \in 1 .. n : stack[t][i] \in StaticFrame
    BY <1>3, <1>4
  <2>2. /\ SubSeq(stack[t], 1, n) \in Seq(StaticFrame)
        /\ Len(SubSeq(stack[t], 1, n)) = IF 1 <= n THEN n - 1 + 1 ELSE 0
        /\ \A i \in 1 .. n - 1 + 1 : SubSeq(stack[t], 1, n)[i] = stack[t][1 + i - 1]
    BY <1>3, <1>4, <2>1, SubSeqProperties
  <2>3. n - 1 + 1 = n /\ \A i \in 1 .. n : 1 + i - 1 = i
    BY <1>4
  <2>4. QED
    BY <1>4, <2>2, <2>3
<1>6. /\ s \in Seq(StaticFrame) /\ Len(s) = n
      /\ \A i \in 1 .. n : s[i].c = stack[t][i].c /\ s[i].at = stack[t][i].at
  <2> HIDE DEF b
  <2>1. Static!GoOn(b) \in Seq(StaticFrame) /\ Len(Static!GoOn(b)) = Len(b)
        /\ \A i \in 1 .. Len(b) : Static!GoOn(b)[i].c = b[i].c /\ Static!GoOn(b)[i].at = b[i].at
    BY <1>5, StaticGoesOn
  <2>2. s = Static!GoOn(b)
    BY DEF b
  <2> HIDE DEF s
  <2>3. QED
    BY <1>5, <2>1, <2>2
<1>7. stack' = [stack EXCEPT ![t] = s] /\ stack'[t] = s /\ \A u \in Threads : u = t
  BY <1>1 DEF StaticInv, StaticTyped, OneThread
<1> HIDE DEF b, s, m
<1>8. DOMAIN s = 1 .. n
  BY <1>6
<1>9. \A c \in Classes : Static!Initialises(t, c)' => Static!Initialises(t, c)
  BY <1>3, <1>4, <1>6, <1>7, <1>8 DEF Static!Initialises
<1>10. \A c \in Classes : Static!Initialises(t, c) => c \in failed' \/ Static!Initialises(t, c)'
  <2>1. ASSUME NEW c \in Classes, Static!Initialises(t, c), c \notin failed' PROVE Static!Initialises(t, c)'
    <3>1. PICK i \in 1 .. m : stack[t][i].c = c
      BY <1>3, <2>1 DEF Static!Initialises
    <3>2. i \notin n + 1 .. m
      BY <1>1, <2>1, <3>1
    <3>3. i \in 1 .. n
      BY <1>3, <1>4, <3>2
    <3>4. QED
      BY <1>6, <1>7, <1>8, <3>1, <3>3 DEF Static!Initialises
  <2>2. QED
    BY <2>1
<1>11. StaticTyped'
  BY <1>2, <1>6, <1>7 DEF StaticInv, StaticTyped
<1>12. Untouched'
  BY <1>2, <1>7, <1>9 DEF StaticInv, Untouched
<1>13. Nested'
  <2>1. ASSUME NEW i \in 1 .. n
        PROVE  set[s[i].c] = s[i].at - 1 /\ \A j \in 1 .. n : s[i].c = s[j].c => i = j
    BY <1>4, <1>6 DEF StaticInv, Nested, m
  <2>2. QED
    BY <1>2, <1>6, <1>7, <2>1 DEF Nested
<1>14. Begun'
  BY <1>1, <1>2, <1>7, <1>10 DEF StaticInv, Begun
<1>15. Loaded' /\ Static!InitOnce' /\ Static!InitBeforeUse'
  BY <1>2 DEF StaticInv, Loaded, Static!InitOnce, Static!InitBeforeUse
<1>16. QED
  BY <1>11, <1>12, <1>13, <1>14, <1>15 DEF StaticInv

LEMMA StaticInvStep ==
  ASSUME OneThread, StaticInv, [Static!Next]_(Static!vars)
  PROVE  StaticInv'
<1>1. CASE UNCHANGED Static!vars
  BY <1>1 DEF Static!vars, StaticInv, StaticTyped, Untouched, Static!Initialises, Loaded, Nested, Begun, Static!InitOnce, Static!InitBeforeUse
<1>2. CASE Static!Next
  <2>1. PICK t \in Threads :
          \/ \E c \in Classes : Static!LoadGuard(t, c)
          \/ Static!Begin(t) \/ Static!Pass(t) \/ Static!EndPiece(t) \/ Static!Finish(t) \/ Static!Throw(t)
    BY <1>2 DEF Static!Next
  <2>2. QED
    BY <2>1, LoadKeeps, BeginKeeps, PassKeeps, SetKeeps, FinishKeeps, StaticThrowKeeps
<1>3. QED
  BY <1>1, <1>2

(* On one thread an initialiser runs once for each class, and a class is   *)
(* used before its fields are set and its static constructor is done only  *)
(* by the initialiser on the way to do so or after an exception ended it,  *)
(* however the initialisers refer to each other and wherever an exception  *)
(* is caught (the guard every static access of IRGenClass.cpp emits).      *)
THEOREM Initialised ==
  ASSUME OneThread
  PROVE  Static!Spec => [](Static!InitOnce /\ Static!InitBeforeUse)
<1>1. Static!Init => StaticInv
  BY StaticInvInit
<1>2. StaticInv /\ [Static!Next]_(Static!vars) => StaticInv'
  BY StaticInvStep
<1>3. StaticInv => Static!InitOnce /\ Static!InitBeforeUse
  BY DEF StaticInv
<1>4. QED
  BY <1>1, <1>2, <1>3, PTL DEF Static!Spec

-----------------------------------------------------------------------------
(* try, catch and finally.                                                 *)

CONSTANTS Vals, TryForms, MaxFrames, CatchNests, FinallyNests, LaterClauses, MaxDepth, MaxNest, MaxTries, MaxShadow
VARIABLES acts, exc, shadow, excPc, nextId, end
Frames == INSTANCE ExcFrames WITH pc <- excPc

(* The cardinality ExcFrames counts with is the one of the theorems.       *)
LEMMA SameCardinality == \A S : Frames!Cardinality(S) = Cardinality(S)
  BY DEF Frames!Cardinality, Cardinality

Clauses == Seq(SUBSET Vals)

(* What the program may be: a catch body holds neither a try nor a call, a *)
(* finally entered by an abrupt completion holds no try and no jump that   *)
(* the one slot of the function would lose, and an exception that comes to *)
(* a try of several catch clauses matches the first.                       *)
PlainProgram ==
  /\ ~CatchNests /\ ~FinallyNests /\ ~LaterClauses
  /\ TryForms \subseteq [catches : Clauses, fin : BOOLEAN]
  /\ MaxFrames \in Nat /\ MaxDepth \in Nat /\ MaxNest \in Nat /\ MaxTries \in Nat /\ MaxShadow \in Nat

Value == Vals \cup {0}
Kinds == {"normal", "return", "break", "continue", "throw"}
Pend == [k : Kinds, v : Value]
Con == [kind : {"loop", "try"}, at : {"body", "catch", "fin"}, catches : Clauses, fin : BOOLEAN,
        pend : Pend, clause : Nat, id : Nat]
Act == [cons : Seq(Con), reason : 0 .. 4, ret : Value, stop : Nat, root : Value, wm : Nat]
ExcFrame == [id : Nat, depthAtEnter : Nat, act : Nat, con : Nat]

Typed ==
  /\ acts \in Seq(Act) /\ exc \in Seq(ExcFrame) /\ shadow \in Seq(Nat)
  /\ excPc \in {"user", "dispatch"} /\ nextId \in Nat
  /\ end = "run" => acts # <<>>

OnlyLoopsAbove(cons, i) == \A j \in DOMAIN cons : j > i => cons[j].kind = "loop"

(* The slots hold a jump to the innermost loop: stop is the number of the  *)
(* tries open around it.                                                   *)
Aims(cons, stop) == Frames!Loops(cons) # {} /\ stop = Frames!TryDepth(cons, Frames!Inner(Frames!Loops(cons)))

(* What the slots of an activation say of the constructs cons still to be  *)
(* left.                                                                   *)
SlotsHold(a, cons) ==
  /\ a.reason \in {1, 4} => a.root = a.ret
  /\ a.reason \in {2, 3} => Aims(cons, a.stop)

Owing(a, i) == a.cons[i].pend # Frames!Normal

(* One finally owes what the slots say, and nothing but loops is open in   *)
(* it; a catch body holds only loops too.                                  *)
Orderly(a) ==
  \A i \in DOMAIN a.cons :
    /\ a.cons[i].kind = "loop" => a.cons[i].at = "body" /\ ~Owing(a, i)
    /\ Owing(a, i) =>
         /\ a.cons[i].at = "fin" /\ a.cons[i].pend = Frames!Slots(a)
         /\ OnlyLoopsAbove(a.cons, i)
         /\ SlotsHold(a, SubSeq(a.cons, 1, i - 1))
    /\ a.cons[i].at = "catch" => OnlyLoopsAbove(a.cons, i) /\ a.reason = 0

InUser(a) == a.reason # 0 => \E i \in DOMAIN a.cons : Owing(a, i)
InDispatch(a) ==
  /\ \A i \in DOMAIN a.cons : ~Owing(a, i)
  /\ ~Frames!InCatch(a.cons)
  /\ SlotsHold(a, a.cons)

ActsSound(stk, p) ==
  \A d \in DOMAIN stk :
    /\ Orderly(stk[d])
    /\ d < Len(stk) => ~Frames!InCatch(stk[d].cons)
    /\ d < Len(stk) \/ p = "user" => InUser(stk[d])
    /\ d = Len(stk) /\ p = "dispatch" => InDispatch(stk[d])

(* The frames of the runtime and the open bodies.                          *)
IsTry(stk, d, i) == d \in DOMAIN stk /\ i \in DOMAIN stk[d].cons /\ stk[d].cons[i].kind = "try"
IsBody(stk, d, i) == IsTry(stk, d, i) /\ stk[d].cons[i].at = "body"

FramesSound(stk, ex) ==
  /\ \A k \in DOMAIN ex :
       /\ ex[k].depthAtEnter = k - 1
       /\ IsBody(stk, ex[k].act, ex[k].con)
       /\ stk[ex[k].act].cons[ex[k].con].id = ex[k].id
  /\ \A k, l \in DOMAIN ex : k < l =>
       ex[k].act < ex[l].act \/ (ex[k].act = ex[l].act /\ ex[k].con < ex[l].con)
  /\ \A d, i \in Nat : IsBody(stk, d, i) => \E k \in DOMAIN ex : ex[k].act = d /\ ex[k].con = i

Numbered(stk, n) ==
  /\ \A d, i \in Nat : IsTry(stk, d, i) => stk[d].cons[i].id < n
  /\ \A d, e, i, j \in Nat :
       IsTry(stk, d, i) /\ IsTry(stk, e, j) /\ stk[d].cons[i].id = stk[e].cons[j].id => d = e /\ i = j

(* The shadow stack under each activation.                                 *)
Marked(stk, sh) ==
  /\ \A d \in DOMAIN stk : stk[d].wm < Len(sh) /\ sh[stk[d].wm + 1] = d
  /\ \A d, e \in DOMAIN stk : d < e => stk[d].wm < stk[e].wm

FramesInv ==
  /\ Typed
  /\ ActsSound(acts, excPc) /\ FramesSound(acts, exc) /\ Numbered(acts, nextId) /\ Marked(acts, shadow)

---------------------------------------------------------------------------
(* Sequences and sets of positions.                                        *)

LEMMA LeastNatural ==
  ASSUME NEW T, T \subseteq Nat, T # {}
  PROVE  \E x \in T : \A y \in T : x <= y
<1> DEFINE R == OpToRel(<, Nat)
<1>1. \A x, y \in Nat : <<y, x>> \in R <=> y < x
  BY DEF OpToRel
<1>2. IsWellFoundedOn(R, Nat)
  BY NatLessThanWellFounded
<1> HIDE DEF R
<1>3. PICK x \in T : \A y \in T : ~ (<<y, x>> \in R)
  BY <1>2, WFMin
<1>4. ASSUME NEW y \in T PROVE x <= y
  <2>1. x \in Nat /\ y \in Nat /\ <<y, x>> \notin R
    BY <1>3
  <2>2. ~(y < x)
    BY <1>1, <2>1
  <2>3. QED
    BY <2>1, <2>2
<1>5. QED
  BY <1>4

(* The innermost of some positions.                                        *)
LEMMA InnerIs ==
  ASSUME NEW n \in Nat, NEW S \in SUBSET (1 .. n)
  PROVE  /\ Frames!Inner(S) \in 0 .. n
         /\ Frames!Inner(S) = 0 <=> S = {}
         /\ S # {} => Frames!Inner(S) \in S
         /\ \A y \in S : y <= Frames!Inner(S)
<1>1. CASE S = {}
  BY <1>1 DEF Frames!Inner
<1>2. CASE S # {}
  <2> DEFINE T == {k \in Nat : n - k \in S}
  <2>1. T \subseteq Nat
    OBVIOUS
  <2>2. T # {}
    <3>1. PICK x \in S : x \in 1 .. n
      BY <1>2
    <3>2. n - x \in Nat /\ n - (n - x) = x
      BY <3>1
    <3>3. QED
      BY <3>1, <3>2
  <2>3. PICK k \in T : \A y \in T : k <= y
    BY <2>1, <2>2, LeastNatural
  <2>4. n - k \in S /\ \A y \in S : n - k >= y
    <3>1. ASSUME NEW y \in S PROVE n - k >= y
      <4>1. y \in 1 .. n /\ n - y \in Nat /\ n - (n - y) = y
        OBVIOUS
      <4>2. n - y \in T
        BY <4>1
      <4>3. k <= n - y /\ k \in Nat
        BY <2>3, <4>2
      <4>4. QED
        BY <4>1, <4>3
    <3>2. QED
      BY <3>1
  <2> HIDE DEF T
  <2>5. Frames!Max(S) \in S /\ \A y \in S : Frames!Max(S) >= y
    BY <2>4 DEF Frames!Max
  <2>6. \A x \in S : x \in 1 .. n
    OBVIOUS
  <2>7. Frames!Inner(S) = Frames!Max(S)
    BY <1>2 DEF Frames!Inner
  <2>8. Frames!Inner(S) \in 1 .. n /\ Frames!Inner(S) \in S /\ \A y \in S : Frames!Inner(S) >= y
    BY <2>5, <2>6, <2>7
  <2>9. \A y \in S : y <= Frames!Inner(S)
    BY <2>6, <2>8
  <2>10. QED
    BY <1>2, <2>8, <2>9
<1>3. QED
  BY <1>1, <1>2

LEMMA Cut ==
  ASSUME NEW D, NEW s \in Seq(D), NEW n \in 0 .. Len(s)
  PROVE  /\ SubSeq(s, 1, n) \in Seq(D) /\ Len(SubSeq(s, 1, n)) = n
         /\ DOMAIN SubSeq(s, 1, n) = 1 .. n
         /\ \A i \in 1 .. n : SubSeq(s, 1, n)[i] = s[i]
<1>1. n \in Int /\ 1 \in Int /\ \A i \in 1 .. n : s[i] \in D
  OBVIOUS
<1>2. /\ SubSeq(s, 1, n) \in Seq(D)
      /\ Len(SubSeq(s, 1, n)) = IF 1 <= n THEN n - 1 + 1 ELSE 0
      /\ \A i \in 1 .. n - 1 + 1 : SubSeq(s, 1, n)[i] = s[1 + i - 1]
  BY <1>1, SubSeqProperties
<1>3. n \in Nat /\ n - 1 + 1 = n /\ (\A i \in 1 .. n : 1 + i - 1 = i) /\ (1 <= n \/ n = 0)
  OBVIOUS
<1>4. QED
  BY <1>2, <1>3

LEMMA WholeIs ==
  ASSUME NEW D, NEW s \in Seq(D)
  PROVE  SubSeq(s, 1, Len(s)) = s /\ Len(s) \in 0 .. Len(s)
<1>1. Len(s) \in 0 .. Len(s)
  OBVIOUS
<1>2. /\ SubSeq(s, 1, Len(s)) \in Seq(D) /\ Len(SubSeq(s, 1, Len(s))) = Len(s)
      /\ \A k \in 1 .. Len(s) : SubSeq(s, 1, Len(s))[k] = s[k]
  BY <1>1, Cut
<1>3. \A u, v \in Seq(D) : Len(u) = Len(v) /\ (\A j \in 1 .. Len(u) : u[j] = v[j]) => u = v
  BY SeqEqual
<1>4. QED
  BY <1>1, <1>2, <1>3

LEMMA CutAndPut ==
  ASSUME NEW D, NEW s \in Seq(D), NEW n \in 0 .. Len(s), NEW x \in D
  PROVE  /\ Append(SubSeq(s, 1, n), x) \in Seq(D) /\ Len(Append(SubSeq(s, 1, n), x)) = n + 1
         /\ DOMAIN Append(SubSeq(s, 1, n), x) = 1 .. n + 1
         /\ Append(SubSeq(s, 1, n), x)[n + 1] = x /\ Frames!Last(Append(SubSeq(s, 1, n), x)) = x
         /\ \A i \in 1 .. n : Append(SubSeq(s, 1, n), x)[i] = s[i]
         /\ Frames!Front(Append(SubSeq(s, 1, n), x)) = SubSeq(s, 1, n)
<1> DEFINE r == SubSeq(s, 1, n)
<1>1. r \in Seq(D) /\ Len(r) = n /\ DOMAIN r = 1 .. n /\ \A i \in 1 .. n : r[i] = s[i]
  BY Cut
<1> HIDE DEF r
<1> DEFINE t == Append(r, x)
<1>2. /\ t \in Seq(D) /\ Len(t) = n + 1 /\ DOMAIN t = 1 .. n + 1
      /\ t[n + 1] = x
      /\ \A i \in 1 .. n : t[i] = r[i]
  BY <1>1
<1> HIDE DEF t
<1>3. Frames!Last(t) = x
  BY <1>2 DEF Frames!Last
<1>4. Frames!Front(t) = r
  <2>1. Frames!Front(t) = SubSeq(t, 1, n) /\ n \in 0 .. Len(t)
    BY <1>2 DEF Frames!Front
  <2>2. SubSeq(t, 1, n) \in Seq(D) /\ Len(SubSeq(t, 1, n)) = n /\ \A i \in 1 .. n : SubSeq(t, 1, n)[i] = t[i]
    BY <1>2, <2>1, Cut
  <2>3. \A u, v \in Seq(D) : Len(u) = Len(v) /\ (\A i \in 1 .. Len(u) : u[i] = v[i]) => u = v
    BY SeqEqual
  <2>4. QED
    BY <1>1, <1>2, <2>1, <2>2, <2>3
<1>5. QED
  BY <1>1, <1>2, <1>3, <1>4 DEF t, r

LEMMA ConPut ==
  ASSUME NEW s \in Seq(Con), NEW n \in 0 .. Len(s), NEW x \in Con
  PROVE  /\ Append(SubSeq(s, 1, n), x) \in Seq(Con) /\ Len(Append(SubSeq(s, 1, n), x)) = n + 1
         /\ DOMAIN Append(SubSeq(s, 1, n), x) = 1 .. n + 1
         /\ Append(SubSeq(s, 1, n), x)[n + 1] = x /\ Frames!Last(Append(SubSeq(s, 1, n), x)) = x
         /\ \A i \in 1 .. n : Append(SubSeq(s, 1, n), x)[i] = s[i]
         /\ Frames!Front(Append(SubSeq(s, 1, n), x)) = SubSeq(s, 1, n)
  BY CutAndPut

LEMMA ActPut ==
  ASSUME NEW s \in Seq(Act), NEW n \in 0 .. Len(s), NEW x \in Act
  PROVE  /\ Append(SubSeq(s, 1, n), x) \in Seq(Act) /\ Len(Append(SubSeq(s, 1, n), x)) = n + 1
         /\ DOMAIN Append(SubSeq(s, 1, n), x) = 1 .. n + 1
         /\ Append(SubSeq(s, 1, n), x)[n + 1] = x /\ Frames!Last(Append(SubSeq(s, 1, n), x)) = x
         /\ \A i \in 1 .. n : Append(SubSeq(s, 1, n), x)[i] = s[i]
         /\ Frames!Front(Append(SubSeq(s, 1, n), x)) = SubSeq(s, 1, n)
  BY CutAndPut

LEMMA FrontIs ==
  ASSUME NEW D, NEW s \in Seq(D), s # <<>>
  PROVE  /\ Frames!Front(s) = SubSeq(s, 1, Len(s) - 1) /\ Len(s) - 1 \in 0 .. Len(s) /\ Len(s) \in DOMAIN s
         /\ Frames!Last(s) = s[Len(s)] /\ Frames!Last(s) \in D /\ Len(s) \in Nat /\ DOMAIN s = 1 .. Len(s)
  BY DEF Frames!Front, Frames!Last

(* The reasons and what they mean.                                         *)
LEMMA KindIs ==
  /\ Frames!Kind(0) = "normal" /\ Frames!Kind(1) = "return" /\ Frames!Kind(2) = "break" /\ Frames!Kind(3) = "continue" /\ Frames!Kind(4) = "throw"
  /\ Frames!Reason["break"] = 2 /\ Frames!Reason["continue"] = 3
<1>1. DOMAIN Frames!Reason = Kinds
  BY DEF Frames!Reason, Kinds
<1>2. Frames!Reason["normal"] = 0 /\ Frames!Reason["return"] = 1 /\ Frames!Reason["break"] = 2 /\ Frames!Reason["continue"] = 3 /\ Frames!Reason["throw"] = 4
  BY DEF Frames!Reason
<1>3. ASSUME NEW k \in Kinds PROVE Frames!Kind(Frames!Reason[k]) = k
  <2>1. \A l \in Kinds : Frames!Reason[l] = Frames!Reason[k] => l = k
    BY <1>2 DEF Kinds
  <2>2. QED
    BY <1>1, <2>1 DEF Frames!Kind
<1>4. QED
  BY <1>2, <1>3 DEF Kinds

---------------------------------------------------------------------------
(* The constructs of an activation.                                        *)

LEMMA TriesIs ==
  ASSUME NEW cons \in Seq(Con)
  PROVE  /\ DOMAIN cons = 1 .. Len(cons) /\ Len(cons) \in Nat
         /\ \A i \in DOMAIN cons : cons[i] \in Con
         /\ Frames!OpenTries(cons) \subseteq DOMAIN cons /\ Frames!Loops(cons) \subseteq DOMAIN cons
         /\ Frames!InnerTry(cons) \in 0 .. Len(cons)
         /\ Frames!InnerTry(cons) = 0 <=> Frames!OpenTries(cons) = {}
         /\ Frames!OpenTries(cons) # {} => Frames!InnerTry(cons) \in Frames!OpenTries(cons)
         /\ \A j \in Frames!OpenTries(cons) : j <= Frames!InnerTry(cons)
         /\ Frames!Inner(Frames!Loops(cons)) \in 0 .. Len(cons)
         /\ Frames!Loops(cons) # {} => Frames!Inner(Frames!Loops(cons)) \in Frames!Loops(cons)
         /\ \A j \in Frames!Loops(cons) : j <= Frames!Inner(Frames!Loops(cons))
<1>1. /\ DOMAIN cons = 1 .. Len(cons) /\ Len(cons) \in Nat
      /\ \A i \in DOMAIN cons : cons[i] \in Con
  OBVIOUS
<1>2. Frames!OpenTries(cons) \in SUBSET (1 .. Len(cons)) /\ Frames!Loops(cons) \in SUBSET (1 .. Len(cons))
  BY <1>1 DEF Frames!OpenTries, Frames!Loops
<1>3. \A S \in SUBSET (1 .. Len(cons)) :
        /\ Frames!Inner(S) \in 0 .. Len(cons)
        /\ Frames!Inner(S) = 0 <=> S = {}
        /\ S # {} => Frames!Inner(S) \in S
        /\ \A y \in S : y <= Frames!Inner(S)
  BY <1>1, InnerIs
<1>4. QED
  BY <1>1, <1>2, <1>3 DEF Frames!InnerTry

(* How many tries are open around a loop.                                  *)
LEMMA DepthIs ==
  ASSUME NEW cons \in Seq(Con), NEW l \in Frames!Loops(cons)
  PROVE  /\ Frames!TryDepth(cons, l) \in Nat /\ Frames!Cardinality(Frames!OpenTries(cons)) \in Nat
         /\ Frames!TryDepth(cons, l) <= Frames!Cardinality(Frames!OpenTries(cons))
         /\ Frames!Cardinality(Frames!OpenTries(cons)) = Frames!TryDepth(cons, l) <=> \A j \in Frames!OpenTries(cons) : j < l
<1> DEFINE A == {j \in Frames!OpenTries(cons) : j < l}
           B == {j \in Frames!OpenTries(cons) : j > l}
<1>1. /\ \A j \in Frames!OpenTries(cons) : j \in 1 .. Len(cons) /\ j # l
      /\ l \in 1 .. Len(cons) /\ Len(cons) \in Nat
  BY TriesIs DEF Frames!OpenTries, Frames!Loops
<1>2. Frames!OpenTries(cons) = A \cup B /\ A \cap B = {}
  BY <1>1
<1>3. IsFiniteSet(Frames!OpenTries(cons))
  <2>1. IsFiniteSet(1 .. Len(cons)) /\ Frames!OpenTries(cons) \subseteq 1 .. Len(cons)
    BY <1>1, FS_Interval
  <2>2. QED
    BY <2>1, FS_Subset
<1>4. IsFiniteSet(A) /\ IsFiniteSet(B) /\ Frames!Cardinality(A) \in Nat /\ Frames!Cardinality(B) \in Nat
  BY <1>2, <1>3, FS_Subset, FS_CardinalityType, SameCardinality
<1>5. Frames!Cardinality(Frames!OpenTries(cons)) = Frames!Cardinality(A) + Frames!Cardinality(B)
  <2> HIDE DEF A, B
  <2>1. Frames!Cardinality(A \cup B) = Frames!Cardinality(A) + Frames!Cardinality(B) - Frames!Cardinality(A \cap B)
    BY <1>4, FS_Union, SameCardinality
  <2>2. Frames!Cardinality(A \cap B) = 0
    BY <1>2, FS_EmptySet, SameCardinality
  <2>3. QED
    BY <1>2, <1>4, <2>1, <2>2
<1>6. Frames!Cardinality(B) = 0 <=> B = {}
  BY <1>4, FS_EmptySet, SameCardinality
<1>7. B = {} <=> \A j \in Frames!OpenTries(cons) : j < l
  BY <1>1
<1>8. Frames!TryDepth(cons, l) = Frames!Cardinality(A)
  BY DEF Frames!TryDepth
<1> HIDE DEF A, B
<1>9. QED
  BY <1>4, <1>5, <1>6, <1>7, <1>8

(* Outside a construct inside the loop, the loop is the same.              *)
LEMMA AimsCut ==
  ASSUME NEW cons \in Seq(Con), NEW i \in DOMAIN cons,
         Frames!Loops(cons) # {}, Frames!Inner(Frames!Loops(cons)) < i
  PROVE  Aims(SubSeq(cons, 1, i - 1), Frames!TryDepth(cons, Frames!Inner(Frames!Loops(cons))))
<1> DEFINE l == Frames!Inner(Frames!Loops(cons))
           below == SubSeq(cons, 1, i - 1)
<1>1. l \in Frames!Loops(cons) /\ l < i /\ l \in 1 .. Len(cons) /\ i \in 1 .. Len(cons) /\ Len(cons) \in Nat
      /\ \A j \in Frames!Loops(cons) : j <= l
  BY TriesIs
<1>2. i - 1 \in 0 .. Len(cons)
  BY <1>1
<1>3. /\ below \in Seq(Con) /\ DOMAIN below = 1 .. i - 1
      /\ \A j \in 1 .. i - 1 : below[j] = cons[j]
  BY <1>2, Cut
<1>4. \A j \in 1 .. i - 1 : j \in 1 .. Len(cons) /\ j < i
  BY <1>1
<1>5. \A j \in 1 .. Len(cons) : j < i => j \in 1 .. i - 1
  BY <1>1
<1> HIDE DEF l, below
<1>6. l \in Frames!Loops(below) /\ \A j \in Frames!Loops(below) : j <= l /\ j \in 1 .. i - 1
  BY <1>1, <1>3, <1>4, <1>5 DEF Frames!Loops
<1>7. Frames!Inner(Frames!Loops(below)) = l
  <2>1. /\ Frames!Inner(Frames!Loops(below)) \in Frames!Loops(below)
        /\ \A j \in Frames!Loops(below) : j <= Frames!Inner(Frames!Loops(below))
    BY <1>3, <1>6, TriesIs
  <2>2. Frames!Inner(Frames!Loops(below)) <= l /\ Frames!Inner(Frames!Loops(below)) \in 1 .. i - 1 /\ l <= Frames!Inner(Frames!Loops(below))
    BY <1>6, <2>1
  <2>3. l \in Nat /\ Frames!Inner(Frames!Loops(below)) \in Nat
    BY <1>1, <2>2
  <2>4. QED
    BY <2>2, <2>3
<1>8. {j \in Frames!OpenTries(below) : j < l} = {j \in Frames!OpenTries(cons) : j < l}
  <2>1. ASSUME NEW j, j \in Frames!OpenTries(cons), j < l PROVE j \in Frames!OpenTries(below)
    <3>1. j \in 1 .. Len(cons)
      BY <2>1, TriesIs
    <3>2. j \in 1 .. i - 1
      BY <1>1, <2>1, <3>1
    <3>3. QED
      BY <1>3, <2>1, <3>2 DEF Frames!OpenTries
  <2>2. ASSUME NEW j, j \in Frames!OpenTries(below) PROVE j \in Frames!OpenTries(cons)
    BY <1>1, <1>3, <1>4, <2>2 DEF Frames!OpenTries
  <2>3. QED
    BY <2>1, <2>2
<1>9. QED
  BY <1>6, <1>7, <1>8 DEF Aims, Frames!TryDepth, l, below

SameSlots(a, b) == b.reason = a.reason /\ b.ret = a.ret /\ b.stop = a.stop /\ b.root = a.root
Quiet(a, n) == \A i \in 1 .. n : ~Owing(a, i) /\ a.cons[i].at # "catch"

(* An activation that goes on inside its first n constructs.               *)
LEMMA OrderlyCut ==
  ASSUME NEW a \in Act, NEW b \in Act, NEW n \in 0 .. Len(a.cons), Orderly(a),
         b.cons = SubSeq(a.cons, 1, n), SameSlots(a, b) \/ Quiet(a, n)
  PROVE  Orderly(b)
<1>1. a.cons \in Seq(Con) /\ DOMAIN a.cons = 1 .. Len(a.cons) /\ Len(a.cons) \in Nat
  BY DEF Act
<1>2. /\ DOMAIN b.cons = 1 .. n /\ n \in 0 .. Len(a.cons)
      /\ \A i \in 1 .. n : b.cons[i] = a.cons[i] /\ i \in DOMAIN a.cons
  BY <1>1, Cut
<1>3. \A i \in 1 .. n : SubSeq(b.cons, 1, i - 1) = SubSeq(a.cons, 1, i - 1)
  <2> SUFFICES ASSUME NEW i \in 1 .. n PROVE SubSeq(b.cons, 1, i - 1) = SubSeq(a.cons, 1, i - 1)
    OBVIOUS
  <2>1. i - 1 \in 0 .. n /\ i - 1 \in 0 .. Len(a.cons) /\ \A j \in 1 .. i - 1 : j \in 1 .. n
    BY <1>1
  <2>2. /\ SubSeq(a.cons, 1, i - 1) \in Seq(Con) /\ Len(SubSeq(a.cons, 1, i - 1)) = i - 1
        /\ \A j \in 1 .. i - 1 : SubSeq(a.cons, 1, i - 1)[j] = a.cons[j]
    BY <1>1, <2>1, Cut
  <2>3. b.cons \in Seq(Con) /\ Len(b.cons) = n
    BY <1>1, Cut
  <2>4. /\ SubSeq(b.cons, 1, i - 1) \in Seq(Con) /\ Len(SubSeq(b.cons, 1, i - 1)) = i - 1
        /\ \A j \in 1 .. i - 1 : SubSeq(b.cons, 1, i - 1)[j] = b.cons[j]
    BY <2>1, <2>3, Cut
  <2>5. \A u, v \in Seq(Con) : Len(u) = Len(v) /\ (\A j \in 1 .. Len(u) : u[j] = v[j]) => u = v
    BY SeqEqual
  <2>6. \A j \in 1 .. i - 1 : SubSeq(b.cons, 1, i - 1)[j] = SubSeq(a.cons, 1, i - 1)[j]
    BY <1>2, <2>1, <2>2, <2>4
  <2>7. QED
    BY <2>2, <2>4, <2>5, <2>6
<1>4. \A i \in 1 .. n : OnlyLoopsAbove(a.cons, i) => OnlyLoopsAbove(b.cons, i)
  BY <1>2 DEF OnlyLoopsAbove
<1>5. CASE SameSlots(a, b)
  <2>1. /\ Frames!Slots(b) = Frames!Slots(a) /\ b.reason = a.reason
        /\ \A cons : SlotsHold(b, cons) <=> SlotsHold(a, cons)
    BY <1>5 DEF SameSlots, Frames!Slots, SlotsHold
  <2>2. QED
    BY <1>2, <1>3, <1>4, <2>1 DEF Orderly, Owing
<1>6. CASE Quiet(a, n)
  BY <1>2, <1>6 DEF Orderly, Owing, Quiet
<1>7. QED
  BY <1>5, <1>6

(* ... and opens construct x there, a loop or one that takes their place.  *)
LEMMA OrderlyPut ==
  ASSUME NEW a \in Act, NEW b \in Act, NEW n \in 0 .. Len(a.cons), NEW x \in Con, Orderly(a),
         b.cons = Append(SubSeq(a.cons, 1, n), x),
         (x.kind = "loop" /\ SameSlots(a, b)) \/ Quiet(a, n),
         x.kind = "loop" => x.at = "body" /\ x.pend = Frames!Normal,
         x.pend # Frames!Normal => x.at = "fin" /\ x.pend = Frames!Slots(b) /\ SlotsHold(b, SubSeq(a.cons, 1, n)),
         x.at = "catch" => b.reason = 0
  PROVE  Orderly(b)
<1>1. a.cons \in Seq(Con) /\ DOMAIN a.cons = 1 .. Len(a.cons) /\ Len(a.cons) \in Nat
  BY DEF Act
<1>2. /\ DOMAIN b.cons = 1 .. n + 1 /\ b.cons[n + 1] = x
      /\ \A i \in 1 .. n : b.cons[i] = a.cons[i] /\ i \in DOMAIN a.cons
      /\ SubSeq(b.cons, 1, n) = SubSeq(a.cons, 1, n) /\ b.cons \in Seq(Con) /\ Len(b.cons) = n + 1
  <2>1. /\ b.cons \in Seq(Con) /\ Len(b.cons) = n + 1 /\ DOMAIN b.cons = 1 .. n + 1
        /\ b.cons[n + 1] = x
        /\ \A i \in 1 .. n : b.cons[i] = a.cons[i]
        /\ Frames!Front(b.cons) = SubSeq(a.cons, 1, n)
    <3> DEFINE s == a.cons
    <3>1. s \in Seq(Con) /\ b.cons = Append(SubSeq(s, 1, n), x) /\ n \in 0 .. Len(s)
      BY <1>1
    <3> HIDE DEF s
    <3>2. /\ Append(SubSeq(s, 1, n), x) \in Seq(Con) /\ Len(Append(SubSeq(s, 1, n), x)) = n + 1
          /\ DOMAIN Append(SubSeq(s, 1, n), x) = 1 .. n + 1
          /\ Append(SubSeq(s, 1, n), x)[n + 1] = x
          /\ \A i \in 1 .. n : Append(SubSeq(s, 1, n), x)[i] = s[i]
          /\ Frames!Front(Append(SubSeq(s, 1, n), x)) = SubSeq(s, 1, n)
      BY <3>1, ConPut
    <3>3. QED
      BY <3>1, <3>2 DEF s
  <2>2. Frames!Front(b.cons) = SubSeq(b.cons, 1, Len(b.cons) - 1) /\ (n + 1) - 1 = n /\ \A i \in 1 .. n : i \in 1 .. Len(a.cons)
    BY <1>1 DEF Frames!Front
  <2>3. QED
    BY <1>1, <2>1, <2>2
<1>3. n \in Nat /\ n + 1 - 1 = n /\ \A i \in 1 .. n + 1 : i = n + 1 \/ i \in 1 .. n
  BY <1>1
<1>4. ASSUME NEW i \in 1 .. n, OnlyLoopsAbove(a.cons, i), x.kind = "loop" PROVE OnlyLoopsAbove(b.cons, i)
  BY <1>2, <1>3, <1>4 DEF OnlyLoopsAbove
<1>5. OnlyLoopsAbove(b.cons, n + 1)
  BY <1>2, <1>3 DEF OnlyLoopsAbove
<1>6. ASSUME NEW i \in 1 .. n PROVE SubSeq(b.cons, 1, i - 1) = SubSeq(a.cons, 1, i - 1)
  <2>1. i - 1 \in 0 .. n /\ i - 1 \in 0 .. Len(a.cons) /\ i - 1 \in 0 .. Len(b.cons) /\ \A j \in 1 .. i - 1 : j \in 1 .. n
    BY <1>1, <1>2
  <2>2. /\ SubSeq(a.cons, 1, i - 1) \in Seq(Con) /\ Len(SubSeq(a.cons, 1, i - 1)) = i - 1
        /\ \A j \in 1 .. i - 1 : SubSeq(a.cons, 1, i - 1)[j] = a.cons[j]
    BY <1>1, <2>1, Cut
  <2>3. /\ SubSeq(b.cons, 1, i - 1) \in Seq(Con) /\ Len(SubSeq(b.cons, 1, i - 1)) = i - 1
        /\ \A j \in 1 .. i - 1 : SubSeq(b.cons, 1, i - 1)[j] = b.cons[j]
    BY <1>2, <2>1, Cut
  <2>4. \A u, v \in Seq(Con) : Len(u) = Len(v) /\ (\A j \in 1 .. Len(u) : u[j] = v[j]) => u = v
    BY SeqEqual
  <2>5. \A j \in 1 .. i - 1 : SubSeq(b.cons, 1, i - 1)[j] = SubSeq(a.cons, 1, i - 1)[j]
    BY <1>2, <2>1, <2>2, <2>3
  <2>6. QED
    BY <2>2, <2>3, <2>4, <2>5
<1>7. ASSUME NEW i \in 1 .. n
      PROVE  /\ b.cons[i].kind = "loop" => b.cons[i].at = "body" /\ ~Owing(b, i)
             /\ Owing(b, i) =>
                  /\ b.cons[i].at = "fin" /\ b.cons[i].pend = Frames!Slots(b)
                  /\ OnlyLoopsAbove(b.cons, i)
                  /\ SlotsHold(b, SubSeq(b.cons, 1, i - 1))
             /\ b.cons[i].at = "catch" => OnlyLoopsAbove(b.cons, i) /\ b.reason = 0
  <2>1. CASE x.kind = "loop" /\ SameSlots(a, b)
    <3>1. /\ Frames!Slots(b) = Frames!Slots(a) /\ b.reason = a.reason
          /\ \A cons : SlotsHold(b, cons) <=> SlotsHold(a, cons)
      BY <2>1 DEF SameSlots, Frames!Slots, SlotsHold
    <3>2. QED
      BY <1>2, <1>4, <1>6, <2>1, <3>1 DEF Orderly, Owing
  <2>2. CASE Quiet(a, n)
    BY <1>2, <2>2 DEF Orderly, Owing, Quiet
  <2>3. QED
    BY <2>1, <2>2
<1>8. /\ b.cons[n + 1].kind = "loop" => b.cons[n + 1].at = "body" /\ ~Owing(b, n + 1)
      /\ Owing(b, n + 1) =>
           /\ b.cons[n + 1].at = "fin" /\ b.cons[n + 1].pend = Frames!Slots(b)
           /\ OnlyLoopsAbove(b.cons, n + 1)
           /\ SlotsHold(b, SubSeq(b.cons, 1, n + 1 - 1))
      /\ b.cons[n + 1].at = "catch" => OnlyLoopsAbove(b.cons, n + 1) /\ b.reason = 0
  BY <1>2, <1>3, <1>5 DEF Owing
<1>9. QED
  BY <1>2, <1>3, <1>7, <1>8, SMTT(30) DEF Orderly

(* Around an open try nothing is owed and nothing caught.                  *)
LEMMA QuietAround ==
  ASSUME NEW a \in Act, Orderly(a), NEW i \in DOMAIN a.cons, a.cons[i].kind = "try"
  PROVE  Quiet(a, i - 1) /\ i - 1 \in 0 .. Len(a.cons)
<1>1. a.cons \in Seq(Con) /\ DOMAIN a.cons = 1 .. Len(a.cons) /\ Len(a.cons) \in Nat /\ i \in 1 .. Len(a.cons)
  BY DEF Act
<1>2. \A j \in 1 .. i - 1 : j \in DOMAIN a.cons /\ i > j
  BY <1>1
<1>3. QED
  BY <1>1, <1>2 DEF Quiet, Orderly, OnlyLoopsAbove

(* The cleanup of try i, entered with the slots of b.                      *)
Finally(b, i) == [b EXCEPT !.cons =
  Append(SubSeq(b.cons, 1, i - 1), [b.cons[i] EXCEPT !.at = "fin", !.pend = Frames!Slots(b)])]
Left(b, i) == [b EXCEPT !.cons = SubSeq(b.cons, 1, i - 1)]

LEMMA SlotsAre ==
  ASSUME NEW a \in Act
  PROVE  Frames!Slots(a) \in Pend /\ (Frames!Slots(a) = Frames!Normal <=> a.reason = 0)
<1>1. a.reason \in 0 .. 4 /\ a.ret \in Value /\ 0 \in Value
  BY DEF Act, Value
<1>2. a.reason = 0 \/ a.reason = 1 \/ a.reason = 2 \/ a.reason = 3 \/ a.reason = 4
  BY <1>1
<1>3. Frames!Slots(a).k = Frames!Kind(a.reason)
  BY DEF Frames!Slots
<1>4. Frames!Slots(a).k \in Kinds /\ (Frames!Slots(a).k = "normal" <=> a.reason = 0)
  BY <1>2, <1>3, KindIs DEF Kinds
<1>5. a.reason = 0 => Frames!Slots(a) = Frames!Normal
  BY KindIs DEF Frames!Slots, Frames!Normal
<1>6. Frames!Normal.k = "normal"
  BY DEF Frames!Normal
<1>7. Frames!Slots(a) \in Pend
  BY <1>1, <1>3, <1>4 DEF Frames!Slots, Pend
<1>8. QED
  BY <1>4, <1>5, <1>6, <1>7

LEMMA CleanupIs ==
  ASSUME NEW a \in Act, NEW b \in Act, Orderly(a), NEW i \in DOMAIN a.cons, a.cons[i].kind = "try",
         b.cons = a.cons, SlotsHold(b, SubSeq(a.cons, 1, i - 1))
  PROVE  /\ Finally(b, i) \in Act /\ Orderly(Finally(b, i)) /\ InUser(Finally(b, i)) /\ ~Frames!InCatch(Finally(b, i).cons)
         /\ Left(b, i) \in Act /\ Orderly(Left(b, i)) /\ InDispatch(Left(b, i))
<1>1. /\ a.cons \in Seq(Con) /\ DOMAIN a.cons = 1 .. Len(a.cons) /\ Len(a.cons) \in Nat /\ i \in 1 .. Len(a.cons)
      /\ i - 1 \in 0 .. Len(a.cons) /\ (i - 1) + 1 = i /\ a.cons[i] \in Con
  BY DEF Act
<1>2. Quiet(a, i - 1)
  BY QuietAround
<1> DEFINE below == SubSeq(a.cons, 1, i - 1)
           x == [b.cons[i] EXCEPT !.at = "fin", !.pend = Frames!Slots(b)]
           f == Finally(b, i)
           l == Left(b, i)
<1>3. /\ below \in Seq(Con) /\ DOMAIN below = 1 .. i - 1
      /\ \A j \in 1 .. i - 1 : below[j] = a.cons[j]
  BY <1>1, Cut
<1>4. Frames!Slots(b) \in Pend /\ (Frames!Slots(b) = Frames!Normal <=> b.reason = 0)
  BY SlotsAre
<1>5. x \in Con /\ x.kind = "try" /\ x.at = "fin" /\ x.pend = Frames!Slots(b)
  BY <1>1, <1>4 DEF Con
<1>6. f = [b EXCEPT !.cons = Append(below, x)] /\ l = [b EXCEPT !.cons = below]
  BY DEF Finally, Left
<1> HIDE DEF x, below, f, l
<1>7. /\ Append(below, x) \in Seq(Con) /\ DOMAIN Append(below, x) = 1 .. i /\ Append(below, x)[i] = x
      /\ \A j \in 1 .. i - 1 : Append(below, x)[j] = a.cons[j]
  <2>1. \A n \in 0 .. Len(a.cons) : /\ Append(SubSeq(a.cons, 1, n), x) \in Seq(Con)
                                    /\ DOMAIN Append(SubSeq(a.cons, 1, n), x) = 1 .. n + 1
                                    /\ Append(SubSeq(a.cons, 1, n), x)[n + 1] = x
                                    /\ \A j \in 1 .. n : Append(SubSeq(a.cons, 1, n), x)[j] = a.cons[j]
    BY <1>1, <1>5, ConPut
  <2>2. QED
    BY <1>1, <2>1 DEF below
<1>8. f \in Act /\ f.cons = Append(below, x) /\ SameSlots(b, f)
  BY <1>6, <1>7 DEF Act, SameSlots
<1>9. l \in Act /\ l.cons = below /\ SameSlots(b, l)
  BY <1>3, <1>6 DEF Act, SameSlots
<1>10. /\ Frames!Slots(f) = Frames!Slots(b) /\ f.reason = b.reason
       /\ Frames!Slots(l) = Frames!Slots(b) /\ l.reason = b.reason
       /\ \A cons : (SlotsHold(f, cons) <=> SlotsHold(b, cons)) /\ (SlotsHold(l, cons) <=> SlotsHold(b, cons))
  BY <1>8, <1>9 DEF SameSlots, Frames!Slots, SlotsHold
<1>11. Orderly(f)
  <2>1. f.cons = Append(SubSeq(a.cons, 1, i - 1), x) /\ SlotsHold(f, SubSeq(a.cons, 1, i - 1))
    BY <1>8, <1>10 DEF below
  <2>2. \A n \in 0 .. Len(a.cons) :
          /\ f.cons = Append(SubSeq(a.cons, 1, n), x) /\ Quiet(a, n) /\ SlotsHold(f, SubSeq(a.cons, 1, n)) => Orderly(f)
    BY <1>5, <1>8, <1>10, OrderlyPut
  <2>3. QED
    BY <1>1, <1>2, <2>1, <2>2
<1>12. InUser(f)
  BY <1>1, <1>4, <1>5, <1>7, <1>8, <1>10 DEF InUser, Owing
<1>13. ~Frames!InCatch(f.cons)
  <2>1. \A j \in 1 .. i : j = i \/ j \in 1 .. i - 1
    BY <1>1
  <2>2. QED
    BY <1>2, <1>5, <1>7, <1>8, <2>1 DEF Frames!InCatch, Quiet
<1>14. Orderly(l)
  BY <1>1, <1>2, <1>9, OrderlyCut DEF below
<1>15. InDispatch(l)
  BY <1>2, <1>3, <1>9, <1>10 DEF InDispatch, Quiet, Owing, Frames!InCatch, below
<1>16. QED
  BY <1>8, <1>9, <1>11, <1>12, <1>13, <1>14, <1>15 DEF f, l

---------------------------------------------------------------------------
(* Activations: one of them goes on as b, those called from it are left.   *)

Onto(stk, d, b) == Append(SubSeq(stk, 1, d - 1), b)

LEMMA OntoIs ==
  ASSUME NEW stk \in Seq(Act), NEW d \in 1 .. Len(stk), NEW b \in Act
  PROVE  /\ Onto(stk, d, b) \in Seq(Act) /\ Len(Onto(stk, d, b)) = d /\ DOMAIN Onto(stk, d, b) = 1 .. d
         /\ Onto(stk, d, b)[d] = b /\ \A e \in 1 .. d - 1 : Onto(stk, d, b)[e] = stk[e]
         /\ DOMAIN stk = 1 .. Len(stk) /\ Len(stk) \in Nat /\ d \in Nat /\ d <= Len(stk)
         /\ Frames!Last(Onto(stk, d, b)) = b /\ Frames!Front(Onto(stk, d, b)) = SubSeq(stk, 1, d - 1)
<1>1. DOMAIN stk = 1 .. Len(stk) /\ Len(stk) \in Nat /\ d \in 1 .. Len(stk) /\ d - 1 \in 0 .. Len(stk) /\ (d - 1) + 1 = d
  OBVIOUS
<1>2. PICK n \in 0 .. Len(stk) : n = d - 1 /\ n + 1 = d
  BY <1>1
<1>3. /\ Append(SubSeq(stk, 1, n), b) \in Seq(Act) /\ Len(Append(SubSeq(stk, 1, n), b)) = n + 1
      /\ DOMAIN Append(SubSeq(stk, 1, n), b) = 1 .. n + 1
      /\ Append(SubSeq(stk, 1, n), b)[n + 1] = b /\ Frames!Last(Append(SubSeq(stk, 1, n), b)) = b
      /\ \A i \in 1 .. n : Append(SubSeq(stk, 1, n), b)[i] = stk[i]
      /\ Frames!Front(Append(SubSeq(stk, 1, n), b)) = SubSeq(stk, 1, n)
  BY ActPut
<1>4. Onto(stk, d, b) = Append(SubSeq(stk, 1, n), b)
  BY <1>2 DEF Onto
<1>5. QED
  BY <1>1, <1>2, <1>3, <1>4

(* The constructs of b are some of a's, outermost first, and loops.        *)
Shrunk(a, b) ==
  /\ b.wm = a.wm
  /\ \A j \in DOMAIN b.cons :
       IF j \in DOMAIN a.cons
       THEN /\ b.cons[j].kind = a.cons[j].kind /\ b.cons[j].id = a.cons[j].id
            /\ b.cons[j].at = "body" => a.cons[j].at = "body"
       ELSE b.cons[j].kind = "loop"

LEMMA ActsOnto ==
  ASSUME NEW stk \in Seq(Act), NEW d \in 1 .. Len(stk), NEW b \in Act, NEW p, NEW q, ActsSound(stk, p),
         Orderly(b), q = "user" => InUser(b), q = "dispatch" => InDispatch(b)
  PROVE  ActsSound(Onto(stk, d, b), q)
<1> DEFINE t == Onto(stk, d, b)
<1>1. /\ Len(t) = d /\ DOMAIN t = 1 .. d /\ t[d] = b /\ \A e \in 1 .. d - 1 : t[e] = stk[e]
      /\ DOMAIN stk = 1 .. Len(stk) /\ Len(stk) \in Nat /\ d \in Nat /\ d <= Len(stk)
  <2>1. Len(Onto(stk, d, b)) = d /\ DOMAIN Onto(stk, d, b) = 1 .. d
    BY OntoIs, SMTT(20), ZenonT(40)
  <2>2. Onto(stk, d, b)[d] = b
    BY OntoIs, SMTT(20), ZenonT(40)
  <2>3. \A e \in 1 .. d - 1 : Onto(stk, d, b)[e] = stk[e]
    BY OntoIs, SMTT(20), ZenonT(40)
  <2>4. QED
    BY <2>1, <2>2, <2>3
<1> HIDE DEF t
<1>2. ASSUME NEW e \in 1 .. d, e # d
      PROVE  Orderly(t[e]) /\ ~Frames!InCatch(t[e].cons) /\ InUser(t[e])
  <2>1. e \in 1 .. d - 1 /\ e < Len(stk) /\ e \in DOMAIN stk
    BY <1>1, <1>2
  <2>2. QED
    BY <1>1, <2>1 DEF ActsSound
<1>3. \A e \in 1 .. d : e < d => e # d
  BY <1>1
<1>4. ActsSound(t, q)
  BY <1>1, <1>2, <1>3 DEF ActsSound
<1>5. QED
  BY <1>4 DEF t

LEMMA TriesOnto ==
  ASSUME NEW stk \in Seq(Act), NEW d \in 1 .. Len(stk), NEW b \in Act, Shrunk(stk[d], b)
  PROVE  \A e, i \in Nat :
           /\ IsTry(Onto(stk, d, b), e, i) =>
                /\ IsTry(stk, e, i) /\ Onto(stk, d, b)[e].cons[i].id = stk[e].cons[i].id
                /\ e <= d
           /\ IsBody(Onto(stk, d, b), e, i) => IsBody(stk, e, i)
           /\ e < d /\ IsBody(stk, e, i) =>
                IsBody(Onto(stk, d, b), e, i) /\ Onto(stk, d, b)[e].cons[i].id = stk[e].cons[i].id
<1> DEFINE t == Onto(stk, d, b)
<1>1. /\ Len(t) = d /\ DOMAIN t = 1 .. d /\ t[d] = b /\ \A e \in 1 .. d - 1 : t[e] = stk[e]
      /\ DOMAIN stk = 1 .. Len(stk) /\ Len(stk) \in Nat /\ d \in Nat /\ d <= Len(stk)
  <2>1. Len(Onto(stk, d, b)) = d /\ DOMAIN Onto(stk, d, b) = 1 .. d
    BY OntoIs, SMTT(20), ZenonT(40)
  <2>2. Onto(stk, d, b)[d] = b
    BY OntoIs, SMTT(20), ZenonT(40)
  <2>3. \A e \in 1 .. d - 1 : Onto(stk, d, b)[e] = stk[e]
    BY OntoIs, SMTT(20), ZenonT(40)
  <2>4. QED
    BY <2>1, <2>2, <2>3
<1> HIDE DEF t
<1>2. \A e \in 1 .. d : (e = d \/ e \in 1 .. d - 1) /\ e \in DOMAIN stk /\ e <= d
  BY <1>1
<1>3. \A e \in Nat : e < d /\ e \in DOMAIN stk => e \in 1 .. d - 1 /\ e \in 1 .. d
  BY <1>1
<1>4. ASSUME NEW e \in Nat, NEW i \in Nat
      PROVE  /\ IsTry(t, e, i) => IsTry(stk, e, i) /\ t[e].cons[i].id = stk[e].cons[i].id /\ e <= d
             /\ IsBody(t, e, i) => IsBody(stk, e, i)
             /\ e < d /\ IsBody(stk, e, i) => IsBody(t, e, i) /\ t[e].cons[i].id = stk[e].cons[i].id
  <2>1. CASE e = d
    BY <1>1, <1>2, <2>1 DEF IsTry, IsBody, Shrunk
  <2>2. CASE e # d
    BY <1>1, <1>2, <1>3, <2>2 DEF IsTry, IsBody
  <2>3. QED
    BY <2>1, <2>2
<1>5. QED
  BY <1>4 DEF t

LEMMA NumberedOnto ==
  ASSUME NEW stk \in Seq(Act), NEW d \in 1 .. Len(stk), NEW b \in Act, Shrunk(stk[d], b), NEW n, Numbered(stk, n)
  PROVE  Numbered(Onto(stk, d, b), n)
<1> DEFINE t == Onto(stk, d, b)
<1>1. \A e, i \in Nat : IsTry(t, e, i) => IsTry(stk, e, i) /\ t[e].cons[i].id = stk[e].cons[i].id
  BY TriesOnto
<1> HIDE DEF t
<1>2. Numbered(t, n)
  BY <1>1 DEF Numbered
<1>3. QED
  BY <1>2 DEF t

LEMMA MarkedOnto ==
  ASSUME NEW stk \in Seq(Act), NEW d \in 1 .. Len(stk), NEW b \in Act, b.wm = stk[d].wm,
         NEW sh \in Seq(Nat), NEW sh2 \in Seq(Nat), Marked(stk, sh),
         Len(sh) <= Len(sh2), \A i \in 1 .. Len(sh) : sh2[i] = sh[i]
  PROVE  Marked(Onto(stk, d, b), sh2)
<1> DEFINE t == Onto(stk, d, b)
<1>1. /\ Len(t) = d /\ DOMAIN t = 1 .. d /\ t[d] = b /\ \A e \in 1 .. d - 1 : t[e] = stk[e]
      /\ DOMAIN stk = 1 .. Len(stk) /\ Len(stk) \in Nat /\ d \in Nat /\ d <= Len(stk)
  <2>1. Len(Onto(stk, d, b)) = d /\ DOMAIN Onto(stk, d, b) = 1 .. d
    BY OntoIs, SMTT(20), ZenonT(40)
  <2>2. Onto(stk, d, b)[d] = b
    BY OntoIs, SMTT(20), ZenonT(40)
  <2>3. \A e \in 1 .. d - 1 : Onto(stk, d, b)[e] = stk[e]
    BY OntoIs, SMTT(20), ZenonT(40)
  <2>4. QED
    BY <2>1, <2>2, <2>3
<1> HIDE DEF t
<1>2. \A e \in 1 .. d : e \in DOMAIN stk /\ t[e].wm = stk[e].wm
  BY <1>1
<1>3. ASSUME NEW e \in 1 .. d PROVE t[e].wm < Len(sh2) /\ sh2[t[e].wm + 1] = e
  <2>0. stk[e] \in Act /\ e \in DOMAIN stk /\ t[e].wm = stk[e].wm
    BY <1>1, <1>2
  <2>1. stk[e].wm < Len(sh) /\ sh[stk[e].wm + 1] = e
    BY <2>0 DEF Marked
  <2>2. PICK w \in Nat : w = stk[e].wm
    BY <2>0 DEF Act
  <2>3. w < Len(sh) /\ sh[w + 1] = e /\ t[e].wm = w
    BY <2>0, <2>1, <2>2
  <2>4. PICK n \in Nat, n2 \in Nat : n = Len(sh) /\ n2 = Len(sh2) /\ n <= n2
    OBVIOUS
  <2>5. w + 1 \in 1 .. Len(sh) /\ w < Len(sh2)
    BY <2>3, <2>4
  <2>6. QED
    BY <2>3, <2>5
<1>4. Marked(t, sh2)
  BY <1>1, <1>2, <1>3 DEF Marked
<1>5. QED
  BY <1>4 DEF t

(* What FramesSound says of two frames and of an open body.                *)
LEMMA FramesInOrder ==
  ASSUME NEW stk, NEW ex, FramesSound(stk, ex), NEW k \in DOMAIN ex, NEW l \in DOMAIN ex, k < l
  PROVE  ex[k].act < ex[l].act \/ (ex[k].act = ex[l].act /\ ex[k].con < ex[l].con)
BY DEF FramesSound

LEMMA BodyHasFrame ==
  ASSUME NEW stk, NEW ex, FramesSound(stk, ex), NEW d \in Nat, NEW i \in Nat, IsBody(stk, d, i)
  PROVE  \E k \in DOMAIN ex : ex[k].act = d /\ ex[k].con = i
BY DEF FramesSound

(* The frames that are left are those of the bodies that are.              *)
LEMMA FramesOnto ==
  ASSUME NEW stk \in Seq(Act), NEW d \in 1 .. Len(stk), NEW b \in Act, Shrunk(stk[d], b),
         NEW ex \in Seq(ExcFrame), FramesSound(stk, ex), NEW m \in 0 .. Len(ex),
         \A k \in 1 .. m : ex[k].act < d \/ (ex[k].act = d /\ ex[k].con \in DOMAIN b.cons /\ b.cons[ex[k].con].at = "body"),
         \A k \in m + 1 .. Len(ex) : ex[k].act = d => ~(ex[k].con \in DOMAIN b.cons /\ b.cons[ex[k].con].at = "body"),
         \A k \in m + 1 .. Len(ex) : ex[k].act >= d
  PROVE  SubSeq(ex, 1, m) \in Seq(ExcFrame) /\ FramesSound(Onto(stk, d, b), SubSeq(ex, 1, m))
<1> DEFINE t == Onto(stk, d, b)
           f == SubSeq(ex, 1, m)
<1>1. /\ Len(t) = d /\ DOMAIN t = 1 .. d /\ t[d] = b /\ \A e \in 1 .. d - 1 : t[e] = stk[e]
      /\ DOMAIN stk = 1 .. Len(stk) /\ Len(stk) \in Nat /\ d \in Nat /\ d <= Len(stk)
  BY OntoIs
<1>2. \A e, i \in Nat :
           /\ IsTry(t, e, i) => IsTry(stk, e, i) /\ t[e].cons[i].id = stk[e].cons[i].id /\ e <= d
           /\ IsBody(t, e, i) => IsBody(stk, e, i)
           /\ e < d /\ IsBody(stk, e, i) => IsBody(t, e, i) /\ t[e].cons[i].id = stk[e].cons[i].id
  BY TriesOnto
<1>3. f \in Seq(ExcFrame) /\ DOMAIN f = 1 .. m /\ \A k \in 1 .. m : f[k] = ex[k]
  BY Cut
<1>4. /\ DOMAIN ex = 1 .. Len(ex) /\ Len(ex) \in Nat /\ m \in Nat
      /\ \A k \in 1 .. m : k \in DOMAIN ex
      /\ \A k \in DOMAIN ex : k \in 1 .. m \/ k \in m + 1 .. Len(ex)
      /\ \A k \in DOMAIN ex : ex[k] \in ExcFrame
  OBVIOUS
<1> HIDE DEF t, f
<1>5. ASSUME NEW k \in 1 .. m
      PROVE  IsBody(t, f[k].act, f[k].con) /\ t[f[k].act].cons[f[k].con].id = f[k].id /\ f[k].depthAtEnter = k - 1
  <2>1. /\ ex[k].act \in Nat /\ ex[k].con \in Nat /\ f[k] = ex[k] /\ ex[k].depthAtEnter = k - 1
        /\ IsBody(stk, ex[k].act, ex[k].con) /\ stk[ex[k].act].cons[ex[k].con].id = ex[k].id
    BY <1>3, <1>4 DEF ExcFrame, FramesSound
  <2>2. CASE ex[k].act < d
    BY <1>2, <2>1, <2>2
  <2>3. CASE ex[k].act = d /\ ex[k].con \in DOMAIN b.cons /\ b.cons[ex[k].con].at = "body"
    <3>1. d \in DOMAIN t
      BY <1>1
    <3>2. QED
      BY <1>1, <2>1, <2>3, <3>1 DEF IsBody, IsTry, Shrunk
  <2>4. QED
    BY <2>2, <2>3
<1>6. ASSUME NEW k \in 1 .. m, NEW l \in 1 .. m, k < l
      PROVE  f[k].act < f[l].act \/ (f[k].act = f[l].act /\ f[k].con < f[l].con)
  <2>1. \A i, j \in DOMAIN ex : i < j => ex[i].act < ex[j].act \/ (ex[i].act = ex[j].act /\ ex[i].con < ex[j].con)
    BY DEF FramesSound
  <2>2. k \in DOMAIN ex /\ l \in DOMAIN ex /\ f[k] = ex[k] /\ f[l] = ex[l]
    BY <1>3, <1>4
  <2>3. QED
    BY <1>6, <2>1, <2>2
<1>7. ASSUME NEW e \in Nat, NEW i \in Nat, IsBody(t, e, i)
      PROVE  \E k \in DOMAIN f : f[k].act = e /\ f[k].con = i
  <2>1. PICK k \in DOMAIN ex : ex[k].act = e /\ ex[k].con = i
    BY <1>2, <1>7 DEF FramesSound
  <2>2. e <= d
    BY <1>2, <1>7 DEF IsBody
  <2>3. CASE k \in m + 1 .. Len(ex)
    <3>1. e = d
      BY <1>1, <2>1, <2>2, <2>3
    <3>2. QED
      BY <1>1, <1>7, <2>1, <2>3, <3>1 DEF IsBody, IsTry
  <2>4. QED
    BY <1>3, <1>4, <2>1, <2>3
<1>8. FramesSound(t, f)
  <2>1. \A k \in DOMAIN f : IsBody(t, f[k].act, f[k].con) /\ t[f[k].act].cons[f[k].con].id = f[k].id /\ f[k].depthAtEnter = k - 1
    BY <1>3, <1>5
  <2>2. \A k, l \in DOMAIN f : k < l => f[k].act < f[l].act \/ (f[k].act = f[l].act /\ f[k].con < f[l].con)
    BY <1>3, <1>6
  <2>3. \A e, i \in Nat : IsBody(t, e, i) => \E k \in DOMAIN f : f[k].act = e /\ f[k].con = i
    BY <1>3, <1>7
  <2>4. QED
    BY <2>1, <2>2, <2>3 DEF FramesSound
<1>9. QED
  BY <1>3, <1>8 DEF t, f

---------------------------------------------------------------------------
(* Where a throw goes.                                                     *)

NoCatch(stk) == \A d \in 1 .. Len(stk) : ~Frames!InCatch(stk[d].cons)

LEMMA ActIs ==
  ASSUME NEW stk \in Seq(Act), NEW d \in 1 .. Len(stk)
  PROVE  /\ stk[d] \in Act /\ stk[d].cons \in Seq(Con) /\ DOMAIN stk = 1 .. Len(stk) /\ Len(stk) \in Nat
         /\ DOMAIN stk[d].cons = 1 .. Len(stk[d].cons) /\ Len(stk[d].cons) \in Nat
         /\ \A i \in DOMAIN stk[d].cons : stk[d].cons[i] \in Con
<1>1. stk[d] \in Act /\ DOMAIN stk = 1 .. Len(stk) /\ Len(stk) \in Nat
  OBVIOUS
<1>2. stk[d].cons \in Seq(Con)
  BY <1>1 DEF Act
<1>3. QED
  BY <1>1, <1>2

(* Without a catch body the open tries are the bodies with a frame.        *)
LEMMA OpenIsBody ==
  ASSUME NEW stk \in Seq(Act), NEW d \in 1 .. Len(stk), NEW i
  PROVE  /\ IsBody(stk, d, i) => i \in Frames!OpenTries(stk[d].cons)
         /\ ~Frames!InCatch(stk[d].cons) /\ i \in Frames!OpenTries(stk[d].cons) => IsBody(stk, d, i)
<1>1. /\ DOMAIN stk = 1 .. Len(stk) /\ \A j \in DOMAIN stk[d].cons : stk[d].cons[j] \in Con
  BY ActIs
<1>2. \A j \in DOMAIN stk[d].cons : stk[d].cons[j].at \in {"body", "catch", "fin"}
  BY <1>1 DEF Con
<1>3. QED
  BY <1>1, <1>2 DEF IsBody, IsTry, Frames!OpenTries, Frames!InCatch

LEMMA LastFrame ==
  ASSUME NEW stk \in Seq(Act), NEW ex \in Seq(ExcFrame), FramesSound(stk, ex), NoCatch(stk), ex # <<>>
  PROVE  LET f == Frames!Last(ex)
         IN /\ f.act \in 1 .. Len(stk) /\ f.con = Frames!InnerTry(stk[f.act].cons) /\ f.con \in DOMAIN stk[f.act].cons
            /\ IsBody(stk, f.act, f.con)
            /\ \A e \in 1 .. Len(stk) : e > f.act => Frames!OpenTries(stk[e].cons) = {}
<1> DEFINE n == Len(ex)
           d == ex[n].act
           i == ex[n].con
<1>1. n \in Nat /\ n \in DOMAIN ex /\ DOMAIN ex = 1 .. n /\ Frames!Last(ex) = ex[n] /\ ex[n] \in ExcFrame
  BY DEF Frames!Last
<1>2. d \in Nat /\ i \in Nat /\ IsBody(stk, d, i)
  BY <1>1 DEF ExcFrame, FramesSound
<1>3. d \in 1 .. Len(stk) /\ DOMAIN stk = 1 .. Len(stk) /\ i \in DOMAIN stk[d].cons
  BY <1>2 DEF IsBody, IsTry
<1>4. \A k \in DOMAIN ex : k # n => k < n
  BY <1>1
<1>5. ASSUME NEW e \in 1 .. Len(stk), NEW j \in Frames!OpenTries(stk[e].cons)
      PROVE  e < d \/ (e = d /\ j <= i)
  <2>1. IsBody(stk, e, j) /\ e \in Nat /\ j \in Nat
    <3>1. IsBody(stk, e, j)
      BY OpenIsBody DEF NoCatch
    <3>2. j \in DOMAIN stk[e].cons /\ DOMAIN stk[e].cons = 1 .. Len(stk[e].cons)
      BY ActIs DEF Frames!OpenTries
    <3>3. QED
      BY <3>1, <3>2
  <2>2. PICK k \in DOMAIN ex : ex[k].act = e /\ ex[k].con = j
    BY <2>1 DEF FramesSound
  <2>3. k = n \/ (ex[k].act < d \/ (ex[k].act = d /\ ex[k].con < i))
    BY <1>1, <1>4 DEF FramesSound
  <2>4. QED
    BY <1>2, <2>1, <2>2, <2>3
<1> HIDE DEF d, i, n
<1>6. i \in Frames!OpenTries(stk[d].cons) /\ stk[d].cons \in Seq(Con)
  BY <1>2, <1>3, OpenIsBody, ActIs
<1>7. \A j \in Frames!OpenTries(stk[d].cons) : j <= i
  BY <1>2, <1>3, <1>5
<1>8. Frames!InnerTry(stk[d].cons) = i
  <2>1. /\ Frames!InnerTry(stk[d].cons) \in Frames!OpenTries(stk[d].cons) /\ Frames!InnerTry(stk[d].cons) \in Nat
        /\ \A j \in Frames!OpenTries(stk[d].cons) : j <= Frames!InnerTry(stk[d].cons)
    BY <1>6, TriesIs
  <2>2. Frames!InnerTry(stk[d].cons) <= i /\ i <= Frames!InnerTry(stk[d].cons)
    BY <1>6, <1>7, <2>1
  <2>3. QED
    BY <1>2, <2>1, <2>2
<1>9. \A e \in 1 .. Len(stk) : e > d => Frames!OpenTries(stk[e].cons) = {}
  <2> SUFFICES ASSUME NEW e \in 1 .. Len(stk), e > d, NEW j \in Frames!OpenTries(stk[e].cons) PROVE FALSE
    OBVIOUS
  <2>1. e < d \/ e = d
    BY <1>5
  <2>2. QED
    BY <1>2, <2>1
<1>10. QED
  BY <1>1, <1>2, <1>3, <1>8, <1>9 DEF d, i, n

LEMMA NoFrame ==
  ASSUME NEW stk \in Seq(Act), FramesSound(stk, <<>>), NoCatch(stk)
  PROVE  \A e \in 1 .. Len(stk) : Frames!OpenTries(stk[e].cons) = {}
<1> SUFFICES ASSUME NEW e \in 1 .. Len(stk), NEW j \in Frames!OpenTries(stk[e].cons) PROVE FALSE
  OBVIOUS
<1>1. IsBody(stk, e, j)
  BY OpenIsBody DEF NoCatch
<1>2. j \in DOMAIN stk[e].cons /\ DOMAIN stk[e].cons = 1 .. Len(stk[e].cons)
  BY ActIs DEF Frames!OpenTries
<1>3. e \in Nat /\ j \in Nat
  BY <1>2
<1>4. QED
  BY <1>1, <1>3 DEF FramesSound

(* The innermost open try of the activation on top is a catch body, and    *)
(* has no frame, or has the top frame.                                     *)
LEMMA TopFrame ==
  ASSUME NEW stk \in Seq(Act), NEW ex \in Seq(ExcFrame), NEW p, FramesSound(stk, ex), ActsSound(stk, p),
         stk # <<>>, Frames!InnerTry(stk[Len(stk)].cons) > 0
  PROVE  LET i == Frames!InnerTry(stk[Len(stk)].cons)
             c == stk[Len(stk)].cons[i]
         IN /\ i \in DOMAIN stk[Len(stk)].cons /\ c.kind = "try" /\ c.at \in {"body", "catch"}
            /\ c.at = "body" => ex # <<>> /\ Frames!Last(ex).act = Len(stk) /\ Frames!Last(ex).con = i /\ NoCatch(stk)
<1> DEFINE n == Len(stk)
           cons == stk[n].cons
           i == Frames!InnerTry(cons)
<1>1. n \in 1 .. Len(stk) /\ n \in Nat /\ DOMAIN stk = 1 .. n
  OBVIOUS
<1>2. cons \in Seq(Con) /\ DOMAIN cons = 1 .. Len(cons) /\ \A j \in DOMAIN cons : cons[j] \in Con
  BY <1>1, ActIs
<1> HIDE DEF n
<1>3. /\ i \in Frames!OpenTries(cons) /\ i \in DOMAIN cons /\ \A j \in Frames!OpenTries(cons) : j <= i
  <2>1. i # 0
    BY DEF n
  <2>2. QED
    BY <1>2, <2>1, TriesIs
<1>4. cons[i].kind = "try" /\ cons[i].at \in {"body", "catch"}
  BY <1>2, <1>3 DEF Frames!OpenTries, Con
<1>5. ASSUME cons[i].at = "body" PROVE NoCatch(stk)
  <2>1. \A e \in 1 .. Len(stk) : e # n => ~Frames!InCatch(stk[e].cons)
    <3>1. n = Len(stk) /\ DOMAIN stk = 1 .. n
      BY <1>1 DEF n
    <3>2. \A e \in 1 .. n : e # n => e < n
      BY <1>1
    <3>3. \A e \in DOMAIN stk : e < Len(stk) => ~Frames!InCatch(stk[e].cons)
      BY DEF ActsSound
    <3>4. QED
      BY <3>1, <3>2, <3>3
  <2>2. ASSUME NEW j \in DOMAIN cons, cons[j].at = "catch" PROVE FALSE
    <3>1. Orderly(stk[n])
      BY <1>1 DEF ActsSound
    <3>2. OnlyLoopsAbove(cons, j) /\ cons[j].kind # "loop"
      BY <2>2, <3>1 DEF Orderly
    <3>3. cons[j].kind = "try"
      BY <1>2, <3>2 DEF Con
    <3>4. j \in Frames!OpenTries(cons) /\ j # i
      BY <1>5, <2>2, <3>3 DEF Frames!OpenTries
    <3>5. i > j
      BY <1>2, <1>3, <3>4
    <3>6. QED
      BY <1>3, <1>4, <3>2, <3>5 DEF OnlyLoopsAbove
  <2>3. ~Frames!InCatch(cons)
    BY <2>2 DEF Frames!InCatch
  <2>4. QED
    BY <2>1, <2>3 DEF NoCatch
<1>6. ASSUME cons[i].at = "body" PROVE ex # <<>> /\ Frames!Last(ex).act = n /\ Frames!Last(ex).con = i
  <2>1. NoCatch(stk) /\ Frames!OpenTries(cons) # {}
    BY <1>3, <1>5, <1>6
  <2>2. ex # <<>>
    BY <1>1, <2>1, NoFrame
  <2>3. /\ Frames!Last(ex).act \in 1 .. Len(stk) /\ Frames!Last(ex).con = Frames!InnerTry(stk[Frames!Last(ex).act].cons)
        /\ \A e \in 1 .. Len(stk) : e > Frames!Last(ex).act => Frames!OpenTries(stk[e].cons) = {}
    BY <2>1, <2>2, LastFrame
  <2>4. Frames!Last(ex).act = n
    <3> DEFINE d == Frames!Last(ex).act
    <3>1. ~(n > d)
      BY <1>1, <2>1, <2>3
    <3>2. d \in 1 .. n
      BY <2>3 DEF n
    <3> HIDE DEF d
    <3>3. d = n
      BY <1>1, <3>1, <3>2
    <3>4. QED
      BY <3>3 DEF d
  <2>5. QED
    BY <2>2, <2>3, <2>4
<1>7. QED
  BY <1>3, <1>4, <1>5, <1>6 DEF n

(* Try i is the innermost one of activation d and has the top frame, or it *)
(* is a catch body of the activation on top.                               *)
Unwinds(stk, ex, d, i) ==
  /\ i \in 1 .. Len(stk[d].cons) /\ i = Frames!InnerTry(stk[d].cons) /\ IsTry(stk, d, i)
  /\ stk[d].cons[i].at = "body" => ex # <<>> /\ Frames!Last(ex).act = d /\ Frames!Last(ex).con = i
  /\ stk[d].cons[i].at # "body" => d = Len(stk)

(* How many frames are below it, and what they are.                        *)
Kept(stk, ex, d, i) == IF stk[d].cons[i].at = "body" THEN Len(ex) - 1 ELSE Len(ex)
IsKept(stk, ex, d, i, m) ==
  /\ m \in 0 .. Len(ex)
  /\ \A k \in 1 .. m : /\ ex[k].act < d \/ (ex[k].act = d /\ ex[k].con \in 1 .. i - 1)
                       /\ IsBody(stk, ex[k].act, ex[k].con)
                       /\ ex[k].id # stk[d].cons[i].id
  /\ \A k \in m + 1 .. Len(ex) : ex[k].act = d /\ ex[k].con = i /\ ex[k].id = stk[d].cons[i].id

LEMMA FrameIs ==
  ASSUME NEW stk \in Seq(Act), NEW ex \in Seq(ExcFrame), FramesSound(stk, ex), NEW k \in 1 .. Len(ex)
  PROVE  /\ ex[k].act \in 1 .. Len(stk) /\ ex[k].con \in 1 .. Len(stk[ex[k].act].cons)
         /\ IsBody(stk, ex[k].act, ex[k].con)
         /\ stk[ex[k].act].cons[ex[k].con].id = ex[k].id
         /\ ex[k].depthAtEnter = k - 1
<1>1. k \in DOMAIN ex /\ ex[k] \in ExcFrame
  OBVIOUS
<1>2. /\ IsBody(stk, ex[k].act, ex[k].con) /\ stk[ex[k].act].cons[ex[k].con].id = ex[k].id
      /\ ex[k].depthAtEnter = k - 1
  BY <1>1 DEF FramesSound
<1>3. ex[k].act \in DOMAIN stk /\ ex[k].con \in DOMAIN stk[ex[k].act].cons
  BY <1>2 DEF IsBody, IsTry
<1>4. ex[k].act \in 1 .. Len(stk)
  BY <1>3
<1>5. DOMAIN stk[ex[k].act].cons = 1 .. Len(stk[ex[k].act].cons)
  BY <1>4, ActIs
<1>6. QED
  BY <1>2, <1>3, <1>4, <1>5

LEMMA IdsDiffer ==
  ASSUME NEW stk \in Seq(Act), NEW n, Numbered(stk, n),
         NEW d \in Nat, NEW i \in Nat, NEW e \in Nat, NEW j \in Nat, IsTry(stk, d, i), IsTry(stk, e, j)
  PROVE  stk[e].cons[j].id = stk[d].cons[i].id <=> e = d /\ j = i
  BY DEF Numbered

LEMMA FramesBelow ==
  ASSUME NEW stk \in Seq(Act), NEW ex \in Seq(ExcFrame), NEW n, FramesSound(stk, ex), Numbered(stk, n),
         NEW d \in 1 .. Len(stk), NEW i \in Nat, Unwinds(stk, ex, d, i)
  PROVE  IsKept(stk, ex, d, i, Kept(stk, ex, d, i))
<1> DEFINE c == stk[d].cons[i]
           N == Len(stk[d].cons)
<1>1. IsTry(stk, d, i) /\ i \in 1 .. N /\ i = Frames!InnerTry(stk[d].cons)
  BY DEF Unwinds
<1>2. N \in Nat /\ d \in Nat /\ stk[d].cons \in Seq(Con) /\ Len(ex) \in Nat /\ Len(stk) \in Nat
  BY ActIs
<1>3. /\ c.at = "body" => ex # <<>> /\ Frames!Last(ex).act = d /\ Frames!Last(ex).con = i
      /\ c.at # "body" => d = Len(stk)
  BY DEF Unwinds
<1>4. Kept(stk, ex, d, i) = IF c.at = "body" THEN Len(ex) - 1 ELSE Len(ex)
  BY DEF Kept
<1> HIDE DEF c, N
<1>5. ASSUME NEW k \in 1 .. Len(ex) PROVE ex[k].id = c.id <=> ex[k].act = d /\ ex[k].con = i
  <2>1. /\ IsBody(stk, ex[k].act, ex[k].con) /\ ex[k].act \in Nat /\ ex[k].con \in Nat
        /\ stk[ex[k].act].cons[ex[k].con].id = ex[k].id
    <3>1. /\ ex[k].act \in 1 .. Len(stk) /\ ex[k].con \in 1 .. Len(stk[ex[k].act].cons)
          /\ IsBody(stk, ex[k].act, ex[k].con)
          /\ stk[ex[k].act].cons[ex[k].con].id = ex[k].id
      BY FrameIs
    <3>2. QED
      BY <3>1
  <2>2. IsTry(stk, ex[k].act, ex[k].con)
    BY <2>1 DEF IsBody
  <2>3. ASSUME NEW e \in Nat, NEW j \in Nat, IsTry(stk, e, j)
        PROVE  stk[e].cons[j].id = c.id <=> e = d /\ j = i
    <3>1. c.id = stk[d].cons[i].id
      BY DEF c
    <3>2. stk[e].cons[j].id = stk[d].cons[i].id <=> e = d /\ j = i
      <4>1. d \in Nat /\ i \in Nat /\ IsTry(stk, d, i)
        BY <1>1, <1>2
      <4>2. QED
        BY <2>3, <4>1 DEF Numbered
    <3>3. QED
      BY <3>1, <3>2
  <2>4. QED
    BY <2>1, <2>2, <2>3
<1>6. ASSUME NEW k \in 1 .. Len(ex), ~(ex[k].act = d /\ ex[k].con = i), ex[k].act <= d,
             ex[k].act = d => ex[k].con <= i
      PROVE  /\ ex[k].act < d \/ (ex[k].act = d /\ ex[k].con \in 1 .. i - 1)
             /\ IsBody(stk, ex[k].act, ex[k].con)
             /\ ex[k].id # c.id
  <2>1. /\ ex[k].act \in 1 .. Len(stk) /\ ex[k].con \in 1 .. Len(stk[ex[k].act].cons)
        /\ IsBody(stk, ex[k].act, ex[k].con)
    BY FrameIs
  <2>2. ex[k].act = d => ex[k].con \in 1 .. N
    BY <2>1 DEF N
  <2>3. ex[k].act < d \/ ex[k].act = d
    BY <1>2, <1>6, <2>1
  <2>4. ex[k].act = d => ex[k].con \in 1 .. i - 1
    BY <1>2, <1>6, <2>2
  <2>5. QED
    BY <1>5, <1>6, <2>1, <2>3, <2>4
<1>7. CASE c.at = "body"
  <2>1. /\ Len(ex) \in 1 .. Len(ex) /\ ex[Len(ex)].act = d /\ ex[Len(ex)].con = i /\ Len(ex) - 1 \in 0 .. Len(ex)
        /\ Kept(stk, ex, d, i) = Len(ex) - 1
    <3>1. ex # <<>> /\ Frames!Last(ex) = ex[Len(ex)]
      BY <1>3, <1>7 DEF Frames!Last
    <3>2. Len(ex) # 0
      BY <3>1
    <3>3. QED
      BY <1>2, <1>3, <1>4, <1>7, <3>1, <3>2
  <2>2. ASSUME NEW k \in 1 .. Len(ex) - 1
        PROVE  /\ ex[k].act < d \/ (ex[k].act = d /\ ex[k].con \in 1 .. i - 1)
               /\ IsBody(stk, ex[k].act, ex[k].con)
               /\ ex[k].id # c.id
    <3>1. k \in 1 .. Len(ex) /\ k < Len(ex) /\ k \in DOMAIN ex /\ Len(ex) \in DOMAIN ex
      BY <1>2, <2>1
    <3>2. ex[k].act < ex[Len(ex)].act \/ (ex[k].act = ex[Len(ex)].act /\ ex[k].con < ex[Len(ex)].con)
      BY <3>1 DEF FramesSound
    <3>3. ex[k].act < d \/ (ex[k].act = d /\ ex[k].con < i)
      BY <2>1, <3>2
    <3>4. /\ ex[k].act \in 1 .. Len(stk) /\ ex[k].con \in 1 .. Len(stk[ex[k].act].cons)
      BY <3>1, FrameIs
    <3>5. ex[k].act \in Nat /\ ex[k].con \in Nat
      BY <3>4
    <3>6. ~(ex[k].act = d /\ ex[k].con = i) /\ ex[k].act <= d /\ (ex[k].act = d => ex[k].con <= i)
      BY <1>2, <3>3, <3>5
    <3>7. QED
      BY <1>6, <3>1, <3>6
  <2>3. \A k \in Len(ex) - 1 + 1 .. Len(ex) : k = Len(ex)
    BY <1>2
  <2>4. QED
    BY <1>5, <2>1, <2>2, <2>3 DEF IsKept, c
<1>8. CASE c.at # "body"
  <2>1. Kept(stk, ex, d, i) = Len(ex) /\ Len(ex) \in 0 .. Len(ex) /\ d = Len(stk)
    BY <1>2, <1>3, <1>4, <1>8
  <2>2. \A k \in Len(ex) + 1 .. Len(ex) : FALSE
    BY <1>2
  <2>3. ASSUME NEW k \in 1 .. Len(ex)
        PROVE  /\ ex[k].act < d \/ (ex[k].act = d /\ ex[k].con \in 1 .. i - 1)
               /\ IsBody(stk, ex[k].act, ex[k].con)
               /\ ex[k].id # c.id
    <3>1. ex[k].act \in 1 .. Len(stk) /\ IsBody(stk, ex[k].act, ex[k].con)
      BY FrameIs
    <3>2. ex[k].act <= d
      BY <1>2, <2>1, <3>1
    <3>3. ~(ex[k].act = d /\ ex[k].con = i)
      BY <1>8, <3>1 DEF IsBody, c
    <3>4. ex[k].act = d => ex[k].con \in Frames!OpenTries(stk[d].cons)
      BY <3>1, OpenIsBody
    <3>5. \A j \in Frames!OpenTries(stk[d].cons) : j <= i
      BY <1>1, <1>2, TriesIs
    <3>6. ex[k].act = d => ex[k].con <= i
      BY <3>4, <3>5
    <3>7. QED
      BY <1>6, <3>2, <3>3, <3>6
  <2>4. QED
    BY <2>1, <2>2, <2>3 DEF IsKept, c
<1>9. QED
  BY <1>7, <1>8

LEMMA CleanupShape ==
  ASSUME NEW a \in Act, NEW b \in Act, NEW i \in DOMAIN a.cons, b.cons = a.cons, b.wm = a.wm,
         NEW t, t = Finally(b, i) \/ t = Left(b, i)
  PROVE  /\ Shrunk(a, t)
         /\ \A k \in DOMAIN t.cons : k \in 1 .. i /\ (k = i => t.cons[k].at # "body")
         /\ \A k \in 1 .. i - 1 : k \in DOMAIN t.cons /\ t.cons[k] = a.cons[k]
<1>1. /\ a.cons \in Seq(Con) /\ DOMAIN a.cons = 1 .. Len(a.cons) /\ Len(a.cons) \in Nat /\ i \in 1 .. Len(a.cons)
      /\ i - 1 \in 0 .. Len(a.cons) /\ (i - 1) + 1 = i /\ a.cons[i] \in Con
  BY DEF Act
<1> DEFINE x == [b.cons[i] EXCEPT !.at = "fin", !.pend = Frames!Slots(b)]
           below == SubSeq(a.cons, 1, i - 1)
<1>2. x \in Con /\ x.kind = a.cons[i].kind /\ x.id = a.cons[i].id /\ x.at = "fin"
  BY <1>1, SlotsAre DEF Con
<1>3. CASE t = Left(b, i)
  <2>1. t.cons = below /\ t.wm = a.wm
    BY <1>3 DEF Left, Act
  <2>2. DOMAIN below = 1 .. i - 1 /\ \A k \in 1 .. i - 1 : below[k] = a.cons[k]
    BY <1>1, Cut
  <2>3. \A k \in 1 .. i - 1 : k \in DOMAIN a.cons /\ k \in 1 .. i /\ k # i
    BY <1>1
  <2>4. QED
    BY <2>1, <2>2, <2>3 DEF Shrunk
<1>4. CASE t = Finally(b, i)
  <2>1. t.cons = Append(below, x) /\ t.wm = a.wm
    BY <1>4 DEF Finally, Act
  <2> HIDE DEF x
  <2>2. \A n \in 0 .. Len(a.cons) : /\ DOMAIN Append(SubSeq(a.cons, 1, n), x) = 1 .. n + 1
                                    /\ Append(SubSeq(a.cons, 1, n), x)[n + 1] = x
                                    /\ \A k \in 1 .. n : Append(SubSeq(a.cons, 1, n), x)[k] = a.cons[k]
    BY <1>1, <1>2, ConPut
  <2>3. /\ DOMAIN Append(below, x) = 1 .. i /\ Append(below, x)[i] = x
        /\ \A k \in 1 .. i - 1 : Append(below, x)[k] = a.cons[k]
    BY <1>1, <2>2
  <2>4. \A k \in 1 .. i : k \in DOMAIN a.cons /\ (k = i \/ k \in 1 .. i - 1)
    BY <1>1
  <2>5. \A k \in 1 .. i - 1 : k \in 1 .. i
    BY <1>1
  <2>6. QED
    BY <1>2, <2>1, <2>3, <2>4, <2>5 DEF Shrunk
<1>5. QED
  BY <1>3, <1>4

(* The runtime unwinds to it: hao_try_end finds its frame on top, or has   *)
(* none to pop.                                                            *)
LEMMA CleanupKeeps ==
  ASSUME FramesInv, end = "run", NEW d \in 1 .. Len(acts), NEW i \in Nat, Unwinds(acts, exc, d, i),
         NEW b \in Act, b.cons = acts[d].cons, b.wm = acts[d].wm, SlotsHold(b, SubSeq(acts[d].cons, 1, i - 1)),
         NEW frames, frames = exc \/ (acts[d].cons[i].at = "body" /\ frames = SubSeq(exc, 1, Len(exc) - 1)),
         Frames!Cleanup(SubSeq(acts, 1, d - 1), b, i, frames)
  PROVE  FramesInv'
<1> DEFINE m == Kept(acts, exc, d, i)
           c == acts[d].cons[i]
           t == IF c.fin THEN Finally(b, i) ELSE Left(b, i)
<1>1. /\ acts \in Seq(Act) /\ exc \in Seq(ExcFrame) /\ shadow \in Seq(Nat) /\ nextId \in Nat
      /\ ActsSound(acts, excPc) /\ FramesSound(acts, exc) /\ Numbered(acts, nextId) /\ Marked(acts, shadow)
  BY DEF FramesInv, Typed
<1>2. IsKept(acts, exc, d, i, m)
  BY <1>1, FramesBelow
<1>3. /\ i \in 1 .. Len(acts[d].cons) /\ acts[d] \in Act /\ acts[d].cons \in Seq(Con) /\ i \in DOMAIN acts[d].cons
      /\ d \in DOMAIN acts /\ c.kind = "try" /\ c \in Con /\ Len(exc) \in Nat
      /\ i - 1 \in 0 .. Len(acts[d].cons)
  <2>1. /\ acts[d] \in Act /\ acts[d].cons \in Seq(Con) /\ DOMAIN acts = 1 .. Len(acts)
        /\ DOMAIN acts[d].cons = 1 .. Len(acts[d].cons) /\ Len(acts[d].cons) \in Nat
        /\ \A j \in DOMAIN acts[d].cons : acts[d].cons[j] \in Con
    BY <1>1, ActIs
  <2>2. i \in 1 .. Len(acts[d].cons) /\ IsTry(acts, d, i)
    BY DEF Unwinds
  <2>3. QED
    BY <1>1, <2>1, <2>2 DEF IsTry
<1>4. /\ acts' = Onto(acts, d, t) /\ excPc' = (IF c.fin THEN "user" ELSE "dispatch")
      /\ exc' = IF frames # <<>> /\ Frames!Last(frames).id = c.id THEN Frames!Front(frames) ELSE frames
      /\ UNCHANGED <<shadow, nextId, end>>
  <2>1. b.cons[i] = c
    OBVIOUS
  <2>2. /\ exc' = IF frames # <<>> /\ Frames!Last(frames).id = b.cons[i].id THEN Frames!Front(frames) ELSE frames
        /\ UNCHANGED <<shadow, nextId, end>>
    BY DEF Frames!Cleanup
  <2>3. CASE b.cons[i].fin
    <3>1. acts' = Onto(acts, d, Finally(b, i)) /\ excPc' = "user"
      BY <2>3 DEF Frames!Cleanup, Onto, Finally
    <3>2. QED
      BY <2>1, <2>2, <2>3, <3>1
  <2>4. CASE ~b.cons[i].fin
    <3>1. acts' = Onto(acts, d, Left(b, i)) /\ excPc' = "dispatch"
      BY <2>4 DEF Frames!Cleanup, Onto, Left
    <3>2. QED
      BY <2>1, <2>2, <2>4, <3>1
  <2>5. QED
    BY <2>3, <2>4
<1>5. m = (IF c.at = "body" THEN Len(exc) - 1 ELSE Len(exc)) /\ (c.at = "body" => exc # <<>>)
  BY DEF Kept, Unwinds
<1> HIDE DEF m, c, t
<1>6. exc' = SubSeq(exc, 1, m)
  <2>0. Len(SubSeq(exc, 1, m)) = m /\ m \in 0 .. Len(exc) /\ m \in Nat
    BY <1>1, <1>2, Cut DEF IsKept
  <2>1. exc = SubSeq(exc, 1, Len(exc))
    BY <1>1, WholeIs
  <2>2. ASSUME NEW k \in 1 .. m PROVE exc[k].id # c.id
    BY <1>2 DEF IsKept, c
  <2>3. CASE frames = SubSeq(exc, 1, m)
    <3>1. CASE m = 0
      <4>1. frames = <<>>
        BY <1>1, <2>0, <2>3, <3>1, Cut
      <4>2. QED
        BY <1>4, <2>3, <4>1
    <3>2. CASE m # 0
      <4>1. Frames!Last(frames) = SubSeq(exc, 1, m)[m] /\ m \in 1 .. m
        BY <2>0, <2>3, <3>2 DEF Frames!Last
      <4>2. SubSeq(exc, 1, m)[m] = exc[m]
        BY <1>1, <2>0, <4>1, Cut
      <4>3. QED
        BY <1>4, <2>2, <2>3, <4>1, <4>2
    <3>3. QED
      BY <3>1, <3>2
  <2>4. CASE frames = exc /\ c.at = "body"
    <3>1. exc # <<>> /\ Frames!Last(exc) = exc[Len(exc)] /\ m = Len(exc) - 1 /\ Len(exc) \in m + 1 .. Len(exc)
      BY <1>1, <1>3, <1>5, <2>4 DEF Frames!Last
    <3>2. exc[Len(exc)].id = c.id
      BY <1>2, <3>1 DEF IsKept, c
    <3>3. Frames!Front(exc) = SubSeq(exc, 1, m)
      BY <3>1 DEF Frames!Front
    <3>4. QED
      BY <1>4, <2>4, <3>1, <3>2, <3>3
  <2>5. c.at # "body" => m = Len(exc)
    BY <1>5
  <2>6. c.at = "body" => m = Len(exc) - 1
    BY <1>5
  <2>7. frames = exc \/ (c.at = "body" /\ frames = SubSeq(exc, 1, Len(exc) - 1))
    BY DEF c
  <2>8. QED
    BY <2>1, <2>3, <2>4, <2>5, <2>6, <2>7
<1>7. /\ Finally(b, i) \in Act /\ Orderly(Finally(b, i)) /\ InUser(Finally(b, i))
      /\ Left(b, i) \in Act /\ Orderly(Left(b, i)) /\ InDispatch(Left(b, i))
  <2>1. Orderly(acts[d]) /\ acts[d].cons[i].kind = "try"
    BY <1>1, <1>3 DEF ActsSound, c
  <2>2. QED
    BY <1>3, <2>1, CleanupIs
<1>8. /\ t \in Act /\ Orderly(t) /\ (excPc' = "user" => InUser(t)) /\ (excPc' = "dispatch" => InDispatch(t))
      /\ excPc' \in {"user", "dispatch"}
  BY <1>4, <1>7 DEF t
<1>9. /\ Shrunk(acts[d], t)
      /\ \A k \in DOMAIN t.cons : k \in 1 .. i /\ (k = i => t.cons[k].at # "body")
      /\ \A k \in 1 .. i - 1 : k \in DOMAIN t.cons /\ t.cons[k] = acts[d].cons[k]
  <2>1. t = Finally(b, i) \/ t = Left(b, i)
    BY DEF t
  <2>2. QED
    BY <1>3, <2>1, CleanupShape, SMTT(30)
<1>10. exc' \in Seq(ExcFrame) /\ FramesSound(acts', exc')
  <2>1. /\ m \in 0 .. Len(exc)
        /\ \A k \in 1 .. m : /\ exc[k].act < d \/ (exc[k].act = d /\ exc[k].con \in 1 .. i - 1)
                             /\ IsBody(acts, exc[k].act, exc[k].con)
        /\ \A k \in m + 1 .. Len(exc) : exc[k].act = d /\ exc[k].con = i
    BY <1>2 DEF IsKept
  <2>2. ASSUME NEW k \in 1 .. m
        PROVE  exc[k].act < d \/ (exc[k].act = d /\ exc[k].con \in DOMAIN t.cons /\ t.cons[exc[k].con].at = "body")
    <3>1. acts[exc[k].act].cons[exc[k].con].at = "body"
      BY <2>1 DEF IsBody
    <3>2. CASE exc[k].act = d /\ exc[k].con \in 1 .. i - 1
      <4>1. PICK j \in 1 .. i - 1 : j = exc[k].con
        BY <3>2
      <4>2. j \in DOMAIN t.cons /\ t.cons[j] = acts[d].cons[j]
        BY <1>9
      <4>3. QED
        BY <3>1, <3>2, <4>1, <4>2
    <3>3. QED
      BY <2>1, <3>2
  <2>3. ASSUME NEW k \in m + 1 .. Len(exc)
        PROVE  exc[k].act >= d /\ ~(exc[k].con \in DOMAIN t.cons /\ t.cons[exc[k].con].at = "body")
    BY <1>1, <1>9, <2>1
  <2>4. SubSeq(exc, 1, m) \in Seq(ExcFrame) /\ FramesSound(Onto(acts, d, t), SubSeq(exc, 1, m))
    BY <1>1, <1>8, <1>9, <2>1, <2>2, <2>3, FramesOnto
  <2>5. QED
    BY <1>4, <1>6, <2>4
<1>11. ActsSound(acts', excPc')
  BY <1>1, <1>4, <1>8, ActsOnto
<1>12. Numbered(acts', nextId') /\ Marked(acts', shadow')
  <2>1. Numbered(Onto(acts, d, t), nextId)
    BY <1>1, <1>8, <1>9, NumberedOnto
  <2>2. Len(shadow) <= Len(shadow) /\ t.wm = acts[d].wm
    BY <1>1, <1>9 DEF Shrunk
  <2>3. Marked(Onto(acts, d, t), shadow)
    BY <1>1, <1>8, <2>2, MarkedOnto
  <2>4. QED
    BY <1>4, <2>1, <2>3
<1>13. acts' \in Seq(Act) /\ acts' # <<>>
  <2>1. Onto(acts, d, t) \in Seq(Act) /\ Len(Onto(acts, d, t)) = d /\ d # 0
    BY <1>1, <1>8, OntoIs
  <2>2. QED
    BY <1>4, <2>1
<1>14. QED
  BY <1>1, <1>4, <1>8, <1>10, <1>11, <1>12, <1>13 DEF FramesInv, Typed

(* The activation on top goes on, with its tries.                          *)
LEMMA GoesOn ==
  ASSUME FramesInv, end = "run", NEW b \in Act, Shrunk(Frames!top, b), Orderly(b),
         \A j \in Frames!OpenTries(Frames!top.cons) : j \in DOMAIN b.cons /\ b.cons[j] = Frames!top.cons[j],
         acts' = Append(Frames!Front(acts), b), UNCHANGED <<exc, nextId, end>>,
         shadow' \in Seq(Nat), Len(shadow) <= Len(shadow'), \A i \in 1 .. Len(shadow) : shadow'[i] = shadow[i],
         excPc' \in {"user", "dispatch"}, excPc' = "user" => InUser(b), excPc' = "dispatch" => InDispatch(b)
  PROVE  FramesInv'
<1> DEFINE d == Len(acts)
<1>1. /\ acts \in Seq(Act) /\ exc \in Seq(ExcFrame) /\ shadow \in Seq(Nat) /\ nextId \in Nat /\ acts # <<>>
      /\ ActsSound(acts, excPc) /\ FramesSound(acts, exc) /\ Numbered(acts, nextId) /\ Marked(acts, shadow)
  BY DEF FramesInv, Typed
<1>2. d \in 1 .. Len(acts) /\ d \in Nat /\ Frames!top = acts[d] /\ Frames!Front(acts) = SubSeq(acts, 1, d - 1)
  BY <1>1, FrontIs DEF Frames!top
<1>3. /\ acts[d] \in Act /\ acts[d].cons \in Seq(Con) /\ DOMAIN acts[d].cons = 1 .. Len(acts[d].cons)
      /\ Len(acts[d].cons) \in Nat
  BY <1>1, <1>2, ActIs
<1>4. acts' = Onto(acts, d, b)
  BY <1>2 DEF Onto
<1>7. SubSeq(exc, 1, Len(exc)) = exc /\ Len(exc) \in 0 .. Len(exc)
  BY <1>1, WholeIs
<1> HIDE DEF d
<1>8. ASSUME NEW k \in 1 .. Len(exc)
      PROVE  exc[k].act < d \/ (exc[k].act = d /\ exc[k].con \in DOMAIN b.cons /\ b.cons[exc[k].con].at = "body")
  <2>1. exc[k].act \in 1 .. d /\ IsBody(acts, exc[k].act, exc[k].con)
    BY <1>1, FrameIs DEF d
  <2>2. CASE exc[k].act = d
    <3>1. exc[k].con \in Frames!OpenTries(Frames!top.cons) /\ acts[d].cons[exc[k].con].at = "body"
      BY <1>1, <1>2, <2>1, <2>2, OpenIsBody DEF IsBody
    <3>2. PICK j \in Frames!OpenTries(Frames!top.cons) : j = exc[k].con
      BY <3>1
    <3>3. j \in DOMAIN b.cons /\ b.cons[j] = acts[d].cons[j]
      BY <1>2
    <3>4. QED
      BY <2>2, <3>1, <3>2, <3>3
  <2>3. QED
    BY <1>2, <2>1, <2>2
<1>9. \A k \in Len(exc) + 1 .. Len(exc) : FALSE
  BY <1>1
<1>10. FramesSound(acts', exc')
  <2>1. FramesSound(Onto(acts, d, b), SubSeq(exc, 1, Len(exc)))
    BY <1>1, <1>2, <1>7, <1>8, <1>9, FramesOnto
  <2>2. QED
    BY <1>4, <1>7, <2>1
<1>11. ActsSound(acts', excPc')
  <2>1. (excPc' = "user" => InUser(b)) /\ (excPc' = "dispatch" => InDispatch(b))
    OBVIOUS
  <2>2. \A q : (q = "user" => InUser(b)) /\ (q = "dispatch" => InDispatch(b)) => ActsSound(Onto(acts, d, b), q)
    BY <1>1, <1>2, ActsOnto
  <2>3. QED
    BY <1>4, <2>1, <2>2
<1>12. Numbered(acts', nextId') /\ Marked(acts', shadow')
  <2>1. Numbered(Onto(acts, d, b), nextId)
    BY <1>1, <1>2, NumberedOnto
  <2>2. b.wm = acts[d].wm
    BY <1>2 DEF Shrunk
  <2>3. \A sh \in Seq(Nat) : Len(shadow) <= Len(sh) /\ (\A i \in 1 .. Len(shadow) : sh[i] = shadow[i]) => Marked(Onto(acts, d, b), sh)
    BY <1>1, <1>2, <2>2, MarkedOnto
  <2>4. QED
    BY <1>4, <2>1, <2>3
<1>13. acts' \in Seq(Act) /\ acts' # <<>>
  <2>1. Onto(acts, d, b) \in Seq(Act) /\ Len(Onto(acts, d, b)) = d /\ d # 0
    BY <1>1, <1>2, OntoIs
  <2>2. QED
    BY <1>4, <2>1
<1>14. QED
  BY <1>1, <1>10, <1>11, <1>12, <1>13 DEF FramesInv, Typed

(* ... inside its first n constructs.                                      *)
LEMMA StayKeeps ==
  ASSUME FramesInv, end = "run", NEW b \in Act, NEW n \in 0 .. Len(Frames!top.cons), b.cons = SubSeq(Frames!top.cons, 1, n), b.wm = Frames!top.wm,
         Orderly(b), \A j \in Frames!OpenTries(Frames!top.cons) : j <= n,
         Frames!Stay(b), excPc' \in {"user", "dispatch"}, excPc' = "user" => InUser(b), excPc' = "dispatch" => InDispatch(b)
  PROVE  FramesInv'
<1>1. Frames!top \in Act /\ shadow \in Seq(Nat)
  BY FrontIs DEF FramesInv, Typed, Frames!top
<1>2. Frames!top.cons \in Seq(Con) /\ DOMAIN Frames!top.cons = 1 .. Len(Frames!top.cons) /\ Len(Frames!top.cons) \in Nat
  BY <1>1 DEF Act
<1>3. /\ DOMAIN b.cons = 1 .. n /\ n \in 0 .. Len(Frames!top.cons)
      /\ \A i \in 1 .. n : b.cons[i] = Frames!top.cons[i] /\ i \in DOMAIN Frames!top.cons
  BY <1>2, Cut
<1>4. Shrunk(Frames!top, b)
  BY <1>3 DEF Shrunk
<1>5. \A j \in Frames!OpenTries(Frames!top.cons) : j \in DOMAIN b.cons /\ b.cons[j] = Frames!top.cons[j]
  BY <1>2, <1>3, TriesIs
<1>6. /\ acts' = Append(Frames!Front(acts), b) /\ UNCHANGED <<exc, nextId, end>> /\ shadow' = shadow
      /\ Len(shadow) <= Len(shadow)
  BY <1>1 DEF Frames!Stay
<1>7. QED
  BY <1>1, <1>4, <1>5, <1>6, GoesOn

---------------------------------------------------------------------------
(* The statements.                                                         *)

LEMMA EnteredIs ==
  ASSUME NEW n \in Nat
  PROVE  /\ Frames!Entered(n) \in Act /\ Frames!Entered(n).wm = n /\ Frames!Entered(n).reason = 0 /\ DOMAIN Frames!Entered(n).cons = {}
         /\ Orderly(Frames!Entered(n)) /\ InUser(Frames!Entered(n)) /\ ~Frames!InCatch(Frames!Entered(n).cons)
<1>1. Frames!Entered(n) \in Act /\ Frames!Entered(n).wm = n /\ Frames!Entered(n).reason = 0 /\ Frames!Entered(n).cons = <<>>
  BY DEF Frames!Entered, Act, Value
<1>2. DOMAIN Frames!Entered(n).cons = {}
  BY <1>1
<1>3. QED
  BY <1>1, <1>2 DEF Orderly, InUser, Frames!InCatch

LEMMA FramesInvInit ==
  ASSUME PlainProgram, Frames!Init
  PROVE  FramesInv
<1> DEFINE a == Frames!Entered(0)
<1>1. /\ a \in Act /\ a.wm = 0 /\ DOMAIN a.cons = {} /\ Orderly(a) /\ InUser(a) /\ ~Frames!InCatch(a.cons)
  BY EnteredIs
<1>2. acts = <<a>> /\ exc = <<>> /\ shadow = <<1>> /\ excPc = "user" /\ nextId = 1 /\ end = "run"
  BY DEF Frames!Init
<1> HIDE DEF a
<1>3. acts \in Seq(Act) /\ Len(acts) = 1 /\ DOMAIN acts = {1} /\ acts[1] = a /\ acts # <<>>
  BY <1>1, <1>2
<1>4. exc \in Seq(ExcFrame) /\ shadow \in Seq(Nat) /\ DOMAIN exc = {} /\ Len(shadow) = 1 /\ shadow[1] = 1
  BY <1>2
<1>5. ActsSound(acts, excPc)
  BY <1>1, <1>2, <1>3 DEF ActsSound
<1>6. \A d, i \in Nat : ~IsTry(acts, d, i)
  BY <1>1, <1>3 DEF IsTry
<1>7. FramesSound(acts, exc) /\ Numbered(acts, nextId)
  BY <1>4, <1>6 DEF FramesSound, Numbered, IsBody
<1>8. Marked(acts, shadow)
  <2>1. \A d \in DOMAIN acts : d = 1 /\ acts[d].wm = 0
    BY <1>1, <1>3
  <2>2. 0 < Len(shadow) /\ shadow[0 + 1] = 1
    BY <1>4
  <2>3. \A d, e \in DOMAIN acts : d < e => FALSE
    BY <1>3
  <2>4. QED
    BY <2>1, <2>2, <2>3 DEF Marked
<1>9. QED
  BY <1>2, <1>3, <1>4, <1>5, <1>7, <1>8 DEF FramesInv, Typed

(* What a statement finds.                                                 *)
LEMMA TopIs ==
  ASSUME FramesInv, end = "run"
  PROVE  /\ acts \in Seq(Act) /\ exc \in Seq(ExcFrame) /\ shadow \in Seq(Nat) /\ nextId \in Nat /\ acts # <<>>
         /\ ActsSound(acts, excPc) /\ FramesSound(acts, exc) /\ Numbered(acts, nextId) /\ Marked(acts, shadow)
         /\ Len(acts) \in 1 .. Len(acts) /\ Len(acts) \in Nat /\ DOMAIN acts = 1 .. Len(acts)
         /\ Frames!top = acts[Len(acts)] /\ Frames!Front(acts) = SubSeq(acts, 1, Len(acts) - 1)
         /\ Frames!top \in Act /\ Frames!top.cons \in Seq(Con) /\ DOMAIN Frames!top.cons = 1 .. Len(Frames!top.cons) /\ Len(Frames!top.cons) \in Nat
         /\ Orderly(Frames!top) /\ (excPc = "user" => InUser(Frames!top)) /\ (excPc = "dispatch" => InDispatch(Frames!top))
<1>1. /\ acts \in Seq(Act) /\ exc \in Seq(ExcFrame) /\ shadow \in Seq(Nat) /\ nextId \in Nat /\ acts # <<>>
      /\ ActsSound(acts, excPc) /\ FramesSound(acts, exc) /\ Numbered(acts, nextId) /\ Marked(acts, shadow)
  BY DEF FramesInv, Typed
<1>2. /\ Len(acts) \in 1 .. Len(acts) /\ Len(acts) \in Nat /\ DOMAIN acts = 1 .. Len(acts)
      /\ Frames!top = acts[Len(acts)] /\ Frames!Front(acts) = SubSeq(acts, 1, Len(acts) - 1)
  BY <1>1, FrontIs DEF Frames!top
<1>3. Frames!top \in Act /\ Frames!top.cons \in Seq(Con)
  <2>1. acts[Len(acts)] \in Act /\ acts[Len(acts)].cons \in Seq(Con)
    BY <1>1, <1>2, ActIs
  <2>2. QED
    BY <1>2, <2>1
<1>4. DOMAIN Frames!top.cons = 1 .. Len(Frames!top.cons) /\ Len(Frames!top.cons) \in Nat
  BY <1>3
<1>5. Orderly(Frames!top) /\ (excPc = "user" => InUser(Frames!top)) /\ (excPc = "dispatch" => InDispatch(Frames!top))
  BY <1>1, <1>2 DEF ActsSound
<1>6. QED
  BY <1>1, <1>2, <1>3, <1>4, <1>5

LEMMA OpenLoopKeeps ==
  ASSUME FramesInv, Frames!OpenLoop
  PROVE  FramesInv'
<1>1. /\ end = "run" /\ excPc = "user" /\ excPc' = "user" /\ UNCHANGED <<exc, nextId, end>>
      /\ acts' = Append(Frames!Front(acts), [Frames!top EXCEPT !.cons = Append(@, Frames!Loop)])
      /\ shadow' = IF Frames!Loops(Frames!top.cons) = {} THEN Append(shadow, Len(acts)) ELSE shadow
  BY DEF Frames!OpenLoop, Frames!User
<1>2. /\ acts \in Seq(Act) /\ shadow \in Seq(Nat) /\ Len(acts) \in Nat
      /\ Frames!top \in Act /\ Frames!top.cons \in Seq(Con) /\ DOMAIN Frames!top.cons = 1 .. Len(Frames!top.cons) /\ Len(Frames!top.cons) \in Nat
      /\ Orderly(Frames!top) /\ InUser(Frames!top)
  BY <1>1, TopIs
<1> DEFINE b == [Frames!top EXCEPT !.cons = Append(@, Frames!Loop)]
<1>3. Frames!Loop \in Con /\ Frames!Loop.kind = "loop" /\ Frames!Loop.at = "body" /\ Frames!Loop.pend = Frames!Normal
  <2>1. Frames!Normal \in Pend
    BY DEF Frames!Normal, Pend, Kinds, Value
  <2>2. <<>> \in Clauses
    BY DEF Clauses
  <2>3. QED
    BY <2>1, <2>2 DEF Frames!Loop, Con
<1>4. /\ b.cons = Append(Frames!top.cons, Frames!Loop) /\ b.wm = Frames!top.wm /\ SameSlots(Frames!top, b)
      /\ b.cons \in Seq(Con) /\ DOMAIN b.cons = 1 .. Len(Frames!top.cons) + 1 /\ b.cons[Len(Frames!top.cons) + 1] = Frames!Loop
      /\ \A i \in 1 .. Len(Frames!top.cons) : b.cons[i] = Frames!top.cons[i]
  <2>1. b.cons = Append(Frames!top.cons, Frames!Loop) /\ b.wm = Frames!top.wm /\ SameSlots(Frames!top, b)
    BY <1>2 DEF Act, SameSlots
  <2>2. QED
    BY <1>2, <1>3, <2>1
<1>5. b \in Act
  BY <1>2, <1>4 DEF Act
<1> HIDE DEF b
<1>6. SubSeq(Frames!top.cons, 1, Len(Frames!top.cons)) = Frames!top.cons /\ Len(Frames!top.cons) \in 0 .. Len(Frames!top.cons)
  BY <1>2, WholeIs
<1>7. Orderly(b)
  <2>1. b.cons = Append(SubSeq(Frames!top.cons, 1, Len(Frames!top.cons)), Frames!Loop)
    BY <1>4, <1>6
  <2>2. \A n \in 0 .. Len(Frames!top.cons) : b.cons = Append(SubSeq(Frames!top.cons, 1, n), Frames!Loop) => Orderly(b)
    BY <1>2, <1>3, <1>4, <1>5, OrderlyPut, SMTT(30)
  <2>3. QED
    BY <1>6, <2>1, <2>2
<1>8. Shrunk(Frames!top, b)
  <2>1. \A j \in 1 .. Len(Frames!top.cons) + 1 : j \in 1 .. Len(Frames!top.cons) \/ (j = Len(Frames!top.cons) + 1 /\ j \notin 1 .. Len(Frames!top.cons))
    BY <1>2
  <2>2. QED
    BY <1>2, <1>3, <1>4, <2>1 DEF Shrunk
<1>9. \A j \in Frames!OpenTries(Frames!top.cons) : j \in DOMAIN b.cons /\ b.cons[j] = Frames!top.cons[j]
  BY <1>2, <1>4, TriesIs
<1>10. InUser(b)
  <2>1. \A j \in DOMAIN Frames!top.cons : Owing(Frames!top, j) => Owing(b, j) /\ j \in DOMAIN b.cons
    BY <1>2, <1>4 DEF Owing
  <2>2. QED
    BY <1>2, <1>4, <2>1 DEF InUser, SameSlots
<1>11. /\ shadow' \in Seq(Nat) /\ Len(shadow) <= Len(shadow') /\ \A i \in 1 .. Len(shadow) : shadow'[i] = shadow[i]
  <2>1. CASE shadow' = shadow
    BY <1>2, <2>1
  <2>2. CASE shadow' = Append(shadow, Len(acts))
    BY <1>2, <2>2
  <2>3. QED
    BY <1>1, <2>1, <2>2
<1>12. acts' = Append(Frames!Front(acts), b)
  BY <1>1 DEF b
<1>13. QED
  BY <1>1, <1>5, <1>7, <1>8, <1>9, <1>10, <1>11, <1>12, GoesOn

LEMMA CallKeeps ==
  ASSUME PlainProgram, FramesInv, Frames!Call
  PROVE  FramesInv'
<1>1. /\ end = "run" /\ excPc = "user" /\ UNCHANGED <<exc, excPc, nextId, end>> /\ ~Frames!InCatch(Frames!top.cons)
      /\ acts' = Append(acts, Frames!Entered(Len(shadow))) /\ shadow' = Append(shadow, Len(acts) + 1)
  BY DEF Frames!Call, Frames!User, PlainProgram
<1>2. /\ acts \in Seq(Act) /\ exc \in Seq(ExcFrame) /\ shadow \in Seq(Nat) /\ nextId \in Nat /\ acts # <<>>
      /\ ActsSound(acts, excPc) /\ FramesSound(acts, exc) /\ Numbered(acts, nextId) /\ Marked(acts, shadow)
      /\ Len(acts) \in 1 .. Len(acts) /\ Len(acts) \in Nat /\ DOMAIN acts = 1 .. Len(acts)
      /\ Frames!top = acts[Len(acts)]
  BY <1>1, TopIs
<1> DEFINE a == Frames!Entered(Len(shadow))
           N == Len(acts)
<1>3. /\ a \in Act /\ a.wm = Len(shadow) /\ DOMAIN a.cons = {} /\ Orderly(a) /\ InUser(a) /\ Len(shadow) \in Nat
  BY <1>2, EnteredIs
<1>4. acts' = Append(acts, a)
  BY <1>1
<1> HIDE DEF a
<1>5. /\ acts' \in Seq(Act) /\ DOMAIN acts' = 1 .. N + 1 /\ Len(acts') = N + 1 /\ acts'[N + 1] = a /\ acts' # <<>>
      /\ \A e \in 1 .. N : acts'[e] = acts[e]
  BY <1>2, <1>3, <1>4, SMTT(30)
<1>6. /\ N \in Nat
      /\ \A e \in 1 .. N + 1 : e = N + 1 \/ e \in 1 .. N
      /\ \A e \in 1 .. N : e \in 1 .. N + 1 /\ e # N + 1 /\ (e < N \/ e = N)
  <2>1. N \in Nat
    BY <1>2
  <2> HIDE DEF N
  <2>2. QED
    BY <2>1
<1>7. ActsSound(acts', excPc')
  <2>1. ASSUME NEW e \in 1 .. N PROVE Orderly(acts[e]) /\ ~Frames!InCatch(acts[e].cons) /\ InUser(acts[e])
    BY <1>1, <1>2, <1>6 DEF ActsSound
  <2>2. QED
    BY <1>1, <1>3, <1>5, <1>6, <2>1 DEF ActsSound
<1>8. \A e, i \in Nat : /\ IsTry(acts', e, i) <=> IsTry(acts, e, i)
                        /\ IsBody(acts', e, i) <=> IsBody(acts, e, i)
                        /\ IsTry(acts, e, i) => acts'[e].cons[i].id = acts[e].cons[i].id
  <2> SUFFICES ASSUME NEW e \in Nat, NEW i \in Nat
               PROVE  /\ IsTry(acts', e, i) <=> IsTry(acts, e, i)
                      /\ IsBody(acts', e, i) <=> IsBody(acts, e, i)
                      /\ IsTry(acts, e, i) => acts'[e].cons[i].id = acts[e].cons[i].id
    OBVIOUS
  <2>1. CASE e = N + 1
    BY <1>2, <1>3, <1>5, <1>6, <2>1 DEF IsTry, IsBody
  <2>2. CASE e \in 1 .. N
    BY <1>2, <1>5, <1>6, <2>2 DEF IsTry, IsBody
  <2>3. CASE e \notin 1 .. N + 1
    BY <1>2, <1>5, <1>6, <2>3 DEF IsTry, IsBody
  <2>4. QED
    BY <2>1, <2>2, <2>3
<1>9. FramesSound(acts', exc')
  <2>1. ASSUME NEW k \in DOMAIN exc
        PROVE  /\ IsBody(acts', exc[k].act, exc[k].con) /\ acts'[exc[k].act].cons[exc[k].con].id = exc[k].id
               /\ exc[k].depthAtEnter = k - 1
    <3>1. PICK e \in Nat, i \in Nat : e = exc[k].act /\ i = exc[k].con
      <4>1. exc[k] \in ExcFrame
        BY <1>2
      <4>2. QED
        BY <4>1 DEF ExcFrame
    <3>2. IsBody(acts, e, i) /\ acts[e].cons[i].id = exc[k].id /\ exc[k].depthAtEnter = k - 1
      BY <1>2, <3>1 DEF FramesSound
    <3>3. IsTry(acts, e, i)
      BY <3>2 DEF IsBody
    <3>4. IsBody(acts', e, i) /\ acts'[e].cons[i].id = exc[k].id
      BY <1>8, <3>2, <3>3
    <3>5. QED
      BY <3>1, <3>2, <3>4
  <2>2. \A k, l \in DOMAIN exc : k < l =>
          exc[k].act < exc[l].act \/ (exc[k].act = exc[l].act /\ exc[k].con < exc[l].con)
    BY <1>2 DEF FramesSound
  <2>3. ASSUME NEW d \in Nat, NEW i \in Nat, IsBody(acts', d, i)
        PROVE  \E k \in DOMAIN exc : exc[k].act = d /\ exc[k].con = i
    <3>1. IsBody(acts, d, i)
      BY <1>8, <2>3
    <3>2. FramesSound(acts, exc)
      BY <1>2
    <3>3. QED
      BY <3>1, <3>2 DEF FramesSound
  <2>4. exc' = exc
    BY <1>1
  <2>5. QED
    BY <2>1, <2>2, <2>3, <2>4 DEF FramesSound
<1>10. Numbered(acts', nextId')
  BY <1>1, <1>2, <1>8 DEF Numbered
<1>11. Marked(acts', shadow')
  <2>1. /\ shadow' \in Seq(Nat) /\ Len(shadow') = Len(shadow) + 1 /\ shadow'[Len(shadow) + 1] = N + 1
        /\ \A i \in 1 .. Len(shadow) : shadow'[i] = shadow[i]
    BY <1>1, <1>2
  <2>2. ASSUME NEW e \in 1 .. N PROVE acts[e].wm < Len(shadow) /\ acts[e].wm < Len(shadow') /\ shadow'[acts[e].wm + 1] = e
    <3>1. PICK w \in Nat : w = acts[e].wm
      BY <1>2, ActIs DEF Act
    <3>2. w < Len(shadow) /\ shadow[w + 1] = e
      BY <1>2, <3>1 DEF Marked
    <3>3. w + 1 \in 1 .. Len(shadow) /\ w < Len(shadow')
      BY <1>3, <2>1, <3>2
    <3>4. QED
      BY <2>1, <3>1, <3>2, <3>3
  <2>3. Len(shadow) < Len(shadow')
    BY <1>3, <2>1
  <2>4. \A e \in 1 .. N + 1 : acts'[e].wm < Len(shadow') /\ shadow'[acts'[e].wm + 1] = e
    BY <1>3, <1>5, <1>6, <2>1, <2>2, <2>3
  <2>5. ASSUME NEW e \in 1 .. N + 1, NEW f \in 1 .. N + 1, e < f PROVE acts'[e].wm < acts'[f].wm
    <3>1. CASE f = N + 1
      <4>1. e \in 1 .. N
        BY <1>6, <2>5, <3>1
      <4>2. QED
        BY <1>3, <1>5, <2>2, <3>1, <4>1
    <3>2. CASE f \in 1 .. N
      <4>1. e \in 1 .. N
        BY <1>6, <2>5, <3>2
      <4>2. QED
        BY <1>2, <1>5, <2>5, <3>2, <4>1 DEF Marked
    <3>3. QED
      BY <1>6, <3>1, <3>2
  <2>6. QED
    BY <1>5, <2>4, <2>5 DEF Marked
<1>12. shadow' \in Seq(Nat)
  BY <1>1, <1>2
<1>13. QED
  BY <1>1, <1>2, <1>5, <1>7, <1>9, <1>10, <1>11, <1>12 DEF FramesInv, Typed

LEMMA OpenTryKeeps ==
  ASSUME PlainProgram, FramesInv, NEW f \in TryForms, Frames!OpenTry(f)
  PROVE  FramesInv'
<1> DEFINE N == Len(acts)
           L == Len(Frames!top.cons)
           c == Frames!Try(f, nextId)
           b == [Frames!top EXCEPT !.cons = Append(@, c)]
           e0 == [id |-> nextId, depthAtEnter |-> Len(exc), act |-> N, con |-> L + 1]
<1>1. /\ end = "run" /\ excPc = "user" /\ excPc' = excPc /\ ~Frames!InCatch(Frames!top.cons) /\ Frames!top.reason = 0
      /\ IF Len(exc) = MaxFrames
         THEN end' = "exit" /\ UNCHANGED <<acts, exc, shadow, nextId>>
         ELSE /\ acts' = Append(Frames!Front(acts), b)
              /\ exc' = Append(exc, e0)
              /\ nextId' = nextId + 1
              /\ shadow' = IF Frames!Loops(Frames!top.cons) = {} THEN shadow \o [k \in DOMAIN f.catches |-> N] ELSE shadow
              /\ end' = end
  BY DEF Frames!OpenTry, Frames!User, PlainProgram
<1>2. /\ acts \in Seq(Act) /\ exc \in Seq(ExcFrame) /\ shadow \in Seq(Nat) /\ nextId \in Nat /\ acts # <<>>
      /\ ActsSound(acts, excPc) /\ FramesSound(acts, exc) /\ Numbered(acts, nextId) /\ Marked(acts, shadow)
      /\ N \in 1 .. Len(acts) /\ N \in Nat /\ DOMAIN acts = 1 .. N
      /\ Frames!top = acts[N] /\ Frames!Front(acts) = SubSeq(acts, 1, N - 1)
      /\ Frames!top \in Act /\ Frames!top.cons \in Seq(Con) /\ DOMAIN Frames!top.cons = 1 .. L /\ L \in Nat
      /\ Orderly(Frames!top)
  BY <1>1, TopIs
<1>3. CASE Len(exc) = MaxFrames
  BY <1>1, <1>2, <1>3 DEF FramesInv, Typed
<1>4. CASE Len(exc) # MaxFrames
  <2>1. /\ acts' = Append(Frames!Front(acts), b) /\ exc' = Append(exc, e0) /\ nextId' = nextId + 1
        /\ shadow' = IF Frames!Loops(Frames!top.cons) = {} THEN shadow \o [k \in DOMAIN f.catches |-> N] ELSE shadow
    BY <1>1, <1>4
  <2>2. c \in Con /\ c.kind = "try" /\ c.at = "body" /\ c.id = nextId /\ c.pend = Frames!Normal
    <3>1. f.catches \in Clauses /\ f.fin \in BOOLEAN
      BY DEF PlainProgram
    <3>2. Frames!Normal \in Pend
      BY DEF Frames!Normal, Pend, Kinds, Value
    <3>3. QED
      BY <1>2, <3>1, <3>2 DEF Frames!Try, Con
  <2> HIDE DEF c
  <2>3. /\ b.cons = Append(Frames!top.cons, c) /\ b.wm = Frames!top.wm /\ b.reason = 0
        /\ b.cons \in Seq(Con) /\ DOMAIN b.cons = 1 .. L + 1 /\ b.cons[L + 1] = c
        /\ \A i \in 1 .. L : b.cons[i] = Frames!top.cons[i]
    <3>1. b.cons = Append(Frames!top.cons, c) /\ b.wm = Frames!top.wm /\ b.reason = 0
      BY <1>1, <1>2 DEF Act
    <3>2. QED
      BY <1>2, <2>2, <3>1
  <2>4. b \in Act
    BY <1>2, <2>3 DEF Act
  <2> HIDE DEF b
  <2>5. Quiet(Frames!top, L)
    <3>1. ASSUME NEW i \in 1 .. L PROVE ~Owing(Frames!top, i)
      <4>1. Owing(Frames!top, i) => Frames!top.cons[i].pend = Frames!Slots(Frames!top)
        BY <1>2 DEF Orderly
      <4>2. Frames!Slots(Frames!top) = Frames!Normal
        BY <1>1, <1>2, SlotsAre
      <4>3. QED
        BY <4>1, <4>2 DEF Owing
    <3>2. QED
      BY <1>1, <1>2, <3>1 DEF Quiet, Frames!InCatch
  <2>6. Orderly(b)
    <3>1. SubSeq(Frames!top.cons, 1, L) = Frames!top.cons /\ L \in 0 .. L
      BY <1>2, WholeIs
    <3>2. \A n \in 0 .. L : b.cons = Append(SubSeq(Frames!top.cons, 1, n), c) /\ Quiet(Frames!top, n) => Orderly(b)
      BY <1>2, <2>2, <2>4, OrderlyPut
    <3>3. QED
      BY <2>3, <2>5, <3>1, <3>2
  <2>7. InUser(b)
    BY <2>3 DEF InUser
  <2> DEFINE t == Onto(acts, N, b)
  <2>8. acts' = t
    BY <1>2, <2>1 DEF Onto
  <2>9. /\ t \in Seq(Act) /\ Len(t) = N /\ DOMAIN t = 1 .. N /\ t[N] = b
        /\ \A e \in 1 .. N - 1 : t[e] = acts[e]
    <3> HIDE DEF N
    <3>1. acts \in Seq(Act) /\ N \in 1 .. Len(acts) /\ b \in Act
      BY <1>2, <2>4
    <3>2. /\ Onto(acts, N, b) \in Seq(Act) /\ Len(Onto(acts, N, b)) = N /\ DOMAIN Onto(acts, N, b) = 1 .. N
          /\ Onto(acts, N, b)[N] = b
          /\ \A e \in 1 .. N - 1 : Onto(acts, N, b)[e] = acts[e]
      BY <3>1, OntoIs, SMTT(30)
    <3>3. QED
      BY <3>2
  <2>10. ActsSound(t, excPc')
    BY <1>1, <1>2, <2>4, <2>6, <2>7, ActsOnto
  <2> HIDE DEF t, N, L
  <2>11. ASSUME NEW e \in Nat, NEW i \in Nat
         PROVE  /\ IsTry(t, e, i) <=> IsTry(acts, e, i) \/ (e = N /\ i = L + 1)
                /\ IsBody(t, e, i) <=> IsBody(acts, e, i) \/ (e = N /\ i = L + 1)
                /\ IsTry(acts, e, i) => t[e].cons[i].id = acts[e].cons[i].id
                /\ IsTry(acts, e, i) => ~(e = N /\ i = L + 1)
    <3>0. L + 1 \in 1 .. L + 1 /\ L + 1 \notin 1 .. L /\ (\A j \in 1 .. L : j \in 1 .. L + 1)
          /\ (\A j \in 1 .. L + 1 : j = L + 1 \/ j \in 1 .. L)
      BY <1>2
    <3>1. CASE e = N
      <4>1. /\ e \in DOMAIN t /\ t[e] = b /\ e \in DOMAIN acts /\ acts[e] = Frames!top
        BY <1>2, <2>9, <3>1
      <4>2. i \in 1 .. L + 1 <=> i \in 1 .. L \/ i = L + 1
        BY <3>0
      <4>3. i \in 1 .. L => b.cons[i] = Frames!top.cons[i] /\ i # L + 1
        BY <2>3, <3>0
      <4>4. IsTry(t, e, i) <=> i \in 1 .. L + 1 /\ b.cons[i].kind = "try"
        BY <2>3, <4>1 DEF IsTry
      <4>5. IsTry(acts, e, i) <=> i \in 1 .. L /\ Frames!top.cons[i].kind = "try"
        BY <1>2, <4>1 DEF IsTry
      <4>6. /\ IsTry(t, e, i) <=> IsTry(acts, e, i) \/ i = L + 1
            /\ IsTry(acts, e, i) => t[e].cons[i] = acts[e].cons[i]
            /\ IsTry(acts, e, i) => i # L + 1
        BY <2>2, <2>3, <4>1, <4>2, <4>3, <4>4, <4>5
      <4>7. t[e].cons[L + 1].at = "body"
        BY <2>2, <2>3, <4>1
      <4>8. QED
        BY <3>1, <4>6, <4>7 DEF IsBody
    <3>2. CASE e # N
      <4>1. e \in 1 .. N => e \in 1 .. N - 1
        BY <1>2, <3>2
      <4>2. QED
        BY <1>2, <2>9, <3>2, <4>1 DEF IsTry, IsBody
    <3>3. QED
      BY <3>1, <3>2
  <2>12. t[N].cons[L + 1].id = nextId
    BY <2>2, <2>3, <2>9
  <2>13. e0 \in ExcFrame /\ e0.id = nextId /\ e0.depthAtEnter = Len(exc) /\ e0.act = N /\ e0.con = L + 1
    BY <1>2 DEF ExcFrame
  <2> HIDE DEF e0
  <2>14. /\ exc' \in Seq(ExcFrame) /\ DOMAIN exc' = 1 .. Len(exc) + 1 /\ exc'[Len(exc) + 1] = e0 /\ Len(exc) \in Nat
         /\ \A k \in 1 .. Len(exc) : exc'[k] = exc[k]
    BY <1>2, <2>1, <2>13
  <2>15. /\ \A k \in 1 .. Len(exc) + 1 : k = Len(exc) + 1 \/ k \in 1 .. Len(exc)
         /\ \A k \in 1 .. Len(exc) : k < Len(exc) + 1 /\ k \in 1 .. Len(exc) + 1 /\ k \in DOMAIN exc
         /\ Len(exc) + 1 - 1 = Len(exc)
    BY <1>2
  <2>16. ASSUME NEW k \in 1 .. Len(exc)
         PROVE  /\ IsBody(t, exc[k].act, exc[k].con) /\ t[exc[k].act].cons[exc[k].con].id = exc[k].id
                /\ exc[k].depthAtEnter = k - 1
                /\ exc[k].act < N \/ (exc[k].act = N /\ exc[k].con < L + 1)
    <3>1. /\ exc[k].act \in 1 .. Len(acts) /\ exc[k].con \in 1 .. Len(acts[exc[k].act].cons)
          /\ IsBody(acts, exc[k].act, exc[k].con)
          /\ acts[exc[k].act].cons[exc[k].con].id = exc[k].id
          /\ exc[k].depthAtEnter = k - 1
      BY <1>2, FrameIs
    <3>2. PICK e \in Nat, i \in Nat : e = exc[k].act /\ i = exc[k].con
      BY <3>1
    <3>3. IsBody(acts, e, i) /\ acts[e].cons[i].id = exc[k].id /\ e \in 1 .. Len(acts) /\ i \in 1 .. Len(acts[e].cons)
      BY <3>1, <3>2
    <3>4. IsTry(acts, e, i)
      BY <3>3 DEF IsBody
    <3>5. IsBody(t, e, i) /\ t[e].cons[i].id = exc[k].id
      BY <2>11, <3>3, <3>4
    <3>6. e < N \/ (e = N /\ i < L + 1)
      <4>1. e \in 1 .. N /\ (e = N => i \in 1 .. L)
        BY <1>2, <3>3 DEF N, L
      <4>2. QED
        BY <1>2, <4>1
    <3>7. QED
      BY <3>1, <3>2, <3>5, <3>6
  <2>17. IsBody(t, N, L + 1)
    <3>1. N \in Nat /\ L + 1 \in Nat
      BY <1>2
    <3>2. QED
      BY <2>11, <3>1
  <2>18. FramesSound(t, exc')
    <3>1. \A k \in DOMAIN exc' :
            /\ exc'[k].depthAtEnter = k - 1
            /\ IsBody(t, exc'[k].act, exc'[k].con)
            /\ t[exc'[k].act].cons[exc'[k].con].id = exc'[k].id
      <4> SUFFICES ASSUME NEW k \in DOMAIN exc'
                   PROVE  /\ exc'[k].depthAtEnter = k - 1
                          /\ IsBody(t, exc'[k].act, exc'[k].con)
                          /\ t[exc'[k].act].cons[exc'[k].con].id = exc'[k].id
        OBVIOUS
      <4>1. CASE k = Len(exc) + 1
        BY <2>12, <2>13, <2>14, <2>15, <2>17, <4>1
      <4>2. CASE k \in 1 .. Len(exc)
        BY <2>14, <2>16, <4>2
      <4>3. QED
        BY <2>14, <2>15, <4>1, <4>2
    <3>2. \A k, l \in DOMAIN exc' : k < l =>
            exc'[k].act < exc'[l].act \/ (exc'[k].act = exc'[l].act /\ exc'[k].con < exc'[l].con)
      <4> SUFFICES ASSUME NEW k \in DOMAIN exc', NEW l \in DOMAIN exc', k < l
                   PROVE  exc'[k].act < exc'[l].act \/ (exc'[k].act = exc'[l].act /\ exc'[k].con < exc'[l].con)
        OBVIOUS
      <4>1. k \in 1 .. Len(exc)
        <5>1. k \in 1 .. Len(exc) + 1 /\ l \in 1 .. Len(exc) + 1
          BY <2>14
        <5>2. QED
          BY <2>14, <5>1
      <4>2. CASE l = Len(exc) + 1
        BY <2>13, <2>14, <2>16, <4>1, <4>2
      <4>3. CASE l \in 1 .. Len(exc)
        <5>1. k \in DOMAIN exc /\ l \in DOMAIN exc /\ exc'[k] = exc[k] /\ exc'[l] = exc[l]
          BY <2>14, <2>15, <4>1, <4>3
        <5>2. QED
          BY <1>2, <5>1, FramesInOrder
      <4>4. QED
        BY <2>14, <2>15, <4>2, <4>3
    <3>3. \A e, i \in Nat : IsBody(t, e, i) => \E k \in DOMAIN exc' : exc'[k].act = e /\ exc'[k].con = i
      <4> SUFFICES ASSUME NEW e \in Nat, NEW i \in Nat, IsBody(t, e, i)
                   PROVE  \E k \in DOMAIN exc' : exc'[k].act = e /\ exc'[k].con = i
        OBVIOUS
      <4>1. CASE e = N /\ i = L + 1
        <5>1. Len(exc) + 1 \in DOMAIN exc'
          BY <2>14
        <5>2. QED
          BY <2>13, <2>14, <4>1, <5>1
      <4>2. CASE IsBody(acts, e, i)
        <5>1. PICK k \in DOMAIN exc : exc[k].act = e /\ exc[k].con = i
          BY <1>2, <4>2, BodyHasFrame
        <5>2. k \in 1 .. Len(exc)
          BY <1>2
        <5>3. k \in DOMAIN exc' /\ exc'[k] = exc[k]
          BY <2>14, <2>15, <5>2
        <5>4. QED
          BY <5>1, <5>3
      <4>3. QED
        BY <2>11, <4>1, <4>2
    <3>4. QED
      BY <3>1, <3>2, <3>3 DEF FramesSound
  <2>19. Numbered(t, nextId')
    <3>1. \A e, i \in Nat : IsTry(acts, e, i) => acts[e].cons[i].id < nextId /\ acts[e].cons[i].id \in Nat
      <4> SUFFICES ASSUME NEW e \in Nat, NEW i \in Nat, IsTry(acts, e, i)
                   PROVE  acts[e].cons[i].id < nextId /\ acts[e].cons[i].id \in Nat
        OBVIOUS
      <4>1. e \in 1 .. Len(acts) /\ i \in DOMAIN acts[e].cons
        BY <1>2 DEF IsTry, N
      <4>2. acts[e].cons[i] \in Con
        BY <1>2, <4>1, ActIs
      <4>3. QED
        BY <1>2, <4>2 DEF Con, Numbered
    <3>2. ASSUME NEW e \in Nat, NEW i \in Nat, IsTry(t, e, i)
          PROVE  \/ IsTry(acts, e, i) /\ t[e].cons[i].id = acts[e].cons[i].id /\ t[e].cons[i].id < nextId /\ t[e].cons[i].id \in Nat
                 \/ e = N /\ i = L + 1 /\ t[e].cons[i].id = nextId
      BY <2>11, <2>12, <3>1, <3>2, SMTT(30)
    <3>3. ASSUME NEW e \in Nat, NEW i \in Nat, IsTry(t, e, i)
          PROVE  t[e].cons[i].id < nextId + 1
      <4>1. PICK x : x = t[e].cons[i].id
        OBVIOUS
      <4>2. (x < nextId /\ x \in Nat) \/ x = nextId
        BY <3>2, <3>3, <4>1
      <4>3. x < nextId + 1
        BY <1>2, <4>2
      <4>4. QED
        BY <4>1, <4>3
    <3>4. ASSUME NEW d \in Nat, NEW i \in Nat, NEW e \in Nat, NEW j \in Nat,
                 IsTry(t, d, i), IsTry(t, e, j), t[d].cons[i].id = t[e].cons[j].id
          PROVE  d = e /\ i = j
      <4>1. ~(nextId < nextId)
        BY <1>2
      <4>2. IsTry(acts, d, i) /\ IsTry(acts, e, j) => d = e /\ i = j
        BY <1>2, <2>11, <3>4 DEF Numbered
      <4>3. QED
        BY <3>2, <3>4, <4>1, <4>2
    <3>5. QED
      BY <2>1, <3>3, <3>4 DEF Numbered
  <2>20. /\ shadow' \in Seq(Nat) /\ Len(shadow) <= Len(shadow') /\ \A i \in 1 .. Len(shadow) : shadow'[i] = shadow[i]
    <3>1. CASE shadow' = shadow
      BY <1>2, <3>1
    <3>2. CASE shadow' = shadow \o [k \in DOMAIN f.catches |-> N]
      <4>1. PICK q \in Seq(Nat) : q = [k \in DOMAIN f.catches |-> N]
        <5>1. f.catches \in Seq(SUBSET Vals)
          BY DEF PlainProgram, Clauses
        <5>2. DOMAIN f.catches = 1 .. Len(f.catches) /\ Len(f.catches) \in Nat
          BY <5>1
        <5>3. [k \in 1 .. Len(f.catches) |-> N] \in Seq(Nat)
          BY <1>2, <5>2
        <5>4. QED
          BY <5>2, <5>3
      <4>2. shadow' = shadow \o q
        BY <3>2, <4>1
      <4>3. QED
        BY <1>2, <4>2
    <3>3. QED
      BY <2>1, <3>1, <3>2
  <2>21. Marked(t, shadow')
    <3>1. b.wm = acts[N].wm
      BY <1>2, <2>3
    <3>2. \A sh \in Seq(Nat) : Len(shadow) <= Len(sh) /\ (\A i \in 1 .. Len(shadow) : sh[i] = shadow[i]) => Marked(Onto(acts, N, b), sh)
      BY <1>2, <2>4, <3>1, MarkedOnto
    <3>3. QED
      BY <2>20, <3>2 DEF t
  <2>22. t # <<>> /\ nextId' \in Nat
    BY <1>2, <2>1, <2>9
  <2>23. QED
    BY <1>1, <2>8, <2>9, <2>10, <2>14, <2>18, <2>19, <2>20, <2>21, <2>22 DEF FramesInv, Typed
<1>5. QED
  BY <1>3, <1>4

(* The slots with value v and reason k.                                    *)
Leaving(a, v, k) == [Frames!WithRet(a, v) EXCEPT !.reason = k]

LEMMA SlotsPut ==
  ASSUME NEW a \in Act, NEW v \in Value, NEW k \in 0 .. 4
  PROVE  /\ Leaving(a, v, k) \in Act /\ Leaving(a, v, k).cons = a.cons /\ Leaving(a, v, k).wm = a.wm
         /\ Leaving(a, v, k).reason = k /\ Leaving(a, v, k).ret = v /\ Leaving(a, v, k).root = v
  BY DEF Act, Frames!WithRet, Leaving

(* A function returns with no try open.                                    *)
LEMMA RetKeeps ==
  ASSUME FramesInv, end = "run", Frames!OpenTries(Frames!top.cons) = {}, Frames!Ret
  PROVE  FramesInv'
<1> DEFINE N == Len(acts)
           t == SubSeq(acts, 1, N - 1)
<1>1. /\ acts' = Frames!Front(acts) /\ excPc' = "user" /\ shadow' = SubSeq(shadow, 1, Frames!top.wm)
      /\ end' = (IF N = 1 THEN "done" ELSE end) /\ exc' = exc /\ nextId' = nextId
  BY DEF Frames!Ret
<1>2. /\ acts \in Seq(Act) /\ exc \in Seq(ExcFrame) /\ shadow \in Seq(Nat) /\ nextId \in Nat /\ acts # <<>>
      /\ ActsSound(acts, excPc) /\ FramesSound(acts, exc) /\ Numbered(acts, nextId) /\ Marked(acts, shadow)
      /\ N \in 1 .. Len(acts) /\ N \in Nat /\ DOMAIN acts = 1 .. N
      /\ Frames!top = acts[N] /\ Frames!Front(acts) = t /\ Frames!top \in Act
  BY TopIs
<1>3. N - 1 \in 0 .. Len(acts) /\ N - 1 \in Nat
  BY <1>2
<1>4. t \in Seq(Act) /\ Len(t) = N - 1 /\ DOMAIN t = 1 .. N - 1 /\ \A e \in 1 .. N - 1 : t[e] = acts[e]
  BY <1>2, <1>3, Cut
<1>5. acts' = t
  BY <1>1, <1>2
<1> HIDE DEF t, N
<1>6. \A e \in 1 .. N - 1 : e \in 1 .. N /\ e < N /\ e # N
  BY <1>2
<1>7. ActsSound(t, excPc')
  <2>1. ASSUME NEW e \in 1 .. N - 1 PROVE Orderly(t[e]) /\ ~Frames!InCatch(t[e].cons) /\ InUser(t[e])
    <3>1. e \in DOMAIN acts /\ e < Len(acts)
      BY <1>2, <1>6 DEF N
    <3>2. QED
      BY <1>2, <1>4, <3>1 DEF ActsSound
  <2>2. QED
    BY <1>1, <1>4, <2>1 DEF ActsSound
<1>8. ASSUME NEW e \in Nat, NEW i \in Nat
      PROVE  /\ IsTry(t, e, i) <=> IsTry(acts, e, i) /\ e # N
             /\ IsBody(t, e, i) <=> IsBody(acts, e, i)
             /\ IsTry(t, e, i) => t[e].cons[i].id = acts[e].cons[i].id
  <2>1. CASE e \in 1 .. N - 1
    BY <1>2, <1>4, <1>6, <2>1 DEF IsTry, IsBody
  <2>2. CASE e = N
    <3>1. ~IsBody(acts, e, i)
      <4>1. IsBody(acts, e, i) => i \in Frames!OpenTries(acts[e].cons)
        BY <1>2, <2>2, OpenIsBody
      <4>2. QED
        BY <1>2, <2>2, <4>1
    <3>2. e \notin 1 .. N - 1
      BY <1>2, <2>2
    <3>3. QED
      BY <1>4, <2>2, <3>1, <3>2 DEF IsTry, IsBody
  <2>3. CASE e \notin 1 .. N
    BY <1>2, <1>4, <1>6, <2>3 DEF IsTry, IsBody
  <2>4. e \in 1 .. N => e = N \/ e \in 1 .. N - 1
    BY <1>2
  <2>5. QED
    BY <2>1, <2>2, <2>3, <2>4
<1>9. FramesSound(t, exc)
  <2>1. ASSUME NEW k \in DOMAIN exc
        PROVE  /\ IsBody(t, exc[k].act, exc[k].con) /\ t[exc[k].act].cons[exc[k].con].id = exc[k].id
               /\ exc[k].depthAtEnter = k - 1
    <3>1. PICK e \in Nat, i \in Nat : e = exc[k].act /\ i = exc[k].con
      <4>1. exc[k] \in ExcFrame
        BY <1>2
      <4>2. QED
        BY <4>1 DEF ExcFrame
    <3>2. IsBody(acts, e, i) /\ acts[e].cons[i].id = exc[k].id /\ exc[k].depthAtEnter = k - 1
      BY <1>2, <3>1 DEF FramesSound
    <3>3. IsBody(t, e, i)
      BY <1>8, <3>2
    <3>4. IsTry(t, e, i)
      BY <3>3 DEF IsBody
    <3>5. QED
      BY <1>8, <3>1, <3>2, <3>3, <3>4
  <2>2. \A k, l \in DOMAIN exc : k < l =>
          exc[k].act < exc[l].act \/ (exc[k].act = exc[l].act /\ exc[k].con < exc[l].con)
    BY <1>2 DEF FramesSound
  <2>3. ASSUME NEW d \in Nat, NEW i \in Nat, IsBody(t, d, i)
        PROVE  \E k \in DOMAIN exc : exc[k].act = d /\ exc[k].con = i
    <3>1. IsBody(acts, d, i)
      BY <1>8, <2>3
    <3>2. FramesSound(acts, exc)
      BY <1>2
    <3>3. QED
      BY <3>1, <3>2 DEF FramesSound
  <2>4. QED
    BY <2>1, <2>2, <2>3 DEF FramesSound
<1>10. Numbered(t, nextId)
  BY <1>2, <1>8 DEF Numbered
<1>11. shadow' \in Seq(Nat) /\ Marked(t, shadow')
  <2>1. PICK w \in Nat : w = Frames!top.wm
    BY <1>2 DEF Act
  <2>2. w < Len(shadow) /\ w \in 0 .. Len(shadow)
    <3>1. w < Len(shadow)
      BY <1>2, <2>1 DEF Marked
    <3>2. QED
      BY <1>2, <3>1
  <2>3. shadow' \in Seq(Nat) /\ Len(shadow') = w /\ \A i \in 1 .. w : shadow'[i] = shadow[i]
    <3>1. /\ SubSeq(shadow, 1, w) \in Seq(Nat) /\ Len(SubSeq(shadow, 1, w)) = w
          /\ \A i \in 1 .. w : SubSeq(shadow, 1, w)[i] = shadow[i]
      <4>1. shadow \in Seq(Nat)
        BY <1>2
      <4>2. QED
        BY <2>2, <4>1, Cut
    <3>2. shadow' = SubSeq(shadow, 1, w)
      BY <1>1, <2>1
    <3>3. QED
      BY <3>1, <3>2
  <2>4. ASSUME NEW e \in 1 .. N - 1 PROVE t[e].wm < w /\ shadow'[t[e].wm + 1] = e
    <3>1. PICK u \in Nat : u = acts[e].wm
      BY <1>2, <1>6, ActIs DEF Act, N
    <3>2. e \in DOMAIN acts /\ N \in DOMAIN acts /\ e < N
      BY <1>2, <1>6
    <3>3. u < w /\ shadow[u + 1] = e
      BY <1>2, <2>1, <3>1, <3>2 DEF Marked
    <3>4. u + 1 \in 1 .. w
      BY <3>3
    <3>5. QED
      BY <1>4, <2>3, <3>1, <3>3, <3>4
  <2>5. ASSUME NEW e \in 1 .. N - 1, NEW f \in 1 .. N - 1, e < f PROVE t[e].wm < t[f].wm
    BY <1>2, <1>4, <1>6, <2>5 DEF Marked
  <2>6. QED
    BY <1>4, <2>3, <2>4, <2>5 DEF Marked
<1>12. end' = "run" => t # <<>>
  BY <1>1, <1>2, <1>4
<1>13. QED
  BY <1>1, <1>2, <1>4, <1>5, <1>7, <1>9, <1>10, <1>11, <1>12 DEF FramesInv, Typed

(* A throw outside any catch body: to the top frame.                       *)
LEMMA ThrowLands ==
  ASSUME FramesInv, end = "run", NoCatch(acts), exc # <<>>
  PROVE  LET f == Frames!Last(exc)
         IN /\ f.act \in 1 .. Len(acts) /\ f.con \in Nat /\ f.con \in 1 .. Len(acts[f.act].cons)
            /\ f.con = Frames!InnerTry(acts[f.act].cons)
            /\ IsBody(acts, f.act, f.con) /\ acts[f.act] \in Act
            /\ Unwinds(acts, exc, f.act, f.con)
            /\ f.depthAtEnter = Len(exc) - 1 /\ Len(exc) - 1 \in 0 .. Len(exc)
            /\ \A e \in 1 .. Len(acts) : e > f.act => Frames!OpenTries(acts[e].cons) = {}
<1>1. acts \in Seq(Act) /\ exc \in Seq(ExcFrame) /\ FramesSound(acts, exc)
  BY TopIs
<1>2. PICK f \in ExcFrame : f = Frames!Last(exc)
  BY <1>1, FrontIs
<1>3. /\ f.act \in 1 .. Len(acts) /\ f.con = Frames!InnerTry(acts[f.act].cons)
      /\ f.con \in DOMAIN acts[f.act].cons
      /\ IsBody(acts, f.act, f.con)
      /\ \A e \in 1 .. Len(acts) : e > f.act => Frames!OpenTries(acts[e].cons) = {}
  BY <1>1, <1>2, LastFrame
<1>4. Len(exc) \in DOMAIN exc /\ f = exc[Len(exc)] /\ Len(exc) - 1 \in 0 .. Len(exc)
  BY <1>1, <1>2, FrontIs
<1>5. f.depthAtEnter = Len(exc) - 1
  BY <1>1, <1>4 DEF FramesSound
<1>6. /\ acts[f.act] \in Act /\ DOMAIN acts[f.act].cons = 1 .. Len(acts[f.act].cons) /\ f.con \in Nat
  BY <1>1, <1>2, <1>3, ActIs DEF ExcFrame
<1>7. Unwinds(acts, exc, f.act, f.con)
  BY <1>2, <1>3, <1>6 DEF Unwinds, IsBody
<1>8. QED
  BY <1>2, <1>3, <1>4, <1>5, <1>6, <1>7

LEMMA CaughtKeeps ==
  ASSUME FramesInv, end = "run", NEW d \in 1 .. Len(acts), NEW i \in Nat, Unwinds(acts, exc, d, i), IsBody(acts, d, i),
         NEW v \in Value, NEW k \in Nat, acts' = Onto(acts, d, Frames!Caught([acts[d] EXCEPT !.root = v], i, k)),
         exc' = SubSeq(exc, 1, Len(exc) - 1), excPc' = "user", UNCHANGED <<shadow, nextId, end>>
  PROVE  FramesInv'
<1> DEFINE a == acts[d]
           x == [a.cons[i] EXCEPT !.at = "catch", !.clause = k]
           b == Frames!Caught([a EXCEPT !.root = v], i, k)
           m == Len(exc) - 1
<1>1. /\ acts \in Seq(Act) /\ exc \in Seq(ExcFrame) /\ shadow \in Seq(Nat) /\ nextId \in Nat
      /\ ActsSound(acts, excPc) /\ FramesSound(acts, exc) /\ Numbered(acts, nextId) /\ Marked(acts, shadow)
  BY TopIs
<1>2. /\ a \in Act /\ a.cons \in Seq(Con) /\ DOMAIN a.cons = 1 .. Len(a.cons) /\ Len(a.cons) \in Nat
      /\ DOMAIN acts = 1 .. Len(acts) /\ \A j \in DOMAIN a.cons : a.cons[j] \in Con
  BY <1>1, ActIs
<1>3. i \in 1 .. Len(a.cons) /\ a.cons[i].kind = "try" /\ a.cons[i].at = "body" /\ Orderly(a)
  BY <1>1, <1>2 DEF IsBody, IsTry, ActsSound
<1>4. i - 1 \in 0 .. Len(a.cons) /\ (i - 1) + 1 = i /\ a.cons[i] \in Con
  BY <1>2, <1>3
<1>5. Quiet(a, i - 1)
  BY <1>2, <1>3, QuietAround
<1>6. x \in Con /\ x.kind = "try" /\ x.at = "catch" /\ x.id = a.cons[i].id /\ x.pend = a.cons[i].pend
  BY <1>3, <1>4 DEF Con
<1>7. x.pend = Frames!Normal
  <2>1. Owing(a, i) => a.cons[i].at = "fin"
    BY <1>2, <1>3 DEF Orderly
  <2>2. QED
    BY <1>3, <1>6, <2>1 DEF Owing
<1>8. /\ b.cons = Append(SubSeq(a.cons, 1, i - 1), x) /\ b.reason = 0 /\ b.wm = a.wm
      /\ b = [a EXCEPT !.root = v, !.reason = 0, !.cons = Append(SubSeq(a.cons, 1, i - 1), x)]
  BY <1>2 DEF Act, Frames!Caught
<1> HIDE DEF x, b
<1>9. /\ b.cons \in Seq(Con) /\ DOMAIN b.cons = 1 .. i /\ b.cons[i] = x
      /\ \A j \in 1 .. i - 1 : b.cons[j] = a.cons[j]
  <2>1. \A n \in 0 .. Len(a.cons) : /\ Append(SubSeq(a.cons, 1, n), x) \in Seq(Con)
                                    /\ DOMAIN Append(SubSeq(a.cons, 1, n), x) = 1 .. n + 1
                                    /\ Append(SubSeq(a.cons, 1, n), x)[n + 1] = x
                                    /\ \A j \in 1 .. n : Append(SubSeq(a.cons, 1, n), x)[j] = a.cons[j]
    <3>1. a.cons \in Seq(Con) /\ x \in Con
      BY <1>2, <1>6
    <3> SUFFICES ASSUME NEW n \in 0 .. Len(a.cons)
                 PROVE  /\ Append(SubSeq(a.cons, 1, n), x) \in Seq(Con)
                        /\ DOMAIN Append(SubSeq(a.cons, 1, n), x) = 1 .. n + 1
                        /\ Append(SubSeq(a.cons, 1, n), x)[n + 1] = x
                        /\ \A j \in 1 .. n : Append(SubSeq(a.cons, 1, n), x)[j] = a.cons[j]
      OBVIOUS
    <3>2. Append(SubSeq(a.cons, 1, n), x) \in Seq(Con)
      BY <3>1, ConPut
    <3>3. DOMAIN Append(SubSeq(a.cons, 1, n), x) = 1 .. n + 1
      BY <3>1, ConPut
    <3>4. Append(SubSeq(a.cons, 1, n), x)[n + 1] = x
      BY <3>1, ConPut
    <3>5. \A j \in 1 .. n : Append(SubSeq(a.cons, 1, n), x)[j] = a.cons[j]
      BY <3>1, ConPut
    <3>6. QED
      BY <3>2, <3>3, <3>4, <3>5
  <2>2. PICK n \in 0 .. Len(a.cons) : n = i - 1 /\ n + 1 = i
    BY <1>4
  <2>3. b.cons = Append(SubSeq(a.cons, 1, n), x)
    BY <1>8, <2>2
  <2>4. QED
    BY <2>1, <2>2, <2>3
<1>10. b \in Act
  <2> HIDE DEF a
  <2>1. /\ a.ret \in Value /\ a.stop \in Nat /\ a.wm \in Nat
        /\ a = [cons |-> a.cons, reason |-> a.reason, ret |-> a.ret, stop |-> a.stop, root |-> a.root, wm |-> a.wm]
    BY <1>2 DEF Act
  <2>2. b = [cons |-> b.cons, reason |-> 0, ret |-> a.ret, stop |-> a.stop, root |-> v, wm |-> a.wm]
    BY <1>8, <2>1
  <2>3. QED
    BY <1>9, <2>1, <2>2 DEF Act
<1>11. Orderly(b)
  <2> HIDE DEF a
  <2>1. \A n \in 0 .. Len(a.cons) : b.cons = Append(SubSeq(a.cons, 1, n), x) /\ Quiet(a, n) => Orderly(b)
    BY <1>2, <1>3, <1>6, <1>7, <1>8, <1>10, OrderlyPut
  <2>2. QED
    BY <1>4, <1>5, <1>8, <2>1
<1>12. InUser(b)
  BY <1>8 DEF InUser
<1>13. Shrunk(a, b)
  <2>1. \A j \in 1 .. i : j \in DOMAIN a.cons /\ (j = i \/ j \in 1 .. i - 1)
    BY <1>2, <1>3
  <2>2. ASSUME NEW j \in 1 .. i
        PROVE  /\ b.cons[j].kind = a.cons[j].kind /\ b.cons[j].id = a.cons[j].id
               /\ b.cons[j].at = "body" => a.cons[j].at = "body"
    <3>1. CASE j = i
      BY <1>3, <1>6, <1>9, <3>1
    <3>2. CASE j \in 1 .. i - 1
      BY <1>9, <3>2
    <3>3. QED
      BY <2>1, <3>1, <3>2
  <2>3. QED
    BY <1>8, <1>9, <2>1, <2>2 DEF Shrunk
<1>14. IsKept(acts, exc, d, i, m)
  <2>1. IsKept(acts, exc, d, i, Kept(acts, exc, d, i))
    BY <1>1, FramesBelow
  <2>2. QED
    BY <1>3, <2>1 DEF Kept
<1> HIDE DEF m
<1>15. SubSeq(exc, 1, m) \in Seq(ExcFrame) /\ FramesSound(Onto(acts, d, b), SubSeq(exc, 1, m))
  <2>1. /\ m \in 0 .. Len(exc)
        /\ \A q \in 1 .. m : /\ exc[q].act < d \/ (exc[q].act = d /\ exc[q].con \in 1 .. i - 1)
                             /\ IsBody(acts, exc[q].act, exc[q].con)
        /\ \A q \in m + 1 .. Len(exc) : exc[q].act = d /\ exc[q].con = i
    BY <1>14 DEF IsKept
  <2>2. ASSUME NEW q \in 1 .. m
        PROVE  exc[q].act < d \/ (exc[q].act = d /\ exc[q].con \in DOMAIN b.cons /\ b.cons[exc[q].con].at = "body")
    <3>1. acts[exc[q].act].cons[exc[q].con].at = "body"
      BY <2>1 DEF IsBody
    <3>2. CASE exc[q].act = d /\ exc[q].con \in 1 .. i - 1
      <4>1. PICK j \in 1 .. i - 1 : j = exc[q].con
        BY <3>2
      <4>2. j \in DOMAIN b.cons /\ b.cons[j] = a.cons[j]
        BY <1>3, <1>9
      <4>3. QED
        BY <3>1, <3>2, <4>1, <4>2
    <3>3. QED
      BY <2>1, <3>2
  <2>3. ASSUME NEW q \in m + 1 .. Len(exc)
        PROVE  exc[q].act >= d /\ ~(exc[q].con \in DOMAIN b.cons /\ b.cons[exc[q].con].at = "body")
    BY <1>6, <1>9, <2>1
  <2>4. QED
    BY <1>1, <1>10, <1>13, <2>1, <2>2, <2>3, FramesOnto
<1>16. ActsSound(Onto(acts, d, b), "user")
  BY <1>1, <1>10, <1>11, <1>12, ActsOnto
<1>17. Numbered(Onto(acts, d, b), nextId) /\ Marked(Onto(acts, d, b), shadow)
  <2>1. Numbered(Onto(acts, d, b), nextId)
    BY <1>1, <1>10, <1>13, NumberedOnto
  <2>2. Len(shadow) <= Len(shadow)
    BY <1>1
  <2>3. Marked(Onto(acts, d, b), shadow)
    BY <1>1, <1>8, <1>10, <2>2, MarkedOnto
  <2>4. QED
    BY <2>1, <2>3
<1>18. Onto(acts, d, b) \in Seq(Act) /\ Onto(acts, d, b) # <<>>
  <2>1. Onto(acts, d, b) \in Seq(Act) /\ Len(Onto(acts, d, b)) = d /\ d # 0
    BY <1>1, <1>10, OntoIs
  <2>2. QED
    BY <2>1
<1>19. acts' = Onto(acts, d, b) /\ exc' = SubSeq(exc, 1, m)
  BY DEF b, m
<1>20. QED
  BY <1>1, <1>15, <1>16, <1>17, <1>18, <1>19 DEF FramesInv, Typed

LEMMA HaoThrowKeeps ==
  ASSUME FramesInv, end = "run", NoCatch(acts), NEW v \in Value, Frames!HaoThrow(v)
  PROVE  FramesInv'
<1>1. CASE exc = <<>>
  <2>1. end' = "uncaught" /\ UNCHANGED <<acts, exc, shadow, excPc, nextId>>
    BY <1>1 DEF Frames!HaoThrow
  <2>2. QED
    BY <2>1 DEF FramesInv, Typed
<1>2. CASE exc # <<>>
  <2>1. PICK f : f = Frames!Last(exc)
    OBVIOUS
  <2>2. /\ f.act \in 1 .. Len(acts) /\ f.con \in Nat
        /\ IsBody(acts, f.act, f.con) /\ acts[f.act] \in Act
        /\ Unwinds(acts, exc, f.act, f.con) /\ f.depthAtEnter = Len(exc) - 1
    BY <1>2, <2>1, ThrowLands
  <2> DEFINE a == [acts[f.act] EXCEPT !.root = v]
             b == [Frames!WithRet(a, v) EXCEPT !.reason = 4]
             frames == SubSeq(exc, 1, Len(exc) - 1)
             k == Frames!Reached(a.cons[f.con].catches, v)
  <2>3. IF k > 0
        THEN /\ acts' = Onto(acts, f.act, Frames!Caught(a, f.con, k))
             /\ exc' = frames /\ excPc' = "user"
             /\ UNCHANGED <<shadow, nextId, end>>
        ELSE Frames!Cleanup(SubSeq(acts, 1, f.act - 1), b, f.con, frames)
    BY <1>2, <2>1, <2>2 DEF Frames!HaoThrow, Onto
  <2>0. k \in Nat
    BY DEF Frames!Reached
  <2> HIDE DEF k
  <2>4. CASE k > 0
    BY <2>0, <2>2, <2>3, <2>4, CaughtKeeps
  <2>5. CASE ~(k > 0)
    <3>1. /\ b \in Act /\ b.cons = acts[f.act].cons /\ b.wm = acts[f.act].wm
          /\ b.reason = 4 /\ b.root = b.ret
      <4>1. PICK e \in Act : e = acts[f.act]
        BY <2>2
      <4>2. PICK g \in Act : g = a /\ g.cons = e.cons /\ g.wm = e.wm
        <5>1. [e EXCEPT !.root = v] \in Act /\ [e EXCEPT !.root = v].cons = e.cons /\ [e EXCEPT !.root = v].wm = e.wm
          BY DEF Act
        <5>2. QED
          BY <4>1, <5>1
      <4>3. b = Leaving(g, v, 4)
        BY <4>2 DEF Leaving
      <4>4. 4 \in 0 .. 4
        OBVIOUS
      <4> HIDE DEF a, b
      <4>5. b \in Act /\ b.cons = g.cons /\ b.wm = g.wm /\ b.reason = 4 /\ b.ret = v /\ b.root = v
        <5>1. g \in Act /\ v \in Value
          BY DEF Value
        <5>2. /\ Leaving(g, v, 4) \in Act /\ Leaving(g, v, 4).cons = g.cons /\ Leaving(g, v, 4).wm = g.wm
              /\ Leaving(g, v, 4).reason = 4 /\ Leaving(g, v, 4).ret = v /\ Leaving(g, v, 4).root = v
          BY <4>4, <5>1, SlotsPut, ZenonT(30)
        <5>3. QED
          BY <4>3, <5>2
      <4>6. QED
        BY <4>1, <4>2, <4>5
    <3>2. SlotsHold(b, SubSeq(acts[f.act].cons, 1, f.con - 1))
      BY <3>1 DEF SlotsHold
    <3>3. acts[f.act].cons[f.con].at = "body"
      BY <2>2 DEF IsBody
    <3> HIDE DEF a, b
    <3>4. Frames!Cleanup(SubSeq(acts, 1, f.act - 1), b, f.con, frames)
      BY <2>3, <2>5
    <3>5. QED
      BY <2>2, <3>1, <3>2, <3>3, <3>4, CleanupKeeps
  <2>6. QED
    BY <2>4, <2>5
<1>3. QED
  BY <1>1, <1>2

(* The innermost open try of the activation on top.                        *)
LEMMA InnermostIs ==
  ASSUME FramesInv, end = "run", Frames!InnerTry(Frames!top.cons) > 0
  PROVE  /\ Frames!InnerTry(Frames!top.cons) \in 1 .. Len(Frames!top.cons) /\ Frames!InnerTry(Frames!top.cons) \in Frames!OpenTries(Frames!top.cons)
         /\ Unwinds(acts, exc, Len(acts), Frames!InnerTry(Frames!top.cons))
         /\ Frames!top.cons[Frames!InnerTry(Frames!top.cons)].kind = "try"
<1> DEFINE i == Frames!InnerTry(Frames!top.cons)
<1>1. /\ acts \in Seq(Act) /\ exc \in Seq(ExcFrame) /\ acts # <<>>
      /\ ActsSound(acts, excPc) /\ FramesSound(acts, exc) /\ DOMAIN acts = 1 .. Len(acts)
      /\ Frames!top = acts[Len(acts)] /\ Len(acts) \in 1 .. Len(acts) /\ Frames!top.cons \in Seq(Con)
      /\ DOMAIN Frames!top.cons = 1 .. Len(Frames!top.cons)
  BY TopIs
<1>2. /\ i \in DOMAIN Frames!top.cons /\ Frames!top.cons[i].kind = "try" /\ Frames!top.cons[i].at \in {"body", "catch"}
      /\ Frames!top.cons[i].at = "body" => exc # <<>> /\ Frames!Last(exc).act = Len(acts) /\ Frames!Last(exc).con = i
  BY <1>1, TopFrame
<1>3. i \in Frames!OpenTries(Frames!top.cons)
  BY <1>2 DEF Frames!OpenTries
<1>4. Unwinds(acts, exc, Len(acts), i)
  <2>1. IsTry(acts, Len(acts), i)
    BY <1>1, <1>2 DEF IsTry
  <2>2. QED
    BY <1>1, <1>2, <2>1 DEF Unwinds
<1>5. QED
  BY <1>1, <1>2, <1>3, <1>4

LEMMA CleanupTop ==
  ASSUME FramesInv, end = "run", Frames!InnerTry(Frames!top.cons) > 0, NEW b \in Act, b.cons = Frames!top.cons, b.wm = Frames!top.wm,
         SlotsHold(b, SubSeq(Frames!top.cons, 1, Frames!InnerTry(Frames!top.cons) - 1)),
         Frames!Cleanup(Frames!Front(acts), b, Frames!InnerTry(Frames!top.cons), exc)
  PROVE  FramesInv'
<1>1. /\ Frames!InnerTry(Frames!top.cons) \in 1 .. Len(Frames!top.cons) /\ Unwinds(acts, exc, Len(acts), Frames!InnerTry(Frames!top.cons))
  BY InnermostIs
<1>2. Frames!top = acts[Len(acts)] /\ Len(acts) \in 1 .. Len(acts) /\ Frames!Front(acts) = SubSeq(acts, 1, Len(acts) - 1)
  BY TopIs
<1>3. PICK d \in 1 .. Len(acts) : d = Len(acts)
  BY <1>2
<1>4. PICK i \in Nat : i = Frames!InnerTry(Frames!top.cons)
  BY <1>1
<1>5. /\ Unwinds(acts, exc, d, i) /\ b.cons = acts[d].cons /\ b.wm = acts[d].wm
      /\ SlotsHold(b, SubSeq(acts[d].cons, 1, i - 1)) /\ Frames!Cleanup(SubSeq(acts, 1, d - 1), b, i, exc)
  BY <1>1, <1>2, <1>3, <1>4
<1>6. QED
  BY <1>5, CleanupKeeps

LEMMA NoCatchIs ==
  ASSUME FramesInv, end = "run", ~Frames!InCatch(Frames!top.cons)
  PROVE  NoCatch(acts)
<1>1. /\ ActsSound(acts, excPc) /\ DOMAIN acts = 1 .. Len(acts) /\ Frames!top = acts[Len(acts)] /\ Len(acts) \in Nat
  BY TopIs
<1>2. \A d \in 1 .. Len(acts) : d = Len(acts) \/ d < Len(acts)
  <2>1. \A n \in Nat : \A d \in 1 .. n : d = n \/ d < n
    OBVIOUS
  <2>2. QED
    BY <1>1, <2>1
<1>3. QED
  BY <1>1, <1>2 DEF NoCatch, ActsSound

LEMMA ThrowKeeps ==
  ASSUME FramesInv, NEW v \in Vals, Frames!Throw(v)
  PROVE  FramesInv'
<1>1. end = "run" /\ v \in Value /\ 4 \in 0 .. 4
  BY DEF Frames!Throw, Frames!User, Value
<1>2. Frames!top \in Act /\ Frames!top.cons \in Seq(Con) /\ Orderly(Frames!top) /\ \A j \in DOMAIN Frames!top.cons : Frames!top.cons[j] \in Con
  BY <1>1, TopIs
<1>3. CASE Frames!InCatch(Frames!top.cons)
  <2>1. Frames!InnerTry(Frames!top.cons) > 0
    <3>1. PICK j \in DOMAIN Frames!top.cons : Frames!top.cons[j].at = "catch"
      BY <1>3 DEF Frames!InCatch
    <3>2. Frames!top.cons[j].kind = "try"
      BY <1>2, <3>1 DEF Orderly, Con
    <3>3. j \in Frames!OpenTries(Frames!top.cons)
      BY <3>1, <3>2 DEF Frames!OpenTries
    <3>4. Frames!InnerTry(Frames!top.cons) \in 0 .. Len(Frames!top.cons) /\ Frames!InnerTry(Frames!top.cons) # 0 /\ Len(Frames!top.cons) \in Nat
      BY <1>2, <3>3, TriesIs
    <3>5. QED
      BY <3>4
  <2>2. Frames!Cleanup(Frames!Front(acts), Leaving(Frames!top, v, 4), Frames!InnerTry(Frames!top.cons), exc)
    BY <1>3 DEF Frames!Throw, Leaving
  <2>3. /\ Leaving(Frames!top, v, 4) \in Act /\ Leaving(Frames!top, v, 4).cons = Frames!top.cons /\ Leaving(Frames!top, v, 4).wm = Frames!top.wm
        /\ Leaving(Frames!top, v, 4).reason = 4 /\ Leaving(Frames!top, v, 4).ret = v /\ Leaving(Frames!top, v, 4).root = v
    BY <1>1, <1>2, SlotsPut, ZenonT(30)
  <2>4. SlotsHold(Leaving(Frames!top, v, 4), SubSeq(Frames!top.cons, 1, Frames!InnerTry(Frames!top.cons) - 1))
    BY <2>3 DEF SlotsHold
  <2>5. QED
    BY <1>1, <2>1, <2>2, <2>3, <2>4, CleanupTop
<1>4. CASE ~Frames!InCatch(Frames!top.cons)
  <2>1. Frames!HaoThrow(v)
    BY <1>4 DEF Frames!Throw
  <2>2. NoCatch(acts)
    BY <1>1, <1>4, NoCatchIs
  <2>3. QED
    BY <1>1, <2>1, <2>2, HaoThrowKeeps
<1>5. QED
  BY <1>3, <1>4

LEMMA ReturnKeeps ==
  ASSUME FramesInv, NEW v \in Vals, Frames!Return(v)
  PROVE  FramesInv'
<1>1. end = "run" /\ v \in Value /\ 1 \in 0 .. 4
  BY DEF Frames!Return, Frames!User, Value
<1>2. Frames!top \in Act /\ Frames!top.cons \in Seq(Con)
  BY <1>1, TopIs
<1>3. CASE Frames!InnerTry(Frames!top.cons) > 0
  <2>1. Frames!Cleanup(Frames!Front(acts), Leaving(Frames!top, v, 1), Frames!InnerTry(Frames!top.cons), exc)
    BY <1>3 DEF Frames!Return, Leaving
  <2>2. /\ Leaving(Frames!top, v, 1) \in Act /\ Leaving(Frames!top, v, 1).cons = Frames!top.cons /\ Leaving(Frames!top, v, 1).wm = Frames!top.wm
        /\ Leaving(Frames!top, v, 1).reason = 1 /\ Leaving(Frames!top, v, 1).ret = v /\ Leaving(Frames!top, v, 1).root = v
    BY <1>1, <1>2, SlotsPut, ZenonT(30)
  <2>3. SlotsHold(Leaving(Frames!top, v, 1), SubSeq(Frames!top.cons, 1, Frames!InnerTry(Frames!top.cons) - 1))
    BY <2>2 DEF SlotsHold
  <2>4. QED
    BY <1>1, <1>3, <2>1, <2>2, <2>3, CleanupTop
<1>4. CASE ~(Frames!InnerTry(Frames!top.cons) > 0)
  <2>1. Frames!Ret
    BY <1>4 DEF Frames!Return
  <2>2. Frames!OpenTries(Frames!top.cons) = {}
    <3>1. Frames!InnerTry(Frames!top.cons) \in 0 .. Len(Frames!top.cons) /\ Len(Frames!top.cons) \in Nat
      BY <1>2, TriesIs
    <3>2. Frames!InnerTry(Frames!top.cons) = 0
      BY <1>4, <3>1
    <3>3. QED
      BY <1>2, <3>2, TriesIs
  <2>3. QED
    BY <1>1, <2>1, <2>2, RetKeeps
<1>5. QED
  BY <1>3, <1>4

(* A jump to the innermost loop, with every open try around it.            *)
LEMMA JumpKeeps ==
  ASSUME FramesInv, end = "run", NEW a \in Act, a.cons = Frames!top.cons, a.wm = Frames!top.wm, NEW k,
         Frames!Loops(Frames!top.cons) # {}, \A j \in Frames!OpenTries(Frames!top.cons) : j < Frames!Inner(Frames!Loops(Frames!top.cons)),
         SameSlots(Frames!top, a) \/ Quiet(Frames!top, Frames!Inner(Frames!Loops(Frames!top.cons))),
         a.reason # 0 => \E j \in DOMAIN Frames!top.cons : j < Frames!Inner(Frames!Loops(Frames!top.cons)) /\ Owing(Frames!top, j),
         Frames!Jump(a, k)
  PROVE  FramesInv'
<1>1. /\ Frames!top \in Act /\ Frames!top.cons \in Seq(Con) /\ DOMAIN Frames!top.cons = 1 .. Len(Frames!top.cons) /\ Len(Frames!top.cons) \in Nat
      /\ Orderly(Frames!top)
  BY TopIs
<1>2. PICK l \in 1 .. Len(Frames!top.cons) : l = Frames!Inner(Frames!Loops(Frames!top.cons))
  BY <1>1, TriesIs DEF Frames!Loops
<1>3. PICK n \in 0 .. Len(Frames!top.cons) : n = IF k = "break" THEN l - 1 ELSE l
  <2>1. l - 1 \in 0 .. Len(Frames!top.cons) /\ l \in 0 .. Len(Frames!top.cons)
    BY <1>1
  <2>2. QED
    BY <2>1
<1>4. n <= l /\ l - 1 <= n /\ n \in Nat /\ l \in Nat
  BY <1>1, <1>3
<1> DEFINE b == [a EXCEPT !.cons = SubSeq(@, 1, n)]
<1>5. excPc' = "user" /\ Frames!Stay(b)
  BY <1>2, <1>3 DEF Frames!Jump
<1>6. SubSeq(Frames!top.cons, 1, n) \in Seq(Con) /\ DOMAIN SubSeq(Frames!top.cons, 1, n) = 1 .. n
      /\ \A j \in 1 .. n : SubSeq(Frames!top.cons, 1, n)[j] = Frames!top.cons[j]
  BY <1>1, Cut
<1>7. /\ b \in Act /\ b.cons = SubSeq(Frames!top.cons, 1, n) /\ b.wm = Frames!top.wm /\ SameSlots(a, b)
  BY <1>6 DEF Act, SameSlots
<1> HIDE DEF b
<1>8. \A j \in Frames!OpenTries(Frames!top.cons) : j <= n
  <2> SUFFICES ASSUME NEW j \in Frames!OpenTries(Frames!top.cons) PROVE j <= n
    OBVIOUS
  <2>1. j < l /\ j \in Nat
    BY <1>1, <1>2, TriesIs
  <2>2. QED
    BY <1>4, <2>1
<1>9. Orderly(b)
  <2>1. CASE SameSlots(Frames!top, a)
    <3>1. SameSlots(Frames!top, b)
      BY <1>7, <2>1 DEF SameSlots
    <3>2. QED
      BY <1>1, <1>7, <3>1, OrderlyCut
  <2>2. CASE Quiet(Frames!top, Frames!Inner(Frames!Loops(Frames!top.cons)))
    <3>1. Quiet(Frames!top, n)
      <4>1. \A j \in 1 .. n : j \in 1 .. l
        BY <1>4
      <4>2. QED
        BY <1>2, <2>2, <4>1 DEF Quiet
    <3>2. QED
      BY <1>1, <1>7, <3>1, OrderlyCut
  <2>3. QED
    BY <2>1, <2>2
<1>10. InUser(b)
  <2> SUFFICES ASSUME b.reason # 0 PROVE \E j \in DOMAIN b.cons : Owing(b, j)
    BY DEF InUser
  <2>1. PICK j \in DOMAIN Frames!top.cons : j < l /\ Owing(Frames!top, j)
    BY <1>2, <1>7 DEF SameSlots
  <2>2. j \in 1 .. n
    BY <1>1, <1>4, <2>1
  <2>3. Owing(b, j) /\ j \in DOMAIN b.cons
    BY <1>6, <1>7, <2>1, <2>2 DEF Owing
  <2>4. QED
    BY <2>3
<1>11. QED
  BY <1>5, <1>7, <1>8, <1>9, <1>10, StayKeeps

LEMMA BreakOrContinueKeeps ==
  ASSUME PlainProgram, FramesInv, NEW k \in {"break", "continue"}, Frames!BreakOrContinue(k)
  PROVE  FramesInv'
<1> DEFINE l == Frames!Inner(Frames!Loops(Frames!top.cons))
           depth == Frames!TryDepth(Frames!top.cons, l)
           here == Frames!Cardinality(Frames!OpenTries(Frames!top.cons))
           i == Frames!InnerTry(Frames!top.cons)
<1>1. end = "run" /\ excPc = "user" /\ Frames!Loops(Frames!top.cons) # {} /\ ~FinallyNests
  BY DEF Frames!BreakOrContinue, Frames!User, PlainProgram
<1>2. /\ Frames!top \in Act /\ Frames!top.cons \in Seq(Con) /\ DOMAIN Frames!top.cons = 1 .. Len(Frames!top.cons) /\ Len(Frames!top.cons) \in Nat
      /\ Orderly(Frames!top) /\ InUser(Frames!top)
  BY <1>1, TopIs
<1>3. l \in Frames!Loops(Frames!top.cons) /\ l \in 1 .. Len(Frames!top.cons) /\ i \in 0 .. Len(Frames!top.cons) /\ (i = 0 <=> Frames!OpenTries(Frames!top.cons) = {})
      /\ (Frames!OpenTries(Frames!top.cons) # {} => i \in Frames!OpenTries(Frames!top.cons))
      /\ \A j \in Frames!OpenTries(Frames!top.cons) : j <= i
  BY <1>1, <1>2, TriesIs
<1>4. /\ depth \in Nat /\ here \in Nat /\ depth <= here
      /\ here = depth <=> \A j \in Frames!OpenTries(Frames!top.cons) : j < l
  BY <1>2, <1>3, DepthIs
<1>5. \/ /\ i = 0
         /\ \A j \in DOMAIN Frames!top.cons : Owing(Frames!top, j) => j < l
         /\ Frames!Jump(Frames!top, k)
      \/ /\ i > 0 /\ here <= depth
         /\ \A j \in DOMAIN Frames!top.cons : Owing(Frames!top, j) => j > l
         /\ Frames!Jump([Frames!top EXCEPT !.reason = 0], k)
      \/ /\ here > depth
         /\ Frames!Cleanup(Frames!Front(acts), [Frames!top EXCEPT !.reason = Frames!Reason[k], !.stop = depth], i, exc)
  BY <1>1 DEF Frames!BreakOrContinue, Owing
<1>6. CASE /\ i = 0
           /\ \A j \in DOMAIN Frames!top.cons : Owing(Frames!top, j) => j < l
           /\ Frames!Jump(Frames!top, k)
  <2>1. SameSlots(Frames!top, Frames!top)
    BY DEF SameSlots
  <2>2. \A j \in Frames!OpenTries(Frames!top.cons) : j < l
    BY <1>3, <1>6
  <2>3. Frames!top.reason # 0 => \E j \in DOMAIN Frames!top.cons : j < l /\ Owing(Frames!top, j)
    BY <1>2, <1>6 DEF InUser
  <2> HIDE DEF i, depth, here
  <2>4. QED
    BY <1>1, <1>2, <1>6, <2>1, <2>2, <2>3, JumpKeeps
<1>7. CASE /\ i > 0 /\ here <= depth
           /\ \A j \in DOMAIN Frames!top.cons : Owing(Frames!top, j) => j > l
           /\ Frames!Jump([Frames!top EXCEPT !.reason = 0], k)
  <2> DEFINE a == [Frames!top EXCEPT !.reason = 0]
  <2>1. a \in Act /\ a.cons = Frames!top.cons /\ a.wm = Frames!top.wm /\ a.reason = 0
        /\ a.ret = Frames!top.ret /\ a.stop = Frames!top.stop /\ a.root = Frames!top.root
    BY <1>2 DEF Act
  <2> HIDE DEF a
  <2>2. \A j \in Frames!OpenTries(Frames!top.cons) : j < l
    <3> HIDE DEF i, depth, here, l
    <3>1. here = depth
      BY <1>4, <1>7
    <3>2. QED
      BY <1>4, <3>1
  <2>3. SameSlots(Frames!top, a) \/ Quiet(Frames!top, l)
    <3>1. CASE Frames!InCatch(Frames!top.cons)
      <4>1. Frames!top.reason = 0
        BY <1>2, <3>1 DEF Frames!InCatch, Orderly
      <4>2. QED
        BY <2>1, <4>1 DEF SameSlots
    <3>2. CASE ~Frames!InCatch(Frames!top.cons)
      <4> HIDE DEF l
      <4>1. \A j \in 1 .. l : j \in DOMAIN Frames!top.cons /\ ~(j > l)
        BY <1>2, <1>3
      <4>2. QED
        BY <1>7, <3>2, <4>1 DEF Quiet, Frames!InCatch
    <3>3. QED
      BY <3>1, <3>2
  <2>4. Frames!Jump(a, k)
    BY <1>7 DEF a
  <2> HIDE DEF i, depth, here
  <2>5. QED
    BY <1>1, <2>1, <2>2, <2>3, <2>4, JumpKeeps
<1>8. CASE /\ here > depth
           /\ Frames!Cleanup(Frames!Front(acts), [Frames!top EXCEPT !.reason = Frames!Reason[k], !.stop = depth], i, exc)
  <2> DEFINE b == [Frames!top EXCEPT !.reason = Frames!Reason[k], !.stop = depth]
  <2>1. Frames!Reason[k] \in {2, 3}
    BY KindIs
  <2>2. /\ b \in Act /\ b.cons = Frames!top.cons /\ b.wm = Frames!top.wm /\ b.reason \in {2, 3} /\ b.stop = depth
    <3> HIDE DEF depth
    <3>1. Frames!Reason[k] \in 0 .. 4
      BY <2>1
    <3>2. QED
      BY <1>2, <1>4, <2>1, <3>1 DEF Act
  <2>3. Frames!Cleanup(Frames!Front(acts), b, i, exc)
    BY <1>8
  <2> HIDE DEF b
  <2>4. i > 0 /\ l < i
    <3> HIDE DEF i, depth, here, l
    <3>1. here # depth
      BY <1>4, <1>8
    <3>2. PICK j \in Frames!OpenTries(Frames!top.cons) : ~(j < l)
      BY <1>4, <3>1
    <3>3. j # l /\ j \in 1 .. Len(Frames!top.cons)
      BY <1>2, <1>3, <3>2, TriesIs DEF Frames!Loops, Frames!OpenTries
    <3>4. j <= i
      BY <1>3
    <3>5. QED
      BY <1>2, <1>3, <3>2, <3>3, <3>4
  <2>5. SlotsHold(b, SubSeq(Frames!top.cons, 1, i - 1))
    <3>1. i \in DOMAIN Frames!top.cons
      BY <1>2, <1>3, <2>4
    <3>2. Aims(SubSeq(Frames!top.cons, 1, i - 1), depth)
      BY <1>1, <1>2, <2>4, <3>1, AimsCut
    <3>3. ~(b.reason \in {1, 4})
      BY <2>2
    <3>4. QED
      BY <2>2, <3>2, <3>3 DEF SlotsHold
  <2> HIDE DEF depth, here, l
  <2>6. QED
    BY <1>1, <2>2, <2>3, <2>4, <2>5, CleanupTop
<1>9. QED
  BY <1>5, <1>6, <1>7, <1>8

LEMMA FallKeeps ==
  ASSUME FramesInv, Frames!Fall
  PROVE  FramesInv'
<1> DEFINE i == Len(Frames!top.cons)
           c == Frames!top.cons[i]
<1>1. end = "run" /\ excPc = "user" /\ Frames!top.cons # <<>>
      /\ CASE c.kind = "try" /\ c.at # "fin" -> Frames!Cleanup(Frames!Front(acts), Frames!top, i, exc)
           [] c.kind = "try" /\ c.at = "fin" ->
                Frames!Stay([Frames!top EXCEPT !.cons = Frames!Front(@)]) /\ excPc' = "dispatch"
           [] OTHER -> Frames!Jump(Frames!top, "break")
  BY DEF Frames!Fall, Frames!User
<1>2. /\ Frames!top \in Act /\ Frames!top.cons \in Seq(Con) /\ DOMAIN Frames!top.cons = 1 .. Len(Frames!top.cons) /\ Len(Frames!top.cons) \in Nat
      /\ Orderly(Frames!top) /\ InUser(Frames!top)
  BY <1>1, TopIs
<1>3. /\ i \in DOMAIN Frames!top.cons /\ i \in Nat /\ i > 0 /\ c \in Con /\ i - 1 \in 0 .. Len(Frames!top.cons)
      /\ \A j \in DOMAIN Frames!top.cons : j <= i /\ (j # i => i > j /\ j \in 1 .. i - 1 /\ j <= i - 1)
  <2>1. i # 0 /\ i \in Nat
    BY <1>1, <1>2
  <2>2. QED
    BY <1>2, <2>1
<1> HIDE DEF i
<1>4. ASSUME NEW j \in DOMAIN Frames!top.cons, Owing(Frames!top, j), c.kind = "try"
      PROVE  j = i /\ Frames!top.cons[j].at = "fin" /\ SlotsHold(Frames!top, SubSeq(Frames!top.cons, 1, i - 1))
  <2>1. OnlyLoopsAbove(Frames!top.cons, j) /\ Frames!top.cons[j].at = "fin" /\ SlotsHold(Frames!top, SubSeq(Frames!top.cons, 1, j - 1))
    BY <1>2, <1>4 DEF Orderly
  <2>2. j = i
    BY <1>3, <1>4, <2>1 DEF OnlyLoopsAbove
  <2>3. QED
    BY <2>1, <2>2
<1>5. CASE c.kind = "try" /\ c.at # "fin"
  <2>1. Frames!Cleanup(Frames!Front(acts), Frames!top, i, exc)
    BY <1>1, <1>5
  <2>2. i \in Frames!OpenTries(Frames!top.cons)
    BY <1>3, <1>5 DEF Frames!OpenTries
  <2>3. Frames!InnerTry(Frames!top.cons) = i
    <3>1. /\ Frames!InnerTry(Frames!top.cons) \in Frames!OpenTries(Frames!top.cons) /\ i <= Frames!InnerTry(Frames!top.cons)
          /\ Frames!OpenTries(Frames!top.cons) \subseteq DOMAIN Frames!top.cons
      BY <1>2, <2>2, TriesIs
    <3>2. Frames!InnerTry(Frames!top.cons) <= i /\ Frames!InnerTry(Frames!top.cons) \in Nat
      BY <1>2, <1>3, <3>1
    <3>3. QED
      BY <1>3, <3>1, <3>2
  <2>4. Frames!top.reason = 0
    BY <1>2, <1>4, <1>5 DEF InUser
  <2>5. SlotsHold(Frames!top, SubSeq(Frames!top.cons, 1, i - 1))
    BY <2>4 DEF SlotsHold
  <2>6. QED
    BY <1>1, <1>2, <1>3, <2>1, <2>3, <2>5, CleanupTop
<1>6. CASE c.kind = "try" /\ c.at = "fin"
  <2> DEFINE b == [Frames!top EXCEPT !.cons = Frames!Front(@)]
  <2>1. Frames!Stay(b) /\ excPc' = "dispatch"
    BY <1>1, <1>6
  <2>2. Frames!Front(Frames!top.cons) = SubSeq(Frames!top.cons, 1, i - 1)
    BY DEF Frames!Front, i
  <2>3. SubSeq(Frames!top.cons, 1, i - 1) \in Seq(Con) /\ DOMAIN SubSeq(Frames!top.cons, 1, i - 1) = 1 .. i - 1
        /\ \A j \in 1 .. i - 1 : SubSeq(Frames!top.cons, 1, i - 1)[j] = Frames!top.cons[j]
    BY <1>2, <1>3, Cut
  <2>4. b \in Act /\ b.cons = SubSeq(Frames!top.cons, 1, i - 1) /\ b.wm = Frames!top.wm /\ SameSlots(Frames!top, b)
    BY <1>2, <2>2, <2>3 DEF Act, SameSlots
  <2> HIDE DEF b
  <2>5. Orderly(b)
    BY <1>2, <1>3, <2>4, OrderlyCut
  <2>6. \A j \in Frames!OpenTries(Frames!top.cons) : j <= i - 1
    <3>1. \A j \in Frames!OpenTries(Frames!top.cons) : j \in DOMAIN Frames!top.cons /\ j # i
      BY <1>6 DEF Frames!OpenTries
    <3>2. QED
      BY <1>3, <3>1
  <2>7. \A j \in 1 .. i - 1 : j \in DOMAIN Frames!top.cons /\ j # i /\ i > j
    BY <1>2, <1>3
  <2>8. InDispatch(b)
    <3>1. \A j \in 1 .. i - 1 : ~Owing(b, j)
      BY <1>4, <1>6, <2>3, <2>4, <2>7 DEF Owing
    <3>2. ~Frames!InCatch(b.cons)
      <4>1. \A j \in 1 .. i - 1 : Frames!top.cons[j].at # "catch"
        BY <1>2, <1>3, <1>6, <2>7 DEF Orderly, OnlyLoopsAbove
      <4>2. QED
        BY <2>3, <2>4, <4>1 DEF Frames!InCatch
    <3>3. SlotsHold(Frames!top, SubSeq(Frames!top.cons, 1, i - 1))
      <4>1. CASE Frames!top.reason = 0
        BY <4>1 DEF SlotsHold
      <4>2. CASE Frames!top.reason # 0
        BY <1>2, <1>4, <1>6, <4>2 DEF InUser
      <4>3. QED
        BY <4>1, <4>2
    <3>4. SlotsHold(b, b.cons)
      BY <2>4, <3>3 DEF SlotsHold, SameSlots
    <3>5. QED
      BY <2>3, <2>4, <3>1, <3>2, <3>4 DEF InDispatch
  <2>9. QED
    BY <1>1, <1>3, <2>1, <2>4, <2>5, <2>6, <2>8, StayKeeps
<1>7. CASE c.kind # "try"
  <2>1. Frames!Jump(Frames!top, "break")
    BY <1>1, <1>7
  <2>2. i \in Frames!Loops(Frames!top.cons)
    BY <1>3, <1>7 DEF Con, Frames!Loops
  <2>3. Frames!Inner(Frames!Loops(Frames!top.cons)) = i
    <3>1. /\ Frames!Inner(Frames!Loops(Frames!top.cons)) \in Frames!Loops(Frames!top.cons) /\ i <= Frames!Inner(Frames!Loops(Frames!top.cons))
          /\ Frames!Loops(Frames!top.cons) \subseteq DOMAIN Frames!top.cons
      BY <1>2, <2>2, TriesIs
    <3>2. Frames!Inner(Frames!Loops(Frames!top.cons)) <= i /\ Frames!Inner(Frames!Loops(Frames!top.cons)) \in Nat
      BY <1>2, <1>3, <3>1
    <3>3. QED
      BY <1>3, <3>1, <3>2
  <2>4. \A j \in Frames!OpenTries(Frames!top.cons) : j < i
    <3>1. \A j \in Frames!OpenTries(Frames!top.cons) : j \in DOMAIN Frames!top.cons /\ j # i
      BY <1>7 DEF Frames!OpenTries
    <3>2. QED
      BY <1>3, <3>1
  <2>5. SameSlots(Frames!top, Frames!top)
    BY DEF SameSlots
  <2>6. Frames!top.reason # 0 => \E j \in DOMAIN Frames!top.cons : j < i /\ Owing(Frames!top, j)
    <3> SUFFICES ASSUME Frames!top.reason # 0 PROVE \E j \in DOMAIN Frames!top.cons : j < i /\ Owing(Frames!top, j)
      OBVIOUS
    <3>1. PICK j \in DOMAIN Frames!top.cons : Owing(Frames!top, j)
      BY <1>2 DEF InUser
    <3>2. j # i
      BY <1>2, <2>2, <3>1 DEF Orderly, Frames!Loops
    <3>3. j < i
      BY <1>2, <1>3, <3>2
    <3>4. QED
      BY <3>1, <3>3
  <2>7. QED
    BY <1>1, <1>2, <2>1, <2>2, <2>3, <2>4, <2>5, <2>6, JumpKeeps
<1>8. QED
  BY <1>5, <1>6, <1>7

LEMMA DispatchKeeps ==
  ASSUME FramesInv, Frames!Dispatch
  PROVE  FramesInv'
<1> DEFINE i == Frames!InnerTry(Frames!top.cons)
           here == Frames!Cardinality(Frames!OpenTries(Frames!top.cons))
           l == Frames!Inner(Frames!Loops(Frames!top.cons))
<1>1. end = "run" /\ excPc = "dispatch"
  BY DEF Frames!Dispatch
<1>2. /\ Frames!top \in Act /\ Frames!top.cons \in Seq(Con) /\ DOMAIN Frames!top.cons = 1 .. Len(Frames!top.cons) /\ Len(Frames!top.cons) \in Nat
      /\ Orderly(Frames!top) /\ InDispatch(Frames!top)
  BY <1>1, TopIs
<1>3. Frames!top.reason \in 0 .. 4 /\ Frames!top.ret \in Value
  BY <1>2 DEF Act
<1>4. Quiet(Frames!top, Len(Frames!top.cons)) /\ NoCatch(acts)
  <2>1. Quiet(Frames!top, Len(Frames!top.cons))
    BY <1>2 DEF InDispatch, Quiet, Frames!InCatch
  <2>2. NoCatch(acts)
    BY <1>1, <1>2, NoCatchIs DEF InDispatch
  <2>3. QED
    BY <2>1, <2>2
<1>5. i \in 0 .. Len(Frames!top.cons) /\ (i = 0 <=> Frames!OpenTries(Frames!top.cons) = {})
      /\ (Frames!OpenTries(Frames!top.cons) # {} => i \in Frames!OpenTries(Frames!top.cons))
      /\ \A j \in Frames!OpenTries(Frames!top.cons) : j <= i
  BY <1>2, TriesIs
<1>6. CASE Frames!top.reason = 0
  <2> DEFINE b == [Frames!top EXCEPT !.root = 0]
  <2>1. Frames!Stay(b) /\ excPc' = "user"
    BY <1>6 DEF Frames!Dispatch
  <2>2. b \in Act /\ b.cons = Frames!top.cons /\ b.wm = Frames!top.wm /\ b.reason = 0
    BY <1>2, <1>6 DEF Act, Value
  <2> HIDE DEF b
  <2>3. b.cons = SubSeq(Frames!top.cons, 1, Len(Frames!top.cons)) /\ Len(Frames!top.cons) \in 0 .. Len(Frames!top.cons)
    BY <1>2, <2>2, WholeIs
  <2>4. Orderly(b)
    BY <1>2, <1>4, <2>2, <2>3, OrderlyCut
  <2>5. InUser(b)
    BY <2>2 DEF InUser
  <2>6. \A j \in Frames!OpenTries(Frames!top.cons) : j <= Len(Frames!top.cons)
    BY <1>2, TriesIs
  <2>7. QED
    BY <1>1, <2>1, <2>2, <2>3, <2>4, <2>5, <2>6, StayKeeps
<1>7. CASE Frames!top.reason = 1
  <2>1. Frames!PassReturn
    BY <1>7 DEF Frames!Dispatch
  <2>2. Frames!top.root = Frames!top.ret
    BY <1>2, <1>7 DEF InDispatch, SlotsHold
  <2>3. CASE i > 0
    <3>1. Frames!Cleanup(Frames!Front(acts), Frames!top, i, exc)
      BY <2>1, <2>3 DEF Frames!PassReturn
    <3>2. SlotsHold(Frames!top, SubSeq(Frames!top.cons, 1, i - 1))
      BY <1>7, <2>2 DEF SlotsHold
    <3>3. QED
      BY <1>1, <1>2, <2>3, <3>1, <3>2, CleanupTop
  <2>4. CASE ~(i > 0)
    <3>1. Frames!Ret
      BY <2>1, <2>4 DEF Frames!PassReturn
    <3>2. Frames!OpenTries(Frames!top.cons) = {}
      BY <1>2, <1>5, <2>4
    <3>3. QED
      BY <1>1, <3>1, <3>2, RetKeeps
  <2>5. QED
    BY <2>3, <2>4
<1>8. CASE Frames!top.reason \in {2, 3}
  <2>0. IF Frames!top.stop = here /\ Frames!Loops(Frames!top.cons) # {}
        THEN Frames!Jump([Frames!top EXCEPT !.reason = 0], Frames!Kind(Frames!top.reason))
        ELSE IF Frames!top.stop # here /\ i > 0
        THEN Frames!Cleanup(Frames!Front(acts), Frames!top, i, exc)
        ELSE excPc' = "user" /\ Frames!Stay([Frames!top EXCEPT !.reason = 0, !.root = 0])
    <3>1. Frames!top.reason # 0 /\ Frames!top.reason # 1 /\ Frames!top.reason # 4
      BY <1>8
    <3>2. QED
      BY <1>8, <3>1, Zenon DEF Frames!Dispatch
  <2>1. Frames!Loops(Frames!top.cons) # {} /\ Frames!top.stop = Frames!TryDepth(Frames!top.cons, l) /\ Aims(Frames!top.cons, Frames!top.stop)
    BY <1>2, <1>8 DEF InDispatch, SlotsHold, Aims
  <2>2. l \in Frames!Loops(Frames!top.cons) /\ l \in 1 .. Len(Frames!top.cons)
    BY <1>2, <2>1, TriesIs
  <2>3. /\ Frames!top.stop \in Nat /\ here \in Nat /\ Frames!top.stop <= here
        /\ here = Frames!top.stop <=> \A j \in Frames!OpenTries(Frames!top.cons) : j < l
    BY <1>2, <2>1, <2>2, DepthIs
  <2>4. CASE Frames!top.stop = here
    <3> DEFINE a == [Frames!top EXCEPT !.reason = 0]
    <3>1. Frames!Jump(a, Frames!Kind(Frames!top.reason))
      BY <2>0, <2>1, <2>4
    <3>2. a \in Act /\ a.cons = Frames!top.cons /\ a.wm = Frames!top.wm /\ a.reason = 0
      BY <1>2 DEF Act
    <3> HIDE DEF a
    <3>3. \A j \in Frames!OpenTries(Frames!top.cons) : j < l
      BY <2>3, <2>4
    <3>4. Quiet(Frames!top, l)
      <4> HIDE DEF l
      <4>1. \A j \in 1 .. l : j \in 1 .. Len(Frames!top.cons)
        BY <1>2, <2>2
      <4>2. QED
        BY <1>4, <4>1 DEF Quiet
    <3>5. QED
      BY <1>1, <2>1, <3>1, <3>2, <3>3, <3>4, JumpKeeps
  <2>5. CASE Frames!top.stop # here
    <3>1. i > 0 /\ l < i
      <4> HIDE DEF i, here, l
      <4>1. PICK j \in Frames!OpenTries(Frames!top.cons) : ~(j < l)
        BY <2>3, <2>5
      <4>2. j # l /\ j \in 1 .. Len(Frames!top.cons)
        BY <1>2, <2>2, <4>1, TriesIs DEF Frames!Loops, Frames!OpenTries
      <4>3. j <= i
        BY <1>5
      <4>4. QED
        BY <1>2, <1>5, <2>2, <4>1, <4>2, <4>3
    <3>2. Frames!Cleanup(Frames!Front(acts), Frames!top, i, exc)
      BY <2>0, <2>5, <3>1
    <3>3. SlotsHold(Frames!top, SubSeq(Frames!top.cons, 1, i - 1))
      <4>1. i \in DOMAIN Frames!top.cons
        BY <1>2, <1>5, <3>1
      <4>2. Aims(SubSeq(Frames!top.cons, 1, i - 1), Frames!top.stop)
        BY <1>2, <2>1, <3>1, <4>1, AimsCut
      <4>3. ~(Frames!top.reason \in {1, 4})
        BY <1>8
      <4>4. QED
        BY <4>2, <4>3 DEF SlotsHold
    <3>4. QED
      BY <1>1, <1>2, <3>1, <3>2, <3>3, CleanupTop
  <2>6. QED
    BY <2>4, <2>5
<1>9. CASE Frames!top.reason = 4
  <2>1. Frames!HaoThrow(Frames!top.ret)
    BY <1>9 DEF Frames!Dispatch
  <2>2. QED
    BY <1>1, <1>3, <1>4, <2>1, HaoThrowKeeps
<1>10. QED
  BY <1>3, <1>6, <1>7, <1>8, <1>9

LEMMA FramesInvStep ==
  ASSUME PlainProgram, FramesInv, [Frames!Next]_(Frames!vars)
  PROVE  FramesInv'
<1>1. CASE UNCHANGED Frames!vars
  BY <1>1 DEF Frames!vars, FramesInv, Typed
<1>2. ASSUME NEW f \in TryForms, Frames!OpenTry(f) PROVE FramesInv'
  BY <1>2, OpenTryKeeps
<1>3. CASE Frames!OpenLoop
  BY <1>3, OpenLoopKeeps
<1>4. CASE Frames!Call
  BY <1>4, CallKeeps
<1>5. CASE Frames!Fall
  BY <1>5, FallKeeps
<1>6. CASE Frames!Dispatch
  BY <1>6, DispatchKeeps
<1>7. ASSUME NEW v \in Vals, Frames!Throw(v) PROVE FramesInv'
  BY <1>7, ThrowKeeps
<1>8. ASSUME NEW v \in Vals, Frames!Return(v) PROVE FramesInv'
  BY <1>8, ReturnKeeps
<1>9. ASSUME NEW k \in {"break", "continue"}, Frames!BreakOrContinue(k) PROVE FramesInv'
  BY <1>9, BreakOrContinueKeeps
<1>10. QED
  BY <1>1, <1>2, <1>3, <1>4, <1>5, <1>6, <1>7, <1>8, <1>9 DEF Frames!Next

LEMMA InvRoots ==
  ASSUME FramesInv
  PROVE  Frames!PendingRooted
<1> SUFFICES ASSUME end = "run", NEW d \in DOMAIN acts
             PROVE  /\ acts[d].wm < Len(shadow) /\ shadow[acts[d].wm + 1] = d
                    /\ \A i \in DOMAIN acts[d].cons :
                         acts[d].cons[i].pend.k \in {"return", "throw"} => acts[d].root = acts[d].cons[i].pend.v
  BY DEF Frames!PendingRooted
<1>1. /\ acts \in Seq(Act) /\ ActsSound(acts, excPc) /\ Marked(acts, shadow) /\ DOMAIN acts = 1 .. Len(acts)
  BY TopIs
<1>2. acts[d].wm < Len(shadow) /\ shadow[acts[d].wm + 1] = d
  BY <1>1 DEF Marked
<1>3. ASSUME NEW i \in DOMAIN acts[d].cons, acts[d].cons[i].pend.k \in {"return", "throw"}
      PROVE  acts[d].root = acts[d].cons[i].pend.v
  <2>1. Orderly(acts[d]) /\ acts[d] \in Act
    BY <1>1 DEF ActsSound
  <2>2. Owing(acts[d], i)
    BY <1>3 DEF Owing, Frames!Normal
  <2>3. acts[d].cons[i].pend = Frames!Slots(acts[d]) /\ SlotsHold(acts[d], SubSeq(acts[d].cons, 1, i - 1))
    BY <2>1, <2>2 DEF Orderly
  <2>4. Frames!Slots(acts[d]).k = Frames!Kind(acts[d].reason)
    BY DEF Frames!Slots
  <2>5. acts[d].reason \in {1, 4}
    <3>1. acts[d].reason \in 0 .. 4
      BY <2>1 DEF Act
    <3>2. acts[d].reason = 0 \/ acts[d].reason = 1 \/ acts[d].reason = 2 \/ acts[d].reason = 3 \/ acts[d].reason = 4
      BY <3>1
    <3>3. QED
      BY <1>3, <2>3, <2>4, <3>2, KindIs
  <2>6. QED
    BY <2>3, <2>5 DEF SlotsHold, Frames!Slots
<1>4. QED
  BY <1>2, <1>3

(* While a finally runs that a return or a throw is waiting for, the       *)
(* object it will return or throw on with is in the root slot of its       *)
(* activation, and the slot is on the shadow stack (IRGen's finally        *)
(* dispatch and hao_throw): a collection inside the finally keeps it.      *)
THEOREM PendingIsRooted ==
  ASSUME PlainProgram
  PROVE  Frames!Spec => []Frames!PendingRooted
<1>1. Frames!Init => FramesInv
  BY FramesInvInit
<1>2. FramesInv /\ [Frames!Next]_(Frames!vars) => FramesInv'
  BY FramesInvStep
<1>3. FramesInv => Frames!PendingRooted
  BY InvRoots
<1>4. QED
  BY <1>1, <1>2, <1>3, PTL DEF Frames!Spec

(* The runtime's frames are the open try bodies, each once, outermost      *)
(* first: a longjmp lands in a body that is open in a function that has    *)
(* not returned.                                                           *)
THEOREM FramesMatch ==
  ASSUME PlainProgram
  PROVE  Frames!Spec => [](end = "run" => FramesSound(acts, exc))
<1>1. Frames!Init => FramesInv
  BY FramesInvInit
<1>2. FramesInv /\ [Frames!Next]_(Frames!vars) => FramesInv'
  BY FramesInvStep
<1>3. FramesInv => (end = "run" => FramesSound(acts, exc))
  BY DEF FramesInv
<1>4. QED
  BY <1>1, <1>2, <1>3, PTL DEF Frames!Spec

---------------------------------------------------------------------------
(* The abstract program.                                                   *)

Abs(c) == [x \in {"kind", "at", "catches", "fin", "pend", "clause"} |-> c[x]]
AbsAll(cons) == [i \in DOMAIN cons |-> Abs(cons[i])]
Calls(stk) == [d \in DOMAIN stk |-> AbsAll(stk[d].cons)]
Comp(stk, p) == IF p = "dispatch" THEN Frames!Slots(Frames!Last(stk)) ELSE Frames!Normal
ACon == [kind : {"loop", "try"}, at : {"body", "catch", "fin"}, catches : Clauses, fin : BOOLEAN,
         pend : Pend, clause : Nat]

(* What its variables, and the operators of TryFinally, stand for.         *)
LEMMA TriesAre ==
  ASSUME NEW cons
  PROVE  Frames!Structured!OpenTries(cons) = Frames!OpenTries(cons)
  BY DEF Frames!Structured!OpenTries, Frames!OpenTries

LEMMA InnerAre ==
  ASSUME NEW S
  PROVE  Frames!Structured!Inner(S) = Frames!Inner(S)
  BY DEF Frames!Structured!Inner, Frames!Inner, Frames!Structured!Max, Frames!Max

LEMMA TopAre == Frames!Structured!top = Frames!Last(Calls(acts))
  BY DEF Frames!Structured!top, Frames!Structured!Last, Frames!Last, Calls, AbsAll, Abs

LEMMA LeaveIs ==
  ASSUME NEW cs, NEW i, NEW c,
         IF Frames!Last(cs)[i].fin
         THEN /\ Calls(acts') = Append(Frames!Front(cs), Append(SubSeq(Frames!Last(cs), 1, i - 1), [Frames!Last(cs)[i] EXCEPT !.at = "fin", !.pend = c]))
              /\ Comp(acts', excPc') = Frames!Normal
         ELSE /\ Calls(acts') = Append(Frames!Front(cs), SubSeq(Frames!Last(cs), 1, i - 1))
              /\ Comp(acts', excPc') = c
  PROVE  Frames!Structured!Leave(cs, i, c)
  BY DEF Frames!Structured!Leave, Frames!Structured!InFinally, Frames!Structured!Normal, Frames!Normal, Calls, AbsAll, Abs, Comp, Frames!top, Frames!Structured!Last, Frames!Last, Frames!Structured!Front, Frames!Front

LEMMA NobodyCatches ==
  ASSUME NEW v, Frames!Structured!Inner({a \in DOMAIN Calls(acts) : Frames!Structured!OpenTries(Calls(acts)[a]) # {}}) = 0,
         end' = "uncaught", Calls(acts') = Calls(acts), Comp(acts', excPc') = Comp(acts, excPc)
  PROVE  Frames!Structured!Thrown(v)
  BY DEF Frames!Structured!Thrown, Frames!Structured!Normal, Frames!Normal, Calls, AbsAll, Abs, Comp, Frames!top, Frames!Structured!Last, Frames!Last

LEMMA SomebodyCatches ==
  ASSUME NEW v, NEW d, NEW i,
         Frames!Structured!Inner({a \in DOMAIN Calls(acts) : Frames!Structured!OpenTries(Calls(acts)[a]) # {}}) = d,
         Frames!Structured!Inner(Frames!Structured!OpenTries(Calls(acts)[d])) = i,
         d > 0, Calls(acts)[d][i].at = "body",
         NEW k \in Frames!Structured!Matching(Calls(acts)[d][i], v),
         \A j \in Frames!Structured!Matching(Calls(acts)[d][i], v) : k <= j,
         Calls(acts') = Append(SubSeq(Calls(acts), 1, d - 1),
                             Append(SubSeq(Calls(acts)[d], 1, i - 1), [Calls(acts)[d][i] EXCEPT !.at = "catch", !.clause = k])),
         Comp(acts', excPc') = Frames!Normal, end' = end
  PROVE  Frames!Structured!Thrown(v)
  BY DEF Frames!Structured!Thrown, Frames!Structured!Matching, Frames!Structured!Catching, Frames!Structured!Normal, Frames!Normal, Calls, AbsAll, Abs, Comp, Frames!top, Frames!Structured!Last, Frames!Last

LEMMA ThrowPasses ==
  ASSUME NEW v, NEW d, NEW i,
         Frames!Structured!Inner({a \in DOMAIN Calls(acts) : Frames!Structured!OpenTries(Calls(acts)[a]) # {}}) = d,
         Frames!Structured!Inner(Frames!Structured!OpenTries(Calls(acts)[d])) = i,
         d > 0, ~(Calls(acts)[d][i].at = "body" /\ Frames!Structured!Matching(Calls(acts)[d][i], v) # {}),
         NEW cs, cs = SubSeq(Calls(acts), 1, d), Frames!Structured!Leave(cs, i, [k |-> "throw", v |-> v]), end' = end
  PROVE  Frames!Structured!Thrown(v)
  BY DEF Frames!Structured!Thrown, Frames!Structured!Matching, Frames!Structured!Abrupt, Frames!Structured!Leave, Calls, AbsAll, Abs

LEMMA ReturnPasses ==
  ASSUME NEW v, NEW i, i = Frames!Structured!Inner(Frames!Structured!OpenTries(Frames!Structured!top)), i > 0,
         NEW cs, cs = Calls(acts), Frames!Structured!Leave(cs, i, [k |-> "return", v |-> v]), end' = end
  PROVE  Frames!Structured!Returned(v)
  BY DEF Frames!Structured!Returned, Frames!Structured!Abrupt, Frames!Structured!Leave, Calls, AbsAll, Abs

LEMMA ReturnEnds ==
  ASSUME NEW v, ~(Frames!Structured!Inner(Frames!Structured!OpenTries(Frames!Structured!top)) > 0),
         Calls(acts') = Frames!Front(Calls(acts)), Comp(acts', excPc') = Frames!Normal,
         end' = IF Len(Calls(acts)) = 1 THEN "done" ELSE end
  PROVE  Frames!Structured!Returned(v)
  BY DEF Frames!Structured!Returned, Frames!Structured!Normal, Frames!Normal, Calls, AbsAll, Abs, Comp, Frames!top, Frames!Structured!Last, Frames!Last, Frames!Structured!Front, Frames!Front

LEMMA JumpPasses ==
  ASSUME NEW k, NEW l, NEW i, l = Frames!Structured!InnerLoop(Frames!Structured!top),
         i = Frames!Structured!Inner({j \in Frames!Structured!OpenTries(Frames!Structured!top) : j > l}), l > 0, end' = end, i > 0,
         NEW cs, cs = Calls(acts), Frames!Structured!Leave(cs, i, [k |-> k, v |-> 0])
  PROVE  Frames!Structured!Jumped(k)
  BY DEF Frames!Structured!Jumped, Frames!Structured!Abrupt, Frames!Structured!Leave, Calls, AbsAll, Abs

LEMMA JumpArrives ==
  ASSUME NEW k, NEW l, l = Frames!Structured!InnerLoop(Frames!Structured!top),
         ~(Frames!Structured!Inner({j \in Frames!Structured!OpenTries(Frames!Structured!top) : j > l}) > 0), l > 0, end' = end,
         Calls(acts') = Append(Frames!Front(Calls(acts)), SubSeq(Frames!Structured!top, 1, IF k = "break" THEN l - 1 ELSE l)),
         Comp(acts', excPc') = Frames!Normal
  PROVE  Frames!Structured!Jumped(k)
  BY DEF Frames!Structured!Jumped, Frames!Structured!Normal, Frames!Normal, Calls, AbsAll, Abs, Comp, Frames!top, Frames!Structured!Last, Frames!Last, Frames!Structured!Front, Frames!Front

LEMMA FallTry ==
  ASSUME Comp(acts, excPc) = Frames!Normal, end = "run", end' = end, NEW i, NEW c,
         Frames!Structured!top # <<>>, i = Len(Frames!Structured!top), c = Frames!Structured!top[i],
         c.kind = "try" /\ c.at # "fin", NEW cs, cs = Calls(acts), Frames!Structured!Leave(cs, i, Frames!Normal)
  PROVE  Frames!Structured!Fall
  BY DEF Frames!Structured!Fall, Frames!Structured!Leave, Frames!Structured!Running, Frames!Structured!Normal, Frames!Normal, Calls, AbsAll, Abs, Comp, Frames!top, Frames!Structured!Last, Frames!Last

LEMMA FallOut ==
  ASSUME Comp(acts, excPc) = Frames!Normal, end = "run", end' = end, NEW i, NEW c,
         Frames!Structured!top # <<>>, i = Len(Frames!Structured!top), c = Frames!Structured!top[i],
         c.kind = "loop" \/ c.at = "fin",
         Calls(acts') = Append(Frames!Front(Calls(acts)), Frames!Front(Frames!Structured!top)), Comp(acts', excPc') = c.pend
  PROVE  Frames!Structured!Fall
  BY DEF Frames!Structured!Fall, Frames!Structured!Running, Frames!Structured!Normal, Frames!Normal, Calls, AbsAll, Abs, Comp, Frames!top, Frames!Structured!Last, Frames!Last, Frames!Structured!Front, Frames!Front

LEMMA OpenTryIs ==
  ASSUME NEW f, Comp(acts, excPc) = Frames!Normal, end = "run", end' = end, Comp(acts', excPc') = Comp(acts, excPc),
         Calls(acts') = Append(Frames!Front(Calls(acts)), Append(Frames!Last(Calls(acts)),
            [kind |-> "try", at |-> "body", catches |-> f.catches, fin |-> f.fin, pend |-> Frames!Normal, clause |-> 0]))
  PROVE  Frames!Structured!OpenTry(f)
  BY DEF Frames!Structured!OpenTry, Frames!Structured!Running, Frames!Structured!top, Frames!Structured!Try,
         Frames!Structured!Normal, Frames!Normal, Calls, AbsAll, Abs, Comp, Frames!top, Frames!Structured!Last, Frames!Last, Frames!Structured!Front, Frames!Front

LEMMA OpenLoopIs ==
  ASSUME Comp(acts, excPc) = Frames!Normal, end = "run", end' = end, Comp(acts', excPc') = Comp(acts, excPc),
         Calls(acts') = Append(Frames!Front(Calls(acts)), Append(Frames!Last(Calls(acts)),
            [kind |-> "loop", at |-> "body", catches |-> <<>>, fin |-> FALSE, pend |-> Frames!Normal, clause |-> 0]))
  PROVE  Frames!Structured!OpenLoop
  BY DEF Frames!Structured!OpenLoop, Frames!Structured!Running, Frames!Structured!top, Frames!Structured!Loop,
         Frames!Structured!Normal, Frames!Normal, Calls, AbsAll, Abs, Comp, Frames!top, Frames!Structured!Last, Frames!Last, Frames!Structured!Front, Frames!Front

LEMMA CallIs ==
  ASSUME Comp(acts, excPc) = Frames!Normal, end = "run", end' = end, Comp(acts', excPc') = Comp(acts, excPc),
         Calls(acts') = Append(Calls(acts), <<>>)
  PROVE  Frames!Structured!Call
  BY DEF Frames!Structured!Call, Frames!Structured!Running,
         Frames!Structured!Normal, Frames!Normal, Calls, AbsAll, Abs, Comp, Frames!top, Frames!Structured!Last, Frames!Last, Frames!Structured!Front, Frames!Front

LEMMA StatementIs ==
  ASSUME NEW k \in {"return", "throw", "break", "continue"}, NEW v \in Value,
         Comp(acts, excPc) = Frames!Normal, end = "run",
         Frames!Structured!Deliver([k |-> k, v |-> v])
  PROVE  Frames!Structured!Statement
  BY DEF Frames!Structured!Statement, Frames!Structured!Running, Frames!Structured!Abrupt, Value,
         Frames!Structured!Normal, Frames!Normal, Calls, AbsAll, Abs, Comp, Frames!top, Frames!Structured!Last, Frames!Last, Frames!Structured!Front, Frames!Front

LEMMA GoOnIs ==
  ASSUME end = "run", NEW c, c = Comp(acts, excPc), c # Frames!Normal, Frames!Structured!Deliver(c)
  PROVE  Frames!Structured!GoOn
  BY DEF Frames!Structured!GoOn, Frames!Structured!Deliver, Frames!Structured!Thrown, Frames!Structured!Returned, Frames!Structured!Jumped, Frames!Structured!Leave, Frames!Structured!Normal, Frames!Normal, Calls, AbsAll, Abs, Comp, Frames!top, Frames!Structured!Last, Frames!Last, Frames!Structured!Front, Frames!Front

LEMMA ExitIs ==
  ASSUME end = "run", end' = "exit", Calls(acts') = Calls(acts), Comp(acts', excPc') = Comp(acts, excPc)
  PROVE  Frames!Structured!Exit
  BY DEF Frames!Structured!Exit, Frames!Structured!Normal, Frames!Normal, Calls, AbsAll, Abs, Comp, Frames!top, Frames!Structured!Last, Frames!Last, Frames!Structured!Front, Frames!Front

LEMMA StutterIs ==
  ASSUME end' = end, Calls(acts') = Calls(acts), Comp(acts', excPc') = Comp(acts, excPc)
  PROVE  UNCHANGED Frames!Structured!vars
  BY DEF Frames!Structured!vars, Frames!Structured!Normal, Frames!Normal, Calls, AbsAll, Abs, Comp, Frames!top, Frames!Structured!Last, Frames!Last, Frames!Structured!Front, Frames!Front

LEMMA DeliverIs ==
  ASSUME NEW c, \/ c.k = "throw" /\ Frames!Structured!Thrown(c.v)
                \/ c.k = "return" /\ Frames!Structured!Returned(c.v)
                \/ c.k \in {"break", "continue"} /\ Frames!Structured!Jumped(c.k)
  PROVE  Frames!Structured!Deliver(c)
  BY DEF Frames!Structured!Deliver

LEMMA LoopsAre == Frames!Structured!top = Frames!Last(Calls(acts)) /\ \A cons : Frames!Structured!InnerLoop(cons) = Frames!Inner(Frames!Loops(cons))
<1>1. \A S : Frames!Structured!Inner(S) = Frames!Inner(S)
  BY InnerAre
<1>2. QED
  BY <1>1, TopAre DEF Frames!Structured!InnerLoop, Frames!Loops

LEMMA AbsIs ==
  ASSUME NEW c \in Con
  PROVE  /\ Abs(c) \in ACon
         /\ Abs(c).kind = c.kind /\ Abs(c).at = c.at /\ Abs(c).catches = c.catches /\ Abs(c).fin = c.fin
         /\ Abs(c).pend = c.pend /\ Abs(c).clause = c.clause
         /\ \A k \in Nat : Abs([c EXCEPT !.at = "catch", !.clause = k]) = [Abs(c) EXCEPT !.at = "catch", !.clause = k]
         /\ \A p \in Pend : Abs([c EXCEPT !.at = "fin", !.pend = p]) = [Abs(c) EXCEPT !.at = "fin", !.pend = p]
<1>1. \A b \in Con : Abs(b) = [kind |-> b.kind, at |-> b.at, catches |-> b.catches, fin |-> b.fin, pend |-> b.pend, clause |-> b.clause]
  BY DEF Abs, Con
<1>2. /\ c.kind \in {"loop", "try"} /\ c.at \in {"body", "catch", "fin"} /\ c.catches \in Clauses
      /\ c.fin \in BOOLEAN /\ c.pend \in Pend /\ c.clause \in Nat
  BY DEF Con
<1>3. (\A k \in Nat : [c EXCEPT !.at = "catch", !.clause = k] \in Con) /\ \A p \in Pend : [c EXCEPT !.at = "fin", !.pend = p] \in Con
  BY DEF Con
<1>4. Abs(c) \in ACon
  BY <1>1, <1>2 DEF ACon
<1>5. \A a \in ACon : a = [kind |-> a.kind, at |-> a.at, catches |-> a.catches, fin |-> a.fin, pend |-> a.pend, clause |-> a.clause]
  BY DEF ACon
<1>6. ASSUME NEW k \in Nat
      PROVE  Abs([c EXCEPT !.at = "catch", !.clause = k]) = [Abs(c) EXCEPT !.at = "catch", !.clause = k]
  <2>1. PICK d \in Con : d = [c EXCEPT !.at = "catch", !.clause = k]
    BY <1>3
  <2>2. d.kind = c.kind /\ d.at = "catch" /\ d.catches = c.catches /\ d.fin = c.fin /\ d.pend = c.pend /\ d.clause = k
    BY <2>1 DEF Con
  <2>3. Abs(d) = [kind |-> c.kind, at |-> "catch", catches |-> c.catches, fin |-> c.fin, pend |-> c.pend, clause |-> k]
    BY <1>1, <2>2
  <2>4. \A a \in ACon : [a EXCEPT !.at = "catch", !.clause = k]
          = [kind |-> a.kind, at |-> "catch", catches |-> a.catches, fin |-> a.fin, pend |-> a.pend, clause |-> k]
    <3> SUFFICES ASSUME NEW a \in ACon
                 PROVE  [a EXCEPT !.at = "catch", !.clause = k]
                        = [kind |-> a.kind, at |-> "catch", catches |-> a.catches, fin |-> a.fin, pend |-> a.pend, clause |-> k]
      OBVIOUS
    <3>1. PICK e : e = [a EXCEPT !.at = "catch", !.clause = k]
      OBVIOUS
    <3>2. e \in ACon /\ e.kind = a.kind /\ e.at = "catch" /\ e.catches = a.catches /\ e.fin = a.fin /\ e.pend = a.pend /\ e.clause = k
      BY <3>1 DEF ACon
    <3>3. e = [kind |-> e.kind, at |-> e.at, catches |-> e.catches, fin |-> e.fin, pend |-> e.pend, clause |-> e.clause]
      BY <1>5, <3>2
    <3>4. QED
      BY <3>1, <3>2, <3>3
  <2>5. Abs(c).kind = c.kind /\ Abs(c).catches = c.catches /\ Abs(c).fin = c.fin /\ Abs(c).pend = c.pend
    BY <1>1
  <2>6. QED
    BY <1>4, <2>1, <2>3, <2>4, <2>5
<1>7. ASSUME NEW p \in Pend
      PROVE  Abs([c EXCEPT !.at = "fin", !.pend = p]) = [Abs(c) EXCEPT !.at = "fin", !.pend = p]
  <2>1. PICK d \in Con : d = [c EXCEPT !.at = "fin", !.pend = p]
    BY <1>3
  <2>2. d.kind = c.kind /\ d.at = "fin" /\ d.catches = c.catches /\ d.fin = c.fin /\ d.pend = p /\ d.clause = c.clause
    BY <2>1 DEF Con
  <2>3. Abs(d) = [kind |-> c.kind, at |-> "fin", catches |-> c.catches, fin |-> c.fin, pend |-> p, clause |-> c.clause]
    BY <1>1, <2>2
  <2>4. \A a \in ACon : [a EXCEPT !.at = "fin", !.pend = p] = [kind |-> a.kind, at |-> "fin", catches |-> a.catches, fin |-> a.fin, pend |-> p, clause |-> a.clause]
    <3> SUFFICES ASSUME NEW a \in ACon
                 PROVE  [a EXCEPT !.at = "fin", !.pend = p] = [kind |-> a.kind, at |-> "fin", catches |-> a.catches, fin |-> a.fin, pend |-> p, clause |-> a.clause]
      OBVIOUS
    <3>1. PICK e : e = [a EXCEPT !.at = "fin", !.pend = p]
      OBVIOUS
    <3>2. e \in ACon /\ e.kind = a.kind /\ e.at = "fin" /\ e.catches = a.catches /\ e.fin = a.fin /\ e.pend = p /\ e.clause = a.clause
      BY <3>1 DEF ACon
    <3>3. e = [kind |-> e.kind, at |-> e.at, catches |-> e.catches, fin |-> e.fin, pend |-> e.pend, clause |-> e.clause]
      BY <1>5, <3>2
    <3>4. QED
      BY <3>1, <3>2, <3>3
  <2>5. Abs(c).kind = c.kind /\ Abs(c).catches = c.catches /\ Abs(c).fin = c.fin /\ Abs(c).pend = c.pend /\ Abs(c).clause = c.clause
    BY <1>1
  <2>6. QED
    BY <1>4, <2>1, <2>3, <2>4, <2>5
<1>8. Abs(c).kind = c.kind /\ Abs(c).at = c.at /\ Abs(c).catches = c.catches /\ Abs(c).fin = c.fin /\ Abs(c).pend = c.pend /\ Abs(c).clause = c.clause
  BY <1>1
<1>9. QED
  BY <1>4, <1>6, <1>7, <1>8

LEMMA ConsAre ==
  ASSUME NEW cons \in Seq(Con)
  PROVE  /\ AbsAll(cons) \in Seq(ACon) /\ Len(AbsAll(cons)) = Len(cons) /\ DOMAIN AbsAll(cons) = DOMAIN cons
         /\ \A i \in DOMAIN cons : AbsAll(cons)[i] = Abs(cons[i]) /\ AbsAll(cons)[i] \in ACon
         /\ Frames!OpenTries(AbsAll(cons)) = Frames!OpenTries(cons) /\ Frames!Loops(AbsAll(cons)) = Frames!Loops(cons)
         /\ AbsAll(cons) = <<>> <=> cons = <<>>
<1>1. DOMAIN cons = 1 .. Len(cons) /\ Len(cons) \in Nat /\ \A i \in DOMAIN cons : cons[i] \in Con
  OBVIOUS
<1>2. \A i \in DOMAIN cons : Abs(cons[i]) \in ACon /\ Abs(cons[i]).kind = cons[i].kind /\ Abs(cons[i]).at = cons[i].at
  BY <1>1, AbsIs
<1>3. AbsAll(cons) = [i \in 1 .. Len(cons) |-> Abs(cons[i])]
  BY <1>1 DEF AbsAll
<1>4. \A i \in 1 .. Len(cons) : AbsAll(cons)[i] = Abs(cons[i]) /\ Abs(cons[i]) \in ACon
  BY <1>1, <1>2, <1>3
<1>5. AbsAll(cons) \in Seq(ACon) /\ Len(AbsAll(cons)) = Len(cons) /\ DOMAIN AbsAll(cons) = 1 .. Len(cons)
  BY <1>1, <1>3, <1>4
<1>6. Frames!OpenTries(AbsAll(cons)) = Frames!OpenTries(cons) /\ Frames!Loops(AbsAll(cons)) = Frames!Loops(cons)
  BY <1>1, <1>2, <1>4, <1>5 DEF Frames!OpenTries, Frames!Loops
<1>7. AbsAll(cons) = <<>> <=> cons = <<>>
  BY <1>1, <1>5
<1>8. QED
  BY <1>1, <1>4, <1>5, <1>6, <1>7

LEMMA ConsCut ==
  ASSUME NEW cons \in Seq(Con), NEW n \in 0 .. Len(cons)
  PROVE  AbsAll(SubSeq(cons, 1, n)) = SubSeq(AbsAll(cons), 1, n)
<1>1. /\ AbsAll(cons) \in Seq(ACon) /\ Len(AbsAll(cons)) = Len(cons) /\ n \in 0 .. Len(AbsAll(cons))
      /\ \A i \in 1 .. Len(cons) : AbsAll(cons)[i] = Abs(cons[i])
  BY ConsAre
<1>2. /\ SubSeq(cons, 1, n) \in Seq(Con) /\ Len(SubSeq(cons, 1, n)) = n
      /\ \A i \in 1 .. n : SubSeq(cons, 1, n)[i] = cons[i]
  BY Cut
<1>3. /\ SubSeq(AbsAll(cons), 1, n) \in Seq(ACon) /\ Len(SubSeq(AbsAll(cons), 1, n)) = n
      /\ \A i \in 1 .. n : SubSeq(AbsAll(cons), 1, n)[i] = AbsAll(cons)[i]
  BY <1>1, Cut
<1> DEFINE t == SubSeq(cons, 1, n)
<1>4. /\ AbsAll(t) \in Seq(ACon) /\ Len(AbsAll(t)) = n /\ \A i \in 1 .. n : AbsAll(t)[i] = Abs(t[i])
  <2> HIDE DEF t
  <2>1. t \in Seq(Con) /\ Len(t) = n
    BY <1>2 DEF t
  <2>2. DOMAIN t = 1 .. n
    BY <2>1
  <2>3. QED
    BY <2>1, <2>2, ConsAre
<1>5. \A i \in 1 .. n : AbsAll(t)[i] = SubSeq(AbsAll(cons), 1, n)[i]
  <2>1. \A i \in 1 .. n : i \in 1 .. Len(cons)
    OBVIOUS
  <2>2. QED
    BY <1>1, <1>2, <1>3, <1>4, <2>1
<1>6. \A u, v \in Seq(ACon) : Len(u) = Len(v) /\ (\A j \in 1 .. Len(u) : u[j] = v[j]) => u = v
  BY SeqEqual
<1>7. QED
  BY <1>3, <1>4, <1>5, <1>6

LEMMA ConsPut ==
  ASSUME NEW cons \in Seq(Con), NEW x \in Con
  PROVE  AbsAll(Append(cons, x)) = Append(AbsAll(cons), Abs(x))
<1>1. /\ AbsAll(cons) \in Seq(ACon) /\ Len(AbsAll(cons)) = Len(cons) /\ Abs(x) \in ACon /\ Len(cons) \in Nat
      /\ \A i \in 1 .. Len(cons) : AbsAll(cons)[i] = Abs(cons[i])
  <2>1. DOMAIN cons = 1 .. Len(cons) /\ Len(cons) \in Nat
    OBVIOUS
  <2>2. AbsAll(cons) \in Seq(ACon) /\ Len(AbsAll(cons)) = Len(cons) /\ \A i \in DOMAIN cons : AbsAll(cons)[i] = Abs(cons[i])
    BY ConsAre
  <2>3. Abs(x) \in ACon
    BY AbsIs
  <2>4. QED
    BY <2>1, <2>2, <2>3
<1> DEFINE t == Append(cons, x)
           u == Append(AbsAll(cons), Abs(x))
<1>2. /\ t \in Seq(Con) /\ Len(t) = Len(cons) + 1 /\ t[Len(cons) + 1] = x /\ \A i \in 1 .. Len(cons) : t[i] = cons[i]
  OBVIOUS
<1>3. /\ u \in Seq(ACon) /\ Len(u) = Len(cons) + 1 /\ u[Len(cons) + 1] = Abs(x) /\ \A i \in 1 .. Len(cons) : u[i] = AbsAll(cons)[i]
  BY <1>1
<1> HIDE DEF t, u
<1>4. /\ AbsAll(t) \in Seq(ACon) /\ Len(AbsAll(t)) = Len(cons) + 1 /\ \A i \in 1 .. Len(cons) + 1 : AbsAll(t)[i] = Abs(t[i])
  BY <1>2, ConsAre
<1>5. \A i \in 1 .. Len(cons) + 1 : AbsAll(t)[i] = u[i]
  <2>1. \A i \in 1 .. Len(cons) + 1 : i = Len(cons) + 1 \/ i \in 1 .. Len(cons)
    BY <1>1
  <2>2. QED
    BY <1>1, <1>2, <1>3, <1>4, <2>1, SMTT(30)
<1>6. \A f, g \in Seq(ACon) : Len(f) = Len(g) /\ (\A j \in 1 .. Len(f) : f[j] = g[j]) => f = g
  BY SeqEqual
<1>7. AbsAll(t) = u
  BY <1>3, <1>4, <1>5, <1>6
<1>8. QED
  BY <1>7 DEF t, u

LEMMA CallsAre ==
  ASSUME NEW stk \in Seq(Act)
  PROVE  /\ Calls(stk) \in Seq(Seq(ACon)) /\ Len(Calls(stk)) = Len(stk) /\ DOMAIN Calls(stk) = 1 .. Len(stk)
         /\ \A d \in 1 .. Len(stk) : Calls(stk)[d] = AbsAll(stk[d].cons)
<1>1. DOMAIN stk = 1 .. Len(stk) /\ Len(stk) \in Nat
  OBVIOUS
<1>2. \A d \in 1 .. Len(stk) : AbsAll(stk[d].cons) \in Seq(ACon)
  <2> SUFFICES ASSUME NEW d \in 1 .. Len(stk) PROVE AbsAll(stk[d].cons) \in Seq(ACon)
    OBVIOUS
  <2>1. stk[d].cons \in Seq(Con)
    BY ActIs
  <2>2. QED
    BY <2>1, ConsAre
<1>3. Calls(stk) = [d \in 1 .. Len(stk) |-> AbsAll(stk[d].cons)]
  BY <1>1 DEF Calls
<1>4. QED
  BY <1>1, <1>2, <1>3

LEMMA CallsCut ==
  ASSUME NEW stk \in Seq(Act), NEW n \in 0 .. Len(stk)
  PROVE  Calls(SubSeq(stk, 1, n)) = SubSeq(Calls(stk), 1, n)
<1>1. /\ Calls(stk) \in Seq(Seq(ACon)) /\ Len(Calls(stk)) = Len(stk) /\ n \in 0 .. Len(Calls(stk))
      /\ \A i \in 1 .. Len(stk) : Calls(stk)[i] = AbsAll(stk[i].cons)
  BY CallsAre
<1>2. /\ SubSeq(stk, 1, n) \in Seq(Act) /\ Len(SubSeq(stk, 1, n)) = n
      /\ \A i \in 1 .. n : SubSeq(stk, 1, n)[i] = stk[i]
  BY Cut
<1>3. /\ SubSeq(Calls(stk), 1, n) \in Seq(Seq(ACon)) /\ Len(SubSeq(Calls(stk), 1, n)) = n
      /\ \A i \in 1 .. n : SubSeq(Calls(stk), 1, n)[i] = Calls(stk)[i]
  BY <1>1, Cut
<1> DEFINE t == SubSeq(stk, 1, n)
<1>4. /\ Calls(t) \in Seq(Seq(ACon)) /\ Len(Calls(t)) = n /\ \A i \in 1 .. n : Calls(t)[i] = AbsAll(t[i].cons)
  BY <1>2, CallsAre
<1>5. \A i \in 1 .. n : Calls(t)[i] = SubSeq(Calls(stk), 1, n)[i]
  <2>1. \A i \in 1 .. n : i \in 1 .. Len(stk)
    OBVIOUS
  <2>2. QED
    BY <1>1, <1>2, <1>3, <1>4, <2>1
<1>6. \A u, v \in Seq(Seq(ACon)) : Len(u) = Len(v) /\ (\A j \in 1 .. Len(u) : u[j] = v[j]) => u = v
  BY SeqEqual
<1>7. QED
  BY <1>3, <1>4, <1>5, <1>6

LEMMA CallsPut ==
  ASSUME NEW stk \in Seq(Act), NEW a \in Act
  PROVE  Calls(Append(stk, a)) = Append(Calls(stk), AbsAll(a.cons))
<1>0. a.cons \in Seq(Con)
  BY DEF Act
<1>1. /\ Calls(stk) \in Seq(Seq(ACon)) /\ Len(Calls(stk)) = Len(stk) /\ AbsAll(a.cons) \in Seq(ACon) /\ Len(stk) \in Nat
      /\ \A i \in 1 .. Len(stk) : Calls(stk)[i] = AbsAll(stk[i].cons)
  BY <1>0, CallsAre, ConsAre
<1> DEFINE t == Append(stk, a)
           u == Append(Calls(stk), AbsAll(a.cons))
<1>2. /\ t \in Seq(Act) /\ Len(t) = Len(stk) + 1 /\ t[Len(stk) + 1] = a /\ \A i \in 1 .. Len(stk) : t[i] = stk[i]
  OBVIOUS
<1>3. /\ u \in Seq(Seq(ACon)) /\ Len(u) = Len(stk) + 1 /\ u[Len(stk) + 1] = AbsAll(a.cons)
      /\ \A i \in 1 .. Len(stk) : u[i] = Calls(stk)[i]
  BY <1>1
<1> HIDE DEF t, u
<1>4. /\ Calls(t) \in Seq(Seq(ACon)) /\ Len(Calls(t)) = Len(stk) + 1 /\ \A i \in 1 .. Len(stk) + 1 : Calls(t)[i] = AbsAll(t[i].cons)
  BY <1>2, CallsAre
<1>5. \A i \in 1 .. Len(stk) + 1 : Calls(t)[i] = u[i]
  <2>1. ASSUME NEW i \in 1 .. Len(stk) PROVE Calls(t)[i] = u[i]
    <3>1. i \in 1 .. Len(stk) + 1
      BY <1>1
    <3>2. Calls(t)[i] = AbsAll(t[i].cons) /\ t[i] = stk[i] /\ u[i] = Calls(stk)[i] /\ Calls(stk)[i] = AbsAll(stk[i].cons)
      BY <1>1, <1>2, <1>3, <1>4, <3>1
    <3>3. QED
      BY <3>2
  <2>2. Calls(t)[Len(stk) + 1] = u[Len(stk) + 1]
    <3>1. Len(stk) + 1 \in 1 .. Len(stk) + 1
      BY <1>1
    <3>2. Calls(t)[Len(stk) + 1] = AbsAll(t[Len(stk) + 1].cons)
      BY <1>4, <3>1
    <3>3. t[Len(stk) + 1] = a
      BY <1>2
    <3>4. u[Len(stk) + 1] = AbsAll(a.cons)
      BY <1>3
    <3>5. QED
      BY <3>2, <3>3, <3>4
  <2>3. \A i \in 1 .. Len(stk) + 1 : i = Len(stk) + 1 \/ i \in 1 .. Len(stk)
    BY <1>1
  <2>4. QED
    BY <2>1, <2>2, <2>3
<1>6. \A f, g \in Seq(Seq(ACon)) : Len(f) = Len(g) /\ (\A j \in 1 .. Len(f) : f[j] = g[j]) => f = g
  BY SeqEqual
<1>7. Calls(t) = u
  BY <1>3, <1>4, <1>5, <1>6
<1>8. QED
  BY <1>7 DEF t, u

LEMMA CallsCutIs ==
  ASSUME NEW stk \in Seq(Act), NEW d \in 1 .. Len(stk)
  PROVE  /\ Frames!Last(SubSeq(Calls(stk), 1, d)) = AbsAll(stk[d].cons) /\ Calls(stk)[d] = AbsAll(stk[d].cons)
         /\ Frames!Front(SubSeq(Calls(stk), 1, d)) = SubSeq(Calls(stk), 1, d - 1)
<1>1. /\ Calls(stk) \in Seq(Seq(ACon)) /\ Len(Calls(stk)) = Len(stk) /\ Calls(stk)[d] = AbsAll(stk[d].cons)
  BY CallsAre
<1>2. PICK C \in Seq(Seq(ACon)) : C = Calls(stk) /\ Len(C) = Len(stk)
  BY <1>1
<1>3. d \in 0 .. Len(C) /\ d \in 1 .. d /\ d - 1 \in 0 .. d /\ d - 1 \in 0 .. Len(C) /\ d \in Nat
  BY <1>2
<1>4. /\ SubSeq(C, 1, d) \in Seq(Seq(ACon)) /\ Len(SubSeq(C, 1, d)) = d
      /\ \A j \in 1 .. d : SubSeq(C, 1, d)[j] = C[j]
  BY <1>3, Cut
<1>5. PICK S \in Seq(Seq(ACon)) : S = SubSeq(C, 1, d) /\ Len(S) = d /\ \A j \in 1 .. d : S[j] = C[j]
  BY <1>4
<1>6. Frames!Last(S) = C[d]
  BY <1>3, <1>5 DEF Frames!Last
<1>7. Frames!Front(S) = SubSeq(S, 1, d - 1)
  BY <1>5 DEF Frames!Front
<1>8. /\ SubSeq(S, 1, d - 1) \in Seq(Seq(ACon)) /\ Len(SubSeq(S, 1, d - 1)) = d - 1
      /\ \A j \in 1 .. d - 1 : SubSeq(S, 1, d - 1)[j] = S[j]
  BY <1>3, <1>5, Cut
<1>9. /\ SubSeq(C, 1, d - 1) \in Seq(Seq(ACon)) /\ Len(SubSeq(C, 1, d - 1)) = d - 1
      /\ \A j \in 1 .. d - 1 : SubSeq(C, 1, d - 1)[j] = C[j]
  BY <1>3, Cut
<1>10. \A j \in 1 .. d - 1 : SubSeq(S, 1, d - 1)[j] = SubSeq(C, 1, d - 1)[j]
  <2>1. \A j \in 1 .. d - 1 : j \in 1 .. d
    BY <1>3
  <2>2. QED
    BY <1>5, <1>8, <1>9, <2>1
<1>11. \A f, g \in Seq(Seq(ACon)) : Len(f) = Len(g) /\ (\A j \in 1 .. Len(f) : f[j] = g[j]) => f = g
  BY SeqEqual
<1>12. SubSeq(S, 1, d - 1) = SubSeq(C, 1, d - 1)
  BY <1>8, <1>9, <1>10, <1>11
<1>13. QED
  BY <1>1, <1>2, <1>5, <1>6, <1>7, <1>12

LEMMA OntoMaps ==
  ASSUME NEW stk \in Seq(Act), NEW d \in 1 .. Len(stk), NEW b \in Act
  PROVE  Calls(Onto(stk, d, b)) = Append(SubSeq(Calls(stk), 1, d - 1), AbsAll(b.cons))
<1>1. PICK n \in 0 .. Len(stk) : n = d - 1
  <2>1. d - 1 \in 0 .. Len(stk)
    OBVIOUS
  <2>2. QED
    BY <2>1
<1>2. SubSeq(stk, 1, n) \in Seq(Act) /\ Calls(SubSeq(stk, 1, n)) = SubSeq(Calls(stk), 1, n)
  BY Cut, CallsCut
<1>3. Calls(Append(SubSeq(stk, 1, n), b)) = Append(Calls(SubSeq(stk, 1, n)), AbsAll(b.cons))
  BY <1>2, CallsPut
<1>4. QED
  BY <1>1, <1>2, <1>3 DEF Onto

(* An activation that goes on in its construct i as c, or around it.       *)
LEMMA ConMaps ==
  ASSUME NEW cons \in Seq(Con), NEW i \in 1 .. Len(cons), NEW c \in Con
  PROVE  /\ SubSeq(cons, 1, i - 1) \in Seq(Con) /\ Append(SubSeq(cons, 1, i - 1), c) \in Seq(Con)
         /\ AbsAll(SubSeq(cons, 1, i - 1)) = SubSeq(AbsAll(cons), 1, i - 1)
         /\ AbsAll(Append(SubSeq(cons, 1, i - 1), c)) = Append(SubSeq(AbsAll(cons), 1, i - 1), Abs(c))
         /\ AbsAll(cons)[i] = Abs(cons[i]) /\ cons[i] \in Con
<1>1. PICK n \in 0 .. Len(cons) : n = i - 1
  <2>1. i - 1 \in 0 .. Len(cons)
    OBVIOUS
  <2>2. QED
    BY <2>1
<1>2. SubSeq(cons, 1, n) \in Seq(Con) /\ AbsAll(SubSeq(cons, 1, n)) = SubSeq(AbsAll(cons), 1, n)
  BY Cut, ConsCut
<1>3. Append(SubSeq(cons, 1, n), c) \in Seq(Con) /\ AbsAll(Append(SubSeq(cons, 1, n), c)) = Append(AbsAll(SubSeq(cons, 1, n)), Abs(c))
  <2>1. PICK s \in Seq(Con) : s = SubSeq(cons, 1, n)
    BY <1>2
  <2>2. AbsAll(Append(s, c)) = Append(AbsAll(s), Abs(c)) /\ Append(s, c) \in Seq(Con)
    BY ConsPut
  <2>3. QED
    BY <2>1, <2>2
<1>4. AbsAll(cons)[i] = Abs(cons[i]) /\ cons[i] \in Con
  <2>1. i \in DOMAIN cons /\ cons[i] \in Con
    OBVIOUS
  <2>2. QED
    BY <2>1, ConsAre
<1>5. QED
  BY <1>1, <1>2, <1>3, <1>4

LEMMA CleanupMaps ==
  ASSUME acts \in Seq(Act), NEW d \in 1 .. Len(acts), NEW i \in 1 .. Len(acts[d].cons),
         NEW b \in Act, b.cons = acts[d].cons, NEW frames,
         Frames!Cleanup(SubSeq(acts, 1, d - 1), b, i, frames),
         NEW cs, cs = SubSeq(Calls(acts), 1, d), NEW p, p = Frames!Slots(b)
  PROVE  Frames!Structured!Leave(cs, i, p) /\ end' = end
<1> DEFINE cons == acts[d].cons
           c == cons[i]
           x == [c EXCEPT !.at = "fin", !.pend = Frames!Slots(b)]
<1>1. cons \in Seq(Con) /\ c \in Con
  BY ActIs
<1>2. Frames!Slots(b) \in Pend
  BY SlotsAre
<1>3. x \in Con
  BY <1>1, <1>2 DEF Con
<1>4. Abs(x) = [Abs(c) EXCEPT !.at = "fin", !.pend = Frames!Slots(b)] /\ Abs(c).fin = c.fin
  BY <1>1, <1>2, AbsIs
<1> HIDE DEF x
<1>5. /\ SubSeq(cons, 1, i - 1) \in Seq(Con) /\ Append(SubSeq(cons, 1, i - 1), x) \in Seq(Con)
      /\ AbsAll(SubSeq(cons, 1, i - 1)) = SubSeq(AbsAll(cons), 1, i - 1)
      /\ AbsAll(Append(SubSeq(cons, 1, i - 1), x)) = Append(SubSeq(AbsAll(cons), 1, i - 1), Abs(x))
      /\ AbsAll(cons)[i] = Abs(c)
  BY <1>1, <1>3, ConMaps
<1>6. Frames!Last(cs) = AbsAll(cons) /\ Frames!Front(cs) = SubSeq(Calls(acts), 1, d - 1)
  BY CallsCutIs
<1>7. end' = end /\ b.cons[i] = c
  BY DEF Frames!Cleanup
<1>8. CASE c.fin
  <2>1. PICK t : t = [b EXCEPT !.cons = Append(SubSeq(cons, 1, i - 1), x)]
    OBVIOUS
  <2>2. t \in Act /\ t.cons = Append(SubSeq(cons, 1, i - 1), x)
    BY <1>5, <2>1 DEF Act
  <2>3. acts' = Onto(acts, d, t) /\ excPc' = "user"
    BY <1>7, <1>8, <2>1 DEF Frames!Cleanup, Onto, x
  <2>4. Calls(acts') = Append(SubSeq(Calls(acts), 1, d - 1), Append(SubSeq(AbsAll(cons), 1, i - 1), Abs(x)))
    BY <1>5, <2>2, <2>3, OntoMaps
  <2>5. Comp(acts', excPc') = Frames!Normal
    BY <2>3 DEF Comp
  <2>6. Frames!Last(cs)[i].fin /\ Abs(x) = [Frames!Last(cs)[i] EXCEPT !.at = "fin", !.pend = Frames!Slots(b)]
    BY <1>4, <1>5, <1>6, <1>8
  <2> HIDE DEF cons, c
  <2>7. Frames!Structured!Leave(cs, i, p)
    BY <1>6, <2>4, <2>5, <2>6, LeaveIs
  <2>8. QED
    BY <1>7, <2>7
<1>9. CASE ~c.fin
  <2>1. PICK t : t = [b EXCEPT !.cons = SubSeq(cons, 1, i - 1)]
    OBVIOUS
  <2>2. t \in Act /\ t.cons = SubSeq(cons, 1, i - 1) /\ Frames!Slots(t) = Frames!Slots(b)
    BY <1>5, <2>1 DEF Act, Frames!Slots
  <2>3. acts' = Onto(acts, d, t) /\ excPc' = "dispatch"
    BY <1>7, <1>9, <2>1 DEF Frames!Cleanup, Onto
  <2>4. Calls(acts') = Append(SubSeq(Calls(acts), 1, d - 1), SubSeq(AbsAll(cons), 1, i - 1))
    BY <1>5, <2>2, <2>3, OntoMaps
  <2>5. Comp(acts', excPc') = Frames!Slots(b)
    <3>1. Frames!Last(acts') = t
      BY <2>2, <2>3, OntoIs
    <3>2. QED
      BY <2>2, <2>3, <3>1 DEF Comp
  <2>6. ~Frames!Last(cs)[i].fin
    BY <1>4, <1>5, <1>6, <1>9
  <2> HIDE DEF cons, c
  <2>7. Frames!Structured!Leave(cs, i, p)
    BY <1>6, <2>4, <2>5, <2>6, LeaveIs
  <2>8. QED
    BY <1>7, <2>7
<1>10. QED
  BY <1>8, <1>9

LEMMA InnerMax ==
  ASSUME NEW n \in Nat, NEW S \in SUBSET (1 .. n), NEW m \in S, \A y \in S : y <= m
  PROVE  Frames!Inner(S) = m
<1>1. Frames!Inner(S) \in 0 .. n /\ Frames!Inner(S) \in S /\ m <= Frames!Inner(S)
  BY InnerIs
<1>2. Frames!Inner(S) <= m /\ m \in Nat /\ Frames!Inner(S) \in Nat
  BY <1>1
<1>3. QED
  BY <1>1, <1>2

(* What the abstract program sees of the activation on top.                *)
LEMMA TopMaps ==
  ASSUME FramesInv, end = "run"
  PROVE  /\ Frames!Structured!top = AbsAll(Frames!top.cons) /\ Frames!Structured!OpenTries(Frames!Structured!top) = Frames!OpenTries(Frames!top.cons)
         /\ Frames!Structured!Inner(Frames!Structured!OpenTries(Frames!Structured!top)) = Frames!InnerTry(Frames!top.cons)
         /\ Frames!Structured!InnerLoop(Frames!Structured!top) = Frames!Inner(Frames!Loops(Frames!top.cons))
         /\ Len(Calls(acts)) = Len(acts) /\ Frames!Front(Calls(acts)) = Calls(Frames!Front(acts))
         /\ Frames!Front(Calls(acts)) = SubSeq(Calls(acts), 1, Len(acts) - 1)
         /\ SubSeq(Calls(acts), 1, Len(acts)) = Calls(acts)
         /\ \A S : Frames!Structured!Inner(S) = Frames!Inner(S)
<1>1. /\ acts \in Seq(Act) /\ acts # <<>> /\ Len(acts) \in 1 .. Len(acts) /\ Len(acts) \in Nat
      /\ Frames!top = acts[Len(acts)] /\ Frames!Front(acts) = SubSeq(acts, 1, Len(acts) - 1) /\ Frames!top.cons \in Seq(Con)
  BY TopIs
<1>2. Len(acts) - 1 \in 0 .. Len(acts)
  BY <1>1
<1>3. /\ Calls(acts) \in Seq(Seq(ACon)) /\ Len(Calls(acts)) = Len(acts)
  BY <1>1, CallsAre
<1>4. SubSeq(Calls(acts), 1, Len(acts)) = Calls(acts)
  BY <1>3, WholeIs
<1>5. /\ Frames!Last(SubSeq(Calls(acts), 1, Len(acts))) = AbsAll(acts[Len(acts)].cons)
      /\ Frames!Front(SubSeq(Calls(acts), 1, Len(acts))) = SubSeq(Calls(acts), 1, Len(acts) - 1)
  BY <1>1, CallsCutIs
<1>6. Calls(Frames!Front(acts)) = SubSeq(Calls(acts), 1, Len(acts) - 1)
  BY <1>1, <1>2, CallsCut
<1>7. Frames!Structured!top = AbsAll(Frames!top.cons)
  BY <1>1, <1>4, <1>5, LoopsAre
<1>8. \A S : Frames!Structured!Inner(S) = Frames!Inner(S)
  BY InnerAre
<1>9. /\ Frames!OpenTries(AbsAll(Frames!top.cons)) = Frames!OpenTries(Frames!top.cons) /\ Frames!Loops(AbsAll(Frames!top.cons)) = Frames!Loops(Frames!top.cons)
  BY <1>1, ConsAre
<1>10. Frames!Structured!OpenTries(Frames!Structured!top) = Frames!OpenTries(Frames!top.cons)
  BY <1>7, <1>9, TriesAre
<1>11. Frames!Structured!InnerLoop(Frames!Structured!top) = Frames!Inner(Frames!Loops(Frames!top.cons))
  BY <1>7, <1>9, LoopsAre
<1>12. QED
  BY <1>3, <1>4, <1>5, <1>6, <1>7, <1>8, <1>10, <1>11 DEF Frames!InnerTry

LEMMA ThrowAims ==
  ASSUME acts \in Seq(Act), NEW d \in 1 .. Len(acts), Frames!OpenTries(acts[d].cons) # {},
         \A e \in 1 .. Len(acts) : e > d => Frames!OpenTries(acts[e].cons) = {}
  PROVE  /\ Frames!Structured!Inner({a \in DOMAIN Calls(acts) : Frames!Structured!OpenTries(Calls(acts)[a]) # {}}) = d
         /\ Frames!Structured!Inner(Frames!Structured!OpenTries(Calls(acts)[d])) = Frames!InnerTry(acts[d].cons)
<1> DEFINE S == {a \in DOMAIN Calls(acts) : Frames!Structured!OpenTries(Calls(acts)[a]) # {}}
<1>1. /\ DOMAIN Calls(acts) = 1 .. Len(acts) /\ \A e \in 1 .. Len(acts) : Calls(acts)[e] = AbsAll(acts[e].cons)
  BY CallsAre
<1>2. ASSUME NEW e \in 1 .. Len(acts) PROVE Frames!Structured!OpenTries(Calls(acts)[e]) = Frames!OpenTries(acts[e].cons)
  <2>1. acts[e].cons \in Seq(Con)
    BY ActIs
  <2>2. Frames!OpenTries(AbsAll(acts[e].cons)) = Frames!OpenTries(acts[e].cons)
    BY <2>1, ConsAre
  <2>3. QED
    BY <1>1, <2>2, TriesAre
<1>3. S \in SUBSET (1 .. Len(acts)) /\ d \in S
  BY <1>1, <1>2
<1>4. \A e \in S : e <= d
  <2>1. \A e \in S : e \in 1 .. Len(acts) /\ ~(e > d)
    BY <1>1, <1>2
  <2>2. QED
    BY <2>1
<1> HIDE DEF S
<1>5. Frames!Inner(S) = d
  <2>1. Len(acts) \in Nat
    OBVIOUS
  <2>2. QED
    BY <1>3, <1>4, <2>1, InnerMax
<1>6. \A T : Frames!Structured!Inner(T) = Frames!Inner(T)
  BY InnerAre
<1>7. QED
  BY <1>2, <1>5, <1>6 DEF S, Frames!InnerTry

LEMMA NoTry ==
  ASSUME acts \in Seq(Act), \A e \in 1 .. Len(acts) : Frames!OpenTries(acts[e].cons) = {}
  PROVE  Frames!Structured!Inner({a \in DOMAIN Calls(acts) : Frames!Structured!OpenTries(Calls(acts)[a]) # {}}) = 0
<1>1. /\ DOMAIN Calls(acts) = 1 .. Len(acts) /\ \A e \in 1 .. Len(acts) : Calls(acts)[e] = AbsAll(acts[e].cons)
  BY CallsAre
<1>2. ASSUME NEW e \in 1 .. Len(acts) PROVE Frames!Structured!OpenTries(Calls(acts)[e]) = {}
  <2>1. acts[e].cons \in Seq(Con)
    BY ActIs
  <2>2. Frames!OpenTries(AbsAll(acts[e].cons)) = Frames!OpenTries(acts[e].cons)
    BY <2>1, ConsAre
  <2>3. QED
    BY <1>1, <2>2, TriesAre
<1>3. {a \in DOMAIN Calls(acts) : Frames!Structured!OpenTries(Calls(acts)[a]) # {}} = {}
  BY <1>1, <1>2
<1>4. Frames!Inner({}) = 0
  BY DEF Frames!Inner
<1>5. QED
  BY <1>3, <1>4, InnerAre

(* The only clause, or the first of several if it matches.                 *)
LEMMA FirstClause ==
  ASSUME NEW catches \in Clauses, NEW v, Len(catches) <= 1 \/ v \in catches[1],
         NEW k, k = Frames!Reached(catches, v)
  PROVE  /\ k \in Nat
         /\ k > 0 => k = 1 /\ v \in catches[1] /\ 1 \in DOMAIN catches
         /\ ~(k > 0) => \A j \in DOMAIN catches : v \notin catches[j]
         /\ DOMAIN catches \subseteq Nat \ {0}
<1>1. /\ DOMAIN catches = 1 .. Len(catches) /\ Len(catches) \in Nat
      /\ catches = <<>> <=> Len(catches) = 0
  BY DEF Clauses
<1>2. CASE catches = <<>>
  BY <1>1, <1>2 DEF Frames!Reached
<1>3. CASE catches # <<>>
  <2>1. 1 \in DOMAIN catches /\ (Len(catches) <= 1 => \A j \in DOMAIN catches : j = 1)
    BY <1>1, <1>3
  <2>2. QED
    BY <1>1, <1>3, <2>1 DEF Frames!Reached
<1>4. QED
  BY <1>2, <1>3

LEMMA HaoThrowMaps ==
  ASSUME PlainProgram, FramesInv, end = "run", NoCatch(acts), NEW v \in Value, Frames!HaoThrow(v)
  PROVE  Frames!Structured!Thrown(v)
<1>0. acts \in Seq(Act) /\ exc \in Seq(ExcFrame) /\ FramesSound(acts, exc)
  BY TopIs
<1>1. CASE exc = <<>>
  <2>1. end' = "uncaught" /\ UNCHANGED <<acts, exc, shadow, excPc, nextId>>
    BY <1>1 DEF Frames!HaoThrow
  <2>2. \A e \in 1 .. Len(acts) : Frames!OpenTries(acts[e].cons) = {}
    BY <1>0, <1>1, NoFrame
  <2>3. Frames!Structured!Inner({a \in DOMAIN Calls(acts) : Frames!Structured!OpenTries(Calls(acts)[a]) # {}}) = 0
    BY <1>0, <2>2, NoTry
  <2>4. Calls(acts') = Calls(acts) /\ Comp(acts', excPc') = Comp(acts, excPc)
    BY <2>1
  <2>5. QED
    BY <2>1, <2>3, <2>4, NobodyCatches
<1>2. CASE exc # <<>>
  <2>1. PICK f : f = Frames!Last(exc)
    OBVIOUS
  <2>2. /\ f.act \in 1 .. Len(acts) /\ f.con \in 1 .. Len(acts[f.act].cons)
        /\ f.con = Frames!InnerTry(acts[f.act].cons)
        /\ IsBody(acts, f.act, f.con) /\ acts[f.act] \in Act
        /\ f.depthAtEnter = Len(exc) - 1
        /\ \A e \in 1 .. Len(acts) : e > f.act => Frames!OpenTries(acts[e].cons) = {}
    BY <1>2, <2>1, ThrowLands
  <2>3. PICK d \in 1 .. Len(acts) : d = f.act
    BY <2>2
  <2>4. PICK i \in 1 .. Len(acts[d].cons) : i = f.con
    BY <2>2, <2>3
  <2>5. PICK a : a = [acts[d] EXCEPT !.root = v]
    OBVIOUS
  <2>6. a \in Act /\ a.cons = acts[d].cons /\ acts[d].cons \in Seq(Con) /\ acts[d].cons[i] \in Con
    <3>1. acts[d] \in Act /\ acts[d].cons \in Seq(Con) /\ DOMAIN acts[d].cons = 1 .. Len(acts[d].cons)
          /\ \A j \in DOMAIN acts[d].cons : acts[d].cons[j] \in Con
      BY <1>0, ActIs
    <3>2. a \in Act /\ a.cons = acts[d].cons
      BY <2>5, <3>1 DEF Act
    <3>3. QED
      BY <3>1, <3>2
  <2>15. PICK k : k = Frames!Reached(a.cons[i].catches, v)
    OBVIOUS
  <2>7. IF k > 0
        THEN /\ acts' = Onto(acts, d, Frames!Caught(a, i, k))
             /\ exc' = SubSeq(exc, 1, Len(exc) - 1) /\ excPc' = "user"
             /\ UNCHANGED <<shadow, nextId, end>>
        ELSE Frames!Cleanup(SubSeq(acts, 1, d - 1), [Frames!WithRet(a, v) EXCEPT !.reason = 4], i, SubSeq(exc, 1, Len(exc) - 1))
    BY <1>2, <2>1, <2>2, <2>3, <2>4, <2>5, <2>15 DEF Frames!HaoThrow, Onto
  <2>16. Len(a.cons[i].catches) <= 1 \/ v \in a.cons[i].catches[1]
    BY <1>2, <2>1, <2>2, <2>3, <2>4, <2>5 DEF Frames!HaoThrow, PlainProgram
  <2>17. /\ k \in Nat
         /\ k > 0 => k = 1 /\ v \in a.cons[i].catches[1] /\ 1 \in DOMAIN a.cons[i].catches
         /\ ~(k > 0) => \A j \in DOMAIN a.cons[i].catches : v \notin a.cons[i].catches[j]
         /\ DOMAIN a.cons[i].catches \subseteq Nat \ {0}
    <3>1. a.cons[i].catches \in Clauses
      BY <2>6 DEF Con
    <3>2. QED
      BY <2>15, <2>16, <3>1, FirstClause
  <2>8. d > 0
    OBVIOUS
  <2>9. IsBody(acts, d, i) /\ i = Frames!InnerTry(acts[d].cons) /\ i \in Frames!OpenTries(acts[d].cons)
        /\ \A e \in 1 .. Len(acts) : e > d => Frames!OpenTries(acts[e].cons) = {}
    BY <1>0, <2>2, <2>3, <2>4, OpenIsBody
  <2>10. /\ Frames!Structured!Inner({e \in DOMAIN Calls(acts) : Frames!Structured!OpenTries(Calls(acts)[e]) # {}}) = d
         /\ Frames!Structured!Inner(Frames!Structured!OpenTries(Calls(acts)[d])) = i
    BY <1>0, <2>9, ThrowAims
  <2>11. /\ Calls(acts)[d] = AbsAll(acts[d].cons) /\ AbsAll(acts[d].cons)[i] = Abs(acts[d].cons[i])
         /\ Abs(acts[d].cons[i]).at = acts[d].cons[i].at /\ Abs(acts[d].cons[i]).catches = acts[d].cons[i].catches
         /\ acts[d].cons[i].at = "body"
         /\ Abs([acts[d].cons[i] EXCEPT !.at = "catch", !.clause = k]) = [Abs(acts[d].cons[i]) EXCEPT !.at = "catch", !.clause = k]
    <3>1. Calls(acts)[d] = AbsAll(acts[d].cons)
      BY <1>0, CallsAre
    <3>2. AbsAll(acts[d].cons)[i] = Abs(acts[d].cons[i])
      BY <2>6, ConMaps
    <3>3. /\ Abs(acts[d].cons[i]).at = acts[d].cons[i].at /\ Abs(acts[d].cons[i]).catches = acts[d].cons[i].catches
          /\ Abs([acts[d].cons[i] EXCEPT !.at = "catch", !.clause = k]) = [Abs(acts[d].cons[i]) EXCEPT !.at = "catch", !.clause = k]
      BY <2>6, <2>17, AbsIs
    <3>4. acts[d].cons[i].at = "body"
      BY <2>9 DEF IsBody
    <3>5. QED
      BY <3>1, <3>2, <3>3, <3>4
  <2>12. CASE k > 0
    <3>1. PICK b : b = Frames!Caught(a, i, k)
      OBVIOUS
    <3>2. PICK c : c = [acts[d].cons[i] EXCEPT !.at = "catch", !.clause = k]
      OBVIOUS
    <3>3. c \in Con
      BY <2>6, <2>17, <3>2 DEF Con
    <3>4. /\ Append(SubSeq(acts[d].cons, 1, i - 1), c) \in Seq(Con)
          /\ AbsAll(Append(SubSeq(acts[d].cons, 1, i - 1), c)) = Append(SubSeq(AbsAll(acts[d].cons), 1, i - 1), Abs(c))
      BY <2>6, <3>3, ConMaps
    <3>5. b = [a EXCEPT !.reason = 0, !.cons = Append(SubSeq(acts[d].cons, 1, i - 1), c)]
      BY <2>6, <3>1, <3>2 DEF Frames!Caught
    <3>6. b \in Act /\ b.cons = Append(SubSeq(acts[d].cons, 1, i - 1), c)
      <4>1. PICK s \in Seq(Con) : s = Append(SubSeq(acts[d].cons, 1, i - 1), c)
        BY <3>4
      <4>2. b = [a EXCEPT !.reason = 0, !.cons = s] /\ a \in Act
        BY <2>6, <3>5, <4>1
      <4>5. /\ a.ret \in Value /\ a.stop \in Nat /\ a.root \in Value /\ a.wm \in Nat
            /\ a = [cons |-> a.cons, reason |-> a.reason, ret |-> a.ret, stop |-> a.stop, root |-> a.root, wm |-> a.wm]
        BY <4>2 DEF Act
      <4>6. b = [cons |-> s, reason |-> 0, ret |-> a.ret, stop |-> a.stop, root |-> a.root, wm |-> a.wm]
        BY <4>2, <4>5
      <4>3. b \in Act /\ b.cons = s
        BY <4>1, <4>5, <4>6 DEF Act
      <4>4. QED
        BY <4>1, <4>3
    <3>7. acts' = Onto(acts, d, b) /\ excPc' = "user" /\ end' = end
      BY <2>7, <2>12, <3>1
    <3>8. Calls(acts') = Append(SubSeq(Calls(acts), 1, d - 1), AbsAll(b.cons))
      BY <1>0, <3>6, <3>7, OntoMaps
    <3>9. Calls(acts') = Append(SubSeq(Calls(acts), 1, d - 1),
                             Append(SubSeq(Calls(acts)[d], 1, i - 1), [Calls(acts)[d][i] EXCEPT !.at = "catch", !.clause = k]))
      BY <2>11, <3>2, <3>4, <3>6, <3>8
    <3>10. Comp(acts', excPc') = Frames!Normal
      BY <3>7 DEF Comp
    <3>11. /\ Calls(acts)[d][i].at = "body" /\ k \in Frames!Structured!Matching(Calls(acts)[d][i], v)
           /\ \A j \in Frames!Structured!Matching(Calls(acts)[d][i], v) : k <= j
      <4>1. Calls(acts)[d][i].at = "body" /\ Calls(acts)[d][i].catches = a.cons[i].catches
        BY <2>6, <2>11
      <4>2. \A j \in Nat \ {0} : 1 <= j
        OBVIOUS
      <4>3. QED
        BY <2>12, <2>17, <4>1, <4>2 DEF Frames!Structured!Matching
    <3>12. QED
      BY <2>8, <2>10, <3>7, <3>9, <3>10, <3>11, SomebodyCatches
  <2>13. CASE ~(k > 0)
    <3>1. PICK b : b = Leaving(a, v, 4)
      OBVIOUS
    <3>2. b \in Act /\ b.cons = acts[d].cons /\ Frames!Slots(b) = [k |-> "throw", v |-> v]
      <4>1. 4 \in 0 .. 4
        OBVIOUS
      <4>2. b \in Act /\ b.cons = a.cons /\ b.reason = 4 /\ b.ret = v
        <5>1. a \in Act
          BY <2>6
        <5>2. QED
          BY <3>1, <4>1, <5>1, SlotsPut, ZenonT(30)
      <4>4. b.cons = acts[d].cons
        BY <2>6, <4>2
      <4>3. QED
        BY <4>2, <4>4, KindIs DEF Frames!Slots
    <3>3. Frames!Cleanup(SubSeq(acts, 1, d - 1), b, i, SubSeq(exc, 1, Len(exc) - 1))
      BY <2>7, <2>13, <3>1 DEF Leaving
    <3>4. PICK cs : cs = SubSeq(Calls(acts), 1, d)
      OBVIOUS
    <3>5. Frames!Structured!Leave(cs, i, [k |-> "throw", v |-> v]) /\ end' = end
      BY <1>0, <3>2, <3>3, <3>4, CleanupMaps
    <3>6. ~(Calls(acts)[d][i].at = "body" /\ Frames!Structured!Matching(Calls(acts)[d][i], v) # {})
      <4>1. Calls(acts)[d][i].catches = a.cons[i].catches
        BY <2>6, <2>11
      <4>2. QED
        BY <2>13, <2>17, <4>1 DEF Frames!Structured!Matching
    <3>7. QED
      BY <2>8, <2>10, <3>4, <3>5, <3>6, ThrowPasses
  <2>14. QED
    BY <2>12, <2>13
<1>3. QED
  BY <1>1, <1>2

(* The innermost try of the activation on top is left.                     *)
LEMMA TopLeaves ==
  ASSUME FramesInv, end = "run", Frames!InnerTry(Frames!top.cons) > 0, NEW b \in Act, b.cons = Frames!top.cons,
         Frames!Cleanup(Frames!Front(acts), b, Frames!InnerTry(Frames!top.cons), exc), NEW cs, cs = Calls(acts), NEW p, p = Frames!Slots(b),
         NEW i, i = Frames!InnerTry(Frames!top.cons)
  PROVE  Frames!Structured!Leave(cs, i, p) /\ end' = end
<1>1. /\ acts \in Seq(Act) /\ Len(acts) \in 1 .. Len(acts) /\ Frames!top = acts[Len(acts)]
      /\ Frames!Front(acts) = SubSeq(acts, 1, Len(acts) - 1)
  BY TopIs
<1>2. PICK d \in 1 .. Len(acts) : d = Len(acts)
  BY <1>1
<1>3. i \in 1 .. Len(acts[d].cons)
  BY <1>1, <1>2, InnermostIs
<1>4. b.cons = acts[d].cons /\ Frames!Cleanup(SubSeq(acts, 1, d - 1), b, i, exc)
  BY <1>1, <1>2
<1>5. cs = SubSeq(Calls(acts), 1, d)
  BY <1>2, TopMaps
<1>6. QED
  BY <1>1, <1>3, <1>4, <1>5, CleanupMaps

LEMMA ThrowInside ==
  ASSUME FramesInv, end = "run", NEW v \in Value, Frames!InCatch(Frames!top.cons),
         Frames!Cleanup(Frames!Front(acts), Leaving(Frames!top, v, 4), Frames!InnerTry(Frames!top.cons), exc)
  PROVE  Frames!Structured!Thrown(v)
<1>1. /\ acts \in Seq(Act) /\ exc \in Seq(ExcFrame) /\ FramesSound(acts, exc) /\ ActsSound(acts, excPc) /\ acts # <<>>
      /\ Len(acts) \in 1 .. Len(acts) /\ Frames!top = acts[Len(acts)] /\ Len(acts) \in Nat
      /\ Frames!top \in Act /\ Frames!top.cons \in Seq(Con) /\ Orderly(Frames!top) /\ DOMAIN Frames!top.cons = 1 .. Len(Frames!top.cons)
      /\ \A j \in DOMAIN Frames!top.cons : Frames!top.cons[j] \in Con
  BY TopIs
<1>2. Frames!InnerTry(Frames!top.cons) > 0
  <2>1. PICK j \in DOMAIN Frames!top.cons : Frames!top.cons[j].at = "catch"
    BY DEF Frames!InCatch
  <2>2. Frames!top.cons[j].kind = "try"
    BY <1>1, <2>1 DEF Orderly, Con
  <2>3. j \in Frames!OpenTries(Frames!top.cons)
    BY <2>1, <2>2 DEF Frames!OpenTries
  <2>4. Frames!InnerTry(Frames!top.cons) \in 0 .. Len(Frames!top.cons) /\ Frames!InnerTry(Frames!top.cons) # 0 /\ Len(Frames!top.cons) \in Nat
    BY <1>1, <2>3, TriesIs
  <2>5. QED
    BY <2>4
<1>3. PICK d \in 1 .. Len(acts) : d = Len(acts)
  BY <1>1
<1>4. PICK i \in 1 .. Len(Frames!top.cons) : i = Frames!InnerTry(Frames!top.cons) /\ i \in Frames!OpenTries(Frames!top.cons)
  BY <1>2, InnermostIs
<1>5. Frames!top.cons[i].at # "body"
  <2>1. Frames!top.cons[i].at = "body" => NoCatch(acts)
    BY <1>1, <1>2, <1>4, TopFrame
  <2>2. ~NoCatch(acts)
    BY <1>1 DEF NoCatch
  <2>3. QED
    BY <2>1, <2>2
<1>6. /\ Frames!Structured!Inner({e \in DOMAIN Calls(acts) : Frames!Structured!OpenTries(Calls(acts)[e]) # {}}) = d
      /\ Frames!Structured!Inner(Frames!Structured!OpenTries(Calls(acts)[d])) = i
  <2>1. Frames!OpenTries(acts[d].cons) # {} /\ i = Frames!InnerTry(acts[d].cons)
    BY <1>1, <1>3, <1>4
  <2>2. \A e \in 1 .. Len(acts) : ~(e > d)
    BY <1>1, <1>3
  <2>3. QED
    BY <1>1, <2>1, <2>2, ThrowAims
<1>7. Calls(acts)[d][i].at # "body"
  <2>1. Calls(acts)[d] = AbsAll(acts[d].cons)
    BY <1>1, CallsAre
  <2>2. AbsAll(Frames!top.cons)[i] = Abs(Frames!top.cons[i])
    BY <1>1, ConsAre
  <2>3. Abs(Frames!top.cons[i]).at = Frames!top.cons[i].at
    BY <1>1, AbsIs
  <2>4. QED
    BY <1>1, <1>3, <1>5, <2>1, <2>2, <2>3
<1>8. PICK b : b = Leaving(Frames!top, v, 4)
  OBVIOUS
<1>9. b \in Act /\ b.cons = Frames!top.cons /\ Frames!Slots(b) = [k |-> "throw", v |-> v]
  <2>1. 4 \in 0 .. 4
    OBVIOUS
  <2>2. b \in Act /\ b.cons = Frames!top.cons /\ b.reason = 4 /\ b.ret = v
    BY <1>1, <1>8, <2>1, SlotsPut, ZenonT(30)
  <2>3. QED
    BY <2>2, KindIs DEF Frames!Slots
<1>10. PICK cs : cs = Calls(acts)
  OBVIOUS
<1>11. Frames!Structured!Leave(cs, i, [k |-> "throw", v |-> v]) /\ end' = end
  <2>1. Frames!Cleanup(Frames!Front(acts), b, Frames!InnerTry(Frames!top.cons), exc)
    BY <1>8
  <2>2. QED
    BY <1>2, <1>4, <1>9, <1>10, <2>1, TopLeaves
<1>12. cs = SubSeq(Calls(acts), 1, d) /\ d > 0
  BY <1>3, <1>10, TopMaps
<1>13. QED
  BY <1>6, <1>7, <1>11, <1>12, ThrowPasses

---------------------------------------------------------------------------
(* Every action is a step of the abstract program.                         *)

LEMMA PutMaps ==
  ASSUME FramesInv, end = "run", NEW b \in Act, acts' = Append(Frames!Front(acts), b)
  PROVE  Calls(acts') = Append(Frames!Front(Calls(acts)), AbsAll(b.cons))
<1>1. /\ acts \in Seq(Act) /\ Len(acts) \in 1 .. Len(acts) /\ Frames!Front(acts) = SubSeq(acts, 1, Len(acts) - 1)
  BY TopIs
<1>2. acts' = Append(Frames!Front(acts), b)
  OBVIOUS
<1>3. PICK d \in 1 .. Len(acts) : d = Len(acts)
  BY <1>1
<1>4. acts' = Onto(acts, d, b)
  BY <1>1, <1>2, <1>3 DEF Onto
<1>5. Calls(acts') = Append(SubSeq(Calls(acts), 1, d - 1), AbsAll(b.cons))
  BY <1>1, <1>4, OntoMaps
<1>6. Frames!Front(Calls(acts)) = SubSeq(Calls(acts), 1, Len(acts) - 1)
  BY TopMaps
<1>7. QED
  BY <1>2, <1>3, <1>5, <1>6

LEMMA StayMaps ==
  ASSUME FramesInv, end = "run", NEW b \in Act, Frames!Stay(b)
  PROVE  Calls(acts') = Append(Frames!Front(Calls(acts)), AbsAll(b.cons)) /\ end' = end
  BY PutMaps DEF Frames!Stay

LEMMA NoneOpen ==
  ASSUME FramesInv, end = "run"
  PROVE  /\ Frames!InnerTry(Frames!top.cons) \in 0 .. Len(Frames!top.cons) /\ Frames!InnerTry(Frames!top.cons) \in Nat
         /\ ~(Frames!InnerTry(Frames!top.cons) > 0) <=> Frames!OpenTries(Frames!top.cons) = {}
<1>1. Frames!top.cons \in Seq(Con)
  BY TopIs
<1>2. Frames!InnerTry(Frames!top.cons) \in 0 .. Len(Frames!top.cons) /\ Len(Frames!top.cons) \in Nat /\ (Frames!InnerTry(Frames!top.cons) = 0 <=> Frames!OpenTries(Frames!top.cons) = {})
  BY <1>1, TriesIs
<1>3. QED
  BY <1>2

(* A function returns: with no try open the activation goes.               *)
LEMMA RetMaps ==
  ASSUME FramesInv, end = "run", NEW v, Frames!OpenTries(Frames!top.cons) = {}, Frames!Ret
  PROVE  Frames!Structured!Returned(v)
<1>1. /\ acts \in Seq(Act) /\ Len(acts) \in Nat /\ Len(acts) \in 1 .. Len(acts)
  BY TopIs
<1>2. acts' = Frames!Front(acts) /\ excPc' = "user" /\ end' = IF Len(acts) = 1 THEN "done" ELSE end
  BY DEF Frames!Ret
<1>3. Calls(acts') = Frames!Front(Calls(acts))
  BY <1>2, TopMaps
<1>4. Comp(acts', excPc') = Frames!Normal
  BY <1>2 DEF Comp
<1>5. ~(Frames!Structured!Inner(Frames!Structured!OpenTries(Frames!Structured!top)) > 0)
  <2>1. Frames!Structured!Inner(Frames!Structured!OpenTries(Frames!Structured!top)) = Frames!InnerTry(Frames!top.cons)
    BY TopMaps
  <2>2. ~(Frames!InnerTry(Frames!top.cons) > 0)
    BY NoneOpen
  <2>3. QED
    BY <2>1, <2>2
<1>6. end' = IF Len(Calls(acts)) = 1 THEN "done" ELSE end
  <2>1. Len(Calls(acts)) = Len(acts)
    BY TopMaps
  <2>2. QED
    BY <1>2, <2>1
<1>7. QED
  BY <1>3, <1>4, <1>5, <1>6, ReturnEnds

(* A return inside a try goes to its cleanup.                              *)
LEMMA ReturnMaps ==
  ASSUME FramesInv, end = "run", Frames!InnerTry(Frames!top.cons) > 0, NEW v, NEW b \in Act, b.cons = Frames!top.cons,
         Frames!Slots(b) = [k |-> "return", v |-> v], Frames!Cleanup(Frames!Front(acts), b, Frames!InnerTry(Frames!top.cons), exc)
  PROVE  Frames!Structured!Returned(v)
<1>1. PICK i : i = Frames!InnerTry(Frames!top.cons)
  OBVIOUS
<1>2. PICK cs : cs = Calls(acts)
  OBVIOUS
<1>3. Frames!Structured!Leave(cs, i, [k |-> "return", v |-> v]) /\ end' = end
  BY <1>1, <1>2, TopLeaves
<1>4. i = Frames!Structured!Inner(Frames!Structured!OpenTries(Frames!Structured!top)) /\ i > 0
  BY <1>1, TopMaps
<1>5. QED
  BY <1>2, <1>3, <1>4, ReturnPasses

(* A jump with every open try around the loop.                             *)
LEMMA JumpMaps ==
  ASSUME FramesInv, end = "run", NEW a \in Act, a.cons = Frames!top.cons, NEW k,
         Frames!Loops(Frames!top.cons) # {}, \A j \in Frames!OpenTries(Frames!top.cons) : j < Frames!Inner(Frames!Loops(Frames!top.cons)), Frames!Jump(a, k)
  PROVE  Frames!Structured!Jumped(k)
<1>1. /\ Frames!top \in Act /\ Frames!top.cons \in Seq(Con) /\ DOMAIN Frames!top.cons = 1 .. Len(Frames!top.cons) /\ Len(Frames!top.cons) \in Nat
  BY TopIs
<1>2. PICK l \in 1 .. Len(Frames!top.cons) : l = Frames!Inner(Frames!Loops(Frames!top.cons))
  BY <1>1, TriesIs DEF Frames!Loops
<1>3. PICK n \in 0 .. Len(Frames!top.cons) : n = IF k = "break" THEN l - 1 ELSE l
  <2>1. l - 1 \in 0 .. Len(Frames!top.cons) /\ l \in 0 .. Len(Frames!top.cons)
    BY <1>1
  <2>2. QED
    BY <2>1
<1>4. PICK b : b = [a EXCEPT !.cons = SubSeq(@, 1, n)]
  OBVIOUS
<1>5. excPc' = "user" /\ Frames!Stay(b)
  BY <1>2, <1>3, <1>4 DEF Frames!Jump
<1>6. SubSeq(Frames!top.cons, 1, n) \in Seq(Con)
  BY <1>1, Cut
<1>7. b \in Act /\ b.cons = SubSeq(Frames!top.cons, 1, n)
  BY <1>4, <1>6 DEF Act
<1>8. Calls(acts') = Append(Frames!Front(Calls(acts)), AbsAll(b.cons)) /\ end' = end
  BY <1>5, <1>7, StayMaps
<1>9. AbsAll(b.cons) = SubSeq(Frames!Structured!top, 1, n)
  <2>1. AbsAll(SubSeq(Frames!top.cons, 1, n)) = SubSeq(AbsAll(Frames!top.cons), 1, n)
    BY <1>1, ConsCut
  <2>2. QED
    BY <1>7, <2>1, TopMaps
<1>10. l = Frames!Structured!InnerLoop(Frames!Structured!top) /\ l > 0
  <2>1. Frames!Structured!InnerLoop(Frames!Structured!top) = Frames!Inner(Frames!Loops(Frames!top.cons))
    BY TopMaps
  <2>2. QED
    BY <1>2, <2>1
<1>11. ~(Frames!Structured!Inner({j \in Frames!Structured!OpenTries(Frames!Structured!top) : j > l}) > 0)
  <2>1. Frames!OpenTries(Frames!top.cons) \subseteq 1 .. Len(Frames!top.cons)
    BY <1>1, TriesIs
  <2> DEFINE S == {j \in Frames!OpenTries(Frames!top.cons) : j > l}
  <2>2. S = {}
    BY <1>2, <2>1
  <2> HIDE DEF S
  <2>3. Frames!Structured!OpenTries(Frames!Structured!top) = Frames!OpenTries(Frames!top.cons) /\ \A T : Frames!Structured!Inner(T) = Frames!Inner(T)
    BY TopMaps
  <2>4. Frames!Inner(S) = 0
    BY <2>2 DEF Frames!Inner
  <2>5. ~(Frames!Structured!Inner(S) > 0)
    BY <2>3, <2>4
  <2>6. {j \in Frames!Structured!OpenTries(Frames!Structured!top) : j > l} = S
    BY <2>3 DEF S
  <2>7. QED
    BY <2>5, <2>6
<1>12. Comp(acts', excPc') = Frames!Normal
  BY <1>5 DEF Comp
<1>13. Calls(acts') = Append(Frames!Front(Calls(acts)), SubSeq(Frames!Structured!top, 1, IF k = "break" THEN l - 1 ELSE l))
  BY <1>3, <1>8, <1>9
<1>14. QED
  BY <1>8, <1>10, <1>11, <1>12, <1>13, JumpArrives

(* A jump out of the innermost try.                                        *)
LEMMA JumpOutMaps ==
  ASSUME FramesInv, end = "run", Frames!InnerTry(Frames!top.cons) > 0, NEW b \in Act, b.cons = Frames!top.cons, NEW k,
         Frames!Loops(Frames!top.cons) # {}, Frames!Inner(Frames!Loops(Frames!top.cons)) < Frames!InnerTry(Frames!top.cons),
         Frames!Slots(b) = [k |-> k, v |-> 0], Frames!Cleanup(Frames!Front(acts), b, Frames!InnerTry(Frames!top.cons), exc)
  PROVE  Frames!Structured!Jumped(k)
<1>1. /\ Frames!top.cons \in Seq(Con) /\ DOMAIN Frames!top.cons = 1 .. Len(Frames!top.cons) /\ Len(Frames!top.cons) \in Nat
  BY TopIs
<1>2. PICK l \in 1 .. Len(Frames!top.cons) : l = Frames!Inner(Frames!Loops(Frames!top.cons))
  BY <1>1, TriesIs DEF Frames!Loops
<1>3. PICK i \in 1 .. Len(Frames!top.cons) : i = Frames!InnerTry(Frames!top.cons) /\ i \in Frames!OpenTries(Frames!top.cons)
  BY InnermostIs
<1>4. PICK cs : cs = Calls(acts)
  OBVIOUS
<1>5. Frames!Structured!Leave(cs, i, [k |-> k, v |-> 0]) /\ end' = end
  BY <1>3, <1>4, TopLeaves
<1>6. l = Frames!Structured!InnerLoop(Frames!Structured!top) /\ l > 0 /\ i > 0
  <2>1. Frames!Structured!InnerLoop(Frames!Structured!top) = Frames!Inner(Frames!Loops(Frames!top.cons))
    BY TopMaps
  <2>2. QED
    BY <1>2, <1>3, <2>1
<1>7. i = Frames!Structured!Inner({j \in Frames!Structured!OpenTries(Frames!Structured!top) : j > l})
  <2> DEFINE S == {j \in Frames!OpenTries(Frames!top.cons) : j > l}
  <2>1. Frames!OpenTries(Frames!top.cons) \subseteq 1 .. Len(Frames!top.cons) /\ \A j \in Frames!OpenTries(Frames!top.cons) : j <= i
    BY <1>1, <1>3, TriesIs
  <2>2. S \in SUBSET (1 .. Len(Frames!top.cons)) /\ i \in S /\ \A j \in S : j <= i
    BY <1>2, <1>3, <2>1
  <2> HIDE DEF S
  <2>3. Frames!Inner(S) = i
    BY <1>1, <2>2, InnerMax
  <2>4. Frames!Structured!OpenTries(Frames!Structured!top) = Frames!OpenTries(Frames!top.cons) /\ \A T : Frames!Structured!Inner(T) = Frames!Inner(T)
    BY TopMaps
  <2>5. QED
    BY <2>3, <2>4 DEF S
<1>8. QED
  BY <1>4, <1>5, <1>6, <1>7, JumpPasses

(* A statement's completion is delivered; a dispatch delivers what the     *)
(* slots hold.                                                             *)
LEMMA Delivered ==
  ASSUME NEW k \in {"return", "throw", "break", "continue"}, NEW v \in Value,
         \/ k = "throw" /\ Frames!Structured!Thrown(v)
         \/ k = "return" /\ Frames!Structured!Returned(v)
         \/ k \in {"break", "continue"} /\ Frames!Structured!Jumped(k)
  PROVE  Frames!Structured!Deliver([k |-> k, v |-> v])
<1>1. PICK c : c = [k |-> k, v |-> v]
  OBVIOUS
<1>2. c.k = k /\ c.v = v
  BY <1>1
<1>3. \/ c.k = "throw" /\ Frames!Structured!Thrown(c.v)
      \/ c.k = "return" /\ Frames!Structured!Returned(c.v)
      \/ c.k \in {"break", "continue"} /\ Frames!Structured!Jumped(c.k)
  BY <1>2
<1>4. Frames!Structured!Deliver(c)
  BY <1>3, DeliverIs
<1>5. QED
  BY <1>1, <1>4

LEMMA InUserMode ==
  ASSUME excPc = "user"
  PROVE  Comp(acts, excPc) = Frames!Normal
  BY DEF Comp

LEMMA ThrowIsStep ==
  ASSUME PlainProgram, FramesInv, NEW v \in Vals, Frames!Throw(v)
  PROVE  Frames!Structured!Statement
<1>1. end = "run" /\ excPc = "user" /\ v \in Value
  BY DEF Frames!Throw, Frames!User, Value
<1>2. CASE Frames!InCatch(Frames!top.cons)
  <2>1. Frames!Cleanup(Frames!Front(acts), Leaving(Frames!top, v, 4), Frames!InnerTry(Frames!top.cons), exc)
    BY <1>2 DEF Frames!Throw, Leaving
  <2>2. QED
    BY <1>1, <1>2, <2>1, ThrowInside, InUserMode, Delivered, StatementIs
<1>3. CASE ~Frames!InCatch(Frames!top.cons)
  <2>1. Frames!HaoThrow(v)
    BY <1>3 DEF Frames!Throw
  <2>2. NoCatch(acts)
    BY <1>1, <1>3, NoCatchIs
  <2>3. Frames!Structured!Thrown(v)
    BY <1>1, <2>1, <2>2, HaoThrowMaps
  <2>4. QED
    BY <1>1, <2>3, InUserMode, Delivered, StatementIs
<1>4. QED
  BY <1>2, <1>3

LEMMA ReturnIsStep ==
  ASSUME FramesInv, NEW v \in Vals, Frames!Return(v)
  PROVE  Frames!Structured!Statement
<1>1. end = "run" /\ excPc = "user" /\ v \in Value /\ 1 \in 0 .. 4
  BY DEF Frames!Return, Frames!User, Value
<1>2. Frames!Structured!Returned(v)
  <2>1. CASE Frames!InnerTry(Frames!top.cons) > 0
    <3>1. PICK b : b = Leaving(Frames!top, v, 1)
      OBVIOUS
    <3>2. b \in Act /\ b.cons = Frames!top.cons /\ b.reason = 1 /\ b.ret = v
      <4>1. Frames!top \in Act
        BY <1>1, TopIs
      <4>2. QED
        BY <1>1, <3>1, <4>1, SlotsPut, ZenonT(30)
    <3>3. Frames!Cleanup(Frames!Front(acts), b, Frames!InnerTry(Frames!top.cons), exc)
      BY <2>1, <3>1 DEF Frames!Return, Leaving
    <3>4. Frames!Slots(b) = [k |-> "return", v |-> v]
      BY <3>2, KindIs DEF Frames!Slots
    <3>5. QED
      BY <1>1, <2>1, <3>2, <3>3, <3>4, ReturnMaps
  <2>2. CASE ~(Frames!InnerTry(Frames!top.cons) > 0)
    <3>1. Frames!Ret
      BY <2>2 DEF Frames!Return
    <3>2. QED
      BY <1>1, <2>2, <3>1, NoneOpen, RetMaps
  <2>3. QED
    BY <2>1, <2>2
<1>3. QED
  BY <1>1, <1>2, InUserMode, Delivered, StatementIs

(* More tries are open than around the innermost loop: one is inside it.   *)
LEMMA TryInLoop ==
  ASSUME NEW cons \in Seq(Con), Frames!Loops(cons) # {},
         Frames!Cardinality(Frames!OpenTries(cons)) # Frames!TryDepth(cons, Frames!Inner(Frames!Loops(cons)))
  PROVE  Frames!InnerTry(cons) > 0 /\ Frames!Inner(Frames!Loops(cons)) < Frames!InnerTry(cons)
<1>1. PICK l \in 1 .. Len(cons) : l = Frames!Inner(Frames!Loops(cons)) /\ l \in Frames!Loops(cons)
  BY TriesIs
<1>2. PICK j \in Frames!OpenTries(cons) : ~(j < l)
  BY <1>1, DepthIs
<1>3. j # l /\ j \in 1 .. Len(cons)
  BY <1>1, <1>2, TriesIs DEF Frames!Loops, Frames!OpenTries
<1>4. j <= Frames!InnerTry(cons) /\ Frames!InnerTry(cons) \in 0 .. Len(cons) /\ Len(cons) \in Nat
  BY TriesIs
<1>5. QED
  BY <1>1, <1>2, <1>3, <1>4

LEMMA JumpIsStep ==
  ASSUME FramesInv, NEW k \in {"break", "continue"}, Frames!BreakOrContinue(k)
  PROVE  Frames!Structured!Statement
<1> DEFINE l == Frames!Inner(Frames!Loops(Frames!top.cons))
           depth == Frames!TryDepth(Frames!top.cons, l)
           here == Frames!Cardinality(Frames!OpenTries(Frames!top.cons))
           i == Frames!InnerTry(Frames!top.cons)
<1>1. end = "run" /\ excPc = "user" /\ Frames!Loops(Frames!top.cons) # {}
  BY DEF Frames!BreakOrContinue, Frames!User
<1>2. Frames!top \in Act /\ Frames!top.cons \in Seq(Con) /\ l \in Frames!Loops(Frames!top.cons)
  <2>1. Frames!top \in Act /\ Frames!top.cons \in Seq(Con)
    BY <1>1, TopIs
  <2>2. QED
    BY <1>1, <2>1, TriesIs
<1>3. /\ depth \in Nat /\ here \in Nat /\ depth <= here
      /\ here = depth <=> \A j \in Frames!OpenTries(Frames!top.cons) : j < l
  BY <1>2, DepthIs
<1>4. \/ i = 0 /\ Frames!Jump(Frames!top, k)
      \/ here <= depth /\ Frames!Jump([Frames!top EXCEPT !.reason = 0], k)
      \/ /\ here > depth
         /\ Frames!Cleanup(Frames!Front(acts), [Frames!top EXCEPT !.reason = Frames!Reason[k], !.stop = depth], i, exc)
  BY DEF Frames!BreakOrContinue
<1>5. Frames!Structured!Jumped(k)
  <2>1. CASE i = 0 /\ Frames!Jump(Frames!top, k)
    <3>1. Frames!OpenTries(Frames!top.cons) = {}
      BY <1>1, <2>1, NoneOpen
    <3>2. \A j \in Frames!OpenTries(Frames!top.cons) : j < Frames!Inner(Frames!Loops(Frames!top.cons))
      BY <3>1
    <3> HIDE DEF i, here, depth, l
    <3>3. QED
      BY <1>1, <1>2, <2>1, <3>2, JumpMaps
  <2>2. CASE here <= depth /\ Frames!Jump([Frames!top EXCEPT !.reason = 0], k)
    <3>1. PICK a : a = [Frames!top EXCEPT !.reason = 0]
      OBVIOUS
    <3>2. a \in Act /\ a.cons = Frames!top.cons
      BY <1>2, <3>1 DEF Act
    <3>3. \A j \in Frames!OpenTries(Frames!top.cons) : j < Frames!Inner(Frames!Loops(Frames!top.cons))
      <4> HIDE DEF depth, here
      <4>1. here = depth
        BY <1>3, <2>2
      <4>2. QED
        BY <1>3, <4>1
    <3>4. Frames!Jump(a, k)
      BY <2>2, <3>1
    <3> HIDE DEF i, here, depth, l
    <3>5. QED
      BY <1>1, <3>2, <3>3, <3>4, JumpMaps
  <2>3. CASE /\ here > depth
             /\ Frames!Cleanup(Frames!Front(acts), [Frames!top EXCEPT !.reason = Frames!Reason[k], !.stop = depth], i, exc)
    <3>1. PICK b : b = [Frames!top EXCEPT !.reason = Frames!Reason[k], !.stop = depth]
      OBVIOUS
    <3>2. Frames!Reason[k] \in {2, 3} /\ Frames!Kind(Frames!Reason[k]) = k
      BY KindIs
    <3>3. b \in Act /\ b.cons = Frames!top.cons /\ b.reason = Frames!Reason[k]
      <4> HIDE DEF depth
      <4>1. Frames!Reason[k] \in 0 .. 4
        BY <3>2
      <4>2. QED
        BY <1>2, <1>3, <3>1, <4>1 DEF Act
    <3>4. Frames!Slots(b) = [k |-> k, v |-> 0]
      <4>1. ~(b.reason \in {1, 4})
        BY <3>2, <3>3
      <4>2. QED
        BY <3>2, <3>3, <4>1 DEF Frames!Slots
    <3>5. i > 0 /\ l < i
      <4>1. here # depth
        <5> HIDE DEF here, depth
        <5>1. QED
          BY <1>3, <2>3
      <4>2. QED
        BY <1>1, <1>2, <4>1, TryInLoop
    <3>6. Frames!Cleanup(Frames!Front(acts), b, i, exc)
      BY <2>3, <3>1
    <3>7. QED
      BY <1>1, <3>3, <3>4, <3>5, <3>6, JumpOutMaps
  <2>4. QED
    BY <1>4, <2>1, <2>2, <2>3
<1> HIDE DEF l, depth, here, i
<1>6. 0 \in Value /\ k \in {"return", "throw", "break", "continue"} /\ Comp(acts, excPc) = Frames!Normal
  BY <1>1, InUserMode DEF Value
<1>7. Frames!Structured!Deliver([k |-> k, v |-> 0])
  BY <1>5, <1>6, Delivered
<1>8. QED
  BY <1>1, <1>6, <1>7, StatementIs

(* The innermost construct, whose end is reached.                          *)
LEMMA LastCon ==
  ASSUME FramesInv, end = "run", excPc = "user", Frames!top.cons # <<>>, NEW i, i = Len(Frames!top.cons), NEW c, c = Frames!top.cons[i]
  PROVE  /\ i \in 1 .. Len(Frames!top.cons) /\ i - 1 \in 0 .. Len(Frames!top.cons) /\ c \in Con
         /\ c.kind = "loop" => c.pend = Frames!Normal /\ Frames!Inner(Frames!Loops(Frames!top.cons)) = i /\ Frames!Loops(Frames!top.cons) # {}
         /\ c.kind = "try" /\ c.at = "fin" => c.pend = Frames!Slots(Frames!top)
         /\ c.kind = "try" /\ c.at # "fin" => Frames!Slots(Frames!top) = Frames!Normal /\ Frames!InnerTry(Frames!top.cons) = i
<1>1. /\ Frames!top \in Act /\ Frames!top.cons \in Seq(Con) /\ DOMAIN Frames!top.cons = 1 .. Len(Frames!top.cons) /\ Len(Frames!top.cons) \in Nat
      /\ Orderly(Frames!top) /\ InUser(Frames!top)
  BY TopIs
<1>2. /\ i \in 1 .. Len(Frames!top.cons) /\ i - 1 \in 0 .. Len(Frames!top.cons) /\ i \in DOMAIN Frames!top.cons /\ c \in Con
      /\ \A j \in DOMAIN Frames!top.cons : j <= i /\ (j # i => i > j)
  <2>1. Len(Frames!top.cons) # 0 /\ Len(Frames!top.cons) \in Nat
    BY <1>1
  <2>2. i \in 1 .. Len(Frames!top.cons) /\ i - 1 \in 0 .. Len(Frames!top.cons)
    BY <2>1
  <2>3. \A j \in 1 .. Len(Frames!top.cons) : j <= i /\ (j # i => i > j)
    BY <2>1
  <2>4. c \in Con
    BY <1>1, <2>2
  <2>5. QED
    BY <1>1, <2>2, <2>3, <2>4
<1>3. ASSUME c.kind = "loop"
      PROVE  c.pend = Frames!Normal /\ Frames!Inner(Frames!Loops(Frames!top.cons)) = i /\ Frames!Loops(Frames!top.cons) # {}
  <2>1. i \in Frames!Loops(Frames!top.cons)
    BY <1>2, <1>3 DEF Frames!Loops
  <2>2. c.pend = Frames!Normal
    BY <1>1, <1>2, <1>3 DEF Orderly, Owing
  <2>3. /\ Frames!Inner(Frames!Loops(Frames!top.cons)) \in DOMAIN Frames!top.cons /\ i <= Frames!Inner(Frames!Loops(Frames!top.cons))
    BY <1>1, <2>1, TriesIs
  <2>4. Frames!Inner(Frames!Loops(Frames!top.cons)) = i
    <3>1. Frames!Inner(Frames!Loops(Frames!top.cons)) <= i /\ Frames!Inner(Frames!Loops(Frames!top.cons)) \in Nat /\ i \in Nat
      BY <1>1, <1>2, <2>3
    <3>2. QED
      BY <2>3, <3>1
  <2>5. QED
    BY <2>1, <2>2, <2>4
<1>4. ASSUME NEW j \in DOMAIN Frames!top.cons, Owing(Frames!top, j), c.kind = "try"
      PROVE  j = i /\ c.at = "fin" /\ c.pend = Frames!Slots(Frames!top)
  <2>1. OnlyLoopsAbove(Frames!top.cons, j) /\ Frames!top.cons[j].at = "fin" /\ Frames!top.cons[j].pend = Frames!Slots(Frames!top)
    BY <1>1, <1>4 DEF Orderly
  <2>2. j = i
    BY <1>2, <1>4, <2>1 DEF OnlyLoopsAbove
  <2>3. QED
    BY <2>1, <2>2
<1>5. ASSUME c.kind = "try", \A j \in DOMAIN Frames!top.cons : ~Owing(Frames!top, j)
      PROVE  Frames!Slots(Frames!top) = Frames!Normal
  <2>1. Frames!top.reason = 0
    BY <1>1, <1>5 DEF InUser
  <2>2. QED
    BY <1>1, <2>1, SlotsAre
<1>6. ASSUME c.kind = "try", c.at = "fin"
      PROVE  c.pend = Frames!Slots(Frames!top)
  <2>1. CASE \E j \in DOMAIN Frames!top.cons : Owing(Frames!top, j)
    BY <1>4, <1>6, <2>1
  <2>2. CASE \A j \in DOMAIN Frames!top.cons : ~Owing(Frames!top, j)
    <3>1. c.pend = Frames!Normal
      BY <1>2, <2>2 DEF Owing
    <3>2. QED
      BY <1>5, <1>6, <2>2, <3>1
  <2>3. QED
    BY <2>1, <2>2
<1>7. ASSUME c.kind = "try", c.at # "fin"
      PROVE  Frames!Slots(Frames!top) = Frames!Normal /\ Frames!InnerTry(Frames!top.cons) = i
  <2>1. \A j \in DOMAIN Frames!top.cons : ~Owing(Frames!top, j)
    BY <1>4, <1>7
  <2>2. Frames!Slots(Frames!top) = Frames!Normal
    BY <1>5, <1>7, <2>1
  <2>3. i \in Frames!OpenTries(Frames!top.cons)
    BY <1>2, <1>7 DEF Frames!OpenTries
  <2>4. Frames!InnerTry(Frames!top.cons) \in DOMAIN Frames!top.cons /\ i <= Frames!InnerTry(Frames!top.cons)
    BY <1>1, <2>3, TriesIs
  <2>5. Frames!InnerTry(Frames!top.cons) <= i /\ Frames!InnerTry(Frames!top.cons) \in Nat /\ i \in Nat
    BY <1>1, <1>2, <2>4
  <2>6. QED
    BY <2>2, <2>4, <2>5
<1>8. QED
  BY <1>2, <1>3, <1>6, <1>7

LEMMA LastMaps ==
  ASSUME FramesInv, end = "run", Frames!top.cons # <<>>, NEW i, i = Len(Frames!top.cons), i \in 1 .. Len(Frames!top.cons),
         i - 1 \in 0 .. Len(Frames!top.cons)
  PROVE  /\ Frames!Structured!top # <<>> /\ Len(Frames!Structured!top) = i /\ Frames!Structured!top[i] = Abs(Frames!top.cons[i])
         /\ Frames!Front(Frames!Structured!top) = AbsAll(SubSeq(Frames!top.cons, 1, i - 1))
<1>1. Frames!top.cons \in Seq(Con) /\ DOMAIN Frames!top.cons = 1 .. Len(Frames!top.cons)
  BY TopIs
<1>2. Frames!Structured!top = AbsAll(Frames!top.cons)
  BY TopMaps
<1>3. /\ AbsAll(Frames!top.cons) # <<>> /\ Len(AbsAll(Frames!top.cons)) = i /\ AbsAll(Frames!top.cons)[i] = Abs(Frames!top.cons[i])
  BY <1>1, ConsAre
<1>4. PICK n \in 0 .. Len(Frames!top.cons) : n = i - 1
  OBVIOUS
<1>5. AbsAll(SubSeq(Frames!top.cons, 1, n)) = SubSeq(AbsAll(Frames!top.cons), 1, n)
  BY <1>1, ConsCut
<1>6. Frames!Front(AbsAll(Frames!top.cons)) = SubSeq(AbsAll(Frames!top.cons), 1, n)
  BY <1>3, <1>4 DEF Frames!Front
<1>7. QED
  BY <1>2, <1>3, <1>4, <1>5, <1>6

LEMMA FallIsStep ==
  ASSUME FramesInv, Frames!Fall
  PROVE  Frames!Structured!Fall
<1>0. PICK i, c : i = Len(Frames!top.cons) /\ c = Frames!top.cons[i]
  OBVIOUS
<1>1. end = "run" /\ excPc = "user" /\ Frames!top.cons # <<>>
      /\ CASE c.kind = "try" /\ c.at # "fin" -> Frames!Cleanup(Frames!Front(acts), Frames!top, i, exc)
           [] c.kind = "try" /\ c.at = "fin" ->
                Frames!Stay([Frames!top EXCEPT !.cons = Frames!Front(@)]) /\ excPc' = "dispatch"
           [] OTHER -> Frames!Jump(Frames!top, "break")
  BY <1>0 DEF Frames!Fall, Frames!User
<1>2. /\ i \in 1 .. Len(Frames!top.cons) /\ i - 1 \in 0 .. Len(Frames!top.cons) /\ c \in Con
      /\ c.kind = "loop" => c.pend = Frames!Normal /\ Frames!Inner(Frames!Loops(Frames!top.cons)) = i /\ Frames!Loops(Frames!top.cons) # {}
      /\ c.kind = "try" /\ c.at = "fin" => c.pend = Frames!Slots(Frames!top)
      /\ c.kind = "try" /\ c.at # "fin" => Frames!Slots(Frames!top) = Frames!Normal /\ Frames!InnerTry(Frames!top.cons) = i
  BY <1>0, <1>1, LastCon
<1>3. /\ Frames!Structured!top # <<>> /\ Len(Frames!Structured!top) = i /\ Frames!Structured!top[i] = Abs(c)
      /\ Frames!Front(Frames!Structured!top) = AbsAll(SubSeq(Frames!top.cons, 1, i - 1))
  BY <1>0, <1>1, <1>2, LastMaps
<1>4. PICK x : x = Abs(c)
  OBVIOUS
<1>5. /\ x.kind = c.kind /\ x.at = c.at /\ x.pend = c.pend /\ x = Frames!Structured!top[i] /\ c.kind \in {"loop", "try"}
      /\ Comp(acts, excPc) = Frames!Normal
  <2>1. Abs(c).kind = c.kind /\ Abs(c).at = c.at /\ Abs(c).pend = c.pend
    BY <1>2, AbsIs
  <2>2. c.kind \in {"loop", "try"}
    BY <1>2 DEF Con
  <2>3. QED
    BY <1>1, <1>3, <1>4, <2>1, <2>2, InUserMode
<1>6. /\ acts \in Seq(Act) /\ Frames!top \in Act /\ Frames!top.cons \in Seq(Con) /\ SubSeq(Frames!top.cons, 1, i - 1) \in Seq(Con)
      /\ acts # <<>> /\ Len(acts) \in 1 .. Len(acts)
  <2>1. acts \in Seq(Act) /\ Frames!top \in Act /\ Frames!top.cons \in Seq(Con) /\ acts # <<>> /\ Len(acts) \in 1 .. Len(acts)
    BY <1>1, TopIs
  <2>2. PICK n \in 0 .. Len(Frames!top.cons) : n = i - 1
    BY <1>2
  <2>3. SubSeq(Frames!top.cons, 1, n) \in Seq(Con)
    BY <2>1, Cut
  <2>4. QED
    BY <2>1, <2>2, <2>3
<1>7. CASE c.kind = "try" /\ c.at # "fin"
  <2>1. Frames!Cleanup(Frames!Front(acts), Frames!top, Frames!InnerTry(Frames!top.cons), exc)
    BY <1>1, <1>2, <1>7
  <2>2. PICK cs : cs = Calls(acts)
    OBVIOUS
  <2>3. Frames!Normal = Frames!Slots(Frames!top) /\ Frames!InnerTry(Frames!top.cons) > 0 /\ i = Frames!InnerTry(Frames!top.cons)
    BY <1>2, <1>7
  <2>4. Frames!Structured!Leave(cs, i, Frames!Normal) /\ end' = end
    BY <1>1, <1>6, <2>1, <2>2, <2>3, TopLeaves
  <2>5. QED
    BY <1>1, <1>3, <1>5, <1>7, <2>2, <2>4, FallTry
<1>8. CASE c.kind = "try" /\ c.at = "fin"
  <2>1. PICK b : b = [Frames!top EXCEPT !.cons = Frames!Front(@)]
    OBVIOUS
  <2>2. Frames!Stay(b) /\ excPc' = "dispatch"
    BY <1>1, <1>8, <2>1
  <2>3. b \in Act /\ b.cons = SubSeq(Frames!top.cons, 1, i - 1) /\ Frames!Slots(b) = Frames!Slots(Frames!top)
    <3>1. Frames!Front(Frames!top.cons) = SubSeq(Frames!top.cons, 1, i - 1)
      BY <1>0 DEF Frames!Front
    <3>2. QED
      BY <1>6, <2>1, <3>1 DEF Act, Frames!Slots
  <2>4. Calls(acts') = Append(Frames!Front(Calls(acts)), AbsAll(b.cons)) /\ end' = end
    BY <1>1, <2>2, <2>3, StayMaps
  <2>5. Comp(acts', excPc') = x.pend
    <3>1. Frames!Last(acts') = b
      <4>1. acts' = Onto(acts, Len(acts), b)
        BY <1>1, <2>2, TopIs DEF Frames!Stay, Onto
      <4>2. PICK d \in 1 .. Len(acts) : d = Len(acts)
        BY <1>6
      <4>3. Frames!Last(Onto(acts, d, b)) = b
        BY <1>6, <2>3, OntoIs
      <4>4. QED
        BY <4>1, <4>2, <4>3
    <3>2. QED
      BY <1>2, <1>5, <1>8, <2>2, <2>3, <3>1 DEF Comp
  <2>6. QED
    BY <1>1, <1>3, <1>5, <1>8, <2>3, <2>4, <2>5, FallOut
<1>9. CASE c.kind = "loop"
  <2>1. Frames!Jump(Frames!top, "break")
    BY <1>1, <1>9, Zenon
  <2>2. PICK b : b = [Frames!top EXCEPT !.cons = SubSeq(@, 1, i - 1)]
    OBVIOUS
  <2>3. excPc' = "user" /\ Frames!Stay(b)
    BY <1>2, <1>9, <2>1, <2>2 DEF Frames!Jump
  <2>4. b \in Act /\ b.cons = SubSeq(Frames!top.cons, 1, i - 1)
    BY <1>6, <2>2 DEF Act
  <2>5. Calls(acts') = Append(Frames!Front(Calls(acts)), AbsAll(b.cons)) /\ end' = end
    BY <1>1, <2>3, <2>4, StayMaps
  <2>6. Comp(acts', excPc') = x.pend
    BY <1>2, <1>5, <1>9, <2>3 DEF Comp
  <2>7. QED
    BY <1>1, <1>3, <1>5, <1>9, <2>4, <2>5, <2>6, FallOut
<1>10. QED
  BY <1>5, <1>7, <1>8, <1>9

LEMMA InitIs ==
  ASSUME Calls(acts) = <<<<>>>>, Comp(acts, excPc) = Frames!Normal, end = "run"
  PROVE  Frames!Structured!Init
  BY DEF Frames!Structured!Init, Frames!Structured!Normal, Frames!Normal, Calls, AbsAll, Abs, Comp, Frames!top, Frames!Structured!Last, Frames!Last

LEMMA AllAgain ==
  ASSUME NEW D, NEW s \in Seq(D), s # <<>>
  PROVE  Append(Frames!Front(s), Frames!Last(s)) = s
<1>1. Len(s) - 1 \in 0 .. Len(s) /\ Len(s) \in Nat /\ Frames!Front(s) = SubSeq(s, 1, Len(s) - 1) /\ Frames!Last(s) = s[Len(s)] /\ s[Len(s)] \in D
  BY FrontIs
<1>2. PICK n \in 0 .. Len(s) : n = Len(s) - 1 /\ n + 1 = Len(s)
  BY <1>1
<1>3. PICK t : t = Append(SubSeq(s, 1, n), Frames!Last(s))
  OBVIOUS
<1>4. t \in Seq(D) /\ Len(t) = n + 1 /\ t[n + 1] = Frames!Last(s) /\ \A i \in 1 .. n : t[i] = s[i]
  BY <1>1, <1>3, CutAndPut, SMTT(30)
<1>5. \A i \in 1 .. Len(t) : t[i] = s[i]
  <2>1. \A i \in 1 .. n + 1 : i = n + 1 \/ i \in 1 .. n
    BY <1>2
  <2>2. QED
    BY <1>1, <1>2, <1>4, <2>1
<1>6. \A u, v \in Seq(D) : Len(u) = Len(v) /\ (\A j \in 1 .. Len(u) : u[j] = v[j]) => u = v
  BY SeqEqual
<1>7. QED
  BY <1>1, <1>2, <1>3, <1>4, <1>5, <1>6

(* The dispatch lets the completion in the slots go on.                    *)
LEMMA DispatchIsStep ==
  ASSUME PlainProgram, FramesInv, Frames!Dispatch
  PROVE  Frames!Structured!GoOn \/ UNCHANGED Frames!Structured!vars
<1>1. end = "run" /\ excPc = "dispatch"
  BY DEF Frames!Dispatch
<1>2. /\ acts \in Seq(Act) /\ acts # <<>> /\ Frames!top \in Act /\ Frames!top.cons \in Seq(Con) /\ InDispatch(Frames!top)
      /\ Comp(acts, excPc) = Frames!Slots(Frames!top)
  <2>1. acts \in Seq(Act) /\ acts # <<>> /\ Frames!top \in Act /\ Frames!top.cons \in Seq(Con) /\ InDispatch(Frames!top)
    BY <1>1, TopIs
  <2>2. QED
    BY <1>1, <2>1 DEF Comp, Frames!top
<1>3. Frames!top.reason \in 0 .. 4 /\ Frames!top.ret \in Value
  BY <1>2 DEF Act
<1>4. ASSUME NEW k \in {"return", "throw", "break", "continue"}, NEW v \in Value,
             Frames!Slots(Frames!top) = [k |-> k, v |-> v],
             \/ k = "throw" /\ Frames!Structured!Thrown(v)
             \/ k = "return" /\ Frames!Structured!Returned(v)
             \/ k \in {"break", "continue"} /\ Frames!Structured!Jumped(k)
      PROVE  Frames!Structured!GoOn
  <2>1. PICK c : c = [k |-> k, v |-> v]
    OBVIOUS
  <2>2. Frames!Structured!Deliver(c)
    <3>1. c.k = k /\ c.v = v
      BY <2>1
    <3>2. \/ c.k = "throw" /\ Frames!Structured!Thrown(c.v)
          \/ c.k = "return" /\ Frames!Structured!Returned(c.v)
          \/ c.k \in {"break", "continue"} /\ Frames!Structured!Jumped(c.k)
      BY <1>4, <3>1
    <3>3. QED
      BY <3>2, DeliverIs
  <2>3. c = Comp(acts, excPc) /\ c # Frames!Normal
    <3>1. c.k = k /\ Frames!Normal.k = "normal"
      BY <2>1 DEF Frames!Normal
    <3>2. QED
      BY <1>2, <1>4, <2>1, <3>1
  <2>4. QED
    BY <1>1, <2>2, <2>3, GoOnIs
<1>5. CASE Frames!top.reason = 0
  <2>1. PICK b : b = [Frames!top EXCEPT !.root = 0]
    OBVIOUS
  <2>2. Frames!Stay(b) /\ excPc' = "user"
    BY <1>5, <2>1 DEF Frames!Dispatch
  <2>3. b \in Act /\ b.cons = Frames!top.cons
    BY <1>2, <2>1 DEF Act, Value
  <2>4. Calls(acts') = Append(Frames!Front(Calls(acts)), AbsAll(Frames!top.cons)) /\ end' = end
    BY <1>1, <2>2, <2>3, StayMaps
  <2>5. Calls(acts') = Calls(acts)
    <3>1. Calls(acts) \in Seq(Seq(ACon)) /\ Calls(acts) # <<>>
      <4>1. Calls(acts) \in Seq(Seq(ACon)) /\ Len(Calls(acts)) = Len(acts) /\ Len(acts) # 0
        BY <1>2, CallsAre
      <4>2. QED
        BY <4>1
    <3>2. AbsAll(Frames!top.cons) = Frames!Last(Calls(acts))
      BY <1>1, TopMaps, TopAre
    <3>3. Append(Frames!Front(Calls(acts)), Frames!Last(Calls(acts))) = Calls(acts)
      BY <3>1, AllAgain
    <3>4. QED
      BY <2>4, <3>2, <3>3
  <2>6. Comp(acts', excPc') = Comp(acts, excPc)
    <3>1. Frames!Slots(Frames!top) = Frames!Normal
      BY <1>2, <1>5, SlotsAre
    <3>2. Comp(acts', excPc') = Frames!Normal
      BY <2>2 DEF Comp
    <3>3. QED
      BY <1>2, <3>1, <3>2
  <2>7. QED
    BY <2>4, <2>5, <2>6, StutterIs
<1>6. CASE Frames!top.reason = 1
  <2>1. Frames!PassReturn
    BY <1>6 DEF Frames!Dispatch
  <2>2. Frames!Slots(Frames!top) = [k |-> "return", v |-> Frames!top.ret]
    BY <1>6, KindIs DEF Frames!Slots
  <2>3. PICK v \in Value : v = Frames!top.ret
    BY <1>3
  <2>4. Frames!Structured!Returned(v)
    <3>1. CASE Frames!InnerTry(Frames!top.cons) > 0
      <4>1. PICK b : b = Frames!top
        OBVIOUS
      <4>2. Frames!Cleanup(Frames!Front(acts), b, Frames!InnerTry(Frames!top.cons), exc)
        BY <2>1, <3>1, <4>1 DEF Frames!PassReturn
      <4>3. b \in Act /\ b.cons = Frames!top.cons /\ Frames!Slots(b) = [k |-> "return", v |-> v]
        BY <1>2, <2>2, <2>3, <4>1
      <4>4. QED
        BY <1>1, <3>1, <4>2, <4>3, ReturnMaps
    <3>2. CASE ~(Frames!InnerTry(Frames!top.cons) > 0)
      <4>1. Frames!Ret
        BY <2>1, <3>2 DEF Frames!PassReturn
      <4>2. QED
        BY <1>1, <3>2, <4>1, NoneOpen, RetMaps
    <3>3. QED
      BY <3>1, <3>2
  <2>5. Frames!Slots(Frames!top) = [k |-> "return", v |-> v]
    BY <2>2, <2>3
  <2>6. QED
    BY <1>4, <2>4, <2>5
<1>7. CASE Frames!top.reason \in {2, 3}
  <2> DEFINE i == Frames!InnerTry(Frames!top.cons)
             here == Frames!Cardinality(Frames!OpenTries(Frames!top.cons))
             l == Frames!Inner(Frames!Loops(Frames!top.cons))
  <2>0. IF Frames!top.stop = here /\ Frames!Loops(Frames!top.cons) # {}
        THEN Frames!Jump([Frames!top EXCEPT !.reason = 0], Frames!Kind(Frames!top.reason))
        ELSE IF Frames!top.stop # here /\ i > 0
        THEN Frames!Cleanup(Frames!Front(acts), Frames!top, i, exc)
        ELSE excPc' = "user" /\ Frames!Stay([Frames!top EXCEPT !.reason = 0, !.root = 0])
    <3>1. Frames!top.reason # 0 /\ Frames!top.reason # 1 /\ Frames!top.reason # 4
      BY <1>7
    <3>2. QED
      BY <1>7, <3>1, Zenon DEF Frames!Dispatch
  <2>1. PICK k \in {"break", "continue"} : k = Frames!Kind(Frames!top.reason)
    BY <1>7, KindIs
  <2>2. Frames!Slots(Frames!top) = [k |-> k, v |-> 0]
    <3>1. ~(Frames!top.reason \in {1, 4})
      BY <1>7
    <3>2. QED
      BY <2>1, <3>1 DEF Frames!Slots
  <2>3. Frames!Loops(Frames!top.cons) # {} /\ Frames!top.stop = Frames!TryDepth(Frames!top.cons, l)
    BY <1>2, <1>7 DEF InDispatch, SlotsHold, Aims
  <2>4. Frames!Structured!Jumped(k)
    <3>1. CASE Frames!top.stop = here
      <4>1. PICK a : a = [Frames!top EXCEPT !.reason = 0]
        OBVIOUS
      <4>2. Frames!Jump(a, k)
        BY <2>0, <2>1, <2>3, <3>1, <4>1
      <4>3. a \in Act /\ a.cons = Frames!top.cons
        <5>1. Frames!top \in Act
          BY <1>2
        <5> HIDE DEF i, here, l
        <5>2. QED
          BY <4>1, <5>1 DEF Act
      <4>4. \A j \in Frames!OpenTries(Frames!top.cons) : j < Frames!Inner(Frames!Loops(Frames!top.cons))
        <5>1. l \in Frames!Loops(Frames!top.cons)
          BY <1>2, <2>3, TriesIs
        <5>2. here = Frames!TryDepth(Frames!top.cons, l)
          BY <2>3, <3>1
        <5> HIDE DEF here
        <5>3. QED
          BY <1>2, <5>1, <5>2, DepthIs DEF here
      <4> HIDE DEF i, here, l
      <4>5. QED
        BY <1>1, <2>3, <4>2, <4>3, <4>4, JumpMaps
    <3>2. CASE Frames!top.stop # here
      <4>1. i > 0 /\ l < i
        BY <1>2, <2>3, <3>2, TryInLoop
      <4>2. PICK b : b = Frames!top
        OBVIOUS
      <4>3. Frames!Cleanup(Frames!Front(acts), b, Frames!InnerTry(Frames!top.cons), exc)
        BY <2>0, <3>2, <4>1, <4>2
      <4>4. b \in Act /\ b.cons = Frames!top.cons /\ Frames!Slots(b) = [k |-> k, v |-> 0]
        BY <1>2, <2>2, <4>2
      <4>5. Frames!InnerTry(Frames!top.cons) > 0 /\ Frames!Inner(Frames!Loops(Frames!top.cons)) < Frames!InnerTry(Frames!top.cons)
        BY <4>1
      <4> HIDE DEF i, here, l
      <4>6. QED
        BY <1>1, <2>3, <4>3, <4>4, <4>5, JumpOutMaps
    <3>3. QED
      BY <3>1, <3>2
  <2> HIDE DEF i, here, l
  <2>5. 0 \in Value /\ k \in {"return", "throw", "break", "continue"}
    BY DEF Value
  <2>6. QED
    BY <1>4, <2>2, <2>4, <2>5
<1>8. CASE Frames!top.reason = 4
  <2>1. Frames!HaoThrow(Frames!top.ret)
    BY <1>8 DEF Frames!Dispatch
  <2>2. NoCatch(acts)
    BY <1>1, <1>2, NoCatchIs DEF InDispatch
  <2>3. PICK v \in Value : v = Frames!top.ret
    BY <1>3
  <2>4. Frames!HaoThrow(v)
    BY <2>1, <2>3
  <2>5. Frames!Structured!Thrown(v)
    BY <1>1, <2>2, <2>4, HaoThrowMaps
  <2>6. Frames!Slots(Frames!top) = [k |-> "throw", v |-> v]
    BY <1>8, <2>3, KindIs DEF Frames!Slots
  <2>7. QED
    BY <1>4, <2>5, <2>6
<1>9. QED
  BY <1>3, <1>5, <1>6, <1>7, <1>8

LEMMA OpenTryIsStep ==
  ASSUME PlainProgram, FramesInv, NEW f \in TryForms, Frames!OpenTry(f)
  PROVE  Frames!Structured!OpenTry(f) \/ Frames!Structured!Exit
<1>1. end = "run" /\ excPc = "user" /\ excPc' = excPc
  BY DEF Frames!OpenTry, Frames!User
<1>2. acts \in Seq(Act) /\ acts # <<>> /\ Frames!top \in Act /\ Frames!top.cons \in Seq(Con) /\ nextId \in Nat
  BY <1>1, TopIs
<1>3. Comp(acts, excPc) = Frames!Normal /\ Comp(acts', excPc') = Comp(acts, excPc)
  BY <1>1 DEF Comp
<1>4. CASE Len(exc) = MaxFrames
  <2>1. end' = "exit" /\ acts' = acts
    BY <1>4 DEF Frames!OpenTry
  <2>2. Calls(acts') = Calls(acts)
    BY <2>1
  <2>3. QED
    BY <1>1, <1>3, <2>1, <2>2, ExitIs
<1>5. CASE Len(exc) # MaxFrames
  <2>1. PICK c : c = Frames!Try(f, nextId)
    OBVIOUS
  <2>2. c \in Con /\ Abs(c) = [kind |-> "try", at |-> "body", catches |-> f.catches, fin |-> f.fin, pend |-> Frames!Normal, clause |-> 0]
    <3>1. f.catches \in Clauses /\ f.fin \in BOOLEAN
      BY DEF PlainProgram
    <3>2. Frames!Normal \in Pend
      BY DEF Frames!Normal, Pend, Kinds, Value
    <3>3. c \in Con /\ c.kind = "try" /\ c.at = "body" /\ c.catches = f.catches /\ c.fin = f.fin /\ c.pend = Frames!Normal /\ c.clause = 0
      BY <1>2, <2>1, <3>1, <3>2 DEF Frames!Try, Con
    <3>4. QED
      BY <3>3 DEF Abs
  <2>3. PICK b : b = [Frames!top EXCEPT !.cons = Append(@, c)]
    OBVIOUS
  <2>4. b \in Act /\ b.cons = Append(Frames!top.cons, c)
    <3>1. Append(Frames!top.cons, c) \in Seq(Con)
      BY <1>2, <2>2
    <3>2. QED
      BY <1>2, <2>3, <3>1 DEF Act
  <2>5. acts' = Append(Frames!Front(acts), b) /\ end' = end
    BY <1>5, <2>1, <2>3 DEF Frames!OpenTry
  <2>6. Calls(acts') = Append(Frames!Front(Calls(acts)), AbsAll(b.cons))
    BY <1>1, <2>4, <2>5, PutMaps
  <2>7. AbsAll(b.cons) = Append(AbsAll(Frames!top.cons), Abs(c))
    BY <1>2, <2>2, <2>4, ConsPut
  <2>8. Frames!Last(Calls(acts)) = AbsAll(Frames!top.cons)
    BY <1>1, TopMaps, TopAre
  <2>9. Calls(acts') = Append(Frames!Front(Calls(acts)), Append(Frames!Last(Calls(acts)),
            [kind |-> "try", at |-> "body", catches |-> f.catches, fin |-> f.fin, pend |-> Frames!Normal, clause |-> 0]))
    BY <2>2, <2>6, <2>7, <2>8
  <2>10. QED
    BY <1>1, <1>3, <2>5, <2>9, OpenTryIs
<1>6. QED
  BY <1>4, <1>5

LEMMA OpenLoopIsStep ==
  ASSUME FramesInv, Frames!OpenLoop
  PROVE  Frames!Structured!OpenLoop
<1>1. end = "run" /\ excPc = "user" /\ excPc' = excPc
  BY DEF Frames!OpenLoop, Frames!User
<1>2. acts \in Seq(Act) /\ acts # <<>> /\ Frames!top \in Act /\ Frames!top.cons \in Seq(Con)
  BY <1>1, TopIs
<1>3. Comp(acts, excPc) = Frames!Normal /\ Comp(acts', excPc') = Comp(acts, excPc)
  BY <1>1 DEF Comp
<1>4. PICK c : c = Frames!Loop
  OBVIOUS
<1>5. c \in Con /\ Abs(c) = [kind |-> "loop", at |-> "body", catches |-> <<>>, fin |-> FALSE, pend |-> Frames!Normal, clause |-> 0]
  <2>1. Frames!Normal \in Pend
    BY DEF Frames!Normal, Pend, Kinds, Value
  <2>2. c \in Con /\ c.kind = "loop" /\ c.at = "body" /\ c.catches = <<>> /\ c.fin = FALSE /\ c.pend = Frames!Normal /\ c.clause = 0
    <3>1. <<>> \in Clauses
      BY DEF Clauses
    <3>2. QED
      BY <1>4, <2>1, <3>1 DEF Frames!Loop, Con
  <2>3. /\ Abs(c) \in ACon /\ Abs(c).kind = "loop" /\ Abs(c).at = "body" /\ Abs(c).catches = <<>> /\ Abs(c).fin = FALSE
        /\ Abs(c).pend = Frames!Normal /\ Abs(c).clause = 0
    BY <2>2, AbsIs
  <2>4. QED
    BY <2>2, <2>3 DEF ACon
<1>6. PICK b : b = [Frames!top EXCEPT !.cons = Append(@, c)]
  OBVIOUS
<1>7. b \in Act /\ b.cons = Append(Frames!top.cons, c)
  <2>1. Append(Frames!top.cons, c) \in Seq(Con)
    BY <1>2, <1>5
  <2>2. QED
    BY <1>2, <1>6, <2>1 DEF Act
<1>8. acts' = Append(Frames!Front(acts), b) /\ end' = end
  BY <1>4, <1>6 DEF Frames!OpenLoop
<1>9. Calls(acts') = Append(Frames!Front(Calls(acts)), AbsAll(b.cons))
  BY <1>1, <1>7, <1>8, PutMaps
<1>10. AbsAll(b.cons) = Append(AbsAll(Frames!top.cons), Abs(c))
  BY <1>2, <1>5, <1>7, ConsPut
<1>11. Frames!Last(Calls(acts)) = AbsAll(Frames!top.cons)
  BY <1>1, TopMaps, TopAre
<1>12. Calls(acts') = Append(Frames!Front(Calls(acts)), Append(Frames!Last(Calls(acts)),
          [kind |-> "loop", at |-> "body", catches |-> <<>>, fin |-> FALSE, pend |-> Frames!Normal, clause |-> 0]))
  BY <1>5, <1>9, <1>10, <1>11
<1>13. QED
  BY <1>1, <1>3, <1>8, <1>12, OpenLoopIs

LEMMA CallIsStep ==
  ASSUME FramesInv, Frames!Call
  PROVE  Frames!Structured!Call
<1>1. end = "run" /\ excPc = "user" /\ excPc' = excPc /\ end' = end
  BY DEF Frames!Call, Frames!User
<1>2. acts \in Seq(Act) /\ shadow \in Seq(Nat)
  BY <1>1, TopIs
<1>3. Comp(acts, excPc) = Frames!Normal /\ Comp(acts', excPc') = Comp(acts, excPc)
  BY <1>1 DEF Comp
<1>4. PICK a : a = Frames!Entered(Len(shadow))
  OBVIOUS
<1>5. a \in Act /\ a.cons = <<>>
  <2>1. Len(shadow) \in Nat
    BY <1>2
  <2>2. QED
    BY <1>4, <2>1, EnteredIs DEF Frames!Entered
<1>6. acts' = Append(acts, a)
  BY <1>4 DEF Frames!Call
<1>7. Calls(acts') = Append(Calls(acts), AbsAll(a.cons))
  BY <1>2, <1>5, <1>6, CallsPut
<1>8. AbsAll(a.cons) = <<>>
  <2>1. a.cons \in Seq(Con)
    BY <1>5
  <2>2. QED
    BY <1>5, <2>1, ConsAre
<1>9. QED
  BY <1>1, <1>3, <1>7, <1>8, CallIs

LEMMA InitMaps ==
  ASSUME Frames!Init
  PROVE  Frames!Structured!Init
<1>1. acts = <<Frames!Entered(0)>> /\ excPc = "user" /\ end = "run"
  BY DEF Frames!Init
<1>2. PICK a \in Act : a = Frames!Entered(0) /\ a.cons = <<>>
  BY EnteredIs DEF Frames!Entered
<1>3. acts \in Seq(Act) /\ Len(acts) = 1 /\ acts[1] = a
  BY <1>1, <1>2
<1>4. AbsAll(a.cons) = <<>>
  <2>1. a.cons \in Seq(Con)
    BY DEF Act
  <2>2. QED
    BY <1>2, <2>1, ConsAre
<1>5. Calls(acts) = <<<<>>>>
  <2>1. Calls(acts) \in Seq(Seq(ACon)) /\ Len(Calls(acts)) = 1 /\ Calls(acts)[1] = <<>>
    BY <1>3, <1>4, CallsAre
  <2>2. QED
    BY <2>1
<1>6. Comp(acts, excPc) = Frames!Normal
  BY <1>1, InUserMode
<1>7. QED
  BY <1>1, <1>5, <1>6, InitIs

LEMMA StepMaps ==
  ASSUME PlainProgram, FramesInv, [Frames!Next]_(Frames!vars)
  PROVE  [Frames!Structured!Next]_(Frames!Structured!vars)
<1>1. CASE UNCHANGED Frames!vars
  <2>1. acts' = acts /\ excPc' = excPc /\ end' = end
    BY <1>1 DEF Frames!vars
  <2>2. Calls(acts') = Calls(acts) /\ Comp(acts', excPc') = Comp(acts, excPc)
    BY <2>1
  <2>3. QED
    BY <2>1, <2>2, StutterIs
<1>2. ASSUME NEW f \in TryForms, Frames!OpenTry(f) PROVE Frames!Structured!Next
  BY <1>2, OpenTryIsStep DEF Frames!Structured!Next
<1>3. CASE Frames!OpenLoop
  BY <1>3, OpenLoopIsStep DEF Frames!Structured!Next
<1>4. CASE Frames!Call
  BY <1>4, CallIsStep DEF Frames!Structured!Next
<1>5. CASE Frames!Fall
  BY <1>5, FallIsStep DEF Frames!Structured!Next
<1>6. CASE Frames!Dispatch
  BY <1>6, DispatchIsStep DEF Frames!Structured!Next
<1>7. ASSUME NEW v \in Vals, Frames!Throw(v) PROVE Frames!Structured!Next
  BY <1>7, ThrowIsStep DEF Frames!Structured!Next
<1>8. ASSUME NEW v \in Vals, Frames!Return(v) PROVE Frames!Structured!Next
  BY <1>8, ReturnIsStep DEF Frames!Structured!Next
<1>9. ASSUME NEW k \in {"break", "continue"}, Frames!BreakOrContinue(k) PROVE Frames!Structured!Next
  BY <1>9, JumpIsStep DEF Frames!Structured!Next
<1>10. QED
  BY <1>1, <1>2, <1>3, <1>4, <1>5, <1>6, <1>7, <1>8, <1>9 DEF Frames!Next

(* The compiled program, frames, slots and dispatch blocks, does what      *)
(* TryFinally says of try, catch and finally: no finally is skipped or cut *)
(* short, no completion is lost and no catch clause passed by.             *)
THEOREM FramesRefinement ==
  ASSUME PlainProgram
  PROVE  Frames!Spec => Frames!ImplementsTryFinally
<1>1. Frames!Init => FramesInv
  BY FramesInvInit
<1>2. FramesInv /\ [Frames!Next]_(Frames!vars) => FramesInv'
  BY FramesInvStep
<1>3. Frames!Init => Frames!Structured!Init
  BY InitMaps
<1>4. FramesInv /\ [Frames!Next]_(Frames!vars) => [Frames!Structured!Next]_(Frames!Structured!vars)
  BY StepMaps
<1>5. QED
  BY <1>1, <1>2, <1>3, <1>4, PTL DEF Frames!Spec, Frames!ImplementsTryFinally, Frames!Structured!Spec

=============================================================================

------------------------------ MODULE ExcFrames -----------------------------
(***************************************************************************)
(* try, catch and finally as src/irgen/IRGenExcept.cpp compiles them and   *)
(* stdlib/runtime_exception.c runs them.                                   *)
(*                                                                         *)
(* Every try has one cleanup block that all its exits go through: it pops  *)
(* the runtime frame, runs the finally and then dispatches on the slot     *)
(* unwind.reason, of which a function has ONE.  A throw longjmps to the    *)
(* top runtime frame, except inside a catch body, where it is written to   *)
(* the slot and jumps to the nearest cleanup.  The code generator's stacks *)
(* (tryStack_, loops_, catchDepth_) are functions of the constructs open   *)
(* where the statement stands, so the program is any choice of statements. *)
(*                                                                         *)
(* pend is a history field: what a finally was entered with.  The code     *)
(* does not read it.                                                       *)
(***************************************************************************)
EXTENDS Naturals, Sequences, SequencesExt, FiniteSetsExt

CONSTANTS
    Vals,           \* objects thrown or returned (functions return objects); 0 is none
    TryForms,       \* [catches, fin]: what each catch clause matches, is there a finally
    MaxFrames,      \* HAO_EXC_MAX_DEPTH
    CatchNests,     \* may a catch body hold a try, or a call that throws?
    FinallyNests,   \* may a finally entered by an abrupt completion hold a try, leave a
                    \* loop of its own inside a try, or a loop around it outside any?
    LaterClauses,   \* may an exception fail to match the first of several catch clauses?
    MaxDepth, MaxNest, MaxTries, MaxShadow      \* bounds of the instance

VARIABLES
    acts,       \* activations: open constructs, the unwind slots, the GC watermark
    exc,        \* g_excStack[0 .. g_excDepth-1]: id, and where setjmp was called
    shadow,     \* g_shadow[0 .. g_shadow_n-1]: the activation each slot belongs to
    pc,         \* "user" code, or "dispatch" after the cleanup of a try
    nextId,     \* g_excNextId
    end         \* how the program ended: "run" while it has not

vars == <<acts, exc, shadow, pc, nextId, end>>

Reason == [normal |-> 0, return |-> 1, break |-> 2, continue |-> 3, throw |-> 4]
Kind(r) == CHOOSE k \in DOMAIN Reason : Reason[k] = r
Normal == [k |-> "normal", v |-> 0]
\* What the slots of an activation say.
Slots(a) == [k |-> Kind(a.reason), v |-> IF a.reason \in {1, 4} THEN a.ret ELSE 0]

top == Last(acts)
Inner(S) == IF S = {} THEN 0 ELSE Max(S)
OpenTries(cons) == {i \in DOMAIN cons : cons[i].kind = "try" /\ cons[i].at # "fin"}
InnerTry(cons) == Inner(OpenTries(cons))
Loops(cons) == {i \in DOMAIN cons : cons[i].kind = "loop"}
TryDepth(cons, i) == Cardinality({j \in OpenTries(cons) : j < i})
InCatch(cons) == \E i \in DOMAIN cons : cons[i].at = "catch"

Loop == [kind |-> "loop", at |-> "body", catches |-> <<>>, fin |-> FALSE,
         pend |-> Normal, clause |-> 0, id |-> 0]
Try(f, n) == [kind |-> "try", at |-> "body", catches |-> f.catches, fin |-> f.fin,
              pend |-> Normal, clause |-> 0, id |-> n]
Entered(wm) == [cons |-> <<>>, reason |-> 0, ret |-> 0, stop |-> 0, root |-> 0, wm |-> wm]

(* Mutant: the value without its root.                                     *)
RetUnrooted(a, v) == [a EXCEPT !.ret = v]

(* storeUnwindRet: the value and its GC root go together.                  *)
WithRet(a, v) == [a EXCEPT !.ret = v, !.root = v]

(* The cleanup block of try i of activation a, the innermost of as:        *)
(* hao_try_end, which pops the frame if it is still the top one, and the   *)
(* finally.                                                                *)
Cleanup(as, a, i, frames) ==
    LET c == a.cons[i]
        below == SubSeq(a.cons, 1, i - 1)
    IN /\ exc' = IF frames # <<>> /\ Last(frames).id = c.id THEN Front(frames) ELSE frames
       /\ IF c.fin
          THEN /\ acts' = Append(as, [a EXCEPT !.cons =
                              Append(below, [c EXCEPT !.at = "fin", !.pend = Slots(a)])])
               /\ pc' = "user"
          ELSE /\ acts' = Append(as, [a EXCEPT !.cons = below])
               /\ pc' = "dispatch"
       /\ UNCHANGED <<shadow, nextId, end>>

(* The clause the dispatch block enters, 0 for none: the first one if it   *)
(* matches, else the one after it: the mismatch of a clause jumps to the   *)
(* BODY of the next, and the type test of the next, emitted behind the     *)
(* jump that ends the body before it, is never reached.                    *)
Reached(catches, v) ==
    IF catches = <<>> THEN 0
    ELSE IF v \in catches[1] THEN 1
    ELSE IF Len(catches) > 1 THEN 2 ELSE 0

(* Catch clause k of try i is entered.                                     *)
Caught(a, i, k) ==
    [a EXCEPT !.reason = 0,
              !.cons = Append(SubSeq(@, 1, i - 1), [@[i] EXCEPT !.at = "catch", !.clause = k])]

(* hao_throw: longjmp to the top frame, then the dispatch block there:     *)
(* hao_except_capture, the match, and no match as reason 4.                *)
HaoThrow(v) ==
    \/ /\ exc = <<>> /\ end' = "uncaught"
       /\ UNCHANGED <<acts, exc, shadow, pc, nextId>>
    \/ /\ exc # <<>>
       /\ LET f == Last(exc)
              frames == SubSeq(exc, 1, f.depthAtEnter)
              as == SubSeq(acts, 1, f.act - 1)
              a == [acts[f.act] EXCEPT !.root = v]
              c == a.cons[f.con]
              k == Reached(c.catches, v)
          IN /\ LaterClauses \/ Len(c.catches) <= 1 \/ v \in c.catches[1]
             /\ IF k > 0
                THEN /\ acts' = Append(as, Caught(a, f.con, k))
                     /\ exc' = frames /\ pc' = "user"
                     /\ UNCHANGED <<shadow, nextId, end>>
                ELSE Cleanup(as, [WithRet(a, v) EXCEPT !.reason = 4], f.con, frames)

(* ret: hao_gc_root_unwind and back to the caller.                         *)
Ret ==
    /\ acts' = Front(acts) /\ pc' = "user"
    /\ shadow' = SubSeq(shadow, 1, top.wm)
    /\ end' = IF Len(acts) = 1 THEN "done" ELSE end
    /\ UNCHANGED <<exc, nextId>>

Stay(a) == acts' = Append(Front(acts), a) /\ UNCHANGED <<exc, shadow, nextId, end>>

(* The jump to the label of the innermost loop, with the slot cleared if   *)
(* the jump went through emitUnwind.                                       *)
Jump(a, k) ==
    LET l == Inner(Loops(a.cons))
    IN /\ pc' = "user"
       /\ Stay([a EXCEPT !.cons = SubSeq(@, 1, IF k = "break" THEN l - 1 ELSE l)])

User == end = "run" /\ pc = "user"

---------------------------------------------------------------------------
(* User code: the statements.                                              *)

CanPush == Len(shadow) < MaxShadow

(* genTry: the slots of the catch clauses, hao_try_alloc, setjmp.          *)
OpenTry(f) ==
    /\ User /\ CanPush /\ nextId <= MaxTries /\ Len(top.cons) < MaxNest
    /\ FinallyNests \/ top.reason = 0
    /\ CatchNests \/ ~InCatch(top.cons)
    /\ IF Len(exc) = MaxFrames
       THEN end' = "exit" /\ UNCHANGED <<acts, exc, shadow, nextId>>
       ELSE /\ acts' = Append(Front(acts), [top EXCEPT !.cons = Append(@, Try(f, nextId))])
            /\ exc' = Append(exc, [id |-> nextId, depthAtEnter |-> Len(exc),
                                   act |-> Len(acts), con |-> Len(top.cons) + 1])
            /\ nextId' = nextId + 1
            /\ shadow' = IF Loops(top.cons) = {}
                         THEN shadow \o [k \in DOMAIN f.catches |-> Len(acts)] ELSE shadow
            /\ end' = end
    /\ pc' = pc

(* genWhile, genFor: the outermost loop of a function pushes its pool.     *)
OpenLoop ==
    /\ User /\ CanPush /\ Len(top.cons) < MaxNest
    /\ acts' = Append(Front(acts), [top EXCEPT !.cons = Append(@, Loop)])
    /\ shadow' = IF Loops(top.cons) = {} THEN Append(shadow, Len(acts)) ELSE shadow
    /\ UNCHANGED <<exc, pc, nextId, end>>

(* genFunctionBody: the watermark, then the slot of the unwind root.       *)
Call ==
    /\ User /\ CanPush /\ Len(acts) < MaxDepth
    /\ CatchNests \/ ~InCatch(top.cons)
    /\ acts' = Append(acts, Entered(Len(shadow)))
    /\ shadow' = Append(shadow, Len(acts) + 1)
    /\ UNCHANGED <<exc, pc, nextId, end>>

(* genThrow                                                                *)
Throw(v) ==
    /\ User
    /\ IF InCatch(top.cons)
       THEN Cleanup(Front(acts), [WithRet(top, v) EXCEPT !.reason = 4], InnerTry(top.cons), exc)
       ELSE HaoThrow(v)

(* genReturn                                                               *)
Return(v) ==
    /\ User
    /\ IF InnerTry(top.cons) > 0
       THEN Cleanup(Front(acts), [WithRet(top, v) EXCEPT !.reason = 1], InnerTry(top.cons), exc)
       ELSE Ret

(* break and continue: emitUnwind if any try is open, else a plain jump.   *)
BreakOrContinue(k) ==
    /\ User /\ Loops(top.cons) # {}
    /\ LET l == Inner(Loops(top.cons))
           loopDepth == TryDepth(top.cons, l)
           i == InnerTry(top.cons)
           owing == {j \in DOMAIN top.cons : top.cons[j].pend # Normal}
       IN \/ /\ i = 0
             /\ FinallyNests \/ \A j \in owing : j < l
             /\ Jump(top, k)
          \/ /\ i > 0 /\ Cardinality(OpenTries(top.cons)) <= loopDepth
             /\ FinallyNests \/ \A j \in owing : j > l
             /\ Jump([top EXCEPT !.reason = 0], k)
          \/ /\ Cardinality(OpenTries(top.cons)) > loopDepth
             /\ Cleanup(Front(acts), [top EXCEPT !.reason = Reason[k], !.stop = loopDepth], i, exc)

(* The end of a body: to the cleanup, the dispatch, or out of the loop.    *)
Fall ==
    /\ User /\ top.cons # <<>>
    /\ LET i == Len(top.cons)
           c == top.cons[i]
       IN CASE c.kind = "try" /\ c.at # "fin" -> Cleanup(Front(acts), top, i, exc)
            [] c.kind = "try" /\ c.at = "fin" ->
                 Stay([top EXCEPT !.cons = Front(@)]) /\ pc' = "dispatch"
            [] OTHER -> Jump(top, "break")

---------------------------------------------------------------------------
(* The switch on unwind.reason after the finally, by reason.               *)

(* Mutant: a return passes one finally and leaves.                         *)
ReturnAtOnce == Ret

PassReturn == IF InnerTry(top.cons) > 0 THEN Cleanup(Front(acts), top, InnerTry(top.cons), exc) ELSE Ret

Dispatch ==
    /\ end = "run" /\ pc = "dispatch"
    /\ LET i == InnerTry(top.cons)
           here == Cardinality(OpenTries(top.cons))
       IN CASE top.reason = 0 -> pc' = "user" /\ Stay([top EXCEPT !.root = 0])
            [] top.reason = 1 -> PassReturn
            [] top.reason \in {2, 3} ->
                 IF top.stop = here /\ Loops(top.cons) # {}
                 THEN Jump([top EXCEPT !.reason = 0], Kind(top.reason))
                 ELSE IF top.stop # here /\ i > 0
                 THEN Cleanup(Front(acts), top, i, exc)
                 ELSE pc' = "user" /\ Stay([top EXCEPT !.reason = 0, !.root = 0])
            [] top.reason = 4 -> HaoThrow(top.ret)

---------------------------------------------------------------------------

Init ==
    /\ acts = <<Entered(0)>> /\ exc = <<>> /\ shadow = <<1>>
    /\ pc = "user" /\ nextId = 1 /\ end = "run"

Next ==
    \/ \E f \in TryForms : OpenTry(f)
    \/ OpenLoop \/ Call \/ Fall \/ Dispatch
    \/ \E v \in Vals : Throw(v) \/ Return(v)
    \/ \E k \in {"break", "continue"} : BreakOrContinue(k)

Spec == Init /\ [][Next]_vars

---------------------------------------------------------------------------
(* Properties.                                                             *)

(* The runtime's frames are the open try bodies of the activations on the  *)
(* stack, innermost last: a longjmp never goes to a function that has      *)
(* returned nor to a body that is over (hao_throw jumps to whatever is on  *)
(* top).                                                                   *)
OpenBodies(d) ==
    LET bodies == SelectSeq(acts[d].cons, LAMBDA c : c.kind = "try" /\ c.at = "body")
    IN [i \in DOMAIN bodies |-> bodies[i].id]
FramesAreOpenBodies ==
    end = "run" =>
        [i \in DOMAIN exc |-> exc[i].id] = FlattenSeq([d \in DOMAIN acts |-> OpenBodies(d)])

(* While a finally runs, the object it will return or throw on is in the   *)
(* activation's root slot, and that slot is still on the shadow stack: a   *)
(* collection inside the finally keeps it.                                 *)
PendingRooted ==
    end = "run" => \A d \in DOMAIN acts :
        /\ acts[d].wm < Len(shadow) /\ shadow[acts[d].wm + 1] = d
        /\ \A i \in DOMAIN acts[d].cons :
               LET p == acts[d].cons[i].pend
               IN p.k \in {"return", "throw"} => acts[d].root = p.v

(* Both: however control leaves a construct or an activation.               *)
UnwindSound == FramesAreOpenBodies /\ PendingRooted

(* The compiled program does what TryFinally says: no finally is skipped   *)
(* or cut short, no completion is lost, no catch clause is passed by.      *)
Structured == INSTANCE TryFinally WITH
    calls <- [d \in DOMAIN acts |-> [i \in DOMAIN acts[d].cons |->
                 [x \in {"kind", "at", "catches", "fin", "pend", "clause"} |-> acts[d].cons[i][x]]]],
    comp <- IF pc = "dispatch" THEN Slots(top) ELSE Normal
ImplementsTryFinally == Structured!Spec

(* A caught exception leaves no root of the activations it left:           *)
(* the code leaves them there until the catcher returns.                   *)
NoDeadRoots ==
    end = "run" => \A p \in DOMAIN shadow : \E d \in DOMAIN acts :
        /\ shadow[p] = d /\ p > acts[d].wm
        /\ d < Len(acts) => p <= acts[d + 1].wm
=============================================================================

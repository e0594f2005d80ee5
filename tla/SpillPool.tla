----------------------------- MODULE SpillPool ------------------------------
(***************************************************************************)
(* The spill pool of src/irgen: the root slots that the code of nested     *)
(* loops shares, given out by a cursor while the code is generated.        *)
(*                                                                         *)
(* A state is a place in the text of a function as genStatement walks it:  *)
(* the constructs open there, with the slots each holds, and the pool as   *)
(* the generator has it.  Next opens, fills and closes constructs in any   *)
(* order, so every nesting of them is walked.  What a construct holds is   *)
(* live or not by where the walk stands in it; "store null" instructions   *)
(* are compared with what is live where control goes when it executes them.*)
(*                                                                         *)
(* hit and left are history: a null store that met a live slot, and a loop *)
(* left with slots nobody nulls.  The generator does not read them.        *)
(***************************************************************************)
EXTENDS Naturals, Sequences, SequencesExt, FiniteSetsExt, Functions

CONSTANTS
    Prealloc,           \* kLoopSpillPoolPrealloc
    Untried,            \* may continue stand outside every try where the body of the
                        \* loop holds a slot?
    MaxSlots, MaxNest   \* bounds of the instance

VARIABLES pool, cons, dead, hit, left
vars == <<pool, cons, dead, hit, left>>

NoPool == [next |-> 0, high |-> 0, size |-> 0, scope |-> <<>>, sticky |-> <<>>,
           enter |-> <<>>, floor |-> <<>>]
InLoop == pool.scope # <<>>     \* loopSpillDepth_ > 0

Lim(p) == Min({Max({p.high, p.next}), p.size})
OrElse(s, default) == IF s = <<>> THEN default ELSE Last(s)

---------------------------------------------------------------------------
(* The operations.  Each returns the pool and the slots it stores null in. *)

Op(p, nulled) == [pool |-> p, nulled |-> nulled]
Then(r, q) == Op(q.pool, r.nulled \cup q.nulled)

(* enterLoopSpillScope                                                     *)
EnterScope(p) ==
    LET q == IF p.scope = <<>> THEN [NoPool EXCEPT !.size = Prealloc] ELSE p
    IN [q EXCEPT !.scope = Append(@, q.next), !.enter = Append(@, Len(q.sticky)),
                 !.floor = Append(@, Len(q.sticky))]

(* leaveLoopSpillScope                                                     *)
LeaveScope(p) ==
    LET base == Last(p.scope)
        q == [p EXCEPT !.next = base, !.high = Min({@, base}), !.scope = Front(@),
                       !.sticky = SubSeq(@, 1, Last(p.enter)),
                       !.enter = Front(@), !.floor = Front(@)]
    IN Op(IF q.scope = <<>> THEN NoPool ELSE q, base .. Lim(p) - 1)

Pin(p) == [p EXCEPT !.sticky = Append(@, p.next)]
MarkFloor(p) == [p EXCEPT !.floor = Append(Front(@), Len(p.sticky))]

Rewind(p, target) ==
    Op([p EXCEPT !.next = target, !.high = Min({@, target})], target .. Lim(p) - 1)

(* clearLoopSpillSlots                                                     *)
Clear(p) == Rewind(p, Max({OrElse(p.scope, 0), OrElse(p.sticky, 0)}))

(* Mutant: the cursor goes back to the start of the loop, pins or not.     *)
RecycleToBase(p) == Rewind(p, OrElse(p.scope, 0))

(* recycleLoopSpillSlots                                                   *)
Recycle(p) == Rewind(p, OrElse(p.sticky, OrElse(p.scope, 0)))

(* unpinLoopSpillCheckpoint                                                *)
Unpin(p) ==
    IF p.sticky = <<>> THEN Op(p, {})
    ELSE LET s == Last(p.sticky)
         IN Op([p EXCEPT !.next = s, !.sticky = Front(@)],
               s .. Min({Max({p.next, s}), p.size}) - 1)

(* Unpin while more than n pins are left.                                  *)
Peel(p, n) ==
    IF Len(p.sticky) <= n THEN Op(p, {})
    ELSE Unpin([p EXCEPT !.sticky = SubSeq(@, 1, n + 1)])

(* genWhile, at the label of the condition.                                *)
AtCond(p) == LET r == Peel(p, OrElse(p.floor, 1)) IN Then(r, Clear(r.pool))

---------------------------------------------------------------------------
(* What is live where the walk stands.                                     *)

Con(kind, at, slots) == [kind |-> kind, at |-> at, slots |-> slots, owe |-> 0]

(* The subject of a when is read by the conditions, the variable of a      *)
(* catch in its body, the operands of a select until it has chosen.        *)
Held(c) ==
    CASE c.kind = "when" -> IF c.at = "conds" THEN c.slots ELSE <<>>
      [] c.kind = "try" -> IF c.at = "catch" THEN c.slots ELSE <<>>
      [] c.kind = "select" -> IF c.at = "ops" THEN c.slots ELSE <<>>
      [] OTHER -> c.slots
Live(cs) == FlattenSeq([i \in DOMAIN cs |-> Held(cs[i])])

top == Last(cons)
loop == Max({0} \cup {i \in DOMAIN cons : cons[i].kind \in {"while", "for"} /\ cons[i].at = "body"})
Tried == \E i \in DOMAIN cons : cons[i].kind = "try" /\ cons[i].at # "fin"
Set(c) == Append(Front(cons), c)
Below == Front(cons)

(* The generator emits r.nulled on the way to a place where dest is open.  *)
Emit(r, dest) == hit' = (hit \/ r.nulled \cap Range(Live(dest)) # {})
Same == UNCHANGED <<hit, left>>

---------------------------------------------------------------------------
(* The walk.                                                               *)

(* acquireLoopGcSlot: past the end it makes a slot.                        *)
Acquired(p) ==
    [p EXCEPT !.next = @ + 1, !.high = Max({@, p.next + 1}), !.size = Max({@, p.next + 1})]
CanAcquire(p) == p.next < MaxSlots
CanOpen == ~dead /\ Len(cons) < MaxNest
AtStatement == cons # <<>> => top.at \notin {"cond", "conds", "ops"}

EnterWhile ==
    /\ CanOpen /\ AtStatement
    /\ LET r == AtCond(MarkFloor(Pin(EnterScope(pool))))
       IN /\ pool' = r.pool /\ Emit(r, cons)
          /\ cons' = Append(cons, Con("while", "cond", <<>>))
    /\ UNCHANGED <<dead, left>>

WhileBody ==
    /\ cons # <<>> /\ top.kind = "while" /\ top.at = "cond"
    /\ pool' = Pin(pool)
    /\ cons' = Set([top EXCEPT !.at = "body", !.slots = <<>>])
    /\ UNCHANGED dead /\ Same

(* A loop owes the slots that held something where a jump left its body.   *)
Leave(r, c) ==
    LET q == LeaveScope(r.pool)
    IN /\ pool' = q.pool /\ Emit(Then(r, q), Below)
       /\ left' = (left \/ c.owe > Lim(r.pool))
       /\ cons' = Below /\ dead' = FALSE

EndWhile ==
    /\ cons # <<>> /\ top.kind = "while" /\ top.at = "body"
    /\ Leave(IF dead THEN Op(pool, {}) ELSE Clear(pool), top)

(* genForArray, genForIterable: the sequence or the iterator, and the      *)
(* variable if it is a reference.                                          *)
EnterFor(ref) ==
    /\ CanOpen /\ AtStatement
    /\ LET p == EnterScope(pool)
           q == Pin(Acquired(p))
           s == IF ref THEN Pin(Acquired(q)) ELSE q
       IN /\ CanAcquire(p) /\ CanAcquire(IF ref THEN q ELSE p)
          /\ pool' = s
          /\ cons' = Append(cons, Con("for", "body", IF ref THEN <<p.next, q.next>> ELSE <<p.next>>))
    /\ UNCHANGED dead /\ Same

(* The step recycles; after the loop the pins go, then the scope.          *)
EndFor ==
    /\ cons # <<>> /\ top.kind = "for"
    /\ LET step == Recycle(pool)
           var == IF Len(top.slots) = 2 THEN Unpin(step.pool) ELSE Op(step.pool, {})
           seq == Unpin(var.pool)
           after == Then(Then(Op(step.pool, Range(top.slots)), var), seq)
           q == LeaveScope(after.pool)
       IN /\ pool' = q.pool
          /\ hit' = (hit \/ step.nulled \cap Range(Live(cons)) # {}
                         \/ (after.nulled \cup q.nulled) \cap Range(Live(Below)) # {})
          /\ left' = (left \/ top.owe > Lim(after.pool))
          /\ cons' = Below /\ dead' = FALSE

(* rootGcOperand, and genVarDecl where the variable was not hoisted.       *)
Acquire ==
    /\ cons # <<>> /\ ~dead /\ InLoop /\ CanAcquire(pool)
    /\ \/ top.kind = "scope" \/ top.at \in {"cond", "ops"}
    /\ pool' = Acquired(pool)
    /\ cons' = Set([top EXCEPT !.slots = Append(@, pool.next)])
    /\ UNCHANGED dead /\ Same

(* A block, a branch, or a statement whose expression holds temporaries    *)
(* (the condition of a while may hold a when of its own).                  *)
OpenScope ==
    /\ CanOpen /\ InLoop
    /\ ~AtStatement => top.at = "cond"
    /\ cons' = Append(cons, Con("scope", "body", <<>>))
    /\ UNCHANGED <<pool, dead>> /\ Same

(* What follows a branch can be reached although the branch ends in a jump.*)
CloseScope ==
    /\ cons # <<>> /\ top.kind = "scope"
    /\ cons' = IF Len(cons) > 1 /\ cons[Len(cons) - 1].kind = "when"
               THEN [Below EXCEPT ![Len(cons) - 1].at = "conds"] ELSE Below
    /\ dead' \in {dead, FALSE}
    /\ UNCHANGED pool /\ Same

(* genWhenStmt: the subject, then conditions and branches in turn.         *)
OpenWhen ==
    /\ CanOpen /\ AtStatement /\ InLoop /\ CanAcquire(pool)
    /\ pool' = Acquired(pool)
    /\ cons' = Append(cons, Con("when", "conds", <<pool.next>>))
    /\ UNCHANGED dead /\ Same

(* A condition holds its temporaries while it is evaluated.                *)
WhenCond ==
    /\ cons # <<>> /\ top.kind = "when" /\ top.at = "conds" /\ CanOpen
    /\ cons' = Append(cons, Con("scope", "body", <<>>))
    /\ UNCHANGED <<pool, dead>> /\ Same

WhenBranch ==
    /\ cons # <<>> /\ top.kind = "when" /\ top.at = "conds" /\ CanOpen
    /\ cons' = Append(Set([top EXCEPT !.at = "branch"]), Con("scope", "body", <<>>))
    /\ UNCHANGED <<pool, dead>> /\ Same

(* genTry: the slot of the catch variable, before the body.                *)
OpenTry ==
    /\ CanOpen /\ AtStatement /\ InLoop /\ CanAcquire(pool)
    /\ pool' = Acquired(pool) /\ Emit(Op(pool, {pool.next}), cons)
    /\ cons' = Append(cons, Con("try", "body", <<pool.next>>))
    /\ UNCHANGED <<dead, left>>

TryNext ==
    /\ cons # <<>> /\ top.kind = "try" /\ top.at # "fin"
    /\ cons' = Set([top EXCEPT !.at = IF @ = "body" THEN "catch" ELSE "fin"])
    /\ dead' = FALSE
    /\ UNCHANGED pool /\ Same

(* genSelect: the handles and the strings, then one body per case.         *)
OpenSelect ==
    /\ CanOpen /\ AtStatement /\ InLoop
    /\ cons' = Append(cons, Con("select", "ops", <<>>))
    /\ UNCHANGED <<pool, dead>> /\ Same

Cases ==
    /\ cons # <<>> /\ top.kind = "select" /\ top.at = "ops"
    /\ cons' = Set([top EXCEPT !.at = "cases"])
    /\ UNCHANGED <<pool, dead>> /\ Same

(* The end of a when, a try or a select nulls what it acquired.            *)
Close ==
    /\ cons # <<>>
    /\ \/ top.kind = "when" /\ top.at = "conds"
       \/ top.kind = "try" /\ top.at = "fin"
       \/ top.kind = "select" /\ top.at = "cases"
    /\ Emit(Op(pool, Range(top.slots)), Below)
    /\ cons' = Below /\ dead' = FALSE
    /\ UNCHANGED <<pool, left>>

Owes(n) == [cons EXCEPT ![loop].owe = Max({@, n})]

(* break outside a try jumps to the end of the loop; inside one, break and *)
(* continue go through emitUnwind.  Neither touches the pool.              *)
Break ==
    /\ ~dead /\ loop > 0 /\ top.kind = "scope"
    /\ cons' = Owes(pool.next) /\ dead' = TRUE
    /\ UNCHANGED pool /\ Same

TriedContinue ==
    /\ ~dead /\ loop > 0 /\ Tried /\ top.kind = "scope"
    /\ cons' = IF cons[loop].kind = "while" THEN Owes(pool.next) ELSE cons
    /\ dead' = TRUE
    /\ UNCHANGED pool /\ Same

(* continue outside a try clears or recycles on the spot.                  *)
Continue ==
    /\ ~dead /\ loop > 0 /\ ~Tried /\ top.kind = "scope"
    /\ Untried \/ \A i \in loop + 1 .. Len(cons) : cons[i].slots = <<>>
    /\ LET r == IF cons[loop].kind = "while" THEN Clear(pool) ELSE Recycle(pool)
       IN pool' = r.pool /\ Emit(r, SubSeq(cons, 1, loop))
    /\ dead' = TRUE
    /\ UNCHANGED <<cons, left>>

---------------------------------------------------------------------------

Init == pool = NoPool /\ cons = <<>> /\ dead = FALSE /\ hit = FALSE /\ left = FALSE

Next ==
    \/ EnterWhile \/ WhileBody \/ EndWhile
    \/ \E ref \in BOOLEAN : EnterFor(ref)
    \/ EndFor \/ Acquire \/ OpenScope \/ CloseScope
    \/ OpenWhen \/ WhenCond \/ WhenBranch \/ OpenTry \/ TryNext \/ OpenSelect \/ Cases \/ Close
    \/ Break \/ TriedContinue \/ Continue

Spec == Init /\ [][Next]_vars

---------------------------------------------------------------------------
(* Properties.                                                             *)

(* What two holders keep at one time is in two slots: the second would     *)
(* overwrite the first, which the program then reads as its own.           *)
NoSharedSlot == IsInjective(Live(cons))

(* The generated code never stores null in a slot that is read afterwards, *)
(* whichever loop the store belongs to (the fault of v0.55.34: the inner   *)
(* condition nulled what the outer loop held).                             *)
NoLiveNulled == ~hit

(* Together: an operand is read as it was stored, whatever loops, clears   *)
(* and other operands come between.                                        *)
OperandsKept == NoSharedSlot /\ NoLiveNulled

(* "end 标签 leaveLoopSpillScope 负责清槽": after a loop none of its slots   *)
(* keeps an object, whichever way the loop was left.                       *)
NothingLeft == ~left
=============================================================================

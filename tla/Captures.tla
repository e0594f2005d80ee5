------------------------------- MODULE Captures -------------------------------
(***************************************************************************)
(* Variables that lambdas use (IRGenLambda.cpp).  Which names a lambda     *)
(* captures is found by walking its statements; a var or a parameter that  *)
(* some lambda of the function captures lives in a cell on the heap, which *)
(* the function and its lambdas share; everything else is copied into the  *)
(* lambda when it is made.  Variables of a loop body get their stack slot  *)
(* or their cell before the loop.                                          *)
(*                                                                         *)
(* A program has one variable, a lambda that may use it, and a lambda in   *)
(* that one.  The memory the code makes is compared with one in which      *)
(* every execution of a declaration makes a variable and every use means   *)
(* that variable.                                                          *)
(***************************************************************************)
EXTENDS Naturals, Sequences

CONSTANTS Turns,        \* bound: of the loop around the declaration
          MaxWrites,    \* bound: assignments
          MaxClosures,  \* bound: lambdas made
          Known         \* the known gaps of the code to leave out, from Gaps

(* A cell made before a loop is one for all turns; what only an inner      *)
(* lambda uses is not captured by the outer; nor is what is named like a   *)
(* function; a lambda may assign to a val it captured; a captured array    *)
(* parameter is the address it was passed by; after a lambda a function    *)
(* does not know the height its roots began at.                            *)
Gaps == {"one cell for a loop", "through a lambda", "named like a function",
         "val assigned", "captured array parameter", "roots after a lambda"}
Open(gap) == gap \notin Known

VARIABLES
    prog,       \* kind and place of the variable, its uses by the two lambdas, and its name
    turn,       \* of the loop
    now,        \* the variable: where it is meant to be and where it is, or none
    meant,      \* the memory as the language means it
    memory,     \* slots, cells and what lambdas copied
    slot,       \* the stack slot or the cell made before the loop, or 0
    closures,   \* the lambdas made: which, and where the variable is for them
    writes,     \* assignments so far
    assigned,   \* was a val assigned?
    roots       \* of the function on the shadow stack; 0 when it returned

vars == <<prog, turn, now, meant, memory, slot, closures, writes, assigned, roots>>

Kinds == {"var", "val", "parameter", "array parameter", "for", "catch", "this", "receiver"}
Mutable == {"var", "parameter", "array parameter"}
Uses == {{}, {"read"}, {"read", "write"}}

(* this and the receiver of a method used as a value have no name and      *)
(* cannot be assigned.                                                     *)
Programs ==
    {p \in [kind : Kinds, place : {"body", "loop", "block in loop"}, outer : Uses, inner : Uses, function : BOOLEAN] :
        /\ p.kind \in {"parameter", "array parameter", "this", "receiver"} => p.place = "body"
        /\ p.kind \in {"for", "catch"} => p.place = "block in loop"
        /\ p.kind \in {"this", "receiver"} => ~p.function
        /\ p.kind = "receiver" => (p.outer = {"read"} /\ p.inner = {})
        /\ "write" \in p.outer \union p.inner =>
              \/ p.kind \in Mutable
              \/ p.kind \in {"val", "for", "catch"} /\ Open("val assigned")
        /\ Open("through a lambda") \/ p.inner = {} \/ p.outer # {}
        /\ Open("named like a function") \/ ~p.function
        /\ Open("captured array parameter") \/ p.kind # "array parameter" \/ p.outer = {}
        /\ Open("one cell for a loop") \/ ~(p.kind = "var" /\ p.place = "loop" /\ p.outer # {})}

None == <<0, 0>>
Garbage == 0        \* what is read where the variable is not

Init ==
    /\ prog \in Programs
    /\ turn = 1 /\ now = None /\ meant = <<>> /\ memory = <<>> /\ slot = 0
    /\ closures = <<>> /\ writes = 0 /\ assigned = FALSE /\ roots = 1

----------------------------------------------------------------------------
(* The analysis.                                                           *)

(* collectFreeNames: the names a lambda uses and does not declare, without *)
(* those of classes and functions; the lambdas in it are not walked.       *)
free == prog.outer # {} /\ ~prog.function
innerFree == prog.inner # {} /\ ~prog.function

(* analyzeLambdas, and genLambda for the inner one: it finds the symbol of *)
(* the outer lambda only if that captured it.                              *)
Captured(which) == IF which = "outer" THEN free ELSE free /\ innerFree

(* Mutant: what is captured is boxed if the lambda assigns to it.          *)
BoxedIfWritten == free /\ prog.kind \in Mutable /\ "write" \in prog.outer

Boxed == free /\ prog.kind \in Mutable

(* hoistVarDeclsInLoopBody.                                                *)
Hoisted == prog.place = "loop"

----------------------------------------------------------------------------
(* The function.                                                           *)

(* Mutant: a cell is made for the function.                                *)
CellOnce(value) ==
    IF slot # 0
    THEN /\ memory' = [memory EXCEPT ![slot] = value] /\ now' = <<Len(meant) + 1, slot>>
         /\ UNCHANGED slot
    ELSE /\ memory' = Append(memory, value) /\ now' = <<Len(meant) + 1, Len(memory) + 1>>
         /\ slot' = Len(memory) + 1

(* genVarDecl and the parameters of genFunctionBody: a stack slot or a     *)
(* cell made before the loop is used again, other cells are new.           *)
Place(value) ==
    IF slot # 0 /\ (~Boxed \/ Hoisted)
    THEN /\ memory' = [memory EXCEPT ![slot] = value] /\ now' = <<Len(meant) + 1, slot>>
         /\ UNCHANGED slot
    ELSE /\ memory' = Append(memory, value) /\ now' = <<Len(meant) + 1, Len(memory) + 1>>
         /\ slot' = Len(memory) + 1

(* The cell of an array parameter gets the address it was passed by.       *)
Declare ==
    /\ roots # 0 /\ now = None
    /\ prog.place = "body" => turn = 1
    /\ writes' = writes + 1
    /\ Place(IF prog.kind = "array parameter" /\ Boxed THEN Garbage ELSE writes + 1)
    /\ meant' = Append(meant, writes + 1)
    /\ UNCHANGED <<prog, turn, closures, assigned, roots>>

Assign ==
    /\ roots # 0 /\ now # None /\ prog.kind \in Mutable /\ writes < MaxWrites
    /\ writes' = writes + 1
    /\ meant' = [meant EXCEPT ![now[1]] = writes + 1]
    /\ memory' = [memory EXCEPT ![now[2]] = writes + 1]
    /\ UNCHANGED <<prog, turn, now, slot, closures, assigned, roots>>

NextTurn ==
    /\ roots # 0 /\ turn < Turns /\ prog.place # "body" /\ now # None
    /\ turn' = turn + 1 /\ now' = None
    /\ UNCHANGED <<prog, meant, memory, slot, closures, writes, assigned, roots>>

(* genLambdaImpl forgets gcRootWm_; without it nothing is unwound.         *)
Return ==
    /\ roots = 1
    /\ roots' = IF prog.outer \union prog.inner # {} /\ Open("roots after a lambda") THEN 2 ELSE 0
    /\ now' = None
    /\ UNCHANGED <<prog, turn, meant, memory, slot, closures, writes, assigned>>

----------------------------------------------------------------------------
(* Lambdas.                                                                *)

(* genLambda: the cell, or a copy of the value.  A name that was not       *)
(* captured is that of a register of another function.                     *)
Env(which, at) ==
    IF ~Captured(which) /\ prog.kind # "receiver" THEN <<Garbage>>
    ELSE IF Boxed THEN <<>> ELSE <<memory[at[2]]>>
Make(which, at) ==
    /\ Len(closures) < MaxClosures
    /\ memory' = memory \o Env(which, at)
    /\ closures' = Append(closures,
           [is |-> which, at |-> <<at[1], IF Env(which, at) = <<>> THEN at[2] ELSE Len(memory) + 1>>])
    /\ UNCHANGED <<prog, turn, now, meant, slot, writes, assigned, roots>>

MakeOuter == roots = 1 /\ now # None /\ prog.outer \union prog.inner # {} /\ Make("outer", now)

(* A call of the outer lambda, after the function returned too.            *)
MakeInner ==
    /\ prog.inner # {}
    /\ \E k \in DOMAIN closures : closures[k].is = "outer" /\ Make("inner", closures[k].at)

(* A call that assigns.  What was copied is a variable of the call, and    *)
(* may be assigned though it is not mutable where it was declared.         *)
Use(k) == IF closures[k].is = "outer" THEN prog.outer ELSE prog.inner
AssignInLambda ==
    /\ writes < MaxWrites
    /\ \E k \in DOMAIN closures :
        /\ "write" \in Use(k)
        /\ IF prog.kind \in Mutable
           THEN /\ meant' = [meant EXCEPT ![closures[k].at[1]] = writes + 1]
                /\ memory' = IF Boxed THEN [memory EXCEPT ![closures[k].at[2]] = writes + 1] ELSE memory
                /\ UNCHANGED assigned
           ELSE assigned' = TRUE /\ UNCHANGED <<meant, memory>>
    /\ writes' = writes + 1
    /\ UNCHANGED <<prog, turn, now, slot, closures, roots>>

Next ==
    \/ Declare \/ Assign \/ NextTurn \/ Return
    \/ MakeOuter \/ MakeInner \/ AssignInLambda

Spec == Init /\ [][Next]_vars

----------------------------------------------------------------------------
(* The function and every lambda that uses the variable read what was last *)
(* assigned to it, by whichever of them; a val keeps its value.            *)
Reads(at) == meant[at[1]] = memory[at[2]]
OneVariable ==
    /\ now # None => Reads(now)
    /\ \A k \in DOMAIN closures : Use(k) # {} => Reads(closures[k].at)
    /\ ~assigned

(* A function that returned has given its roots back.                      *)
RootsUnwound == roots # 2

CapturesSound == OneVariable /\ RootsUnwound
=============================================================================

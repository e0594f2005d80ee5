------------------------------ MODULE TempRoots ------------------------------
(***************************************************************************)
(* Temporaries in the code the compiler generates.  An allocation, a call  *)
(* and a loop's poll are safepoints: the collector may run there, and of   *)
(* the thread that runs it only the shadow stack is scanned.  A pointer    *)
(* that an expression holds in an SSA register across a safepoint must     *)
(* have been spilled to a root slot before (rootGcOperand): contract R9,   *)
(* "GC pointers that live across a safepoint or call must be in shadow".   *)
(*                                                                         *)
(* Each way the generator takes through a construct is a path: the         *)
(* sequence of steps, among those that concern pointers, of the code it    *)
(* emits.  An operand is evaluated by a path of its own, and stands for    *)
(* the worst a subexpression may do: be a number, or a pointer that        *)
(* nothing keeps, with or without a safepoint on the way to it: as long as *)
(* no construct hands on a pointer whose object was freed, what holds of   *)
(* one path holds of every expression.  Lists of arguments, elements and   *)
(* captured variables are of length two.                                   *)
(***************************************************************************)
EXTENDS Sequences

CONSTANT Known      \* the known gaps of the code to leave out, from Gaps

Gaps == {"boxed arguments", "boxed elements", "number plus text", "interface property",
         "setter result", "boxed variable"}

Regs == {"base", "left", "right", "tmp", "out"}

(***************************************************************************)
(* What a register holds: nothing, a number, a pointer that is in a root   *)
(* slot or reachable from one that is (kept), a pointer that nothing the   *)
(* expression emitted keeps (loose), or one whose object was freed (dead). *)
(* A variable's or a field's object is loose as well: a later operand may  *)
(* assign the variable.                                                    *)
(***************************************************************************)
Contents == {"none", "number", "kept", "loose", "dead"}

VARIABLES
    todo,       \* the steps that are left
    regs        \* what the registers of the construct hold

vars == <<todo, regs>>

----------------------------------------------------------------------------
(* The steps of generated code.                                            *)

Step(op, reads, writes) == [op |-> op, reads |-> reads, writes |-> writes]

Eval(r) == Step("eval", {}, r)               \* evaluate an operand
EvalNumber(r) == Step("evalNumber", {}, r)   \* one the compiler knows to be a number
EvalPointer(r) == Step("evalPointer", {}, r) \* one it knows to be a pointer
Load(from, r) == Step("load", from, r)       \* read a field, an element, a global
New(r) == Step("new", {}, r)                 \* allocate
Call(args, r) == Step("call", args, r)       \* call; the callee roots what it is given
Poll == Step("poll", {}, "none")             \* a call without arguments, ensureInit
Use(args) == Step("use", args, "none")       \* store to a variable, compare, compute
Result(r) == Step("result", {r} \ {"none"}, r)

(* rootGcOperand and emitSpillGcRoot: the pointer is stored in a slot of   *)
(* the shadow stack, and what is used from then on is what the slot holds. *)
Root(r) == Step("root", {r}, r)

(* A slot is nulled when its construct is done with it.                    *)
Clear(r) == Step("clear", {}, r)

(* emitHeapStore: the write barrier and the store do not collect; what is  *)
(* stored in an object that is kept is kept.                               *)
Store(r, into) == Step("store", {r, into}, r)

(* coerce: a number may be boxed, as a wrapper class or a nullable, by an  *)
(* allocation whose result is not rooted; a wrapper may be unboxed by a    *)
(* call; the rest stays what it is.                                        *)
Coerce(r) == Step("coerce", {r}, r)

(* formatCallArg: coerce, and root what coerce made.                       *)
Format(r) == Step("format", {r}, r)

(* toStringValue: a number is converted by a call that allocates; a String *)
(* stays.                                                                  *)
Text(r) == Step("text", {r}, r)

(* A phi, or a value that becomes another's.                               *)
Move(from, r) == Step("move", {from}, r)

----------------------------------------------------------------------------
(* Assignments.                                                            *)

(* The mutant keeps the array in a register only.                          *)
ElementAssignUnrooted ==
    {<<Eval("base"), EvalNumber("left"), Eval("right"), Use({"base"}), Coerce("right"),
       Store("right", "base"), Result("right")>>}

(* a[i] = v, a!![i] = v, a.f[i] = v; and a[i] += v, on numbers             *)
ElementAssign ==
    {<<Eval("base"), Root("base"), EvalNumber("left")>> \o rest : rest \in
        {<<Eval("right"), Use({"base"}), Coerce("right"), Store("right", "base"), Result("right")>>,
         <<EvalNumber("right"), Load({"base"}, "tmp"), Use({"base"}), Result("right")>>}}

(* s.value = v inside the package lang                                     *)
StringFieldAssign ==
    {<<EvalPointer("base"), Root("base"), Eval("right"), Coerce("right"),
       Store("right", "base"), Result("right")>>}

(* cur += v on text: the variable or field is read after v was evaluated   *)
AppendText(into, store) ==
    <<Load(into, "left"), Root("left"), Text("right"), Root("right"),
      Call({"left", "right"}, "out"), Root("out"), store, Result("out")>>

(* C.f = v, C.f += v                                                       *)
StaticFieldAssign ==
    {<<Poll, Eval("right"), Coerce("right"), Use({"right"}), Result("right")>>,
     <<Poll, EvalNumber("right"), Load({}, "left"), Use({"left"}), Result("right")>>,
     <<Poll, Eval("right")>> \o AppendText({}, Use({"out"}))}

(* o.f = v, o.f += v                                                       *)
FieldAssign ==
    {<<EvalPointer("base"), Root("base")>> \o rest : rest \in
        {<<Eval("right"), Coerce("right"), Store("right", "base"), Result("right")>>,
         <<EvalNumber("right"), Load({"base"}, "left"), Use({"base"}), Result("right")>>,
         <<Eval("right")>> \o AppendText({"base"}, Store("out", "base"))}}

(* o.p = v by the property's setter: the value of the assignment is v,     *)
(* which only the call kept.  As a statement it is not used.               *)
AutoPropertyAssign ==
    {<<EvalPointer("base"), Root("base"), Eval("right"), Coerce("right"),
       Call({"base", "right"}, "none"),
       Result(IF "setter result" \in Known THEN "none" ELSE "right")>>}

(* i.p = v through an interface: the receiver is rooted after v was        *)
(* evaluated.                                                              *)
InterfacePropertyAssign ==
    IF "interface property" \in Known THEN {}
    ELSE {<<EvalPointer("base"), Eval("right"), Coerce("right"), Root("base"), Root("right"),
            Call({"base", "right"}, "none"), Result("right")>>}

(* x = v, x += v                                                           *)
VarAssign ==
    {<<Eval("right"), Coerce("right"), Use({"right"}), Result("right")>>,
     <<EvalNumber("right"), Load({}, "left"), Use({"left"}), Result("right")>>,
     <<Eval("right")>> \o AppendText({}, Use({"out"}))}

----------------------------------------------------------------------------
(* Operators.                                                              *)

(* a ?? b: b may be skipped; the phi is unboxed, or rooted                 *)
Coalesce ==
    LET merge(r) == {<<Move(r, "out"), Use({"out"}), Result("none")>>,
                     <<Move(r, "out"), Root("out"), Result("out")>>}
        other == <<Eval("right"), Root("right"), Coerce("right")>>
    IN  {<<EvalPointer("left"), Root("left")>> \o rest :
            rest \in merge("left") \union {other \o m : m \in merge("right")}}

(* a || b, a && b: truth values                                            *)
ShortCircuit ==
    {<<EvalNumber("left"), Use({"left"}), Result("none")>>,
     <<EvalNumber("left"), EvalNumber("right"), Use({"right"}), Result("none")>>}

(* a == b: the left side is rooted, the right one used at once: compared   *)
(* as text by a call, as boxes by their contents, as numbers or pointers   *)
EqualText == {<<EvalPointer("left"), Root("left"), EvalPointer("right"),
                Call({"left", "right"}, "none"), Result("none")>>}
EqualBoxes == {<<EvalPointer("left"), Root("left"), EvalPointer("right"),
                 Use({"left", "right"}), Result("none")>>}
Equality == {<<Eval("left"), Root("left"), Eval("right"), Use({"left", "right"}), Result("none")>>}

(* x is T, x as T: the pointer is handed to a check and is then the result;*)
(* to and from wrappers, as Object, coerce                                 *)
TypeTest ==
    {<<Eval("left"), Coerce("left"), Result("left")>>,
     <<EvalPointer("left"), Use({"left"}), Result("left")>>}

(* a + b where one of them is a String: both become one.  The left one is  *)
(* converted when the right one has been evaluated, and is not yet rooted. *)
Additive ==
    {<<IF "number plus text" \in Known THEN EvalPointer("left") ELSE Eval("left"),
       Root("left"), Eval("right"), Text("left"), Root("left"), Text("right"), Root("right"),
       Call({"left", "right"}, "out"), Root("out"), Result("out")>>,
     <<EvalNumber("left"), EvalNumber("right"), Use({"left", "right"}), Result("none")>>}

----------------------------------------------------------------------------
(* Members.                                                                *)

(* s.length, o.f, C.f; o.m as a function value, whose environment holds o; *)
(* i.p by the getter                                                       *)
MemberAccess ==
    {<<EvalPointer("base"), Root("base"), Call({"base"}, "out"), Result("out")>>,
     <<EvalPointer("base"), Load({"base"}, "out"), Result("out")>>,
     <<Poll, Load({}, "out"), Result("out")>>,
     <<EvalPointer("base"), Root("base"), New("out"), Root("out"), Store("base", "out"), Result("out")>>}

(* a[i], s[i]                                                              *)
Index ==
    {<<EvalPointer("base"), Root("base"), EvalNumber("left"), Load({"base"}, "out"), Result("out")>>,
     <<EvalPointer("base"), Root("base"), EvalNumber("left"), Call({"base"}, "out"), Result("out")>>}

(* x!!: what it was, or unboxed                                            *)
NotNullAssert == {<<EvalPointer("base"), Use({"base"}), Result("base")>>,
                  <<EvalPointer("base"), Use({"base"}), Result("none")>>}

(* o?.f: the member is read, boxed if it is a number, merged with null and *)
(* rooted                                                                  *)
SafeMember ==
    {<<EvalPointer("base"), Root("base")>> \o rest : rest \in
        {<<Result("none")>>,
         <<Load({"base"}, "out"), Coerce("out"), Root("out"), Result("out")>>,
         <<Call({"base"}, "out"), Coerce("out"), Root("out"), Result("out")>>}}

----------------------------------------------------------------------------
(* Arguments.  Each is rooted once evaluated, before the next.             *)

EvalArgs == <<Eval("left"), Root("left"), Eval("right"), Root("right")>>

(* Every argument is handed to formatCallArg, or is coerced before: then   *)
(* formatCallArg finds it of the right type and does not root the box.     *)
FormatArgs == {<<Format("left"), Format("right")>>}
CoerceArgs ==
    IF "boxed arguments" \in Known THEN {<<Coerce("left")>>, <<Coerce("right")>>}
    ELSE {<<Coerce("left"), Coerce("right")>>}

(* f(a...), the variable part of the arguments: one argument that is an    *)
(* array, one to pack, none, several                                       *)
PassArray == {<<EvalPointer("left"), Root("left"), Result("left")>>}
PackOne ==
    {<<Eval("left"), Root("left"), New("tmp"), Root("tmp"), New("out"), Root("out"),
       Coerce("left"), Store("left", "out"), Result("out")>>,
     <<New("out"), Root("out"), Result("out")>>}
PackSeveral ==
    LET elem(r) == <<Eval(r), Root(r)>> \o (IF "boxed elements" \in Known THEN <<>> ELSE <<Coerce(r)>>)
    IN  {elem("left") \o elem("right") \o
         <<New("out"), Root("out"), Store("left", "out"), Store("right", "out"), Result("out")>>}

----------------------------------------------------------------------------
(* Calls: what comes before the arguments, how they are made to fit, and   *)
(* what the call reads besides them.                                       *)

CallWith(before, fits, reads) ==
    {before \o EvalArgs \o fit \o <<Call(reads \union {"left", "right"}, "out"), Result("out")>> :
        fit \in fits}

(* i.m(a, b) and o.m(a, b), through the table or direct                    *)
InterfaceCall == CallWith(<<EvalPointer("base"), Root("base")>>, FormatArgs, {"base"})
MethodCall == CallWith(<<EvalPointer("base"), Root("base")>>, FormatArgs, {"base"})
ArrayClone == {<<EvalPointer("base"), Root("base"), Call({"base"}, "out"), Result("out")>>}

(* C.m(a, b): the class is initialised first                               *)
StaticCall == CallWith(<<Poll>>, CoerceArgs, {})

(* C.fn(a, b) and o.fn(a, b), a field that holds a function                *)
StaticFuncField == CallWith(<<Poll, Load({}, "tmp"), Root("tmp")>>, CoerceArgs, {"tmp"})
FuncField ==
    CallWith(<<EvalPointer("base"), Root("base"), Load({"base"}, "tmp"), Root("tmp")>>, CoerceArgs, {"tmp"})

(* pkg.f(a, b); super(a, b) and super.m(a, b), where this is loaded from   *)
(* its slot, that nothing reassigns; f(a, b); a function value, called     *)
PackageCall == CallWith(<<>>, CoerceArgs, {})
SuperCall == CallWith(<<>>, CoerceArgs, {})
NamedCall == CallWith(<<>>, FormatArgs, {})
FuncValueCall == CallWith(<<EvalPointer("tmp"), Root("tmp")>>, FormatArgs, {"tmp"})

(* f<T>(a, b) and o.m<T>(a, b): function literals are evaluated last, for  *)
(* the types they are inferred from                                        *)
GenericFunctionCall == CallWith(<<>>, CoerceArgs, {})
GenericMethodCall == CallWith(<<EvalPointer("base"), Root("base")>>, CoerceArgs, {"base"})

(* o?.m(a, b): the result, boxed, is merged with null and rooted           *)
SafeCall ==
    {<<EvalPointer("base"), Root("base"), Result("none")>>} \union
    {<<EvalPointer("base"), Root("base")>> \o EvalArgs \o fit \o
     <<Call({"base", "left", "right"}, "out"), Coerce("out"), Root("out"), Result("out")>> : fit \in FormatArgs}

----------------------------------------------------------------------------
(* Objects and literals.                                                   *)

(* a function as a value: its environment                                  *)
FunctionValue == {<<New("out"), Root("out"), Use({"out"}), Result("out")>>}

(* new C(a, b): arguments, allocation, the defaults of the fields, the     *)
(* constructor                                                             *)
NewObject ==
    {<<Poll>> \o EvalArgs \o <<New("out"), Root("out")>> \o default \o fit \o
     <<Call({"out", "left", "right"}, "none"), Result("out")>> :
        default \in {<<>>, <<Eval("tmp"), Coerce("tmp"), Store("tmp", "out")>>}, fit \in CoerceArgs}

(* {a, ...b}, new [T]{}, new [T](n), new [T](n, fill): plain elements fit  *)
(* one by one as they are stored; those of a spread array in a loop        *)
ArrayInit ==
    {EvalArgs \o <<Call({"left", "right"}, "none"), New("out"), Root("out")>> \o rest : rest \in
        {<<Coerce("left"), Store("left", "out"), Coerce("right"), Store("right", "out"), Result("out")>>,
         <<Coerce("left"), Store("left", "out"), Root("right"), Poll, Load({"right"}, "tmp"), Coerce("tmp"),
           Store("tmp", "out"), Poll, Use({"right", "out"}), Clear("right"), Result("out")>>}}
EmptyArray == {<<New("out"), Root("out"), Result("out")>>}
SizedArray ==
    {<<EvalNumber("left"), New("out"), Root("out"), Result("out")>>,
     <<EvalNumber("left"), Eval("right"), Coerce("right"), Root("right"), New("out"), Root("out"),
       Poll, Store("right", "out"), Poll, Use({"right", "out"}), Clear("right"), Result("out")>>}

(* "text" and $"a{x}b": the pieces become text and are joined as they come *)
StringLiteral == {<<New("tmp"), Root("tmp"), Call({"tmp"}, "out"), Root("out"), Result("out")>>}
TemplateString ==
    {<<Eval("left"), Text("left"), Root("left"), Eval("right"), Text("right"), Root("left"), Root("right"),
       Call({"left", "right"}, "out"), Root("out"), Result("out")>>}

(* when (x) {a: v}: subject and result have slots of their own, and the    *)
(* result is spilled before its slot is cleared                            *)
WhenExpr ==
    LET value == <<Eval("out"), Coerce("out"), Root("out"), Clear("left"), Result("out")>>
    IN  {<<Eval("left"), Root("left")>> \o rest :
            rest \in {value, <<Eval("right"), Call({"left", "right"}, "none")>> \o value}}

(* A function literal: the environment, and what it captures               *)
Lambda == {<<New("out"), Root("out"), Load({}, "left"), Store("left", "out"), Load({}, "right"),
             Store("right", "out"), Result("out")>>}

----------------------------------------------------------------------------
(* Statements.                                                             *)

(* haoroutine { ... }                                                      *)
Haoroutine == {<<EvalPointer("base"), Root("base"), Call({"base"}, "none"), Result("none")>>}

(* select: the handle of every channel, and the text to send, are spilled  *)
(* until the statement ends; a received text gets its variable's slot      *)
Select ==
    LET channel(r, t) == <<EvalPointer(r), Load({r}, r), Root(r), EvalPointer(t), Root(t)>>
    IN  {channel("base", "left") \o channel("tmp", "right") \o
         <<Poll, Call({"base", "left", "tmp", "right"}, "out"), Root("out"), Poll, Use({"out"}),
           Clear("base"), Clear("left"), Clear("tmp"), Clear("right"), Result("none")>>}

(* var x = v: in a slot of its own, in one hoisted out of the loop, or in a*)
(* cell shared with the function literals that capture x, allocated when v *)
(* has been evaluated                                                      *)
VarDecl ==
    {<<Eval("right"), Coerce("right"), Root("right"), Result("none")>>} \union
    (IF "boxed variable" \in Known THEN {}
     ELSE {<<Eval("right"), Coerce("right"), New("base"), Store("right", "base"), Root("base"), Result("none")>>})

(* for (x in s): by s.toArray(), over an array, by an iterator             *)
For == {<<EvalPointer("base"), Root("base"), Call({"base"}, "left"), Result("left")>>}
ForArray ==
    {<<EvalPointer("base"), Root("base"), Call({"base"}, "none"), Poll, Load({"base"}, "left"), Root("left"),
       Poll, Use({"left"}), Clear("left"), Poll, Use({"base"}), Clear("base"), Result("none")>>}
ForIterable ==
    {<<EvalPointer("base"), Root("base"), Call({"base"}, "tmp"), Root("tmp"), Call({"tmp"}, "none"), Poll,
       Call({"tmp"}, "left"), Root("left"), Poll, Use({"left"}), Call({"tmp"}, "none"), Clear("left"),
       Clear("tmp"), Result("none")>>}

(* return v: through a finally, v waits in the unwind slot; throw v        *)
Return == {<<Eval("right"), Coerce("right"), Result("right")>>,
           <<Eval("right"), Coerce("right"), Root("right"), Poll, Result("right")>>}
Throw == {<<EvalPointer("right"), Call({"right"}, "none"), Result("none")>>,
          <<EvalPointer("right"), Root("right"), Poll, Call({"right"}, "none"), Result("none")>>}

Constructs ==
    UNION {ElementAssign, StringFieldAssign, StaticFieldAssign, FieldAssign, AutoPropertyAssign,
           InterfacePropertyAssign, VarAssign, Coalesce, ShortCircuit, EqualText, EqualBoxes, Equality, TypeTest,
           Additive, MemberAccess, Index, NotNullAssert, SafeMember, PassArray, PackOne, PackSeveral, InterfaceCall,
           MethodCall, ArrayClone, StaticCall, StaticFuncField, FuncField, PackageCall, SuperCall, NamedCall,
           FuncValueCall, GenericFunctionCall, GenericMethodCall, SafeCall, FunctionValue, NewObject,
           ArrayInit, EmptyArray, SizedArray, StringLiteral, TemplateString, WhenExpr, Lambda, Haoroutine,
           Select, VarDecl, For, ForArray, ForIterable, Return, Throw}

----------------------------------------------------------------------------
(* Running them.                                                           *)

Init == todo \in Constructs /\ regs = [r \in Regs |-> "none"]

Now == todo[1]
Running(ops) == todo # <<>> /\ Now.op \in ops
Held == regs[Now.writes]    \* what the step's register holds before it

(* The step is done, and its register holds c.                             *)
Done(rs, c) ==
    /\ todo' = Tail(todo)
    /\ regs' = IF Now.writes = "none" THEN rs ELSE [rs EXCEPT ![Now.writes] = c]
Quietly(c) == Done(regs, c)

(* At a safepoint the collector frees what nothing keeps.                  *)
ThroughSafepoint(c) == Done([r \in Regs |-> IF regs[r] = "loose" THEN "dead" ELSE regs[r]], c)

(* An operand, at its worst.                                               *)
Evaluate ==
    /\ Running({"eval", "evalNumber", "evalPointer"})
    /\ \/ Now.op # "evalPointer" /\ (Quietly("number") \/ ThroughSafepoint("number"))
       \/ Now.op # "evalNumber" /\ (Quietly("loose") \/ ThroughSafepoint("loose"))

Read == Running({"load"}) /\ (Quietly("number") \/ Quietly("loose"))
Allocate == Running({"new", "call", "poll"}) /\ ThroughSafepoint("loose")
UseIt == Running({"use", "result"}) /\ Quietly(IF Now.op = "use" THEN "none" ELSE Held)

(* A root slot keeps what is in it, and stops to.                          *)
RootIt == Running({"root"}) /\ Quietly(IF Held = "loose" THEN "kept" ELSE Held)
ClearIt == Running({"clear"}) /\ Quietly(IF Held = "kept" THEN "loose" ELSE Held)

StoreIt ==
    /\ Running({"store"})
    /\ Quietly(IF Held = "loose" /\ \A r \in Now.reads \ {Now.writes} : regs[r] = "kept"
               THEN "kept" ELSE Held)

(* Boxing allocates, unboxing calls.                                       *)
Fit ==
    /\ Running({"coerce", "format"})
    /\ \/ Quietly(Held)
       \/ Held = "number" /\ ThroughSafepoint(IF Now.op = "format" THEN "kept" ELSE "loose")
       \/ Held \in {"loose", "kept"} /\ ThroughSafepoint("number")

ToText == Running({"text"}) /\ IF Held = "number" THEN ThroughSafepoint("loose") ELSE Quietly(Held)

MoveIt == Running({"move"}) /\ \E r \in Now.reads : Quietly(regs[r])

Next == Evaluate \/ Read \/ Allocate \/ UseIt \/ RootIt \/ ClearIt \/ StoreIt \/ Fit \/ ToText \/ MoveIt

Spec == Init /\ [][Next]_vars

----------------------------------------------------------------------------
(* What generated code reads is alive: no step uses a pointer, and no      *)
(* construct has one for its value, whose object a collection before it    *)
(* may have freed.                                                         *)
OperandsAlive == todo # <<>> => \A r \in Now.reads : regs[r] # "dead"
=============================================================================

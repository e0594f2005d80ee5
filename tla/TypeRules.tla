------------------------------- MODULE TypeRules -------------------------------
(***************************************************************************)
(* The rules by which the compiler lets a value of one static type be used *)
(* as one of another.  Values differ in how they are represented: numbers  *)
(* are bits, nullable numbers are boxes, the rest are pointers to objects, *)
(* arrays, texts and closures.  What the rules accept (isAssignable) and   *)
(* what is done about it (coerce) are two pieces of code; a value that was *)
(* accepted and not converted is read as what it is not.                   *)
(*                                                                         *)
(* A program is one value on its way: it is assigned, unwrapped, cast,     *)
(* put into and read from a generic object.  The classes are an example:   *)
(* B extends A, Box<T> implements Seq<T>, Seq<T> extends Any.              *)
(***************************************************************************)
EXTENDS Integers, Sequences

CONSTANT Known      \* the known gaps of the code to leave out, from Gaps

(* Types that differ in the nullability of a value type inside them have   *)
(* one shape and one name; instances for different function types have one *)
(* name; a class that implements an interface, and an interface without    *)
(* arguments, are accepted for wildcards whose bounds refuse them; for     *)
(* subtypes wildcards take conversions; a wildcard for reading forbids     *)
(* writing by three names only; a cast to a class without arguments yields *)
(* one with Object for each; the costs of three conversions may outweigh   *)
(* the penalty for narrowing.                                              *)
Gaps == {"nullable inside", "function arguments", "bounds unchecked", "wildcard over values",
         "write by another name", "cast without arguments", "three arguments"}

----------------------------------------------------------------------------
(* Types: kind, nullable, a name for classes, interfaces and wildcards,    *)
(* and what they are made of: elements, arguments, bounds, parameters and  *)
(* a result.                                                               *)

Type(kind, name, parts) == [kind |-> kind, nullable |-> FALSE, name |-> name, parts |-> parts]
Opt(t) == [t EXCEPT !.nullable = TRUE]
NonNull(t) == [t EXCEPT !.nullable = FALSE]
Prim(k) == Type(k, "", <<>>)
Arr(e) == Type("Array", "", <<e>>)
Cls(n, args) == Type("Class", n, args)
Face(n, args) == Type("Interface", n, args)
Fn(p, r) == Type("Func", "", <<p, r>>)
Wild(variance, bound) == Type("Wildcard", variance, bound)

Ranks == [Byte |-> 1, Int |-> 3, UInt |-> 3, Long |-> 4, Double |-> 6]
numericRank(t) == IF t.kind \in DOMAIN Ranks THEN Ranks[t.kind] ELSE 0
isNumeric(t) == numericRank(t) > 0
isFloating(t) == t.kind = "Double"
isValueType(t) == isNumeric(t) \/ t.kind = "Bool"
isBoxedNullable(t) == t.nullable /\ isValueType(t)
hasWildcardArg(t) == \E n \in DOMAIN t.parts : t.parts[n].kind = "Wildcard"

llvmType(t) ==
    CASE t.kind = "Int" \/ t.kind = "UInt" -> "i32" [] t.kind = "Long" -> "i64"
      [] t.kind = "Double" -> "double" [] t.kind \in {"Byte", "Bool"} -> "i8"
      [] OTHER -> "ptr"

Object == Cls("Object", <<>>)
Wrapper == [Int |-> "Integer", UInt |-> "UInt", Long |-> "Long", Double |-> "Double",
            Byte |-> "Byte", Bool |-> "Boolean"]
wrapperClassNameFor(t) == IF t.kind \in DOMAIN Wrapper THEN Wrapper[t.kind] ELSE ""

(* The classes and interfaces of the example.  Any is an interface without *)
(* parameters that Seq extends.                                            *)
Bases(n) ==
    CASE n = "B" -> {"B", "A", "Object"} [] n = "Object" -> {"Object"} [] OTHER -> {n, "Object"}
Implements(c, i) == c = "Box" /\ i \in {"Seq", "Any"}
ExtendsFace(i, j) == i = j \/ (i = "Seq" /\ j = "Any")

(* Same kind, name and parts; whether they are nullable does not count.    *)
RECURSIVE sameShape(_, _)
sameShape(s, t) ==
    /\ s.kind = t.kind /\ s.name = t.name /\ Len(s.parts) = Len(t.parts)
    /\ \A n \in DOMAIN s.parts : sameShape(s.parts[n], t.parts[n])
equals(s, t) == s.nullable = t.nullable /\ sameShape(s, t)

(* The name of an instance of a generic class: nullability, and what a     *)
(* function takes and returns, are left out.                               *)
RECURSIVE monoName(_)
monoName(t) ==
    CASE t.kind = "Func" -> <<"">>
      [] t.kind = "Array" -> <<"Arr">> \o monoName(t.parts[1])
      [] t.kind \in {"Class", "Interface"} ->
            <<t.name>> \o (IF t.parts = <<>> THEN <<>> ELSE monoName(t.parts[1]))
      [] t.kind = "Wildcard" -> <<"_">>
      [] OTHER -> <<t.kind>>

----------------------------------------------------------------------------
(* assignableTo, isAssignable and typeArgPecsAssignable.                   *)

isPrimitiveToWrapper(from, to) ==
    ~from.nullable /\ ~to.nullable /\ to.kind = "Class" /\ wrapperClassNameFor(from) = to.name
isWrapperToPrimitive(from, to) == isPrimitiveToWrapper(to, from)

(* Mutant: two nullable numbers may be assigned like others.               *)
assignableToWidening(from, to) ==
    \/ sameShape(from, to) /\ (to.nullable \/ ~from.nullable)
    \/ ~(from.nullable /\ ~to.nullable) /\ isNumeric(from) /\ isNumeric(to)

(* Without a look at the classes: numbers are widened and narrowed, unless *)
(* both are boxed.                                                         *)
assignableTo(from, to) ==
    /\ from.nullable => to.nullable
    /\ \/ sameShape(from, to)
       \/ /\ ~(from.nullable /\ to.nullable)
          /\ isNumeric(from) /\ isNumeric(to)
          /\ \/ numericRank(from) < numericRank(to)
             \/ ~isFloating(from) /\ ~isFloating(to)
             \/ isFloating(from)

RECURSIVE isAssignable(_, _)
typeArgPecsAssignable(from, to) ==
    \/ equals(from, to)
    \/ /\ to.kind = "Wildcard"
       /\ CASE to.name = "unbounded" -> TRUE
            [] from.kind = "Wildcard" ->
                  /\ from.name = to.name
                  /\ IF to.name = "extends" THEN isAssignable(from.parts[1], to.parts[1])
                     ELSE isAssignable(to.parts[1], from.parts[1])
            [] to.name = "extends" -> isAssignable(from, to.parts[1])
            [] to.name = "super" -> isAssignable(to.parts[1], from)

PecsAssignable(from, to) ==
    /\ hasWildcardArg(to) /\ Len(from.parts) = Len(to.parts)
    /\ \A n \in DOMAIN to.parts : typeArgPecsAssignable(from.parts[n], to.parts[n])

ClassToClass(from, to) ==
    \/ monoName(from) = monoName(to)
    \/ to.parts = <<>> /\ to.name \in Bases(from.name)      \* a base, or the template
ClassToFace(from, to) ==
    \/ Implements(from.name, to.name) /\ PecsAssignable(from, to)
    \/ /\ Implements(from.name, to.name)
       /\ to.parts = <<>> \/ hasWildcardArg(to) \/ Tail(monoName(from)) = Tail(monoName(to))
FaceToFace(from, to) ==
    IF from.name = to.name /\ hasWildcardArg(to) /\ Len(from.parts) = Len(to.parts)
    THEN PecsAssignable(from, to)
    ELSE LET name(t) == IF t.parts = <<>> \/ hasWildcardArg(t) THEN <<t.name>> ELSE monoName(t)
         IN  \/ name(from) = name(to)
             \/ from.name # to.name /\ ExtendsFace(from.name, to.name)

isAssignable(from, to) ==
    \/ ~from.nullable /\ to.nullable /\ sameShape(from, to)
    \/ isPrimitiveToWrapper(from, to) \/ isWrapperToPrimitive(from, to)
    \/ sameShape(to, Object) /\ ~from.nullable /\ isValueType(from)
    \/ assignableTo(from, to)
    \/ /\ from.nullable => to.nullable
       /\ \/ sameShape(to, Object) /\ from.kind \in {"Class", "Interface", "Array", "String", "Func"}
          \/ from.kind = "Class" /\ to.kind = "Class" /\ ClassToClass(from, to)
          \/ from.kind = "Class" /\ to.kind = "Interface" /\ ClassToFace(from, to)
          \/ from.kind = "Interface" /\ to.kind = "Interface" /\ FaceToFace(from, to)

----------------------------------------------------------------------------
(* The types of the example.  Those for which a gap is known are left out. *)

Open(gap) == gap \notin Known
Numbers == {Prim("Byte"), Prim("Int"), Prim("Long"), Prim("Double")}
Lambdas == {Fn(Prim("Int"), Prim("Int")), Fn(Cls("A", <<>>), Cls("A", <<>>))}
Arguments ==
    {Prim("Int"), Prim("Long"), Cls("A", <<>>), Cls("B", <<>>), Object}
    \union (IF Open("nullable inside") THEN {Opt(Prim("Int")), Opt(Cls("A", <<>>))} ELSE {})
    \union (IF Open("function arguments") THEN Lambdas ELSE {})
Wildcards ==
    {Wild("unbounded", <<>>)}
    \union {Wild(variance, <<a>>) : variance \in {"extends", "super"}, a \in Arguments}
NonNullTypes ==
    Numbers \union Lambdas \union Arguments
    \union {Prim("Bool"), Prim("String"), Cls("Integer", <<>>), Cls("Boolean", <<>>),
            Face("Any", <<>>), Face("Seq", <<>>)}
    \union {Arr(a) : a \in Arguments} \union {Cls("Box", <<a>>) : a \in Arguments}
    \union {Face("Seq", <<a>>) : a \in Arguments \union Wildcards}
Types == NonNullTypes \union {Opt(t) : t \in {u \in NonNullTypes : u.kind # "Func"}}

(* What is in a register or a field: bits of a width, a box of a nullable  *)
(* number, an object of a class with the arguments it was made with, an    *)
(* array of elements, a text, a closure, or null.                          *)
Val(rep, of, parts) == [rep |-> rep, of |-> of, parts |-> parts]
Null == Val("null", "", <<>>)
Bits(t) == Val("bits", llvmType(t), <<>>)
Box(t) == Val("box", IF llvmType(t) = "i8" THEN "i32" ELSE llvmType(t), <<>>)
Obj(class, args) == Val("object", class, args)

(* Literals, new objects, arrays and lambdas: what they are at first.      *)
New(t) ==
    (IF t.nullable THEN {Null} ELSE {})
    \union CASE isBoxedNullable(t) -> {Box(t)}
             [] ~t.nullable /\ isValueType(t) -> {Bits(t)}
             [] t.kind = "Class" -> {Obj(t.name, t.parts)}
             [] t.kind \in {"Array", "Func", "String"} -> {Val(t.kind, "", t.parts)}
             [] OTHER -> {}

(* An instance with these arguments can be used through those: what is     *)
(* read is what the reader expects, what is written what the object holds. *)
SubClass(s, t) ==
    /\ s.nullable => t.nullable
    /\ \/ sameShape(s, t)
       \/ ~isValueType(s) /\ sameShape(t, Object)
       \/ s.kind = "Class" /\ t.kind = "Class" /\ t.name \in Bases(s.name)
Contains(arg, t) ==
    IF t.kind # "Wildcard" THEN equals(arg, t)
    ELSE /\ ~isValueType(arg)
         /\ CASE t.name = "unbounded" -> TRUE
              [] t.name = "extends" -> SubClass(arg, t.parts[1])
              [] t.name = "super" -> SubClass(t.parts[1], arg)

Fits(v, t) ==
    CASE v.rep = "null" -> t.nullable
      [] isValueType(t) -> v \in {IF t.nullable THEN Box(t) ELSE Bits(t)}
      [] sameShape(t, Object) \/ t.kind = "TypeParam" -> v.rep \notin {"bits", "box"}
      [] t.kind \in {"Array", "Func", "String"} ->
             v.rep = t.kind /\ \A n \in DOMAIN t.parts : equals(v.parts[n], t.parts[n])
      [] t.kind = "Class" ->
             /\ v.rep = "object" /\ t.name \in Bases(v.of)
             /\ t.parts # <<>> => equals(v.parts[1], t.parts[1])
      [] t.kind = "Interface" ->
             /\ v.rep = "object" /\ Implements(v.of, t.name)
             /\ t.parts # <<>> => Contains(v.parts[1], t.parts[1])

----------------------------------------------------------------------------
(* Mutant: a number goes to Object as it is.                               *)
CoercedUnboxed(v, from, to) ==
    IF sameShape(to, Object) /\ isValueType(from) THEN [val |-> v, type |-> to]
    ELSE IF isNumeric(from) /\ isNumeric(to) THEN [val |-> Bits(to), type |-> to]
    ELSE [val |-> v, type |-> from]

(* coerce: boxes into a wrapper and out of it, converts numbers, boxes a   *)
(* number into a nullable one.  Anything else keeps its value and type.    *)
Coerced(v, from, to) ==
    CASE isPrimitiveToWrapper(from, to) -> [val |-> Obj(to.name, <<>>), type |-> to]
      [] isWrapperToPrimitive(from, to) -> [val |-> Bits(to), type |-> to]
      [] sameShape(to, Object) /\ ~from.nullable /\ wrapperClassNameFor(from) # "" ->
             [val |-> Obj(wrapperClassNameFor(from), <<>>), type |-> to]
      [] isNumeric(from) /\ isNumeric(to) /\ ~from.nullable /\ (to.nullable \/ from.kind # to.kind) ->
             [val |-> IF to.nullable THEN Box(to) ELSE Bits(to), type |-> to]
      [] to.nullable /\ ~from.nullable /\ sameShape(from, to) ->
             [val |-> IF isValueType(to) THEN Box(to) ELSE v, type |-> to]
      [] OTHER -> [val |-> v, type |-> from]

VARIABLES
    value, static,    \* what the program holds, and its static type
    stored,         \* what it last put into a generic object, and the argument this was made with
    lossy           \* an overload narrowed an argument although another applied that did not

vars == <<value, static, stored, lossy>>
Nothing == [val |-> Null, type |-> Opt(Object)]

Init ==
    /\ static \in Types /\ value \in New(static)
    /\ stored = Nothing /\ lossy = FALSE

(* Views over generic objects whose gap is known are left out.             *)
ValueView(from, to) ==
    /\ to.kind = "Interface" /\ to.name = "Seq" /\ from.parts # <<>>
    /\ LET sides == {from.parts[1]} \union {from.parts[1].parts[n] : n \in DOMAIN from.parts[1].parts}
                    \union (IF to.parts = <<>> THEN {} ELSE {to.parts[1].parts[n] : n \in DOMAIN to.parts[1].parts})
       IN  (to.parts = <<>> \/ hasWildcardArg(to)) /\ \E t \in sides : isValueType(t) \/ t.nullable
Refused(from, to) ==
    /\ from.kind = "Class" \/ from.parts = <<>>
    /\ to.kind = "Interface" /\ hasWildcardArg(to) /\ ~PecsAssignable(from, to)
Untold(from, to) ==
    \/ ~Open("wildcard over values") /\ ValueView(from, to)
    \/ ~Open("bounds unchecked") /\ Refused(from, to)

Becomes(v, t) == value' = v /\ static' = t /\ stored' = Nothing /\ lossy' = FALSE

Assign(to) ==
    /\ to \in {t \in Types : isAssignable(static, t)} /\ ~Untold(static, to)
    /\ Becomes(Coerced(value, static, to).val, to)

(* value!!: null stops the program, a box is opened.                       *)
NotNull ==
    /\ static.nullable /\ value # Null
    /\ Becomes(IF isBoxedNullable(static) THEN Bits(NonNull(static)) ELSE value, NonNull(static))

(* hao_type_is against the list of the classes that are of the target.     *)
TypeIs(v, to) ==
    /\ v.rep = "object"
    /\ IF to.kind = "Class"
       THEN IF to.parts = <<>> THEN to.name \in Bases(v.of)
            ELSE monoName(Cls(v.of, v.parts)) = monoName(NonNull(to))
       ELSE /\ Implements(v.of, to.name)
            /\ to.parts = <<>> \/ hasWildcardArg(to) \/ monoName(v.parts[1]) = monoName(to.parts[1])

(* A class or interface without arguments, or with wildcards, becomes the  *)
(* one with Object for each.                                               *)
eraseRawTarget(to) ==
    IF to.name \in {"Seq", "Box"} /\ (to.parts = <<>> \/ hasWildcardArg(to))
    THEN Type(to.kind, to.name, <<Object>>)
    ELSE to
Erased(to) == ~Open("cast without arguments") /\ eraseRawTarget(to) # to

(* value as to: what cannot be told is checked, and stops the program if   *)
(* it fails.                                                               *)
As(to) ==
    IF \/ isPrimitiveToWrapper(static, to) \/ isWrapperToPrimitive(static, to)
       \/ sameShape(to, Object) /\ wrapperClassNameFor(static) # ""
    THEN LET c == Coerced(value, static, to) IN Becomes(c.val, c.type)
    ELSE /\ static.kind \in {"Class", "Interface"} /\ to.kind \in {"Class", "Interface"}
         /\ to \in {t \in Types : isAssignable(static, t) \/ TypeIs(value, t)}
         /\ ~Untold(static, to) /\ ~Erased(to)
         /\ Becomes(value, eraseRawTarget(to))

----------------------------------------------------------------------------
(* Methods of the generic object: one takes a T (add, or another name),    *)
(* one returns a T.  captureTy: through a wildcard, T is its upper bound   *)
(* or Object; without arguments it stays T.                                *)

TypeParam == Type("TypeParam", "T", <<>>)
captureTy(recv) ==
    CASE recv.parts = <<>> -> TypeParam
      [] recv.parts[1].kind # "Wildcard" -> recv.parts[1]
      [] recv.parts[1].name = "extends" -> recv.parts[1].parts[1]
      [] OTHER -> Object

Holder == static.name \in {"Box", "Seq"} /\ ~static.nullable

Get == Holder /\ \E v \in New(value.parts[1]) : Becomes(v, captureTy(static))

(* The name tells whether the method writes.                               *)
MayWrite(name, recv) ==
    ~(hasWildcardArg(recv) /\ recv.parts[1].name # "super" /\ name = "add")
Wanted(name, recv) ==
    IF hasWildcardArg(recv) /\ recv.parts[1].name = "super" /\ name = "add"
    THEN recv.parts[1].parts[1] ELSE captureTy(recv)
Passed(recv) == IF recv.parts = <<>> \/ hasWildcardArg(recv) THEN Object ELSE recv.parts[1]

Put(name, s) ==
    /\ Holder /\ MayWrite(name, static)
    /\ name = "add" \/ ~hasWildcardArg(static) \/ Open("write by another name")
    /\ s \in {t \in Types : isAssignable(t, Wanted(name, static))}
    /\ \E v \in New(s) :
         stored' = [val |-> Coerced(v, s, Passed(static)).val, type |-> value.parts[1]]
    /\ UNCHANGED <<value, static, lossy>>

----------------------------------------------------------------------------
(* selectOverload and selectStaticOverload.                                *)

(* Mutant: narrowing is as cheap as widening.                              *)
CostNarrowing(from, to) ==
    IF numericRank(from) > numericRank(to) THEN numericRank(from) - numericRank(to)
    ELSE numericRank(to) - numericRank(from)

Cost(from, to) ==
    LET fr == numericRank(from) tr == numericRank(to)
    IN  CASE equals(from, to) -> 0
          [] fr > 0 /\ tr > 0 /\ fr < tr -> tr - fr
          [] fr > 0 /\ tr > 0 /\ fr > tr -> fr - tr + 10
          [] OTHER -> 1

RECURSIVE Score(_, _)
Score(args, formals) ==
    IF args = <<>> THEN 0 ELSE Cost(Head(args), Head(formals)) + Score(Tail(args), Tail(formals))
Applicable(args, formals) ==
    Len(args) = Len(formals) /\ \A n \in DOMAIN args : isAssignable(args[n], formals[n])
Best(args, cands) ==
    {c \in cands : /\ Applicable(args, c)
                   /\ \A d \in cands : Applicable(args, d) => Score(args, c) <= Score(args, d)}
Narrows(args, formals) ==
    \E n \in DOMAIN args : numericRank(formals[n]) > 0 /\ numericRank(args[n]) > numericRank(formals[n])

Arity == IF Open("three arguments") THEN 3 ELSE 2
Formals == [1..Arity -> {Prim("Byte"), Prim("Int"), Prim("Double"), Object}]

(* The value is the first argument of a call to a function with these two  *)
(* overloads; the best must be alone.                                      *)
Call(c, d, rest) ==
    LET args == <<static>> \o rest IN
    \E f \in Best(args, {c, d}) :
       /\ Best(args, {c, d}) = {f}
       /\ value' = Coerced(value, static, f[1]).val /\ static' = f[1]
       /\ lossy' = (Narrows(args, f) /\ \E g \in {c, d} : Applicable(args, g) /\ ~Narrows(args, g))
       /\ UNCHANGED stored

Next ==
    \/ \E to \in Types : Assign(to) \/ As(to)
    \/ NotNull \/ Get
    \/ \E s \in {t \in NonNullTypes : t.kind \in {"Byte", "Int", "Class"}} \union {Opt(Cls("A", <<>>))} :
         \E name \in {"add", "push"} : Put(name, s)
    \/ /\ static \in Numbers /\ stored = Nothing
       /\ \E c, d \in Formals : \E rest \in [1..Arity - 1 -> {Prim("Byte"), Prim("Int"), Prim("Double")}] :
            Call(c, d, rest)

Spec == Init /\ [][Next]_vars

(* Whatever is assigned, unwrapped, cast, passed, put into a generic       *)
(* object or read from one is what its static type says.                     *)
WellTyped == Fits(value, static) /\ Fits(stored.val, stored.type)

(* An argument is narrowed only if every overload that applies narrows.    *)
NoNeedlessNarrowing == ~lossy

TypesSound == WellTyped /\ NoNeedlessNarrowing

=============================================================================

----------------------------- MODULE MCCompiler -----------------------------
(***************************************************************************)
(* One instance for parts of the compiler and of what it generates.        *)
(* They share no state.  part says which of Parts runs; the others stay as *)
(* they were at first, so what holds here holds for each part on its own,  *)
(* and what an abstract specification allows is asked of the steps of its  *)
(* own part only.                                                          *)
(***************************************************************************)
EXTENDS NativeHandle, Integers, TLC, Sequences

CONSTANTS
    Parts,      \* the parts to run
    t1, t2, r1, r2, r3,
    NaN, Poison
TwoThreads == {t1, t2}
ThreeRaws == {r1, r2, r3}
Symmetry == Permutations(Threads) \union Permutations(Raws)

VARIABLES
    part,
    acts, exc, shadow, excPc, nextId, end,
    pool, cons, dead, hit, left,
    uses, guard, set, stack, reg, failed, early, runs,
    stage, prog, info, vt,
    todo, regs,
    family, operands, operator, before, type,
    value, static, stored, lossy,
    call, callStep, chosen, argsLeft, trace, received,
    metas, request, reflStep, foundIds, reflRoots, live, reflected, mirrors,
    asks,
    lambdas, turn, now, meant, cells, slot, closures, writes, assigned, held

Frames == INSTANCE ExcFrames WITH
    pc <- excPc, Vals <- {1, 2},
    TryForms <- {[catches |-> <<{1}>>, fin |-> FALSE], [catches |-> <<{1}>>, fin |-> TRUE],
                 [catches |-> <<{1}, {2}>>, fin |-> TRUE]},
    MaxFrames <- 2, CatchNests <- FALSE, FinallyNests <- FALSE, LaterClauses <- FALSE,
    MaxDepth <- 2, MaxNest <- 3, MaxTries <- 3, MaxShadow <- 4

Spill == INSTANCE SpillPool WITH Prealloc <- 3, Untried <- FALSE, MaxSlots <- 4, MaxNest <- 3

Static == INSTANCE StaticInit WITH
    Threads <- {"main"}, Classes <- {"A", "B"}, Nobody <- "none", Pieces <- 2

(* Three classes under Object in every shape; f has two overloads, and a   *)
(* class may declare both in either order.                                 *)
f(sig) == [name |-> "f", sig |-> sig]
g == [name |-> "g", sig |-> ""]
Layout == INSTANCE ClassLayout WITH
    Classes <- {"A", "B", "C"},
    Extends <- {h \in [{"A", "B", "C"} -> {"A", "B", "C", "Object"}] :
                   h["A"] = "Object" /\ h["B"] \in {"Object", "A"} /\ h["C"] # "C"},
    Bodies <- {<<>>, <<f("Int")>>, <<f("Str")>>, <<g, f("Int")>>,
               <<f("Int"), f("Str")>>, <<f("Str"), f("Int")>>},
    Generic <- {"B"}, Late <- FALSE, Twins <- FALSE, Renamed <- FALSE

Temps == INSTANCE TempRoots WITH
    Known <- {"boxed arguments", "boxed elements", "number plus text", "interface property",
              "setter result", "boxed variable"}

Numbers == INSTANCE Arithmetic WITH
    MaxOperands <- 3,
    Known <- {"unsigned with narrower signed", "unequal to NaN", "foretold unsigned",
              "compound of no number"}

Types == INSTANCE TypeRules WITH
    Known <- {"nullable inside", "function arguments", "bounds unchecked", "wildcard over values",
              "write by another name", "cast without arguments", "three arguments"}

(* One function with up to two parameters, with two and a rest, or two     *)
(* overloads whose parameters may be called alike in another order.        *)
Form == INSTANCE CallBinding WITH
    Calls <- {}, Known <- {}, step <- callStep, todo <- argsLeft
NoParams == [names |-> <<>>, types |-> <<>>, rest |-> FALSE, generic |-> FALSE]
Alone == UNION {Form!FunctionsWith(names, {"Int", "[Int]", "Func"}) : names \in {<<>>, <<"a">>, <<"a", "b">>}}
WithRest ==
    {h \in Alone \union Form!FunctionsWith(<<"a", "b", "c">>, {"Int", "[Int]"}) : h.rest}
Overloads ==
    {h \in UNION {Form!FunctionsWith(names, {"Int", "[Int]"}) :
                     names \in {<<"a">>, <<"a", "b">>, <<"b", "a">>}} : ~h.generic}
Calls == INSTANCE CallBinding WITH
    step <- callStep, todo <- argsLeft,
    Calls <- [args : Form!Arguments({"", "a", "b", "other"}, Form!Forms, 2), cands : {{h} : h \in Alone}]
             \union [args : Form!Arguments({"", "a", "b"}, {"number", "number variable", "array variable"}, 3),
                     cands : {{h} : h \in WithRest}]
             \union [args : Form!Arguments({"", "a", "b"}, {"number", "array variable"}, 2),
                     cands : {F \in {{h, k} : h, k \in Overloads} : \E h, k \in F : h # k}],
    Known <- {"rest by reference", "receiver twice", "rest after named"}

(* Tables of one to three classes: methods by their parameters, results    *)
(* and overrides, constructors of a class and its base, a field of each    *)
(* type, and names that end alike.                                         *)
Table == INSTANCE Reflection WITH
    Programs <- {}, Texts <- {}, Threads <- {}, MaxAsks <- 0, Known <- {},
    step <- reflStep, found <- foundIds, roots <- reflRoots, result <- reflected, mirror <- mirrors
Meth(name, params, ret, s) == [name |-> name, params |-> params, ret |-> ret, static |-> s]
PlainMeta == [name |-> <<"demo", "A">>, super |-> <<"object", "Object">>, methods |-> <<>>, fields |-> <<>>,
              abstract |-> FALSE, enum |-> FALSE, declares |-> FALSE, ctor |-> <<>>]
SubMeta == [PlainMeta EXCEPT !.name = <<"demo", "B">>, !.super = PlainMeta.name]
WithMethods(m, n) == <<[PlainMeta EXCEPT !.methods = m], [SubMeta EXCEPT !.methods = n]>>
ParamTypes == {<<t>> : t \in (Table!Scalars \union Table!References) \ {"Long", "ULong"}}
              \union {<<>>, <<"Byte", "Int?">>}
ByMethod ==
    {WithMethods(<<Meth("f", <<"Int">>, r, s)>>, <<>>) :
        r \in Table!Scalars \union Table!References \union {"Unit"}, s \in BOOLEAN}
    \union {WithMethods(<<Meth("f", p, "Int", FALSE)>>, <<>>) : p \in ParamTypes}
    \union {WithMethods(<<Meth("f", p, "Int", FALSE)>>, <<Meth("f", p, "Int", FALSE)>>) : p \in ParamTypes}
    \union {WithMethods(<<Meth("f", <<>>, "Int", TRUE)>>, <<Meth("f", <<>>, "Int", TRUE)>>),
            WithMethods(<<>>, <<Meth("f", <<"Int">>, "Int", FALSE)>>)}
    \union {WithMethods(<<Meth("f", p, "Int", FALSE), Meth("f", <<"Bool">>, "Int", FALSE)>>, <<>>) : p \in {<<"Int">>, <<>>}}
WithCtor(c, abstract, enum, params) ==
    IF params = <<"none">> THEN [c EXCEPT !.abstract = abstract, !.enum = enum]
    ELSE [c EXCEPT !.abstract = abstract, !.enum = enum, !.declares = TRUE, !.ctor = params]
ByCtor ==
    {<<WithCtor(PlainMeta, abstract, FALSE, c), WithCtor(SubMeta, FALSE, enum, d)>> :
        abstract, enum \in BOOLEAN, c \in {<<"none">>, <<>>, <<"Int">>}, d \in {<<"none">>, <<>>, <<"Byte">>, <<"String", "Float">>}}
ByField ==
    {<<[PlainMeta EXCEPT !.fields = <<[name |-> "x", type |-> t, static |-> s]>>]>> :
        t \in {"Int", "UInt", "Byte", "SByte", "Bool", "Long", "ULong", "String", "Int?"}, s \in BOOLEAN}
Class(name, super) == [PlainMeta EXCEPT !.name = name, !.super = super]
EndAlike ==
    {<<Class(<<"a", "demo", "Foo">>, <<>>), Class(<<"demo", "Bar">>, <<"demo", "Foo">>),
       Class(<<"demo", "Foo">>, PlainMeta.super)>>,
     <<Class(<<"a", "Foo">>, <<>>), Class(<<"demo", "Bar">>, <<"a", "Foo">>), Class(<<"demo", "Foo">>, PlainMeta.super)>>}
Mirror == INSTANCE Reflection WITH
    Programs <- {<<PlainMeta>>} \union ByMethod \union ByCtor \union ByField \union EndAlike,
    Texts <- (-5)..4 \union {-20, -17, -16, 7, 8, 15, 16, 31, 32},
    Threads <- {"main", "other"}, MaxAsks <- 2,
    step <- reflStep, found <- foundIds, roots <- reflRoots, result <- reflected, mirror <- mirrors,
    Known <- {"overloads by name", "foreign receiver", "arrays by reference", "references in slots", "thrown through",
              "suffix before name", "base constructor", "arguments for none", "typed without check", "static fields"}

Capture == INSTANCE Captures WITH
    Turns <- 2, MaxWrites <- 4, MaxClosures <- 3,
    prog <- lambdas, memory <- cells, roots <- held,
    Known <- {"one cell for a loop", "through a lambda", "named like a function", "val assigned",
              "captured array parameter", "roots after a lambda"}

framesVars == <<acts, exc, shadow, excPc, nextId, end>>
spillVars == <<pool, cons, dead, hit, left>>
staticVars == <<uses, guard, set, stack, reg, failed, early, runs>>
layoutVars == <<stage, prog, info, vt>>
tempsVars == <<todo, regs>>
numbersVars == <<family, operands, operator, before, type>>
typesVars == <<value, static, stored, lossy>>
callsVars == <<call, callStep, chosen, argsLeft, trace, received>>
mirrorVars == <<metas, request, reflStep, foundIds, reflRoots, live,
                reflected, mirrors, asks>>
capturesVars == <<lambdas, turn, now, meant, cells, slot, closures, writes,
                  assigned, held>>

PartInit ==
    /\ part \in Parts
    /\ part # "static" => uses = [c \in {"A", "B"} |-> <<"none", "none">>]
    /\ part # "layout" => prog = CHOOSE p \in Layout!Programs : \A c \in {"A", "B", "C"} : p.body[c] = <<>>
    /\ part # "temps" => todo = CHOOSE path \in Temps!Constructs : TRUE
    /\ part # "numbers" => family = "bit" /\ type = "Int"
    /\ part # "types" => static = Types!Prim("Bool")
    /\ part # "calls" => call = [args |-> <<>>, cands |-> {NoParams}]
    /\ part # "mirror" => metas = <<PlainMeta>> /\ request = [kind |-> "mirror"]
    /\ part # "captures" => lambdas = CHOOSE p \in Capture!Programs : TRUE
    /\ Init /\ Frames!Init /\ Spill!Init /\ Static!Init /\ Layout!Init
    /\ Temps!Init /\ Numbers!Init /\ Types!Init /\ Calls!Init /\ Mirror!Init
    /\ Capture!Init

PartNext ==
    /\ part' = part
    /\ \/ /\ part = "handle" /\ Next
          /\ UNCHANGED <<framesVars, spillVars, staticVars, layoutVars,
                         tempsVars, numbersVars, typesVars, callsVars,
                         mirrorVars, capturesVars>>
       \/ /\ part = "frames" /\ Frames!Next
          /\ UNCHANGED <<vars, spillVars, staticVars, layoutVars, tempsVars,
                         numbersVars, typesVars, callsVars, mirrorVars,
                         capturesVars>>
       \/ /\ part = "spill" /\ Spill!Next
          /\ UNCHANGED <<vars, framesVars, staticVars, layoutVars, tempsVars,
                         numbersVars, typesVars, callsVars, mirrorVars,
                         capturesVars>>
       \/ /\ part = "static" /\ Static!Next
          /\ UNCHANGED <<vars, framesVars, spillVars, layoutVars, tempsVars,
                         numbersVars, typesVars, callsVars, mirrorVars,
                         capturesVars>>
       \/ /\ part = "layout" /\ Layout!Next
          /\ UNCHANGED <<vars, framesVars, spillVars, staticVars, tempsVars,
                         numbersVars, typesVars, callsVars, mirrorVars,
                         capturesVars>>
       \/ /\ part = "temps" /\ Temps!Next
          /\ UNCHANGED <<vars, framesVars, spillVars, staticVars, layoutVars,
                         numbersVars, typesVars, callsVars, mirrorVars,
                         capturesVars>>
       \/ /\ part = "numbers" /\ Numbers!Next
          /\ UNCHANGED <<vars, framesVars, spillVars, staticVars, layoutVars,
                         tempsVars, typesVars, callsVars, mirrorVars,
                         capturesVars>>
       \/ /\ part = "types" /\ Types!Next
          /\ UNCHANGED <<vars, framesVars, spillVars, staticVars, layoutVars,
                         tempsVars, numbersVars, callsVars, mirrorVars,
                         capturesVars>>
       \/ /\ part = "calls" /\ Calls!Next
          /\ UNCHANGED <<vars, framesVars, spillVars, staticVars, layoutVars,
                         tempsVars, numbersVars, typesVars, mirrorVars,
                         capturesVars>>
       \/ /\ part = "mirror" /\ Mirror!Next
          /\ UNCHANGED <<vars, framesVars, spillVars, staticVars, layoutVars,
                         tempsVars, numbersVars, typesVars, callsVars,
                         capturesVars>>
       \/ /\ part = "captures" /\ Capture!Next
          /\ UNCHANGED <<vars, framesVars, spillVars, staticVars, layoutVars,
                         tempsVars, numbersVars, typesVars, callsVars,
                         mirrorVars>>

partVars == <<part, vars, framesVars, spillVars, staticVars, layoutVars,
              tempsVars, numbersVars, typesVars, callsVars, mirrorVars,
              capturesVars>>
PartSpec == PartInit /\ [][PartNext]_partVars

(* ExcFrames: the value a finally will go on with is rooted, and the whole *)
(* does what TryFinally says.                                              *)
UnwindSound == part = "frames" => Frames!UnwindSound
ImplementsTryFinally ==
    /\ Frames!Structured!Init
    /\ [][part = "frames" => [Frames!Structured!Next]_(Frames!Structured!vars)]_framesVars

(* SpillPool and TempRoots: operands are read as they were stored, and     *)
(* what generated code reads was not freed before.                         *)
OperandsSound ==
    /\ part = "spill" => Spill!OperandsKept
    /\ part = "temps" => Temps!OperandsAlive

(* StaticInit: a class is initialised before it is used.                   *)
InitBeforeUse == part = "static" => Static!InitBeforeUse /\ Static!InitOnce

(* ClassLayout: a call through a table reaches the nearest declaration,    *)
(* and a subclass lays its base's fields and slots out first.              *)
LayoutSound == part = "layout" => Layout!DispatchesToNearest /\ Layout!LayoutIsPrefix

(* Arithmetic, TypeRules and CallBinding: numbers are computed as they are *)
(* typed, values are of their types, and calls pass what they denote.      *)
RulesSound ==
    /\ part = "numbers" => Numbers!ArithmeticSound
    /\ part = "types" => Types!TypesSound
    /\ part = "calls" => Calls!CallsSound

(* Captures and Reflection: a lambda and its function share one variable,  *)
(* and what is done by name is what would be written.                      *)
MeaningKept ==
    /\ part = "captures" => Capture!CapturesSound
    /\ part = "mirror" => Mirror!ReflectionSound
=============================================================================

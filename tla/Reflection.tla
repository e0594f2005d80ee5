------------------------------ MODULE Reflection ------------------------------
(***************************************************************************)
(* Reflection: the table of classes the compiler writes (emitClassMeta),   *)
(* what is looked up in it, calls of methods and constructors by name      *)
(* through generated functions of one shape, fields read and written as    *)
(* text, and the one Class object of each class.                           *)
(*                                                                         *)
(* A call by name passes its arguments in an array of Long, each slot the  *)
(* bits of a value of a type the callee knows.  The widths are scaled: 8,  *)
(* 32 and 64 bits are 2, 3 and 5 here.  What a request comes to is         *)
(* compared with what the same request comes to when it is written in the  *)
(* language: obj.name(args), new C(args), obj.field.                       *)
(***************************************************************************)
EXTENDS Integers, Sequences, FiniteSets

CONSTANTS Programs,     \* tables of classes, in the order of their names
          Texts,        \* numbers that fields are set to
          Threads,      \* ask for Class objects
          MaxAsks,      \* bound: Class objects asked for
          Known         \* the known gaps of the code to leave out, from Gaps

(* A method is found by its name alone; nothing compares the class of the  *)
(* receiver with the class asked; an array is passed where its address is  *)
(* expected; the addresses in an array of Long keep nothing alive; the     *)
(* roots of a call stay when it throws; a name finds a class whose name    *)
(* ends with it before one that has it; a class without a constructor is   *)
(* made although its base asks for arguments; arguments for a constructor  *)
(* without parameters are dropped; fronts for one type return others; a    *)
(* static field is taken for a slot of the object.                         *)
Gaps == {"overloads by name", "foreign receiver", "arrays by reference", "references in slots",
         "thrown through", "suffix before name", "base constructor", "arguments for none",
         "typed without check", "static fields"}
Open(gap) == gap \notin Known

VARIABLES
    metas,      \* hao_all_metas: the classes of the program
    request,    \* what is asked
    step,       \* of the request: "asked", "call", "done"
    found,      \* the method found, in a set
    roots,      \* roots added for the call
    live,       \* the objects that were not collected
    result,
    mirror,     \* classMirror of each class: who made it, or "none"
    asks        \* classOfMeta of each thread, and what it returned before

vars == <<metas, request, step, found, roots, live, result, mirror, asks>>
asked == <<metas, request>>

----------------------------------------------------------------------------
(* Types and the bits of their values.                                     *)

Size == [Int |-> 3, UInt |-> 3, Float |-> 3, Byte |-> 2, SByte |-> 2, Bool |-> 2,
         Long |-> 5, ULong |-> 5, Double |-> 5]
Scalars == DOMAIN Size
Unsigned == {"UInt", "Byte", "Bool", "ULong"}
References == {"String", "Int?", "[Int]"}
Word == 5
Trunc(bits, w) == bits % 2 ^ w
Signed(bits, w) == IF bits < 2 ^ (w - 1) THEN bits ELSE bits - 2 ^ w

(* The number that bits are in a type, and the Long it converts to.        *)
Number(type, bits) == IF type \in Unsigned THEN bits ELSE Signed(bits, Size[type])
AsLong(number) == Trunc(number, Word)

(* Addresses: of objects, of a variable that holds the array, and what is  *)
(* stored at the two where an array is expected by its address.            *)
Object == [String |-> {9}, array |-> {13}, box |-> {17}]
Null == 0
Variable == 21
Deref(address) == IF address = Variable THEN 13 ELSE 2

Bits(type) ==
    CASE type = "Bool" -> {0, 1}
      [] type \in Scalars -> 0..(2 ^ Size[type] - 1)
      [] type = "String" -> Object.String
      [] type = "Int?" -> Object.box \union {Null}
      [] type = "[Int]" -> Object.array
      [] type = "Unit" -> {Null}

(* What a caller puts in a slot: a number as Long, or the bits (dblBits,   *)
(* fltBits, ptrOf).                                                        *)
Slot(type, bits) ==
    IF type \in Scalars \ {"Float", "Double"} THEN AsLong(Number(type, bits)) ELSE bits

----------------------------------------------------------------------------
(* The table and what is looked up in it.                                  *)

Ids == DOMAIN metas
EndsWith(s, t) == Len(s) > Len(t) /\ SubSeq(s, Len(s) - Len(t) + 1, Len(s)) = t

(* strcmp over the table: the parent by its whole name.                    *)
WithName(name) == {i \in Ids : metas[i].name = name}
First(S) == CHOOSE i \in S : \A j \in S : i <= j
Chain[i \in Ids] ==
    IF WithName(metas[i].super) = {} THEN <<i>> ELSE <<i>> \o Chain[First(WithName(metas[i].super))]
InChain(i) == {Chain[i][k] : k \in DOMAIN Chain[i]}

(* Mutant: the base is asked before the class.                             *)
FoundInBase(i, name) ==
    LET has == {k \in DOMAIN Chain[i] : \E n \in DOMAIN metas[Chain[i][k]].methods :
                                           metas[Chain[i][k]].methods[n].name = name}
        k == CHOOSE k \in has : \A h \in has : h <= k
    IN  IF has = {} THEN {}
        ELSE {<<Chain[i][k], First({n \in DOMAIN metas[Chain[i][k]].methods :
                                       metas[Chain[i][k]].methods[n].name = name})>>}

(* find_method: up the chain, the first of the name.                       *)
find_method(i, name) ==
    LET named(k) == {n \in DOMAIN metas[Chain[i][k]].methods :
                        metas[Chain[i][k]].methods[n].name = name}
        has == {k \in DOMAIN Chain[i] : named(k) # {}}
    IN  IF has = {} THEN {} ELSE {<<Chain[i][First(has)], First(named(First(has)))>>}
Method(m) == metas[m[1]].methods[m[2]]

(* classForName: the first class that has the name or ends with it.        *)
classForName(name) ==
    LET fits == {i \in Ids : metas[i].name = name \/ EndsWith(metas[i].name, name)}
    IN  IF fits = {} THEN {} ELSE {First(fits)}
getSuperclass(i) == IF metas[i].super = <<>> THEN {} ELSE classForName(metas[i].super)

Supers[i \in Ids, n \in 0..Len(metas)] ==
    IF n = 0 THEN {i} ELSE {i} \union UNION {Supers[j, n - 1] : j \in getSuperclass(i)}
(* Interfaces are not in the table: none has a Class to be asked with.     *)
isAssignableFrom(i, other) == i \in Supers[other, Len(metas)]

----------------------------------------------------------------------------
(* Requests.                                                               *)

Fronts == {"invoke", "invokeObj", "invokeStr", "invokeBool", "invokeDouble", "invokeFloat", "invokeUnit"}
Fits(front, ret) ==
    CASE front = "invoke" -> ret \in Scalars \union {"Unit"}
      [] front = "invokeObj" -> ret \in References \union {"Unit"}
      [] front = "invokeStr" -> ret = "String"
      [] front = "invokeBool" -> ret = "Bool"
      [] front = "invokeDouble" -> ret = "Double"
      [] front = "invokeFloat" -> ret = "Float"
      [] front = "invokeUnit" -> ret = "Unit"

Methods(i) == UNION {{<<j, n>> : n \in DOMAIN metas[j].methods} : j \in InChain(i)}
Called(i, name) == {m \in Methods(i) : Method(m).name = name}

(* Arguments of the types of a method, or one of them too few.             *)
Args(types) == {a \in [DOMAIN types -> 0..(2 ^ Word - 1)] : \A k \in DOMAIN types : a[k] \in Bits(types[k])}

Invocations(i) ==
    UNION {{[kind |-> "invoke", meta |-> i, receiver |-> r, name |-> Method(m).name, types |-> Method(m).params,
             args |-> a, front |-> f, held |-> h] :
               a \in Args(Method(m).params), f \in Fronts, h \in {TRUE, ~Open("references in slots")},
               r \in {j \in Ids : Open("foreign receiver") \/ i \in InChain(j)}} :
           m \in Methods(i)}
    \union {[kind |-> "invoke", meta |-> i, receiver |-> i, name |-> Method(m).name, types |-> <<>>,
             args |-> <<>>, front |-> "invoke", held |-> TRUE] : m \in Methods(i)}
    \union {[kind |-> "invoke", meta |-> i, receiver |-> i, name |-> "none", types |-> <<>>,
             args |-> <<>>, front |-> "invoke", held |-> TRUE]}
Creations(i) ==
    {[kind |-> "new", meta |-> i, front |-> f, args |-> a] :
        f \in {"newInstance", "newInstanceArgs"},
        a \in Args(metas[i].ctor) \union {<<>>, <<1, 1>>}}
Settings(i) ==
    {[kind |-> "set", meta |-> i, name |-> metas[i].fields[k].name, text |-> x] :
        x \in Texts, k \in {n \in DOMAIN metas[i].fields :
                              ~metas[i].fields[n].static \/ Open("static fields")}}
Questions(i) ==
    {[kind |-> "name", name |-> n] : n \in {metas[i].name, <<metas[i].name[Len(metas[i].name)]>>}}
    \union {[kind |-> "assignable", meta |-> i, other |-> j] : j \in Ids}
Requests ==
    {[kind |-> "mirror"]}
    \union UNION {Invocations(i) \union Creations(i) \union Settings(i) \union Questions(i) : i \in Ids}

(* The gaps that are left out are requests that are not made.              *)
Asked(r) ==
    /\ r.kind = "invoke" =>
          /\ Open("overloads by name")
             \/ \A m, n \in Called(r.meta, r.name) \union Called(r.receiver, r.name) :
                   /\ Method(m).params = Method(n).params /\ Method(m).static = Method(n).static
          /\ Open("arrays by reference") \/ \A k \in DOMAIN r.types : r.types[k] # "[Int]"
          /\ Open("typed without check")
             \/ \A m \in Called(r.meta, r.name) :
                   Fits(r.front, Method(m).ret) \/ r.front \in {"invoke", "invokeObj"}
    /\ r.kind = "new" =>
          /\ Open("base constructor") \/ metas[r.meta].declares
             \/ \A j \in InChain(r.meta) : metas[j].ctor = <<>>
          /\ Open("arguments for none") \/ metas[r.meta].ctor # <<>> \/ r.args = <<>>
    /\ r.kind \in {"name", "assignable"} =>
          \/ Open("suffix before name")
          \/ \A i, j \in Ids : ~EndsWith(metas[i].name, metas[j].name)

Init ==
    /\ metas \in Programs
    /\ request \in {r \in Requests : Asked(r)}
    /\ step = "asked" /\ found = {} /\ roots = {} /\ result = [kind |-> "none"]
    /\ live = Object.String \union Object.array \union Object.box
    /\ mirror = [i \in Ids |-> "none"]
    /\ asks = [t \in Threads |-> [step |-> "idle", meta |-> 1, got |-> {}]]

Done(r) ==
    /\ step' = "done" /\ result' = r
    /\ UNCHANGED <<metas, request, found, live, mirror, asks>>

----------------------------------------------------------------------------
(* A call by name.                                                         *)

(* ensureInvokeArity.                                                      *)
EnsureInvokeArity ==
    /\ step = "asked" /\ request.kind = "invoke"
    /\ LET m == find_method(request.meta, request.name)
       IN  IF \E k \in m : Len(Method(k).params) = Len(request.args)
           THEN /\ found' = m /\ step' = "call"
                /\ roots' = {"receiver", "name", "slots"}
                /\ UNCHANGED <<asked, live, result, mirror, asks>>
           ELSE Done([kind |-> "refused"]) /\ UNCHANGED roots

(* reflect_invoke_core: invoke is for scalars, invokeObj and invokeStr are *)
(* for references and Unit; the others do not look.                        *)
RawScalar(ret) == ret \in Scalars \union {"Unit"}
ModeRefuses(front, ret) ==
    \/ front = "invoke" /\ ~RawScalar(ret)
    \/ front \in {"invokeObj", "invokeStr"} /\ RawScalar(ret) /\ ret # "Unit"

(* Mutant: the roots stay when the front does not fit.                     *)
RefuseKeepsRoots == Done([kind |-> "refused"]) /\ UNCHANGED roots

Refuse == Done([kind |-> "refused"]) /\ roots' = {}

InvokeRefused ==
    /\ step = "call"
    /\ \E m \in found : ModeRefuses(request.front, Method(m).ret)
    /\ Refuse

(* What keeps an argument alive is a variable of the caller.               *)
Collect ==
    /\ step = "call" /\ ~request.held
    /\ live' = live \ {request.args[k] : k \in DOMAIN request.args}
    /\ UNCHANGED <<metas, request, step, found, roots, result, mirror, asks>>

(* The function emitInvokeThunk makes: what is loaded from a slot, ...     *)
Taken(type, slot) == IF type \in Scalars THEN Trunc(slot, Size[type]) ELSE slot

(* Mutant: every result is extended with its sign.                         *)
ReturnedSigned(type, bits) ==
    IF type \in Scalars \ {"Float", "Double"} THEN AsLong(Signed(bits, Size[type])) ELSE bits

(* ... and what is returned.                                               *)
Returned(type, bits) ==
    IF type \in Scalars \ {"Float", "Double"} THEN AsLong(Number(type, bits)) ELSE bits

(* What the fronts make of it.                                             *)
FrontValue(front, ret, r) ==
    CASE front = "invokeBool" -> Trunc(r, Size.Bool)
      [] front = "invokeFloat" -> Trunc(r, Size.Float)
      [] front = "invokeUnit" -> Null
      [] front \in {"invokeObj", "invokeStr"} /\ ret = "Unit" -> Null
      [] OTHER -> r

(* An array parameter is the address of a variable to its function.        *)
Received(type, p) == IF type = "[Int]" THEN Deref(p) ELSE p

(* Through the receiver's table of methods, unless it is static: the       *)
(* nearest with the signature of the one found.                            *)
Dispatch(m) ==
    LET same(j) == {n \in DOMAIN metas[j].methods :
                       /\ metas[j].methods[n].name = Method(m).name
                       /\ metas[j].methods[n].params = Method(m).params /\ ~metas[j].methods[n].static}
        chain == Chain[request.receiver]
        has == {k \in DOMAIN chain : same(chain[k]) # {}}
    IN  IF Method(m).static THEN {m}
        ELSE IF has = {} THEN {} ELSE {<<chain[First(has)], First(same(chain[First(has)]))>>}

Slots == [k \in DOMAIN request.args |-> Slot(request.types[k], request.args[k])]
CallThunk ==
    /\ step = "call"
    /\ \E m \in found :
        /\ ~ModeRefuses(request.front, Method(m).ret)
        /\ \E r \in Bits(Method(m).ret) :
              Done([kind |-> "value", ran |-> Dispatch(m), gave |-> r, ret |-> Method(m).ret,
                    got |-> [k \in DOMAIN Slots |->
                                Received(Method(m).params[k], Taken(Method(m).params[k], Slots[k]))],
                    value |-> FrontValue(request.front, Method(m).ret, Returned(Method(m).ret, r))])
    /\ roots' = {}

(* longjmp leaves the roots behind.                                        *)
CallThrows ==
    /\ step = "call" /\ Open("thrown through")
    /\ Done([kind |-> "thrown"]) /\ UNCHANGED roots

(* hao_reflect_new_instance(_args) and the function emitNewFactory makes.  *)
HasFactory(i) == ~metas[i].abstract /\ ~metas[i].enum
NewInstance ==
    /\ step = "asked" /\ request.kind = "new"
    /\ LET c == metas[request.meta]
           given == IF request.front = "newInstance" THEN <<>> ELSE request.args
           refused == \/ ~HasFactory(request.meta)
                      \/ c.ctor # <<>> /\ Len(given) # Len(c.ctor)
       IN  Done(IF refused THEN [kind |-> "refused"]
                ELSE [kind |-> "object",
                      got |-> [k \in DOMAIN c.ctor |-> Taken(c.ctor[k], Slot(c.ctor[k], given[k]))]])
    /\ UNCHANGED roots

----------------------------------------------------------------------------
(* Fields as text.                                                         *)

FieldOf(i, name) == First({k \in DOMAIN metas[i].fields : metas[i].fields[k].name = name})

(* Mutant: a number of 32 bits is taken for every width.                   *)
ParsedWide(type, n) == type \in Scalars /\ n \in (IF type \in Unsigned THEN 0..7 ELSE -4..3)

(* hao_reflect_field_set takes a number of the range of the type, and any  *)
(* text for a String; other references are not set.                        *)
Parsed(type, n) ==
    CASE type = "String" -> TRUE
      [] type = "Bool" -> n \in {0, 1}
      [] type \in Unsigned -> n \in 0..(2 ^ Size[type] - 1)
      [] type \in Scalars -> n \in -(2 ^ (Size[type] - 1))..(2 ^ (Size[type] - 1) - 1)
      [] OTHER -> FALSE
Stored(type, n) == IF type = "String" THEN n ELSE Trunc(n, Size[type])

(* hao_reflect_field_bits_at, by the type of the field, and getFieldAt.    *)
BitsAt(type, bits) == IF type = "String" THEN bits ELSE AsLong(Number(type, bits))
Shown(type, long) == IF type = "String" THEN long ELSE Number(type, Trunc(long, Size[type]))

(* setField, then getField.                                                *)
SetField ==
    /\ step = "asked" /\ request.kind = "set"
    /\ LET k == FieldOf(request.meta, request.name)
           type == metas[request.meta].fields[k].type
           static == metas[request.meta].fields[k].static
       IN  IF Parsed(type, request.text)
           THEN Done([kind |-> "set", type |-> type, inPlace |-> ~static,
                      shown |-> Shown(type, BitsAt(type, Stored(type, request.text)))])
           ELSE Done([kind |-> "refused", type |-> type])
    /\ UNCHANGED roots

----------------------------------------------------------------------------
(* Classes by name, and the Class objects.                                 *)

Answer ==
    /\ step = "asked" /\ request.kind \in {"name", "assignable"}
    /\ Done(IF request.kind = "name"
            THEN [kind |-> "class", is |-> classForName(request.name)]
            ELSE [kind |-> "answer", is |-> isAssignableFrom(request.meta, request.other)])
    /\ UNCHANGED roots

Tries(t) == Cardinality(asks[t].got)
Asks(t, s) ==
    /\ asks' = [asks EXCEPT ![t] = s]
    /\ UNCHANGED <<metas, request, step, found, roots, live, result>>

(* typeOf, typeAt, TypeName.Class: all ask classOfMeta, which loads, ...   *)
AskClass(t) ==
    /\ request.kind = "mirror" /\ asks[t].step = "idle" /\ Tries(t) < MaxAsks
    /\ \E i \in Ids :
          Asks(t, IF mirror[i] # "none" THEN [asks[t] EXCEPT !.got = @ \union {<<i, mirror[i]>>}]
                  ELSE [asks[t] EXCEPT !.step = "set", !.meta = i])
    /\ UNCHANGED mirror

(* Mutant: the last to come stays.                                         *)
SetMirrorLast(t) ==
    /\ asks[t].step = "set"
    /\ mirror' = [mirror EXCEPT ![asks[t].meta] = t]
    /\ Asks(t, [asks[t] EXCEPT !.step = "idle", !.got = @ \union {<<asks[t].meta, t>>}])

(* ... makes an object and exchanges it for null, or takes the other.      *)
SetClassMirror(t) ==
    /\ asks[t].step = "set"
    /\ LET i == asks[t].meta
           wins == mirror[i] = "none"
       IN  /\ mirror' = IF wins THEN [mirror EXCEPT ![i] = t] ELSE mirror
           /\ Asks(t, [asks[t] EXCEPT !.step = "idle",
                                      !.got = @ \union {<<i, IF wins THEN t ELSE mirror[i]>>}])

Next ==
    \/ EnsureInvokeArity \/ InvokeRefused \/ Collect \/ CallThunk \/ CallThrows
    \/ NewInstance \/ SetField \/ Answer
    \/ \E t \in Threads : AskClass(t) \/ SetClassMirror(t)

Spec == Init /\ [][Next]_vars

----------------------------------------------------------------------------
(* A call by name runs what obj.name(args) runs, with the arguments as     *)
(* they were given, returns what it returned, and is refused only when     *)
(* there is no such method or the front is for other types.                *)
Direct ==
    LET visible == {m \in Called(request.meta, request.name) : Method(m).params = request.types}
        nearest == {m \in visible : \A n \in visible : m[1] = n[1] \/ n[1] \in InChain(m[1])}
    IN  UNION {Dispatch(m) : m \in nearest}
InvokedAsWritten ==
    step = "done" /\ request.kind = "invoke" =>
        /\ result.kind = "value" =>
              /\ result.ran = Direct /\ Direct # {}
              /\ result.got = request.args
              /\ \A k \in DOMAIN request.types :
                    request.types[k] \in References => request.args[k] \in live \union {Null}
              /\ Fits(request.front, result.ret)
              /\ result.value = IF result.ret = "Unit" THEN Null
                                ELSE IF request.front = "invoke" THEN Slot(result.ret, result.gave)
                                ELSE result.gave
        /\ result.kind = "refused" => \A m \in Direct : ~Fits(request.front, Method(m).ret)

(* No call leaves a root behind.                                           *)
RootsGivenBack == step = "done" => roots = {}

(* newInstance and newInstanceArgs make what new C(args) makes, and null   *)
(* where the language refuses it.                                          *)
NewByLanguage(i, n) ==
    /\ ~metas[i].abstract /\ ~metas[i].enum
    /\ n = Len(metas[i].ctor)
    /\ metas[i].declares \/ \A j \in InChain(i) : metas[j].ctor = <<>>
MadeAsWritten ==
    step = "done" /\ request.kind = "new" =>
        LET n == IF request.front = "newInstance" THEN 0 ELSE Len(request.args)
        IN  /\ (result.kind = "object") = NewByLanguage(request.meta, n)
            /\ result.kind = "object" => Len(result.got) = n /\ \A k \in 1..n : result.got[k] = request.args[k]

(* A field takes the numbers of its type and is read as what it was set to.*)
Ranges == [Int |-> -4..3, UInt |-> 0..7, Byte |-> 0..3, SByte |-> -2..1, Bool |-> 0..1,
           Long |-> -16..15, ULong |-> 0..31]
ReadAsSet ==
    step = "done" /\ request.kind = "set" =>
        /\ (result.kind = "set") <=>
              \/ result.type = "String"
              \/ result.type \in DOMAIN Ranges /\ request.text \in Ranges[result.type]
        /\ result.kind = "set" => result.shown = request.text /\ result.inPlace

(* A whole name finds its class, and classes are assignable as declared.   *)
NamesResolved ==
    step = "done" =>
        /\ request.kind = "name" /\ WithName(request.name) # {} => result.is = WithName(request.name)
        /\ request.kind = "assignable" =>
              result.is = (request.meta \in InChain(request.other))

(* Every class has one Class object for all who ask.                       *)
OneMirror == \A s, t \in Threads : \A a \in asks[s].got, b \in asks[t].got : a[1] = b[1] => a = b

ReflectionSound ==
    InvokedAsWritten /\ RootsGivenBack /\ MadeAsWritten /\ ReadAsSet /\ NamesResolved /\ OneMirror
=============================================================================

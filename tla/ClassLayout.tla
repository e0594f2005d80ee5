---------------------------- MODULE ClassLayout -----------------------------
(***************************************************************************)
(* Fields, virtual methods and tables of methods, as src/irgen/            *)
(* IRGenClass.cpp lays them out in the stages of IRGen::generate.  Init    *)
(* picks a program: who extends whom, what each class declares, which      *)
(* classes implement an interface.  A class in Generic is the instance of  *)
(* a generic class: it is made where it is first mentioned, which may be   *)
(* the header of a class (before the inheritance is resolved) or the body  *)
(* of a function (after it).                                               *)
(*                                                                         *)
(* A slot is written as the key the compiler numbers it by; one more field *)
(* than the pointer to the table of methods is declared by every class.    *)
(***************************************************************************)
EXTENDS Naturals, Sequences, SequencesExt, FiniteSets, Functions

CONSTANTS
    Classes,        \* without Object
    Extends,        \* the class hierarchies: functions from Classes to classes
    Bodies,         \* what a class may declare: sequences of [name, sig]
    Generic,        \* the classes that are instances of generic classes
    Late,           \* may one be mentioned in function bodies only?
    Twins,          \* may one declare two methods of a name?
    Renamed         \* may a method have the bare name in one class of a chain and the
                    \* name with parameter types in another?

VARIABLES
    stage,      \* of IRGen::generate
    prog,       \* the program: base, body, impl, and if the method of the interface has a body
    info,       \* classes_
    vt          \* vtableEntries
vars == <<stage, prog, info, vt>>

Object == "Object"
None == <<>>        \* no slot (-1), and the "null" of a table
Pair(m) == <<m.name, m.sig>>

(* The interfaces: "Face" declares f, and "Sub" inherits it.  Both have a  *)
(* slot of their own for it.                                               *)
FaceMethod == [name |-> "f", sig |-> "Int"]
FaceIr == <<"Face", "f", "default">>
WithParents(impl) == impl \cup (IF "Sub" \in impl THEN {"Face"} ELSE {})

Body(c) == IF c = Object THEN <<[name |-> "g", sig |-> ""]>> ELSE prog.body[c]

(* instanceMethodIRName: the first method of a name has it bare, and so do *)
(* all methods of a generic instance.                                      *)
IrName(c, k) ==
    LET m == Body(c)[k]
        needsSuffix == c \notin Generic /\ \E j \in 1 .. k - 1 : Body(c)[j].name = m.name
    IN <<c, m.name, IF needsSuffix THEN m.sig ELSE "">>

(* The class and its bases, the class first.                               *)
Chain[c \in Classes \cup {Object}] ==
    IF c = Object THEN <<Object>> ELSE <<c>> \o Chain[prog.base[c]]

(* The members of a class before it is linked to its base.                 *)
Members(c, base) ==
    [linked |-> {c}, fields |-> IF c = Object THEN <<>> ELSE <<[owner |-> c, slot |-> base]>>,
     methods |-> [k \in DOMAIN Body(c) |->
                     [name |-> Body(c)[k].name, sig |-> Body(c)[k].sig,
                      ir |-> IrName(c, k), slot |-> None]]]

---------------------------------------------------------------------------
(* The stages.                                                             *)

(* registerClassNames, collectClassMembers; instantiateClass for what the  *)
(* headers mention, the bases of what is mentioned included.               *)
Collect(early) ==
    /\ stage = "collect"
    /\ early \subseteq Generic /\ (Late \/ early = Generic)
    /\ LET made == {Object} \cup early \cup (Classes \ Generic)
       IN /\ \A c \in made \ {Object} : prog.base[c] \in made
          /\ info' = [c \in made |-> Members(c, IF c \in Generic THEN 1 ELSE 0)]
    /\ stage' = "inherit"
    /\ UNCHANGED <<prog, vt>>

(* Mutant: what is inherited is put after what is declared.                *)
OwnFieldsFirst(base, own) ==
    [i \in DOMAIN own |-> [own[i] EXCEPT !.slot = i - 1]] \o
    [i \in DOMAIN base |-> [base[i] EXCEPT !.slot = Len(own) + i - 1]]

(* The fields of the base keep their slots, the others follow.             *)
MergedFields(base, own) ==
    base \o [i \in DOMAIN own |-> [own[i] EXCEPT !.slot = Len(base) + i - 1]]

(* A method of the base with the same signature is overridden in place.    *)
MergedMethods(base, own) ==
    FoldLeft(LAMBDA ms, m :
                LET same == {i \in DOMAIN ms : Pair(ms[i]) = Pair(m)}
                IN IF same = {} THEN Append(ms, m)
                   ELSE [i \in DOMAIN ms |-> IF i \in same THEN [m EXCEPT !.slot = ms[i].slot]
                                             ELSE ms[i]],
             base, own)

(* resolveInheritance, base classes first.                                 *)
Flat[c \in DOMAIN info] ==
    IF c = Object THEN info[c]
    ELSE LET b == Flat[prog.base[c]]
         IN [linked |-> b.linked \cup {c},
             fields |-> MergedFields(b.fields, info[c].fields),
             methods |-> MergedMethods(b.methods, info[c].methods)]

ResolveInheritance ==
    /\ stage = "inherit"
    /\ info' = Flat
    /\ stage' = "slots"
    /\ UNCHANGED <<prog, vt>>

(* methodSlotKey's root: the first class of the chain to have the method.  *)
Declares(p, m) == \E i \in DOMAIN info[p].methods : Pair(info[p].methods[i]) = Pair(m)

(* Mutant: the class that declares the method last.                        *)
RootIsOwner(c, m) == m.ir[1]

Root(c, m) ==
    CHOOSE p \in info[c].linked :
        /\ Declares(p, m)
        /\ \A q \in info[c].linked : Declares(q, m) => info[p].linked \subseteq info[q].linked

(* Its leaf is what follows the class in the name of the method.           *)
SlotKey(c, m) == <<Root(c, m), m.ir[2], m.ir[3]>>

Shifted(fields) == [i \in DOMAIN fields |-> [fields[i] EXCEPT !.slot = @ + 1]]

Slotted(c) == [i \in DOMAIN info[c].methods |->
                 [info[c].methods[i] EXCEPT !.slot = SlotKey(c, info[c].methods[i])]]

AssignVtableSlots ==
    /\ stage = "slots"
    /\ info' = [c \in DOMAIN info |->
                   [info[c] EXCEPT !.fields = Shifted(@), !.methods = Slotted(c)]]
    /\ stage' = "codegen"
    /\ UNCHANGED <<prog, vt>>

(* genUnitTopLevel: classes that only function bodies mention are          *)
(* instantiated while code is generated.                                   *)
GenerateCode(late) ==
    /\ stage = "codegen"
    /\ late \subseteq Generic \ DOMAIN info
    /\ \A c \in late : prog.base[c] \in DOMAIN info \cup late
    /\ info' = [d \in DOMAIN info \cup late |-> IF d \in late THEN Members(d, 1) ELSE info[d]]
    /\ stage' = "fill"
    /\ UNCHANGED <<prog, vt>>

(* findMethodMut: the first method of that name.                           *)
ByName(c, n) ==
    LET is == {i \in DOMAIN info[c].methods : info[c].methods[i].name = n}
    IN IF is = {} THEN {} ELSE {info[c].methods[CHOOSE i \in is : \A j \in is : i <= j]}

(* The interfaces of c and of the classes it is linked to.                 *)
Faces(c) == UNION {WithParents(prog.impl[p]) : p \in info[c].linked \ {Object}}

Accepted(c) ==
    Faces(c) # {} =>
        LET cm == ByName(c, FaceMethod.name)
        IN IF cm = {} THEN prog.hasDefault ELSE \A m \in cm : m.sig = FaceMethod.sig

FaceSlot(i) == <<i, FaceMethod.name>>
Entries(c) ==
    LET ms == info[c].methods
        own == {ms[i].slot : i \in DOMAIN ms} \ {None}
        cm == ByName(c, FaceMethod.name)
        faces == {FaceSlot(i) : i \in Faces(c)}
        first(s) == CHOOSE i \in DOMAIN ms :
                        ms[i].slot = s /\ \A j \in 1 .. i - 1 : ms[j].slot # s
    IN [s \in own \cup faces |->
           IF s \in faces
           THEN IF cm = {} THEN FaceIr ELSE (CHOOSE m \in cm : TRUE).ir
           ELSE ms[first(s)].ir]

(* fillVtableEntries                                                       *)
FillVtableEntries ==
    /\ stage = "fill"
    /\ IF \A c \in DOMAIN info : Accepted(c)
       THEN vt' = [c \in DOMAIN info |-> Entries(c)] /\ stage' = "done"
       ELSE stage' = "rejected" /\ vt' = vt
    /\ UNCHANGED <<prog, info>>

Programs ==
    [base : Extends, body : [Classes -> Bodies],
     impl : {[c \in Classes |-> IF c = d THEN {i} ELSE {}] : d \in Classes, i \in {"Face", "Sub"}},
     hasDefault : BOOLEAN]

(* Every name stands for one method, and an override is named like what it *)
(* overrides.                                                              *)
OneName(c) == Cardinality({m.name : m \in Range(Body(c))}) = Len(Body(c))
NamedAlike(c, d) ==
    \A k \in DOMAIN Body(c), j \in DOMAIN Body(d) :
        Body(c)[k] = Body(d)[j] => IrName(c, k)[3] = IrName(d, j)[3]

Init ==
    /\ stage = "collect" /\ prog \in Programs /\ info = <<>> /\ vt = <<>>
    /\ Twins \/ \A c \in Generic : OneName(c)
    /\ Renamed \/ \A c \in Classes : \A d \in Range(Chain[c]) : NamedAlike(c, d)

Next ==
    \/ \E early \in SUBSET Generic : Collect(early)
    \/ ResolveInheritance \/ AssignVtableSlots
    \/ \E late \in SUBSET Generic : GenerateCode(late)
    \/ FillVtableEntries

Spec == Init /\ [][Next]_vars

---------------------------------------------------------------------------
(* Properties: the compiled program against the source.                    *)

Sees(c, m) == \E d \in Range(Chain[c]) : m \in Range(Body(d))
(* The code the source means by m on an object of class c.                 *)
Nearest(c, m) ==
    LET i == CHOOSE i \in DOMAIN Chain[c] :
                 /\ m \in Range(Body(Chain[c][i]))
                 /\ \A j \in 1 .. i - 1 : m \notin Range(Body(Chain[c][j]))
    IN <<Chain[c][i], m>>
(* The code that goes by a name; two pieces if two got the same name.      *)
Named(ir) == {<<ir[1], Body(ir[1])[k]>> : k \in {j \in DOMAIN Body(ir[1]) : IrName(ir[1], j) = ir}}
Code(ir) == IF ir = None THEN {} ELSE Named(ir)

Entry(c, s) == IF s \in DOMAIN vt[c] THEN vt[c][s] ELSE None

(* applyMethodCall on a receiver of static type t: through the table if    *)
(* the method has a slot, else the method t itself has.                    *)
Called(c, t, m) ==
    LET i == CHOOSE i \in DOMAIN info[t].methods : Pair(info[t].methods[i]) = Pair(m)
        mi == info[t].methods[i]
    IN IF mi.slot # None THEN Entry(c, mi.slot) ELSE mi.ir

(* A method called through any class or interface an object may be seen    *)
(* as is the one its own class declares or inherits, overloads apart.      *)
DispatchesToNearest ==
    stage = "done" => \A c \in DOMAIN info :
        /\ \A t \in Range(Chain[c]) :
               \A m \in UNION {Range(Body(d)) : d \in Range(Chain[t])} :
                   Declares(t, m) /\ Code(Called(c, t, m)) = {Nearest(c, m)}
        /\ \A d \in Range(Chain[c]) \ {Object} : \A i \in WithParents(prog.impl[d]) :
               LET ir == Entry(c, FaceSlot(i))
               IN IF Sees(c, FaceMethod) THEN Code(ir) = {Nearest(c, FaceMethod)}
                  ELSE prog.hasDefault /\ ir = FaceIr

(* An object has every field its classes declare, each where every one of  *)
(* these classes has it, and none in the place of the table of methods.    *)
Slot(c, owner) == {f.slot : f \in {f \in Range(info[c].fields) : f.owner = owner}}
LayoutIsPrefix ==
    stage \in {"codegen", "fill", "done"} => \A c \in DOMAIN info :
        /\ \A t \in Range(Chain[c]) \ {Object} :
               \A d \in Range(Chain[t]) \ {Object} : Slot(c, d) = Slot(t, d) /\ Slot(c, d) # {}
        /\ {f.slot : f \in Range(info[c].fields)} = 1 .. Len(Chain[c]) - 1

(* A program is not refused while every class that must has the method.    *)
ValidAccepted ==
    stage = "rejected" => \E c \in DOMAIN info : Faces(c) # {} /\ ~Sees(c, FaceMethod)
=============================================================================

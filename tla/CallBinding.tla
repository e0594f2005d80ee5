------------------------------ MODULE CallBinding ------------------------------
(***************************************************************************)
(* How the arguments of a call reach the parameters of the function.       *)
(* Arguments are positional, then named; the last parameter may take the   *)
(* rest, packed into a new array.  Overloads are bound first and chosen by *)
(* the types of the evaluated arguments.  A parameter of an array type is  *)
(* passed by reference: the address of the variable or field the argument  *)
(* names, which is found after all arguments were evaluated, in a second   *)
(* walk over the argument's expression.                                    *)
(*                                                                         *)
(* A program is one call.  What its parameters receive and in which order  *)
(* the arguments were evaluated is compared with what the call denotes.    *)
(***************************************************************************)
EXTENDS Integers, Sequences, FiniteSets

CONSTANTS Calls,        \* the calls to make: arguments and overloads
          Known         \* the known gaps of the code to leave out, from Gaps

(* The address of the first of several packed arguments is passed instead  *)
(* of the array's when it is a variable or a field; the receiver of an     *)
(* array field is evaluated again for the address; fixed parameters before *)
(* a rest are evaluated in the order of the parameters.                    *)
Gaps == {"rest by reference", "receiver twice", "rest after named"}

Open(gap) == gap \notin Known

Forms == {"number", "number variable", "number field", "array", "array variable", "array field", "lambda"}
TypeOf(form) ==
    CASE form \in {"number", "number variable", "number field"} -> "Int"
      [] form = "lambda" -> "Func" [] OTHER -> "[Int]"
HasAddress(form) == form \notin {"number", "array", "lambda"}
HasReceiver(form) == form \in {"number field", "array field"}

Seqs(S, n) == UNION {[1..m -> S] : m \in 0..n}
Distinct(s) == \A i, j \in DOMAIN s : s[i] = s[j] => i = j

(* A function: the names and types of its parameters, whether the last     *)
(* takes the rest, and whether it is generic.                              *)
FunctionsWith(names, Types) ==
    {f \in [names : {names}, types : [DOMAIN names -> Types], rest : BOOLEAN, generic : BOOLEAN] :
        f.rest => names # <<>> /\ f.types[Len(names)] = "[Int]" /\ ~f.generic}
Arguments(Names, Fs, n) == Seqs([name : Names, form : Fs], n)

VARIABLES
    call,           \* the arguments, each a name, "" for a positional one, and a form; the overloads
    step,           \* "bind", "evaluate", "pass", "called" or "refused"
    chosen,         \* the function called, in a set
    todo,           \* the arguments still to evaluate, in order
    trace,          \* the arguments evaluated, in order
    received        \* what each parameter receives

vars == <<call, step, chosen, todo, trace, received>>

args == call.args
cands == call.cands

Init ==
    /\ call \in Calls
    /\ step = "bind" /\ chosen = {} /\ todo = <<>> /\ trace = <<>> /\ received = <<>>

----------------------------------------------------------------------------
(* bindCallArgExprs: the parameter of each argument, or 0.                 *)

Named(n) == args[n].name # ""
argListHasNamed == \E n \in DOMAIN args : Named(n)
Slots(f) ==
    [n \in DOMAIN args |->
        IF ~Named(n) THEN n
        ELSE IF \E p \in DOMAIN f.names : f.names[p] = args[n].name
             THEN CHOOSE p \in DOMAIN f.names : f.names[p] = args[n].name ELSE 0]

InOrder == \A n, m \in DOMAIN args : Named(n) /\ n < m => Named(m)
bindCallArgExprs(f) ==
    /\ Len(args) = Len(f.names) /\ InOrder
    /\ \A n \in DOMAIN args : Slots(f)[n] # 0
    /\ Distinct(Slots(f))

(* The rest: named arguments are among the fixed, none after it.           *)
Fixed(f) == Len(f.names) - 1
FixedArgs(f) == {n \in DOMAIN args : n <= Fixed(f)}
bindRest(f) ==
    /\ Len(args) >= Fixed(f) /\ InOrder
    /\ \A n \in DOMAIN args : Named(n) => n <= Fixed(f) /\ Slots(f)[n] \in 1..Fixed(f)
    /\ \A n, m \in FixedArgs(f) : Slots(f)[n] = Slots(f)[m] => n = m
RestArgs(f) == [i \in 1..(Len(args) - Fixed(f)) |-> Fixed(f) + i]

ArgOf(f, p) == CHOOSE n \in DOMAIN args : Slots(f)[n] = p

(* Mutant: arguments are evaluated in the order of the parameters.         *)
OrderOfParameters(f) ==
    [p \in 1..(IF f.rest THEN Fixed(f) ELSE Len(f.names)) |-> ArgOf(f, p)]
       \o (IF f.rest THEN RestArgs(f) ELSE <<>>)

(* Fixed parameters of a function with a rest are evaluated in the order   *)
(* of the parameters, lambdas of a generic function after the others.      *)
Order(f) ==
    LET all == [n \in DOMAIN args |-> n]
        lambda(n) == args[n].form = "lambda"
    IN  IF f.generic THEN SelectSeq(all, LAMBDA n : ~lambda(n)) \o SelectSeq(all, lambda)
        ELSE IF f.rest THEN [p \in 1..Fixed(f) |-> ArgOf(f, p)] \o RestArgs(f)
        ELSE all

Refuse == step' = "refused" /\ UNCHANGED <<call, chosen, todo, trace, received>>
Evaluate(F, order) ==
    /\ step' = "evaluate" /\ chosen' = F /\ todo' = order
    /\ UNCHANGED <<call, trace, received>>

(* One function: collectCallArgsForFormals, callGenericFunction.           *)
BindOne ==
    /\ step = "bind" /\ Cardinality(cands) = 1
    /\ \E f \in cands :
         IF IF f.rest THEN bindRest(f) ELSE bindCallArgExprs(f)
         THEN Evaluate({f}, Order(f)) ELSE Refuse

(* Several: collectCallArgsForMethodOverload and -SymbolOverload.  Without *)
(* names all are still in question when the arguments are evaluated, and   *)
(* with them those that bind; a rest is a parameter like the others.       *)
BindOverloads ==
    /\ step = "bind" /\ Cardinality(cands) = 2
    /\ LET bindable == IF argListHasNamed THEN {f \in cands : bindCallArgExprs(f)} ELSE cands
       IN  IF bindable = {} THEN Refuse ELSE Evaluate(bindable, [n \in DOMAIN args |-> n])

EvaluateNext ==
    /\ step = "evaluate" /\ todo # <<>>
    /\ trace' = Append(trace, Head(todo)) /\ todo' = Tail(todo)
    /\ UNCHANGED <<call, step, chosen, received>>

(* selectOverload and selectStaticOverload on these types: all parameters  *)
(* must have the argument's type, and one function is left.                *)
Takes(f, p, n) == f.types[p] = TypeOf(args[n].form)
Suits(f) ==
    /\ Len(f.names) = Len(args)
    /\ \A n \in DOMAIN args : Takes(f, IF Named(n) THEN Slots(f)[n] ELSE n, n)

Packs(f) == f.rest /\ Cardinality(cands) = 1
PassedOn(f) ==
    LET rest == RestArgs(f) IN Len(rest) = 1 /\ TypeOf(args[rest[1]].form) = "[Int]"
SuitsRest(f) ==
    /\ \A n \in FixedArgs(f) : Takes(f, Slots(f)[n], n)
    /\ PassedOn(f) \/ \A n \in DOMAIN args \ FixedArgs(f) : TypeOf(args[n].form) = "Int"

Choose ==
    /\ step = "evaluate" /\ todo = <<>>
    /\ LET F == {f \in chosen : IF Packs(f) THEN SuitsRest(f) ELSE Suits(f)}
       IN  IF Cardinality(F) = 1
           THEN step' = "pass" /\ chosen' = F /\ UNCHANGED <<call, todo, trace, received>>
           ELSE Refuse

----------------------------------------------------------------------------
(* formatCallArg and arrayArgSlot: what a parameter receives for argument  *)
(* n.  An array goes as the address of what the expression names, or of a  *)
(* temporary with the value.                                               *)

Value(n) == [at |-> "value", of |-> <<n>>]
Array(ns) == [at |-> "temporary", of |-> ns]
Place(n) == [at |-> "place", of |-> <<n>>]
arrayArgSlot(n, ns) == IF HasAddress(args[n].form) THEN Place(n) ELSE Array(ns)

(* Mutant: no array has an address.                                        *)
SlotTemporary(f, p) ==
    IF Packs(f) /\ p = Len(f.names) THEN Array(RestArgs(f))
    ELSE IF f.types[p] = "[Int]" THEN Array(<<ArgOf(f, p)>>) ELSE Value(ArgOf(f, p))

Slot(f, p) ==
    IF Packs(f) /\ p = Len(f.names)
    THEN LET rest == RestArgs(f) IN
         IF rest = <<>> THEN Array(<<>>) ELSE arrayArgSlot(rest[1], rest)
    ELSE IF f.types[p] = "[Int]" THEN arrayArgSlot(ArgOf(f, p), <<ArgOf(f, p)>>)
    ELSE Value(ArgOf(f, p))

(* Each parameter in order; a receiver is evaluated again for its place.   *)
Pass ==
    /\ step = "pass"
    /\ \E f \in chosen :
         LET p == Len(received) + 1 IN
         IF p > Len(f.names) THEN step' = "called" /\ UNCHANGED <<trace, received>>
         ELSE LET s == Slot(f, p) IN
              /\ received' = Append(received, s)
              /\ trace' = IF s.at = "place" /\ HasReceiver(args[s.of[1]].form)
                          THEN Append(trace, s.of[1]) ELSE trace
              /\ UNCHANGED step
    /\ UNCHANGED <<call, chosen, todo>>

(* Calls with a known gap are left out.                                    *)
Untold(f) ==
    \/ ~Open("rest by reference")
       /\ Packs(f) /\ ~PassedOn(f) /\ RestArgs(f) # <<>> /\ HasAddress(args[RestArgs(f)[1]].form)
    \/ ~Open("receiver twice") /\ \E n \in DOMAIN args : args[n].form = "array field"
    \/ ~Open("rest after named") /\ Packs(f) /\ argListHasNamed

Next ==
    /\ \A f \in chosen : ~Untold(f)
    /\ BindOne \/ BindOverloads \/ EvaluateNext \/ Choose \/ Pass

Spec == Init /\ [][Next]_vars

----------------------------------------------------------------------------
(* What a call denotes.                                                    *)

Denotes(f, p) ==
    IF Packs(f) /\ p = Len(f.names)
    THEN IF PassedOn(f)
         THEN LET n == RestArgs(f)[1] IN IF HasAddress(args[n].form) THEN Place(n) ELSE Array(<<n>>)
         ELSE Array(RestArgs(f))
    ELSE LET n == CHOOSE m \in DOMAIN args :
                     IF Named(m) THEN args[m].name = f.names[p] ELSE m = p
         IN  IF TypeOf(args[n].form) # "[Int]" THEN Value(n)
             ELSE IF HasAddress(args[n].form) THEN Place(n) ELSE Array(<<n>>)

(* Every argument is evaluated once, in the order they are written, but    *)
(* for lambdas, whose evaluation nothing can see.                          *)
EvaluatedInOrder ==
    step = "called" =>
       LET told(n) == args[n].form # "lambda" IN
       /\ SelectSeq(trace, told) = SelectSeq([n \in DOMAIN args |-> n], told)
       /\ \A n \in DOMAIN args : Len(SelectSeq(trace, LAMBDA m : m = n)) = 1

(* Every parameter receives what the call gives it by position or name.    *)
ReceivedAsDenoted ==
    step = "called" => \A f \in chosen : received = [p \in DOMAIN f.names |-> Denotes(f, p)]

(* A call is refused only if positions and names do not cover the          *)
(* parameters each once, or a type is not the parameter's.                 *)
RefusedForCause ==
    step = "refused" /\ Cardinality(cands) = 1 =>
       \A f \in cands : ~f.rest =>
          ~\E to \in [DOMAIN args -> DOMAIN f.names] :
              /\ \A p \in DOMAIN f.names : \E n \in DOMAIN args : to[n] = p
              /\ Len(args) = Len(f.names)
              /\ \A n \in DOMAIN args :
                    /\ Takes(f, to[n], n)
                    /\ IF Named(n) THEN f.names[to[n]] = args[n].name
                       ELSE to[n] = n /\ \A m \in 1..(n - 1) : ~Named(m)

CallsSound == EvaluatedInOrder /\ ReceivedAsDenoted /\ RefusedForCause

=============================================================================

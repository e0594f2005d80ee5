----------------------------- MODULE StaticInit -----------------------------
(***************************************************************************)
(* The lazy initialisation of static fields that src/irgen/IRGenClass.cpp  *)
(* generates: every access to a class first calls its ensureInit, which    *)
(* runs staticinit if the guard of the class is 0.  The guard is a plain   *)
(* i32 that is loaded, compared and stored, without a lock.                *)
(*                                                                         *)
(* staticinit is a sequence of pieces: the initialisers of the fields, in  *)
(* the order of their declaration, and last the body of the explicit       *)
(* static constructor, if there is one.  Init picks what each of them      *)
(* uses: another class, its own, or none.  failed, early and runs are      *)
(* history.                                                                *)
(***************************************************************************)
EXTENDS Naturals, Sequences, SequencesExt, FiniteSets

CONSTANTS
    Threads, Classes, Nobody,
    Pieces          \* of a staticinit

VARIABLES
    uses,       \* uses[c][i]: the class that piece i of c's staticinit refers to
    guard,      \* @C.initguard: 0 not begun, 1 in progress, 2 done
    set,        \* how many pieces of c are done
    stack,      \* the staticinit calls of a thread: [c, at, used]
    reg,        \* ensureInit of a thread: the class and the guard it loaded
    failed,     \* the classes whose initialisation an exception ended
    early,      \* classes used before all was done: were any "unset", "failed"?
    runs        \* how often staticinit of c was entered
vars == <<uses, guard, set, stack, reg, failed, early, runs>>

Idle == [c |-> Nobody, g |-> 0]
top(t) == Last(stack[t])
Initialises(t, c) == \E i \in DOMAIN stack[t] : stack[t][i].c = c

(* The access itself, by code that is not part of c's own initialisation.  *)
Used(t, c) ==
    early' = IF set'[c] = Pieces \/ Initialises(t, c) THEN early
             ELSE early \cup {IF c \in failed THEN "failed" ELSE "unset"}
(* The piece that called ensureInit goes on behind the call.               *)
GoOn(frames) == IF frames = <<>> THEN <<>> ELSE Append(Front(frames), [Last(frames) EXCEPT !.used = TRUE])

(* emitStaticEnsureInit where a static member is read or written, a static *)
(* method called, an object made: the load of the guard.                   *)
LoadGuard(t, c) ==
    /\ reg[t] = Idle
    /\ IF stack[t] = <<>> THEN TRUE
       ELSE ~top(t).used /\ top(t).at <= Pieces /\ uses[top(t).c][top(t).at] = c
    /\ reg' = [reg EXCEPT ![t] = [c |-> c, g |-> guard[c]]]
    /\ UNCHANGED <<uses, guard, set, stack, failed, early, runs>>

(* Mutant: a class met by an initialiser is marked, its turn comes later.  *)
BeginDeferred(t) ==
    LET c == reg[t].c
        later == stack[t] # <<>>
    IN /\ c # Nobody /\ reg[t].g = 0
       /\ guard' = [guard EXCEPT ![c] = 1]
       /\ stack' = IF later THEN stack
                   ELSE [stack EXCEPT ![t] = Append(@, [c |-> c, at |-> 1, used |-> FALSE])]
       /\ reg' = [reg EXCEPT ![t] = IF later THEN [c |-> c, g |-> 1] ELSE Idle]
       /\ runs' = [runs EXCEPT ![c] = IF @ < 2 THEN @ + 1 ELSE @]
       /\ UNCHANGED <<uses, set, failed, early>>

(* q.init: 1 is stored, then staticinit is called.                         *)
Begin(t) ==
    LET c == reg[t].c
    IN /\ c # Nobody /\ reg[t].g = 0
       /\ guard' = [guard EXCEPT ![c] = 1]
       /\ stack' = [stack EXCEPT ![t] = Append(@, [c |-> c, at |-> 1, used |-> FALSE])]
       /\ reg' = [reg EXCEPT ![t] = Idle]
       /\ runs' = [runs EXCEPT ![c] = IF @ < 2 THEN @ + 1 ELSE @]
       /\ UNCHANGED <<uses, set, failed, early>>

(* q.done at once.                                                         *)
Pass(t) ==
    LET c == reg[t].c
    IN /\ c # Nobody /\ reg[t].g # 0
       /\ reg' = [reg EXCEPT ![t] = Idle]
       /\ set' = set /\ Used(t, c)
       /\ stack' = [stack EXCEPT ![t] = GoOn(@)]
       /\ UNCHANGED <<uses, guard, failed, runs>>

(* t executes a piece of a staticinit, behind the access in it if it has   *)
(* one.                                                                    *)
Executes(t) == reg[t] = Idle /\ stack[t] # <<>> /\ top(t).at <= Pieces
Behind(t) == top(t).used \/ uses[top(t).c][top(t).at] = Nobody

(* The value of the next field is computed and stored, or the body of the  *)
(* static constructor comes to its end.                                    *)
EndPiece(t) ==
    /\ Executes(t) /\ Behind(t)
    /\ LET f == top(t)
       IN /\ set' = [set EXCEPT ![f.c] = IF @ < f.at THEN f.at ELSE @]
          /\ stack' = [stack EXCEPT ![t] = Append(Front(@), [f EXCEPT !.at = @ + 1, !.used = FALSE])]
    /\ UNCHANGED <<uses, guard, reg, failed, early, runs>>

(* staticinit returns, 2 is stored, and the access takes place.            *)
Finish(t) ==
    /\ reg[t] = Idle /\ stack[t] # <<>> /\ top(t).at > Pieces
    /\ LET c == top(t).c
       IN /\ guard' = [guard EXCEPT ![c] = 2]
          /\ early' = IF set[c] = Pieces THEN early ELSE early \cup {"unset"}
    /\ stack' = [stack EXCEPT ![t] = GoOn(Front(@))]
    /\ UNCHANGED <<uses, set, reg, failed, runs>>

(* A piece throws.  The handler is in one of the pieces below, which goes  *)
(* on without the access, or in the code that called ensureInit first.     *)
(* The longjmp passes the stores of 2: no guard is touched.                *)
Throw(t) ==
    /\ Executes(t) /\ Behind(t)
    /\ \E n \in 0 .. Len(stack[t]) - 1 :
           /\ failed' = failed \cup {stack[t][i].c : i \in n + 1 .. Len(stack[t])}
           /\ stack' = [stack EXCEPT ![t] = GoOn(SubSeq(@, 1, n))]
    /\ UNCHANGED <<uses, guard, set, reg, early, runs>>

Init ==
    /\ uses \in [Classes -> [1 .. Pieces -> Classes \cup {Nobody}]]
    /\ guard = [c \in Classes |-> 0] /\ set = [c \in Classes |-> 0]
    /\ stack = [t \in Threads |-> <<>>] /\ reg = [t \in Threads |-> Idle]
    /\ failed = {} /\ early = {} /\ runs = [c \in Classes |-> 0]

Next ==
    \E t \in Threads :
        \/ \E c \in Classes : LoadGuard(t, c)
        \/ Begin(t) \/ Pass(t) \/ EndPiece(t) \/ Finish(t) \/ Throw(t)

Spec == Init /\ [][Next]_vars

---------------------------------------------------------------------------
(* Properties.                                                             *)

(* "类首次被引用前自动执行一次静态初始化": initialised once, however the        *)
(* initialisers refer to each other.                                       *)
InitOnce == \A c \in Classes : runs[c] <= 1

(* ... and before it is used: the whole of it, fields and static           *)
(* constructor, except by the code that is still on the way to do it, or   *)
(* after an exception ended its initialisation.                            *)
InitBeforeUse == "unset" \notin early

(* An initialisation that an exception ended is made up for.               *)
InitDespiteThrow == "failed" \notin early
=============================================================================

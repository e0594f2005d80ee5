----------------------------- MODULE TryFinally -----------------------------
(***************************************************************************)
(* What a Hao program may expect of try, catch and finally: a completion   *)
(* that is not normal (return, break, continue, throw) goes to the         *)
(* innermost construct it concerns; a finally runs to its own end and then *)
(* lets the completion it was entered with go on, unless it completes      *)
(* abruptly itself.  Every activation is the stack of the constructs that  *)
(* are open in it; the completion a finally owes is kept by that finally.  *)
(* ExcFrames is the compiled program and implements this.                  *)
(***************************************************************************)
EXTENDS Naturals, Sequences, SequencesExt, FiniteSetsExt

CONSTANTS
    Vals,       \* objects thrown or returned
    TryForms    \* [catches, fin]: what each catch clause matches, is there a finally

VARIABLES
    calls,      \* the activations, outermost first: sequences of constructs
    comp,       \* the completion on its way between two constructs
    end         \* how the program ended: "run" while it has not

vars == <<calls, comp, end>>

Normal == [k |-> "normal", v |-> 0]
Abrupt(k, v) == [k |-> k, v |-> v]

Loop == [kind |-> "loop", at |-> "body", catches |-> <<>>, fin |-> FALSE,
         pend |-> Normal, clause |-> 0]
Try(f) == [kind |-> "try", at |-> "body", catches |-> f.catches, fin |-> f.fin,
           pend |-> Normal, clause |-> 0]

top == Last(calls)
Inner(S) == IF S = {} THEN 0 ELSE Max(S)

(* The try statements of an activation whose finally has not begun.        *)
OpenTries(cons) == {i \in DOMAIN cons : cons[i].kind = "try" /\ cons[i].at # "fin"}
InnerLoop(cons) == Inner({i \in DOMAIN cons : cons[i].kind = "loop"})
InFinally(t, c) == [t EXCEPT !.at = "fin", !.pend = c]

(* The clauses of a try that match v; the first of them is entered.        *)
Matching(t, v) == {k \in DOMAIN t.catches : v \in t.catches[k]}
Catching(t, k) == [t EXCEPT !.at = "catch", !.clause = k]

(* Completion c leaves try i of the innermost of the activations cs.       *)
Leave(cs, i, c) ==
    LET cons == Last(cs)
        below == SubSeq(cons, 1, i - 1)
    IN IF cons[i].fin
       THEN /\ calls' = Append(Front(cs), Append(below, InFinally(cons[i], c)))
            /\ comp' = Normal
       ELSE /\ calls' = Append(Front(cs), below)
            /\ comp' = c

(* A throw looks for an open try in every activation, innermost first.     *)
Thrown(v) ==
    LET d == Inner({a \in DOMAIN calls : OpenTries(calls[a]) # {}})
        i == Inner(OpenTries(calls[d]))
        t == calls[d][i]
    IN \/ /\ d = 0
          /\ end' = "uncaught" /\ UNCHANGED <<calls, comp>>
       \/ /\ d > 0 /\ t.at = "body"
          /\ \E k \in Matching(t, v) :
                /\ \A j \in Matching(t, v) : k <= j
                /\ calls' = Append(SubSeq(calls, 1, d - 1),
                                   Append(SubSeq(calls[d], 1, i - 1), Catching(t, k)))
          /\ comp' = Normal /\ end' = end
       \/ /\ d > 0 /\ ~(t.at = "body" /\ Matching(t, v) # {})
          /\ Leave(SubSeq(calls, 1, d), i, Abrupt("throw", v))
          /\ end' = end

Returned(v) ==
    LET i == Inner(OpenTries(top))
    IN IF i > 0
       THEN Leave(calls, i, Abrupt("return", v)) /\ end' = end
       ELSE /\ calls' = Front(calls) /\ comp' = Normal
            /\ end' = IF Len(calls) = 1 THEN "done" ELSE end

(* break and continue concern the innermost loop and the tries inside it.  *)
Jumped(k) ==
    LET l == InnerLoop(top)
        i == Inner({j \in OpenTries(top) : j > l})
    IN /\ l > 0 /\ end' = end
       /\ IF i > 0
          THEN Leave(calls, i, Abrupt(k, 0))
          ELSE /\ calls' = Append(Front(calls), SubSeq(top, 1, IF k = "break" THEN l - 1 ELSE l))
               /\ comp' = Normal

Deliver(c) ==
    \/ c.k = "throw" /\ Thrown(c.v)
    \/ c.k = "return" /\ Returned(c.v)
    \/ c.k \in {"break", "continue"} /\ Jumped(c.k)

Running == end = "run" /\ comp = Normal

OpenTry(f) == Running /\ calls' = Append(Front(calls), Append(top, Try(f))) /\ UNCHANGED <<comp, end>>
OpenLoop == Running /\ calls' = Append(Front(calls), Append(top, Loop)) /\ UNCHANGED <<comp, end>>
Call == Running /\ calls' = Append(calls, <<>>) /\ UNCHANGED <<comp, end>>
Statement == Running /\ \E k \in {"return", "throw", "break", "continue"}, v \in Vals \union {0} :
    Deliver(Abrupt(k, v))

(* The innermost construct comes to its end.                               *)
Fall ==
    /\ Running /\ top # <<>> /\ end' = end
    /\ LET i == Len(top)
           c == top[i]
       IN \/ c.kind = "try" /\ c.at # "fin" /\ Leave(calls, i, Normal)
          \/ /\ c.kind = "loop" \/ c.at = "fin"
             /\ calls' = Append(Front(calls), Front(top))
             /\ comp' = c.pend

GoOn == end = "run" /\ comp # Normal /\ Deliver(comp)
Exit == end = "run" /\ end' = "exit" /\ UNCHANGED <<calls, comp>>

Init == calls = <<<<>>>> /\ comp = Normal /\ end = "run"
Next == (\E f \in TryForms : OpenTry(f)) \/ OpenLoop \/ Call \/ Statement \/ Fall \/ GoOn \/ Exit
Spec == Init /\ [][Next]_vars
=============================================================================

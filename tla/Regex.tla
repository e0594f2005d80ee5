------------------------------- MODULE Regex --------------------------------
(***************************************************************************)
(* Regular expressions: the compiler and the matcher of                    *)
(* stdlib/runtime_regex.c, and Pattern and Matcher of                      *)
(* stdlib/src/regex/Pattern.hao on top of them.  A pattern is a sequence   *)
(* of tokens: a byte or a whole class [..] is one token.  Positions in a   *)
(* text start from 0, as in the code.                                      *)
(*                                                                         *)
(* found is a history variable: the matches find reported since reset.     *)
(***************************************************************************)
EXTENDS Integers, Sequences, FiniteSets

CONSTANTS
    Sources, Texts,     \* patterns and texts, sequences
    Denotes,            \* the bytes a token stands for that is no operator
    MaxNodes, MaxCaps, MaxSteps     \* HAO_RE_MAX_...

VARIABLES
    src, text,
    prog,       \* what the handle owns: [root, ncaps], or NoProg
    m,          \* the Matcher: searchFrom, matched, mStart, mEnd, cap
    found
vars == <<src, text, prog, m, found>>

NoProg == [ncaps |-> 0]
Unset == [s |-> -1, e |-> -1]
NoCaps == [i \in 0 .. MaxCaps - 1 |-> Unset]
tlen == Len(text)

---------------------------------------------------------------------------
(* The parser.  p: the position, what was parsed, groups and nodes so far. *)

Bad(p) == [p EXCEPT !.err = TRUE]
New(p, node) == IF p.nodes = MaxNodes THEN Bad(p) ELSE [p EXCEPT !.node = node, !.nodes = @ + 1]
Skip(p) == [p EXCEPT !.at = @ + 1]
Sees(p, S) == p.at <= Len(src) /\ src[p.at] \in S
SeqEnds(p) == p.at > Len(src) \/ Sees(p, {")", "|"})
Empty == [k |-> "rep", a |-> [k |-> "set", set |-> {}], min |-> 0, max |-> 0]

RECURSIVE re_p_alt(_), SeqRest(_), AltRest(_)

re_p_atom(p) ==
    LET c == src[p.at]
    IN CASE c = "(" ->
              IF p.ncaps >= MaxCaps THEN Bad(p)
              ELSE LET body == re_p_alt([Skip(p) EXCEPT !.ncaps = @ + 1])
                   IN IF body.err \/ ~Sees(body, {")"}) THEN Bad(body)
                      ELSE New(Skip(body), [k |-> "cap", cap |-> p.ncaps, a |-> body.node])
         [] c = "^" -> New(Skip(p), [k |-> "bol"])
         [] c = "$" -> New(Skip(p), [k |-> "eol"])
         [] c \in DOMAIN Denotes -> New(Skip(p), [k |-> "set", set |-> Denotes[c]])
         [] OTHER -> Bad(p)

re_p_piece(p) ==
    LET atom == re_p_atom(p)
    IN IF atom.err \/ ~Sees(atom, {"*", "+", "?"}) THEN atom
       ELSE New(Skip(atom), [k |-> "rep", a |-> atom.node,
                             min |-> IF src[atom.at] = "+" THEN 1 ELSE 0,
                             max |-> IF src[atom.at] = "?" THEN 1 ELSE -1])

SeqRest(p) ==
    IF p.err \/ SeqEnds(p) THEN p
    ELSE LET r == re_p_piece(p)
         IN SeqRest(IF r.err THEN r ELSE New(r, [k |-> "seq", a |-> p.node, b |-> r.node]))
re_p_seq(p) == IF SeqEnds(p) THEN New(New(p, Empty.a), Empty) ELSE SeqRest(re_p_piece(p))

AltRest(p) ==
    IF p.err \/ ~Sees(p, {"|"}) THEN p
    ELSE LET r == re_p_seq(Skip(p))
         IN AltRest(IF r.err THEN r ELSE New(r, [k |-> "alt", a |-> p.node, b |-> r.node]))
re_p_alt(p) == AltRest(re_p_seq(p))

re_compile_str ==
    LET body == re_p_alt([at |-> 1, node |-> Empty, ncaps |-> 1, nodes |-> 0, err |-> FALSE])
        whole == New(body, [k |-> "cap", cap |-> 0, a |-> body.node])
    IN IF body.err \/ body.at <= Len(src) \/ whole.err THEN NoProg
       ELSE [root |-> whole.node, ncaps |-> whole.ncaps]

---------------------------------------------------------------------------
(* The matcher.  A state is a position, the groups, and the steps spent; a *)
(* failure is position -1.                                                 *)

At(s, pos) == [s EXCEPT !.pos = pos]
(* Mutant: the groups a failed alternative set are left.                   *)
RetryKeeps(r, s) == At(r, s.pos)
(* From s again after the failure r: the steps stay spent.                 *)
Retry(r, s) == [s EXCEPT !.steps = r.steps]

RECURSIVE re_exec(_, _), re_exec_rep(_, _, _)

re_exec_rep(n, s, times) ==
    LET stop(r) == At(Retry(r, s), IF times >= n.min THEN s.pos ELSE -1)
    IN IF n.max >= 0 /\ times >= n.max THEN stop(s)
       ELSE LET once == re_exec(n.a, s)
            IN IF once.pos <= s.pos THEN stop(once)
               ELSE LET more == re_exec_rep(n, once, times + 1)
                    IN IF more.pos >= 0 THEN more ELSE stop(more)

re_exec(n, s0) ==
    LET s == [s0 EXCEPT !.steps = @ + 1]
        Ok(test, pos) == At(s, IF test THEN pos ELSE -1)
    IN IF s.steps > MaxSteps THEN At(s, -1) ELSE
       CASE n.k = "set" -> Ok(s.pos < tlen /\ text[s.pos + 1] \in n.set, s.pos + 1)
         [] n.k = "bol" -> Ok(s.pos = 0, s.pos)
         [] n.k = "eol" -> Ok(s.pos = tlen, s.pos)
         [] n.k = "seq" -> LET r == re_exec(n.a, s)
                           IN IF r.pos < 0 THEN r ELSE re_exec(n.b, r)
         [] n.k = "alt" -> LET r == re_exec(n.a, s)
                           IN IF r.pos >= 0 THEN r ELSE re_exec(n.b, Retry(r, s))
         [] n.k = "rep" -> re_exec_rep(n, s, 0)
         [] n.k = "cap" -> LET r == re_exec(n.a, [s EXCEPT !.caps[n.cap].s = s.pos])
                           IN IF r.pos < 0 THEN [r EXCEPT !.caps[n.cap] = s.caps[n.cap]]
                              ELSE [r EXCEPT !.caps[n.cap].e = r.pos]

re_try_at(pos, steps) == re_exec(prog.root, [pos |-> pos, caps |-> NoCaps, steps |-> steps])

RECURSIVE re_starts_with_bol(_)
re_starts_with_bol(n) == n.k = "bol" \/ (n.k \in {"cap", "seq"} /\ re_starts_with_bol(n.a))

RECURSIVE SearchFrom(_, _)
SearchFrom(pos, steps) ==
    LET r == re_try_at(pos, steps)
    IN IF r.pos >= 0 \/ pos >= tlen \/ re_starts_with_bol(prog.root) \/ r.steps > MaxSteps
       THEN r
       ELSE SearchFrom(pos + 1, r.steps)

---------------------------------------------------------------------------
(* Pattern and Matcher.                                                    *)

Found(caps) == [s |-> caps[0].s, e |-> caps[0].e]

(* Pattern.compile, tryRemake: a handle that owns a program keeps it.      *)
compile ==
    /\ prog = NoProg /\ prog' = re_compile_str
    /\ UNCHANGED <<src, text, m, found>>
close == prog # NoProg /\ prog' = NoProg /\ UNCHANGED <<src, text, m, found>>

After(from, e) == IF e = from THEN e + 1 ELSE e

NotFound == m' = [m EXCEPT !.matched = FALSE] /\ UNCHANGED <<src, text, prog, found>>
find ==
    IF prog = NoProg \/ m.searchFrom > tlen THEN NotFound
    ELSE LET r == SearchFrom(m.searchFrom, 0)
         IN IF r.pos < 0 THEN NotFound
            ELSE /\ m' = [searchFrom |-> After(m.searchFrom, r.pos), matched |-> TRUE,
                          mStart |-> r.caps[0].s, mEnd |-> r.pos, cap |-> r.caps]
                 /\ found' = Append(found, Found(r.caps))
                 /\ UNCHANGED <<src, text, prog>>

(* The groups are written whether the match ends where the text does or    *)
(* not.                                                                    *)
matches ==
    IF prog = NoProg THEN NotFound
    ELSE LET r == re_try_at(0, 0)
             ok == r.pos = tlen
         IN /\ m' = [m EXCEPT !.matched = ok, !.cap = IF r.pos >= 0 THEN r.caps ELSE @,
                              !.mStart = IF ok THEN 0 ELSE @, !.mEnd = IF ok THEN tlen ELSE @]
            /\ UNCHANGED <<src, text, prog, found>>

NewMatcher == [searchFrom |-> 0, matched |-> FALSE, mStart |-> 0, mEnd |-> 0, cap |-> NoCaps]
reset ==
    /\ m' = [NewMatcher EXCEPT !.cap = m.cap] /\ found' = <<>>
    /\ UNCHANGED <<src, text, prog>>

Init ==
    /\ src \in Sources /\ text \in Texts
    /\ prog = NoProg /\ m = NewMatcher /\ found = <<>>
Next == compile \/ close \/ find \/ matches \/ reset
Spec == Init /\ [][Next]_vars

---------------------------------------------------------------------------
(* What a regular expression means: every way to match it from a state.    *)

RECURSIVE Ways(_, _), Repeated(_, _, _)
Repeated(n, S, times) ==
    (IF times >= n.min THEN S ELSE {}) \cup
    IF S = {} \/ times > tlen \/ times = n.max THEN {}
    ELSE Repeated(n, UNION {Ways(n.a, s) : s \in S}, times + 1)
Ways(n, s) ==
    CASE n.k = "set" -> IF s.pos < tlen /\ text[s.pos + 1] \in n.set
                        THEN {At(s, s.pos + 1)} ELSE {}
      [] n.k = "bol" -> IF s.pos = 0 THEN {s} ELSE {}
      [] n.k = "eol" -> IF s.pos = tlen THEN {s} ELSE {}
      [] n.k = "seq" -> UNION {Ways(n.b, r) : r \in Ways(n.a, s)}
      [] n.k = "alt" -> Ways(n.a, s) \cup Ways(n.b, s)
      [] n.k = "rep" -> Repeated(n, {s}, 0)
      [] n.k = "cap" -> {[r EXCEPT !.caps[n.cap] = [s |-> s.pos, e |-> r.pos]] : r \in Ways(n.a, s)}
WaysFrom(pos) == Ways(prog.root, [pos |-> pos, caps |-> NoCaps])

(* A match that is reported is one, with its groups: whatever alternatives *)
(* and repetitions were tried and given up leave no trace in the groups,   *)
(* also when the steps run out in the middle.                              *)
MatchSound ==
    m.matched /\ prog # NoProg => [pos |-> m.mEnd, caps |-> m.cap] \in WaysFrom(m.mStart)

(* Matches come from left to right without overlap, so the slices split    *)
(* and replaceAll cut between them are slices of the text, and their loops *)
(* end.                                                                    *)
FindsInOrder ==
    /\ \A i, j \in DOMAIN found : i < j => found[i].e <= found[j].s
    /\ Len(found) <= tlen + 2

(* "对标 Java Pattern/Matcher": no match is reported twice.                  *)
NoRepeat == \A i, j \in DOMAIN found : i # j => found[i] # found[j]

(* "自包含 NFA/回溯引擎" (Pattern.hao:4): matches accepts the texts of the   *)
(* language.                                                               *)
Complete ==
    prog # NoProg /\ (\E r \in WaysFrom(0) : r.pos = tlen) => re_try_at(0, 0).pos = tlen
=============================================================================

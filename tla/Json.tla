---------------------------------- MODULE Json ----------------------------------
(***************************************************************************)
(* The json package: values written as text, text parsed, beans filled     *)
(* from text, and paths (JSON.hao, JSONObject.hao, JSONPath.hao), with the *)
(* writer the compiler generates for every class (emitJsonWrite).          *)
(*                                                                         *)
(* Objects are what memory holds; the address of an object is its place in *)
(* it and 0 is null.  A text is a sequence of characters; a literal and    *)
(* the four digits of \uXXXX are one character each.  Text is compared     *)
(* with the grammar of JSON, and what is parsed with what was written.     *)
(***************************************************************************)
EXTENDS Integers, Sequences, SequencesExt

CONSTANTS Memories,     \* objects: [class, is, parts], parts of <<key, address>>
          Texts,        \* to parse
          Documents,    \* texts to look for paths in
          Paths,        \* sequences of steps
          MAX_DEPTH,    \* 32 in the code
          LongDigits,   \* of the longest integers that are a Long
          Known         \* the known gaps of the code to leave out, from Gaps

(* The generated writer of a class comes before everything else, so boxes, *)
(* maps and lists in a JSONObject, a JSONArray or a field are written as   *)
(* their private fields; it does not see cycles, writes unsigned numbers   *)
(* as signed, and arrays and enums as null; a bean in a map is written by  *)
(* reflection, which takes the box of an Int? for an object; a box of      *)
(* another number is a bean; numbers that are none have no JSON; parseInto *)
(* fills a String with the text "null", a String? never, and no bean in a  *)
(* bean; two surrogates are two characters; characters that must be        *)
(* escaped are not, and need not be; integers have to be a Long.           *)
Gaps == {"written as fields", "cycles of beans", "unsigned as signed", "arrays in beans",
         "box by reflection", "boxes of other numbers", "not a number", "null as text",
         "nullable text", "beans in beans", "surrogates", "control characters", "long integers"}
Open(gap) == gap \notin Known

VARIABLES
    memory,
    task,       \* what is asked
    text,
    result,
    step        \* "write", "parse", "use", "done"

vars == <<memory, task, text, result, step>>

----------------------------------------------------------------------------
(* Trees: what a text says, and what a value means.                        *)

Tree(kind, is, parts) == [kind |-> kind, is |-> is, parts |-> parts]
Lit(name) == Tree(name, <<>>, <<>>)
Failed == [ok |-> FALSE, tree |-> Lit("none"), next |-> 0]
Read(tree, next) == [ok |-> TRUE, tree |-> tree, next |-> next]

(* The members of an object as put makes them: a key that comes again      *)
(* keeps its place and gets the last value.                                *)
PutFirst(key, tree, parts) ==
    LET again == SelectSeq(parts, LAMBDA p : p[1] = key)
    IN  << IF again = <<>> THEN <<key, tree>> ELSE again[1] >>
        \o SelectSeq(parts, LAMBDA p : p[1] # key)

----------------------------------------------------------------------------
(* Writing.                                                                *)

Escaped == [quote |-> <<"\\", "quote">>, newline |-> <<"\\", "n">>, tab |-> <<"\\", "t">>,
            return |-> <<"\\", "r">>]
(* Mutant: what escapes is not escaped.                                    *)
QuoteWithoutEscape(s) == <<"quote">> \o FlattenSeq([k \in DOMAIN s |->
    IF s[k] \in DOMAIN Escaped THEN Escaped[s[k]] ELSE <<s[k]>>]) \o <<"quote">>

(* quoteIntoSb.                                                            *)
Quote(s) == <<"quote">> \o FlattenSeq([k \in DOMAIN s |->
    IF s[k] = "\\" THEN <<"\\", "\\">>
    ELSE IF s[k] \in DOMAIN Escaped THEN Escaped[s[k]] ELSE <<s[k]>>]) \o <<"quote">>

(* Unsigned numbers are three here; as signed ones they are negative.      *)
AsSigned(is) == IF is = <<"3">> THEN <<"-", "1">> ELSE is

(* What is written without looking into it.                                *)
Scalars == {"String", "Int", "Double", "Bool"}
Plain(i) == IF memory[i].class = "String" THEN Quote(memory[i].is) ELSE memory[i].is

(* Mutant: a comma too many.                                               *)
MembersWithComma(open, close, items, pretty) ==
    LET sep == IF pretty THEN <<" ">> ELSE <<>>
    IN  open \o FlattenSeq([k \in DOMAIN items |-> sep \o items[k] \o <<",">>])
        \o (IF items = <<>> THEN <<>> ELSE sep) \o close

(* pad, and the commas.                                                    *)
Members(open, close, items, pretty) ==
    LET sep == IF pretty THEN <<" ">> ELSE <<>>
    IN  open \o FlattenSeq([k \in DOMAIN items |->
                               (IF k > 1 THEN <<",">> ELSE <<>>) \o sep \o items[k]])
        \o (IF items = <<>> THEN <<>> ELSE sep) \o close
Braces(items, pretty) == Members(<<"{">>, <<"}">>, items, pretty)
Brackets(items, pretty) == Members(<<"[">>, <<"]">>, items, pretty)
Keyed(key, t, pretty) == Quote(key) \o <<":">> \o (IF pretty THEN <<" ">> ELSE <<>>) \o t

(* beanInfoOf, emitJsonWrite: a field whose name begins with _ is left out.*)
Shown(parts) == SelectSeq(parts, LAMBDA p : p[1][1] # "_")
(* stringifyObj: so is a JSONNull, if it was not asked for.                *)
Kept(parts) ==
    SelectSeq(parts, LAMBDA p : p[2] # 0 /\ (task.nulls \/ memory[p[2]].class # "JSONNull"))

(* hao_json_try_write: what has no generated writer.                       *)
Generated(i) == memory[i].class \notin {"box", "array", "enum"}

(* Mutant: an object stays on the stack for its neighbours.                *)
PushAll(stack, i) == stack \union DOMAIN memory

(* stackPush, for what is in the object.                                   *)
Push(stack, i) == stack \union {i}

(* stringifyAt ("at"), stringifyAtInto ("into") and the generated writer   *)
(* ("fields"), with the stack and the depth.  What takes more than n calls *)
(* does not end.                                                           *)
Written[n \in Nat, how \in {"at", "into", "fields"}, i \in Nat, stack \in SUBSET Nat, depth \in Nat] ==
    LET o == memory[i]
        p == task.pretty
        inside == Push(stack, i)
        child(h, c, s, d) == IF c = 0 THEN <<"null">> ELSE Written[n - 1, h, c, s, d]
        pairs(parts, h, s, d) ==
            [k \in DOMAIN parts |-> Keyed(parts[k][1], child(h, parts[k][2], s, d), p)]
        list(h, s, d) == [k \in DOMAIN o.parts |-> child(h, o.parts[k][2], s, d)]
        generated(c) ==
            IF c = 0 \/ memory[c].class \in {"array", "enum"} THEN <<"null">>
            ELSE IF memory[c].class = "UInt" THEN AsSigned(memory[c].is)
            ELSE IF memory[c].class \in Scalars \union {"box"} THEN Plain(c)
            ELSE Written[n - 1, "into", c, stack, depth]
        reflected(c) ==
            IF c = 0 THEN <<"null">>
            ELSE IF memory[c].class \in Scalars \union {"UInt"} THEN Plain(c)
            ELSE Written[n - 1, "into", c, inside, depth + 1]
        fields(t(_), pretty) ==
            Braces([k \in DOMAIN Shown(o.parts) |->
                       Keyed(Shown(o.parts)[k][1], t(Shown(o.parts)[k][2]), pretty)], pretty)
    IN  CASE n = 0 -> <<"endless">>
          [] n > 0 /\ how = "into" ->
                Written[n - 1, IF Generated(i) THEN "fields" ELSE "at", i, stack, depth]
          [] n > 0 /\ how = "fields" -> IF o.class = "Bean" THEN fields(generated, FALSE) ELSE <<"fields">>
          [] n > 0 /\ how = "at" /\ depth > MAX_DEPTH -> <<"thrown">>
          [] OTHER ->
                CASE o.class = "JSONNull" -> <<"null">>
                  [] o.class \in Scalars -> Plain(i)
                  [] o.class = "JSONObject" -> Braces(pairs(Kept(o.parts), "into", stack, depth + 1), p)
                  [] o.class = "JSONArray" -> Brackets(list("into", stack, depth + 1), p)
                  [] o.class \in {"UInt", "enum"} -> <<"fields">>
                  [] o.class \in {"box", "array"} -> <<"crash">>
                  [] o.class \in {"Map", "List", "Bean"} /\ i \in stack -> <<"null">>
                  [] o.class = "Map" /\ i \notin stack -> Braces(pairs(o.parts, "at", inside, depth + 1), p)
                  [] o.class = "List" /\ i \notin stack -> Brackets(list("at", inside, depth + 1), p)
                  [] o.class = "Bean" /\ i \notin stack -> fields(reflected, p)

(* The overloads of toJSONString: of the maps, of JSONObject and JSONArray *)
(* and of any other Object.                                                *)
Calls == 8
ToJSONString ==
    LET o == memory[1]
    IN  CASE o.class = "Map" ->
                Braces([k \in DOMAIN o.parts |->
                           Keyed(o.parts[k][1],
                                 IF o.parts[k][2] = 0 THEN <<"null">>
                                 ELSE Written[Calls, "at", o.parts[k][2], {}, 0], task.pretty)], task.pretty)
          [] o.class \in {"JSONObject", "JSONArray"} -> Written[Calls, "at", 1, {}, 0]
          [] OTHER -> Written[Calls, "into", 1, {}, 0]

----------------------------------------------------------------------------
(* Parsing.                                                                *)

At(t, i) == IF i \in DOMAIN t THEN t[i] ELSE "end"
Digits == {"0", "1", "3"}

(* skipWs and runs of digits, from the end of the text.                    *)
After(t, S) == LET f[i \in 1..(Len(t) + 2)] == IF At(t, i) \in S THEN f[i + 1] ELSE i IN f
Skip(t, i) == IF i > Len(t) THEN i ELSE After(t, {" "})[i]
Run(t, i) == After(t, Digits)[i]

(* parseString, after the quote.                                           *)
Unescaped == [quote |-> "quote", n |-> "newline", t |-> "tab", r |-> "return"]
Code == [A |-> "a", hi |-> "high", lo |-> "low"]
ParseString(t, from) ==
    LET f[i \in 1..(Len(t) + 2)] ==
            LET c == At(t, i)
                with(x, j) == IF f[j].ok THEN [f[j] EXCEPT !.tree.is = <<x>> \o @] ELSE Failed
            IN  CASE c = "end" -> Failed
                  [] c = "quote" -> Read(Lit("string"), i + 1)
                  [] c = "\\" /\ At(t, i + 1) = "\\" -> with("\\", i + 2)
                  [] c = "\\" /\ At(t, i + 1) \in DOMAIN Unescaped -> with(Unescaped[At(t, i + 1)], i + 2)
                  [] c = "\\" /\ At(t, i + 1) = "u" /\ At(t, i + 2) \in DOMAIN Code -> with(Code[At(t, i + 2)], i + 3)
                  [] c = "\\" -> Failed
                  [] OTHER -> with(c, i + 1)
    IN  f[from]

(* Mutant: a number may begin with 0 and go on.                            *)
IntegerOfDigits(t, i) == IF At(t, i) \in Digits THEN {Run(t, i)} ELSE {}

(* parseNumber: the integer, ...                                           *)
IntegerAt(t, i) ==
    IF At(t, i) = "0" THEN {i + 1} ELSE IF At(t, i) \in Digits THEN {Run(t, i)} ELSE {}

(* ... the fraction and the exponent.                                      *)
ParseNumber(t, i) ==
    LET sign(j, S) == IF At(t, j) \in S THEN j + 1 ELSE j
        more(j, c, S) == IF At(t, j) # c THEN {j}
                         ELSE IF At(t, sign(j + 1, S)) \in Digits THEN {Run(t, sign(j + 1, S))} ELSE {}
        ends(E) == {<<whole, e>> : whole \in E,
                       e \in UNION {UNION {more(j, "e", {"-", "+"}) : j \in more(w, ".", {})} : w \in E}}
        end == ends(IntegerAt(t, sign(i, {"-"})))
    IN  IF end = {} THEN Failed
        ELSE LET e == CHOOSE x \in end : TRUE
                 first == sign(i, {"-"})
             IN  IF e[1] = e[2] /\ e[2] - first > LongDigits THEN Failed
                 ELSE Read(Tree("number", SubSeq(t, i, e[2] - 1), <<>>), e[2])

(* parseValue, and the rest of parseObject and parseArray after what is    *)
(* before the separator.                                                   *)
Parsed(t) ==
    LET f[how \in {"value", "members", "elements"}, at \in 1..(Len(t) + 4)] ==
            LET i == Skip(t, at)
                c == At(t, i)
                rest(h, key, v, close) ==
                    LET j == Skip(t, v.next)
                    IN  IF ~v.ok THEN Failed
                        ELSE IF At(t, j) = close THEN Read(Tree(h, <<>>, << <<key, v.tree>> >>), j + 1)
                        ELSE IF At(t, j) # "," THEN Failed
                        ELSE LET more == f[h, j + 1]
                             IN  IF ~more.ok THEN Failed
                                 ELSE [more EXCEPT !.tree.parts =
                                           IF h = "members" THEN PutFirst(key, v.tree, @)
                                           ELSE << <<key, v.tree>> >> \o @]
            IN  IF how = "members"
                THEN LET key == IF c = "quote" THEN ParseString(t, i + 1) ELSE Failed
                         colon == Skip(t, key.next)
                     IN  IF ~key.ok \/ At(t, colon) # ":" THEN Failed
                         ELSE rest("members", key.tree.is, f["value", colon + 1], "}")
                ELSE IF how = "elements" THEN rest("elements", <<>>, f["value", i], "]")
                ELSE CASE c = "{" /\ At(t, Skip(t, i + 1)) = "}" -> Read(Lit("members"), Skip(t, i + 1) + 1)
                       [] c = "{" /\ At(t, Skip(t, i + 1)) # "}" -> f["members", i + 1]
                       [] c = "[" /\ At(t, Skip(t, i + 1)) = "]" -> Read(Lit("elements"), Skip(t, i + 1) + 1)
                       [] c = "[" /\ At(t, Skip(t, i + 1)) # "]" -> f["elements", i + 1]
                       [] c = "quote" -> ParseString(t, i + 1)
                       [] c \in {"true", "false", "null"} -> Read(Lit(c), i + 1)
                       [] c \in Digits \union {"-"} -> ParseNumber(t, i)
                       [] OTHER -> Failed
    IN  f["value", 1]

(* Mutant: what comes after the value is not looked at.                    *)
ParseHead(t) == Parsed(t)

(* JSON.parse: nothing may follow.                                         *)
ParseText(t) ==
    LET r == Parsed(t) IN IF r.ok /\ Skip(t, r.next) <= Len(t) THEN Failed ELSE r

----------------------------------------------------------------------------
(* A bean from text.                                                       *)

(* Mutant: the text of a string is written.                                *)
ValueQuoted(tree) ==
    CASE tree.kind = "string" -> Quote(tree.is)
      [] tree.kind = "number" -> tree.is
      [] OTHER -> <<tree.kind>>

(* valueToString, as far as a field takes it.                              *)
ValueToString(tree) == IF tree.kind \in {"string", "number"} THEN tree.is ELSE <<tree.kind>>

(* setField, for the type of the field.                                    *)
Fits(class, is) ==
    CASE class = "String" -> TRUE
      [] class = "Bool" -> is \in {<<"true">>, <<"false">>, <<"1">>, <<"0">>}
      [] class = "Int" -> is # <<>> /\ \A k \in DOMAIN is : is[k] \in Digits \union IF k = 1 THEN {"-"} ELSE {}
      [] class = "UInt" -> is # <<>> /\ \A k \in DOMAIN is : is[k] \in Digits
      [] class = "Double" -> is # <<>> /\ is[1] \in Digits \union {"-"}
      [] OTHER -> FALSE

(* parseInto; a field that is null is a String.                            *)
ParseInto(parts, tree) ==
    LET said(key) == SelectSeq(tree.parts, LAMBDA p : p[1] = key)
        is(p) == ValueToString(said(p[1])[1][2])
        takes(p) == /\ said(p[1]) # <<>>
                    /\ Fits(IF p[2] = 0 THEN "String" ELSE memory[p[2]].class, is(p))
    IN  [k \in DOMAIN parts |-> IF takes(parts[k]) THEN <<"set", is(parts[k])>> ELSE <<"kept", <<>> >>]

----------------------------------------------------------------------------
(* Paths.                                                                  *)

(* readIdent and readBracket: where they end.                              *)
EndOfIdent(t, i) == CHOOSE j \in i..(Len(t) + 1) :
    /\ At(t, j) \in {".", "[", " ", "end"}
    /\ \A k \in i..(j - 1) : At(t, k) \notin {".", "[", " ", "end"}
EndOfBracket(t, i) == CHOOSE j \in i..(Len(t) + 1) :
    At(t, j) \in {"]", "end"} /\ \A k \in i..(j - 1) : At(t, k) \notin {"]", "end"}

(* applyBracket, and the numbers in it.                                    *)
Value == [c \in Digits |-> CASE c = "0" -> 0 [] c = "1" -> 1 [] c = "3" -> 3]
IntegerParse(s, else) == IF Len(s) = 1 /\ s[1] \in Digits THEN Value[s[1]] ELSE else
Largest == 99
ApplyBracket(body) ==
    LET colons == {k \in DOMAIN body : body[k] = ":"}
        c == CHOOSE k \in colons : \A j \in colons : k <= j
    IN  IF body = <<"*">> THEN [do |-> "wild"]
        ELSE IF colons # {}
        THEN [do |-> "slice", from |-> IntegerParse(SubSeq(body, 1, c - 1), 0),
              to |-> IntegerParse(SubSeq(body, c + 1, Len(body)), Largest)]
        ELSE [do |-> "index", at |-> IntegerParse(body, Largest)]

(* extract reads the path from the left.                                   *)
Operations(t) ==
    LET f[i \in 1..(Len(t) + 2)] ==
            LET ident(j) == SubSeq(t, j, EndOfIdent(t, j) - 1)
            IN  CASE At(t, i) = "end" -> <<>>
                  [] At(t, i) = "." /\ At(t, i + 1) = "." ->
                        <<[do |-> "deep", name |-> ident(i + 2)]>> \o f[EndOfIdent(t, i + 2)]
                  [] At(t, i) = "." /\ At(t, i + 1) = "[" -> f[i + 1]
                  [] At(t, i) = "." /\ At(t, i + 1) \notin {".", "["} ->
                        <<[do |-> "key", name |-> ident(i + 1)]>> \o f[EndOfIdent(t, i + 1)]
                  [] At(t, i) = "[" ->
                        <<ApplyBracket(SubSeq(t, i + 1, EndOfBracket(t, i + 1) - 1))>>
                        \o f[EndOfBracket(t, i + 1) + 1]
                  [] OTHER -> f[i + 1]
    IN  f[1]

(* A node is where it is in the tree.                                      *)
NodeAt(tree, node) == FoldLeft(LAMBDA n, k : n.parts[k][2], tree, node)
Below(tree, node) == [k \in DOMAIN NodeAt(tree, node).parts |-> Append(node, k)]
KeyAt(tree, node) ==
    LET up == NodeAt(tree, Front(node))
    IN  IF up.kind = "members" THEN <<up.parts[Last(node)][1]>> ELSE <<>>
ChildKey(tree, node, name) == SelectSeq(Below(tree, node), LAMBDA n : KeyAt(tree, n) = <<name>>)

(* Mutant: what has the key is not searched.                               *)
CollectFirst(tree, name) ==
    LET f[node \in Seq(Nat)] ==
            LET own == ChildKey(tree, node, name)
            IN  IF own # <<>> THEN own
                ELSE FlattenSeq([k \in DOMAIN Below(tree, node) |-> f[Below(tree, node)[k]]])
    IN  f

(* collectKey.                                                             *)
CollectKey(tree, name) ==
    LET f[node \in Seq(Nat)] ==
            ChildKey(tree, node, name)
            \o FlattenSeq([k \in DOMAIN Below(tree, node) |-> f[Below(tree, node)[k]]])
    IN  f

(* childKey, descendAll, expandWild, indexNodes and sliceNodes.            *)
Selected(tree, op, node) ==
    LET elements(S) == IF NodeAt(tree, node).kind # "elements" THEN <<>>
                       ELSE SelectSeq(Below(tree, node), LAMBDA n : Last(n) - 1 \in S)
    IN  CASE op.do = "key" -> ChildKey(tree, node, op.name)
          [] op.do = "deep" -> CollectKey(tree, op.name)[node]
          [] op.do = "wild" -> Below(tree, node)
          [] op.do = "index" -> elements({op.at})
          [] op.do = "slice" -> elements(op.from..(op.to - 1))

Extract(tree, path) ==
    FoldLeft(LAMBDA nodes, op : FlattenSeq([k \in DOMAIN nodes |-> Selected(tree, op, nodes[k])]),
             << <<>> >>, Operations(path))

----------------------------------------------------------------------------
(* What programs do.                                                       *)

(* Where objects may be, and where they are without the known gaps.        *)
Allowed(m, a, b) ==
    LET up == m[a].class
        class == m[b].class
    IN  /\ class \in {"box", "array", "enum", "UInt"} => up = "Bean" \/ (class = "UInt" /\ up \in {"Map", "List"})
        /\ class = "JSONNull" => up # "Bean"
Nested(m, a, b, t) ==
    LET up == m[a].class
        class == m[b].class
        json == {"JSONObject", "JSONArray"}
        reached == \E c \in DOMAIN m : /\ m[c].class \in {"Map", "List"}
                                       /\ \E k \in DOMAIN m[c].parts : m[c].parts[k][2] = a
    IN  /\ \/ Open("written as fields")
           \/ up \in json /\ class = "Bean"
           \/ up = "JSONObject" /\ class = "JSONNull" /\ ~t.nulls
           \/ up = "Bean" /\ class \in Scalars \union {"UInt", "box", "Bean", "array", "enum"}
           \/ up \in {"Map", "List"}
        /\ class \in {"array", "enum"} => Open("arrays in beans")
        /\ class = "UInt" /\ up # "Bean" => Open("boxes of other numbers")
        /\ class = "UInt" /\ up = "Bean" /\ m[b].is = <<"3">> => Open("unsigned as signed")
        /\ class = "box" /\ reached => Open("box by reflection")
        /\ class = "Double" /\ m[b].is = <<"nan">> => Open("not a number")
        /\ class = "String" /\ "bell" \in ToSet(m[b].is) => Open("control characters")

(* The longest way from an object; objects in circles have one as long as  *)
(* is looked for.                                                          *)
Height(m, S) ==
    LET h[n \in 0..(Len(m) + 1), i \in 0..Len(m)] ==
            IF i = 0 \/ n = 0 THEN 0
            ELSE LET to == {h[n - 1, m[i].parts[k][2]] : k \in {k \in DOMAIN m[i].parts : m[i].class \in S}}
                 IN  IF to = {} THEN 0 ELSE 1 + CHOOSE x \in to : \A y \in to : y <= x
    IN  h
Containers == {"Bean", "Map", "List", "JSONObject", "JSONArray"}
Circular(m, S) == Height(m, S)[Len(m) + 1, 1] > Len(m)
BeansCircular(m) == \E i \in DOMAIN m : /\ m[i].class = "Bean"
                                        /\ Height(m, Containers)[Len(m) + 1, i] > Len(m)

MemoryTasks(m) ==
    {t \in {[kind |-> "write", pretty |-> all, nulls |-> all] : all \in BOOLEAN} :
        /\ m[1].class = "List" => Open("written as fields")
        /\ BeansCircular(m) => Open("cycles of beans")
        /\ \A a \in DOMAIN m : \A k \in DOMAIN m[a].parts :
              LET b == m[a].parts[k][2] IN b # 0 => Allowed(m, a, b) /\ Nested(m, a, b, t)}

Pairs(t) == {k \in DOMAIN t : At(t, k) = "hi" /\ At(t, k + 3) = "lo"}
PlainText(t) ==
    /\ Pairs(t) # {} => Open("surrogates")
    /\ "bell" \in ToSet(t) => Open("control characters")
    /\ (\E k \in DOMAIN t : \A j \in k..(k + LongDigits) : At(t, j) \in Digits) => Open("long integers")

TextsToParse == {t \in Texts : PlainText(t)}

Init ==
    /\ \/ /\ memory \in Memories
          /\ task \in MemoryTasks(memory)
          /\ text = <<>>
          /\ step = "write"
       \/ /\ memory = <<>>
          /\ text \in TextsToParse
          /\ task = [kind |-> "parse"]
          /\ step = "parse"
       \/ /\ memory = <<>>
          /\ text \in Documents
          /\ task \in [kind : {"query"}, path : Paths]
          /\ step = "parse"
    /\ result = Failed

(* toJSONString; an exception leaves no text.                              *)
Write ==
    /\ step = "write"
    /\ LET t == ToJSONString
           thrown == \E k \in DOMAIN t : t[k] = "thrown"
       IN  /\ text' = IF thrown THEN <<"thrown">> ELSE t
           /\ step' = IF thrown THEN "done" ELSE "parse"
    /\ UNCHANGED <<memory, task, result>>

Parse ==
    /\ step = "parse"
    /\ result' = ParseText(text)
    /\ step' = "use"
    /\ UNCHANGED <<memory, task, text>>

(* The bean that was written is made again.                                *)
Fill ==
    /\ step = "use" /\ task.kind = "write" /\ memory[1].class = "Bean" /\ result.ok
    /\ \A k \in DOMAIN Shown(memory[1].parts) :
          LET c == Shown(memory[1].parts)[k][2]
          IN  /\ c = 0 => Open("null as text")
              /\ c # 0 => /\ memory[c].class \in {"box", "JSONNull"} => Open("nullable text")
                          /\ memory[c].class \in Containers \union {"array", "enum"} => Open("beans in beans")
    /\ result' = [copy |-> ParseInto(memory[1].parts, result.tree)]
    /\ step' = "done"
    /\ UNCHANGED <<memory, task, text>>

(* A step of a path as it is written.                                      *)
Digit == (0 :> "0") @@ (1 :> "1") @@ (3 :> "3")
StepText(s) ==
    CASE s.do = "key" -> <<".">> \o s.name
      [] s.do = "deep" -> <<".", ".">> \o s.name
      [] s.do = "wild" -> <<"[", "*", "]">>
      [] s.do = "index" -> <<"[", Digit[s.at], "]">>
      [] s.do = "slice" -> <<"[">> \o (IF s.from = 0 THEN <<>> ELSE <<Digit[s.from]>>) \o <<":">>
                           \o (IF s.to = Largest THEN <<>> ELSE <<Digit[s.to]>>) \o <<"]">>
PathText(path) == <<"$">> \o FlattenSeq([k \in DOMAIN path |-> StepText(path[k])])

Query ==
    /\ step = "use" /\ task.kind = "query" /\ result.ok
    /\ result' = [tree |-> result.tree, hits |-> Extract(result.tree, PathText(task.path))]
    /\ step' = "done"
    /\ UNCHANGED <<memory, task, text>>

Next == Write \/ Parse \/ Fill \/ Query

----------------------------------------------------------------------------
(* What JSON is.                                                           *)

(* The part of t from i and before j is a number, a string, a value ...    *)
IsNumber(t, i, j) ==
    LET digits(a, b) == a < b /\ \A k \in a..(b - 1) : t[k] \in Digits
        from == IF At(t, i) = "-" THEN i + 1 ELSE i
    IN  \E p \in (from + 1)..j : \E q \in p..j :
            /\ digits(from, p) /\ (t[from] = "0" => p = from + 1)
            /\ q = p \/ (t[p] = "." /\ digits(p + 1, q))
            /\ j = q \/ (t[q] = "e" /\ \E s \in {q + 1, q + 2} :
                                          /\ digits(s, j)
                                          /\ s = q + 2 => t[q + 1] \in {"+", "-"})
IsString(t, i, j) ==
    LET f[k \in i..(j + 2)] ==
            CASE k >= j - 1 -> k = j - 1
              [] k < j - 1 /\ t[k] = "\\" ->
                    IF t[k + 1] = "u" THEN At(t, k + 2) \in {"A", "hi", "lo"} /\ f[k + 3]
                    ELSE t[k + 1] \in {"\\", "quote", "n", "t", "r"} /\ f[k + 2]
              [] OTHER -> t[k] \notin {"quote", "newline", "tab", "return", "bell"} /\ f[k + 1]
    IN  j > i + 1 /\ t[i] = "quote" /\ t[j - 1] = "quote" /\ f[i + 1]
IsJson(t) ==
    LET blank(i, j) == \A k \in i..(j - 1) : t[k] = " "
        f[is \in {"value", "pair", "pairs", "values"}, i \in 1..(Len(t) + 1), j \in 1..(Len(t) + 1)] ==
            LET shown == {k \in i..(j - 1) : t[k] # " "}
                a == CHOOSE k \in shown : \A x \in shown : k <= x
                z == CHOOSE k \in shown : \A x \in shown : k >= x
                first(c) == {k \in i..(j - 1) : t[k] = c}
            IN  /\ shown # {}
                /\ CASE is = "value" ->
                           \/ a = z /\ t[a] \in {"true", "false", "null"}
                           \/ IsNumber(t, a, z + 1)
                           \/ IsString(t, a, z + 1)
                           \/ t[a] = "{" /\ t[z] = "}" /\ (blank(a + 1, z) \/ f["pairs", a + 1, z])
                           \/ t[a] = "[" /\ t[z] = "]" /\ (blank(a + 1, z) \/ f["values", a + 1, z])
                     [] is = "pair" -> \E k \in first(":") : k > a /\ f["value", k + 1, j]
                                          /\ LET key == {x \in a..(k - 1) : t[x] # " "}
                                             IN  IsString(t, a, 1 + CHOOSE x \in key : \A y \in key : x >= y)
                     [] is = "pairs" -> \/ f["pair", i, j]
                                        \/ \E k \in first(",") : f["pair", i, k] /\ f["pairs", k + 1, j]
                     [] OTHER -> \/ f["value", i, j]
                                 \/ \E k \in first(",") : f["value", i, k] /\ f["values", k + 1, j]
    IN  f["value", 1, Len(t) + 1]

(* What is said of the objects.                                            *)
Meaning ==
    LET f[n \in Nat, i \in Nat] ==
            LET o == memory[i]
                parts(p) == [k \in DOMAIN p |-> <<p[k][1], f[n - 1, p[k][2]]>>]
            IN  CASE i = 0 \/ n = 0 -> Lit("null")
                  [] i # 0 /\ n # 0 /\ o.class = "JSONNull" -> Lit("null")
                  [] i # 0 /\ n # 0 /\ o.class = "String" -> Tree("string", o.is, <<>>)
                  [] i # 0 /\ n # 0 /\ o.class = "Bool" -> Lit(o.is[1])
                  [] i # 0 /\ n # 0 /\ o.class = "Bean" -> Tree("members", <<>>, parts(Shown(o.parts)))
                  [] i # 0 /\ n # 0 /\ o.class = "Map" -> Tree("members", <<>>, parts(o.parts))
                  [] i # 0 /\ n # 0 /\ o.class = "JSONObject" -> Tree("members", <<>>, parts(Kept(o.parts)))
                  [] i # 0 /\ n # 0 /\ o.class \in {"List", "JSONArray", "array"} ->
                        Tree("elements", <<>>, parts(o.parts))
                  [] i # 0 /\ n # 0 /\ o.class = "enum" -> Tree("string", o.is, <<>>)
                  [] OTHER -> Tree("number", o.is, <<>>)
    IN  f[Len(memory) + 1, 1]

(* What is written is JSON and, read again, is what was written, unless    *)
(* objects are nested too deep or in circles.                              *)
WrittenAsMeant ==
    task.kind = "write" =>
        /\ text = <<"thrown">> => Height(memory, Containers)[Len(memory) + 1, 1] > MAX_DEPTH
        /\ step \in {"parse", "use"} => IsJson(text)
        /\ step = "use" => /\ result.ok
                           /\ ~Circular(memory, Containers) => result.tree = Meaning

(* The parser takes JSON and nothing else, and two halves of a character   *)
(* become one.                                                             *)
AcceptsJson ==
    task.kind = "parse" /\ step = "use" =>
        /\ result.ok <=> IsJson(text)
        /\ result.ok => \A k \in DOMAIN result.tree.is :
                            k > 1 => ~(result.tree.is[k] = "low" /\ result.tree.is[k - 1] = "high")

(* A bean that was written is the same when it was read.                   *)
FilledAsWritten ==
    task.kind = "write" /\ step = "done" /\ text # <<"thrown">> =>
        \A k \in DOMAIN memory[1].parts :
            LET p == memory[1].parts[k]
            IN  result.copy[k] = IF Shown(<<p>>) = <<>> \/ p[2] = 0 THEN <<"kept", <<>> >>
                                 ELSE <<"set", memory[p[2]].is>>

(* In how many ways the steps lead to a node.                              *)
Ways(tree, path, node) ==
    LET key(a) == KeyAt(tree, SubSeq(node, 1, a))
        in(a) == NodeAt(tree, SubSeq(node, 1, a - 1)).kind
        w[a \in 0..Len(node), s \in 0..Len(path)] ==
            IF s = 0 THEN IF a = 0 THEN 1 ELSE 0
            ELSE IF a = 0 THEN 0
            ELSE LET p == path[s]
                 IN  CASE p.do = "key" -> IF key(a) = <<p.name>> THEN w[a - 1, s - 1] ELSE 0
                       [] p.do = "deep" -> IF key(a) # <<p.name>> THEN 0
                                           ELSE FoldLeft(LAMBDA sum, b : sum + w[b - 1, s - 1], 0,
                                                         [b \in 1..a |-> b])
                       [] p.do = "wild" -> w[a - 1, s - 1]
                       [] p.do = "index" -> IF in(a) = "elements" /\ node[a] = p.at + 1 THEN w[a - 1, s - 1] ELSE 0
                       [] p.do = "slice" -> IF in(a) = "elements" /\ node[a] \in (p.from + 1)..p.to
                                            THEN w[a - 1, s - 1] ELSE 0
    IN  w[Len(node), Len(path)]
Nodes(tree) ==
    LET f[n \in Nat, node \in Seq(Nat)] ==
            {node} \union UNION {f[n + 1, Below(tree, node)[k]] : k \in DOMAIN Below(tree, node)}
    IN  f[0, <<>>]

(* A path finds each node as often as its steps lead to it.                *)
PathsFind ==
    task.kind = "query" /\ step = "done" =>
        /\ \A node \in Nodes(result.tree) :
              Len(SelectSeq(result.hits, LAMBDA n : n = node)) = Ways(result.tree, task.path, node)
        /\ \A k \in DOMAIN result.hits : result.hits[k] \in Nodes(result.tree)

JsonSound == WrittenAsMeant /\ AcceptsJson /\ FilledAsWritten /\ PathsFind

Spec == Init /\ [][Next]_vars
=============================================================================

------------------------------ MODULE MCRuntime -----------------------------
(***************************************************************************)
(* One instance for parts of the runtime, library and package tool.        *)
(* They share no state.  part says which of Parts runs; the others stay as *)
(* they were at first, so what holds here holds for each part on its own,  *)
(* and what an abstract specification allows is asked of the steps of its  *)
(* own part only.                                                          *)
(***************************************************************************)
EXTENDS GcEpoch, TLC, Sequences

CONSTANTS
    Parts,      \* the parts to run
    TornEnd,    \* of HttpWire
    b1, b2, thr1, thr2
TwoBlocks == {b1, b2}
TwoThreads == {thr1, thr2}
Symmetry == Permutations(TwoBlocks) \union Permutations(TwoThreads)

VARIABLES
    part,
    class, bits, lists, index, inHeap, doomed, pending, freelist, owner,
    leaked, collecting, th,
    hash, map,
    cell, maps, op,
    tree, count, keys, pc, cur, xp,
    src, text, prog, m, found,
    role, sent, wire, inbound, exact, httpPc, sawEof, got, cut,
    objects, task, jsonText, parsed, jsonStep,
    proj, pub, repo, lock, cmd, tidyPc, q, bounds, resolved, copying,
    app, done, routes, asked, answered,
    mode, wakes, free, running, listener, closer, backlog, client, serverPc,
    at, tasks, pool, failures, dead

Spans == INSTANCE SpanHeap WITH
    heap <- inHeap, Threads <- TwoThreads, Nobody <- "nobody", Spans <- {1, 2},
    Classes <- {1}, Slots <- (0 :> 1 @@ 1 :> 2), User <- (0 :> 5 @@ 1 :> 2), Recursive <- TRUE

(* Keys are alike: which of them have the greater hash does not matter.    *)
Linked == INSTANCE LinkedHashMap WITH
    Keys <- {"a", "b", "c"}, Vals <- {"x", "y"}, Absent <- "absent",
    Hashings <- {[a |-> i, b |-> j, c |-> k] : <<i, j, k>> \in {<<0, 0, 0>>, <<0, 0, 3>>, <<0, 3, 3>>, <<3, 3, 3>>}},
    InitCap <- 2, MaxCap <- 7

Segmented == INSTANCE ConcurrentHashMap WITH
    Threads <- TwoThreads, Keys <- {"a", "b"}, Vals <- {"x"}, Absent <- "absent",
    Segs <- 2, SegmentOf <- ("a" :> 1 @@ "b" :> 2),
    CallKinds <- {"put", "putIfAbsent", "get", "remove", "keys", "clear"},
    RehashThrows <- FALSE

Balanced == INSTANCE RedBlackTree WITH MaxKey <- 8

(* Every pattern of at most three tokens, and some with groups in groups   *)
(* and in repetitions.                                                     *)
UpTo(S, n) == UNION {[1 .. k -> S] : k \in 0 .. n}
Nested == {<<"(", "a", ")", "b", "|", "a">>, <<"(", "(", "a", ")", "b", ")", "*", "a">>,
           <<"(", "a", "|", "a", "b", ")", "b">>, <<"^", "b", "+", "a", "?">>,
           <<"(", "(", "a", ")", "b", "|", "a", ")", "*", "$">>}
Patterns == INSTANCE Regex WITH
    Sources <- Nested \cup UpTo({"a", ".", "(", ")", "*", "|", "$"}, 3),
    Texts <- UpTo({"a", "b"}, 3),
    Denotes <- ("a" :> {"a"} @@ "b" :> {"b"} @@ "." :> {"a", "b"}),
    MaxNodes <- 9, MaxCaps <- 3, MaxSteps <- 12

(* Two requests behind each other, of every framing, and a third to follow *)
(* them; a response of every framing.                                      *)
Message(id, framing, sizes, trailer, last) ==
    [id |-> id, framing |-> framing, sizes |-> sizes, trailer |-> trailer, last |-> last]
Framed(id) ==
    {Message(id, "length", <<n>>, FALSE, FALSE) : n \in {0, 2}}
    \cup {Message(id, "chunked", s, t, FALSE) : s \in {<<>>, <<2>>, <<1, 1>>}, t \in BOOLEAN}
Request(id) == Framed(id) \cup {Message(id, "none", <<>>, FALSE, l) : l \in BOOLEAN}
Requests == {<<a, b>> : a \in Request(1), b \in Request(2)}
            \cup {<<a, b, Message(3, "none", <<>>, FALSE, FALSE)>> : a \in Request(1), b \in Request(2)}
Wire == INSTANCE HttpWire WITH
    pc <- httpPc, Want <- 4, Limit <- 9,
    Responses <- Framed(1) \cup {Message(1, "none", <<2>>, FALSE, FALSE)}

(* Two containers of each kind and a leaf, in every way; chains of three;  *)
(* every text of three characters, numbers of four, and three texts with   *)
(* one character changed; paths of three steps.                            *)
Leaf(kind, is) == [class |-> kind, is |-> is, parts |-> <<>>]
Leaves ==
    {Leaf("String", <<"a">>), Leaf("String", <<"\\", "quote", "newline">>), Leaf("String", <<"bell">>),
     Leaf("Int", <<"-", "1">>), Leaf("UInt", <<"1">>), Leaf("UInt", <<"3">>), Leaf("Double", <<"1", ".", "3">>),
     Leaf("Double", <<"nan">>), Leaf("Bool", <<"true">>), Leaf("JSONNull", <<>>), Leaf("box", <<"1">>),
     Leaf("array", <<>>), Leaf("enum", <<"a">>)}
Keys == << <<"a">>, <<"b">>, <<"_", "a">> >>
Holder(kind, to) ==
    [class |-> kind, is |-> <<>>,
     parts |-> [k \in DOMAIN to |-> <<IF kind \in {"List", "JSONArray"} THEN <<>> ELSE Keys[k], to[k]>>]]
Holders == {"Bean", "Map", "List", "JSONObject", "JSONArray"}
Heaps ==
    {<<Holder(c, to), Holder(d, <<e>>), l>> :
        c, d \in Holders, to \in {<<>>, <<2, 2>>, <<3, 1>>, <<0, 3>>, <<3, 3, 2>>}, e \in {1, 2, 3}, l \in Leaves}
    \union {<<Holder(c, <<2>>), Holder(d, <<3>>), Holder(e, <<4>>), l>> :
               c, d, e \in Holders, l \in {Leaf("Int", <<"1">>), Leaf("JSONNull", <<>>)}}
Symbols == {"{", "}", "[", "]", ":", ",", "quote", "a", " ", "0", "null", "\\"}
Edited(s) ==
    {s} \union {[s EXCEPT ![k] = c] : k \in DOMAIN s, c \in Symbols}
    \union {SubSeq(s, 1, k - 1) \o SubSeq(s, k + 1, Len(s)) : k \in DOMAIN s}
    \union {SubSeq(s, 1, k) \o <<c>> \o SubSeq(s, k + 1, Len(s)) : k \in 0..Len(s), c \in Symbols}
Changed ==
    UNION {Edited(s) : s \in {<<"{", "quote", "a", "quote", ":", "[", "0", ",", "null", "]", "}">>,
                              <<"quote", "\\", "u", "A", "n", "\\", "n", "bell", "quote">>,
                              <<"[", "{", "}", " ", ",", "1", "]">>}}
Document ==
    <<"{", "quote", "a", "quote", ":", "{", "quote", "b", "quote", ":", "{", "quote", "a", "quote", ":", "0", "}", ",",
      "quote", "a", "quote", ":", "[", "1", ",", "{", "quote", "a", "quote", ":", "0", "}", ",", "3", ",", "null", "]", "}", "}">>
PathSteps ==
    {[do |-> kind, name |-> name] : kind \in {"key", "deep"}, name \in {<<"a">>, <<"b">>}}
    \union {[do |-> "wild"], [do |-> "index", at |-> 1]}
    \union {[do |-> "slice", from |-> r[1], to |-> r[2]] : r \in {<<1, 3>>, <<0, 1>>, <<1, 99>>}}
Json == INSTANCE Json WITH
    Memories <- Heaps,
    Texts <- UpTo(Symbols, 3) \union UpTo({"-", "0", "1", ".", "e", "+"}, 4) \union Changed
             \union {<<"quote", "\\", "u", "hi", "\\", "u", "lo", "quote">>},
    Documents <- {Document}, Paths <- UpTo(PathSteps, 3), MAX_DEPTH <- 1, LongDigits <- 2,
    memory <- objects, text <- jsonText, result <- parsed, step <- jsonStep,
    Known <- {"written as fields", "cycles of beans", "unsigned as signed", "arrays in beans", "box by reflection",
              "boxes of other numbers", "not a number", "null as text", "nullable text", "beans in beans",
              "surrogates", "control characters", "long integers"}

(* Modules a, b and c depend on each other in a cycle, with constraints    *)
(* that meet and that do not; b appears in a newer version later on.       *)
V1 == <<1, 0, 0>>
V11 == <<1, 1, 0>>
V2 == <<2, 0, 0>>
Edge(to, kind, base) == [to |-> to, con |-> [kind |-> kind, base |-> base]]
NoReplace == [x \in {} |-> [to |-> "path"]]
Manifest(deps, exclude, replace) == [deps |-> deps, exclude |-> exclude, replace |-> replace]
TidyModules == {"a", "b", "c"}
Manifests ==
    {Manifest(<<Edge("b", "least", V1), Edge("a", "caret", V1)>>, {"c"}, NoReplace),
     Manifest(<<Edge("a", "caret", V1), Edge("b", "caret", V1)>>, {}, "a" :> [to |-> "path"]),
     Manifest(<<Edge("a", "caret", V1)>>, {}, "b" :> Edge("c", "caret", V1))}
Tidy == INSTANCE ModTidy WITH
    pc <- tidyPc, cons <- bounds, Modules <- TidyModules, Versions <- {V1, V11, V2},
    Projects <- Manifests,
    Deps <- ("a" :> (V1 :> <<Edge("b", "caret", V1)>> @@ V11 :> <<Edge("b", "tilde", V1)>> @@ V2 :> <<>>)
             @@ "b" :> (V1 :> <<>> @@ V11 :> <<Edge("a", "least", V1), Edge("c", "exact", V1)>> @@ V2 :> <<>>)
             @@ "c" :> (V1 :> <<>> @@ V11 :> <<>> @@ V2 :> <<>>)),
    LocalDeps <- [x \in TidyModules |-> <<Edge("b", "tilde", V1)>>],
    Sources <- <<[http |-> TRUE], [http |-> FALSE]>>,
    Published <- <<[x \in TidyModules |-> {V1}],
                   [x \in TidyModules |-> IF x = "b" THEN {V1} ELSE {}]>>,
    Publishable <- {<<2, "b", V11>>}

(* HttpApp: a mapping with each way to write its annotations; a handler of *)
(* each type with each result; two registrations in any order; scans of    *)
(* every package; filters, interceptors and pipelines of up to three; two  *)
(* mounts and the paths that meet them.                                    *)
Path(names) == [k \in 1..2 * Len(names) |-> IF k % 2 = 1 THEN "/" ELSE names[k \div 2]]
A == Path(<<"a">>)
B == Path(<<"b">>)
AB == Path(<<"a", "b">>)
Slash == <<"/">>
Lit(t) == [is |-> "literal", text |-> t, name |-> ""]
Arg(key, leaves) == [key |-> key, leaves |-> leaves]
Use(name, args) == [name |-> name, args |-> args]
PathArgs == {<<>>} \union {<<Arg(key, <<Lit(t)>>)>> : key \in {"", "path"}, t \in {A, <<"a">>, Slash, <<"a", "/">>, AB}}
OddArgs ==
    {<<Arg("path", <<Lit(A), Lit(B)>>)>>, <<Arg("path", <<Lit(<<"/", "a", ";", "b">>)>>)>>,
     <<Arg("", <<[is |-> "name", text |-> A, name |-> "BASE"]>>)>>,
     <<Arg("", <<Lit(<<"/", "path=", "a">>)>>)>>, <<Arg("value", <<Lit(A)>>)>>}
ForPost == Arg("method", <<Lit(<<"POST">>)>>)
RequestArgs ==
    {<<ForPost>>, <<ForPost, Arg("path", <<Lit(A)>>)>>, <<Arg("path", <<Lit(A)>>), ForPost>>, <<Arg("", <<Lit(A)>>), ForPost>>}
Method(name, id, annos, result) ==
    [name |-> name, id |-> id, annos |-> annos, params |-> 1, returns |-> "String", result |-> result]
Get(path) == <<Use("GetMapping", <<Arg("path", <<Lit(path)>>)>>)>>
Web2 == <<"demo", "$", "web2", "$", "Ctl">>
Api == <<"demo", "$", "web", "$", "api", "$", "Ctl">>
Class(name, annos, methods) ==
    [name |-> name, annos |-> annos, methods |-> methods, factory |-> TRUE, params |-> 0]
Marked == <<Use("Controller", <<>>)>>
Controller(annos, methods) == Class(<<"demo", "$", "web", "$", "Ctl">>, annos, methods)
Asks(verbs, paths) == [verb : {<<v>> : v \in verbs}, path : paths]
Quiet ==
    [classes |-> <<>>, own |-> {}, imports |-> {{"Controller", "RequestMapping", "GetMapping", "PostMapping"}},
     registrations |-> <<>>, mounts |-> <<>>, files |-> {}, interceptors |-> <<>>, filters |-> <<>>,
     pipeline |-> <<"app">>,
     requests |-> Asks({"GET", "POST", "PUT"},
                       {Slash, A, B, AB, Path(<<"a", "a">>), A \o Slash, Path(<<"a", "a", "b">>)})]
Registering(k) == [do |-> "register", class |-> k]
One(controller) == [Quiet EXCEPT !.classes = <<controller>>, !.registrations = <<Registering(1)>>]
Mapped(annos, use) == One(Controller(annos, <<Method("f", "f", <<use>>, "x")>>))
Unmapped == Mapped(Marked, Use("PutMapping", <<>>))
Annotated ==
    {Mapped(<<Use("Controller", base)>>, Use("GetMapping", path)) : base, path \in PathArgs \union OddArgs}
    \union {Mapped(<<Use("RequestMapping", base), Use("Controller", <<>>)>>, Use("RequestMapping", path)) :
               base \in PathArgs, path \in RequestArgs \union PathArgs}
    \union {Unmapped}
Results ==
    {One(Controller(Marked, <<[Method("f", "f", Get(<<"a">>), v) EXCEPT !.params = n, !.returns = r]>>)) :
        r \in {"Unit", "String", "HttpResponse", "HttpResponseView", "Bean", "Int"},
        v \in {"null", "x", "thrown"}, n \in {0, 1}}
Two == Controller(Marked, <<Method("f", "f", Get(<<"a">>), "x"), Method("g", "g", Get(<<"b">>), "y")>>)
Route(p, fn) == [do |-> "route", verb |-> <<"GET">>, path |-> p, fn |-> fn]
Registrations == {Registering(1), Registering(2), Route(A, "k"), Route(<<"b">>, "l"), Route(A, "m")}
Orders ==
    {[Quiet EXCEPT !.classes = <<[Two EXCEPT !.methods[2].name = name],
                                 Controller(Marked, <<Method("h", "h", Get(<<"a">>), "z")>>)>>,
                   !.registrations = both] :
        name \in {"f", "g"}, both \in [1..2 -> Registrations]}
Scans ==
    [do : {"scan"}, nested : BOOLEAN,
     path : {<<>>, <<"main">>, <<"demo">>, <<"demo", "/", "web">>, <<"demo", ".", "web">>,
             <<"/", "demo", "$", "web", "/">>, <<"demo", "/", "web", "/", "api">>}]
    \union {[do |-> "registerNew", class |-> 2], [do |-> "registerNewArgs", class |-> 2, args |-> 1]}
Scanned ==
    {[Quiet EXCEPT !.classes = <<Controller(annos, <<Method("f", "f", Get(<<"a">>), "x")>>),
                                 [Class(Api, Marked, <<Method("f", "g", Get(<<"b">>), "y")>>) EXCEPT !.factory = f, !.params = n],
                                 Class(Web2, Marked, <<Method("f", "h", Get(Slash), "z")>>),
                                 Class(<<"Ctl">>, Marked, <<Method("f", "i", Get(AB), "w")>>)>>,
                   !.registrations = <<scan>>] :
        annos \in {Marked, <<>>}, f \in BOOLEAN, n \in {0, 1}, scan \in Scans}
Filtered ==
    {[One(Two) EXCEPT !.registrations = Append(@, Route(A, h)), !.interceptors = i, !.filters = f, !.pipeline = p,
                      !.requests = Asks({"GET"}, {A, Path(<<"c">>)})] :
        h \in {"k", "thrown"}, i \in UpTo({"allow", "deny"}, 2),
        f \in UpTo({"pass", "stop", "twice", "guard"}, 2) \union {<<"guard", "twice", "pass">>},
        p \in {<<"app">>, <<"forward", "app">>, <<"pass", "app">>}}
    \union {[One(Two) EXCEPT !.pipeline = p, !.filters = <<"pass">>, !.requests = Asks({"GET"}, {A})] :
               p \in UpTo({"app", "forward", "pass", "stop"}, 3)}
Mounted ==
    {[One(Two) EXCEPT !.mounts = mounts, !.files = {<<"r", <<"index.html">>>>, <<"r", <<"x">>>>, <<"s", <<"d", "x">>>>},
                      !.requests = Asks({"GET", "POST"},
                          {Slash, A, A \o Slash, <<"/", "a", "/", "/", "x">>}
                          \union {Path(p) : p \in {<<"a", "x">>, <<"ab", "x">>, <<"a", "d", "x">>, <<"d", "x">>, <<"x">>,
                                                   <<"a", "..", "x">>, <<"a", ".", "x">>}})] :
        mounts \in UpTo([prefix : {<<>>, Slash, <<"a">>, A \o Slash}, root : {"r", "s"}], 2)}
Controllers == Annotated \union Results \union Orders \union Scanned \union Filtered \union Mounted
Web == INSTANCE HttpApp WITH
    last <- answered, MAX_ASKED <- 1, Apps <- Controllers,
    Known <- {"method alone", "root of nothing", "first literal", "separators in values",
              "unknown annotations", "overloads by name", "answers of numbers", "named like a response",
              "forwarded twice", "proceeds twice", "thrown past post", "routes without a slash"}

Server == INSTANCE HttpServer WITH
    pc <- serverPc, Clients <- TwoBlocks, Workers <- {"w"},
    Modes <- {"serve", "parallel", "boss", "plain"}, MAX_REQUESTS <- 2, MAX_FAILURES <- 1,
    Known <- {"closed_before_served", "accept_outlives_close", "threads_left_running",
              "thrown_by_handler", "descriptor_0"}

spansVars == <<class, bits, lists, index, inHeap, doomed, pending, freelist,
               owner, leaked, collecting, th>>
linkedVars == <<hash, map>>
segmentedVars == <<cell, maps, op>>
balancedVars == <<tree, count, keys, pc, cur, xp>>
patternsVars == <<src, text, prog, m, found>>
wireVars == <<role, sent, wire, inbound, exact, httpPc, sawEof, got, cut>>
jsonVars == <<objects, task, jsonText, parsed, jsonStep>>
tidyVars == <<proj, pub, repo, lock, cmd, tidyPc, q, bounds, resolved,
              copying>>
webVars == <<app, done, routes, asked, answered>>
serverVars == <<mode, wakes, free, running, listener, closer, backlog, client,
                serverPc, at, tasks, pool, failures, dead>>

PartInit ==
    /\ part \in Parts
    /\ part # "linked" => hash = [k \in {"a", "b", "c"} |-> 0]
    /\ part # "patterns" => src = <<>> /\ text = <<>>
    /\ part # "wire" => role = "server" /\ sent = CHOOSE s \in Requests : TRUE
    /\ part # "json" => objects = <<>> /\ jsonText = <<>> /\ task = [kind |-> "parse"]
    /\ part # "tidy" => proj = CHOOSE p \in Manifests : TRUE
    /\ part # "web" => app = Unmapped
    /\ part # "server" => mode = "serve" /\ wakes = TRUE /\ free = 3
    /\ Init /\ Spans!Init /\ Linked!Init /\ Segmented!Init /\ Balanced!Init
    /\ Patterns!Init /\ Wire!Init /\ Json!Init /\ Tidy!Init /\ Web!Init
    /\ Server!Init

PartNext ==
    /\ part' = part
    /\ \/ /\ part = "epoch" /\ Next
          /\ UNCHANGED <<spansVars, linkedVars, segmentedVars, balancedVars,
                         patternsVars, wireVars, jsonVars, tidyVars, webVars,
                         serverVars>>
       \/ /\ part = "spans" /\ Spans!Next
          /\ UNCHANGED <<vars, linkedVars, segmentedVars, balancedVars,
                         patternsVars, wireVars, jsonVars, tidyVars, webVars,
                         serverVars>>
       \/ /\ part = "linked" /\ Linked!Next
          /\ UNCHANGED <<vars, spansVars, segmentedVars, balancedVars,
                         patternsVars, wireVars, jsonVars, tidyVars, webVars,
                         serverVars>>
       \/ /\ part = "segmented" /\ Segmented!Next
          /\ UNCHANGED <<vars, spansVars, linkedVars, balancedVars,
                         patternsVars, wireVars, jsonVars, tidyVars, webVars,
                         serverVars>>
       \/ /\ part = "balanced" /\ Balanced!Next
          /\ UNCHANGED <<vars, spansVars, linkedVars, segmentedVars,
                         patternsVars, wireVars, jsonVars, tidyVars, webVars,
                         serverVars>>
       \/ /\ part = "patterns" /\ Patterns!Next
          /\ UNCHANGED <<vars, spansVars, linkedVars, segmentedVars,
                         balancedVars, wireVars, jsonVars, tidyVars, webVars,
                         serverVars>>
       \/ /\ part = "wire" /\ Wire!Next
          /\ UNCHANGED <<vars, spansVars, linkedVars, segmentedVars,
                         balancedVars, patternsVars, jsonVars, tidyVars,
                         webVars, serverVars>>
       \/ /\ part = "json" /\ Json!Next
          /\ UNCHANGED <<vars, spansVars, linkedVars, segmentedVars,
                         balancedVars, patternsVars, wireVars, tidyVars,
                         webVars, serverVars>>
       \/ /\ part = "tidy" /\ Tidy!Next
          /\ UNCHANGED <<vars, spansVars, linkedVars, segmentedVars,
                         balancedVars, patternsVars, wireVars, jsonVars,
                         webVars, serverVars>>
       \/ /\ part = "web" /\ Web!Next
          /\ UNCHANGED <<vars, spansVars, linkedVars, segmentedVars,
                         balancedVars, patternsVars, wireVars, jsonVars,
                         tidyVars, serverVars>>
       \/ /\ part = "server" /\ Server!Next
          /\ UNCHANGED <<vars, spansVars, linkedVars, segmentedVars,
                         balancedVars, patternsVars, wireVars, jsonVars,
                         tidyVars, webVars>>

partVars == <<part, vars, spansVars, linkedVars, segmentedVars, balancedVars,
              patternsVars, wireVars, jsonVars, tidyVars, webVars,
              serverVars>>
PartSpec == PartInit /\ [][PartNext]_partVars

(* SpanHeap: the page index finds the blocks there are and no other, the   *)
(* count of free bytes is right.                                           *)
HeapSound == part = "spans" => Spans!HeapSound

(* LinkedHashMap is a map in the order of insertion.                       *)
ImplementsOrderedMap ==
    /\ Linked!Ordered!Init
    /\ [][part = "linked" => [Linked!Ordered!Next]_(Linked!Ordered!vars)]_linkedVars

(* ConcurrentHashMap is atomic call by call.                               *)
ImplementsAtomicMap ==
    /\ Segmented!Atomic!Init
    /\ [][part = "segmented" => [Segmented!Atomic!Next]_(Segmented!Atomic!vars)]_segmentedVars

(* Its threads do not wait for each other in a circle.                     *)
SomeoneMoves == part = "segmented" => Segmented!SomeoneMoves

(* RedBlackTree is ordered and balanced between two calls.                 *)
RedBlack == part = "balanced" => Balanced!RedBlack

(* Regex, HttpWire, Json, HttpApp and HttpServer: a match that is reported *)
(* is one, with its groups, and matches come in order; messages come out   *)
(* of the stream as they were put into it; what is written as JSON is read *)
(* as it was; requests are answered as their routes are declared; and      *)
(* connections are served and closed, whoever stops the server when.       *)
LibrarySound ==
    /\ part = "patterns" => Patterns!MatchSound /\ Patterns!FindsInOrder
    /\ part = "wire" => Wire!MessagesAsSent
    /\ part = "json" => Json!JsonSound
    /\ part = "web" => Web!HttpAppSound
    /\ part = "server" => Server!HttpServerSound

(* ModTidy: the lock a tidy writes meets every constraint it knows of.     *)
LockSound == Tidy!LockSound
=============================================================================

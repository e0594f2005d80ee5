------------------------------ MODULE HttpApp ------------------------------
(* net.HttpApp (src/stdlib/src/net/Mvc.hao), net.ChannelPipeline and the   *)
(* annotations and package scans they live on: the compiler writes the     *)
(* arguments of an annotation as one text (annotationArgValue,             *)
(* encodeAnnoValue), register reads paths and methods back out of it and   *)
(* binds routes, scan finds the controllers of a package, and dispatch     *)
(* takes a request through the pipeline, static files, interceptors and    *)
(* filters to the handler its route is bound to.                           *)
(*                                                                         *)
(* A text is a sequence of tokens: "/", ";", "$", the words the code       *)
(* looks for ("path=", "method=", "value=") and names. One registration    *)
(* after the other is carried out, then requests are answered; the objects *)
(* of a request (chain, contexts) are its own, so it is one step.          *)
EXTENDS Naturals, Sequences, FiniteSets, SequencesExt, TLC

CONSTANTS
    Apps,       \* what programs register, and the requests they get: see Fields below
    MAX_ASKED,  \* bound: requests to one program
    Known       \* the known gaps of the code to leave out, from Gaps

(* An app has: classes, the type table, in order, each with name, annos,   *)
(* methods, factory and params; imports, a set of sets of annotation       *)
(* names; registrations; mounts and files; interceptors, filters and the   *)
(* pipeline, sequences of kinds; and the requests it may get.              *)

(* An annotation with a method and no path takes its whole text for a      *)
(* path; a base of "/" and no path is the empty text; the first literal of *)
(* an expression, or the name of a constant, is its value; ";" and the     *)
(* words looked for may be in a value; what is no annotation is ignored;   *)
(* of two methods of one name the first is called; an answer that is a     *)
(* number ends the program; a class whose name has HttpResponse in it is   *)
(* taken for one; a handler of the pipeline that forwards has what follows *)
(* run twice; a filter that proceeds twice skips the filters after it; an  *)
(* exception of a handler goes past postHandle; an explicit route is not   *)
(* given the slash an annotated one is given.                              *)
Gaps == {"method alone", "root of nothing", "first literal", "separators in values",
         "unknown annotations", "overloads by name", "answers of numbers",
         "named like a response", "forwarded twice", "proceeds twice", "thrown past post",
         "routes without a slash"}
Open(gap) == gap \notin Known

VARIABLES
    app,        \* the program
    done,       \* registrations carried out
    routes,     \* what each key is bound to
    asked,      \* requests answered
    last        \* the last one: request, answer, events

vars == <<app, done, routes, asked, last>>

----------------------------------------------------------------------------
(* Annotations: what the compiler writes.                                  *)

Has(t, x) == \E k \in DOMAIN t : t[k] = x
First(t, x) == CHOOSE k \in DOMAIN t : t[k] = x /\ \A l \in 1..(k - 1) : t[l] # x
Drop(t, n) == SubSeq(t, n + 1, Len(t))
Before(t, x) == IF Has(t, x) THEN SubSeq(t, 1, First(t, x) - 1) ELSE t

(* An argument is an expression: its leaves, in order, each a literal or   *)
(* the name of a constant.                                                 *)
annotationArgValue(leaves) ==
    LET written(l) == IF l.is = "literal" THEN l.text ELSE <<l.name>>
        full == SelectSeq(leaves, LAMBDA l : written(l) # <<>>)
    IN IF full = <<>> THEN <<>> ELSE written(Head(full))

encodeAnnoValue(args) ==
    LET one(k) ==
            LET value == annotationArgValue(args[k].leaves)
            IN IF args[k].key = "" THEN value ELSE <<args[k].key \o "=">> \o value
        upTo[k \in 0..Len(args)] ==
            IF k = 0 THEN <<>> ELSE upTo[k - 1] \o (IF k > 1 THEN <<";">> ELSE <<>>) \o one(k)
    IN upTo[Len(args)]

(* A name is looked for in its own package, then in the packages imported: *)
(* found in none, it becomes the name of nothing.                          *)
resolveAnnotation(name) ==
    IF name \in app.own \/ Cardinality({p \in app.imports : name \in p}) = 1 THEN name ELSE "none"

resolveAnnotationUses(uses) ==
    [k \in DOMAIN uses |-> [of |-> resolveAnnotation(uses[k].name), text |-> encodeAnnoValue(uses[k].args)]]

(* And what a program finds of them.                                       *)
isAnnotationPresent(uses, name) == \E k \in DOMAIN uses : resolveAnnotationUses(uses)[k].of = name
getAnnotationValueFor(uses, name) ==
    LET found == SelectSeq(resolveAnnotationUses(uses), LAMBDA u : u.of = name)
    IN IF found = <<>> THEN <<>> ELSE Head(found).text

annoPath(v) ==
    LET after(word) == Before(Drop(v, First(v, word)), ";")
    IN CASE Has(v, "path=") -> after("path=")
         [] ~Has(v, "path=") /\ Has(v, "value=") -> after("value=")
         [] OTHER -> Before(v, ";")

annoMethod(v) == IF Has(v, "method=") THEN Before(Drop(v, First(v, "method=")), ";") ELSE <<>>

----------------------------------------------------------------------------
(* Routes.                                                                 *)

StartsWith(t, x) == t # <<>> /\ Head(t) = x
EndsWith(t, x) == t # <<>> /\ t[Len(t)] = x

joinPath(base, path) ==
    LET rooted == IF StartsWith(base, "/") THEN base ELSE <<"/">> \o base
        b == IF EndsWith(rooted, "/") THEN Front(rooted) ELSE rooted
        p == IF StartsWith(path, "/") THEN path ELSE <<"/">> \o path
    IN CASE base = <<>> -> p
         [] base # <<>> /\ path = <<>> -> b
         [] OTHER -> b \o p

routeKey(method, path) == <<method, path>>

Mappings == <<"GetMapping", "PostMapping", "PutMapping", "DeleteMapping">>
Verb == [GetMapping |-> <<"GET">>, PostMapping |-> <<"POST">>,
         PutMapping |-> <<"PUT">>, DeleteMapping |-> <<"DELETE">>]

BaseOf(class) ==
    LET of(name) == annoPath(getAnnotationValueFor(class.annos, name))
        orController(path) == IF path # <<>> THEN path ELSE of("Controller")
    IN orController(of("RequestMapping"))

(* The method and path a method of a controller is mapped to; no method    *)
(* when it is not mapped.                                                  *)
MappingOf(method) ==
    LET plain == SelectSeq(Mappings, LAMBDA m : isAnnotationPresent(method.annos, m))
        orGet(verb) == IF verb = <<>> THEN <<"GET">> ELSE verb
        general(text) == [verb |-> orGet(annoMethod(text)), path |-> annoPath(text)]
    IN CASE plain # <<>> ->
              [verb |-> Verb[Head(plain)], path |-> annoPath(getAnnotationValueFor(method.annos, Head(plain)))]
         [] plain = <<>> /\ isAnnotationPresent(method.annos, "RequestMapping") ->
              general(getAnnotationValueFor(method.annos, "RequestMapping"))
         [] OTHER -> [verb |-> <<>>, path |-> <<>>]

(* The methods of class c are bound in their order, by name: a later       *)
(* binding of a key replaces an earlier one.                               *)
register(bound, c) ==
    LET class == app.classes[c]
        with(before, key, m) == (key :> [class |-> c, method |-> m.name]) @@ before
        mapped(before, to, m) ==
            IF to.verb = <<>> THEN before
            ELSE with(before, routeKey(to.verb, joinPath(BaseOf(class), to.path)), m)
    IN FoldLeft(LAMBDA before, m : mapped(before, MappingOf(m), m), bound, class.methods)

----------------------------------------------------------------------------
(* Package scans: a package is given as demo/web, demo.web or demo$web.    *)

Separators == {"/", ".", "$"}
normalizePackagePrefix(path) ==
    LET inner == {k \in DOMAIN path :
                     (\E l \in 1..k : path[l] # "/") /\ (\E l \in k..Len(path) : path[l] # "/")}
        s == SelectSeq([k \in DOMAIN path |-> IF k \in inner THEN path[k] ELSE ""], LAMBDA x : x # "")
        out == [k \in DOMAIN s |-> IF s[k] \in Separators THEN "$" ELSE s[k]]
    IN IF path \in {<<>>, <<"*">>, <<"main">>} \/ s = <<>> THEN <<>>
       ELSE IF EndsWith(out, "$") THEN out ELSE Append(out, "$")

inPackage(name, path) ==
    LET want == normalizePackagePrefix(path)
    IN IF want = <<>> THEN ~Has(name, "$") ELSE IsPrefix(want, name)

inPackageExact(name, path) ==
    LET want == normalizePackagePrefix(path)
    IN IF want = <<>> THEN ~Has(name, "$")
       ELSE IsPrefix(want, name) /\ ~Has(Drop(name, Len(want)), "$")

(* What a scan makes and registers: classes of the package a predicate     *)
(* accepts, here those annotated as controllers, that can be made without  *)
(* arguments.                                                              *)
canNewInstance(class) == class.factory /\ class.params = 0
findTypes(path, nested) ==
    SelectSeq([c \in DOMAIN app.classes |-> c],
              LAMBDA c : /\ IF nested THEN inPackage(app.classes[c].name, path)
                            ELSE inPackageExact(app.classes[c].name, path)
                         /\ isAnnotationPresent(app.classes[c].annos, "Controller"))
scanWhere(bound, path, nested) ==
    FoldLeft(LAMBDA b, c : IF canNewInstance(app.classes[c]) THEN register(b, c) ELSE b,
             bound, findTypes(path, nested))

(* One registration.                                                       *)
Registered(bound, r) ==
    CASE r.do = "route" ->
           (routeKey(r.verb, r.path) :> [fn |-> r.fn]) @@ bound
      [] r.do = "register" -> register(bound, r.class)
      [] r.do = "registerNew" -> IF canNewInstance(app.classes[r.class]) THEN register(bound, r.class) ELSE bound
      [] r.do = "registerNewArgs" ->
           IF app.classes[r.class].factory /\ app.classes[r.class].params = r.args
           THEN register(bound, r.class) ELSE bound
      [] r.do = "scan" -> scanWhere(bound, r.path, r.nested)

Register ==
    /\ done < Len(app.registrations)
    /\ done' = done + 1
    /\ routes' = Registered(routes, app.registrations[done'])
    /\ UNCHANGED <<app, asked, last>>

----------------------------------------------------------------------------
(* Answers: a status, or the way a handler failed.                         *)

Answer(status, body) == [is |-> "response", status |-> status, body |-> body]
Thrown == [is |-> "thrown", status |-> 0, body |-> "none"]
Panic == [is |-> "panic", status |-> 0, body |-> "none"]
Nothing == [is |-> "nothing", status |-> 0, body |-> "none"]

(* The result of a method that ran, by the name of the type it returns: a  *)
(* View is a bean whose name has HttpResponse in it.                       *)
coerceResultObj(method) ==
    CASE method.returns = "Unit" -> Answer(204, "")
      [] method.returns = "String" -> Answer(200, IF method.result = "null" THEN "" ELSE method.result)
      [] method.returns \in {"HttpResponse", "HttpResponseView"} /\ method.result = "null" -> Answer(500, "null response")
      [] method.returns = "Bean" /\ method.result = "null" -> Answer(200, "null")
      [] method.returns = "HttpResponse" /\ method.result # "null" -> Answer(200, method.result)
      [] method.returns = "HttpResponseView" /\ method.result # "null" -> Thrown
      [] OTHER -> Answer(200, "json " \o method.result)

(* A bound method is found by its name; it has to have one parameter.      *)
invokeMethod(c, name) ==
    LET methods == app.classes[c].methods
        m == methods[CHOOSE k \in DOMAIN methods :
                        methods[k].name = name /\ \A l \in 1..(k - 1) : methods[l].name # name]
        ran == [answer |-> IF m.result = "thrown" THEN Thrown ELSE coerceResultObj(m), ran |-> m.id]
    IN CASE m.params # 1 -> [answer |-> Thrown, ran |-> "none"]
         [] m.params = 1 /\ m.returns = "Int" -> [answer |-> Panic, ran |-> "none"]
         [] OTHER -> ran

invokeRoute(req) ==
    LET key == routeKey(req.verb, req.path)
    IN IF key \notin DOMAIN routes THEN [answer |-> Answer(404, "not found"), ran |-> "none"]
       ELSE LET b == routes[key]
            IN IF "fn" \in DOMAIN b
               THEN [answer |-> IF b.fn = "thrown" THEN Thrown ELSE Answer(200, b.fn), ran |-> b.fn]
               ELSE invokeMethod(b.class, b.method)

----------------------------------------------------------------------------
(* Static files. A file is a root and the names below it.                  *)

Names(path) == SelectSeq(path, LAMBDA x : x # "/")

staticFiles(urlPrefix) ==
    LET rooted == IF StartsWith(urlPrefix, "/") THEN urlPrefix ELSE <<"/">> \o urlPrefix
    IN IF Len(rooted) > 1 /\ EndsWith(rooted, "/") THEN Front(rooted) ELSE rooted

Matches(prefix, path) == path = prefix \/ prefix = <<"/">> \/ IsPrefix(Append(prefix, "/"), path)
RelOf(prefix, path) ==
    CASE path = prefix -> <<>>
      [] path # prefix /\ prefix = <<"/">> -> IF StartsWith(path, "/") THEN Tail(path) ELSE path
      [] OTHER -> Drop(path, Len(prefix) + 1)
isSafeRelPath(rel) == ~Has(rel, "..") /\ ~Has(rel, ":") /\ ~StartsWith(rel, "/")

(* The first mount that matches answers; Nothing when none does.           *)
tryStatic(path) ==
    LET hit == SelectSeq(app.mounts, LAMBDA m : Matches(staticFiles(m.prefix), path))
        m == Head(hit)
        rel == RelOf(staticFiles(m.prefix), path)
        names == IF rel = <<>> THEN <<"index.html">> ELSE SelectSeq(Names(rel), LAMBDA x : x # ".")
    IN CASE hit = <<>> -> Nothing
         [] hit # <<>> /\ ~isSafeRelPath(rel) -> Answer(403, "forbidden")
         [] OTHER -> IF <<m.root, names>> \in app.files THEN Answer(200, <<m.root, names>>) ELSE Answer(404, "not found")

----------------------------------------------------------------------------
(* Filters, interceptors and the pipeline. What happened is a sequence of  *)
(* events: who was called, and its place.                                  *)

Call(who, at) == <<<<who, at>>>>

(* proceed: the chain has one index, moved on by every filter it calls. A  *)
(* filter passes the request on, answers it itself, tries twice, or        *)
(* answers for what is thrown below it.                                    *)
Chain(to) ==
    LET from[i \in 1..(Len(app.filters) + 1)] ==
            IF i > Len(app.filters) THEN [answer |-> to.answer, events |-> Call(to.ran, 0), index |-> i]
            ELSE LET kind == app.filters[i]
                     first == from[i + 1]
                     again == from[first.index]
                     on(r, answer, more) ==
                         [answer |-> answer, events |-> Call("filter", i) \o r.events \o more, index |-> r.index]
                 IN CASE kind = "stop" -> [answer |-> Answer(401, "stopped"), events |-> Call("filter", i), index |-> i + 1]
                      [] kind = "twice" /\ first.answer.is = "response" ->
                           [on(first, again.answer, again.events) EXCEPT !.index = again.index]
                      [] kind = "guard" /\ first.answer.is = "thrown" -> on(first, Answer(500, "guarded"), <<>>)
                      [] OTHER -> on(first, first.answer, <<>>)
    IN from[1]
proceed(req) == Chain(invokeRoute(req))

Denied == {i \in DOMAIN app.interceptors : app.interceptors[i] = "deny"}
FirstDenied == CHOOSE i \in Denied : \A j \in Denied : i <= j
Each(who, n) == [k \in 1..n |-> <<who, k>>]

dispatch(req) ==
    LET n == Len(app.interceptors)
        handled(r) ==
            [r EXCEPT !.events = Each("pre", n) \o @ \o (IF r.answer.is = "response" THEN Each("post", n) ELSE <<>>)]
        after(static) ==
            CASE static # Nothing -> [answer |-> static, events |-> <<>>]
              [] static = Nothing /\ Denied # {} -> [answer |-> Answer(403, "forbidden"), events |-> Each("pre", FirstDenied)]
              [] OTHER -> handled(proceed(req))
    IN after(IF req.verb = <<"GET">> THEN tryStatic(req.path) ELSE Nothing)

(* invokeFrom: what is given to a handler is the request, a response or    *)
(* null, and dispatch may fail. A "forward" handler has the channelRead of *)
(* ChannelHandler: it calls the rest of the pipeline, and invokeFrom then  *)
(* goes on with what that returned.                                        *)
Messages == {"request", "response", "null", "failed"}
invokeFrom(d) ==
    LET served == [is |-> IF d.answer.is = "response" THEN "response" ELSE "failed", events |-> d.events]
        run[s \in 1..(Len(app.pipeline) + 1), m \in Messages] ==
            IF s > Len(app.pipeline) \/ m \in {"null", "failed"} THEN [is |-> m, events |-> <<>>]
            ELSE LET h == app.pipeline[s]
                     go(after, rest) == [is |-> rest.is, events |-> after.events \o rest.events]
                     on(after) == go(after, run[s + 1, after.is])
                 IN on(CASE h = "forward" -> run[s + 1, m]
                              [] h = "app" /\ m = "request" -> served
                              [] h = "pass" -> [is |-> m, events |-> <<>>]
                              [] OTHER -> [is |-> "null", events |-> <<>>])
    IN [answer |-> CASE run[1, "request"].is \in {"response", "failed"} -> d.answer [] OTHER -> Nothing,
        events |-> run[1, "request"].events]

Ask(req) ==
    /\ done = Len(app.registrations)
    /\ asked < MAX_ASKED
    /\ asked' = asked + 1
    /\ last' = [request |-> req] @@ invokeFrom(dispatch(req))
    /\ UNCHANGED <<app, done, routes>>

NoRequest == [verb |-> <<>>, path |-> <<>>]
Init ==
    /\ app \in Apps
    /\ done = 0
    /\ routes = <<>>
    /\ asked = 0
    /\ last = [request |-> NoRequest, answer |-> Nothing, events |-> <<>>]

Next == Register \/ \E req \in app.requests : Ask(req)

Spec == Init /\ [][Next]_vars

----------------------------------------------------------------------------
(* What a program means. A path is the names in it; an annotation says     *)
(* what its arguments mean: a path is the argument path, value or the      *)
(* nameless one, "" without.                                               *)

MeantText(leaves) == FoldLeft(LAMBDA t, l : t \o l.text, <<>>, leaves)
MeantArg(args, keys) ==
    LET of == SelectSeq(args, LAMBDA a : a.key \in keys)
    IN IF of = <<>> THEN <<>> ELSE MeantText(Head(of).leaves)
MeantPath(uses, name) ==
    LET of == SelectSeq(uses, LAMBDA u : u.name = name)
    IN IF of = <<>> THEN <<>> ELSE MeantArg(Head(of).args, {"", "path", "value"})

MeantBase(class) ==
    IF MeantPath(class.annos, "RequestMapping") # <<>> THEN MeantPath(class.annos, "RequestMapping")
    ELSE MeantPath(class.annos, "Controller")
MeantVerb(m) ==
    LET named == SelectSeq(Mappings, LAMBDA x : \E k \in DOMAIN m.annos : m.annos[k].name = x)
        general == SelectSeq(m.annos, LAMBDA u : u.name = "RequestMapping")
    IN CASE named # <<>> -> <<Verb[Head(named)], Head(named)>>
         [] named = <<>> /\ general # <<>> ->
              <<IF MeantArg(Head(general).args, {"method"}) = <<>> THEN <<"GET">>
                ELSE MeantArg(Head(general).args, {"method"}), "RequestMapping">>
         [] OTHER -> <<<<>>, "none">>

(* The classes registration r registers, in order, and the paths of a      *)
(* method: the names of the base, then its own.                            *)
PackageOf(name) == SelectSeq(SubSeq(name, 1, Len(name) - 1), LAMBDA x : x # "$")
Asked(path) == IF path \in {<<"*">>, <<"main">>} THEN <<>> ELSE SelectSeq(path, LAMBDA x : x \notin Separators)
MeantClasses(r) ==
    LET made(c) == app.classes[c].factory /\ app.classes[c].params = 0
        within(c) == IF r.nested /\ Asked(r.path) # <<>> THEN IsPrefix(Asked(r.path), PackageOf(app.classes[c].name))
                     ELSE PackageOf(app.classes[c].name) = Asked(r.path)
        controller(c) == \E k \in DOMAIN app.classes[c].annos : app.classes[c].annos[k].name = "Controller"
    IN CASE r.do = "route" -> <<>>
         [] r.do = "register" -> <<r.class>>
         [] r.do = "registerNew" -> IF made(r.class) THEN <<r.class>> ELSE <<>>
         [] r.do = "registerNewArgs" ->
              IF app.classes[r.class].factory /\ app.classes[r.class].params = r.args THEN <<r.class>> ELSE <<>>
         [] OTHER -> SelectSeq([c \in DOMAIN app.classes |-> c], LAMBDA c : made(c) /\ within(c) /\ controller(c))

(* All bindings of registration r: the verb, the shape of the path - its   *)
(* names and whether a slash ends it - and the handler.                    *)
ShapeOf(path) == <<Names(path), EndsWith(path, "/") /\ Names(path) # <<>>>>
MeantBindings(r) ==
    LET of(c) ==
            LET class == app.classes[c]
                methods == SelectSeq(class.methods, LAMBDA m : MeantVerb(m)[1] # <<>>)
                path(m) == MeantPath(m.annos, MeantVerb(m)[2])
                whole(m) == MeantBase(class) \o (IF path(m) = <<>> THEN <<>> ELSE <<"/">>) \o path(m)
            IN [k \in DOMAIN methods |->
                   [verb |-> MeantVerb(methods[k])[1], fn |-> methods[k].id,
                    shape |-> <<Names(whole(methods[k])),
                                EndsWith(path(methods[k]), "/") /\ Names(whole(methods[k])) # <<>>>>]]
    IN IF r.do = "route" THEN <<[verb |-> r.verb, shape |-> ShapeOf(r.path), fn |-> r.fn]>>
       ELSE FoldLeft(LAMBDA all, c : all \o of(c), <<>>, MeantClasses(r))

(* What runs for a request, and its answer: the last handler bound to its  *)
(* verb and path.                                                          *)
Canonical(path) ==
    /\ StartsWith(path, "/")
    /\ \A k \in 1..(Len(path) - 1) : {path[k], path[k + 1]} # {"/"}
    /\ {".", "..", ":"} \intersect ToSet(path) = {}
LastBound(bindings, req) ==
    LET bound == SelectSeq(bindings, LAMBDA b : b.verb = req.verb /\ b.shape = ShapeOf(req.path))
    IN IF bound = <<>> THEN "none" ELSE Last(bound).fn
MeantTarget(req) ==
    LastBound(FoldLeft(LAMBDA t, r : t \o MeantBindings(r), <<>>, app.registrations), req)
Methods == UNION {ToSet(app.classes[c].methods) : c \in DOMAIN app.classes}
MeantOf(target) ==
    LET m == CHOOSE x \in Methods : x.id = target
        body(of) == CASE of.returns \in {"String", "HttpResponse"} -> of.result [] OTHER -> "json " \o of.result
    IN CASE target = "none" -> [answer |-> Answer(404, "not found"), ran |-> "none"]
         [] target # "none" /\ ~\E x \in Methods : x.id = target ->
              [answer |-> IF target = "thrown" THEN Thrown ELSE Answer(200, target), ran |-> target]
         [] OTHER ->
              IF m.params # 1 THEN [answer |-> Thrown, ran |-> "none"]
              ELSE [ran |-> target,
                    answer |-> CASE m.result = "thrown" -> Thrown
                                 [] m.returns = "Unit" -> Answer(204, "")
                                 [] m.returns = "HttpResponse" /\ m.result = "null" -> Answer(500, "null response")
                                 [] m.returns = "String" /\ m.result = "null" -> Answer(200, "")
                                 [] m.returns \in {"Bean", "HttpResponseView"} /\ m.result = "null" -> Answer(200, "null")
                                 [] OTHER -> Answer(200, body(m))]

(* A filter is around what follows it, as often as it proceeds; an         *)
(* interceptor is called before, and after what it let pass.               *)
MeantAround(to) ==
    LET n == Len(app.interceptors)
        around[i \in 1..(Len(app.filters) + 1)] ==
            IF i > Len(app.filters) THEN [answer |-> to.answer, events |-> Call(to.ran, 0)]
            ELSE LET inner == around[i + 1]
                     kind == app.filters[i]
                 IN [answer |-> CASE kind = "stop" -> Answer(401, "stopped")
                                  [] kind = "guard" /\ inner.answer.is = "thrown" -> Answer(500, "guarded")
                                  [] OTHER -> inner.answer,
                     events |-> Call("filter", i)
                                \o (IF kind = "stop" THEN <<>> ELSE inner.events)
                                \o (IF kind = "twice" /\ inner.answer.is = "response" THEN inner.events ELSE <<>>)]
        refusing == {i \in DOMAIN app.interceptors : app.interceptors[i] = "deny"}
    IN IF refusing # {}
       THEN [answer |-> Answer(403, "forbidden"),
             events |-> [k \in 1..(CHOOSE i \in refusing : \A j \in refusing : i <= j) |-> <<"pre", k>>]]
       ELSE [answer |-> around[1].answer,
             events |-> [k \in 1..n |-> <<"pre", k>>] \o around[1].events \o [k \in 1..n |-> <<"post", k>>]]
MeantRun(req) == MeantAround(MeantOf(MeantTarget(req)))

(* The first mount whose names begin the path has all files of it.         *)
MeantServed(req) ==
    LET hit == SelectSeq(app.mounts, LAMBDA m : IsPrefix(Names(m.prefix), Names(req.path)))
        m == Head(hit)
        rest == Drop(Names(req.path), Len(Names(m.prefix)))
        file == <<m.root, IF rest = <<>> THEN <<"index.html">> ELSE rest>>
    IN IF hit = <<>> \/ req.verb # <<"GET">> THEN MeantRun(req)
       ELSE [answer |-> IF file \in app.files THEN Answer(200, file) ELSE Answer(404, "not found"), events |-> <<>>]

(* Every handler of the pipeline has the message once, in order, until one *)
(* stops it; what is no request is no business of the last.                *)
MeantPassed(d) ==
    LET ends == [k \in DOMAIN app.pipeline |-> app.pipeline[k] \in {"stop", "app"}]
        at == CHOOSE k \in DOMAIN ends : ends[k] /\ \A l \in 1..(k - 1) : ~ends[l]
        after == {app.pipeline[k] : k \in (at + 1)..Len(app.pipeline)}
        silent == [answer |-> Nothing, events |-> <<>>]
    IN IF \A k \in DOMAIN ends : ~ends[k] THEN silent
       ELSE CASE app.pipeline[at] = "stop" -> silent
              [] app.pipeline[at] = "app" /\ d.answer.is = "response" /\ after \intersect {"stop", "app"} # {} ->
                   [d EXCEPT !.answer = Nothing]
              [] OTHER -> d
MeantAnswered(req) == MeantPassed(MeantServed(req))

----------------------------------------------------------------------------
(* Where the known gaps are.                                               *)

Uses == UNION {{app.classes[c].annos} \union {m.annos : m \in ToSet(app.classes[c].methods)} : c \in DOMAIN app.classes}
Written == UNION {ToSet(u) : u \in Uses}
Arguments == UNION {ToSet(u.args) : u \in Written}
Keys(u) == {a.key : a \in ToSet(u.args)}
Words == {";", "path=", "method=", "value="}

Gap(gap, target) ==
    LET methods == {m \in Methods : m.id = target}
    IN CASE gap = "method alone" -> \E u \in Written : u.args # <<>> /\ Head(u.args).key = "method" /\ Keys(u) \intersect {"path", "value"} = {}
         [] gap = "root of nothing" -> \E c \in DOMAIN app.classes : MeantBase(app.classes[c]) = <<"/">>
                                          /\ \E m \in ToSet(app.classes[c].methods) : MeantPath(m.annos, MeantVerb(m)[2]) = <<>>
         [] gap = "first literal" -> \E a \in Arguments : Len(a.leaves) # 1 \/ \E k \in DOMAIN a.leaves : a.leaves[k].is = "name"
         [] gap = "separators in values" -> \E a \in Arguments : \E k \in DOMAIN a.leaves : ToSet(a.leaves[k].text) \intersect Words # {}
         [] gap = "unknown annotations" -> \E u \in Written : resolveAnnotation(u.name) = "none"
         [] gap = "routes without a slash" -> \E r \in ToSet(app.registrations) : r.do = "route" /\ ~StartsWith(r.path, "/")
         [] gap = "overloads by name" -> \E c \in DOMAIN app.classes : \E m, n \in ToSet(app.classes[c].methods) : m # n /\ m.name = n.name
         [] gap = "answers of numbers" -> \E m \in methods : m.returns = "Int"
         [] gap = "named like a response" -> \E m \in methods : m.returns = "HttpResponseView"
         [] gap = "forwarded twice" -> \E k \in 1..(Len(app.pipeline) - 1) : app.pipeline[k] = "forward"
         [] gap = "proceeds twice" -> \E k \in 1..(Len(app.filters) - 1) : app.filters[k] = "twice"
         [] gap = "thrown past post" -> MeantOf(target).answer.is = "thrown" /\ app.interceptors # <<>>

(* A request is answered by the handler last bound to its verb and path -  *)
(* by the file of a mount first - after all interceptors let it pass and   *)
(* within all filters, each once and in order; every route a program       *)
(* declares by annotations, explicitly or by a scan is one of them.        *)
AnsweredAsDeclared ==
    LET req == last.request
        is(meant) == last.answer = meant.answer /\ last.events = meant.events
        gapAt(target) == \E gap \in Known : Gap(gap, target)
    IN (asked > 0 /\ Canonical(req.path) /\ ~gapAt(MeantTarget(req))) => is(MeantAnswered(req))

(* Only what is below the root of a mount, by names that stay there, is    *)
(* taken for a file, whatever the path.                                    *)
FilesOfMounts ==
    (last.answer.is = "response" /\ last.events = <<>> /\ last.answer.status = 200)
        => /\ last.answer.body \in app.files
           /\ \A k \in DOMAIN last.answer.body[2] : last.answer.body[2][k] \notin {"/", "..", "."}

HttpAppSound == AnsweredAsDeclared /\ FilesOfMounts
=============================================================================

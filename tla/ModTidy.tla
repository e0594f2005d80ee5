------------------------------ MODULE ModTidy -------------------------------
(***************************************************************************)
(* Package resolution (src/mod): hao mod tidy walks the dependency graph   *)
(* breadth first, picks for every module the highest version that meets    *)
(* the constraints met so far - from the local repository if it has one,   *)
(* else from the sources, whose package it copies there - and writes the   *)
(* lock file.  hao build tidies if something is missing, then checks each  *)
(* package of the lock against its hash.  A package's contents stand for   *)
(* the source they came from; Partial is a copy that was cut short.        *)
(***************************************************************************)
EXTENDS Naturals, Sequences

CONSTANTS
    Modules,
    Versions,       \* <<major, minor, patch>>
    Projects,       \* manifests: [deps, exclude, replace]; replace gives an edge, or [to |-> "path"]
    Deps,           \* Deps[m][v]: the edges [to, con] in the package's haopkg.json
    LocalDeps,      \* and in the haopkg.json of the directory that replaces a module
    Sources,        \* the merged source list: [http |-> is it an HTTP source]
    Published,      \* pub at first
    Publishable     \* <<source, module, version>> that appear later

VARIABLES
    proj,           \* the manifest
    pub,            \* pub[i][m]: the versions source i has
    repo,           \* repo[m][v]: contents in the local repository, or Absent
    lock,           \* module -> [ver, hash, local], or NoLock
    cmd,            \* the command, and what a build came to
    pc,             \* where it is
    q, cons, resolved,          \* tidy: edges to do, constraints met, entries
    copying         \* tidy: [m, v, from] being copied
vars == <<proj, pub, repo, lock, cmd, pc, q, cons, resolved, copying>>

Absent == 0             \* contents: a source, or nothing, or part of a package
Partial == Len(Sources) + 1
NoLock == [none |-> Absent]
Nothing == [m |-> "none"]
Empty == [m \in {} |-> Absent]
NoPackages == [m \in Modules |-> [v \in Versions |-> Absent]]

---------------------------------------------------------------------------
(* SemVer.                                                                 *)

Less(a, b) ==
    \/ a[1] < b[1]
    \/ a[1] = b[1] /\ a[2] < b[2]
    \/ a[1] = b[1] /\ a[2] = b[2] /\ a[3] < b[3]
Upper(c) ==
    IF c.kind = "tilde" THEN <<c.base[1], c.base[2] + 1, 0>>
    ELSE CASE c.base[1] > 0 -> <<c.base[1] + 1, 0, 0>>
           [] c.base[1] = 0 /\ c.base[2] > 0 -> <<0, c.base[2] + 1, 0>>
           [] OTHER -> <<0, 0, c.base[3] + 1>>
Satisfies(v, c) ==
    CASE c.kind = "exact" -> v = c.base
      [] c.kind = "least" -> ~Less(v, c.base)
      [] OTHER -> ~Less(v, c.base) /\ Less(v, Upper(c))
Highest(S) == CHOOSE v \in S : \A w \in S : ~Less(v, w)
Meeting(S, cs) == {v \in S : \A c \in cs : Satisfies(v, c)}

---------------------------------------------------------------------------
(* Sources.  Local(m): the directories of m in the local repository; a     *)
(* partial copy is a directory like any other.                             *)

Local(m) == {v \in Versions : repo[m][v] # Absent}

(* What an HTTP source lists: its versions.json, or if it cannot be had    *)
(* the one version the constraints name.                                   *)
Listed(i, m, cs, online) ==
    IF online THEN pub[i][m]
    ELSE IF cs # {} /\ \A c, d \in cs : c.kind = "exact" /\ c.base = d.base THEN {c.base : c \in cs}
    ELSE {}
Offer(i, m, cs, online) ==
    Meeting(IF Sources[i].http THEN Listed(i, m, cs, online) ELSE pub[i][m], cs)
(* The first source with the highest version, among the sources of a kind. *)
Best(kind, m, cs, online) ==
    LET from == {i \in 1 .. Len(Sources) : Sources[i].http = kind /\ Offer(i, m, cs, online) # {}}
        top == Highest(UNION {Offer(i, m, cs, online) : i \in from})
    IN IF from = {} THEN Nothing
       ELSE [v |-> top,
             src |-> CHOOSE i \in from : top \in Offer(i, m, cs, online)
                                         /\ \A j \in from : top \in Offer(j, m, cs, online) => i <= j]
(* resolveFromFileRegistriesAll on the local repository, then on the       *)
(* sources: directories before HTTP.  src 0 is the local repository.       *)
Selected(m, cs, online) ==
    IF Meeting(Local(m), cs) # {} THEN [v |-> Highest(Meeting(Local(m), cs)), src |-> 0]
    ELSE IF Best(FALSE, m, cs, online) # Nothing THEN Best(FALSE, m, cs, online)
    ELSE Best(TRUE, m, cs, online)

---------------------------------------------------------------------------
(* modTidy.                                                                *)

Redirected(e) == IF e.to \in DOMAIN proj.replace /\ proj.replace[e.to].to # "path"
                 THEN proj.replace[e.to] ELSE e
ByPath(m) == m \in DOMAIN proj.replace /\ proj.replace[m].to = "path"
With(f, m, x) == [k \in DOMAIN f \cup {m} |-> IF k = m THEN x ELSE f[k]]

StartTidy ==
    pc' = "walk" /\ q' = proj.deps /\ cons' = Empty /\ resolved' = Empty /\ copying' = Nothing
Done == pc' = "idle" /\ q' = <<>> /\ cons' = Empty /\ resolved' = Empty /\ copying' = Nothing

(* The constraints met so far.                                             *)
Known(m) == IF m \in DOMAIN cons THEN cons[m] ELSE {}

(* Mutant: what was chosen before is not looked at.                        *)
NoConflict(m, v) == FALSE

Conflict(m, v) == m \in DOMAIN resolved /\ resolved[m].ver # v

SkipExcluded ==
    /\ pc = "walk" /\ q # <<>> /\ Head(q).to \in proj.exclude
    /\ q' = Tail(q)
    /\ UNCHANGED <<proj, pub, repo, lock, cmd, pc, cons, resolved, copying>>

(* A module replaced by a directory: its version is the constraint's base. *)
TakePath ==
    /\ pc = "walk" /\ q # <<>> /\ Head(q).to \notin proj.exclude /\ ByPath(Head(q).to)
    /\ LET e == Head(q)
       IN /\ cons' = With(cons, e.to, Known(e.to) \cup {e.con})
          /\ IF e.to \in DOMAIN resolved THEN q' = Tail(q) /\ UNCHANGED resolved
             ELSE /\ resolved' = With(resolved, e.to, [ver |-> e.con.base, hash |-> Absent, local |-> TRUE])
                  /\ q' = Tail(q) \o LocalDeps[e.to]
    /\ UNCHANGED <<proj, pub, repo, lock, cmd, pc, copying>>

(* Any other edge: pick a version that meets every constraint met so far;  *)
(* it must be the one chosen before.                                       *)
Take(online) ==
    /\ pc = "walk" /\ q # <<>> /\ Head(q).to \notin proj.exclude /\ ~ByPath(Head(q).to)
    /\ LET e == Redirected(Head(q))
           cs == Known(e.to) \cup {e.con}
           s == Selected(e.to, cs, online)
       IN IF IF s = Nothing THEN TRUE ELSE Conflict(e.to, s.v) THEN Done
          ELSE /\ cons' = With(cons, e.to, cs) /\ q' = Tail(q) /\ UNCHANGED resolved
               /\ IF e.to \in DOMAIN resolved THEN UNCHANGED <<pc, copying>>
                  ELSE copying' = [m |-> e.to, v |-> s.v, src |-> s.src] /\ pc' = "copy"
    /\ UNCHANGED <<proj, pub, repo, lock, cmd>>

(* The package cannot be fetched; or its directory is made and filled.     *)
FetchFails ==
    /\ pc = "copy" /\ copying.src # 0 /\ Sources[copying.src].http
    /\ Done /\ UNCHANGED <<proj, pub, repo, lock, cmd>>
BeginCopy ==
    /\ pc = "copy" /\ copying.src # 0 /\ copying.v \in pub[copying.src][copying.m]
    /\ repo' = [repo EXCEPT ![copying.m][copying.v] = Partial]
    /\ pc' = "copied"
    /\ UNCHANGED <<proj, pub, lock, cmd, q, cons, resolved, copying>>
(* copyTree fails half way, or the process ends.                           *)
CopyFails ==
    /\ pc = "copied" /\ Done /\ UNCHANGED <<proj, pub, repo, lock, cmd>>
(* The copy ends, or the package was there: hash it, make the entry and    *)
(* queue its dependencies.  A partial package may lack its haopkg.json.    *)
Resolve ==
    LET m == copying.m
        v == copying.v
        contents == IF copying.src = 0 THEN repo[m][v] ELSE copying.src
    IN /\ pc = "copied" \/ (pc = "copy" /\ copying.src = 0)
       /\ repo' = [repo EXCEPT ![m][v] = contents]
       /\ resolved' = With(resolved, m, [ver |-> v, hash |-> contents, local |-> FALSE])
       /\ \E kids \in {Deps[m][v]} \cup (IF contents = Partial THEN {<<>>} ELSE {}) : q' = q \o kids
       /\ pc' = "walk" /\ copying' = Nothing
       /\ UNCHANGED <<proj, pub, lock, cmd, cons>>

WriteLock ==
    /\ pc = "walk" /\ q = <<>>
    /\ lock' = resolved
    /\ IF cmd = "build" THEN pc' = "roots" /\ UNCHANGED <<q, cons, resolved, copying>> ELSE Done
    /\ UNCHANGED <<proj, pub, repo, cmd>>

---------------------------------------------------------------------------
(* Commands, and what others do to the files between them.                 *)

Idle == pc = "idle"

RunTidy == Idle /\ cmd' = "tidy" /\ StartTidy /\ UNCHANGED <<proj, pub, repo, lock>>

(* ensureDepsSearchRoots: tidy if there is no lock, a package of the lock  *)
(* is not in the local repository, or a dependency of the project is not   *)
(* in the lock.                                                            *)
Covered == lock # NoLock /\ \A i \in 1 .. Len(proj.deps) :
              proj.deps[i].to \in proj.exclude \cup DOMAIN lock
Missing == \E m \in DOMAIN lock : ~lock[m].local /\ repo[m][lock[m].ver] = Absent
RunBuild ==
    /\ Idle /\ proj.deps # <<>>
    /\ cmd' = "build"
    /\ IF Covered /\ ~Missing THEN pc' = "roots" /\ UNCHANGED <<q, cons, resolved, copying>> ELSE StartTidy
    /\ UNCHANGED <<proj, pub, repo, lock>>

(* The loop over the lock: a replaced module needs its replacement, any    *)
(* other package the hash it was locked with.                              *)
Trusted == \A m \in DOMAIN lock :
    IF lock[m].local THEN ByPath(m) ELSE repo[m][lock[m].ver] = lock[m].hash
Roots ==
    /\ pc = "roots" /\ Done
    /\ cmd' = IF Trusted THEN "built" ELSE "refused"
    /\ UNCHANGED <<proj, pub, repo, lock>>

Publish == \E w \in Publishable :
    /\ Idle /\ pub' = [pub EXCEPT ![w[1]][w[2]] = @ \cup {w[3]}]
    /\ UNCHANGED <<proj, repo, lock, cmd, pc, q, cons, resolved, copying>>
Edit == \E p \in Projects :
    /\ Idle /\ proj' = p /\ cmd' = "none"
    /\ UNCHANGED <<pub, repo, lock, pc, q, cons, resolved, copying>>
Wipe ==
    /\ Idle /\ repo' = NoPackages /\ cmd' = "none"
    /\ UNCHANGED <<proj, pub, lock, pc, q, cons, resolved, copying>>

Init ==
    /\ proj \in Projects /\ pub = Published /\ repo = NoPackages /\ lock = NoLock
    /\ cmd = "none" /\ pc = "idle" /\ q = <<>> /\ cons = Empty /\ resolved = Empty
    /\ copying = Nothing

Next ==
    \/ RunTidy \/ RunBuild
    \/ SkipExcluded \/ TakePath \/ (\E online \in BOOLEAN : Take(online))
    \/ FetchFails \/ BeginCopy \/ CopyFails \/ Resolve \/ WriteLock \/ Roots
    \/ Publish \/ Edit \/ Wipe

Spec == Init /\ [][Next]_vars

---------------------------------------------------------------------------
(* Properties.                                                             *)

Elements(s) == {s[i] : i \in 1 .. Len(s)}
PackageEdges(l, m) == Elements(IF l[m].local THEN LocalDeps[m] ELSE Deps[m][l[m].ver])
Edges(l, S) ==
    {Redirected(e) : e \in {d \in Elements(proj.deps) \cup UNION {PackageEdges(l, m) : m \in S} :
                               d.to \notin proj.exclude}}

(* A lock file that is written is closed and consistent: whatever the      *)
(* project or a whole package in it requires is in it with a version that  *)
(* meets the constraint (or is replaced), and nothing is in it unasked.    *)
LockSound ==
    [][lock' # lock =>
        /\ \A e \in Edges(lock', {m \in DOMAIN lock' : lock'[m].hash # Partial}) :
             /\ e.to \in DOMAIN lock'
             /\ ~lock'[e.to].local => Satisfies(lock'[e.to].ver, e.con)
        /\ \A m \in DOMAIN lock' : \E e \in Edges(lock', DOMAIN lock') : e.to = m]_vars

(* Doc (docs/hao命令.md:231): the version is pinned by the lock.  A build   *)
(* whose dependencies are all in the lock does not change a version there. *)
LockPins ==
    [][cmd = "build" /\ Covered =>
        \A m \in DOMAIN lock : m \in DOMAIN lock' /\ lock'[m].ver = lock[m].ver]_vars

(* No lock is made from a package whose copy was cut short.                *)
WholePackages == lock # NoLock => \A m \in DOMAIN lock : lock[m].hash # Partial
=============================================================================

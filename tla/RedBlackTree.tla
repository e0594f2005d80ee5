---------------------------- MODULE RedBlackTree ----------------------------
(***************************************************************************)
(* collections/RedBlackTree.hao, under TreeMap.  A node is its key: the    *)
(* code moves nodes, never keys.  A turn of a repair loop is a step, and   *)
(* the two mirrored halves of the code are one, told apart by the side d.  *)
(***************************************************************************)
EXTENDS Integers, FiniteSets

CONSTANT MaxKey         \* keys are 1 .. MaxKey
Keys == 1 .. MaxKey
None == 0

VARIABLES
    tree,       \* [root, kid: kid[0] left, kid[1] right, up: parents, red]
    count,
    keys,       \* the keys put and not removed (history)
    pc,         \* "idle", or the repair loop that runs
    cur, xp     \* its x and, after a removal, xParent
vars == <<tree, count, keys, pc, cur, xp>>

Set(f, n, v) == IF n = None THEN f ELSE [f EXCEPT ![n] = v]
IsRed(t, n) == IF n = None THEN FALSE ELSE t.red[n]
Paint(t, n, isRed) == [t EXCEPT !.red = Set(@, n, isRed)]
Side(t, p, n) == IF n = t.kid[0][p] THEN 0 ELSE 1

(* transplant: n's place under its parent goes to m.                       *)
Hang(t, n, m) ==
    IF t.up[n] = None THEN [t EXCEPT !.root = m]
    ELSE [t EXCEPT !.kid[Side(t, t.up[n], n)][t.up[n]] = m]
Transplant(t, n, m) == [Hang(t, n, m) EXCEPT !.up = Set(@, m, t.up[n])]

(* rotateLeft for d = 0, rotateRight for d = 1.                            *)
Rotate(t, n, d) ==
    LET r == t.kid[1 - d][n]
        s == t.kid[d][r]
        hung == Hang(t, n, r)
    IN [hung EXCEPT !.kid[1 - d][n] = s, !.kid[d][r] = n,
                    !.up = [Set(@, s, n) EXCEPT ![r] = t.up[n], ![n] = r]]

(* The search: the last node on the way to k, k itself if it is there.     *)
Seek(k) ==
    LET f[n \in Keys] == LET m == tree.kid[IF k < n THEN 0 ELSE 1][n]
                         IN IF n = k \/ m = None THEN n ELSE f[m]
    IN IF tree.root = None THEN None ELSE f[tree.root]

---------------------------------------------------------------------------
(* put.                                                                    *)

Put(k) ==
    LET y == Seek(k)
        linked == IF y = None THEN [tree EXCEPT !.root = k]
                  ELSE [tree EXCEPT !.kid[IF k < y THEN 0 ELSE 1][y] = k]
    IN /\ pc = "idle" /\ y # k
       /\ tree' = [linked EXCEPT !.up[k] = y, !.red[k] = TRUE]
       /\ count' = count + 1 /\ keys' = keys \cup {k}
       /\ pc' = "insertFixup" /\ cur' = k /\ xp' = None

(* Mutant: an inner grandchild is not rotated out first.                   *)
RaiseOuterOnly(t, x, p, g, d) ==
    Rotate(Paint(Paint(t, p, FALSE), g, TRUE), g, 1 - d)

(* The uncle is black: p's subtree turns until x or p is on top.           *)
Raise(t, x, p, g, d) ==
    LET inner == x = t.kid[1 - d][p]
        s == IF inner THEN Rotate(t, p, d) ELSE t
        top == IF inner THEN x ELSE p
    IN Rotate(Paint(Paint(s, top, FALSE), g, TRUE), g, 1 - d)

InsertFixup ==
    LET p == tree.up[cur]
        g == tree.up[p]
        d == Side(tree, g, p)
        y == tree.kid[1 - d][g]
    IN /\ pc = "insertFixup"
       /\ IF IsRed(tree, p) /\ g # None
          THEN IF IsRed(tree, y)
               THEN /\ tree' = Paint(Paint(Paint(tree, p, FALSE), y, FALSE), g, TRUE)
                    /\ cur' = g /\ UNCHANGED pc
               ELSE /\ tree' = Raise(tree, cur, p, g, d)
                    /\ cur' = (IF cur = tree.kid[1 - d][p] THEN p ELSE cur) /\ UNCHANGED pc
          ELSE tree' = Paint(tree, tree.root, FALSE) /\ pc' = "idle" /\ cur' = None
       /\ UNCHANGED <<count, keys, xp>>

---------------------------------------------------------------------------
(* remove.                                                                 *)

Lowest(n) == LET f[m \in Keys] == IF tree.kid[0][m] = None THEN m ELSE f[tree.kid[0][m]] IN f[n]
Isolated(t, z) == [t EXCEPT !.kid[0][z] = None, !.kid[1][z] = None, !.up[z] = None, !.red[z] = FALSE]

(* What takes z's place: its only child, or the next key.  [t: the tree,   *)
(* x, xp: where blackness is missing, black: whether it is].               *)
Unhooked(z) ==
    LET l == tree.kid[0][z]
        r == tree.kid[1][z]
        y == Lowest(r)
        x == tree.kid[1][y]
        near == tree.up[y] = z
        freed == IF near THEN [tree EXCEPT !.up = Set(@, x, y)]
                 ELSE LET cut == Transplant(tree, y, x)
                      IN [cut EXCEPT !.kid[1][y] = r, !.up[r] = y]
        placed == Transplant(freed, z, y)
    IN IF l = None \/ r = None
       THEN LET only == IF l = None THEN r ELSE l
            IN [t |-> Transplant(tree, z, only), x |-> only, xp |-> tree.up[z], black |-> ~tree.red[z]]
       ELSE [t |-> [placed EXCEPT !.kid[0][y] = l, !.up[l] = y, !.red[y] = tree.red[z]],
             x |-> x, xp |-> IF near THEN y ELSE tree.up[y], black |-> ~tree.red[y]]

Remove(z) ==
    LET u == Unhooked(z)
        t == Isolated(u.t, z)
    IN /\ pc = "idle" /\ tree.root # None /\ Seek(z) = z
       /\ count' = count - 1 /\ keys' = keys \ {z}
       /\ IF u.black
          THEN /\ tree' = t /\ pc' = "deleteFixup"
               /\ cur' = u.x /\ xp' = IF u.x # None THEN t.up[u.x] ELSE u.xp
          ELSE tree' = Paint(t, t.root, FALSE) /\ UNCHANGED <<pc, cur, xp>>

(* One turn for the side d cur is on; w is its sibling.                    *)
DeleteFixup ==
    LET d == Side(tree, xp, cur)
        w0 == tree.kid[1 - d][xp]
        t == IF IsRed(tree, w0) THEN Rotate(Paint(Paint(tree, w0, FALSE), xp, TRUE), xp, d) ELSE tree
        w == t.kid[1 - d][xp]
        far == t.kid[1 - d][w]
        close == t.kid[d][w]
        t1 == IF IsRed(t, far) THEN t
              ELSE Rotate(Paint(Paint(t, close, FALSE), w, TRUE), w, 1 - d)
        w1 == t1.kid[1 - d][xp]
        t2 == Paint(Paint(t1, w1, t1.red[xp]), xp, FALSE)
        over == Rotate(Paint(t2, t2.kid[1 - d][w1], FALSE), xp, d)
        End(s, c) == /\ tree' = Paint(Paint(s, c, FALSE), s.root, FALSE)
                     /\ pc' = "idle" /\ cur' = None /\ xp' = None
    IN /\ pc = "deleteFixup"
       /\ CASE IsRed(tree, cur) \/ cur = tree.root \/ xp = None -> End(tree, cur)
            [] OTHER ->
                 CASE w = None -> End(t, cur)
                   [] w # None /\ ~IsRed(t, far) /\ ~IsRed(t, close) ->
                        /\ tree' = Paint(t, w, TRUE) /\ cur' = xp /\ xp' = t.up[xp] /\ UNCHANGED pc
                   [] OTHER -> tree' = over /\ cur' = over.root /\ xp' = None /\ UNCHANGED pc
       /\ UNCHANGED <<count, keys>>

Init ==
    /\ tree = [root |-> None, kid |-> [d \in 0 .. 1 |-> [k \in Keys |-> None]],
               up |-> [k \in Keys |-> None], red |-> [k \in Keys |-> FALSE]]
    /\ count = 0 /\ keys = {} /\ pc = "idle" /\ cur = None /\ xp = None

Next == (\E k \in Keys : Put(k) \/ Remove(k)) \/ InsertFixup \/ DeleteFixup

Spec == Init /\ [][Next]_vars

---------------------------------------------------------------------------
(* Properties.                                                             *)

(* Between operations: the keys are found in order from the root, no red   *)
(* node has a red child, every way down crosses as many black nodes, and   *)
(* parents and count agree.                                                *)
Shape[n \in 0 .. MaxKey] ==
    IF n = None THEN [keys |-> {}, black |-> 0, ok |-> TRUE]
    ELSE LET a == Shape[tree.kid[0][n]]
             b == Shape[tree.kid[1][n]]
         IN [keys |-> a.keys \cup b.keys \cup {n},
             black |-> a.black + (IF tree.red[n] THEN 0 ELSE 1),
             ok |-> /\ a.ok /\ b.ok /\ a.black = b.black
                    /\ (\A k \in a.keys : k < n) /\ (\A k \in b.keys : n < k)
                    /\ \A d \in 0 .. 1 : LET m == tree.kid[d][n] IN
                         m # None => tree.up[m] = n /\ ~(tree.red[n] /\ tree.red[m])]
RedBlack ==
    pc = "idle" =>
        /\ Shape[tree.root].ok /\ Shape[tree.root].keys = keys /\ count = Cardinality(keys)
        /\ tree.root # None => tree.up[tree.root] = None /\ ~tree.red[tree.root]
=============================================================================

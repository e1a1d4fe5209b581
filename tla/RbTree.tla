------------------------------- MODULE RbTree -------------------------------
(***************************************************************************)
(* The red-black tree (rbtree.c) in which log_io_piece keeps the io_pieces *)
(* of a job sorted by offset.  A node is its key; 0 is NULL.  The loops of *)
(* the search, of rb_insert_color and of __rb_erase_color take one step a  *)
(* turn.  What the code writes twice, for left and for right, is written   *)
(* once for a direction d.                                                 *)
(***************************************************************************)
EXTENDS Integers, FiniteSets

CONSTANT Keys        \* the offsets, from 1

VARIABLES t,         \* the tree
          at         \* where the operation in progress is

vars == <<t, at>>

NULL == 0
Idle == [op |-> "idle"]
left == "left"
right == "right"
Other(d) == IF d = left THEN right ELSE left

IsRed(s, n) == n # NULL /\ s.color[n] = "red"
IsBlack(s, n) == ~IsRed(s, n)
Side(s, p, n) == IF s.child[left][p] = n THEN left ELSE right

\* p's link to n, or the root, now leads to m.
Relink(s, p, n, m) ==
    IF p = NULL THEN [s EXCEPT !.root = m]
    ELSE [s EXCEPT !.child[Side(s, p, n)][p] = m]

SetParent(s, n, p) == IF n = NULL THEN s ELSE [s EXCEPT !.parent[n] = p]
Colored(s, n, c) == IF n = NULL THEN s ELSE [s EXCEPT !.color[n] = c]

\* __rb_rotate_left (d = left) and __rb_rotate_right.
rotate(s, n, d) ==
    LET up == s.child[Other(d)][n]
        p == s.parent[n]
        s1 == SetParent([s EXCEPT !.child[Other(d)][n] = s.child[d][up]],
                        s.child[d][up], n)
        s2 == SetParent([s1 EXCEPT !.child[d][up] = n], up, p)
    IN SetParent(Relink(s2, p, n, up), n, up)

----------------------------------------------------------------------------
(* Insertion *)

Nodes == {n \in Keys : t.parent[n] # NULL \/ t.root = n}

Insert(k) ==
    /\ at = Idle /\ k \notin Nodes
    /\ at' = [op |-> "descend", node |-> k, parent |-> NULL, p |-> t.root]
    /\ UNCHANGED t

\* One turn of the search, and rb_link_node at its end.
Descend ==
    /\ at.op = "descend"
    /\ IF at.p # NULL
       THEN /\ at' = [at EXCEPT !.parent = at.p,
                        !.p = t.child[IF at.node < at.p THEN left ELSE right][at.p]]
            /\ UNCHANGED t
       ELSE LET s == [t EXCEPT !.parent[at.node] = at.parent, !.color[at.node] = "red",
                               !.child[left][at.node] = NULL,
                               !.child[right][at.node] = NULL]
            IN /\ t' = IF at.parent = NULL THEN [s EXCEPT !.root = at.node]
                       ELSE [s EXCEPT !.child[IF at.node < at.parent THEN left ELSE right]
                                             [at.parent] = at.node]
               /\ at' = [op |-> "insert_color", node |-> at.node, turns |-> 0]

\* A turn of rb_insert_color: a red uncle passes the trouble on upwards, else
\* at most two rotations end it.
InsertTurn(s, n) ==
    LET p == s.parent[n]
        g == s.parent[p]
        d == Side(s, g, p)
        u == s.child[Other(d)][g]
        inner == s.child[Other(d)][p] = n
        s1 == IF inner THEN rotate(s, p, d) ELSE s
        top == IF inner THEN n ELSE p
    IN IF IsRed(s, u)
       THEN [t |-> Colored(Colored(Colored(s, u, "black"), p, "black"), g, "red"),
             node |-> g]
       ELSE [t |-> rotate(Colored(Colored(s1, top, "black"), g, "red"), g, Other(d)),
             node |-> IF inner THEN p ELSE n]

rb_insert_color ==
    /\ at.op = "insert_color"
    /\ IF IsRed(t, t.parent[at.node])
       THEN LET r == InsertTurn(t, at.node)
            IN t' = r.t /\ at' = [at EXCEPT !.node = r.node, !.turns = @ + 1]
       ELSE t' = Colored(t, t.root, "black") /\ at' = Idle

----------------------------------------------------------------------------
(* Removal *)

\* The leftmost node below n.
First(s, n) ==
    LET LeftOf[k \in Nat, m \in Keys \cup {NULL}] ==
            IF m = NULL \/ s.child[left][m] = NULL \/ k = 0 THEN m
            ELSE LeftOf[k - 1, s.child[left][m]]
    IN LeftOf[Cardinality(Keys), n]

rb_first == First(t, t.root)

\* A node leaves the tree.
Gone(s, n) ==
    [s EXCEPT !.parent[n] = NULL, !.color[n] = "red",
              !.child[left][n] = NULL, !.child[right][n] = NULL]

\* rb_erase of a node with at most one child, and of one with two: then its
\* successor takes its place and its color.
Unlinked(n) ==
    LET l == t.child[left][n]
        r == t.child[right][n]
        p == t.parent[n]
        child == IF l = NULL THEN r ELSE l
    IN [t |-> Gone(Relink(SetParent(t, child, p), p, n, child), n),
        node |-> child, parent |-> p, color |-> t.color[n]]

Replaced(n) ==
    LET m == First(t, t.child[right][n])
        child == t.child[right][m]
        p == t.parent[m]
        s1 == SetParent(t, child, p)
        s2 == [s1 EXCEPT !.child[IF p = n THEN right ELSE left][p] = child]
        s3 == [s2 EXCEPT !.parent[m] = s2.parent[n], !.color[m] = s2.color[n],
                         !.child[left][m] = s2.child[left][n],
                         !.child[right][m] = s2.child[right][n]]
        s4 == Relink(s3, s3.parent[n], n, m)
        s5 == SetParent(SetParent(s4, s4.child[left][n], m), s4.child[right][n], m)
    IN [t |-> Gone(s5, n), node |-> child,
        parent |-> IF p = n THEN m ELSE p, color |-> t.color[m]]

rb_erase(n) ==
    LET e == IF t.child[left][n] = NULL \/ t.child[right][n] = NULL
             THEN Unlinked(n) ELSE Replaced(n)
    IN /\ at = Idle /\ n \in Nodes
       /\ t' = e.t
       /\ at' = IF e.color = "black"
                THEN [op |-> "erase_color", node |-> e.node, parent |-> e.parent,
                      turns |-> 0]
                ELSE Idle

\* A turn of __rb_erase_color, for a black node that misses a black one above.
EraseTurn(s, n, p) ==
    LET d == Side(s, p, n)
        e == Other(d)
        o1 == s.child[e][p]
        s1 == IF IsRed(s, o1)
              THEN rotate(Colored(Colored(s, o1, "black"), p, "red"), p, d) ELSE s
        o2 == s1.child[e][p]
        s2 == IF IsBlack(s1, s1.child[e][o2])
              THEN rotate(Colored(Colored(s1, s1.child[d][o2], "black"), o2, "red"), o2, e)
              ELSE s1
        o3 == s2.child[e][p]
        s3 == Colored(Colored(Colored(s2, o3, s2.color[p]), p, "black"),
                      s2.child[e][o3], "black")
    IN IF IsBlack(s1, s1.child[left][o2]) /\ IsBlack(s1, s1.child[right][o2])
       THEN [t |-> Colored(s1, o2, "red"), node |-> p, parent |-> s1.parent[p]]
       ELSE LET s4 == rotate(s3, p, d)
            IN [t |-> s4, node |-> s4.root, parent |-> NULL]

\* Mutant: the loop also ends at a black node.
EraseColorStops ==
    /\ at.op = "erase_color"
    /\ t' = Colored(t, at.node, "black") /\ at' = Idle

__rb_erase_color ==
    /\ at.op = "erase_color"
    /\ IF IsBlack(t, at.node) /\ at.node # t.root
       THEN LET r == EraseTurn(t, at.node, at.parent)
            IN /\ t' = r.t
               /\ at' = [at EXCEPT !.node = r.node, !.parent = r.parent, !.turns = @ + 1]
       ELSE t' = Colored(t, at.node, "black") /\ at' = Idle

----------------------------------------------------------------------------
Init ==
    /\ t = [root |-> NULL, parent |-> [n \in Keys |-> NULL],
            color |-> [n \in Keys |-> "red"],
            child |-> [d \in {left, right} |-> [n \in Keys |-> NULL]]]
    /\ at = Idle

Next == \/ \E k \in Keys : Insert(k) \/ rb_erase(k)
        \/ Descend \/ rb_insert_color \/ __rb_erase_color

Spec == Init /\ [][Next]_vars

----------------------------------------------------------------------------
(* Properties *)

\* The nodes below n, by the links downwards.
Below(n) ==
    LET Reach[k \in Nat, m \in Keys \cup {NULL}] ==
            IF m = NULL \/ k = 0 THEN {}
            ELSE {m} \cup Reach[k - 1, t.child[left][m]]
                     \cup Reach[k - 1, t.child[right][m]]
    IN Reach[Cardinality(Keys), n]

\* Between operations the links downwards and upwards agree, no node has been
\* lost, and all keys left of a node are smaller, right of it larger; and
\* rb_first finds the smallest offset.
Sorted ==
    at.op \in {"idle", "insert_color"} =>
        /\ Below(t.root) = Nodes
        /\ \A n \in Nodes :
            /\ rb_first <= n
            /\ \A m \in Below(t.child[left][n]) : m < n
            /\ \A m \in Below(t.child[right][n]) : m > n
            /\ \A d \in {left, right} :
                 t.child[d][n] # NULL => t.parent[t.child[d][n]] = n

\* Between operations no red node has a red child and every way down from the
\* root meets as many black nodes.
Balanced ==
    LET Black[k \in Nat, m \in Keys \cup {NULL}] ==
            IF m = NULL \/ k = 0 THEN {0}
            ELSE {b + (IF IsBlack(t, m) THEN 1 ELSE 0) :
                    b \in Black[k - 1, t.child[left][m]]
                          \cup Black[k - 1, t.child[right][m]]}
    IN at = Idle =>
        /\ IsBlack(t, t.root)
        /\ \A n \in Nodes : IsRed(t, n) => IsBlack(t, t.parent[n])
        /\ Cardinality(Black[Cardinality(Keys), t.root]) = 1

\* The loops that restore the balance end: after no more turns than the tree
\* has levels.
TurnsBounded ==
    LET Height[k \in Nat, m \in Keys \cup {NULL}] ==
            IF m = NULL \/ k = 0 THEN 0
            ELSE 1 + LET l == Height[k - 1, t.child[left][m]]
                         r == Height[k - 1, t.child[right][m]]
                     IN IF l > r THEN l ELSE r
    IN at.op \in {"insert_color", "erase_color"} =>
            at.turns <= Height[Cardinality(Keys), t.root]
=============================================================================
